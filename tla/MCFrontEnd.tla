------------------------------ MODULE MCFrontEnd ------------------------------
(* FrontEnd for model checking; the configurations choose the keys.         *)
EXTENDS FrontEnd
===============================================================================
