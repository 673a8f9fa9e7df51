----------------------------- MODULE MCGameLoop -----------------------------
(* GameLoop for model checking.                                             *)
EXTENDS GameLoop
=============================================================================
