--------------------------- MODULE MCClientSession ---------------------------
(* ClientSession for model checking.                                        *)
EXTENDS ClientSession
=============================================================================
