--------------------------- MODULE MCEntityManager ---------------------------
(***************************************************************************)
(* EntityManager with few enough entities for TLC; see EntityManager.cfg.  *)
(***************************************************************************)
EXTENDS EntityManager

=============================================================================
