------------------------ MODULE MCRepositorySnapshot ------------------------
(***************************************************************************)
(* The actors and operations of a run are told apart by their names only,  *)
(* but a run that checks a liveness property uses no symmetry.             *)
(***************************************************************************)
EXTENDS RepositorySnapshot
=============================================================================
