-------------------------- MODULE MCApplyWorkflow --------------------------
(***************************************************************************)
(* One call of any of the three workflows and a restart, on one Kodi.      *)
(***************************************************************************)
EXTENDS ApplyWorkflow
=============================================================================
