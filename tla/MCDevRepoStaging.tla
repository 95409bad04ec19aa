-------------------------- MODULE MCDevRepoStaging --------------------------
(* Instances of DevRepoStaging for TLC. *)
EXTENDS DevRepoStaging, TLC

StagingSymmetry == Permutations(Stagers)
=============================================================================
