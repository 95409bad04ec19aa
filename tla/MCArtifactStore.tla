-------------------------- MODULE MCArtifactStore --------------------------
(***************************************************************************)
(* Two registrars, two ids, two suffixes and two contents.                 *)
(***************************************************************************)
EXTENDS ArtifactStore, TLC

StoreSymmetry ==
    Permutations(Registrars) \cup Permutations(Ids)
        \cup Permutations(Suffixes) \cup Permutations(Contents)
=============================================================================
