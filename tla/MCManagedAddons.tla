--------------------------- MODULE MCManagedAddons ---------------------------
(* Instances of ManagedAddons for TLC. *)
EXTENDS ManagedAddons, TLC

ManagedSymmetry == Permutations(Workers)
=============================================================================
