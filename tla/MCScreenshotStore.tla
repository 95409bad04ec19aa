-------------------------- MODULE MCScreenshotStore --------------------------
(* The server processes are interchangeable.                               *)
EXTENDS ScreenshotStore, TLC

Symmetry == Permutations(Processes)
=============================================================================
