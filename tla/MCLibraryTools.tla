--------------------------- MODULE MCLibraryTools ---------------------------
(***************************************************************************)
(* One tool call beside other clients of one Kodi.                         *)
(***************************************************************************)
EXTENDS LibraryTools

=============================================================================
