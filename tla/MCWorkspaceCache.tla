--------------------------- MODULE MCWorkspaceCache ---------------------------
(* Small instances of WorkspaceCache for TLC. *)
EXTENDS WorkspaceCache

CONSTANTS s1, s2, f1
=============================================================================
