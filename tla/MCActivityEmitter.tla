--------------------------- MODULE MCActivityEmitter ---------------------------
(* Small instances of ActivityEmitter for TLC. *)
EXTENDS ActivityEmitter, TLC

CONSTANTS r1, r2

\* Both runs are of one tool: that is when their ids can clash.
SameTool == [r \in Run |-> "find_accounts"]

Symmetry == Permutations({r1, r2})
=============================================================================
