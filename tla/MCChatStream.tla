----------------------------- MODULE MCChatStream -----------------------------
(* Small instances of ChatStream for TLC. *)
EXTENDS ChatStream

CONSTANTS c1, c2

\* Text may be left over from the first turn, so the second needs none.
TextFirst == <<1, 0>>
=============================================================================
