----------------------------- MODULE MCListHead -----------------------------
(***************************************************************************)
(* ListHead.tla for TLC: two lists and a few nodes.                        *)
(***************************************************************************)
EXTENDS ListHead

CONSTANTS h1, h2, e1, e2, e3, e4

\* What follows a lost race is not looked at: no property of the run lists
\* says anything of it.
Unraced == ~raced
=============================================================================
