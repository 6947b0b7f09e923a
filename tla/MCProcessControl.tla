-------------------------- MODULE MCProcessControl --------------------------
(***************************************************************************)
(* ProcessControl.tla for TLC: idle, init and a few tasks that come and    *)
(* go.                                                                     *)
(***************************************************************************)
EXTENDS ProcessControl, TLC

CONSTANTS idle, init, a, b, none

\* Tasks created by the shell are interchangeable.
Symmetry == Permutations(Task \ {IdleTask, InitTask})
=============================================================================
