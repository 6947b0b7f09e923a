-------------------------------- MODULE MCVm --------------------------------
(***************************************************************************)
(* Vm with four pages, that are interchangeable, and 16 addresses in pages *)
(* of two, half of them the kernel's.                                      *)
(***************************************************************************)
EXTENDS Vm, TLC

PageSymmetry == Permutations(Page)
=============================================================================
