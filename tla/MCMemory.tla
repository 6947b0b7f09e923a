------------------------------ MODULE MCMemory ------------------------------
(***************************************************************************)
(* Memory with blocks of up to four pages.  As in the build, where the     *)
(* kernel and the struct pages take a multiple of 16 pages, all that is    *)
(* taken before init_buddy is a multiple of the largest block.             *)
(***************************************************************************)
EXTENDS Memory
=============================================================================
