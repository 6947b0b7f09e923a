----------------------------- MODULE MCFsCache ------------------------------
(***************************************************************************)
(* FsCache.tla for TLC: two buffers for three clusters of two sectors, in  *)
(* a partition that starts at sector 1.                                    *)
(***************************************************************************)
EXTENDS FsCache
=============================================================================
