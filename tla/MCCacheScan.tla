---------------------------- MODULE MCCacheScan ----------------------------
(* Small instances of CacheScan for TLC. *)
EXTENDS CacheScan, TLC

CONSTANTS t1, t2, f1

Symmetry == Permutations(Threads)
=============================================================================
