---------------------------- MODULE MCFreshness ----------------------------
(* Small instances of Freshness for TLC. *)
EXTENDS Freshness, TLC

CONSTANTS e1, e2

Symmetry == Permutations(Contents)
=============================================================================
