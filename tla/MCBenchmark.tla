---------------------------- MODULE MCBenchmark ----------------------------
(* Small instances of Benchmark for TLC. *)
EXTENDS Benchmark, TLC

CONSTANTS c1, c2

BothCases == {<<c2, c1>>}

=============================================================================
