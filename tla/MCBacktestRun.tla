----------------------------- MODULE MCBacktestRun -----------------------------
(* BacktestRun on small instances; executors are interchangeable. *)
EXTENDS BacktestRun, TLC

Symmetry == Permutations(Exec)
=============================================================================
