---- MODULE MCMemeMarket ----
(* MemeMarket with interchangeable projects. *)
EXTENDS MemeMarket, TLC
Symmetry == Permutations(Projects)
====
