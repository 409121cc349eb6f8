---------------------------- MODULE MCRollingBatch ----------------------------
(* RollingBatch with five tasks on two chains, one of them a pilot.         *)
EXTENDS RollingBatch, TLC

MCTasks == 1..5
MCChainOf == [t \in MCTasks |-> IF t \in {2, 5} THEN "robin" ELSE "sol"]
MCPilots == {1}
MCRanks == {1, 2}

Symmetry == Permutations(Proc)
=============================================================================
