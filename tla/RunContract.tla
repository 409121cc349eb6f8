------------------------------ MODULE RunContract ------------------------------
(***************************************************************************)
(* What a user of the backtest API may rely on, with no executor, lease,   *)
(* queue or checkpoint in sight: the stored result rows of a run grow in   *)
(* input order, each row once; a run asked to stop ends without a report;  *)
(* a completed run holds every row and is published once.  As long as the  *)
(* request that created it is not over, it may still be declared failed,   *)
(* even a completed one; after that a completed run never changes again    *)
(* (docs/resumable-backtests.md, as the code of packages/runtime and       *)
(* createBacktest keep it).                                                *)
(***************************************************************************)
EXTENDS Naturals

CONSTANT Ticks      \* time steps of the frozen input

VARIABLES
  phase,      \* "open", "closing" (a stop was requested), "closed" or "published"
  stored,     \* how often the result row of each step is stored
  owed        \* the request that created the run may still declare it failed

Final == Ticks + 1

\* Exactly the rows of the first n steps, once each.
Prefix(n) == [t \in 1..Final |-> IF t <= n THEN 1 ELSE 0]

Init == phase = "open" /\ stored = Prefix(0) /\ owed = TRUE

\* A batch: any further part of the input, never the closing row of a report.
Extend ==
  /\ phase \in {"open", "closing"}
  /\ \E n \in 0..Ticks : /\ \A t \in 1..Final : stored[t] <= Prefix(n)[t]
                         /\ stored' = Prefix(n)
  /\ UNCHANGED <<phase, owed>>

RequestStop == phase = "open" /\ phase' = "closing" /\ UNCHANGED <<stored, owed>>

\* The run ends short of its report: stopped, or failed.
Close == phase \in {"open", "closing"} /\ phase' = "closed" /\ UNCHANGED <<stored, owed>>

Reopen == phase = "closed" /\ phase' = "open" /\ UNCHANGED <<stored, owed>>

Publish ==
  /\ phase = "open" /\ stored[Final] = 0
  /\ phase' = "published" /\ stored' = Prefix(Final)
  /\ UNCHANGED owed

\* The request that created the run is over.
Answer == owed /\ owed' = FALSE /\ UNCHANGED <<phase, stored>>

\* It declares the run failed, whatever the run has come to; no row goes away.
Disown == owed /\ owed' = FALSE /\ phase' = "closed" /\ UNCHANGED stored

Next == Extend \/ RequestStop \/ Close \/ Reopen \/ Publish \/ Answer \/ Disown

Spec == Init /\ [][Next]_<<phase, stored, owed>>
=============================================================================
