------------------------------ MODULE RollingBatch ------------------------------
(***************************************************************************)
(* The rolling batch: 1730 planned backtests are submitted a wave at a     *)
(* time; when a wave is over, all finished runs are ranked per chain, the  *)
(* best are retained, the others deleted, and the next wave is admitted    *)
(* (apps/api/src/rolling-batch.ts, driven by apps/api/src/batch-cli.ts).   *)
(*                                                                         *)
(* Advancers are CLI processes, started every minute by a timer and by     *)
(* operators; they exclude each other by a session advisory lock, which    *)
(* PostgreSQL drops when the process dies.  A pause takes no lock.         *)
(*                                                                         *)
(* Abstractions.  A task is its ordinal.  A report is one rank that stands *)
(* for (return, drawdown), higher is better, or Unfit when a figure is     *)
(* missing or not finite.  A run is "open" (pending, running, stopping),   *)
(* "ended" (stopped, failed, cancelled), "completed" or "absent": its      *)
(* inner life is module BacktestRun.  env bounds crashes and database      *)
(* errors, bad disk readings, operators and runs that end early.           *)
(***************************************************************************)
EXTENDS Naturals, FiniteSets

CONSTANTS
  Tasks,      \* ordinals of the manifest
  ChainOf,    \* the chain of each task
  Pilots,     \* tasks whose runs completed before the batch was started
  Keep,       \* keep_per_chain
  BatchSize,  \* batch_size
  Ranks,      \* the scores a report can have
  Unfit,      \* a report that cannot be ranked
  Proc,       \* advancers
  None,       \* no lock holder
  MaxEnv      \* bound: disturbances of the environment

ASSUME TasksFinite == Tasks \subseteq Nat /\ IsFiniteSet(Tasks) /\ Pilots \subseteq Tasks
ASSUME RanksNat    == Ranks \subseteq Nat /\ Unfit \notin Nat
ASSUME SizesNat    == Keep \in Nat \ {0} /\ BatchSize \in Nat \ {0} /\ MaxEnv \in Nat
ASSUME NoneProc    == None \notin Proc

VARIABLES
  control,    \* backtest_batch_control.status, "none" before the first start
  wave,       \* backtest_batch_control.wave
  state,      \* backtest_batch_items.state per task, "none" before the first start
  waveOf,     \* backtest_batch_items.wave
  evidence,   \* the score stored in the ledger, Unfit before there is one
  run,        \* the row of backtest_runs per task
  report,     \* its report; of a deleted run, what the report was
  child,      \* another run names this one as its parent (rerun)
  made,       \* history: how often the run was inserted
  holder,     \* the advancer with the advisory lock
  pc,         \* per advancer: its place in advanceRolling
  env         \* disturbances the environment has left

ledger == <<control, wave, state, waveOf, evidence>>
runs   == <<run, report, child, made>>
vars   == <<ledger, runs, holder, pc, env>>

Listed == {"submitted", "retained"}

\* An operator X_Y next to X is X with one plausible mistake: a variant against which the
\* properties below are tried; no definition uses it.

Goto(p, step) == pc' = [pc EXCEPT ![p] = step]
Spend == env > 0 /\ env' = env - 1

\* finally: the advisory lock is given back.
\* Mutant: an error leaves the lock taken.
Leave_Locked(p) == Goto(p, "idle") /\ UNCHANGED holder
Leave(p) == Goto(p, "idle") /\ holder' = IF holder = p THEN None ELSE holder

-----------------------------------------------------------------------------
(* The ranking.                                                            *)

\* compareScore: better score first, the earlier ordinal among equals.
Beats(s, t, score) == score[s] > score[t] \/ (score[s] = score[t] /\ s < t)

\* winningIds: the first Keep of every chain among the tasks with a ranked report.
\* Mutant: only runs that still exist are ranked.
Winners_WaveOnly(score) ==
  LET judged == {t \in Tasks : score[t] # Unfit /\ state[t] = "submitted"}
      Better(t) == {s \in judged : ChainOf[s] = ChainOf[t] /\ Beats(s, t, score)}
  IN  {t \in judged : Cardinality(Better(t)) < Keep}
Winners(score) ==
  LET judged == {t \in Tasks : score[t] # Unfit}
      Better(t) == {s \in judged : ChainOf[s] = ChainOf[t] /\ Beats(s, t, score)}
  IN  {t \in judged : Cardinality(Better(t)) < Keep}

\* planned.slice: the first BatchSize planned tasks by ordinal.  The code takes them from
\* the rows the settlement read; the lock keeps the ledger as it was until they are used.
\* Mutant: pruned tasks are taken again.
Batch_Tombstones ==
  LET open == {t \in Tasks : state[t] \in {"planned", "pruned"}}
  IN  {t \in open : Cardinality({s \in open : s < t}) < BatchSize}
Batch ==
  LET planned == {t \in Tasks : state[t] = "planned"}
  IN  {t \in planned : Cardinality({s \in planned : s < t}) < BatchSize}

-----------------------------------------------------------------------------
(* Operators.                                                              *)

\* initializeRolling: it waits for the advisory lock.  The first start imports the runs
\* that exist as wave 0; a later one resumes a paused batch.
Start ==
  /\ holder = None
  /\ \/ /\ control = "none"
        /\ control' = "active"
        /\ state'  = [t \in Tasks |-> IF run[t] = "absent" THEN "planned" ELSE "submitted"]
        /\ UNCHANGED env
     \/ /\ control = "paused" /\ Spend
        /\ control' = "active"
        /\ UNCHANGED state
  /\ UNCHANGED <<wave, waveOf, evidence, runs, holder, pc>>

\* batch-cli pause: a single UPDATE, at any moment of a running advance.
Pause ==
  /\ Spend
  /\ control = "active"
  /\ control' = "paused"
  /\ UNCHANGED <<wave, state, waveOf, evidence, runs, holder, pc>>

-----------------------------------------------------------------------------
(* advanceRolling: one settle, prune and admit cycle.                      *)

\* batch-cli advance: nothing to do unless the batch is active; the manifest is verified.
Call(p) ==
  /\ pc[p] = "idle"
  /\ control = "active"
  /\ Goto(p, "called")
  /\ UNCHANGED <<ledger, runs, holder, env>>

\* pg_try_advisory_lock; an advancer that does not get it reports busy and ends.
LockFree == holder = None

TryLock(p) ==
  /\ pc[p] = "called"
  /\ IF LockFree THEN holder' = p /\ Goto(p, "control")
                 ELSE Goto(p, "idle") /\ UNCHANGED holder
  /\ UNCHANGED <<ledger, runs, env>>

\* The batch's status under the lock: another advancer may just have finished it.
ReadControl(p) ==
  /\ pc[p] = "control"
  /\ IF control = "active" THEN Goto(p, "check") /\ UNCHANGED holder ELSE Leave(p)
  /\ UNCHANGED <<ledger, runs, env>>

\* An error thrown in advanceRolling: ROLLBACK, the batch is paused, whatever its status.
Refuse(p) == control' = "paused" /\ Leave(p)

Open == {t \in Tasks : state[t] \in Listed /\ run[t] = "open"}

\* The runs of the ledger: missing, stopped or failed ones pause the batch, open ones
\* make it wait, else the wave is over.
CheckRuns(p) ==
  /\ pc[p] = "check"
  /\ IF \E t \in Tasks : state[t] \in Listed /\ run[t] \in {"absent", "ended"}
     THEN Refuse(p)
     ELSE /\ IF Open # {} THEN Leave(p) ELSE Goto(p, "settle") /\ UNCHANGED holder
          /\ UNCHANGED control
  /\ UNCHANGED <<wave, state, waveOf, evidence, runs, env>>

\* The scores after this settlement: those of the ledger's runs are written anew.
Scores == [t \in Tasks |-> IF state[t] \in Listed THEN report[t] ELSE evidence[t]]

Losers == {t \in Tasks : state[t] \in Listed} \ Winners(Scores)

\* What rolls the settlement back: a report without its figures, a ranking that wants a
\* deleted run back, a loser that is the parent of another run (foreign key).
Unsettled ==
  \/ \E t \in Tasks : state[t] \in Listed /\ report[t] = Unfit
  \/ \E t \in Winners(Scores) : state[t] = "pruned"
  \/ \E t \in Losers : child[t]

\* The ledger after a settlement: evidence and tombstones commit with the deletions.
Settled == Scores

\* One transaction: evidence of every finished run, winners retained, losers deleted.
Settle(p) ==
  /\ pc[p] = "settle"
  /\ IF Unsettled
     THEN Refuse(p) /\ UNCHANGED <<state, evidence, run>>
     ELSE /\ evidence' = Settled
          /\ state' = [t \in Tasks |-> IF t \in Losers THEN "pruned"
                                       ELSE IF state[t] \in Listed THEN "retained"
                                       ELSE state[t]]
          /\ run' = [t \in Tasks |-> IF t \in Losers THEN "absent" ELSE run[t]]
          /\ Goto(p, "plan")
          /\ UNCHANGED <<control, holder>>
  /\ UNCHANGED <<wave, waveOf, report, child, made, env>>

\* Nothing planned: the batch is completed, even if it was paused meanwhile.
Complete(p) ==
  /\ pc[p] = "plan" /\ Batch = {}
  /\ control' = "completed"
  /\ Leave(p)
  /\ UNCHANGED <<wave, state, waveOf, evidence, runs, env>>

\* The space budget of the next wave holds, or the batch is paused.
Budget(p) ==
  /\ pc[p] = "plan" /\ Batch # {}
  /\ \/ Goto(p, "admit") /\ UNCHANGED <<control, holder, env>>
     \/ Spend /\ Refuse(p)
  /\ UNCHANGED <<wave, state, waveOf, evidence, runs>>

\* Mutant: the status read at the start of the cycle decides.
MayAdmit_NotRechecked == TRUE
MayAdmit == control = "active"

\* One transaction: the control row FOR UPDATE, then the runs and the ledger of the next
\* wave; a run that already exists rolls it back.
Admit(p) ==
  /\ pc[p] = "admit"
  /\ IF ~MayAdmit
     THEN Leave(p) /\ UNCHANGED <<ledger, run, made>>
     ELSE IF \E t \in Batch : run[t] # "absent"
     THEN Refuse(p) /\ UNCHANGED <<wave, state, waveOf, evidence, run, made>>
     ELSE /\ run'    = [t \in Tasks |-> IF t \in Batch THEN "open" ELSE run[t]]
          /\ made'   = [t \in Tasks |-> IF t \in Batch THEN made[t] + 1 ELSE made[t]]
          /\ state'  = [t \in Tasks |-> IF t \in Batch THEN "submitted" ELSE state[t]]
          /\ waveOf' = [t \in Tasks |-> IF t \in Batch THEN wave + 1 ELSE waveOf[t]]
          /\ wave'   = wave + 1
          /\ Goto(p, "enqueue")
          /\ UNCHANGED <<control, evidence, holder>>
  /\ UNCHANGED <<report, child, env>>

\* The jobs are added after COMMIT; the reconciler adds those that are lost here.
Enqueue(p) ==
  /\ pc[p] = "enqueue"
  /\ Leave(p)
  /\ UNCHANGED <<ledger, runs, env>>

\* A query, the VACUUM, or an add to the queue throws; before the lock it is batch-cli
\* that pauses, and only an active batch.
Error(p) ==
  /\ Spend
  /\ pc[p] # "idle"
  /\ IF pc[p] = "called"
     THEN Leave(p) /\ control' = IF control = "active" THEN "paused" ELSE control
     ELSE Refuse(p)
  /\ UNCHANGED <<wave, state, waveOf, evidence, runs>>

\* The process dies, or loses the database for the last UPDATE too.
Crash(p) ==
  /\ Spend
  /\ pc[p] # "idle"
  /\ Leave(p)
  /\ UNCHANGED <<ledger, runs>>

-----------------------------------------------------------------------------
(* The runs, as BacktestRun drives them, and their users.                  *)

Finish(t) ==
  /\ run[t] = "open"
  /\ run' = [run EXCEPT ![t] = "completed"]
  /\ \E r \in Ranks \cup {Unfit} :
       /\ report' = [report EXCEPT ![t] = r]
       /\ IF r = Unfit THEN Spend ELSE UNCHANGED env
  /\ UNCHANGED <<ledger, child, made, holder, pc>>

\* Stopped by a user, or failed.
End(t) ==
  /\ Spend
  /\ run[t] = "open"
  /\ run' = [run EXCEPT ![t] = "ended"]
  /\ UNCHANGED <<ledger, report, child, made, holder, pc>>

\* retryRun.
Retry(t) ==
  /\ Spend
  /\ run[t] = "ended"
  /\ run' = [run EXCEPT ![t] = "open"]
  /\ UNCHANGED <<ledger, report, child, made, holder, pc>>

\* rerun: a new run, outside the batch, with this one as its parent.
Rerun(t) ==
  /\ Spend
  /\ run[t] # "absent" /\ ~child[t]
  /\ child' = [child EXCEPT ![t] = TRUE]
  /\ UNCHANGED <<ledger, run, report, made, holder, pc>>

-----------------------------------------------------------------------------
\* Before the first start only the pilots have runs, all completed.
Init ==
  /\ control = "none" /\ wave = 0
  /\ state = [t \in Tasks |-> "none"]
  /\ waveOf = [t \in Tasks |-> 0]
  /\ evidence = [t \in Tasks |-> Unfit]
  /\ run = [t \in Tasks |-> IF t \in Pilots THEN "completed" ELSE "absent"]
  /\ report \in {f \in [Tasks -> Ranks \cup {Unfit}] : \A t \in Tasks : t \in Pilots <=> f[t] # Unfit}
  /\ child = [t \in Tasks |-> FALSE]
  /\ made = [t \in Tasks |-> IF t \in Pilots THEN 1 ELSE 0]
  /\ holder = None
  /\ pc = [p \in Proc |-> "idle"]
  /\ env = MaxEnv

Advance(p) ==
  \/ Call(p) \/ TryLock(p) \/ ReadControl(p) \/ CheckRuns(p) \/ Settle(p)
  \/ Complete(p) \/ Budget(p) \/ Admit(p) \/ Enqueue(p)

Next ==
  \/ Start \/ Pause
  \/ \E p \in Proc : Advance(p) \/ Error(p) \/ Crash(p)
  \/ \E t \in Tasks : Finish(t) \/ End(t) \/ Retry(t) \/ Rerun(t)

Spec == Init /\ [][Next]_vars

\* The timer starts an advance after every minute and a started one goes on; an open run
\* comes to an end (ComesToRest of BacktestRun).  Nothing is assumed of operators.
Fairness ==
  /\ \A p \in Proc : WF_vars(Advance(p))
  /\ \A t \in Tasks : WF_vars(Finish(t))

FairSpec == Spec /\ Fairness
-----------------------------------------------------------------------------
TypeOK ==
  /\ control \in {"none", "active", "paused", "completed"} /\ wave \in Nat
  /\ state \in [Tasks -> Listed \cup {"none", "planned", "pruned"}]
  /\ waveOf \in [Tasks -> Nat]
  /\ evidence \in [Tasks -> Ranks \cup {Unfit}]
  /\ run \in [Tasks -> {"absent", "open", "ended", "completed"}]
  /\ report \in [Tasks -> Ranks \cup {Unfit}]
  /\ child \in [Tasks -> BOOLEAN] /\ made \in [Tasks -> Nat]
  /\ holder \in Proc \cup {None}
  /\ pc \in [Proc -> {"idle", "called", "control", "check", "settle", "plan", "admit",
                      "enqueue"}]
  /\ env \in Nat

(* Safety.                                                                 *)

\* Pruning never costs a leader: whatever was deleted over all waves, Keep runs of its
\* chain that rank before it are still there, complete (advanceRolling, winningIds).
LeadersSurvive ==
  \A t \in Tasks : state[t] = "pruned" =>
    Cardinality({s \in Tasks : /\ ChainOf[s] = ChainOf[t] /\ state[s] = "retained"
                              /\ run[s] = "completed" /\ Beats(s, t, report)}) >= Keep

\* A deleted run leaves its score behind: the ledger still ranks it by what its report was.
EvidenceOutlives ==
  \A t \in Tasks : state[t] = "pruned" => run[t] = "absent" /\ evidence[t] = report[t]

\* No task is executed twice: neither a pruned one nor one admitted by two advancers.
RunOnce == \A t \in Tasks : made[t] <= 1

\* Waves do not overlap: what is submitted belongs to one wave, within its size.
OneWave ==
  /\ \A s, t \in Tasks : state[s] = "submitted" /\ state[t] = "submitted" =>
       waveOf[s] = waveOf[t]
  /\ wave > 0 => Cardinality({t \in Tasks : state[t] = "submitted"}) <= BatchSize

\* A completed batch has ranked every task, and retains at most Keep runs of a chain.
DoneMeansDone ==
  control = "completed" =>
    \A t \in Tasks :
      /\ state[t] \in {"retained", "pruned"} /\ evidence[t] = report[t] /\ report[t] # Unfit
      /\ Cardinality({s \in Tasks : ChainOf[s] = ChainOf[t] /\ state[s] = "retained"}) <= Keep

\* Pruning keeps the leaders and the evidence of what it deletes (advanceRolling).
LeadersKept == LeadersSurvive /\ EvidenceOutlives

\* The waves of a batch follow one another, run every task once and rank all of them,
\* whoever advances and wherever a cycle is cut off.
WavesInOrder == RunOnce /\ OneWave /\ DoneMeansDone

(* Action properties.                                                      *)

\* A paused batch never adds work: not even the advance that was planning when the pause
\* came.
PausedAdmitsNothing ==
  [][control = "paused" => \A t \in Tasks : run[t] = "absent" => run'[t] = "absent"]_vars

\* Only completed runs are deleted, and none that another run refers to; the failed and
\* the stopped stay as evidence.
DeletesOnlyLosers ==
  [][\A t \in Tasks : run[t] # "absent" /\ run'[t] = "absent" =>
       run[t] = "completed" /\ ~child[t] /\ evidence'[t] = report[t]]_vars

\* A cycle acts on what is true when it commits, not on what it read: it neither admits
\* to a paused batch nor deletes a run that changed since (lines 59-73).
CommitsOnFreshReads == PausedAdmitsNothing /\ DeletesOnlyLosers

(* Liveness.                                                               *)

\* An active batch comes to an end or is paused: no advance waits for ever on another,
\* and every wave that ends is followed by the next.
BatchEnds == control = "active" ~> control \in {"paused", "completed"}
=============================================================================
