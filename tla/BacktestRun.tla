------------------------------ MODULE BacktestRun ------------------------------
(***************************************************************************)
(* The life of one row of backtest_runs: the durable protocol by which     *)
(* several worker processes, the API and the reconciler drive one backtest *)
(* to its final report (packages/runtime/src/index.ts and runner.ts, the   *)
(* job handler of apps/worker/src/main.ts), from the request that creates  *)
(* the row (createBacktest of apps/api/src/main.ts).                       *)
(*                                                                         *)
(* PostgreSQL is the only authority.  BullMQ delivers a job at least once  *)
(* and merely invites an executor to claim the row.  An executor owns the  *)
(* row by the pair (execution_epoch, lease_until): every write of results  *)
(* is a transaction that re-reads that pair under FOR UPDATE.              *)
(*                                                                         *)
(* Abstractions.  The frozen input is a sequence of Ticks time steps, one  *)
(* result row per step, and row Ticks + 1 stands for what                  *)
(* finalizeOpenPositions adds to the last batch.  The clock is the         *)
(* three-valued lease: "live" (lease_until > now()), "expired" and "none"  *)
(* (NULL).  Everything the environment may do (crashes, stalls, database   *)
(* errors, operators, writes to the candle table) draws on one budget,     *)
(* env, so that the program's own steps need no bound.                     *)
(***************************************************************************)
EXTENDS Naturals

CONSTANTS
  Exec,     \* worker processes (concurrency 1 each)
  Pools,    \* the pools of config.symbols
  Ticks,    \* time steps of the frozen input
  MaxEnv,   \* bound: disturbances of the environment
  None      \* no executor, no frozen pool

ASSUME TicksAssumption == Ticks \in Nat
ASSUME EnvAssumption   == MaxEnv \in Nat
ASSUME NoneAssumption  == None \notin Exec /\ None \notin Nat

VARIABLES
  status, epoch, lease, dispatch, streak, inputReady,  \* backtest_runs
  rowLock,    \* the executor whose transaction holds the row FOR UPDATE
  source,     \* version of public.meme_kline, which upserts advance
  frozen,     \* backtest_input_pools: source version frozen per pool
  batches,    \* backtest_result_batches, with the input they were computed on
  ckpt,       \* backtest_checkpoints: batch number and position
  rows,       \* result rows stored per time step
  reported,   \* backtest_reports has the final report
  waiting, known, outbox, burnt,   \* BullMQ job ids, and adds on their way to it
  creating,   \* how far createBacktest is with the row it inserted
  pc, job, my,            \* per executor: step of executeRun, its job, claimed epoch
  eng,                    \* per executor: the engine and the transaction it has open
  stopping, lost, beat,   \* per executor: flags of executeRun, heartbeat in flight
  shut,                   \* per executor: SIGTERM received
  env                     \* disturbances the environment has left

rowVars   == <<status, epoch, lease, dispatch, streak, inputReady>>
dataVars  == <<frozen, batches, ckpt, rows, reported>>
queueVars == <<waiting, known, outbox, burnt>>
workVars  == <<pc, job, my, eng>>
flagVars  == <<stopping, lost, beat, shut>>
vars == <<rowVars, rowLock, source, dataVars, queueVars, creating, workVars, flagVars, env>>

Held     == {"running", "stopping"}           \* the statuses a lease can cover
Statuses == Held \cup {"pending", "stopped", "failed", "completed"}
Final    == Ticks + 1
Goals    == {"batch", "final", "handover"}    \* the three calls of save

\* The variables of one executeRun before it has an engine: consumed time steps, those
\* already durable, the last batch number; which save is running and what its fence read;
\* the pool being frozen; whether the lease was valid when the transaction began.
Fresh == [pos |-> 0, base |-> 0, batchNo |-> 0, goal |-> "batch", seen |-> "running",
          snap |-> None, early |-> FALSE]

\* An operator X_Y next to X is X with one plausible mistake: a variant against which the
\* properties below are tried; no definition uses it.

\* The row still names w as its executor.
Named(w) == my[w] = epoch /\ status \in Held

\* ... and its lease is valid for a statement that starts now.
Leased(w) == Named(w) /\ lease = "live"

\* What the last UPDATEs of executeRun look at: the executor and its lease, not the status.
Holds(w) == my[w] = epoch /\ lease = "live"

\* fenced: now() is the start of the transaction, so a lease that ran out since passes.
\* Mutant: the fence does not compare the executor.
Passes_NoEpoch(w) == status \in Held /\ (eng[w].early \/ lease = "live")
Passes(w) == Named(w) /\ (eng[w].early \/ lease = "live")

\* No transaction holds the row FOR UPDATE.
\* Mutant: the fence does not lock the row.
RowFree_Ignored == TRUE
RowFree == rowLock = None

Engaged(w) == pc[w] \notin {"idle", "claim", "ack"}

\* check() lets w go on.
Clear(w) == ~lost[w] /\ ~stopping[w] /\ ~shut[w]

\* The interruption check() tests for.
Asked(w) == stopping[w] \/ shut[w]

\* The row leaves its executor for good, and its next job gets an id of its own.
Requeue == epoch' = epoch + 1 /\ dispatch' = dispatch + 1

Goto(w, step) == pc' = [pc EXCEPT ![w] = step]

\* The variables of one executeRun, its timer included, go out of scope.
Forget(w) ==
  /\ Goto(w, "idle")
  /\ job'  = [job EXCEPT ![w] = 0]
  /\ my'   = [my EXCEPT ![w] = 0]
  /\ eng'  = [eng EXCEPT ![w] = Fresh]
  /\ beat' = [beat EXCEPT ![w] = "idle"]
  /\ stopping' = [stopping EXCEPT ![w] = FALSE]
  /\ lost'     = [lost EXCEPT ![w] = FALSE]

Spend == env > 0 /\ env' = env - 1

-----------------------------------------------------------------------------
(* The job queue.                                                          *)

\* enqueue: BullMQ ignores an add whose jobId it still knows.
Enqueue(d) ==
  /\ d \in outbox
  /\ outbox'  = outbox \ {d}
  /\ waiting' = waiting \cup ({d} \ known)
  /\ known'   = known \cup {d}
  /\ UNCHANGED <<rowVars, rowLock, source, dataVars, burnt, workVars, flagVars, env,
                 creating>>

\* The process that was about to add a job dies first.
LoseOutbox(d) ==
  /\ Spend
  /\ d \in outbox
  /\ outbox' = outbox \ {d}
  /\ UNCHANGED <<rowVars, rowLock, source, dataVars, waiting, known, burnt, workVars,
                 flagVars, creating>>

TakeJob(w, d) ==
  /\ pc[w] = "idle" /\ ~shut[w]
  /\ d \in waiting
  /\ waiting' = waiting \ {d}
  /\ Goto(w, "claim")
  /\ job' = [job EXCEPT ![w] = d]
  /\ UNCHANGED <<rowVars, rowLock, source, dataVars, known, outbox, burnt, my, eng,
                 flagVars, env, creating>>

\* createBacktest: the add of the first job, the row being there for everybody else already.
FirstAdd ==
  /\ creating = "adding"
  /\ creating' = "done"
  /\ waiting' = waiting \cup ({0} \ known)
  /\ known'   = known \cup {0}
  /\ UNCHANGED <<rowVars, rowLock, source, dataVars, outbox, burnt, workVars, flagVars, env>>

\* The add throws: it was refused, or its answer was lost.
FirstAddThrows ==
  /\ Spend
  /\ creating = "adding"
  /\ creating' = "refused"
  /\ \/ UNCHANGED <<waiting, known>>
     \/ waiting' = waiting \cup ({0} \ known) /\ known' = known \cup {0}
  /\ UNCHANGED <<rowVars, rowLock, source, dataVars, outbox, burnt, workVars, flagVars>>

\* createBacktest's UPDATE after a failed add: by id alone, whatever the run has come to.
DeclareFailed ==
  /\ creating = "refused"
  /\ RowFree
  /\ status' = "failed"
  /\ creating' = "disowned"
  /\ UNCHANGED <<epoch, lease, dispatch, streak, inputReady, rowLock, source, dataVars,
                 queueVars, workVars, flagVars, env>>

\* The API process dies before the add, or before that UPDATE.
CreatorDies ==
  /\ Spend
  /\ creating \in {"adding", "refused"}
  /\ creating' = "done"
  /\ UNCHANGED <<rowVars, rowLock, source, dataVars, queueVars, workVars, flagVars>>

\* executeRun is over; the job becomes completed or failed and its id stays known.
Ack(w) ==
  /\ pc[w] = "ack"
  /\ Forget(w)
  /\ UNCHANGED <<rowVars, rowLock, source, dataVars, queueVars, shut, env, creating>>

-----------------------------------------------------------------------------
(* executeRun: claim, freeze the input, load the checkpoint, compute.      *)

Claim(w) ==
  /\ pc[w] = "claim"
  /\ IF status = "pending"
     THEN /\ status' = "running"
          /\ epoch'  = epoch + 1
          /\ lease'  = "live"
          /\ my'     = [my EXCEPT ![w] = epoch + 1]
          /\ Goto(w, IF inputReady THEN "load" ELSE "freeze")
     ELSE Goto(w, "ack") /\ UNCHANGED <<status, epoch, lease, my>>
  /\ UNCHANGED <<dispatch, streak, inputReady, rowLock, source, dataVars, queueVars,
                 job, eng, flagVars, env, creating>>

\* freeze: BEGIN and the cursor's snapshot of one pool not yet in the manifest.
FreezeRead(w, p) ==
  /\ pc[w] = "freeze" /\ Clear(w)
  /\ eng[w].snap = None /\ frozen[p] = None
  /\ eng' = [eng EXCEPT ![w].snap = [pool |-> p, ver |-> source],
                        ![w].early = (lease = "live")]
  /\ UNCHANGED <<rowVars, rowLock, source, dataVars, queueVars, pc, job, my, flagVars, env,
                 creating>>

\* Under the fence the insert into backtest_input_pools succeeds.
MayFreeze(w) == Passes(w) /\ frozen[eng[w].snap.pool] = None

\* freeze: fenced, the manifest row under its primary key, COMMIT; else ROLLBACK.
FreezeCommit(w) ==
  /\ pc[w] = "freeze" /\ Clear(w)
  /\ eng[w].snap # None
  /\ RowFree
  /\ IF MayFreeze(w)
     THEN frozen' = [frozen EXCEPT ![eng[w].snap.pool] = eng[w].snap.ver] /\ UNCHANGED pc
     ELSE Goto(w, "ack") /\ UNCHANGED frozen
  /\ eng' = [eng EXCEPT ![w].snap = None, ![w].early = FALSE]
  /\ UNCHANGED <<rowVars, rowLock, source, batches, ckpt, rows, reported, queueVars,
                 job, my, flagVars, env, creating>>

\* Mutant: one frozen pool counts as a frozen input.
AllFrozen_Some == \E p \in Pools : frozen[p] # None
AllFrozen == \A p \in Pools : frozen[p] # None

\* freeze: input_ready, once every pool is in the manifest.
FreezeDone(w) ==
  /\ pc[w] = "freeze" /\ eng[w].snap = None
  /\ RowFree
  /\ AllFrozen
  /\ inputReady' = (inputReady \/ Leased(w))
  /\ Goto(w, IF Leased(w) THEN "load" ELSE "ack")
  /\ UNCHANGED <<status, epoch, lease, dispatch, streak, rowLock, source, dataVars,
                 queueVars, job, my, eng, flagVars, env, creating>>

\* executeRun: the engine restarts from the last committed checkpoint, if any.
\* Mutant: the checkpoint is not read.
ResumePoint_Start == 0
ResumePoint == ckpt.pos

Load(w) ==
  /\ pc[w] = "load" /\ Clear(w)
  /\ eng' = [eng EXCEPT ![w].pos = ResumePoint, ![w].base = ResumePoint,
                        ![w].batchNo = ckpt.no]
  /\ Goto(w, "run")
  /\ UNCHANGED <<rowVars, rowLock, source, dataVars, queueVars, job, my, flagVars, env,
                 creating>>

\* engine.step on the next time step; its rows stay in memory until a save drains them.
Step(w) ==
  /\ pc[w] = "run" /\ Clear(w)
  /\ eng[w].pos < Ticks
  /\ eng' = [eng EXCEPT ![w].pos = @ + 1]
  /\ UNCHANGED <<rowVars, rowLock, source, dataVars, queueVars, pc, job, my, flagVars, env,
                 creating>>

-----------------------------------------------------------------------------
(* save: one transaction for results, checkpoint, report and status.       *)

\* Whence save is called: after a step (30 s or 10000 rows), at the end of the input, or
\* from the Interrupted branch.
MaySave(w, g) ==
  \/ g = "batch"    /\ pc[w] = "run" /\ eng[w].pos > eng[w].base
  \/ g = "final"    /\ pc[w] = "run" /\ eng[w].pos >= Ticks /\ Clear(w)
  \/ g = "handover" /\ pc[w] = "handover"

\* BEGIN fixes the transaction's now().
SaveBegin(w, g) ==
  /\ MaySave(w, g)
  /\ Goto(w, "tx")
  /\ eng' = [eng EXCEPT ![w].goal = g, ![w].early = (lease = "live")]
  /\ UNCHANGED <<rowVars, rowLock, source, dataVars, queueVars, job, my, flagVars, env,
                 creating>>

\* fenced: SELECT status ... FOR UPDATE, or LostLease.
Fence(w) ==
  /\ pc[w] = "tx"
  /\ RowFree
  /\ IF Passes(w)
     THEN /\ rowLock' = w
          /\ eng' = [eng EXCEPT ![w].seen = status, ![w].early = FALSE]
          /\ Goto(w, "locked")
     ELSE Goto(w, "ack") /\ UNCHANGED <<rowLock, eng>>
  /\ UNCHANGED <<rowVars, source, dataVars, queueVars, job, my, flagVars, env, creating>>

\* The last save publishes the report unless the fence read a stop request.
\* Mutant: the report does not depend on what the fence read.
Publishes_Stale(w) == eng[w].goal = "final"
Publishes(w) == eng[w].goal = "final" /\ eng[w].seen # "stopping"

\* The position a save makes durable: finalizeOpenPositions only runs when it publishes.
Upto(w) == IF Publishes(w) THEN Final ELSE eng[w].pos

\* A run has one report: backtest_reports.run_id is a primary key.
Duplicate(w) == Publishes(w) /\ reported

\* What the rest of the transaction writes.  The batch number is a primary key.
CommitRows(w) ==
  /\ pc[w] = "locked" /\ rowLock = w
  /\ ~Duplicate(w)
  /\ \A b \in batches : b.no # eng[w].batchNo + 1
  /\ batches' = batches \cup
                  {[no |-> eng[w].batchNo + 1, epoch |-> my[w], input |-> frozen]}
  /\ rows' = [t \in 1..Final |->
                IF eng[w].base < t /\ t <= Upto(w) THEN rows[t] + 1 ELSE rows[t]]
  /\ ckpt' = [no |-> eng[w].batchNo + 1, pos |-> Upto(w)]
  /\ reported' = (reported \/ Publishes(w))
  /\ streak' = 0
  /\ IF eng[w].goal = "final" /\ status # "stopping"
     THEN status' = "completed" /\ lease' = "none"
     ELSE UNCHANGED <<status, lease>>
  /\ rowLock' = None
  /\ eng' = [eng EXCEPT ![w].base = eng[w].pos, ![w].batchNo = @ + 1, ![w].seen = "running"]
  /\ UNCHANGED <<epoch, dispatch, inputReady, source, frozen, queueVars, job, my, lost,
                 beat, shut, creating>>

\* Where w goes on after a save it knows committed.
AfterSave(w) ==
  CASE eng[w].goal = "batch"    -> "run"
    [] eng[w].goal = "handover" -> "release"
    [] OTHER -> IF (stopping[w] \/ eng[w].seen = "stopping") /\ ~lost[w]
                THEN "handover" ELSE "ack"

SaveCommit(w) ==
  /\ CommitRows(w)
  /\ Goto(w, AfterSave(w))
  /\ stopping' = [stopping EXCEPT ![w] = @ \/ eng[w].seen = "stopping"]
  /\ UNCHANGED env

\* Where a generic error leads: an error of the claim, of the hand-over or of a last
\* UPDATE leaves executeRun at once, one under a lease known to be lost is swallowed.
AfterError(w) ==
  IF \/ lost[w]
     \/ pc[w] \in {"claim", "handover", "release", "failing"}
     \/ pc[w] \in {"tx", "locked"} /\ eng[w].goal = "handover"
  THEN "ack" ELSE "failing"

\* COMMIT takes effect but its answer is lost: the executor sees an error.
SaveUnacked(w) ==
  /\ Spend
  /\ CommitRows(w)
  /\ Goto(w, AfterError(w))
  /\ UNCHANGED stopping

\* The report is there already: the INSERT fails and the transaction rolls back.
SaveRefused(w) ==
  /\ pc[w] = "locked" /\ rowLock = w
  /\ Duplicate(w)
  /\ rowLock' = None
  /\ Goto(w, AfterError(w))
  /\ UNCHANGED <<rowVars, source, dataVars, queueVars, creating, job, my, eng, flagVars, env>>

-----------------------------------------------------------------------------
(* How an executor leaves the run.                                         *)

\* check() throws LostLease: the old executor stops without a write.
Abandon(w) ==
  /\ pc[w] \in {"freeze", "load", "run"} /\ lost[w]
  /\ Goto(w, "ack")
  /\ UNCHANGED <<rowVars, rowLock, source, dataVars, queueVars, job, my, eng, flagVars,
                 env, creating>>

\* check() throws Interrupted: a stop was seen, or the process is shutting down.
Interrupt(w) ==
  /\ pc[w] \in {"freeze", "load", "run"} /\ ~lost[w] /\ Asked(w)
  /\ Goto(w, IF pc[w] = "run" THEN "handover" ELSE "release")
  /\ UNCHANGED <<rowVars, rowLock, source, dataVars, queueVars, job, my, eng, flagVars,
                 env, creating>>

\* The Interrupted branch's last UPDATE gives the row back.
Release(w) ==
  /\ pc[w] = "release"
  /\ RowFree
  /\ IF Holds(w)
     THEN /\ status'   = IF status = "stopping" THEN "stopped" ELSE "pending"
          /\ lease'    = "none"
          /\ Requeue
     ELSE UNCHANGED <<status, lease, epoch, dispatch>>
  /\ Goto(w, "ack")
  /\ UNCHANGED <<streak, inputReady, rowLock, source, dataVars, queueVars, job, my, eng,
                 flagVars, env, creating>>

\* The generic branch's UPDATE; the epoch stays.
Fail(w) ==
  /\ pc[w] = "failing"
  /\ RowFree
  /\ IF Holds(w) THEN status' = "failed" /\ lease' = "none"
                  ELSE UNCHANGED <<status, lease>>
  /\ Goto(w, "ack")
  /\ UNCHANGED <<epoch, dispatch, streak, inputReady, rowLock, source, dataVars,
                 queueVars, job, my, eng, flagVars, env, creating>>

\* A query or the engine throws and the open transaction rolls back.  An error of the
\* claim consumes the job without touching the row.
DbError(w) ==
  /\ Spend
  /\ pc[w] \notin {"idle", "ack"}
  /\ Goto(w, AfterError(w))
  /\ burnt' = IF pc[w] = "claim" THEN burnt \cup {job[w]} ELSE burnt
  /\ rowLock' = IF rowLock = w THEN None ELSE rowLock
  /\ UNCHANGED <<rowVars, source, dataVars, waiting, known, outbox, job, my, eng, flagVars,
                 creating>>

\* The process dies (SIGKILL, power loss).  PostgreSQL rolls its transaction back;
\* BullMQ hands the stalled job to another worker, or gives it up.
Crash(w) ==
  /\ Spend
  /\ pc[w] # "idle"
  /\ Forget(w)
  /\ \/ waiting' = waiting \cup {job[w]} /\ UNCHANGED burnt
     \/ burnt' = burnt \cup {job[w]} /\ UNCHANGED waiting
  /\ rowLock' = IF rowLock = w THEN None ELSE rowLock
  /\ shut' = [shut EXCEPT ![w] = FALSE]
  /\ UNCHANGED <<rowVars, source, dataVars, known, outbox, creating>>

-----------------------------------------------------------------------------
(* Heartbeats: pulse every 2 s, one in flight at a time.  Its answer is     *)
(* applied later than its UPDATE: a flag may be set from an old answer.    *)

\* heartbeat.  An UPDATE that was sent in time and waited for the row lock renews even a
\* lease that ran out meanwhile; one sent later only learns that the lease is gone.
Beat(w) ==
  /\ Engaged(w) /\ beat[w] = "idle"
  /\ RowFree
  /\ \/ /\ Named(w)
        /\ lease' = "live"
        /\ beat' = [beat EXCEPT ![w] = status]
     \/ /\ ~Leased(w)
        /\ beat' = [beat EXCEPT ![w] = "gone"]
        /\ UNCHANGED lease
  /\ UNCHANGED <<status, epoch, dispatch, streak, inputReady, rowLock, source, dataVars,
                 queueVars, workVars, stopping, lost, shut, env, creating>>

BeatReply(w) ==
  /\ beat[w] # "idle"
  /\ beat' = [beat EXCEPT ![w] = "idle"]
  /\ IF beat[w] = "gone"
     THEN lost' = [lost EXCEPT ![w] = TRUE] /\ UNCHANGED stopping
     ELSE stopping' = [stopping EXCEPT ![w] = (beat[w] = "stopping")] /\ UNCHANGED lost
  /\ UNCHANGED <<rowVars, rowLock, source, dataVars, queueVars, workVars, shut, env,
                 creating>>

Expire ==
  /\ lease = "live"
  /\ lease' = "expired"
  /\ UNCHANGED <<status, epoch, dispatch, streak, inputReady, rowLock, source, dataVars,
                 queueVars, workVars, flagVars, creating>>

\* 60 s pass without a renewal although the executor is alive: it stalled.
ExpireStalled == Spend /\ Expire

\* 60 s pass and nobody is left to renew.
ExpireOrphan ==
  /\ \A w \in Exec : ~(Engaged(w) /\ Named(w))
  /\ Expire
  /\ UNCHANGED env

-----------------------------------------------------------------------------
(* The control plane: reconciler, operators, deployment, market data.      *)

\* What reconcile makes of a run whose lease ran out.
\* Mutant: a recovery forgets that a stop was asked for.
Recovered_StopForgotten == IF streak >= 2 THEN "failed" ELSE "pending"
Recovered ==
  IF status = "stopping" THEN "stopped"
  ELSE IF streak >= 2 THEN "failed" ELSE "pending"

\* Mutant: only running rows are recovered.
Lapsed_RunningOnly == status = "running" /\ lease = "expired"
Lapsed == status \in Held /\ lease = "expired"

\* The adds that follow: every run pending once the transaction has committed.
Deliveries == IF status' = "pending" THEN outbox \cup {dispatch'} ELSE outbox

\* reconcile: one transaction over expired leases, then an add for each pending run.
Reconcile ==
  /\ RowFree
  /\ IF Lapsed
     THEN /\ status'   = Recovered
          /\ lease'    = "none"
          /\ Requeue
          /\ streak'   = streak + 1
     ELSE UNCHANGED <<status, lease, epoch, dispatch, streak>>
  /\ outbox' = Deliveries
  /\ UNCHANGED <<inputReady, rowLock, source, dataVars, waiting, known, burnt, workVars,
                 flagVars, env, creating>>

StopRun ==
  /\ Spend
  /\ RowFree
  /\ status \in {"pending", "running"}
  /\ status' = IF status = "running" THEN "stopping" ELSE "stopped"
  /\ UNCHANGED <<epoch, lease, dispatch, streak, inputReady, rowLock, source, dataVars,
                 queueVars, workVars, flagVars, creating>>

RetryRun ==
  /\ Spend
  /\ status \in {"stopped", "failed"}
  /\ status'   = "pending"
  /\ streak'   = 0
  /\ dispatch' = dispatch + 1
  /\ outbox'   = outbox \cup {dispatch + 1}
  /\ UNCHANGED <<epoch, lease, inputReady, rowLock, source, dataVars, waiting, known,
                 burnt, workVars, flagVars, creating>>

\* SIGTERM of a deployment, and the new process once the old one has drained its job.
Shutdown(w) ==
  /\ Spend
  /\ ~shut[w]
  /\ shut' = [shut EXCEPT ![w] = TRUE]
  /\ UNCHANGED <<rowVars, rowLock, source, dataVars, queueVars, workVars, stopping, lost,
                 beat, creating>>

Restart(w) ==
  /\ shut[w] /\ pc[w] = "idle"
  /\ shut' = [shut EXCEPT ![w] = FALSE]
  /\ UNCHANGED <<rowVars, rowLock, source, dataVars, queueVars, workVars, stopping, lost,
                 beat, env, creating>>

\* The candle table is upserted while runs are frozen and computed.
SourceUpsert ==
  /\ Spend
  /\ source' = source + 1
  /\ UNCHANGED <<rowVars, rowLock, dataVars, queueVars, workVars, flagVars, creating>>

-----------------------------------------------------------------------------
\* A new run, its first job not yet added; a shared-input run starts with its input.
Init ==
  /\ status = "pending" /\ epoch = 0 /\ lease = "none" /\ dispatch = 0 /\ streak = 0
  /\ inputReady \in BOOLEAN
  /\ rowLock = None
  /\ source = 0
  /\ frozen = [p \in Pools |-> IF inputReady THEN 0 ELSE None]
  /\ batches = {}
  /\ ckpt = [no |-> 0, pos |-> 0]
  /\ rows = [t \in 1..Final |-> 0]
  /\ reported = FALSE
  /\ waiting = {} /\ known = {} /\ outbox = {} /\ burnt = {}
  /\ creating = "adding"
  /\ pc = [w \in Exec |-> "idle"]
  /\ job = [w \in Exec |-> 0]
  /\ my = [w \in Exec |-> 0]
  /\ eng = [w \in Exec |-> Fresh]
  /\ stopping = [w \in Exec |-> FALSE]
  /\ lost = [w \in Exec |-> FALSE]
  /\ beat = [w \in Exec |-> "idle"]
  /\ shut = [w \in Exec |-> FALSE]
  /\ env = MaxEnv

\* The steps of executor w's own code.
Work(w) ==
  \/ \E d \in waiting : TakeJob(w, d)
  \/ Claim(w) \/ Load(w) \/ Step(w) \/ Ack(w)
  \/ \E p \in Pools : FreezeRead(w, p)
  \/ FreezeCommit(w) \/ FreezeDone(w)
  \/ \E g \in Goals : SaveBegin(w, g)
  \/ Fence(w) \/ SaveCommit(w) \/ SaveRefused(w)
  \/ Abandon(w) \/ Interrupt(w) \/ Release(w) \/ Fail(w)

Pulse(w) == Beat(w) \/ BeatReply(w)

\* The steps of createBacktest's own code.
Create == FirstAdd \/ DeclareFailed

Disturb ==
  \/ \E w \in Exec : SaveUnacked(w) \/ DbError(w) \/ Crash(w) \/ Shutdown(w)
  \/ FirstAddThrows \/ CreatorDies
  \/ \E d \in outbox : LoseOutbox(d)
  \/ ExpireStalled \/ StopRun \/ RetryRun \/ SourceUpsert

Next ==
  \/ \E w \in Exec : Work(w) \/ Pulse(w) \/ Restart(w)
  \/ \E d \in outbox : Enqueue(d)
  \/ Create
  \/ Reconcile \/ ExpireOrphan
  \/ Disturb

Spec == Init /\ [][Next]_vars

-----------------------------------------------------------------------------
(* Fairness.  Every process that is up takes its next step; the 5 s and    *)
(* 2 s timers fire; an unrenewed lease runs out; workers are restarted.    *)
(* Nothing is assumed of the environment's disturbances.                   *)
Fairness ==
  /\ \A w \in Exec : WF_vars(Work(w)) /\ WF_vars(BeatReply(w)) /\ WF_vars(Restart(w))
  /\ WF_vars(\E d \in outbox : Enqueue(d)) /\ WF_vars(Create)
  /\ WF_vars(Reconcile) /\ WF_vars(ExpireOrphan)

FairSpec == Spec /\ Fairness

-----------------------------------------------------------------------------
RowType ==
  /\ status \in Statuses /\ epoch \in Nat /\ lease \in {"live", "expired", "none"}
  /\ dispatch \in Nat /\ streak \in Nat /\ inputReady \in BOOLEAN
  /\ rowLock \in Exec \cup {None} /\ source \in Nat /\ env \in Nat

DataType ==
  /\ frozen \in [Pools -> Nat \cup {None}]
  /\ batches \subseteq [no : Nat, epoch : Nat, input : [Pools -> Nat \cup {None}]]
  /\ ckpt \in [no : Nat, pos : 0..Final]
  /\ rows \in [1..Final -> Nat]
  /\ reported \in BOOLEAN

QueueType ==
  /\ waiting \subseteq Nat /\ known \subseteq Nat /\ outbox \subseteq Nat /\ burnt \subseteq Nat
  /\ creating \in {"adding", "refused", "done", "disowned"}

Stages == {"idle", "claim", "freeze", "load", "run", "tx", "locked", "handover",
           "release", "failing", "ack"}

WorkType ==
  /\ pc \in [Exec -> Stages]
  /\ job \in [Exec -> Nat] /\ my \in [Exec -> Nat]

Engines ==
  [pos : 0..Final, base : 0..Final, batchNo : Nat, goal : Goals, seen : Held,
   snap : {None} \cup [pool : Pools, ver : Nat], early : BOOLEAN]

EngType == eng \in [Exec -> Engines]

FlagType ==
  /\ stopping \in [Exec -> BOOLEAN] /\ lost \in [Exec -> BOOLEAN]
  /\ beat \in [Exec -> Held \cup {"idle", "gone"}]
  /\ shut \in [Exec -> BOOLEAN]

TypeOK == RowType /\ DataType /\ QueueType /\ WorkType /\ EngType /\ FlagType

-----------------------------------------------------------------------------
(* Safety.                                                                 *)

\* Whatever crashed, stalled or was retried, the stored rows are those up to the last
\* checkpoint, once each: resuming neither loses nor repeats a result (save, executeRun).
ExactlyOnce == \A t \in 1..Final : rows[t] = IF t <= ckpt.pos THEN 1 ELSE 0

\* Of all the executors that ever claimed the run and still move, the fence lets at
\* most one write (fenced, against reconcile and claims by other workers).
SingleWriter ==
  \A v, w \in Exec : Engaged(v) /\ Engaged(w) /\ Named(v) /\ Named(w) => v = w

\* Batches are numbered without a gap up to the checkpoint, and later batches never come
\* from an older execution: no stale executor wrote between two batches of a newer one.
BatchesOrdered ==
  /\ {b.no : b \in batches} = 1..ckpt.no
  /\ \A b, c \in batches : b.no < c.no => b.epoch <= c.epoch

\* Every stored batch was computed on the one frozen input, however often the source
\* table changed and the run was resumed (freeze).
OneInput == \A b \in batches : b.input = frozen /\ \A p \in Pools : frozen[p] # None

\* However often a run is taken over, its batches read like those of one execution: one
\* input, no gap in their numbers, none of an older execution after one of a newer.
OneExecution == OneInput /\ BatchesOrdered

\* A completed run has its report, a report comes with every row, and a run with a report
\* can only be seen as anything but completed after createBacktest, its add having failed,
\* wrote status='failed' over it (save, createBacktest).
ReportIsFinal ==
  /\ status = "completed" => reported
  /\ reported => ckpt.pos = Final /\ (status = "completed" \/ creating = "disowned")

\* Only a delivery that failed before its claim can leave a pending run whose job id
\* the queue refuses to take again: every way back to "pending" renews the id.
Stranded ==
  /\ status = "pending" /\ dispatch \in known \ waiting
  /\ \A w \in Exec : ~(pc[w] = "claim" /\ job[w] = dispatch)

StrandedOnlyByFault == Stranded => dispatch \in burnt

\* Three lease losses without a committed save end the automatic recovery: a run that
\* may still execute has lost at most two (reconcile).
BoundedRecovery == status \in {"pending"} \cup Held => streak <= 2

(* The strengthening that makes the safety properties inductive.           *)

\* At most one executor holds the current epoch, and none a later one.
Ownership ==
  /\ \A w \in Exec : my[w] <= epoch
  /\ \A v, w \in Exec : my[v] = epoch /\ my[w] = epoch /\ epoch > 0 => v = w
  /\ status \in Held => epoch > 0

\* The row lock keeps what its owner read true until the transaction ends.
LockHeld ==
  rowLock # None =>
    pc[rowLock] = "locked" /\ Named(rowLock) /\ eng[rowLock].seen = status

\* The stages of executeRun that have an engine.
Computing == {"run", "tx", "locked", "handover"}

\* Executor w continues exactly where the durable state ends.
Continues(w) ==
  /\ eng[w].base = ckpt.pos /\ eng[w].batchNo = ckpt.no
  /\ eng[w].base <= eng[w].pos /\ (eng[w].pos > Ticks => eng[w].base = eng[w].pos)
  /\ eng[w].goal = "final" /\ pc[w] \in {"tx", "locked"} => eng[w].pos >= Ticks

AtCheckpoint == \A w \in Exec : Named(w) /\ pc[w] \in Computing => Continues(w)

OpenEnded == ~reported => ckpt.pos <= Ticks

\* No lease covers a completed run: the late UPDATE of an executor does not reach it.
CompletedFree == status = "completed" => lease = "none"

\* The inductive invariant: with TypeOK, every step of the protocol preserves it.
Inductive ==
  /\ Ownership /\ LockHeld /\ AtCheckpoint
  /\ OpenEnded /\ CompletedFree /\ ExactlyOnce /\ ReportIsFinal

(* Action properties.                                                      *)

\* Once a stop is accepted the run neither publishes nor goes back to the queue before
\* it is settled, also when the stop lands between the last step and the last save.
StopHonoured == [][status = "stopping" => status' \in {"stopping", "stopped", "failed"}]_vars

\* The frozen input of a pool is never replaced: not by a second executor that was
\* freezing the same pool, and not after an upsert of the source.
InputImmutable == [][\A p \in Pools : frozen[p] # None => frozen'[p] = frozen[p]]_vars

\* Results only change in a save of the executor the row names, under its row lock.
OnlyOwnerWrites ==
  [][<<batches, ckpt, rows, reported>>' # <<batches, ckpt, rows, reported>> =>
       \E w \in Exec : rowLock = w /\ my[w] = epoch /\ status \in Held]_vars

(* Liveness.                                                               *)

\* An accepted stop is settled, even if the executor dies or stalls.
StopSettles == status = "stopping" ~> status \in {"stopped", "failed"}

\* A pending run is taken up, unless its only delivery failed before the claim.
PendingTaken == status = "pending" ~> (status # "pending" \/ Stranded)

\* The disturbances over, the run comes to rest.
ComesToRest == <>[](status \in {"stopped", "failed", "completed"} \/ Stranded)

\* A stop is settled, a pending run taken up, and every run comes to rest once the
\* disturbances are over (reconcile, stopRun, executeRun); left pending for good is only
\* one whose delivery failed before its claim.
RunSettles == StopSettles /\ PendingTaken /\ ComesToRest /\ []StrandedOnlyByFault

(* Refinement: the run, as its user sees it.                               *)

PhaseOf ==
  CASE status \in {"pending", "running"} -> "open"
    [] status = "stopping"               -> "closing"
    [] status \in {"stopped", "failed"}  -> "closed"
    [] status = "completed"              -> "published"

\* createBacktest may still write that the run failed.
Owed == creating \in {"adding", "refused"}

Contract == INSTANCE RunContract WITH phase <- PhaseOf, stored <- rows, owed <- Owed

\* Every step of the protocol is a step a user may see, or none.
ImplementsContract == Contract!Spec
=============================================================================
