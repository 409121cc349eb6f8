--------------------------- MODULE BacktestRunProofs ---------------------------
(***************************************************************************)
(* Theorems about BacktestRun for any set of executors, any pools, any     *)
(* length of input and any number of disturbances.  The argument: every    *)
(* step keeps the types (TypeOK); ownership of the row is exclusive        *)
(* (Ownership); the row lock freezes what its owner read (LockHeld); so    *)
(* the one executor that may write continues exactly at the checkpoint     *)
(* (AtCheckpoint), and each row is stored once (ExactlyOnce).              *)
(***************************************************************************)
EXTENDS BacktestRun, TLAPS

-----------------------------------------------------------------------------
(* Which steps touch which variables.                                      *)

RowStep(w) ==
  \/ Claim(w) \/ FreezeDone(w) \/ Fence(w) \/ SaveCommit(w) \/ SaveUnacked(w)
  \/ SaveRefused(w) \/ Release(w) \/ Fail(w) \/ DbError(w) \/ Crash(w) \/ Shutdown(w) \/ Beat(w)

ControlStep ==
  \/ Reconcile \/ ExpireStalled \/ ExpireOrphan \/ StopRun \/ RetryRun \/ SourceUpsert
  \/ FirstAddThrows \/ DeclareFailed \/ CreatorDies
  \/ \E d \in outbox : LoseOutbox(d)

\* The steps of the request that created the run.
CreateStep == FirstAdd \/ FirstAddThrows \/ DeclareFailed \/ CreatorDies

DataStep(w) == FreezeCommit(w) \/ SaveCommit(w) \/ SaveUnacked(w)

QueueStep ==
  \/ \E d \in outbox : Enqueue(d) \/ LoseOutbox(d)
  \/ \E w \in Exec : DbError(w) \/ Crash(w) \/ \E d \in waiting : TakeJob(w, d)
  \/ Reconcile \/ RetryRun \/ FirstAdd \/ FirstAddThrows

EngStep(w) ==
  \/ \E p \in Pools : FreezeRead(w, p)
  \/ \E g \in Goals : SaveBegin(w, g)
  \/ FreezeCommit(w) \/ Load(w) \/ Step(w) \/ Fence(w)
  \/ SaveCommit(w) \/ SaveUnacked(w) \/ Ack(w) \/ Crash(w)

\* The steps that move a program counter without starting or ending an execution.
MoveStep(w) ==
  \/ FreezeCommit(w) \/ FreezeDone(w) \/ Load(w) \/ \E g \in Goals : SaveBegin(w, g)
  \/ Fence(w) \/ SaveCommit(w) \/ SaveUnacked(w) \/ SaveRefused(w)
  \/ Abandon(w) \/ Interrupt(w)
  \/ Release(w) \/ Fail(w) \/ DbError(w)

WorkStep(w) ==
  \/ \E d \in waiting : TakeJob(w, d)
  \/ Claim(w) \/ Ack(w) \/ Crash(w) \/ MoveStep(w)

FlagStep(w) ==
  \/ Ack(w) \/ Crash(w) \/ SaveCommit(w) \/ SaveUnacked(w)
  \/ Beat(w) \/ BeatReply(w) \/ Shutdown(w) \/ Restart(w)

LEMMA RowFrame ==
  ASSUME [Next]_vars
  PROVE  \/ UNCHANGED <<rowVars, rowLock, source, env>>
         \/ ControlStep \/ \E w \in Exec : RowStep(w)
<1> DEFINE Goal == \/ UNCHANGED <<rowVars, rowLock, source, env>>
                   \/ ControlStep \/ \E w \in Exec : RowStep(w)
<1>1. ASSUME NEW w \in Exec, Work(w) PROVE Goal
  BY <1>1 DEF Work, TakeJob, Load, Step, Ack, FreezeRead, FreezeCommit, SaveBegin,
     Abandon, Interrupt, RowStep, ControlStep
<1>2. ASSUME NEW w \in Exec, Pulse(w) \/ Restart(w) PROVE Goal
  BY <1>2 DEF Pulse, BeatReply, Restart, RowStep, ControlStep
<1>3. CASE Create \/ Reconcile \/ ExpireOrphan \/ \E d \in outbox : Enqueue(d)
  BY <1>3 DEF Create, FirstAdd, Enqueue, RowStep, ControlStep
<1>4. CASE Disturb
  BY <1>4 DEF Disturb, RowStep, ControlStep
<1>5. CASE UNCHANGED vars
  BY <1>5 DEF vars
<1>6. QED
  BY <1>1, <1>2, <1>3, <1>4, <1>5 DEF Next

LEMMA DataFrame ==
  ASSUME [Next]_vars
  PROVE  UNCHANGED dataVars \/ \E w \in Exec : DataStep(w)
<1> DEFINE Goal == UNCHANGED dataVars \/ \E w \in Exec : DataStep(w)
<1>1. ASSUME NEW w \in Exec, Work(w) PROVE Goal
  BY <1>1 DEF Work, SaveRefused, TakeJob, Claim, Load, Step, Ack, FreezeRead, FreezeDone, SaveBegin,
     Fence, Abandon, Interrupt, Release, Fail, DataStep
<1>2. ASSUME NEW w \in Exec, Pulse(w) \/ Restart(w) PROVE Goal
  BY <1>2 DEF Pulse, Beat, BeatReply, Restart, DataStep
<1>3. CASE Create \/ Reconcile \/ ExpireOrphan \/ \E d \in outbox : Enqueue(d)
  BY <1>3 DEF Create, FirstAdd, DeclareFailed, Enqueue, Reconcile, ExpireOrphan, Expire, DataStep
<1>4. CASE Disturb
  BY <1>4 DEF Disturb, FirstAddThrows, CreatorDies, DbError, Crash, Shutdown, LoseOutbox, ExpireStalled, Expire,
     StopRun, RetryRun, SourceUpsert, DataStep
<1>5. CASE UNCHANGED vars
  BY <1>5 DEF vars
<1>6. QED
  BY <1>1, <1>2, <1>3, <1>4, <1>5 DEF Next

LEMMA QueueFrame ==
  ASSUME [Next]_vars
  PROVE  UNCHANGED queueVars \/ QueueStep
<1> DEFINE Goal == UNCHANGED queueVars \/ QueueStep
<1>1. ASSUME NEW w \in Exec, Work(w) PROVE Goal
  BY <1>1 DEF Work, SaveRefused, Claim, Load, Step, Ack, FreezeRead, FreezeCommit, FreezeDone,
     SaveBegin, Fence, SaveCommit, CommitRows, Abandon, Interrupt, Release, Fail,
     QueueStep
<1>2. ASSUME NEW w \in Exec, Pulse(w) \/ Restart(w) PROVE Goal
  BY <1>2 DEF Pulse, Beat, BeatReply, Restart, QueueStep
<1>3. CASE Create \/ Reconcile \/ ExpireOrphan \/ \E d \in outbox : Enqueue(d)
  BY <1>3 DEF Create, DeclareFailed, ExpireOrphan, Expire, QueueStep
<1>4. CASE Disturb
  BY <1>4 DEF Disturb, CreatorDies, SaveUnacked, CommitRows, Shutdown, ExpireStalled, Expire,
     StopRun, SourceUpsert, QueueStep
<1>5. CASE UNCHANGED vars
  BY <1>5 DEF vars
<1>6. QED
  BY <1>1, <1>2, <1>3, <1>4, <1>5 DEF Next

LEMMA EngFrame ==
  ASSUME [Next]_vars
  PROVE  UNCHANGED eng \/ \E w \in Exec : EngStep(w)
<1> DEFINE Goal == UNCHANGED eng \/ \E w \in Exec : EngStep(w)
<1>1. ASSUME NEW w \in Exec, Work(w) PROVE Goal
  BY <1>1 DEF Work, SaveRefused, TakeJob, Claim, FreezeDone, Abandon, Interrupt, Release, Fail,
     EngStep, workVars
<1>2. ASSUME NEW w \in Exec, Pulse(w) \/ Restart(w) PROVE Goal
  BY <1>2 DEF Pulse, Beat, BeatReply, Restart, EngStep, workVars
<1>3. CASE Create \/ Reconcile \/ ExpireOrphan \/ \E d \in outbox : Enqueue(d)
  BY <1>3 DEF Create, FirstAdd, DeclareFailed, Enqueue, Reconcile, ExpireOrphan, Expire, EngStep, workVars
<1>4. CASE Disturb
  BY <1>4 DEF Disturb, FirstAddThrows, CreatorDies, DbError, Shutdown, LoseOutbox, ExpireStalled, Expire, StopRun,
     RetryRun, SourceUpsert, EngStep, workVars
<1>5. CASE UNCHANGED vars
  BY <1>5 DEF vars, workVars
<1>6. QED
  BY <1>1, <1>2, <1>3, <1>4, <1>5 DEF Next

LEMMA WorkFrame ==
  ASSUME [Next]_vars
  PROVE  UNCHANGED <<pc, job, my>> \/ \E w \in Exec : WorkStep(w)
<1> DEFINE Goal == UNCHANGED <<pc, job, my>> \/ \E w \in Exec : WorkStep(w)
<1>1. ASSUME NEW w \in Exec, Work(w) PROVE Goal
  BY <1>1 DEF Work, Step, FreezeRead, WorkStep, MoveStep, workVars
<1>2. ASSUME NEW w \in Exec, Pulse(w) \/ Restart(w) PROVE Goal
  BY <1>2 DEF Pulse, Beat, BeatReply, Restart, WorkStep, MoveStep, workVars
<1>3. CASE Create \/ Reconcile \/ ExpireOrphan \/ \E d \in outbox : Enqueue(d)
  BY <1>3 DEF Create, FirstAdd, DeclareFailed, Enqueue, Reconcile, ExpireOrphan, Expire, WorkStep, MoveStep, workVars
<1>4. CASE Disturb
  BY <1>4 DEF Disturb, FirstAddThrows, CreatorDies, Shutdown, LoseOutbox, ExpireStalled, Expire, StopRun, RetryRun,
     SourceUpsert, WorkStep, MoveStep, workVars
<1>5. CASE UNCHANGED vars
  BY <1>5 DEF vars, workVars
<1>6. QED
  BY <1>1, <1>2, <1>3, <1>4, <1>5 DEF Next

LEMMA FlagFrame ==
  ASSUME [Next]_vars
  PROVE  UNCHANGED flagVars \/ \E w \in Exec : FlagStep(w)
<1> DEFINE Goal == UNCHANGED flagVars \/ \E w \in Exec : FlagStep(w)
<1>1. ASSUME NEW w \in Exec, Work(w) PROVE Goal
  BY <1>1 DEF Work, SaveRefused, TakeJob, Claim, Load, Step, FreezeRead, FreezeCommit, FreezeDone,
     SaveBegin, Fence, Abandon, Interrupt, Release, Fail, FlagStep
<1>2. ASSUME NEW w \in Exec, Pulse(w) \/ Restart(w) PROVE Goal
  BY <1>2 DEF Pulse, FlagStep
<1>3. CASE Create \/ Reconcile \/ ExpireOrphan \/ \E d \in outbox : Enqueue(d)
  BY <1>3 DEF Create, FirstAdd, DeclareFailed, Enqueue, Reconcile, ExpireOrphan, Expire, FlagStep
<1>4. CASE Disturb
  BY <1>4 DEF Disturb, FirstAddThrows, CreatorDies, DbError, LoseOutbox, ExpireStalled, Expire, StopRun, RetryRun,
     SourceUpsert, FlagStep
<1>5. CASE UNCHANGED vars
  BY <1>5 DEF vars
<1>6. QED
  BY <1>1, <1>2, <1>3, <1>4, <1>5 DEF Next

LEMMA CreateFrame ==
  ASSUME [Next]_vars
  PROVE  creating' = creating \/ CreateStep
<1> DEFINE Goal == creating' = creating \/ CreateStep
<1>1. ASSUME NEW w \in Exec, Work(w) PROVE Goal
  BY <1>1 DEF Work, TakeJob, Claim, Load, Step, Ack, FreezeRead, FreezeCommit, FreezeDone,
     SaveBegin, Fence, SaveCommit, SaveRefused, CommitRows, Abandon, Interrupt, Release, Fail
<1>2. ASSUME NEW w \in Exec, Pulse(w) \/ Restart(w) PROVE Goal
  BY <1>2 DEF Pulse, Beat, BeatReply, Restart
<1>3. CASE Create \/ Reconcile \/ ExpireOrphan \/ \E d \in outbox : Enqueue(d)
  BY <1>3 DEF Create, CreateStep, Enqueue, Reconcile, ExpireOrphan, Expire
<1>4. CASE Disturb
  BY <1>4 DEF Disturb, CreateStep, SaveUnacked, CommitRows, DbError, Crash, Shutdown,
     LoseOutbox, ExpireStalled, Expire, StopRun, RetryRun, SourceUpsert
<1>5. CASE UNCHANGED vars
  BY <1>5 DEF vars
<1>6. QED
  BY <1>1, <1>2, <1>3, <1>4, <1>5 DEF Next

-----------------------------------------------------------------------------
(* Type correctness, one group of variables at a time.                     *)

LEMMA TypeInit == Init => TypeOK
<1> SUFFICES ASSUME Init PROVE TypeOK
  OBVIOUS
<1>1. RowType
  BY EnvAssumption DEF Init, RowType, Statuses, Held
<1>2. DataType
  <2>1. frozen \in [Pools -> Nat \cup {None}] /\ batches = {} /\ reported \in BOOLEAN
    BY DEF Init
  <2>2. ckpt \in [no : Nat, pos : 0..Final]
    BY TicksAssumption DEF Init, Final
  <2>3. rows \in [1..Final -> Nat]
    BY DEF Init
  <2>4. QED
    BY <2>1, <2>2, <2>3 DEF DataType
<1>3. QueueType
  BY DEF Init, QueueType
<1>4. WorkType
  BY DEF Init, WorkType, Stages
<1>5. EngType
  BY TicksAssumption DEF Init, EngType, Engines, Fresh, Goals, Held, Final
<1>6. FlagType
  BY DEF Init, FlagType
<1>7. QED
  BY <1>1, <1>2, <1>3, <1>4, <1>5, <1>6 DEF TypeOK

LEMMA RowTypeStep == TypeOK /\ [Next]_vars => RowType'
<1> SUFFICES ASSUME TypeOK, [Next]_vars PROVE RowType'
  OBVIOUS
<1> USE DEF TypeOK, RowType
<1>1. ASSUME NEW w \in Exec, RowStep(w) PROVE RowType'
  <2>1. CASE Claim(w)
    BY <2>1 DEF Claim, Statuses, Held
  <2>2. CASE FreezeDone(w)
    BY <2>2 DEF FreezeDone, Leased
  <2>3. CASE Fence(w)
    BY <2>3 DEF Fence, rowVars
  <2>4. CASE SaveCommit(w) \/ SaveUnacked(w)
    BY <2>4 DEF SaveCommit, SaveUnacked, CommitRows, Spend, Statuses
  <2>5. CASE Release(w)
    BY <2>5 DEF Release, Requeue, Statuses
  <2>6. CASE Fail(w)
    BY <2>6 DEF Fail, Statuses
  <2>7. CASE SaveRefused(w) \/ DbError(w) \/ Crash(w) \/ Shutdown(w)
    BY <2>7 DEF SaveRefused, DbError, Crash, Shutdown, Spend, rowVars
  <2>8. CASE Beat(w)
    BY <2>8 DEF Beat
  <2>9. QED
    BY <1>1, <2>1, <2>2, <2>3, <2>4, <2>5, <2>6, <2>7, <2>8 DEF RowStep
<1>2. CASE ControlStep
  <2>1. CASE Reconcile
    BY <2>1 DEF Reconcile, Requeue, Recovered, Statuses
  <2>2. CASE ExpireStalled \/ ExpireOrphan
    BY <2>2 DEF ExpireStalled, ExpireOrphan, Expire, Spend
  <2>3. CASE StopRun \/ RetryRun \/ SourceUpsert
    BY <2>3 DEF StopRun, RetryRun, SourceUpsert, Spend, Statuses, Held, rowVars
  <2>4. CASE FirstAddThrows \/ DeclareFailed \/ CreatorDies \/ \E d \in outbox : LoseOutbox(d)
    BY <2>4 DEF LoseOutbox, FirstAddThrows, DeclareFailed, CreatorDies, Spend, Statuses, rowVars
  <2>5. QED
    BY <1>2, <2>1, <2>2, <2>3, <2>4 DEF ControlStep
<1>3. CASE UNCHANGED <<rowVars, rowLock, source, env>>
  BY <1>3 DEF rowVars
<1>4. QED
  BY <1>1, <1>2, <1>3, RowFrame

LEMMA DataTypeStep == TypeOK /\ [Next]_vars => DataType'
<1> SUFFICES ASSUME TypeOK, [Next]_vars PROVE DataType'
  OBVIOUS
<1> USE TicksAssumption DEF TypeOK, DataType
<1>1. ASSUME NEW w \in Exec, FreezeCommit(w) PROVE DataType'
  <2>1. eng[w].snap \in [pool : Pools, ver : Nat]
    BY <1>1 DEF FreezeCommit, EngType, Engines
  <2>2. QED
    BY <1>1, <2>1 DEF FreezeCommit
<1>2. ASSUME NEW w \in Exec, CommitRows(w) PROVE DataType'
  <2>1. eng[w].pos \in 0..Final /\ eng[w].batchNo \in Nat
    BY DEF EngType, Engines
  <2>2. eng[w].batchNo + 1 \in Nat /\ my[w] \in Nat /\ Upto(w) \in 0..Final
    BY <2>1 DEF WorkType, Upto, Final
  <2>3. batches' \subseteq [no : Nat, epoch : Nat, input : [Pools -> Nat \cup {None}]]
    BY <1>2, <2>2 DEF CommitRows
  <2>4. rows' \in [1..Final -> Nat]
    BY <1>2 DEF CommitRows
  <2>5. QED
    BY <1>2, <2>2, <2>3, <2>4 DEF CommitRows
<1>3. CASE UNCHANGED dataVars
  BY <1>3 DEF dataVars
<1>4. QED
  BY <1>1, <1>2, <1>3, DataFrame DEF DataStep, SaveCommit, SaveUnacked

LEMMA QueueTypeStep == TypeOK /\ [Next]_vars => QueueType'
<1> SUFFICES ASSUME TypeOK, [Next]_vars PROVE QueueType'
  OBVIOUS
<1> USE DEF TypeOK, QueueType
<1>1. CASE \E d \in outbox : Enqueue(d) \/ LoseOutbox(d)
  BY <1>1 DEF Enqueue, LoseOutbox
<1>2. ASSUME NEW w \in Exec, DbError(w) \/ Crash(w) PROVE QueueType'
  BY <1>2 DEF DbError, Crash, WorkType
<1>3. ASSUME NEW w \in Exec, NEW d \in waiting, TakeJob(w, d) PROVE QueueType'
  BY <1>3 DEF TakeJob
<1>4. CASE Reconcile
  <2>1. dispatch' \in Nat
    BY RowTypeStep DEF RowType
  <2>2. QED
    BY <1>4, <2>1 DEF Reconcile, Deliveries
<1>5. CASE RetryRun
  BY <1>5 DEF RetryRun, RowType
<1>6. creating' \in {"adding", "refused", "done", "disowned"}
  BY CreateFrame DEF CreateStep, FirstAdd, FirstAddThrows, DeclareFailed, CreatorDies
<1>7. CASE FirstAdd \/ FirstAddThrows
  <2>1. known' \subseteq known \cup {0} /\ waiting' \subseteq waiting \cup {0}
    BY <1>7 DEF FirstAdd, FirstAddThrows
  <2>2. UNCHANGED <<outbox, burnt>>
    BY <1>7 DEF FirstAdd, FirstAddThrows
  <2>3. QED
    BY <1>6, <2>1, <2>2
<1>8. CASE UNCHANGED queueVars
  BY <1>6, <1>8 DEF queueVars
<1>9. QED
  BY <1>1, <1>2, <1>3, <1>4, <1>5, <1>7, <1>8, QueueFrame DEF QueueStep

LEMMA WorkTypeStep == TypeOK /\ [Next]_vars => WorkType'
<1> SUFFICES ASSUME TypeOK, [Next]_vars PROVE WorkType'
  OBVIOUS
<1> USE DEF TypeOK, WorkType, Stages, Goto
<1>1. ASSUME NEW w \in Exec, NEW d \in waiting, TakeJob(w, d) PROVE WorkType'
  BY <1>1 DEF TakeJob, QueueType
<1>2. ASSUME NEW w \in Exec, Claim(w) PROVE WorkType'
  BY <1>2 DEF Claim, RowType
<1>3. ASSUME NEW w \in Exec, Ack(w) \/ Crash(w) PROVE WorkType'
  BY <1>3 DEF Ack, Crash, Forget
<1>4. ASSUME NEW w \in Exec, MoveStep(w) PROVE WorkType'
  <2>1. CASE FreezeCommit(w) \/ FreezeDone(w) \/ Load(w)
    BY <2>1 DEF FreezeCommit, FreezeDone, Load
  <2>2. CASE (\E g \in Goals : SaveBegin(w, g)) \/ Fence(w)
    BY <2>2 DEF SaveBegin, Fence
  <2>3. CASE SaveCommit(w)
    BY <2>3 DEF SaveCommit, CommitRows, AfterSave
  <2>4. CASE SaveUnacked(w) \/ SaveRefused(w) \/ DbError(w)
    BY <2>4 DEF SaveUnacked, SaveRefused, CommitRows, DbError, AfterError
  <2>5. CASE Abandon(w) \/ Interrupt(w) \/ Release(w) \/ Fail(w)
    BY <2>5 DEF Abandon, Interrupt, Release, Fail
  <2>6. QED
    BY <1>4, <2>1, <2>2, <2>3, <2>4, <2>5 DEF MoveStep
<1>5. CASE UNCHANGED <<pc, job, my>>
  BY <1>5
<1>6. QED
  BY <1>1, <1>2, <1>3, <1>4, <1>5, WorkFrame DEF WorkStep

LEMMA EngTypeStep == TypeOK /\ [Next]_vars => EngType'
<1> SUFFICES ASSUME TypeOK, [Next]_vars PROVE EngType'
  OBVIOUS
<1> USE TicksAssumption DEF TypeOK, EngType
<1>1. ASSUME NEW w \in Exec, EngStep(w) PROVE EngType'
  <2>1. eng' = [v \in Exec |-> eng'[v]]
    BY <1>1 DEF EngStep, FreezeRead, SaveBegin, FreezeCommit, Load, Step, Fence, SaveCommit,
       SaveUnacked, CommitRows, Ack, Crash, Forget
  <2>2. ASSUME NEW v \in Exec PROVE eng'[v] \in Engines
    <3>1. ASSUME NEW p \in Pools, FreezeRead(w, p) PROVE eng'[v] \in Engines
      BY <3>1 DEF Engines, FreezeRead, RowType
    <3>2. ASSUME NEW g \in Goals, SaveBegin(w, g) PROVE eng'[v] \in Engines
      BY <3>2 DEF Engines, SaveBegin
    <3>3. CASE FreezeCommit(w)
      BY <3>3 DEF Engines, FreezeCommit
    <3>4. CASE Load(w)
      <4>1. ckpt.pos \in 0..Final /\ ckpt.no \in Nat
        BY DEF DataType
      <4>2. QED
        BY <3>4, <4>1 DEF Engines, Load, ResumePoint
    <3>5. CASE Step(w)
      BY <3>5 DEF Engines, Step, Final
    <3>6. CASE Fence(w)
      BY <3>6 DEF Engines, Fence, Passes, Named
    <3>7. CASE SaveCommit(w) \/ SaveUnacked(w)
      BY <3>7 DEF Engines, SaveCommit, SaveUnacked, CommitRows, Held
    <3>8. CASE Ack(w) \/ Crash(w)
      <4>1. Fresh \in Engines
        BY DEF Engines, Fresh, Goals, Held, Final
      <4>2. QED
        BY <3>8, <4>1 DEF Ack, Crash, Forget
    <3>9. QED
      BY <1>1, <3>1, <3>2, <3>3, <3>4, <3>5, <3>6, <3>7, <3>8 DEF EngStep
  <2>3. QED
    BY <2>1, <2>2
<1>2. CASE UNCHANGED eng
  BY <1>2
<1>3. QED
  BY <1>1, <1>2, EngFrame

LEMMA FlagTypeStep == TypeOK /\ [Next]_vars => FlagType'
<1> SUFFICES ASSUME TypeOK, [Next]_vars PROVE FlagType'
  OBVIOUS
<1> USE DEF TypeOK, FlagType
<1>1. ASSUME NEW w \in Exec, FlagStep(w) PROVE FlagType'
  <2>1. CASE Ack(w) \/ Crash(w)
    BY <2>1 DEF Ack, Crash, Forget
  <2>2. CASE SaveCommit(w) \/ SaveUnacked(w)
    BY <2>2 DEF SaveCommit, SaveUnacked, CommitRows
  <2>3. CASE Beat(w) \/ BeatReply(w)
    BY <2>3 DEF Beat, BeatReply, Named
  <2>4. CASE Shutdown(w) \/ Restart(w)
    BY <2>4 DEF Shutdown, Restart
  <2>5. QED
    BY <1>1, <2>1, <2>2, <2>3, <2>4 DEF FlagStep
<1>2. CASE UNCHANGED flagVars
  BY <1>2 DEF flagVars
<1>3. QED
  BY <1>1, <1>2, FlagFrame

LEMMA TypeStep == TypeOK /\ [Next]_vars => TypeOK'
  BY RowTypeStep, DataTypeStep, QueueTypeStep, WorkTypeStep, EngTypeStep, FlagTypeStep
  DEF TypeOK

\* Every variable of the protocol keeps its type: statuses, leases and steps of
\* executeRun stay within the values the code assigns, positions within the input.
THEOREM TypeCorrect == Spec => []TypeOK
<1>1. Init => TypeOK
  BY TypeInit
<1>2. TypeOK /\ [Next]_vars => TypeOK'
  BY TypeStep
<1>3. QED
  BY <1>1, <1>2, PTL DEF Spec

-----------------------------------------------------------------------------
(* Ownership of the row is exclusive.                                      *)

\* How the epochs move: a claim takes a new one, an executor that leaves forgets its own,
\* and whatever else brings a row into an execution leaves its epoch alone.
LEMMA EpochSteps ==
  ASSUME TypeOK, [Next]_vars
  PROVE  \/ \E w \in Exec : Claim(w)
         \/ \E w \in Exec : Forget(w) /\ UNCHANGED <<status, epoch>>
         \/ /\ my' = my /\ epoch' \in {epoch, epoch + 1}
            /\ status' \in Held => status \in Held
<1> DEFINE Quiet == /\ my' = my /\ epoch' \in {epoch, epoch + 1}
                    /\ status' \in Held => status \in Held
<1> USE DEF rowVars, workVars
<1>1. ASSUME NEW w \in Exec, Work(w), ~Claim(w)
      PROVE  Quiet \/ (Forget(w) /\ UNCHANGED <<status, epoch>>)
  <2>1. CASE Ack(w)
    BY <2>1 DEF Ack
  <2>2. ASSUME SaveCommit(w) PROVE Quiet
    BY <2>2 DEF SaveCommit, CommitRows, Held
  <2>3. ASSUME Release(w) \/ Fail(w) PROVE Quiet
    BY <2>3 DEF Release, Requeue, Fail, Held
  <2>4. CASE Load(w) \/ Step(w) \/ FreezeCommit(w) \/ FreezeDone(w) \/ Fence(w) \/ SaveRefused(w)
    BY <2>4 DEF SaveRefused, Load, Step, FreezeCommit, FreezeDone, Fence
  <2>5. CASE Abandon(w) \/ Interrupt(w)
    BY <2>5 DEF Abandon, Interrupt
  <2>6. CASE \E d \in waiting : TakeJob(w, d)
    BY <2>6 DEF TakeJob
  <2>7. CASE \E p \in Pools : FreezeRead(w, p)
    BY <2>7 DEF FreezeRead
  <2>8. CASE \E g \in Goals : SaveBegin(w, g)
    BY <2>8 DEF SaveBegin
  <2> HIDE DEF Quiet
  <2>9. QED
    BY <1>1, <2>1, <2>2, <2>3, <2>4, <2>5, <2>6, <2>7, <2>8 DEF Work
<1>2. ASSUME NEW w \in Exec, Pulse(w) \/ Restart(w) PROVE Quiet
  BY <1>2 DEF Pulse, Beat, BeatReply, Restart
<1>3. CASE Reconcile
  BY <1>3 DEF Reconcile, Requeue, Recovered, Lapsed, Held
<1>4. CASE Create \/ ExpireOrphan \/ \E d \in outbox : Enqueue(d)
  BY <1>4 DEF Create, FirstAdd, DeclareFailed, Held, ExpireOrphan, Expire, Enqueue
<1>5. ASSUME NEW w \in Exec, Crash(w) PROVE Forget(w) /\ UNCHANGED <<status, epoch>>
  BY <1>5 DEF Crash
<1>6. ASSUME NEW w \in Exec, SaveUnacked(w) \/ DbError(w) \/ Shutdown(w) PROVE Quiet
  BY <1>6 DEF SaveUnacked, CommitRows, DbError, Shutdown, Held
<1>7. CASE \/ StopRun \/ RetryRun \/ SourceUpsert \/ ExpireStalled
           \/ FirstAddThrows \/ CreatorDies \/ \E d \in outbox : LoseOutbox(d)
  BY <1>7 DEF FirstAddThrows, CreatorDies, StopRun, RetryRun, SourceUpsert, ExpireStalled, Expire, LoseOutbox, Held
<1>8. CASE UNCHANGED vars
  BY <1>8 DEF vars
<1>9. QED
  BY <1>1, <1>2, <1>3, <1>4, <1>5, <1>6, <1>7, <1>8 DEF Next, Disturb

LEMMA OwnershipStep == TypeOK /\ Ownership /\ [Next]_vars => Ownership'
<1> SUFFICES ASSUME TypeOK, Ownership, [Next]_vars PROVE Ownership'
  OBVIOUS
<1>1. epoch \in Nat /\ my \in [Exec -> Nat]
  BY DEF TypeOK, RowType, WorkType
<1>2. ASSUME NEW w \in Exec, Claim(w) PROVE Ownership'
  BY <1>1, <1>2 DEF Ownership, Claim
<1>3. ASSUME NEW w \in Exec, Forget(w), UNCHANGED <<status, epoch>> PROVE Ownership'
  BY <1>1, <1>3 DEF Ownership, Forget
<1>4. ASSUME my' = my, epoch' \in {epoch, epoch + 1}, status' \in Held => status \in Held
      PROVE  Ownership'
  BY <1>1, <1>4 DEF Ownership
<1>5. QED
  BY <1>2, <1>3, <1>4, EpochSteps

-----------------------------------------------------------------------------
(* The row lock.                                                           *)

\* While a transaction holds the row, nobody moves the row, nor the one that holds it.
LEMMA LockSteps ==
  ASSUME TypeOK, LockHeld, [Next]_vars, rowLock # None
  PROVE  \/ rowLock' = None
         \/ /\ UNCHANGED <<rowLock, status, epoch>>
            /\ pc'[rowLock] = pc[rowLock] /\ my'[rowLock] = my[rowLock]
            /\ eng'[rowLock].seen = eng[rowLock].seen
<1> DEFINE Kept == /\ UNCHANGED <<rowLock, status, epoch>>
                   /\ pc'[rowLock] = pc[rowLock] /\ my'[rowLock] = my[rowLock]
                   /\ eng'[rowLock].seen = eng[rowLock].seen
<1>1. rowLock \in Exec /\ pc[rowLock] = "locked" /\ status \in Held
  BY DEF TypeOK, RowType, LockHeld, Named
<1>2. /\ pc \in [Exec -> Stages] /\ my \in [Exec -> Nat] /\ job \in [Exec -> Nat]
      /\ eng \in [Exec -> Engines]
  BY DEF TypeOK, WorkType, EngType
<1> USE <1>1, <1>2 DEF rowVars, workVars
<1>3. ASSUME NEW w \in Exec, Work(w) PROVE rowLock' = None \/ Kept
  <2>1. CASE FreezeCommit(w) \/ FreezeDone(w) \/ Fence(w) \/ Release(w) \/ Fail(w)
    BY <2>1 DEF FreezeCommit, FreezeDone, Fence, Release, Fail, RowFree
  <2>2. ASSUME NEW d \in waiting, TakeJob(w, d) PROVE Kept
    BY <2>2 DEF TakeJob, Goto
  <2>3. CASE Claim(w)
    BY <2>3 DEF Claim, Goto, Held
  <2>4. CASE Load(w)
    BY <2>4 DEF Load, Goto
  <2>5. CASE Step(w)
    BY <2>5 DEF Step
  <2>6. CASE Ack(w)
    BY <2>6 DEF Ack, Forget, Goto
  <2>7. ASSUME NEW p \in Pools, FreezeRead(w, p) PROVE Kept
    BY <2>7 DEF FreezeRead
  <2>8. ASSUME NEW g \in Goals, SaveBegin(w, g) PROVE Kept
    BY <2>8 DEF SaveBegin, MaySave, Goto
  <2>9. CASE SaveCommit(w) \/ SaveRefused(w)
    BY <2>9 DEF SaveCommit, SaveRefused, CommitRows
  <2>10. CASE Abandon(w) \/ Interrupt(w)
    BY <2>10 DEF Abandon, Interrupt, Goto
  <2> HIDE DEF Kept
  <2>11. QED
    BY <1>3, <2>1, <2>2, <2>3, <2>4, <2>5, <2>6, <2>7, <2>8, <2>9, <2>10 DEF Work
<1>4. ASSUME NEW w \in Exec, Pulse(w) \/ Restart(w) PROVE Kept
  BY <1>4 DEF Pulse, Beat, BeatReply, Restart, RowFree
<1>5. CASE Create \/ Reconcile \/ ExpireOrphan \/ \E d \in outbox : Enqueue(d)
  BY <1>5 DEF Create, FirstAdd, DeclareFailed, Reconcile, ExpireOrphan, Expire, Enqueue, RowFree
<1>6. ASSUME NEW w \in Exec, SaveUnacked(w) \/ DbError(w) \/ Crash(w) \/ Shutdown(w)
      PROVE  rowLock' = None \/ Kept
  <2>1. CASE SaveUnacked(w)
    BY <2>1 DEF SaveUnacked, CommitRows
  <2>2. CASE DbError(w)
    BY <2>2 DEF DbError, Goto
  <2>3. CASE Crash(w)
    BY <2>3 DEF Crash, Forget, Goto
  <2>4. CASE Shutdown(w)
    BY <2>4 DEF Shutdown
  <2>5. QED
    BY <1>6, <2>1, <2>2, <2>3, <2>4
<1>7. CASE StopRun \/ RetryRun
  BY <1>7 DEF StopRun, RetryRun, RowFree, Held
<1>8. CASE \/ SourceUpsert \/ ExpireStalled \/ FirstAddThrows \/ CreatorDies
           \/ \E d \in outbox : LoseOutbox(d)
  BY <1>8 DEF FirstAddThrows, CreatorDies, SourceUpsert, ExpireStalled, Expire, LoseOutbox
<1>9. CASE UNCHANGED vars
  BY <1>9 DEF vars
<1> HIDE DEF Kept
<1>10. QED
  <2>1. rowLock' = None \/ Kept
    BY <1>3, <1>4, <1>5, <1>6, <1>7, <1>8, <1>9 DEF Next, Disturb, Kept
  <2>2. QED
    BY <2>1 DEF Kept

\* A free row is locked only by the fence of the executor it names.
LEMMA FreeSteps ==
  ASSUME TypeOK, [Next]_vars, rowLock = None
  PROVE  rowLock' = None \/ \E w \in Exec : Fence(w)
<1>1. ASSUME NEW w \in Exec, RowStep(w) PROVE rowLock' = None \/ Fence(w)
  BY <1>1 DEF RowStep, Claim, FreezeDone, SaveCommit, SaveUnacked, SaveRefused, CommitRows, Release,
     Fail, DbError, Crash, Shutdown, Beat
<1>2. CASE ControlStep
  BY <1>2 DEF ControlStep, Reconcile, ExpireStalled, ExpireOrphan, Expire, StopRun,
     RetryRun, SourceUpsert, LoseOutbox, FirstAddThrows, DeclareFailed, CreatorDies
<1>3. QED
  BY <1>1, <1>2, RowFrame

LEMMA LockStep == TypeOK /\ LockHeld /\ [Next]_vars => LockHeld'
<1> SUFFICES ASSUME TypeOK, LockHeld, [Next]_vars PROVE LockHeld'
  OBVIOUS
<1>1. CASE rowLock # None
  BY <1>1, LockSteps DEF LockHeld, Named
<1>2. ASSUME NEW w \in Exec, Fence(w) PROVE LockHeld'
  <2>1. pc \in [Exec -> Stages] /\ my \in [Exec -> Nat] /\ eng \in [Exec -> Engines]
    BY DEF TypeOK, WorkType, EngType
  <2>2. eng[w] \in Engines
    BY <2>1
  <2>3. CASE Passes(w)
    BY <1>2, <2>1, <2>2, <2>3 DEF Fence, Goto, Passes, Named, LockHeld, rowVars, Engines
  <2>4. CASE ~Passes(w)
    BY <1>2, <2>4 DEF Fence, RowFree, LockHeld
  <2>5. QED
    BY <2>3, <2>4
<1>3. CASE rowLock = None /\ rowLock' = None
  BY <1>3 DEF LockHeld
<1>4. QED
  BY <1>1, <1>2, <1>3, FreeSteps

-----------------------------------------------------------------------------
(* The one executor that may write continues at the checkpoint.            *)

\* What can bring, or keep, an executor into a stage that has an engine.
LEMMA Moves ==
  ASSUME TypeOK, [Next]_vars, NEW u \in Exec, pc'[u] \in Computing
  PROVE  \/ eng'[u] = eng[u] /\ pc'[u] = pc[u]
         \/ Load(u) \/ Step(u) \/ Fence(u) \/ Interrupt(u) \/ SaveCommit(u)
         \/ \E g \in Goals : SaveBegin(u, g)
<1> DEFINE Still == eng'[u] = eng[u] /\ pc'[u] = pc[u]
           Moved == \/ Load(u) \/ Step(u) \/ Fence(u) \/ Interrupt(u) \/ SaveCommit(u)
                    \/ \E g \in Goals : SaveBegin(u, g)
<1>1. /\ pc \in [Exec -> Stages] /\ my \in [Exec -> Nat] /\ job \in [Exec -> Nat]
      /\ eng \in [Exec -> Engines]
  BY DEF TypeOK, WorkType, EngType
<1> USE <1>1 DEF workVars, Goto, Computing
<1> HIDE DEF Moved
<1>2. ASSUME NEW w \in Exec, Work(w) PROVE Still \/ Moved
  <2>1. CASE Load(w) \/ Fence(w) \/ Interrupt(w)
    BY <2>1 DEF Load, Fence, Interrupt, Moved
  <2>2. CASE Step(w)
    BY <2>2 DEF Step, Moved
  <2>3. CASE SaveCommit(w)
    BY <2>3 DEF SaveCommit, CommitRows, Moved
  <2>4. ASSUME NEW g \in Goals, SaveBegin(w, g) PROVE Still \/ Moved
    BY <2>4 DEF SaveBegin, Moved
  <2>5. ASSUME NEW d \in waiting, TakeJob(w, d) PROVE Still
    BY <2>5 DEF TakeJob
  <2>6. CASE Claim(w)
    BY <2>6 DEF Claim
  <2>7. CASE Ack(w)
    BY <2>7 DEF Ack, Forget
  <2>8. ASSUME NEW p \in Pools, FreezeRead(w, p) PROVE Still
    BY <2>8 DEF FreezeRead
  <2>9. CASE FreezeCommit(w)
    BY <2>9 DEF FreezeCommit
  <2>10. CASE FreezeDone(w) \/ SaveRefused(w) \/ Abandon(w) \/ Release(w) \/ Fail(w)
    BY <2>10 DEF FreezeDone, SaveRefused, AfterError, Abandon, Release, Fail
  <2> HIDE DEF Still
  <2>11. QED
    BY <1>2, <2>1, <2>2, <2>3, <2>4, <2>5, <2>6, <2>7, <2>8, <2>9, <2>10 DEF Work
<1>3. ASSUME NEW w \in Exec, Pulse(w) \/ Restart(w) PROVE Still
  BY <1>3 DEF Pulse, Beat, BeatReply, Restart
<1>4. CASE Create \/ Reconcile \/ ExpireOrphan \/ \E d \in outbox : Enqueue(d)
  BY <1>4 DEF Create, FirstAdd, DeclareFailed, Reconcile, ExpireOrphan, Expire, Enqueue
<1>5. ASSUME NEW w \in Exec, SaveUnacked(w) \/ DbError(w) \/ Crash(w) \/ Shutdown(w)
      PROVE  Still
  <2>1. CASE SaveUnacked(w)
    BY <2>1 DEF SaveUnacked, CommitRows, AfterError
  <2>2. CASE DbError(w)
    BY <2>2 DEF DbError, AfterError
  <2>3. CASE Crash(w)
    BY <2>3 DEF Crash, Forget
  <2>4. CASE Shutdown(w)
    BY <2>4 DEF Shutdown
  <2>5. QED
    BY <1>5, <2>1, <2>2, <2>3, <2>4
<1>6. CASE \/ StopRun \/ RetryRun \/ SourceUpsert \/ ExpireStalled
           \/ FirstAddThrows \/ CreatorDies \/ \E d \in outbox : LoseOutbox(d)
  BY <1>6 DEF FirstAddThrows, CreatorDies, StopRun, RetryRun, SourceUpsert, ExpireStalled, Expire, LoseOutbox
<1>7. CASE UNCHANGED vars
  BY <1>7 DEF vars
<1>8. Still \/ Moved
  <2> HIDE DEF Still
  <2>1. QED
    BY <1>2, <1>3, <1>4, <1>5, <1>6, <1>7 DEF Next, Disturb, Still, Moved
<1>9. QED
  BY <1>8 DEF Moved

\* Only its own claim makes the row name an executor.
LEMMA NamedBefore ==
  ASSUME TypeOK, Ownership, [Next]_vars, NEW u \in Exec, Named(u)', ~Claim(u)
  PROVE  Named(u)
<1>1. epoch \in Nat /\ my \in [Exec -> Nat]
  BY DEF TypeOK, RowType, WorkType
<1>2. ASSUME NEW w \in Exec, Claim(w) PROVE Named(u)
  BY <1>1, <1>2 DEF Claim, Named, Ownership
<1>3. ASSUME NEW w \in Exec, Forget(w), UNCHANGED <<status, epoch>> PROVE Named(u)
  BY <1>1, <1>3 DEF Forget, Named, Ownership
<1>4. ASSUME my' = my, epoch' \in {epoch, epoch + 1}, status' \in Held => status \in Held
      PROVE  Named(u)
  BY <1>1, <1>4 DEF Named, Ownership
<1>5. QED
  BY <1>2, <1>3, <1>4, EpochSteps

LEMMA CheckpointStep == TypeOK /\ Inductive /\ [Next]_vars => AtCheckpoint'
<1> SUFFICES ASSUME TypeOK, Inductive, [Next]_vars,
                    NEW u \in Exec, Named(u)', pc'[u] \in Computing
             PROVE  Continues(u)'
  BY DEF AtCheckpoint
<1>1. /\ Ownership /\ LockHeld /\ AtCheckpoint
      /\ eng \in [Exec -> Engines] /\ pc \in [Exec -> Stages] /\ my \in [Exec -> Nat]
      /\ epoch \in Nat
  BY DEF Inductive, TypeOK, EngType, WorkType, RowType
<1>2. Named(u)
  <2>1. CASE Claim(u)
    BY <1>1, <2>1 DEF Claim, Goto, Computing
  <2>2. QED
    BY <1>1, <2>1, NamedBefore
<1>3. eng[u] \in Engines
  BY <1>1
<1>4. ASSUME NEW w \in Exec, SaveCommit(w) \/ SaveUnacked(w) PROVE Continues(u)'
  <2>1. CommitRows(w) /\ pc'[w] \notin {"tx", "locked"}
    BY <1>1, <1>4 DEF SaveCommit, SaveUnacked, CommitRows, Goto, AfterSave, AfterError
  <2>2. Named(w) /\ eng[w].seen = status /\ pc[w] = "locked"
    BY <1>1, <2>1, NoneAssumption DEF LockHeld, CommitRows
  <2>3. w = u
    BY <1>1, <1>2, <2>2 DEF Ownership, Named
  <2>4. Continues(u)
    BY <1>1, <2>2, <2>3 DEF AtCheckpoint, Computing
  <2>5. ~Publishes(u)
    BY <2>1, <2>2, <2>3 DEF CommitRows, Publishes, Named, Held
  <2>6. ckpt' = [no |-> eng[u].batchNo + 1, pos |-> eng[u].pos]
    BY <2>1, <2>3, <2>5 DEF CommitRows, Upto
  <2>7. /\ eng'[u].base = eng[u].pos /\ eng'[u].pos = eng[u].pos
        /\ eng'[u].batchNo = eng[u].batchNo + 1
    BY <1>1, <1>3, <2>1, <2>3 DEF CommitRows, Engines
  <2>8. eng[u].pos \in Nat
    BY <1>3, TicksAssumption DEF Engines, Final
  <2>9. QED
    BY <2>1, <2>3, <2>4, <2>6, <2>7, <2>8 DEF Continues
<1>5. ASSUME ~\E w \in Exec : SaveCommit(w) \/ SaveUnacked(w) PROVE Continues(u)'
  <2>1. ckpt' = ckpt
    BY <1>5, DataFrame DEF DataStep, FreezeCommit, dataVars
  <2>2. pc[u] \in Computing => Continues(u)
    BY <1>1, <1>2 DEF AtCheckpoint
  <2>3. CASE eng'[u] = eng[u] /\ pc'[u] = pc[u]
    BY <2>1, <2>2, <2>3 DEF Continues
  <2>4. CASE Load(u)
    <3>1. ckpt.pos \in 0..Final
      BY DEF TypeOK, DataType
    <3>2. /\ eng'[u].base = ckpt.pos /\ eng'[u].pos = ckpt.pos
          /\ eng'[u].batchNo = ckpt.no /\ pc'[u] = "run"
      BY <1>1, <1>3, <2>4 DEF Load, ResumePoint, Goto, Engines
    <3>3. QED
      BY <2>1, <3>1, <3>2 DEF Continues, Final
  <2>5. CASE Step(u)
    <3>1. /\ eng'[u] = [eng[u] EXCEPT !.pos = eng[u].pos + 1]
          /\ pc'[u] = pc[u] /\ pc[u] = "run" /\ eng[u].pos < Ticks
      BY <1>1, <2>5 DEF Step
    <3>2. QED
      BY <1>3, <2>1, <2>2, <3>1, TicksAssumption DEF Continues, Engines, Final, Computing
  <2>6. ASSUME NEW g \in Goals, SaveBegin(u, g) PROVE Continues(u)'
    <3>1. /\ eng'[u].base = eng[u].base /\ eng'[u].pos = eng[u].pos
          /\ eng'[u].batchNo = eng[u].batchNo /\ eng'[u].goal = g
      BY <1>1, <1>3, <2>6 DEF SaveBegin, Engines
    <3>2. pc[u] \in Computing /\ (g = "final" => eng[u].pos >= Ticks)
      BY <2>6 DEF SaveBegin, MaySave, Computing
    <3>3. QED
      BY <2>1, <2>2, <3>1, <3>2 DEF Continues
  <2>7. CASE Fence(u)
    <3>1. /\ eng'[u].base = eng[u].base /\ eng'[u].pos = eng[u].pos
          /\ eng'[u].batchNo = eng[u].batchNo /\ eng'[u].goal = eng[u].goal
          /\ pc[u] = "tx"
      BY <1>1, <1>3, <2>7 DEF Fence, Engines
    <3>2. QED
      BY <2>1, <2>2, <3>1 DEF Continues, Computing
  <2>8. CASE Interrupt(u)
    BY <1>1, <2>1, <2>2, <2>8 DEF Interrupt, Continues, Computing, Goto
  <2>9. QED
    BY <1>5, <2>3, <2>4, <2>5, <2>6, <2>7, <2>8, Moves
<1>6. QED
  BY <1>4, <1>5

\* Outside a save no run becomes completed, and a completed one is left alone, but for
\* the UPDATE of createBacktest.
LEMMA CompletedSteps ==
  ASSUME TypeOK, CompletedFree, [Next]_vars, ~\E w \in Exec : SaveCommit(w) \/ SaveUnacked(w)
  PROVE  /\ status' = "completed" => status = "completed" /\ lease' = lease
         /\ status = "completed" => status' = "completed" \/ creating' = "disowned"
<1> DEFINE Same == /\ status' = "completed" => status = "completed" /\ lease' = lease
                   /\ status = "completed" => status' = "completed"
<1>1. ASSUME NEW w \in Exec, RowStep(w), ~SaveCommit(w), ~SaveUnacked(w) PROVE Same
  <2>1. CASE Claim(w) \/ FreezeDone(w) \/ Fence(w)
    BY <2>1 DEF Claim, FreezeDone, Fence, rowVars
  <2>2. CASE Release(w) \/ Fail(w)
    BY <2>2 DEF Release, Fail, Holds, CompletedFree
  <2>3. CASE SaveRefused(w) \/ DbError(w) \/ Crash(w) \/ Shutdown(w)
    BY <2>3 DEF SaveRefused, DbError, Crash, Shutdown, rowVars
  <2>4. CASE Beat(w)
    BY <2>4 DEF Beat, Named, Held
  <2>5. QED
    BY <1>1, <2>1, <2>2, <2>3, <2>4 DEF RowStep
<1>2. CASE DeclareFailed
  BY <1>2 DEF DeclareFailed
<1>3. ASSUME ControlStep, ~DeclareFailed PROVE Same
  <2>1. CASE Reconcile
    BY <2>1 DEF Reconcile, Recovered, Lapsed, Held
  <2>2. CASE ExpireStalled \/ ExpireOrphan
    BY <2>2 DEF ExpireStalled, ExpireOrphan, Expire, CompletedFree
  <2>3. CASE StopRun \/ RetryRun
    BY <2>3 DEF StopRun, RetryRun
  <2>4. CASE SourceUpsert \/ FirstAddThrows \/ CreatorDies \/ \E d \in outbox : LoseOutbox(d)
    BY <2>4 DEF SourceUpsert, FirstAddThrows, CreatorDies, LoseOutbox, rowVars
  <2>5. QED
    BY <1>3, <2>1, <2>2, <2>3, <2>4 DEF ControlStep
<1>4. CASE UNCHANGED <<rowVars, rowLock, source, env>>
  BY <1>4 DEF rowVars
<1>5. QED
  BY <1>1, <1>2, <1>3, <1>4, RowFrame

\* The UPDATE of createBacktest is its last word.
LEMMA DisownedStays == [Next]_vars /\ creating = "disowned" => creating' = "disowned"
  BY CreateFrame DEF CreateStep, FirstAdd, FirstAddThrows, DeclareFailed, CreatorDies

\* What the executor that holds the row knows of the checkpoint when it saves.
LEMMA SaveFacts ==
  ASSUME TypeOK, Inductive, NEW w \in Exec, CommitRows(w)
  PROVE  /\ Named(w) /\ eng[w].seen = status /\ Continues(w) /\ pc[w] = "locked"
         /\ eng[w].base \in Nat /\ eng[w].pos \in Nat /\ eng[w].base = ckpt.pos
         /\ eng[w].base <= eng[w].pos /\ eng[w].pos <= Final
         /\ eng[w].pos > Ticks => eng[w].base = eng[w].pos
         /\ ckpt' = [no |-> eng[w].batchNo + 1, pos |-> Upto(w)]
         /\ Upto(w) \in Nat /\ eng[w].base <= Upto(w) /\ Upto(w) <= Final
         /\ Publishes(w) => Upto(w) = Final /\ ~reported
         /\ ~Publishes(w) => Upto(w) = eng[w].pos
         /\ ~reported => eng[w].base <= Ticks /\ (~Publishes(w) => Upto(w) <= Ticks)
<1>1. Named(w) /\ eng[w].seen = status /\ Continues(w) /\ pc[w] = "locked"
  BY NoneAssumption DEF Inductive, LockHeld, CommitRows, AtCheckpoint, Computing
<1>2. /\ eng[w].base \in 0..Final /\ eng[w].pos \in 0..Final
      /\ eng[w].base = ckpt.pos /\ eng[w].base <= eng[w].pos
      /\ eng[w].pos > Ticks => eng[w].base = eng[w].pos
  BY <1>1 DEF Continues, TypeOK, EngType, Engines
<1>3. /\ Publishes(w) => Upto(w) = Final /\ ~reported
      /\ ~Publishes(w) => Upto(w) = eng[w].pos
      /\ ckpt' = [no |-> eng[w].batchNo + 1, pos |-> Upto(w)]
  BY DEF CommitRows, Duplicate, Upto
<1>4. ~reported => eng[w].base <= Ticks
  BY <1>2 DEF Inductive, OpenEnded
<1>5. Ticks \in Nat /\ Final = Ticks + 1
  BY TicksAssumption DEF Final
<1>6. QED
  BY <1>1, <1>2, <1>3, <1>4, <1>5

\* One save by the executor that holds the row.
LEMMA SaveStep ==
  ASSUME TypeOK, Inductive, NEW w \in Exec, CommitRows(w)
  PROVE  OpenEnded' /\ CompletedFree' /\ ExactlyOnce' /\ ReportIsFinal'
<1>1. status \in Held /\ status' = IF Publishes(w) THEN "completed" ELSE status
  BY SaveFacts DEF CommitRows, Publishes, Named
<1>2. reported' = (reported \/ Publishes(w)) /\ ckpt'.pos = Upto(w) /\ creating' = creating
  BY DEF CommitRows
<1>3. Ticks \in Nat /\ Final = Ticks + 1
  BY TicksAssumption DEF Final
<1>4. OpenEnded'
  BY <1>2, SaveFacts DEF OpenEnded
<1>5. CompletedFree'
  <2>1. CASE Publishes(w)
    BY <2>1, SaveFacts DEF CommitRows, Publishes, CompletedFree
  <2>2. CASE ~Publishes(w)
    BY <1>1, <2>2 DEF Held, CompletedFree
  <2>3. QED
    BY <2>1, <2>2
<1>6. ExactlyOnce'
  <2>1. ASSUME NEW t \in 1..Final PROVE rows'[t] = IF t <= ckpt'.pos THEN 1 ELSE 0
    <3>1. rows[t] = IF t <= eng[w].base THEN 1 ELSE 0
      BY SaveFacts DEF Inductive, ExactlyOnce
    <3>2. rows'[t] = IF eng[w].base < t /\ t <= Upto(w) THEN rows[t] + 1 ELSE rows[t]
      BY DEF CommitRows
    <3>3. /\ eng[w].base \in Nat /\ Upto(w) \in Nat /\ eng[w].base <= Upto(w) /\ t \in Nat
          /\ ckpt'.pos = Upto(w)
      BY <1>2, <1>3, SaveFacts
    <3>4. QED
      BY ONLY <3>1, <3>2, <3>3
  <2>2. QED
    BY <2>1 DEF ExactlyOnce
<1>7. ReportIsFinal'
  <2>1. CASE Publishes(w)
    BY <1>1, <1>2, <2>1, SaveFacts DEF ReportIsFinal
  <2>2. CASE ~Publishes(w)
    <3>1. status' # "completed" /\ reported' = reported
      <4>1. status' = status
        BY <1>1, <2>2
      <4>2. status # "completed"
        BY <1>1 DEF Held
      <4>3. reported' = reported
        BY <1>2, <2>2 DEF TypeOK, DataType
      <4>4. QED
        BY <4>1, <4>2, <4>3
    <3>2. ASSUME reported PROVE creating = "disowned" /\ ckpt.pos = Final
      BY <1>1, <3>2 DEF Inductive, ReportIsFinal, Held
    <3>3. ASSUME reported PROVE ckpt'.pos = Final
      <4>1. eng[w].base = Final /\ Upto(w) = eng[w].pos /\ Upto(w) <= Final /\ Upto(w) \in Nat
            /\ eng[w].base <= eng[w].pos
        BY <2>2, <3>2, <3>3, SaveFacts
      <4>2. QED
        BY <1>2, <1>3, <4>1
    <3>4. QED
      BY <1>2, <3>1, <3>2, <3>3 DEF ReportIsFinal
  <2>3. QED
    BY <2>1, <2>2
<1>8. QED
  BY <1>4, <1>5, <1>6, <1>7

LEMMA ResultStep ==
  TypeOK /\ Inductive /\ [Next]_vars
    => OpenEnded' /\ CompletedFree' /\ ExactlyOnce' /\ ReportIsFinal'
<1> SUFFICES ASSUME TypeOK, Inductive, [Next]_vars
             PROVE  OpenEnded' /\ CompletedFree' /\ ExactlyOnce' /\ ReportIsFinal'
  OBVIOUS
<1>1. CASE \E w \in Exec : SaveCommit(w) \/ SaveUnacked(w)
  BY <1>1, SaveStep DEF SaveCommit, SaveUnacked
<1>2. CASE ~\E w \in Exec : SaveCommit(w) \/ SaveUnacked(w)
  <2>1. UNCHANGED <<ckpt, rows, reported>>
    BY <1>2, DataFrame DEF DataStep, FreezeCommit, dataVars
  <2>2. /\ status' = "completed" => status = "completed" /\ lease' = lease
        /\ status = "completed" => status' = "completed" \/ creating' = "disowned"
    BY <1>2, CompletedSteps DEF Inductive
  <2>3. OpenEnded' /\ CompletedFree' /\ ExactlyOnce'
    BY <2>1, <2>2 DEF Inductive, OpenEnded, CompletedFree, ExactlyOnce
  <2>4. ReportIsFinal'
    BY <2>1, <2>2, DisownedStays DEF Inductive, ReportIsFinal
  <2>5. QED
    BY <2>3, <2>4
<1>3. QED
  BY <1>1, <1>2

LEMMA InductiveInit == Init => Inductive
<1> SUFFICES ASSUME Init PROVE Inductive
  OBVIOUS
<1>1. Ownership /\ LockHeld
  BY DEF Init, Ownership, LockHeld, Held
<1>2. AtCheckpoint /\ OpenEnded /\ CompletedFree
  BY TicksAssumption DEF Init, AtCheckpoint, Computing, OpenEnded, CompletedFree
<1>3. ExactlyOnce /\ ReportIsFinal
  BY TicksAssumption DEF Init, ExactlyOnce, ReportIsFinal, Final
<1>4. QED
  BY <1>1, <1>2, <1>3 DEF Inductive

LEMMA InductiveStep == TypeOK /\ Inductive /\ [Next]_vars => Inductive'
<1> SUFFICES ASSUME TypeOK, Inductive, [Next]_vars PROVE Inductive'
  OBVIOUS
<1>1. Ownership /\ LockHeld
  BY DEF Inductive
<1>2. QED
  BY <1>1, OwnershipStep, LockStep, CheckpointStep, ResultStep DEF Inductive

\* Ownership, the row lock, the checkpoint and the results stay in step with each other,
\* whatever the executors, the reconciler and the operators do.
THEOREM InductiveCorrect == Spec => []Inductive
<1>1. Init => TypeOK /\ Inductive
  BY TypeInit, InductiveInit
<1>2. TypeOK /\ Inductive /\ [Next]_vars => (TypeOK /\ Inductive)'
  BY TypeStep, InductiveStep
<1>3. QED
  BY <1>1, <1>2, PTL DEF Spec

\* However often executors crash, stall or lose their lease between a checkpoint and the
\* rows behind it, each result row up to the checkpoint is stored once, and no other.
THEOREM ExactlyOnceCorrect == Spec => []ExactlyOnce
<1>1. Inductive => ExactlyOnce
  BY DEF Inductive
<1>2. QED
  BY <1>1, InductiveCorrect, PTL

\* The row names at most one of the executors that are at work on it.
THEOREM SingleWriterCorrect == Spec => []SingleWriter
<1>1. Inductive => SingleWriter
  BY DEF Inductive, Ownership, SingleWriter, Named
<1>2. QED
  BY <1>1, InductiveCorrect, PTL

\* A completed run has its report and every row, also when a stop request arrives between
\* the last step and the last save; and only the UPDATE of createBacktest after a failed
\* add lets a run that has its report be seen as anything else.
THEOREM ReportIsFinalCorrect == Spec => []ReportIsFinal
<1>1. Inductive => ReportIsFinal
  BY DEF Inductive
<1>2. QED
  BY <1>1, InductiveCorrect, PTL

-----------------------------------------------------------------------------
(* Action properties.                                                      *)

\* Results, checkpoint and report only change under the row lock of the executor that
\* the row names: no write of an executor that lost its lease survives.
THEOREM OnlyOwnerWritesCorrect == Spec => OnlyOwnerWrites
<1> DEFINE Owned == \E w \in Exec : rowLock = w /\ my[w] = epoch /\ status \in Held
           Results == <<batches, ckpt, rows, reported>>
<1>1. TypeOK /\ Inductive /\ [Next]_vars => [Results' # Results => Owned]_vars
  <2> SUFFICES ASSUME TypeOK, Inductive, [Next]_vars, Results' # Results PROVE Owned
    OBVIOUS
  <2>1. ASSUME NEW w \in Exec, CommitRows(w) PROVE Owned
    BY <2>1, NoneAssumption DEF CommitRows, Inductive, LockHeld, Named
  <2>2. PICK w \in Exec : DataStep(w)
    BY DataFrame DEF dataVars
  <2>3. CASE FreezeCommit(w)
    BY <2>3 DEF FreezeCommit
  <2>4. QED
    BY <2>1, <2>2, <2>3 DEF DataStep, SaveCommit, SaveUnacked
<1>2. Spec => []TypeOK /\ []Inductive
  BY TypeCorrect, InductiveCorrect
<1>3. QED
  BY <1>1, <1>2, PTL DEF Spec, OnlyOwnerWrites

LEMMA FrozenStays ==
  ASSUME TypeOK, [Next]_vars
  PROVE  \A p \in Pools : frozen[p] # None => frozen'[p] = frozen[p]
<1> DEFINE Kept == \A p \in Pools : frozen[p] # None => frozen'[p] = frozen[p]
<1>1. frozen \in [Pools -> Nat \cup {None}]
  BY DEF TypeOK, DataType
<1>2. ASSUME NEW w \in Exec, FreezeCommit(w) PROVE Kept
  BY <1>1, <1>2 DEF FreezeCommit, MayFreeze
<1>3. ASSUME NEW w \in Exec, SaveCommit(w) \/ SaveUnacked(w) PROVE Kept
  BY <1>3 DEF SaveCommit, SaveUnacked, CommitRows
<1>4. CASE UNCHANGED dataVars
  BY <1>4 DEF dataVars
<1>5. QED
  BY <1>2, <1>3, <1>4, DataFrame DEF DataStep

\* A pool that is in the manifest keeps its frozen candles, whoever freezes next.
THEOREM InputImmutableCorrect == Spec => InputImmutable
<1>1. TypeOK /\ [Next]_vars => [\A p \in Pools : frozen[p] # None => frozen'[p] = frozen[p]]_vars
  BY FrozenStays
<1>2. QED
  BY <1>1, TypeCorrect, PTL DEF Spec, InputImmutable

-----------------------------------------------------------------------------
(* The batches of all executions read like those of one.                   *)

\* An executor past the freeze, and a run marked ready, have the whole input frozen.
PastFreeze ==
  /\ inputReady => AllFrozen
  /\ \A w \in Exec : pc[w] \in {"load"} \cup Computing => AllFrozen

\* No batch is of an execution yet to come.
NoLater == \A b \in batches : b.epoch <= epoch

LEMMA PastFreezeStep == TypeOK /\ PastFreeze /\ [Next]_vars => PastFreeze'
<1> SUFFICES ASSUME TypeOK, PastFreeze, [Next]_vars PROVE PastFreeze'
  OBVIOUS
<1>1. frozen \in [Pools -> Nat \cup {None}] /\ pc \in [Exec -> Stages]
  BY DEF TypeOK, DataType, WorkType
<1>2. AllFrozen => AllFrozen'
  BY FrozenStays DEF AllFrozen
<1>3. inputReady' => AllFrozen
  <2>1. ASSUME NEW w \in Exec, RowStep(w) PROVE inputReady' = inputReady \/ AllFrozen
    BY <2>1 DEF RowStep, Claim, FreezeDone, Fence, SaveCommit, SaveUnacked, SaveRefused,
       CommitRows, Release, Fail, DbError, Crash, Shutdown, Beat, rowVars
  <2>2. CASE ControlStep
    BY <2>2 DEF ControlStep, Reconcile, ExpireStalled, ExpireOrphan, Expire, StopRun,
       RetryRun, SourceUpsert, LoseOutbox, FirstAddThrows, DeclareFailed, CreatorDies,
       rowVars, PastFreeze
  <2>3. CASE UNCHANGED <<rowVars, rowLock, source, env>>
    BY <2>3 DEF rowVars, PastFreeze
  <2>4. QED
    BY <2>1, <2>2, <2>3, RowFrame DEF PastFreeze
<1>4. ASSUME NEW u \in Exec, pc'[u] \in Computing PROVE AllFrozen
  <2>1. pc[u] \in {"load"} \cup Computing
    BY <1>1, <1>4, Moves DEF Computing, Load, Step, Fence, Interrupt, SaveCommit, CommitRows,
       SaveBegin, MaySave, Goto
  <2>2. QED
    BY <2>1 DEF PastFreeze
<1>5. ASSUME NEW u \in Exec, pc'[u] = "load" PROVE AllFrozen
  <2>1. CASE pc[u] = "load"
    BY <2>1 DEF PastFreeze
  <2>2. CASE Claim(u)
    BY <1>1, <1>5, <2>2 DEF Claim, Goto, PastFreeze
  <2>3. CASE FreezeDone(u)
    BY <2>3 DEF FreezeDone
  <2>4. ASSUME pc[u] # "load", ~Claim(u), ~FreezeDone(u) PROVE FALSE
    <3>1. PICK w \in Exec : WorkStep(w)
      BY <1>5, <2>4, WorkFrame
    <3>2. CASE w # u
      <4>1. pc'[u] = pc[u]
        BY <1>1, <3>1, <3>2 DEF WorkStep, MoveStep, TakeJob, Claim, Ack, Crash, Forget, FreezeCommit,
           FreezeDone, Load, SaveBegin, Fence, SaveCommit, SaveUnacked, SaveRefused,
           Abandon, Interrupt, Release, Fail, DbError, Goto
      <4>2. QED
        BY <1>5, <2>4, <4>1
    <3>3. CASE w = u
      <4>1. CASE FreezeCommit(u) \/ SaveCommit(u) \/ SaveUnacked(u) \/ SaveRefused(u)
        BY <1>1, <1>5, <2>4, <4>1 DEF FreezeCommit, SaveCommit, SaveUnacked, SaveRefused, AfterSave, AfterError, Goto
      <4>2. CASE Load(u) \/ Fence(u) \/ Abandon(u) \/ Interrupt(u) \/ Release(u) \/ Fail(u) \/ DbError(u)
        BY <1>1, <1>5, <4>2 DEF Load, Fence, Abandon, Interrupt, Release, Fail, DbError, AfterError, Goto
      <4>3. CASE Ack(u) \/ Crash(u) \/ (\E d \in waiting : TakeJob(u, d)) \/ \E g \in Goals : SaveBegin(u, g)
        BY <1>1, <1>5, <4>3 DEF Ack, Crash, Forget, TakeJob, SaveBegin, Goto
      <4>4. QED
        BY <2>4, <3>1, <3>3, <4>1, <4>2, <4>3 DEF WorkStep, MoveStep
    <3>4. QED
      BY <3>2, <3>3
  <2>5. QED
    BY <2>1, <2>2, <2>3, <2>4
<1>6. QED
  BY <1>2, <1>3, <1>4, <1>5 DEF PastFreeze

LEMMA OrderStep ==
  TypeOK /\ Inductive /\ PastFreeze /\ NoLater /\ OneExecution /\ [Next]_vars
    => NoLater' /\ OneExecution'
<1> SUFFICES ASSUME TypeOK, Inductive, PastFreeze, NoLater, OneExecution, [Next]_vars
             PROVE  NoLater' /\ OneExecution'
  OBVIOUS
<1>1. /\ epoch \in Nat /\ epoch' \in Nat /\ epoch <= epoch'
      /\ batches \subseteq [no : Nat, epoch : Nat, input : [Pools -> Nat \cup {None}]]
      /\ frozen \in [Pools -> Nat \cup {None}] /\ frozen' \in [Pools -> Nat \cup {None}]
  <2>1. epoch \in Nat /\ epoch' \in Nat
    BY TypeStep DEF TypeOK, RowType
  <2>2. epoch <= epoch'
    BY <2>1, EpochSteps DEF Claim
  <2>3. QED
    BY <2>1, <2>2, TypeStep DEF TypeOK, DataType
<1>2. AllFrozen => frozen' = frozen
  BY <1>1, FrozenStays DEF AllFrozen
<1>3. ASSUME NEW w \in Exec, CommitRows(w) PROVE NoLater' /\ OneExecution'
  <2> DEFINE new == [no |-> ckpt.no + 1, epoch |-> epoch, input |-> frozen]
  <2>1. Named(w) /\ pc[w] = "locked" /\ Continues(w)
    BY <1>3, NoneAssumption DEF Inductive, LockHeld, CommitRows, AtCheckpoint, Computing
  <2>2. /\ batches' = batches \cup {new} /\ ckpt'.no = ckpt.no + 1
        /\ UNCHANGED <<epoch, frozen>>
    BY <1>3, <2>1 DEF CommitRows, Named, Continues
  <2>3. AllFrozen
    BY <2>1 DEF PastFreeze, Computing
  <2>4. ckpt.no \in Nat
    BY DEF TypeOK, DataType
  <2>5. NoLater'
    BY <1>1, <2>2 DEF NoLater
  <2>6. OneInput'
    BY <2>2, <2>3 DEF OneExecution, OneInput, AllFrozen
  <2>7. {b.no : b \in batches'} = 1..ckpt'.no
    <3>1. {b.no : b \in batches'} = {b.no : b \in batches} \cup {ckpt.no + 1}
      <4>1. new.no = ckpt.no + 1
        OBVIOUS
      <4> HIDE DEF new
      <4>2. QED
        BY <2>2, <4>1
    <3>2. {b.no : b \in batches} = 1..ckpt.no
      BY DEF OneExecution, BatchesOrdered
    <3>3. QED
      BY <2>2, <2>4, <3>1, <3>2
  <2>8. ASSUME NEW b \in batches', NEW c \in batches', b.no < c.no PROVE b.epoch <= c.epoch
    <3>1. CASE b \in batches /\ c \in batches
      BY <2>8, <3>1 DEF OneExecution, BatchesOrdered
    <3>2. CASE c = new
      BY <1>1, <2>2, <3>2 DEF NoLater
    <3>3. CASE b = new /\ c \in batches
      <4>1. c.no \in 1..ckpt.no
        BY <3>3 DEF OneExecution, BatchesOrdered
      <4>2. QED
        BY <2>4, <2>8, <3>3, <4>1
    <3>4. QED
      BY <2>2, <3>1, <3>2, <3>3
  <2>9. QED
    BY <2>5, <2>6, <2>7, <2>8 DEF OneExecution, BatchesOrdered
<1>4. CASE UNCHANGED <<batches, ckpt>>
  <2>1. NoLater'
    <3>1. ASSUME NEW b \in batches PROVE b.epoch <= epoch'
      <4>1. b.epoch \in Nat /\ b.epoch <= epoch
        BY <1>1 DEF NoLater
      <4>2. QED
        BY <1>1, <4>1
    <3>2. QED
      BY <1>4, <3>1 DEF NoLater
  <2>2. OneInput'
    BY <1>2, <1>4 DEF OneExecution, OneInput, AllFrozen
  <2>3. BatchesOrdered'
    BY <1>4 DEF OneExecution, BatchesOrdered
  <2>4. QED
    BY <2>1, <2>2, <2>3 DEF OneExecution
<1>5. UNCHANGED <<batches, ckpt>> \/ \E w \in Exec : CommitRows(w)
  BY DataFrame DEF DataStep, FreezeCommit, SaveCommit, SaveUnacked, dataVars
<1>6. QED
  BY <1>3, <1>4, <1>5

\* However often the run is taken over, its batches are numbered without a gap, none of an
\* older execution follows one of a newer, and all were computed on the one frozen input.
THEOREM OneExecutionCorrect == Spec => []OneExecution
<1>1. Init => PastFreeze /\ NoLater /\ OneExecution
  <2> SUFFICES ASSUME Init PROVE PastFreeze /\ NoLater /\ OneExecution
    OBVIOUS
  <2>1. PastFreeze
    BY NoneAssumption DEF Init, PastFreeze, AllFrozen, Computing
  <2>2. batches = {} /\ ckpt.no = 0 /\ 1..0 = {}
    BY DEF Init
  <2>3. QED
    BY <2>1, <2>2 DEF NoLater, OneExecution, OneInput, BatchesOrdered
<1>2. TypeOK /\ Inductive /\ PastFreeze /\ NoLater /\ OneExecution /\ [Next]_vars
        => PastFreeze' /\ NoLater' /\ OneExecution'
  BY PastFreezeStep, OrderStep
<1>3. Spec => []TypeOK /\ []Inductive
  BY TypeCorrect, InductiveCorrect
<1>4. QED
  BY <1>1, <1>2, <1>3, PTL DEF Spec

\* After three lease losses in a row without a save between them the run is not executed
\* again on its own.
THEOREM BoundedRecoveryCorrect == Spec => []BoundedRecovery
<1> DEFINE Leash == lease # "none" => streak <= 2
<1>1. Init => BoundedRecovery /\ Leash
  BY DEF Init, BoundedRecovery
<1>2. TypeOK /\ BoundedRecovery /\ Leash /\ [Next]_vars => BoundedRecovery' /\ Leash'
  <2> SUFFICES ASSUME TypeOK, BoundedRecovery, Leash, [Next]_vars PROVE BoundedRecovery' /\ Leash'
    OBVIOUS
  <2> USE DEF BoundedRecovery, Held, rowVars
  <2>1. streak \in Nat
    BY DEF TypeOK, RowType
  <2>2. ASSUME NEW w \in Exec, RowStep(w) PROVE BoundedRecovery' /\ Leash'
    <3>1. CASE Claim(w) \/ FreezeDone(w) \/ Fence(w)
      BY <2>1, <3>1 DEF Claim, FreezeDone, Fence
    <3>2. CASE SaveCommit(w) \/ SaveUnacked(w)
      BY <2>1, <3>2 DEF SaveCommit, SaveUnacked, CommitRows
    <3>3. CASE Release(w) \/ Fail(w)
      BY <2>1, <3>3 DEF Release, Fail, Holds
    <3>4. CASE SaveRefused(w) \/ DbError(w) \/ Crash(w) \/ Shutdown(w)
      BY <2>1, <3>4 DEF SaveRefused, DbError, Crash, Shutdown
    <3>5. CASE Beat(w)
      BY <2>1, <3>5 DEF Beat, Named
    <3>6. QED
      BY <2>2, <3>1, <3>2, <3>3, <3>4, <3>5 DEF RowStep
  <2>3. CASE ControlStep
    <3>1. CASE Reconcile
      BY <2>1, <3>1 DEF Reconcile, Recovered, Lapsed
    <3>2. CASE ExpireStalled \/ ExpireOrphan
      BY <2>1, <3>2 DEF ExpireStalled, ExpireOrphan, Expire
    <3>3. CASE StopRun \/ RetryRun \/ DeclareFailed
      BY <2>1, <3>3 DEF StopRun, RetryRun, DeclareFailed
    <3>4. CASE SourceUpsert \/ FirstAddThrows \/ CreatorDies \/ \E d \in outbox : LoseOutbox(d)
      BY <2>1, <3>4 DEF SourceUpsert, FirstAddThrows, CreatorDies, LoseOutbox
    <3>5. QED
      BY <2>3, <3>1, <3>2, <3>3, <3>4 DEF ControlStep
  <2>4. CASE UNCHANGED <<rowVars, rowLock, source, env>>
    BY <2>4
  <2>5. QED
    BY <2>2, <2>3, <2>4, RowFrame
<1>3. QED
  BY <1>1, <1>2, TypeCorrect, PTL DEF Spec

\* A run whose stop was accepted is settled as stopped or failed; it neither publishes a
\* report nor returns to the queue first.
THEOREM StopHonouredCorrect == Spec => StopHonoured
<1> DEFINE Honoured == status = "stopping" => status' \in {"stopping", "stopped", "failed"}
<1>1. [Next]_vars => [Honoured]_vars
  <2> SUFFICES ASSUME [Next]_vars PROVE Honoured
    OBVIOUS
  <2>1. ASSUME NEW w \in Exec, RowStep(w) PROVE Honoured
    BY <2>1 DEF RowStep, Claim, FreezeDone, Fence, SaveCommit, SaveUnacked, SaveRefused, CommitRows,
       Release, Fail, DbError, Crash, Shutdown, Beat, rowVars
  <2>2. CASE ControlStep
    BY <2>2 DEF ControlStep, Reconcile, Recovered, ExpireStalled, ExpireOrphan, Expire,
       StopRun, RetryRun, SourceUpsert, LoseOutbox,
       FirstAddThrows, DeclareFailed, CreatorDies, rowVars
  <2>3. CASE UNCHANGED <<rowVars, rowLock, source, env>>
    BY <2>3 DEF rowVars
  <2>4. QED
    BY <2>1, <2>2, <2>3, RowFrame
<1>2. QED
  BY <1>1, PTL DEF Spec, StopHonoured

-----------------------------------------------------------------------------
(* Deliveries: a pending run whose job the queue refuses.                  *)

\* No delivery is known before its number is given.
KnownPast == known \cup outbox \subseteq 0..dispatch

LEMMA DispatchSteps ==
  ASSUME [Next]_vars
  PROVE  /\ dispatch' = dispatch \/ dispatch' = dispatch + 1
         /\ status' = "pending" => status = "pending" \/ dispatch' = dispatch + 1
<1>1. ASSUME NEW w \in Exec, RowStep(w)
      PROVE  /\ dispatch' = dispatch \/ dispatch' = dispatch + 1
             /\ status' = "pending" => status = "pending" \/ dispatch' = dispatch + 1
  BY <1>1 DEF RowStep, Claim, FreezeDone, Fence, SaveCommit, SaveUnacked, SaveRefused, CommitRows, Release,
     Requeue, Fail, DbError, Crash, Shutdown, Beat, rowVars
<1>2. CASE ControlStep
  BY <1>2 DEF ControlStep, Reconcile, Requeue, Recovered, ExpireStalled, ExpireOrphan, Expire,
     StopRun, RetryRun, SourceUpsert, LoseOutbox,
       FirstAddThrows, DeclareFailed, CreatorDies, rowVars
<1>3. CASE UNCHANGED <<rowVars, rowLock, source, env>>
  BY <1>3 DEF rowVars
<1>4. QED
  BY <1>1, <1>2, <1>3, RowFrame

\* What the queue knows comes from the outbox, and a job leaves the waiting ones into a claim.
LEMMA QueueSteps ==
  ASSUME [Next]_vars, QueueType
  PROVE  /\ known \subseteq known' /\ burnt \subseteq burnt' /\ known' \subseteq known \cup outbox \cup {0}
         /\ outbox' \subseteq outbox \cup {dispatch'} /\ known' \ known \subseteq waiting'
         /\ \A d \in waiting \ waiting' : \E w \in Exec : TakeJob(w, d)
<1> USE DEF queueVars
<1>1. ASSUME NEW d \in outbox, Enqueue(d) \/ LoseOutbox(d)
      PROVE  /\ known \subseteq known' /\ burnt \subseteq burnt' /\ known' \subseteq known \cup outbox \cup {0}
             /\ outbox' \subseteq outbox /\ known' \ known \subseteq waiting' /\ waiting \subseteq waiting'
  BY <1>1 DEF Enqueue, LoseOutbox
<1>2. ASSUME NEW w \in Exec, DbError(w) \/ Crash(w)
      PROVE  UNCHANGED <<known, outbox>> /\ burnt \subseteq burnt' /\ waiting \subseteq waiting'
  BY <1>2 DEF DbError, Crash
<1>3. ASSUME NEW w \in Exec, NEW d \in waiting, TakeJob(w, d)
      PROVE  UNCHANGED <<known, outbox, burnt>> /\ waiting \ waiting' \subseteq {d}
  BY <1>3 DEF TakeJob
<1>4. CASE Reconcile \/ RetryRun
  <2>1. UNCHANGED <<known, burnt, waiting>>
    BY <1>4 DEF Reconcile, RetryRun
  <2>2. outbox' \subseteq outbox \cup {dispatch'}
    BY <1>4 DEF Reconcile, RetryRun, Deliveries
  <2>3. QED
    BY <2>1, <2>2
<1>5. CASE FirstAdd \/ FirstAddThrows
  BY <1>5 DEF FirstAdd, FirstAddThrows
<1>6. CASE UNCHANGED queueVars
  BY <1>6
<1>7. QED
  BY <1>1, <1>2, <1>3, <1>4, <1>5, <1>6, QueueFrame DEF QueueStep

\* An executor that has a job to claim keeps it, claims, or gives the job back as failed.
LEMMA ClaimSteps ==
  ASSUME TypeOK, [Next]_vars, NEW u \in Exec, pc[u] = "claim"
  PROVE  \/ pc'[u] = "claim" /\ job'[u] = job[u]
         \/ Claim(u) \/ job[u] \in waiting' \cup burnt'
<1>1. pc \in [Exec -> Stages] /\ job \in [Exec -> Nat]
  BY DEF TypeOK, WorkType
<1>2. CASE UNCHANGED <<pc, job, my>>
  BY <1>2
<1>3. ASSUME NEW w \in Exec, w # u, WorkStep(w) PROVE pc'[u] = pc[u] /\ job'[u] = job[u]
  <2>1. CASE Claim(w) \/ Ack(w) \/ Crash(w) \/ \E d \in waiting : TakeJob(w, d)
    BY <1>1, <1>3, <2>1 DEF Claim, Ack, Crash, Forget, TakeJob, Goto
  <2>2. CASE MoveStep(w)
    BY <1>1, <1>3, <2>2 DEF MoveStep, FreezeCommit, FreezeDone, Load, SaveBegin, Fence, SaveCommit,
       SaveUnacked, SaveRefused, CommitRows, Abandon, Interrupt, Release, Fail, DbError, Goto
  <2>3. QED
    BY <1>3, <2>1, <2>2 DEF WorkStep
<1>4. CASE WorkStep(u)
  <2>1. CASE Crash(u)
    BY <2>1 DEF Crash
  <2>2. CASE DbError(u)
    BY <2>2 DEF DbError
  <2>3. QED
    BY <1>4, <2>1, <2>2 DEF WorkStep, MoveStep, TakeJob, Ack, FreezeCommit, FreezeDone, Load, SaveBegin,
       MaySave, Fence, SaveCommit, SaveUnacked, SaveRefused, CommitRows, Abandon, Interrupt, Release, Fail
<1>5. QED
  BY <1>2, <1>3, <1>4, WorkFrame

\* Whatever is crashed, stopped, retried or recovered: only a delivery that failed before its
\* claim leaves a pending run behind whose job id the queue refuses to take again.
THEOREM StrandedCorrect == Spec => []StrandedOnlyByFault
<1>1. Init => KnownPast /\ StrandedOnlyByFault
  BY DEF Init, KnownPast, StrandedOnlyByFault, Stranded
<1>2. TypeOK /\ KnownPast /\ StrandedOnlyByFault /\ [Next]_vars => KnownPast' /\ StrandedOnlyByFault'
  <2> SUFFICES ASSUME TypeOK, KnownPast, StrandedOnlyByFault, [Next]_vars
               PROVE  KnownPast' /\ StrandedOnlyByFault'
    OBVIOUS
  <2>1. /\ QueueType /\ dispatch \in Nat /\ pc \in [Exec -> Stages] /\ job \in [Exec -> Nat]
    BY DEF TypeOK, RowType, WorkType
  <2>2. /\ known \subseteq known' /\ burnt \subseteq burnt' /\ known' \subseteq known \cup outbox \cup {0}
        /\ outbox' \subseteq outbox \cup {dispatch'} /\ known' \ known \subseteq waiting'
        /\ \A d \in waiting \ waiting' : \E w \in Exec : TakeJob(w, d)
    BY <2>1, QueueSteps
  <2>3. /\ dispatch' = dispatch \/ dispatch' = dispatch + 1
        /\ status' = "pending" => status = "pending" \/ dispatch' = dispatch + 1
    BY DispatchSteps
  <2>4. KnownPast'
    <3>1. \A d \in known' \cup outbox' : d \in 0..dispatch \/ d = dispatch'
      BY <2>1, <2>2 DEF KnownPast
    <3>2. QED
      BY <2>1, <2>3, <3>1 DEF KnownPast
  <2>5. ASSUME Stranded' PROVE dispatch' \in burnt'
    <3>1. dispatch' = dispatch /\ status = "pending" /\ dispatch \in known' \ waiting'
      BY <2>1, <2>2, <2>3, <2>5 DEF KnownPast, Stranded
    <3>2. dispatch \in known
      BY <2>2, <3>1
    <3>3. dispatch \notin waiting
      <4>1. ASSUME NEW w \in Exec, TakeJob(w, dispatch) PROVE FALSE
        <5>1. pc'[w] = "claim" /\ job'[w] = dispatch
          BY <2>1, <4>1 DEF TakeJob, Goto
        <5>2. QED
          BY <2>5, <3>1, <5>1 DEF Stranded
      <4>2. QED
        BY <2>2, <3>1, <4>1
    <3>4. ASSUME NEW u \in Exec, pc[u] = "claim", job[u] = dispatch PROVE dispatch \in burnt'
      <4>1. ~(pc'[u] = "claim" /\ job'[u] = job[u])
        BY <2>5, <3>1, <3>4 DEF Stranded
      <4>2. ~Claim(u)
        BY <2>5, <3>1 DEF Claim, Stranded
      <4>3. QED
        BY <3>1, <3>4, <4>1, <4>2, ClaimSteps
    <3>5. QED
      BY <2>2, <3>1, <3>2, <3>3, <3>4 DEF StrandedOnlyByFault, Stranded
  <2>6. QED
    BY <2>4, <2>5 DEF StrandedOnlyByFault
<1>3. QED
  BY <1>1, <1>2, TypeCorrect, PTL DEF Spec

-----------------------------------------------------------------------------
(* The protocol implements the contract of RunContract.                    *)

LEMMA RefineInit == Init => Contract!Init
  BY TicksAssumption
  DEF Init, PhaseOf, Owed, Contract!Init, Contract!Prefix, Contract!Final, Final

\* A save stores the next part of the input, or publishes; of a run that was published
\* already it changes nothing.
LEMMA RefineSave ==
  ASSUME TypeOK, Inductive, NEW w \in Exec, CommitRows(w)
  PROVE  Contract!Extend \/ Contract!Publish \/ UNCHANGED <<PhaseOf, rows, Owed>>
<1>1. status \in Held /\ status' = IF Publishes(w) THEN "completed" ELSE status
  BY SaveFacts DEF CommitRows, Publishes, Named
<1>2. Ticks \in Nat /\ Final = Ticks + 1 /\ Contract!Final = Final
  BY TicksAssumption DEF Final, Contract!Final
<1>3. UNCHANGED Owed
  BY DEF CommitRows, Owed
<1>4. \A t \in 1..Final : rows[t] = IF t <= eng[w].base THEN 1 ELSE 0
  BY SaveFacts DEF Inductive, ExactlyOnce
<1>5. \A t \in 1..Final : Contract!Prefix(Upto(w))[t] = IF t <= Upto(w) THEN 1 ELSE 0
  BY <1>2 DEF Contract!Prefix
<1>6. rows' = Contract!Prefix(Upto(w))
  <2>1. ASSUME NEW t \in 1..Final
        PROVE  (IF eng[w].base < t /\ t <= Upto(w) THEN rows[t] + 1 ELSE rows[t])
                 = IF t <= Upto(w) THEN 1 ELSE 0
    <3>1. /\ eng[w].base \in Nat /\ Upto(w) \in Nat /\ eng[w].base <= Upto(w) /\ t \in Nat
          /\ rows[t] = IF t <= eng[w].base THEN 1 ELSE 0
      BY <1>2, <1>4, SaveFacts
    <3>2. QED
      BY ONLY <3>1
  <2>2. QED
    BY <1>2, <2>1 DEF CommitRows, Contract!Prefix
<1>7. CASE Publishes(w)
  <2>1. status = "running" /\ status' = "completed"
    BY <1>1, <1>7, SaveFacts DEF Publishes, Held
  <2>2. rows[Final] = 0
    <3>1. Final \in 1..Final /\ eng[w].base \in Nat /\ eng[w].base <= Ticks
      BY <1>2, <1>7, SaveFacts
    <3>2. QED
      BY <1>2, <1>4, <3>1
  <2>3. Upto(w) = Final
    BY <1>7, SaveFacts
  <2>4. QED
    BY <1>2, <1>3, <1>6, <2>1, <2>2, <2>3 DEF PhaseOf, Contract!Publish
<1>8. CASE ~Publishes(w) /\ Upto(w) <= Ticks
  <2>1. UNCHANGED PhaseOf /\ PhaseOf \in {"open", "closing"}
    BY <1>1, <1>8 DEF PhaseOf, Held
  <2>2. ASSUME NEW t \in 1..Final PROVE rows[t] <= Contract!Prefix(Upto(w))[t]
    <3>1. /\ eng[w].base \in Nat /\ Upto(w) \in Nat /\ eng[w].base <= Upto(w) /\ t \in Nat
      BY <1>2, SaveFacts
    <3>2. QED
      BY <1>4, <1>5, <3>1
  <2>3. Upto(w) \in 0..Ticks
    BY <1>2, <1>8, SaveFacts
  <2>4. QED
    BY <1>2, <1>3, <1>6, <2>1, <2>2, <2>3 DEF Contract!Extend
<1>9. CASE ~Publishes(w) /\ ~(Upto(w) <= Ticks)
  <2>1. UNCHANGED PhaseOf
    BY <1>1, <1>9 DEF PhaseOf
  <2>2. eng[w].base = Upto(w)
    <3>1. Upto(w) = eng[w].pos /\ eng[w].pos \in Nat
      BY <1>9, SaveFacts
    <3>2. QED
      BY <1>2, <1>9, <3>1, SaveFacts
  <2>3. rows' = [t \in 1..Final |-> rows[t]]
    <3>1. \A t \in 1..Final : ~(eng[w].base < t /\ t <= Upto(w))
      <4>1. Upto(w) \in Nat
        BY SaveFacts
      <4>2. QED
        BY <2>2, <4>1
    <3>2. QED
      BY <3>1 DEF CommitRows
  <2>4. rows = [t \in 1..Final |-> rows[t]]
    BY DEF TypeOK, DataType
  <2>5. QED
    BY <1>3, <2>1, <2>3, <2>4
<1>10. QED
  BY <1>7, <1>8, <1>9

LEMMA RefineStep ==
  TypeOK /\ Inductive /\ [Next]_vars => [Contract!Next]_<<PhaseOf, rows, Owed>>
<1> SUFFICES ASSUME TypeOK, Inductive, [Next]_vars
             PROVE  [Contract!Next]_<<PhaseOf, rows, Owed>>
  OBVIOUS
<1>1. CASE \E w \in Exec : SaveCommit(w) \/ SaveUnacked(w)
  BY <1>1, RefineSave DEF SaveCommit, SaveUnacked, Contract!Next
<1>2. ASSUME ~\E w \in Exec : SaveCommit(w) \/ SaveUnacked(w), CreateStep
      PROVE  [Contract!Next]_<<PhaseOf, rows, Owed>>
  <2>1. CASE FirstAdd
    <3>1. Owed /\ Owed' = FALSE /\ UNCHANGED <<PhaseOf, rows>>
      BY <2>1 DEF FirstAdd, Owed, PhaseOf, rowVars, dataVars
    <3>2. QED
      BY <3>1 DEF Contract!Next, Contract!Answer
  <2>2. CASE CreatorDies
    <3>1. Owed /\ Owed' = FALSE /\ UNCHANGED <<PhaseOf, rows>>
      BY <2>2 DEF CreatorDies, Owed, PhaseOf, rowVars, dataVars
    <3>2. QED
      BY <3>1 DEF Contract!Next, Contract!Answer
  <2>3. CASE FirstAddThrows
    BY <2>3 DEF FirstAddThrows, Owed, PhaseOf, rowVars, dataVars
  <2>4. CASE DeclareFailed
    <3>1. Owed /\ Owed' = FALSE /\ PhaseOf' = "closed" /\ rows' = rows
      BY <2>4 DEF DeclareFailed, Owed, PhaseOf, dataVars
    <3>2. QED
      BY <3>1 DEF Contract!Next, Contract!Disown
  <2>5. QED
    BY <1>2, <2>1, <2>2, <2>3, <2>4 DEF CreateStep
<1>3. ASSUME ~\E w \in Exec : SaveCommit(w) \/ SaveUnacked(w), ~CreateStep
      PROVE  [Contract!Next]_<<PhaseOf, rows, Owed>>
  <2>1. rows' = rows
    BY <1>3, DataFrame DEF DataStep, FreezeCommit, dataVars
  <2>2. UNCHANGED Owed
    BY <1>3, CreateFrame DEF Owed
  <2>3. \/ PhaseOf' = PhaseOf
        \/ PhaseOf = "open" /\ PhaseOf' = "closing"
        \/ PhaseOf \in {"open", "closing"} /\ PhaseOf' = "closed"
        \/ PhaseOf = "closed" /\ PhaseOf' = "open"
    <3>1. ASSUME NEW w \in Exec, RowStep(w), ~SaveCommit(w), ~SaveUnacked(w)
          PROVE  \/ PhaseOf' = PhaseOf
                 \/ PhaseOf \in {"open", "closing"} /\ PhaseOf' = "closed"
                 \/ PhaseOf = "closed" /\ PhaseOf' = "open"
      <4>1. status \in Statuses /\ CompletedFree
        BY DEF TypeOK, RowType, Inductive
      <4>2. CASE Claim(w) \/ FreezeDone(w) \/ Fence(w) \/ Beat(w)
        BY <4>2 DEF Claim, FreezeDone, Fence, Beat, rowVars, PhaseOf
      <4>3. CASE Release(w) \/ Fail(w)
        BY <4>1, <4>3 DEF Release, Fail, Holds, CompletedFree, Statuses, Held, PhaseOf
      <4>4. CASE SaveRefused(w) \/ DbError(w) \/ Crash(w) \/ Shutdown(w)
        BY <4>4 DEF SaveRefused, DbError, Crash, Shutdown, rowVars, PhaseOf
      <4>5. QED
        BY <3>1, <4>2, <4>3, <4>4 DEF RowStep
    <3>2. CASE Reconcile
      BY <3>2 DEF Reconcile, Recovered, Lapsed, Held, PhaseOf
    <3>3. CASE StopRun \/ RetryRun
      BY <3>3 DEF StopRun, RetryRun, PhaseOf
    <3>4. CASE \/ ExpireStalled \/ ExpireOrphan \/ SourceUpsert
               \/ \E d \in outbox : LoseOutbox(d)
      BY <3>4 DEF ExpireStalled, ExpireOrphan, Expire, SourceUpsert, LoseOutbox, rowVars,
         PhaseOf
    <3>5. CASE UNCHANGED <<rowVars, rowLock, source, env>>
      BY <3>5 DEF rowVars, PhaseOf
    <3>6. QED
      BY <1>3, <3>1, <3>2, <3>3, <3>4, <3>5, RowFrame DEF ControlStep, CreateStep
  <2>4. QED
    BY <2>1, <2>2, <2>3
    DEF Contract!Next, Contract!RequestStop, Contract!Close, Contract!Reopen
<1>4. QED
  BY <1>1, <1>2, <1>3

\* A user who only looks at the run's phase, its stored rows and whether the request that
\* created it is over cannot tell the protocol from a single sequential execution.
THEOREM ContractImplemented == Spec => ImplementsContract
<1>1. TypeOK /\ Inductive /\ [Next]_vars => [Contract!Next]_<<PhaseOf, rows, Owed>>
  BY RefineStep
<1>2. QED
  BY <1>1, RefineInit, TypeCorrect, InductiveCorrect, PTL
  DEF Spec, ImplementsContract, Contract!Spec

=============================================================================
