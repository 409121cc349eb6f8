----------------------------- MODULE LiveBarsProofs -----------------------------
(* ReadyIsCurrent, MemoryIsStored and DecidedInOrder of LiveBars, for every    *)
(* number of strategies, breaks, crashes and failures, every length of the      *)
(* queue and of the clock.  The first invariant says of which subscription a    *)
(* recovery is, which memory equals the stored one, and that nothing recorded   *)
(* is of the future: a recovery job may stop between its two writes, and only   *)
(* because what is then held in memory is too old to suffice does the strategy  *)
(* not become ready with it.  The second, on top of it, says that from the      *)
(* boundary of a ready strategy on the aggregator closes bar after bar, and     *)
(* that the closed bars that wait are those the strategy has not decided yet.   *)
EXTENDS LiveBars, FiniteSetTheorems, SequenceTheorems, WellFoundedInduction, TLAPS

-----------------------------------------------------------------------------
(* The inductive invariant of recovery and memory.                         *)

Marks     == -1..MaxClock
Hists     == SUBSET (Bars \X {"real", "flat"})
Requests  == [stage : {"history", "queued"}, session : Nat, epoch : Nat, bound : Nat, from : Nat, to : Nat]
Recs      == {NoRec} \cup Requests
Contexts  == [on : BOOLEAN, ready : BOOLEAN, bound : Nat, hist : Hists, last : Marks, rec : Recs]
StoredRow == [hist : Hists, last : Marks]
Backups   == UNION {[S -> [hist : Hists, last : Marks, bound : Nat]] : S \in SUBSET Ctxs}

Calls   == [kind : {"mark", "ready"}]
Trades  == [kind : {"trade"}, at : Nat, session : Nat, epoch : Nat]
Timers  == [kind : {"flush", "refresh"}, at : Nat]
Ends    == [kind : {"finish"}, c : Ctxs]
Answers == [kind : {"apply"}, c : Ctxs, rows : SUBSET Bars]
Jobs    == Calls \cup Trades \cup Timers \cup Ends \cup Answers
Waiting == {queue[i] : i \in DOMAIN queue}

Flushing   == [kind : {"flush"}, pc : {"next"}, upTo : Nat]
Saved      == [kind : {"flush"}, pc : {"work"}, upTo : Nat, bar : Bars]
Deciding   == [kind : {"flush"}, pc : {"evaluate", "decide", "commit"}, upTo : Nat, bar : Bars, work : SUBSET Ctxs,
               backup : Backups]
Applying   == [kind : {"apply"}, pc : {"commit", "memory"}, c : Ctxs, rows : SUBSET Bars, hist : Hists]
Finishing  == [kind : {"finish"}, pc : {"append", "warm", "boundary"}, c : Ctxs, hist : Hists]
Finished   == [kind : {"finish"}, pc : {"ready"}, c : Ctxs, boundary : Nat]
Running    == {Idle} \cup Flushing \cup Saved \cup Deciding \cup Applying \cup Finishing \cup Finished

Shape ==
  /\ clock \in 0..MaxClock
  /\ faults \in [breaks : Nat, crashes : Nat, fails : Nat]
  /\ sock \in [session : Nat, epoch : Nat, connected : BOOLEAN, confirmed : BOOLEAN]
  /\ agg \in [open : Marks, last : Marks, final : Marks]
  /\ closed \subseteq Bars
  /\ queue \in Seq(Jobs)
  /\ job \in Running
  /\ ctx \in [Ctxs -> Contexts]
  /\ db \in [Ctxs -> StoredRow]
  /\ decided \in [Ctxs -> Seq(Bars \X Nat)]

\* A transaction over the bar job.bar is under way, for the strategies in DOMAIN job.backup.
InTx == job.kind = "flush" /\ job.pc \in {"evaluate", "decide", "commit"}
InFlight(c) == InTx /\ c \in DOMAIN job.backup
Recovering == job.kind \in {"apply", "finish"}

\* What is recorded is of the past.
Past(hist) == \A x \in hist : x[1] < NowBar
QueueTimely ==
  \A j \in Waiting : /\ j.kind \in {"trade", "flush", "refresh"} => j.at <= clock
                     /\ j.kind = "apply" => \A b \in j.rows : b < NowBar
CtxTimely ==
  \A c \in Ctxs : /\ Past(ctx[c].hist) /\ Past(db[c].hist)
                  /\ ctx[c].rec.stage # "none" => ctx[c].rec.to <= NowBar
JobTimely ==
  /\ Recovering /\ job.pc # "ready" => Past(job.hist)
  /\ At("flush", "work") \/ InTx => job.bar < NowBar
  /\ At("finish", "ready") => job.boundary <= clock
  /\ InTx => job.work \subseteq DOMAIN job.backup /\ \A c \in DOMAIN job.backup : Past(job.backup[c].hist)
AggTimely ==
  /\ \A b \in closed : b < NowBar /\ b <= agg.last
  /\ agg.open <= NowBar /\ agg.last < CeilBar(clock)
Timely == sock.epoch <= clock /\ QueueTimely /\ CtxTimely /\ JobTimely /\ AggTimely

\* Sessions are numbered; a recovery belongs to one that was there, and no recovery job is
\* about a strategy that is ready.
Session == faults.breaks + faults.crashes + 1
Current ==
  /\ sock.session \in {0, Session}
  /\ \A c \in Ctxs : ctx[c].ready =>
       /\ ctx[c].on /\ ctx[c].rec.stage = "none"
       /\ sock.session # 0 /\ sock.connected /\ ctx[c].bound >= sock.epoch
  /\ \A c \in Ctxs : ctx[c].rec.stage # "none" =>
       ctx[c].on /\ ctx[c].rec.session \in 1..Session /\ (sock.session = 0 => ctx[c].rec.session # Session)
  /\ Recovering => ctx[job.c].on /\ ~ctx[job.c].ready
  /\ At("finish", "ready") /\ Valid(job.c) => sock.connected /\ job.boundary >= sock.epoch

\* Memory and database: they differ only for a strategy in a transaction, or for one whose
\* memory does not suffice to become ready.
Kept(c) == ctx[c].hist = db[c].hist /\ ctx[c].last = db[c].last
Follows(c) ==
  /\ ctx[c].ready => Kept(c)
  /\ ctx[c].on /\ Covered(ctx[c].hist) => ctx[c].hist = db[c].hist
TxStored ==
  InTx => \A c \in DOMAIN job.backup :
    /\ job.backup[c].hist = db[c].hist /\ job.backup[c].last = db[c].last
    /\ ctx[c].on /\ ctx[c].last = db[c].last /\ db[c].last < job.bar
    /\ IF job.pc # "evaluate" /\ c \in job.work THEN LastOf(ctx[c].hist) = job.bar ELSE ctx[c].hist = db[c].hist
RecStored ==
  /\ At("apply", "commit") => (Covered(ctx[job.c].hist) => job.hist = ctx[job.c].hist)
  /\ At("apply", "memory") => db[job.c].hist = job.hist
  /\ At("finish", "append") => (Covered(job.hist) => job.hist = db[job.c].hist)
  /\ At("finish", "warm") => db[job.c].hist = job.hist /\ job.hist # {}
  /\ At("finish", "boundary") => Kept(job.c) /\ ctx[job.c].hist # {}
  /\ At("finish", "ready") => Kept(job.c)
Stored ==
  /\ \A c \in Ctxs : db[c].last = LastOf(db[c].hist)
  /\ \A c \in Ctxs : ~InFlight(c) => Follows(c)
  /\ TxStored
  /\ RecStored

RecoveryInv == Shape /\ Timely /\ Current /\ Stored

-----------------------------------------------------------------------------
(* Numbers and finite sets of them.                                        *)

LEMMA Bounds == MaxClock \in Nat /\ Start \in Nat /\ Start <= MaxClock /\ Required \in Nat /\ Required > 0
BY BoundsNat

LEMMA Halves ==
  ASSUME NEW t \in Nat
  PROVE  /\ t \div 2 \in Nat /\ 2 * (t \div 2) <= t /\ t < 2 * (t \div 2) + 2
         /\ CeilBar(t) \in Nat /\ t <= 2 * CeilBar(t) /\ 2 * CeilBar(t) < t + 2
BY DEF CeilBar

\* A set of numbers that is not empty has a least one.
LEMMA LeastExists ==
  ASSUME NEW S \in SUBSET Nat, S # {}
  PROVE  \E x \in S : \A y \in S : x <= y
<1> DEFINE T == {1..m : m \in S}
<1>1. IsWellFoundedOn(StrictSubsetOrdering(Nat), FiniteSubsetsOf(Nat))
  BY FS_StrictSubsetOrderingWellFounded
<1>2. T \subseteq FiniteSubsetsOf(Nat)
  <2>1. \A m \in Nat : IsFiniteSet(1..m) /\ 1..m \in SUBSET Nat
    BY FS_Interval
  <2>2. QED
    BY <2>1 DEF FiniteSubsetsOf
<1>3. T # {}
  OBVIOUS
<1> HIDE DEF T
<1>4. PICK C \in T : \A D \in T : <<D, C>> \notin StrictSubsetOrdering(Nat)
  BY <1>1, <1>2, <1>3, WFMin
<1>5. PICK x \in S : C = 1..x
  BY <1>4 DEF T
<1>6. ASSUME NEW y \in S, y < x PROVE FALSE
  <2>1. 1..y \in T
    BY DEF T
  <2>2. 1..y \subseteq 1..x /\ 1..y # 1..x /\ 1..x \subseteq Nat
    BY <1>6
  <2>3. <<1..y, 1..x>> \in StrictSubsetOrdering(Nat)
    BY <2>2 DEF StrictSubsetOrdering
  <2>4. QED
    BY <1>4, <1>5, <2>1, <2>3
<1>7. QED
  BY <1>6

LEMMA MinIs ==
  ASSUME NEW S \in SUBSET Nat, S # {}
  PROVE  Min(S) \in S /\ \A y \in S : Min(S) <= y
BY LeastExists DEF Min

LEMMA MaxIs ==
  ASSUME NEW n \in Nat, NEW S \in SUBSET (-1..n), S # {}
  PROVE  Max(S) \in S /\ \A y \in S : y <= Max(S)
<1> DEFINE R == {n - y : y \in S}
<1>1. \A y \in S : y \in Int /\ n - y \in Nat /\ n - y \in R
  OBVIOUS
<1>2. R \in SUBSET Nat /\ R # {}
  BY <1>1
<1>3. \A z \in R : \E y \in S : z = n - y
  OBVIOUS
<1> HIDE DEF R
<1>4. PICK r \in R : \A z \in R : r <= z
  BY <1>2, LeastExists
<1>5. PICK x \in S : r = n - x
  BY <1>3
<1>6. \A y \in S : x >= y
  <2> TAKE y \in S
  <2>1. r <= n - y
    BY <1>1, <1>4
  <2>2. QED
    BY <1>1, <1>5, <2>1
<1>7. PICK m \in S : \A y \in S : m >= y
  BY <1>6
<1>8. Max(S) \in S /\ \A y \in S : Max(S) >= y
  BY <1>7 DEF Max
<1>9. QED
  BY <1>8

\* Min of two numbers, and Max of two.
LEMMA MinOfTwo == \A a \in Int, b \in Int : Min({a, b}) = IF a <= b THEN a ELSE b
BY DEF Min
LEMMA MaxOfTwo == \A a \in Int, b \in Int : Max({a, b}) = IF a >= b THEN a ELSE b
BY DEF Max

-----------------------------------------------------------------------------
(* Histories, contexts and the queue.                                      *)

\* LastOf(hist) is the newest bar of a history, and -1 when it has none.
LEMMA LastIs ==
  ASSUME NEW hist \in Hists
  PROVE  /\ LastOf(hist) \in Marks
         /\ \A x \in hist : x[1] <= LastOf(hist)
         /\ LastOf(hist) = -1 \/ \E x \in hist : x[1] = LastOf(hist)
         /\ hist = {} <=> LastOf(hist) = -1
<1> DEFINE S == {-1} \cup {x[1] : x \in hist}
<1>1. S \in SUBSET (-1..MaxClock) /\ S # {} /\ MaxClock \in Nat
  BY Bounds DEF Hists, Bars
<1> HIDE DEF S
<1>2. Max(S) \in S /\ \A y \in S : y <= Max(S)
  BY <1>1, MaxIs
<1>3. LastOf(hist) = Max(S)
  BY DEF LastOf, S
<1>4. \A x \in hist : x[1] \in S /\ x[1] \in Nat
  BY Bounds DEF S, Hists, Bars
<1>5. Max(S) = -1 \/ \E x \in hist : x[1] = Max(S)
  BY <1>2 DEF S
<1>6. Max(S) \in Marks
  BY <1>1, <1>2 DEF Marks
<1>7. hist = {} => Max(S) = -1
  BY <1>5
<1>8. hist # {} => Max(S) # -1
  BY <1>2, <1>4, <1>6 DEF Marks
<1>9. QED
  BY <1>2, <1>3, <1>4, <1>5, <1>6, <1>7, <1>8

LEMMA LastIsOnly ==
  ASSUME NEW hist \in Hists, NEW m \in Marks,
         \A x \in hist : x[1] <= m, m = -1 \/ \E x \in hist : x[1] = m
  PROVE  LastOf(hist) = m
<1>1. m \in Int /\ LastOf(hist) \in Int /\ m >= -1 /\ LastOf(hist) >= -1
  BY LastIs, Bounds DEF Marks
<1>2. LastOf(hist) <= m
  BY <1>1, LastIs
<1>3. m <= LastOf(hist)
  BY <1>1, LastIs
<1>4. QED
  BY <1>1, <1>2, <1>3

LEMMA RowsAreHists == \A S \in SUBSET Bars : Rows(S) \in Hists /\ (S # {} => Rows(S) # {})
<1> TAKE S \in SUBSET Bars
<1>1. \A b \in S : <<b, "real">> \in Bars \X {"real", "flat"} /\ <<b, "real">> \in Rows(S)
  BY DEF Rows
<1>2. \A x \in Rows(S) : \E b \in S : x = <<b, "real">>
  BY DEF Rows
<1>3. QED
  BY <1>1, <1>2 DEF Hists

LEMMA HistsJoin == \A g \in Hists, h \in Hists : g \cup h \in Hists
BY DEF Hists

\* Newer bars at the end of a history.
LEMMA LastGrows ==
  ASSUME NEW hist \in Hists, NEW S \in SUBSET Bars, S # {}, \A b \in S : b > LastOf(hist)
  PROVE  /\ hist \cup Rows(S) \in Hists
         /\ Max(S) \in S /\ LastOf(hist \cup Rows(S)) = Max(S)
<1>1. S \in SUBSET (-1..MaxClock) /\ MaxClock \in Nat
  BY Bounds DEF Bars
<1>2. Max(S) \in S /\ \A b \in S : b <= Max(S)
  BY <1>1, MaxIs
<1>3. Max(S) \in Bars /\ Max(S) \in Marks /\ Max(S) \in Int
  <2>1. Max(S) \in Bars
    BY <1>2
  <2>2. QED
    BY <2>1, Bounds DEF Bars, Marks
<1> DEFINE new == hist \cup Rows(S)
<1>4. new \in Hists
  BY RowsAreHists, HistsJoin
<1>5. \A x \in Rows(S) : x[1] <= Max(S)
  BY <1>2 DEF Rows
<1>6. \A x \in hist : x[1] <= Max(S)
  <2> TAKE x \in hist
  <2>1. x[1] \in Int /\ LastOf(hist) \in Int
    BY LastIs, Bounds DEF Hists, Bars, Marks
  <2>2. x[1] <= LastOf(hist) /\ LastOf(hist) < Max(S)
    BY <1>2, LastIs
  <2>3. QED
    BY <1>3, <2>1, <2>2
<1>7. \E x \in new : x[1] = Max(S)
  <2>1. <<Max(S), "real">> \in new
    BY <1>2 DEF Rows
  <2>2. QED
    BY <2>1
<1>8. \A x \in new : x[1] <= Max(S)
  BY <1>5, <1>6
<1> HIDE DEF new
<1>9. LastOf(new) = Max(S)
  BY <1>3, <1>4, <1>7, <1>8, LastIsOnly
<1>10. QED
  BY <1>2, <1>4, <1>9 DEF new

LEMMA ContextUpdates ==
  ASSUME NEW x \in Contexts, NEW t \in BOOLEAN, NEW n \in Nat, NEW h \in Hists, NEW m \in Marks, NEW q \in Recs
  PROVE  /\ [x EXCEPT !.ready = t] \in Contexts
         /\ [x EXCEPT !.ready = t, !.bound = n] \in Contexts
         /\ [x EXCEPT !.ready = t, !.bound = n, !.rec = q] \in Contexts
         /\ [x EXCEPT !.ready = t, !.rec = q] \in Contexts
         /\ [x EXCEPT !.bound = n] \in Contexts
         /\ [x EXCEPT !.hist = h] \in Contexts
         /\ [x EXCEPT !.last = m] \in Contexts
         /\ [x EXCEPT !.hist = h, !.last = m] \in Contexts
         /\ [x EXCEPT !.rec = q] \in Contexts
BY DEF Contexts

LEMMA OffIsContext ==
  ASSUME NEW n \in Nat, NEW h \in Hists, NEW m \in Marks
  PROVE  Off \in Contexts /\ [Off EXCEPT !.on = TRUE, !.bound = n, !.hist = h, !.last = m] \in Contexts
<1>1. NoRec \in Recs /\ {} \in Hists /\ -1 \in Marks /\ 0 \in Nat
  BY Bounds DEF Recs, Hists, Marks
<1>2. QED
  BY <1>1 DEF Contexts, Off

LEMMA EnqueueAdds ==
  ASSUME queue \in Seq(Jobs), NEW j \in Jobs, Enqueue(j)
  PROVE  queue' \in Seq(Jobs) /\ Waiting' = Waiting \cup {j}
<1>1. queue' = Append(queue, j)
  BY DEF Enqueue
<1>2. /\ queue' \in Seq(Jobs) /\ DOMAIN queue' = 1..(Len(queue) + 1) /\ DOMAIN queue = 1..Len(queue)
      /\ Len(queue) \in Nat /\ queue'[Len(queue) + 1] = j /\ \A i \in 1..Len(queue) : queue'[i] = queue[i]
  BY <1>1, AppendProperties, LenProperties
<1>3. DOMAIN queue' = DOMAIN queue \cup {Len(queue) + 1}
  BY <1>2
<1>4. QED
  BY <1>2, <1>3 DEF Waiting

LEMMA TakeRemoves ==
  ASSUME queue \in Seq(Jobs), NEW kind, Take(kind)
  PROVE  /\ queue' \in Seq(Jobs) /\ Waiting' \subseteq Waiting
         /\ Head(queue) \in Waiting /\ Head(queue) \in Jobs /\ Head(queue).kind = kind /\ job = Idle
<1>1. queue' = Tail(queue) /\ queue # <<>> /\ Head(queue).kind = kind /\ job = Idle
  BY DEF Take
<1>2. /\ Tail(queue) \in Seq(Jobs) /\ Len(Tail(queue)) = Len(queue) - 1 /\ Len(queue) \in Nat /\ Len(queue) > 0
      /\ \A i \in 1..Len(Tail(queue)) : Tail(queue)[i] = queue[i + 1]
      /\ Head(queue) = queue[1] /\ Head(queue) \in Jobs
  BY <1>1, HeadTailProperties, LenProperties, EmptySeq
<1>3. DOMAIN queue = 1..Len(queue) /\ DOMAIN queue' = 1..Len(queue')
  BY <1>1, <1>2, LenProperties
<1>4. \A i \in DOMAIN queue' : queue'[i] = queue[i + 1] /\ i + 1 \in DOMAIN queue
  BY <1>1, <1>2, <1>3
<1>5. 1 \in DOMAIN queue
  BY <1>2, <1>3
<1>6. Waiting' \subseteq Waiting
  BY <1>4 DEF Waiting
<1>7. QED
  BY <1>1, <1>2, <1>5, <1>6 DEF Waiting

-----------------------------------------------------------------------------
(* FlushTo(bar): the bars it closes and the aggregator it leaves.          *)

Aggs == [open : Marks, last : Marks, final : Marks]

\* They are before bar, after the last one closed (but for the open one), and the newest of
\* them is the last one closed now.
LEMMA FlushToIs ==
  ASSUME agg \in Aggs, NEW bar \in Bars
  PROVE  LET f == FlushTo(bar)
         IN /\ f.out \subseteq Bars /\ f.agg \in Aggs
            /\ \A b \in f.out : b < bar /\ b <= f.agg.last /\ b <= f.agg.final /\ (b > agg.last \/ b = agg.open)
            /\ f.agg.last >= agg.last /\ f.agg.final >= agg.final
            /\ f.agg.last = agg.last \/ f.agg.last \in f.out
            /\ f.agg.final = agg.final \/ f.agg.final \in f.out
            /\ IF agg.open \in 0..bar - 1 THEN agg.open \in f.out /\ f.agg.open = -1 ELSE f.agg.open = agg.open
            /\ agg.last >= 0 /\ MayFill(agg.last) /\ (\A l \in agg.last..MaxClock : MayFill(l))
                 => \A b \in agg.last + 1..bar - 1 : b \in f.out
            /\ ~sock.confirmed => \A b \in f.out : b = agg.open
<1> DEFINE until == IF agg.open = -1 THEN bar - 1 ELSE Min({bar - 1, agg.open - 1})
           fill1 == IF MayFill(agg.last) THEN agg.last + 1..until ELSE {}
           done  == IF agg.open \in 0..bar - 1 THEN {agg.open} ELSE {}
           L     == {agg.last} \cup fill1 \cup done
           last  == Max(L)
           fill2 == IF MayFill(last) THEN last + 1..bar - 1 ELSE {}
           out   == fill1 \cup done \cup fill2
           M     == {last} \cup fill2
           F     == {agg.final} \cup out
           res   == [open |-> IF done = {} THEN agg.open ELSE -1, last |-> Max(M), final |-> Max(F)]
<1>1. /\ agg.open \in Marks /\ agg.last \in Marks /\ agg.final \in Marks
      /\ MaxClock \in Nat /\ bar \in Nat /\ bar <= MaxClock /\ Marks = -1..MaxClock
  BY Bounds DEF Aggs, Bars, Marks
<1>2. /\ agg.open \in Int /\ agg.last \in Int /\ agg.final \in Int
      /\ agg.open >= -1 /\ agg.last >= -1 /\ agg.final >= -1
      /\ agg.open <= MaxClock /\ agg.last <= MaxClock /\ agg.final <= MaxClock
  BY <1>1
<1>3. until \in Int /\ until <= bar - 1 /\ (agg.open # -1 => until <= agg.open - 1)
      /\ (agg.open = -1 \/ agg.open >= bar => until = bar - 1) /\ (agg.open \in 0..bar - 1 => until = agg.open - 1)
  <2>1. Min({bar - 1, agg.open - 1}) = IF bar - 1 <= agg.open - 1 THEN bar - 1 ELSE agg.open - 1
    <3>1. bar - 1 \in Int /\ agg.open - 1 \in Int
      BY <1>1, <1>2
    <3>2. QED
      BY <3>1, MinOfTwo
  <2> HIDE DEF fill1, done, L, last, fill2, out, M, F, res
  <2>2. QED
    BY <1>1, <1>2, <2>1
<1> HIDE DEF until
<1>4. \A b \in fill1 : b \in Nat /\ b > agg.last /\ b <= until
  BY <1>2, <1>3
<1>5. \A b \in done : b = agg.open /\ b \in Nat /\ b < bar
  BY <1>1, <1>2
<1> HIDE DEF fill1
<1>6. fill1 \cup done \subseteq 0..bar - 1
  BY <1>1, <1>3, <1>4, <1>5
<1> HIDE DEF done
<1>7. L \in SUBSET (-1..MaxClock) /\ L # {}
  BY <1>1, <1>2, <1>6
<1>8. last \in L /\ \A y \in L : y <= last
  <2> HIDE DEF L
  <2>1. QED
    BY <1>1, <1>7, MaxIs
<1>9. last \in Int /\ last >= agg.last /\ last <= MaxClock /\ (last = agg.last \/ last \in fill1 \cup done)
      /\ \A b \in fill1 \cup done : b <= last
  <2> HIDE DEF last
  <2>1. last \in -1..MaxClock
    BY <1>7, <1>8
  <2>2. agg.last \in L /\ fill1 \cup done \subseteq L
    OBVIOUS
  <2>3. last = agg.last \/ last \in fill1 \cup done
    BY <1>8
  <2>4. QED
    BY <1>1, <1>2, <1>8, <2>1, <2>2, <2>3
<1> HIDE DEF L, last
<1>10. \A b \in fill2 : b \in Nat /\ b > last /\ b < bar
  BY <1>1, <1>2, <1>9
<1> HIDE DEF fill2
<1>11. out \subseteq 0..bar - 1
  BY <1>1, <1>6, <1>10
<1>12. M \in SUBSET (-1..MaxClock) /\ M # {}
  BY <1>1, <1>2, <1>9, <1>10
<1>13. Max(M) \in M /\ \A y \in M : y <= Max(M)
  <2> HIDE DEF M
  <2>1. QED
    BY <1>1, <1>12, MaxIs
<1>14. /\ Max(M) \in Int /\ Max(M) >= last /\ \A b \in out : b <= Max(M)
       /\ Max(M) = last \/ Max(M) \in fill2
  <2>1. Max(M) \in Int /\ Max(M) >= last /\ (Max(M) = last \/ Max(M) \in fill2)
    BY <1>12, <1>13
  <2>2. \A b \in fill2 : b <= Max(M)
    BY <1>13
  <2>3. \A b \in fill1 \cup done : b \in Int /\ b <= Max(M)
    BY <1>6, <1>9, <2>1
  <2>4. QED
    BY <2>1, <2>2, <2>3
<1>15. Max(M) = agg.last \/ Max(M) \in out
  BY <1>9, <1>14
<1>16. Max(M) \in Marks
  BY <1>1, <1>12, <1>13
<1> HIDE DEF M
<1>17. F \in SUBSET (-1..MaxClock) /\ F # {}
  BY <1>1, <1>2, <1>11
<1>18. Max(F) \in F /\ \A y \in F : y <= Max(F)
  <2> HIDE DEF F
  <2>1. QED
    BY <1>1, <1>17, MaxIs
<1>19. Max(F) \in Marks /\ Max(F) >= agg.final /\ (Max(F) = agg.final \/ Max(F) \in out) /\ \A b \in out : b <= Max(F)
  BY <1>1, <1>2, <1>17, <1>18
<1> HIDE DEF F
<1>20. \A b \in out : b > agg.last \/ b = agg.open
  BY <1>2, <1>4, <1>5, <1>9, <1>10
<1>21. IF agg.open \in 0..bar - 1 THEN agg.open \in out /\ res.open = -1 ELSE res.open = agg.open
  BY DEF done
<1>22. ASSUME MayFill(agg.last), \A l \in agg.last..MaxClock : MayFill(l), NEW b \in agg.last + 1..bar - 1
       PROVE  b \in out
  <2>1. b \in Int /\ b > agg.last /\ b <= bar - 1
    BY <1>1, <1>2, <1>22
  <2>2. CASE b <= until
    BY <1>2, <1>3, <1>22, <2>1, <2>2 DEF fill1
  <2>3. CASE b > last
    <3>1. MayFill(last)
      BY <1>2, <1>9, <1>22
    <3>2. QED
      BY <1>1, <1>9, <2>1, <2>3, <3>1 DEF fill2
  <2>4. CASE b > until /\ b <= last
    <3>1. b \in done
      <4>1. last # agg.last /\ last \notin fill1
        BY <1>2, <1>3, <1>4, <1>9, <2>1, <2>4
      <4>2. last \in done
        BY <1>9, <4>1
      <4>3. last = agg.open /\ until = agg.open - 1
        BY <4>2, <1>3 DEF done
      <4>4. b = last
        BY <1>2, <1>3, <1>9, <2>1, <2>4, <4>3
      <4>5. QED
        BY <4>2, <4>4
    <3>2. QED
      BY <3>1
  <2>5. QED
    BY <1>3, <1>9, <2>1, <2>2, <2>3, <2>4
<1>23. ASSUME ~sock.confirmed PROVE \A b \in out : b = agg.open
  <2>1. fill1 = {} /\ fill2 = {}
    BY <1>23 DEF fill1, fill2, MayFill
  <2>2. QED
    BY <1>5, <2>1
<1>24. out \subseteq Bars /\ \A b \in out : b < bar
  BY <1>1, <1>11 DEF Bars
<1>25. res \in Aggs /\ res.last = Max(M) /\ res.final = Max(F)
  BY <1>1, <1>2, <1>16, <1>19 DEF Aggs
<1>26. FlushTo(bar) = [out |-> out, agg |-> res]
  BY DEF FlushTo, until, fill1, done, L, last, fill2, M, F
<1>27. /\ \A b \in out : b <= res.last /\ b <= res.final
       /\ res.last >= agg.last /\ res.final >= agg.final
       /\ res.last = agg.last \/ res.last \in out
       /\ res.final = agg.final \/ res.final \in out
  BY <1>2, <1>9, <1>14, <1>15, <1>19, <1>25
<1> HIDE DEF out, res
<1>28. FlushTo(bar).out = out /\ FlushTo(bar).agg = res
  BY <1>26
<1>29. QED
  BY <1>20, <1>21, <1>22, <1>23, <1>24, <1>25, <1>27, <1>28

-----------------------------------------------------------------------------
(* What the recovery computes.                                             *)

\* The rows of an answer go behind a history; one that reaches as far already stays as it is.
LEMMA AppliedIs ==
  ASSUME NEW hist \in Hists, NEW rows \in SUBSET Bars, NEW n \in Nat,
         \A x \in hist : x[1] < n, \A b \in rows : b < n
  PROVE  /\ Applied(hist, rows) \in Hists
         /\ \A x \in Applied(hist, rows) : x[1] < n
         /\ LastOf(hist) >= n - 1 => Applied(hist, rows) = hist
<1> DEFINE last == LastOf(hist)
           new  == {b \in rows : b > last}
           gap  == IF hist = {} \/ new = {} THEN {} ELSE last + 1..Min(new) - 1
           flat == {<<b, "flat">> : b \in gap}
           real == {<<b, "real">> : b \in new}
<1>1. last \in Int /\ last >= -1 /\ MaxClock \in Nat
  BY LastIs, Bounds DEF Marks
<1>2. \A b \in new : b \in Nat /\ b <= MaxClock /\ b < n /\ b > last
  BY Bounds DEF Bars
<1> HIDE DEF last
<1>3. \A b \in gap : b \in Nat /\ b <= MaxClock /\ b < n
  <2>1. CASE new = {}
    BY <2>1
  <2>2. CASE new # {}
    <3> HIDE DEF new
    <3>1. new \in SUBSET Nat
      BY <1>2
    <3>2. Min(new) \in new
      BY <2>2, <3>1, MinIs
    <3>3. Min(new) \in Nat /\ Min(new) <= MaxClock /\ Min(new) < n
      BY <1>2, <3>2
    <3>4. QED
      BY <1>1, <3>3
  <2>3. QED
    BY <2>1, <2>2
<1>4. last >= n - 1 => new = {}
  BY <1>1, <1>2
<1>5. new = {} => gap = {}
  OBVIOUS
<1> HIDE DEF new, gap
<1>6. real \in Hists /\ \A x \in real : x[1] < n
  BY <1>2 DEF Hists, Bars
<1>7. flat \in Hists /\ \A x \in flat : x[1] < n
  BY <1>3 DEF Hists, Bars
<1>8. new = {} => flat = {} /\ real = {}
  BY <1>5
<1> HIDE DEF flat, real
<1>9. Applied(hist, rows) = hist \cup flat \cup real
  BY DEF Applied, last, new, gap, flat, real
<1>10. hist \cup flat \cup real \in Hists
  BY <1>6, <1>7, HistsJoin
<1>11. \A x \in hist \cup flat \cup real : x[1] < n
  BY <1>6, <1>7
<1>12. last >= n - 1 => hist \cup flat \cup real = hist
  BY <1>4, <1>8
<1>13. QED
  BY <1>9, <1>10, <1>11, <1>12 DEF last

LEMMA AppendedIs ==
  ASSUME NEW x \in Contexts
  PROVE  Appended(x) \in SUBSET Bars /\ \A b \in Appended(x) : b > LastOf(x.hist) /\ b < NowBar
<1>1. x.hist \in Hists
  BY DEF Contexts
<1> DEFINE last == LastOf(x.hist)
<1>2. last \in Int /\ last >= -1
  BY <1>1, LastIs, Bounds DEF Marks
<1> HIDE DEF last
<1>3. \A b \in Unbroken(last + 1) : b \in Bars /\ b >= last + 1 /\ b < NowBar
  BY DEF Unbroken, Ws
<1>4. \A b \in Unbroken(last + 1) : b > last
  BY <1>2, <1>3, Bounds DEF Bars
<1>5. Appended(x) = {} \/ Appended(x) = Unbroken(last + 1)
  BY DEF Appended, last
<1>6. QED
  BY <1>3, <1>4, <1>5 DEF last

LEMMA WarmIs == \A x : Warm(x) \in SUBSET Bars /\ \A b \in Warm(x) : b < NowBar
<1> SUFFICES ASSUME NEW x PROVE Warm(x) \in SUBSET Bars /\ \A b \in Warm(x) : b < NowBar
  OBVIOUS
<1>1. Warm(x) = {} \/ Warm(x) = Ws(CeilBar(x.bound))
  BY DEF Warm
<1>2. QED
  BY <1>1 DEF Ws

\* The rows of a set of bars are a history that ends with the newest of them.
LEMMA RowsAre ==
  ASSUME NEW S \in SUBSET Bars, S # {}
  PROVE  /\ Rows(S) \in Hists /\ Rows(S) # {} /\ Max(S) \in S /\ LastOf(Rows(S)) = Max(S)
         /\ Max(S) \in Marks
<1>1. {} \in Hists /\ LastOf({}) = -1
  <2>1. {} \in Hists
    BY DEF Hists
  <2>2. QED
    BY <2>1, LastIs
<1>2. \A b \in S : b > LastOf({})
  BY <1>1, Bounds DEF Bars
<1> DEFINE none == {}
<1> HIDE DEF none
<1>3. none \in Hists /\ \A b \in S : b > LastOf(none)
  BY <1>1, <1>2 DEF none
<1>4. Max(S) \in S /\ LastOf(none \cup Rows(S)) = Max(S)
  BY <1>3, LastGrows
<1>5. none \cup Rows(S) = Rows(S)
  BY DEF none
<1>6. Max(S) \in Marks
  <2>1. Max(S) \in Bars
    BY <1>4
  <2>2. QED
    BY <2>1, Bounds DEF Marks, Bars
<1>7. QED
  BY <1>4, <1>5, <1>6, RowsAreHists

-----------------------------------------------------------------------------
(* The records of the queue and of the running job.                        *)

LEMMA JobsAre ==
  /\ \A k \in {"mark", "ready"} : Job(k) \in Jobs
  /\ \A t \in Nat, s \in Nat, e \in Nat : [kind |-> "trade", at |-> t, session |-> s, epoch |-> e] \in Jobs
  /\ \A k \in {"flush", "refresh"}, t \in Nat : [kind |-> k, at |-> t] \in Jobs
  /\ \A c \in Ctxs : [kind |-> "finish", c |-> c] \in Jobs
  /\ \A c \in Ctxs, rows \in SUBSET Bars : [kind |-> "apply", c |-> c, rows |-> rows] \in Jobs
<1> USE DEF Jobs
<1>1. \A k \in {"mark", "ready"} : Job(k) \in Jobs
  BY DEF Job, Calls
<1>2. \A t \in Nat, s \in Nat, e \in Nat : [kind |-> "trade", at |-> t, session |-> s, epoch |-> e] \in Jobs
  BY DEF Trades
<1>3. \A k \in {"flush", "refresh"}, t \in Nat : [kind |-> k, at |-> t] \in Jobs
  BY DEF Timers
<1>4. \A c \in Ctxs : [kind |-> "finish", c |-> c] \in Jobs
  BY DEF Ends
<1>5. \A c \in Ctxs, rows \in SUBSET Bars : [kind |-> "apply", c |-> c, rows |-> rows] \in Jobs
  BY DEF Answers
<1>6. QED
  BY <1>1, <1>2, <1>3, <1>4, <1>5

LEMMA JobsHave ==
  ASSUME NEW j \in Jobs
  PROVE  /\ j.kind = "trade" => j \in Trades
         /\ j.kind \in {"flush", "refresh"} => j \in Timers
         /\ j.kind = "finish" => j.c \in Ctxs
         /\ j.kind = "apply" => j.c \in Ctxs /\ j.rows \in SUBSET Bars
BY DEF Jobs, Calls, Trades, Timers, Ends, Answers

LEMMA RunningAre ==
  /\ Idle \in Running
  /\ \A n \in Nat : [kind |-> "flush", pc |-> "next", upTo |-> n] \in Running
  /\ \A n \in Nat, b \in Bars : [kind |-> "flush", pc |-> "work", upTo |-> n, bar |-> b] \in Running
  /\ \A c \in Ctxs, rows \in SUBSET Bars, h \in Hists :
       [kind |-> "apply", pc |-> "commit", c |-> c, rows |-> rows, hist |-> h] \in Running
  /\ \A c \in Ctxs, h \in Hists : [kind |-> "finish", pc |-> "append", c |-> c, hist |-> h] \in Running
  /\ \A c \in Ctxs, n \in Nat : [kind |-> "finish", pc |-> "ready", c |-> c, boundary |-> n] \in Running
<1> USE DEF Running
<1>1. Idle \in Running
  OBVIOUS
<1>2. \A n \in Nat : [kind |-> "flush", pc |-> "next", upTo |-> n] \in Running
  BY DEF Flushing
<1>3. \A n \in Nat, b \in Bars : [kind |-> "flush", pc |-> "work", upTo |-> n, bar |-> b] \in Running
  BY DEF Saved
<1>4. \A c \in Ctxs, rows \in SUBSET Bars, h \in Hists :
        [kind |-> "apply", pc |-> "commit", c |-> c, rows |-> rows, hist |-> h] \in Running
  BY DEF Applying
<1>5. \A c \in Ctxs, h \in Hists : [kind |-> "finish", pc |-> "append", c |-> c, hist |-> h] \in Running
  BY DEF Finishing
<1>6. \A c \in Ctxs, n \in Nat : [kind |-> "finish", pc |-> "ready", c |-> c, boundary |-> n] \in Running
  BY DEF Finished
<1>7. QED
  BY <1>1, <1>2, <1>3, <1>4, <1>5, <1>6

LEMMA RunningHave ==
  ASSUME job \in Running
  PROVE  /\ At("flush", "next") => job \in Flushing
         /\ At("flush", "work") => job \in Saved
         /\ At("flush", "evaluate") \/ At("flush", "decide") \/ At("flush", "commit") => job \in Deciding
         /\ At("apply", "commit") \/ At("apply", "memory") => job \in Applying
         /\ At("finish", "append") \/ At("finish", "warm") \/ At("finish", "boundary") => job \in Finishing
         /\ At("finish", "ready") => job \in Finished
         /\ InTx => job \in Deciding
         /\ Recovering => job.c \in Ctxs /\ (job.pc # "ready" => job.hist \in Hists)
<1>0. job = Idle \/ job \in Flushing \/ job \in Saved \/ job \in Deciding \/ job \in Applying \/ job \in Finishing \/ job \in Finished
  BY DEF Running
<1>1. CASE job = Idle
  BY <1>1 DEF Idle, At, InTx, Recovering
<1>2. CASE job \in Flushing
  BY <1>2 DEF Flushing, At, InTx, Recovering
<1>3. CASE job \in Saved
  BY <1>3 DEF Saved, At, InTx, Recovering
<1>4. CASE job \in Deciding
  BY <1>4 DEF Deciding, At, InTx, Recovering
<1>5. CASE job \in Applying
  BY <1>5 DEF Applying, At, InTx, Recovering
<1>6. CASE job \in Finishing
  BY <1>6 DEF Finishing, At, InTx, Recovering
<1>7. CASE job \in Finished
  BY <1>7 DEF Finished, At, InTx, Recovering
<1>8. QED
  BY <1>0, <1>1, <1>2, <1>3, <1>4, <1>5, <1>6, <1>7

-----------------------------------------------------------------------------
(* The shape is kept by every step.                                        *)

\* With TRUE or FALSE for the ready flags the contexts keep their shape.
LEMMA UnreadyIs == Shape => Unready \in [Ctxs -> Contexts]
<1> SUFFICES ASSUME Shape PROVE Unready \in [Ctxs -> Contexts]
  OBVIOUS
<1>1. \A c \in Ctxs : [ctx[c] EXCEPT !.ready = FALSE] \in Contexts
  <2>1. 0 \in Nat /\ {} \in Hists /\ -1 \in Marks /\ NoRec \in Recs
    BY Bounds DEF Hists, Marks, Recs
  <2>2. QED
    BY <2>1, ContextUpdates DEF Shape
<1>2. QED
  BY <1>1 DEF Unready

LEMMA Samples == 0 \in Nat /\ {} \in Hists /\ -1 \in Marks /\ NoRec \in Recs /\ FALSE \in BOOLEAN /\ TRUE \in BOOLEAN
BY Bounds DEF Hists, Marks, Recs

LEMMA ShapeFacts ==
  ASSUME Shape
  PROVE  /\ clock \in Nat /\ clock <= MaxClock /\ NowBar \in Nat /\ NowBar \in Bars
         /\ sock.session \in Nat /\ sock.epoch \in Nat /\ sock.connected \in BOOLEAN /\ sock.confirmed \in BOOLEAN
         /\ agg \in Aggs /\ agg.open \in Marks /\ agg.last \in Marks /\ agg.final \in Marks
         /\ faults.breaks \in Nat /\ faults.crashes \in Nat /\ faults.fails \in Nat
         /\ \A c \in Ctxs : /\ ctx[c] \in Contexts /\ ctx[c].bound \in Nat /\ ctx[c].hist \in Hists
                            /\ ctx[c].last \in Marks /\ ctx[c].rec \in Recs
                            /\ db[c] \in StoredRow /\ db[c].hist \in Hists /\ db[c].last \in Marks
                            /\ LastOf(ctx[c].hist) \in Marks /\ LastOf(db[c].hist) \in Marks
<1>1. clock \in Nat /\ clock <= MaxClock
  BY Bounds DEF Shape
<1>2. NowBar \in Nat /\ 2 * NowBar <= clock
  BY <1>1, Halves DEF NowBar
<1>3. NowBar \in Bars
  BY <1>1, <1>2, Bounds DEF Bars
<1>4. \A c \in Ctxs : ctx[c] \in Contexts /\ db[c] \in StoredRow
  BY DEF Shape
<1>5. \A c \in Ctxs : /\ ctx[c].bound \in Nat /\ ctx[c].hist \in Hists /\ ctx[c].last \in Marks /\ ctx[c].rec \in Recs
                      /\ db[c].hist \in Hists /\ db[c].last \in Marks
  BY <1>4 DEF Contexts, StoredRow
<1>6. \A c \in Ctxs : LastOf(ctx[c].hist) \in Marks /\ LastOf(db[c].hist) \in Marks
  BY <1>5, LastIs
<1>7. /\ sock.session \in Nat /\ sock.epoch \in Nat /\ sock.connected \in BOOLEAN /\ sock.confirmed \in BOOLEAN
      /\ faults.breaks \in Nat /\ faults.crashes \in Nat /\ faults.fails \in Nat
  BY DEF Shape
<1>8. agg \in Aggs /\ agg.open \in Marks /\ agg.last \in Marks /\ agg.final \in Marks
  BY DEF Shape, Aggs
<1>9. QED
  BY <1>1, <1>2, <1>3, <1>4, <1>5, <1>6, <1>7, <1>8

LEMMA BackupsAre ==
  ASSUME Shape, NEW S \in SUBSET Ctxs
  PROVE  [c \in S |-> [hist |-> ctx[c].hist, last |-> ctx[c].last, bound |-> ctx[c].bound]] \in Backups
<1>1. \A c \in S : [hist |-> ctx[c].hist, last |-> ctx[c].last, bound |-> ctx[c].bound] \in [hist : Hists, last : Marks, bound : Nat]
  BY ShapeFacts
<1>2. QED
  BY <1>1 DEF Backups

LEMMA BackupHas ==
  ASSUME NEW b \in Backups
  PROVE  DOMAIN b \subseteq Ctxs /\ \A c \in DOMAIN b : b[c].hist \in Hists /\ b[c].last \in Marks /\ b[c].bound \in Nat
BY DEF Backups

\* The running transaction, field by field.
LEMMA DecidingHas ==
  ASSUME NEW j \in Deciding
  PROVE  /\ j.bar \in Bars /\ j.upTo \in Nat /\ j.work \in SUBSET Ctxs /\ j.backup \in Backups /\ j.kind = "flush"
         /\ DOMAIN j.backup \subseteq Ctxs
         /\ \A c \in DOMAIN j.backup : j.backup[c].hist \in Hists /\ j.backup[c].last \in Marks /\ j.backup[c].bound \in Nat
<1>1. j.bar \in Bars /\ j.upTo \in Nat /\ j.work \in SUBSET Ctxs /\ j.backup \in Backups /\ j.kind = "flush"
  BY DEF Deciding
<1> DEFINE b == j.backup
<1> HIDE DEF b
<1>2. b \in Backups
  BY <1>1 DEF b
<1>3. DOMAIN b \subseteq Ctxs /\ \A c \in DOMAIN b : b[c].hist \in Hists /\ b[c].last \in Marks /\ b[c].bound \in Nat
  BY <1>2, BackupHas
<1>4. QED
  BY <1>1, <1>3 DEF b

\* A rollback gives back the contexts a transaction took.
LEMMA RollbackShape ==
  ASSUME Shape, job \in Deciding, Rollback
  PROVE  ctx' \in [Ctxs -> Contexts] /\ job' \in Running
<1>1. \A c \in Ctxs \cap DOMAIN job.backup : RestoredCtx(c) \in Contexts
  <2> TAKE c \in Ctxs \cap DOMAIN job.backup
  <2>1. job.backup[c].hist \in Hists /\ job.backup[c].last \in Marks /\ ctx[c] \in Contexts
    BY DecidingHas, ShapeFacts
  <2>2. QED
    BY <2>1, Samples, ContextUpdates DEF RestoredCtx
<1>2. \A c \in Ctxs : (IF c \in DOMAIN job.backup /\ ctx[c].on THEN RestoredCtx(c) ELSE ctx[c]) \in Contexts
  BY <1>1, ShapeFacts
<1>3. job' = Idle
  BY DEF Rollback, Done
<1>4. QED
  BY <1>2, <1>3, RunningAre DEF Rollback

LEMMA RefreshedIs ==
  ASSUME Shape, NEW c \in Ctxs
  PROVE  Refreshed(c) \in Contexts /\ Refreshed(c).on
<1>1. ctx[c] \in Contexts /\ db[c].hist \in Hists /\ db[c].last \in Marks /\ clock \in Nat
  BY ShapeFacts
<1>2. [ctx[c] EXCEPT !.last = db[c].last] \in Contexts
  BY <1>1, Samples, ContextUpdates
<1>3. [Off EXCEPT !.on = TRUE, !.bound = clock, !.hist = db[c].hist, !.last = db[c].last] \in Contexts
  BY <1>1, OffIsContext
<1>4. QED
  BY <1>1, <1>2, <1>3 DEF Refreshed, Contexts, Off

LEMMA LaunchedIs ==
  ASSUME Shape, NEW x \in Contexts
  PROVE  /\ Launched(x) \in Contexts
         /\ Launched(x) = x \/ /\ ~x.ready /\ x.rec.stage = "none" /\ sock.session # 0
                               /\ \E q \in Requests : /\ Launched(x) = [x EXCEPT !.rec = q]
                                                      /\ q.session = sock.session /\ q.to = NowBar
<1>1. x.bound \in Nat /\ x.last \in Marks /\ x.last + 1 \in Nat
  BY Bounds DEF Contexts, Marks
<1> DEFINE q == [stage |-> "history", session |-> sock.session, epoch |-> sock.epoch, bound |-> x.bound,
                 from |-> x.last + 1, to |-> NowBar]
<1>2. q \in Requests /\ q.session = sock.session /\ q.to = NowBar
  BY <1>1, ShapeFacts DEF Requests
<1>3. CASE x.ready \/ x.rec.stage # "none" \/ sock.session = 0
  BY <1>3 DEF Launched
<1>4. CASE ~(x.ready \/ x.rec.stage # "none" \/ sock.session = 0)
  <2>1. Launched(x) = [x EXCEPT !.rec = q]
    BY <1>4 DEF Launched
  <2> HIDE DEF q
  <2>2. q \in Recs
    BY <1>2 DEF Recs
  <2>3. [x EXCEPT !.rec = q] \in Contexts
    BY <2>2, Samples, ContextUpdates
  <2>4. QED
    BY <1>2, <1>4, <2>1, <2>3
<1>5. QED
  BY <1>3, <1>4

LEMMA HalfPast ==
  ASSUME Shape, NEW t \in Nat, t <= clock
  PROVE  t \div 2 \in Bars /\ t \div 2 \in Nat /\ t \div 2 <= NowBar
<1>1. clock \in Nat /\ clock <= MaxClock /\ MaxClock \in Nat
  BY ShapeFacts, Bounds
<1>2. 2 * (t \div 2) <= t /\ clock < 2 * NowBar + 2 /\ t \div 2 \in Nat /\ NowBar \in Nat /\ 2 * NowBar <= clock
  BY <1>1, Halves DEF NowBar
<1> DEFINE h == t \div 2
<1> HIDE DEF h
<1>3. h \in Nat /\ 2 * h <= t /\ clock < 2 * NowBar + 2 /\ NowBar \in Nat
  BY <1>2 DEF h
<1>4. h <= NowBar /\ h <= MaxClock
  BY <1>1, <1>3
<1>5. QED
  BY <1>1, <1>3, <1>4 DEF h, Bars

LEMMA CeilGrows ==
  ASSUME NEW s \in Nat, NEW t \in Nat, s <= t
  PROVE  CeilBar(s) <= CeilBar(t)
<1>1. /\ CeilBar(s) \in Nat /\ CeilBar(t) \in Nat
      /\ 2 * CeilBar(s) < s + 2 /\ t <= 2 * CeilBar(t)
  BY Halves
<1> DEFINE a == CeilBar(s) b == CeilBar(t)
<1> HIDE DEF a, b
<1>2. a \in Nat /\ b \in Nat /\ 2 * a < s + 2 /\ t <= 2 * b
  BY <1>1 DEF a, b
<1>3. 2 * a <= s + 1 /\ s + 1 <= 2 * b + 1
  BY <1>2
<1>4. 2 * a <= 2 * b + 1
  BY <1>2, <1>3
<1>5. a <= b
  BY <1>2, <1>4
<1>6. QED
  BY <1>5 DEF a, b

LEMMA FaultsCount ==
  ASSUME Shape
  PROVE  /\ [faults EXCEPT !.breaks = @ + 1] \in [breaks : Nat, crashes : Nat, fails : Nat]
         /\ [faults EXCEPT !.crashes = @ + 1] \in [breaks : Nat, crashes : Nat, fails : Nat]
         /\ [faults EXCEPT !.fails = @ + 1] \in [breaks : Nat, crashes : Nat, fails : Nat]
<1>1. faults.breaks + 1 \in Nat /\ faults.crashes + 1 \in Nat /\ faults.fails + 1 \in Nat
  BY ShapeFacts
<1>2. faults \in [breaks : Nat, crashes : Nat, fails : Nat]
  BY DEF Shape
<1>3. \A n \in Nat : /\ [faults EXCEPT !.breaks = n] \in [breaks : Nat, crashes : Nat, fails : Nat]
                      /\ [faults EXCEPT !.crashes = n] \in [breaks : Nat, crashes : Nat, fails : Nat]
                      /\ [faults EXCEPT !.fails = n] \in [breaks : Nat, crashes : Nat, fails : Nat]
  BY <1>2
<1>4. QED
  BY <1>1, <1>3

LEMMA ShapeStep ==
  ASSUME Shape, Timely, [Next]_vars
  PROVE  Shape'
<1>0. /\ clock \in Nat /\ MaxClock \in Nat /\ NowBar \in Nat /\ NowBar \in Bars
      /\ sock \in [session : Nat, epoch : Nat, connected : BOOLEAN, confirmed : BOOLEAN]
      /\ faults \in [breaks : Nat, crashes : Nat, fails : Nat]
      /\ agg \in Aggs /\ closed \subseteq Bars /\ queue \in Seq(Jobs) /\ job \in Running
      /\ ctx \in [Ctxs -> Contexts] /\ db \in [Ctxs -> StoredRow] /\ decided \in [Ctxs -> Seq(Bars \X Nat)]
  BY ShapeFacts, Bounds DEF Shape
<1>1. CASE Interrupt
  <2>1. Job("mark") \in Jobs /\ queue' \in Seq(Jobs)
    <3>1. Job("mark") \in Jobs
      BY JobsAre
    <3>2. QED
      BY <1>0, <1>1, <3>1, EnqueueAdds DEF Interrupt
  <2>2. ctx' \in [Ctxs -> Contexts]
    <3>1. \A c \in Ctxs : [ctx[c] EXCEPT !.ready = FALSE, !.bound = clock] \in Contexts
      BY <1>0, Samples, ContextUpdates
    <3>2. QED
      BY <1>1, <3>1 DEF Interrupt
  <2>3. agg' \in Aggs
    BY <1>0, <1>1, Samples DEF Interrupt, Aggs
  <2>4. sock' \in [session : Nat, epoch : Nat, connected : BOOLEAN, confirmed : BOOLEAN]
    BY <1>0, <1>1 DEF Interrupt
  <2>5. faults' \in [breaks : Nat, crashes : Nat, fails : Nat]
    BY <1>1, FaultsCount DEF Interrupt
  <2>6. QED
    BY <1>0, <1>1, <2>1, <2>2, <2>3, <2>4, <2>5 DEF Interrupt, Shape, Aggs
<1>2. CASE Subscribed
  <2>1. queue' \in Seq(Jobs)
    <3>1. Job("ready") \in Jobs
      BY JobsAre
    <3>2. QED
      BY <1>0, <1>2, <3>1, EnqueueAdds DEF Subscribed
  <2>2. sock' \in [session : Nat, epoch : Nat, connected : BOOLEAN, confirmed : BOOLEAN]
    <3>1. faults.breaks + faults.crashes + 1 \in Nat
      BY ShapeFacts
    <3>2. \A n \in Nat : [sock EXCEPT !.session = n, !.epoch = clock]
                          \in [session : Nat, epoch : Nat, connected : BOOLEAN, confirmed : BOOLEAN]
      BY <1>0
    <3>3. sock' = [sock EXCEPT !.session = faults.breaks + faults.crashes + 1, !.epoch = clock]
      BY <1>2 DEF Subscribed
    <3>4. QED
      BY <3>1, <3>2, <3>3
  <2>3. QED
    BY <1>0, <1>2, <2>1, <2>2 DEF Subscribed, Shape, Aggs
<1>3. CASE ReceiveTrade
  <2>1. queue' \in Seq(Jobs)
    <3>1. [kind |-> "trade", at |-> clock, session |-> sock.session, epoch |-> sock.epoch] \in Jobs
      BY JobsAre, ShapeFacts
    <3>2. QED
      BY <1>0, <1>3, <3>1, EnqueueAdds DEF ReceiveTrade
  <2>2. QED
    BY <1>0, <1>3, <2>1 DEF ReceiveTrade, Shape, Aggs
<1>4. CASE TimePasses
  BY <1>0, <1>4 DEF TimePasses, Shape, Aggs
<1>5. ASSUME NEW k \in {"flush", "refresh"}, Timer(k) PROVE Shape'
  <2>1. queue' \in Seq(Jobs)
    <3>1. [kind |-> k, at |-> clock] \in Jobs
      BY <1>0, JobsAre
    <3>2. QED
      BY <1>0, <1>5, <3>1, EnqueueAdds DEF Timer
  <2>2. QED
    BY <1>0, <1>5, <2>1 DEF Timer, Shape, Aggs
<1>6. CASE RunMark
  <2>1. queue' \in Seq(Jobs)
    BY <1>0, <1>6, TakeRemoves DEF RunMark
  <2>2. QED
    BY <1>0, <1>6, <2>1, UnreadyIs DEF RunMark, Shape, Aggs
<1>7. CASE RunReady
  <2>1. queue' \in Seq(Jobs)
    BY <1>0, <1>7, TakeRemoves DEF RunReady
  <2>2. ctx' \in [Ctxs -> Contexts]
    <3>1. \A c \in Ctxs : Unready[c] \in Contexts /\ Unready[c].bound \in Nat
      BY UnreadyIs DEF Contexts
    <3>2. \A c \in Ctxs : (IF ctx[c].on THEN clock ELSE Unready[c].bound) \in Nat
      BY <1>0, <3>1
    <3>3. \A c \in Ctxs : [Unready[c] EXCEPT !.bound = IF ctx[c].on THEN clock ELSE @] \in Contexts
      <4> TAKE c \in Ctxs
      <4> DEFINE n == IF ctx[c].on THEN clock ELSE Unready[c].bound
      <4>1. n \in Nat
        BY <3>2
      <4> HIDE DEF n
      <4>2. [Unready[c] EXCEPT !.bound = n] \in Contexts
        BY <3>1, <4>1, Samples, ContextUpdates
      <4>3. QED
        BY <4>2 DEF n
    <3>4. QED
      BY <1>7, <3>3 DEF RunReady
  <2>3. sock' \in [session : Nat, epoch : Nat, connected : BOOLEAN, confirmed : BOOLEAN]
    BY <1>0, <1>7 DEF RunReady
  <2>4. QED
    BY <1>0, <1>7, <2>1, <2>2, <2>3 DEF RunReady, Shape, Aggs
<1>8. CASE RunRefresh
  <2>1. queue' \in Seq(Jobs)
    BY <1>0, <1>8, TakeRemoves DEF RunRefresh
  <2>2. ctx' \in [Ctxs -> Contexts]
    <3>1. \A c \in Ctxs : Launched(Refreshed(c)) \in Contexts
      BY RefreshedIs, LaunchedIs
    <3>2. QED
      BY <1>8, <3>1 DEF RunRefresh
  <2>3. sock' \in [session : Nat, epoch : Nat, connected : BOOLEAN, confirmed : BOOLEAN]
    BY <1>0, <1>8 DEF RunRefresh
  <2>4. QED
    BY <1>0, <1>8, <2>1, <2>2, <2>3 DEF RunRefresh, Shape, Aggs
<1>9. CASE RunTrade
  <2> DEFINE t == Head(queue) bar == t.at \div 2 f == FlushTo(bar)
  <2>1. queue' \in Seq(Jobs) /\ t \in Waiting /\ t \in Jobs /\ t.kind = "trade"
    BY <1>0, <1>9, TakeRemoves DEF RunTrade
  <2>2. t.at \in Nat /\ t.at <= clock
    BY <2>1, JobsHave DEF Trades, Timely, QueueTimely
  <2>3. bar \in Bars /\ bar \in Nat
    BY <2>2, HalfPast
  <2>4. f.out \subseteq Bars /\ f.agg \in Aggs
    BY <1>0, <2>3, FlushToIs
  <2>5. agg' \in Aggs /\ closed' \subseteq Bars /\ job' \in Running
        /\ sock' \in [session : Nat, epoch : Nat, connected : BOOLEAN, confirmed : BOOLEAN]
    <3>1. [f.agg EXCEPT !.open = bar] \in Aggs
      BY <2>3, <2>4, Bounds DEF Aggs, Marks, Bars
    <3>2. [kind |-> "flush", pc |-> "next", upTo |-> bar] \in Running
      BY <2>3, RunningAre
    <3>3. \A b \in BOOLEAN : [sock EXCEPT !.confirmed = b] \in [session : Nat, epoch : Nat, connected : BOOLEAN, confirmed : BOOLEAN]
      BY <1>0
    <3> HIDE DEF f, bar, t
    <3>4. CASE UNCHANGED <<sock, agg, closed, job>>
      BY <1>0, <3>4
    <3>5. CASE ~UNCHANGED <<sock, agg, closed, job>>
      <4>1. /\ agg' = f.agg \/ agg' = [f.agg EXCEPT !.open = bar]
            /\ closed' = closed \cup f.out
            /\ job' = [kind |-> "flush", pc |-> "next", upTo |-> bar]
            /\ \E b \in BOOLEAN : sock' = [sock EXCEPT !.confirmed = b]
        <5>1. LET joins == bar > f.agg.final /\ f.agg.open \in {-1, bar}
              IN /\ agg' = IF joins THEN [f.agg EXCEPT !.open = bar] ELSE f.agg
                 /\ sock' = [sock EXCEPT !.confirmed = @ \/ (joins /\ sock.connected)]
                 /\ closed' = closed \cup f.out
                 /\ job' = [kind |-> "flush", pc |-> "next", upTo |-> bar]
          BY <1>9, <3>5 DEF RunTrade, t, bar, f
        <5>2. \A b : (sock.confirmed \/ (b /\ sock.connected)) \in BOOLEAN
          OBVIOUS
        <5>3. QED
          BY <5>1, <5>2
      <4>2. QED
        BY <1>0, <2>4, <3>1, <3>2, <3>3, <4>1
    <3>6. QED
      BY <3>4, <3>5
  <2>6. QED
    BY <1>0, <1>9, <2>1, <2>5 DEF RunTrade, Shape, Aggs
<1>10. CASE RunFlush
  <2> DEFINE t == Head(queue) bar == t.at \div 2 f == FlushTo(bar)
  <2>1. queue' \in Seq(Jobs) /\ t \in Waiting /\ t \in Jobs /\ t.kind = "flush"
    BY <1>0, <1>10, TakeRemoves DEF RunFlush
  <2>2. t.at \in Nat /\ t.at <= clock
    BY <2>1, JobsHave DEF Timers, Timely, QueueTimely
  <2>3. bar \in Bars /\ bar \in Nat
    BY <2>2, HalfPast
  <2>4. f.out \subseteq Bars /\ f.agg \in Aggs
    BY <1>0, <2>3, FlushToIs
  <2>5. agg' = f.agg /\ closed' = closed \cup f.out /\ job' = [kind |-> "flush", pc |-> "next", upTo |-> bar]
    BY <1>10 DEF RunFlush
  <2>6. [kind |-> "flush", pc |-> "next", upTo |-> bar] \in Running
    BY <2>3, RunningAre
  <2> HIDE DEF f, bar, t
  <2>7. QED
    BY <1>0, <1>10, <2>1, <2>4, <2>5, <2>6 DEF RunFlush, Shape, Aggs
<1>11. CASE SaveBar
  <2>1. job \in Flushing
    BY <1>0, <1>11, RunningHave DEF SaveBar
  <2>2. job.upTo \in Nat
    BY <2>1 DEF Flushing
  <2>3. CASE {b \in closed : b < job.upTo} = {}
    BY <1>0, <1>11, <2>3, RunningAre DEF SaveBar, Done, Shape, Aggs
  <2>4. CASE {b \in closed : b < job.upTo} # {}
    <3>1. closed \in SUBSET Nat /\ closed # {}
      BY <1>0, <2>4 DEF Bars
    <3>2. Min(closed) \in Bars
      BY <1>0, <3>1, MinIs
    <3>3. job' \in Running
      <4>1. job' = [kind |-> "flush", pc |-> "work", upTo |-> job.upTo, bar |-> Min(closed)]
        BY <1>11, <2>4 DEF SaveBar
      <4>2. QED
        BY <2>2, <3>2, <4>1, RunningAre
    <3>4. QED
      BY <1>0, <1>11, <3>3 DEF SaveBar, Shape, Aggs
  <2>5. QED
    BY <2>3, <2>4
<1>12. CASE SelectWork
  <2> DEFINE work == {c \in Ctxs : Work(c, job.bar)}
             saved == [c \in work |-> [hist |-> ctx[c].hist, last |-> ctx[c].last, bound |-> ctx[c].bound]]
  <2>1. job \in Saved
    BY <1>0, <1>12, RunningHave DEF SelectWork
  <2>2. job.upTo \in Nat /\ job.bar \in Bars
    BY <2>1 DEF Saved
  <2>3. work \in SUBSET Ctxs /\ saved \in Backups
    <3>1. work \in SUBSET Ctxs
      OBVIOUS
    <3> HIDE DEF work
    <3>2. QED
      BY <3>1, BackupsAre
  <2>4. job' \in Running /\ closed' \subseteq Bars
    <3>1. CASE work = {}
      BY <1>0, <1>12, <2>2, <3>1, RunningAre DEF SelectWork
    <3>2. CASE work # {}
      <4>1. /\ job' = [kind |-> "flush", pc |-> "evaluate", upTo |-> job.upTo, bar |-> job.bar, work |-> work, backup |-> saved]
            /\ closed' = closed
        BY <1>12, <3>2 DEF SelectWork
      <4> HIDE DEF work, saved
      <4>2. job' \in Deciding
        BY <2>2, <2>3, <4>1 DEF Deciding
      <4>3. QED
        BY <1>0, <4>1, <4>2 DEF Running
    <3>3. QED
      BY <3>1, <3>2
  <2>5. QED
    BY <1>0, <1>12, <2>4 DEF SelectWork, Shape, Aggs
<1>13. CASE Evaluate
  <2> DEFINE live == IF sock.connected THEN {c \in job.work : db[c].last < job.bar} ELSE {}
  <2>1. job \in Deciding
    BY <1>0, <1>13, RunningHave DEF Evaluate
  <2>2. live \in SUBSET Ctxs /\ job.bar \in Bars
    BY <2>1, DecidingHas
  <2>3. ctx' = [c \in Ctxs |-> IF c \in live THEN [ctx[c] EXCEPT !.hist = Rereads(c) \cup {<<job.bar, "real">>}] ELSE ctx[c]]
        /\ job' = [job EXCEPT !.pc = "decide", !.work = live]
    BY <1>13 DEF Evaluate
  <2> HIDE DEF live
  <2>4. job' \in Running
    <3>1. job' \in Deciding
      BY <2>1, <2>2, <2>3 DEF Deciding
    <3>2. QED
      BY <3>1 DEF Running
  <2>5. ctx' \in [Ctxs -> Contexts]
    <3>1. \A c \in Ctxs : Rereads(c) \cup {<<job.bar, "real">>} \in Hists
      <4>1. \A c \in Ctxs : Rereads(c) \in Hists
        BY ShapeFacts DEF Rereads
      <4>2. {<<job.bar, "real">>} \in Hists
        BY <2>2 DEF Hists
      <4>3. QED
        BY <4>1, <4>2, HistsJoin
    <3>2. \A c \in Ctxs : [ctx[c] EXCEPT !.hist = Rereads(c) \cup {<<job.bar, "real">>}] \in Contexts
      BY <1>0, <3>1, Samples, ContextUpdates
    <3>3. QED
      BY <1>0, <2>3, <3>2
  <2>6. QED
    BY <1>0, <1>13, <2>4, <2>5 DEF Evaluate, Shape, Aggs
<1>14. CASE DecideBars
  <2>1. job \in Deciding
    BY <1>0, <1>14, RunningHave DEF DecideBars
  <2>2. CASE Rollback
    BY <1>0, <1>14, <2>1, <2>2, RollbackShape DEF DecideBars, Rollback, Shape, Aggs
  <2>3. CASE job' = [job EXCEPT !.pc = "commit"] /\ UNCHANGED <<ctx, closed, db, decided>>
    <3>1. job' \in Deciding
      BY <2>1, <2>3 DEF Deciding
    <3>2. job' \in Running
      BY <3>1 DEF Running
    <3>3. QED
      BY <1>0, <1>14, <2>3, <3>2 DEF DecideBars, Shape, Aggs
  <2>4. QED
    BY <1>14, <2>2, <2>3 DEF DecideBars
<1>15. CASE CommitBars
  <2>1. job \in Deciding
    BY <1>0, <1>15, RunningHave DEF CommitBars
  <2>2. job.bar \in Bars /\ job.bar \in Marks /\ job.upTo \in Nat /\ job.work \in SUBSET Ctxs
    BY <2>1, DecidingHas, Bounds DEF Bars, Marks
  <2>3. db' \in [Ctxs -> StoredRow]
    <3>1. \A c \in Ctxs : [hist |-> ctx[c].hist, last |-> job.bar] \in StoredRow
      BY <2>2, ShapeFacts DEF StoredRow
    <3>2. QED
      BY <1>0, <1>15, <3>1 DEF CommitBars
  <2>4. ctx' \in [Ctxs -> Contexts]
    <3>1. \A c \in Ctxs : [ctx[c] EXCEPT !.last = job.bar] \in Contexts
      BY <1>0, <2>2, Samples, ContextUpdates
    <3>2. QED
      BY <1>0, <1>15, <3>1 DEF CommitBars
  <2>5. job' \in Running
    BY <1>15, <2>2, RunningAre DEF CommitBars
  <2>6. decided' \in [Ctxs -> Seq(Bars \X Nat)]
    <3>1. ASSUME NEW c \in Ctxs PROVE decided'[c] \in Seq(Bars \X Nat)
      <4>1. decided'[c] = IF c \in job.work THEN Append(decided[c], <<job.bar, job.backup[c].bound>>) ELSE decided[c]
        BY <1>15 DEF CommitBars
      <4>2. CASE c \in job.work
        <5>1. job.backup[c].bound \in Nat
          <6>1. InTx
            BY <1>15 DEF CommitBars, At, InTx
          <6>2. c \in DOMAIN job.backup
            BY <4>2, <6>1 DEF Timely, JobTimely
          <6>3. QED
            BY <2>1, <6>2, DecidingHas
        <5>2. <<job.bar, job.backup[c].bound>> \in Bars \X Nat
          BY <2>2, <5>1
        <5>3. QED
          BY <1>0, <4>1, <4>2, <5>2, AppendProperties
      <4>3. QED
        BY <1>0, <4>1, <4>2
    <3>2. QED
      BY <1>15, <3>1 DEF CommitBars
  <2>7. closed' \subseteq Bars
    BY <1>0, <1>15 DEF CommitBars
  <2>8. QED
    BY <1>0, <1>15, <2>3, <2>4, <2>5, <2>6, <2>7 DEF CommitBars, Shape, Aggs
<1>16. CASE FailBars
  <2>1. job \in Deciding
    BY <1>0, <1>16, RunningHave DEF FailBars
  <2>2. faults' \in [breaks : Nat, crashes : Nat, fails : Nat]
    BY <1>16, FaultsCount DEF FailBars
  <2>3. QED
    BY <1>0, <1>16, <2>1, <2>2, RollbackShape DEF FailBars, Rollback, Shape, Aggs
<1>17. CASE RunApply
  <2> DEFINE c == Head(queue).c rows == Head(queue).rows
  <2>1. queue' \in Seq(Jobs) /\ Head(queue) \in Waiting /\ Head(queue) \in Jobs /\ Head(queue).kind = "apply"
    BY <1>0, <1>17, TakeRemoves DEF RunApply
  <2>2. c \in Ctxs /\ rows \in SUBSET Bars /\ \A b \in rows : b < NowBar
    BY <2>1, JobsHave DEF Timely, QueueTimely
  <2>3. CASE Valid(c)
    <3>1. job' = [kind |-> "apply", pc |-> "commit", c |-> c, rows |-> rows, hist |-> Applied(ctx[c].hist, rows)] /\ ctx' = ctx
      BY <1>17, <2>3 DEF RunApply
    <3> HIDE DEF c, rows
    <3>2. ctx[c].hist \in Hists /\ \A x \in ctx[c].hist : x[1] < NowBar
      BY <2>2, ShapeFacts DEF Timely, CtxTimely, Past
    <3>3. Applied(ctx[c].hist, rows) \in Hists
      BY <1>0, <2>2, <3>2, AppliedIs
    <3>4. job' \in Running
      BY <2>2, <3>1, <3>3, RunningAre
    <3>5. QED
      BY <1>0, <1>17, <2>1, <3>1, <3>4 DEF RunApply, Shape, Aggs
  <2>4. CASE ~Valid(c)
    <3>1. job' = job /\ SetRec(c, NoRec)
      BY <1>17, <2>4 DEF RunApply
    <3> HIDE DEF c, rows
    <3>2. ctx' \in [Ctxs -> Contexts]
      BY <1>0, <2>2, <3>1, Samples, ContextUpdates DEF SetRec
    <3>3. QED
      BY <1>0, <1>17, <2>1, <3>1, <3>2 DEF RunApply, Shape, Aggs
  <2>5. QED
    BY <2>3, <2>4
<1>18. CASE CommitApply
  <2>1. job \in Applying
    BY <1>0, <1>18, RunningHave DEF CommitApply
  <2>2. job.c \in Ctxs /\ job.hist \in Hists
    BY <2>1 DEF Applying
  <2>3. job' \in Running
    <3>1. job' \in Applying
      BY <1>18, <2>1 DEF CommitApply, Applying
    <3>2. QED
      BY <3>1 DEF Running
  <2>4. db' \in [Ctxs -> StoredRow]
    <3>1. [hist |-> job.hist, last |-> LastOf(job.hist)] \in StoredRow
      BY <2>2, LastIs DEF StoredRow
    <3>2. QED
      BY <1>0, <1>18, <2>2, <3>1 DEF CommitApply
  <2>5. QED
    BY <1>0, <1>18, <2>3, <2>4 DEF CommitApply, Shape, Aggs
<1>19. CASE ApplyMemory
  <2>1. job \in Applying
    BY <1>0, <1>19, RunningHave DEF ApplyMemory
  <2>2. job.c \in Ctxs /\ job.hist \in Hists /\ LastOf(job.hist) \in Marks
    BY <2>1, LastIs DEF Applying
  <2>3. job' \in Running
    BY <1>19, RunningAre DEF ApplyMemory, Done
  <2>4. ctx' \in [Ctxs -> Contexts] /\ queue' \in Seq(Jobs)
    <3>1. CASE Valid(job.c)
      <4>1. Adopt(job.c, job.hist) \in Contexts
        BY <1>0, <2>2, Samples, ContextUpdates DEF Adopt
      <4>2. [kind |-> "finish", c |-> job.c] \in Jobs
        BY <2>2, JobsAre
      <4>3. QED
        BY <1>0, <1>19, <2>2, <3>1, <4>1, <4>2, EnqueueAdds DEF ApplyMemory
    <3>2. CASE ~Valid(job.c)
      <4>1. [ctx[job.c] EXCEPT !.rec = NoRec] \in Contexts
        BY <1>0, <2>2, Samples, ContextUpdates
      <4>2. QED
        BY <1>0, <1>19, <2>2, <3>2, <4>1 DEF ApplyMemory, SetRec
    <3>3. QED
      BY <3>1, <3>2
  <2>5. QED
    BY <1>0, <1>19, <2>3, <2>4 DEF ApplyMemory, Shape, Aggs
<1>20. CASE RunFinish
  <2> DEFINE c == Head(queue).c new == Appended(ctx[c])
  <2>1. queue' \in Seq(Jobs) /\ Head(queue) \in Jobs /\ Head(queue).kind = "finish"
    BY <1>0, <1>20, TakeRemoves DEF RunFinish
  <2>2. c \in Ctxs
    BY <2>1, JobsHave
  <2>3. CASE Valid(c)
    <3>1. /\ job' = [kind |-> "finish", pc |-> "append", c |-> c, hist |-> ctx[c].hist \cup Rows(new)]
          /\ db' = IF new = {} THEN db ELSE [db EXCEPT ![c] = [hist |-> ctx[c].hist \cup Rows(new), last |-> Max(new)]]
          /\ ctx' = ctx
      BY <1>20, <2>3 DEF RunFinish
    <3>2. new \in SUBSET Bars /\ \A b \in new : b > LastOf(ctx[c].hist)
      BY <1>0, <2>2, AppendedIs
    <3> HIDE DEF c, new
    <3>3. Rows(new) \in Hists /\ ctx[c].hist \cup Rows(new) \in Hists
      BY <2>2, <3>2, RowsAreHists, HistsJoin, ShapeFacts
    <3>4. new # {} => Max(new) \in Marks
      BY <3>2, RowsAre
    <3>5. db' \in [Ctxs -> StoredRow]
      BY <1>0, <2>2, <3>1, <3>3, <3>4 DEF StoredRow
    <3>6. job' \in Running
      BY <2>2, <3>1, <3>3, RunningAre
    <3>7. QED
      BY <1>0, <1>20, <2>1, <3>1, <3>5, <3>6 DEF RunFinish, Shape, Aggs
  <2>4. CASE ~Valid(c)
    <3>1. job' = job /\ db' = db /\ SetRec(c, NoRec)
      BY <1>20, <2>4 DEF RunFinish
    <3> HIDE DEF c, new
    <3>2. ctx' \in [Ctxs -> Contexts]
      BY <1>0, <2>2, <3>1, Samples, ContextUpdates DEF SetRec
    <3>3. QED
      BY <1>0, <1>20, <2>1, <3>1, <3>2 DEF RunFinish, Shape, Aggs
  <2>5. QED
    BY <2>3, <2>4
<1>21. CASE FinishAppend
  <2> DEFINE c == job.c x == [ctx[c] EXCEPT !.hist = job.hist] warm == Warm(x)
  <2>1. job \in Finishing
    BY <1>0, <1>21, RunningHave DEF FinishAppend
  <2>2. c \in Ctxs /\ job.hist \in Hists /\ LastOf(job.hist) \in Marks
    BY <2>1, LastIs DEF Finishing
  <2>3. warm \in SUBSET Bars
    BY WarmIs
  <2>4. /\ ctx' = [ctx EXCEPT ![c].rec = NoRec] \/ ctx' = [ctx EXCEPT ![c].hist = job.hist, ![c].last = LastOf(job.hist)]
           \/ ctx' = [ctx EXCEPT ![c] = [Adopt(c, job.hist) EXCEPT !.ready = FALSE, !.rec = NoRec]]
        /\ job' = Idle \/ job' = [job EXCEPT !.pc = "boundary"] \/ (warm # {} /\ job' = [job EXCEPT !.pc = "warm", !.hist = Rows(warm)])
        /\ db' = db \/ (warm # {} /\ db' = [db EXCEPT ![c] = [hist |-> Rows(warm), last |-> Max(warm)]])
    BY <1>21 DEF FinishAppend, SetRec, Done
  <2> HIDE DEF c, x, warm
  <2>5. ctx' \in [Ctxs -> Contexts]
    <3>1. [ctx[c] EXCEPT !.rec = NoRec] \in Contexts
      BY <1>0, <2>2, Samples, ContextUpdates
    <3>2. [ctx[c] EXCEPT !.hist = job.hist, !.last = LastOf(job.hist)] \in Contexts
      BY <1>0, <2>2, Samples, ContextUpdates
    <3>3. [Adopt(c, job.hist) EXCEPT !.ready = FALSE, !.rec = NoRec] \in Contexts
      <4>1. Adopt(c, job.hist) \in Contexts
        BY <3>2 DEF Adopt
      <4>2. QED
        BY <4>1, Samples, ContextUpdates
    <3>4. CASE ctx' = [ctx EXCEPT ![c].rec = NoRec]
      BY <1>0, <2>2, <3>1, <3>4
    <3>5. CASE ctx' = [ctx EXCEPT ![c].hist = job.hist, ![c].last = LastOf(job.hist)]
      BY <1>0, <2>2, <3>2, <3>5
    <3>6. CASE ctx' = [ctx EXCEPT ![c] = [Adopt(c, job.hist) EXCEPT !.ready = FALSE, !.rec = NoRec]]
      BY <1>0, <2>2, <3>3, <3>6
    <3>7. QED
      BY <2>4, <3>4, <3>5, <3>6
  <2>6. warm # {} => Rows(warm) \in Hists /\ Max(warm) \in Marks
    BY <2>3, RowsAre
  <2>7. job' \in Running
    <3>1. job' = Idle \/ job' \in Finishing
      BY <2>1, <2>4, <2>6 DEF Finishing
    <3>2. QED
      BY <3>1, RunningAre DEF Running
  <2>8. db' \in [Ctxs -> StoredRow]
    <3>1. warm # {} => [hist |-> Rows(warm), last |-> Max(warm)] \in StoredRow
      BY <2>6 DEF StoredRow
    <3>2. QED
      BY <1>0, <2>2, <2>4, <3>1
  <2>9. QED
    BY <1>0, <1>21, <2>5, <2>7, <2>8 DEF FinishAppend, Shape, Aggs
<1>22. CASE FinishWarm
  <2>1. job \in Finishing
    BY <1>0, <1>22, RunningHave DEF FinishWarm
  <2>2. job.c \in Ctxs /\ job.hist \in Hists /\ LastOf(job.hist) \in Marks
    BY <2>1, LastIs DEF Finishing
  <2>3. job' \in Running
    <3>1. job' = Idle \/ job' \in Finishing
      BY <1>22, <2>1 DEF FinishWarm, Done, Finishing
    <3>2. QED
      BY <3>1, RunningAre DEF Running
  <2>4. ctx' \in [Ctxs -> Contexts]
    <3>1. Adopt(job.c, job.hist) \in Contexts /\ [ctx[job.c] EXCEPT !.rec = NoRec] \in Contexts
      BY <1>0, <2>2, Samples, ContextUpdates DEF Adopt
    <3>2. QED
      BY <1>0, <1>22, <2>2, <3>1 DEF FinishWarm, SetRec
  <2>5. QED
    BY <1>0, <1>22, <2>3, <2>4 DEF FinishWarm, Shape, Aggs
<1>23. CASE FinishBoundary
  <2>1. job \in Finishing
    BY <1>0, <1>23, RunningHave DEF FinishBoundary
  <2>2. job.c \in Ctxs
    BY <2>1 DEF Finishing
  <2>3. job' \in Running
    BY <1>0, <1>23, <2>2, RunningAre DEF FinishBoundary, Done
  <2>4. ctx' \in [Ctxs -> Contexts]
    <3>1. [ctx[job.c] EXCEPT !.rec = NoRec] \in Contexts
      BY <1>0, <2>2, Samples, ContextUpdates
    <3>2. QED
      BY <1>0, <1>23, <2>2, <3>1 DEF FinishBoundary, SetRec
  <2>5. sock' \in [session : Nat, epoch : Nat, connected : BOOLEAN, confirmed : BOOLEAN]
    BY <1>0, <1>23 DEF FinishBoundary
  <2>6. QED
    BY <1>0, <1>23, <2>3, <2>4, <2>5 DEF FinishBoundary, Shape, Aggs
<1>24. CASE FinishReady
  <2>1. job \in Finished
    BY <1>0, <1>24, RunningHave DEF FinishReady
  <2>2. job.c \in Ctxs /\ job.boundary \in Nat /\ job.boundary <= clock
    BY <1>24, <2>1 DEF FinishReady, Finished, Timely, JobTimely
  <2> DEFINE covered == job.boundary \div 2 - 1 base == CeilBar(job.boundary) - 1
  <2>3. covered \in Marks /\ base \in Marks
    <3>1. CeilBar(job.boundary) <= CeilBar(clock) /\ CeilBar(job.boundary) \in Nat /\ CeilBar(clock) \in Nat
      BY <1>0, <2>2, CeilGrows, Halves
    <3>2. 2 * CeilBar(clock) < clock + 2 /\ clock <= MaxClock
      BY <1>0, Halves, ShapeFacts
    <3>3. CeilBar(job.boundary) <= MaxClock + 1
      <4> DEFINE a == CeilBar(job.boundary) b == CeilBar(clock)
      <4> HIDE DEF a, b
      <4>1. a \in Nat /\ b \in Nat /\ a <= b /\ 2 * b < clock + 2
        BY <3>1, <3>2 DEF a, b
      <4>2. a <= clock + 1
        BY <1>0, <4>1
      <4>3. QED
        BY <1>0, <3>2, <4>1, <4>2 DEF a
    <3>4. job.boundary \div 2 \in Nat /\ job.boundary \div 2 <= MaxClock
      BY <2>2, HalfPast, Bounds DEF Bars
    <3>5. QED
      BY <1>0, <3>1, <3>3, <3>4 DEF Marks
  <2> HIDE DEF covered, base
  <2>4. Max({agg.last, base}) \in Marks /\ Max({agg.final, covered}) \in Marks
    <3>1. agg.last \in Int /\ base \in Int /\ agg.final \in Int /\ covered \in Int /\ agg.last \in Marks /\ agg.final \in Marks
      BY <1>0, <2>3 DEF Aggs, Marks
    <3>2. QED
      BY <2>3, <3>1, MaxOfTwo
  <2>5. agg' \in Aggs
    <3>1. agg' = agg \/ agg' = [open |-> IF agg.open <= covered THEN -1 ELSE agg.open,
                                last |-> Max({agg.last, base}), final |-> Max({agg.final, covered})]
      BY <1>24 DEF FinishReady, covered, base
    <3>2. (IF agg.open <= covered THEN -1 ELSE agg.open) \in Marks
      BY <1>0, Samples DEF Aggs
    <3>3. QED
      BY <1>0, <2>4, <3>1, <3>2 DEF Aggs
  <2>6. ctx' \in [Ctxs -> Contexts]
    <3>1. [ctx[job.c] EXCEPT !.rec = NoRec] \in Contexts
      BY <1>0, <2>2, Samples, ContextUpdates
    <3>2. [ctx[job.c] EXCEPT !.ready = TRUE, !.bound = job.boundary, !.rec = NoRec] \in Contexts
      BY <1>0, <2>2, Samples, ContextUpdates
    <3>3. ctx' = [ctx EXCEPT ![job.c].rec = NoRec]
          \/ ctx' = [ctx EXCEPT ![job.c].ready = TRUE, ![job.c].bound = job.boundary, ![job.c].rec = NoRec]
      BY <1>24 DEF FinishReady, SetRec
    <3>4. QED
      BY <1>0, <2>2, <3>1, <3>2, <3>3
  <2>7. job' \in Running
    BY <1>24, RunningAre DEF FinishReady, Done
  <2>8. QED
    BY <1>0, <1>24, <2>5, <2>6, <2>7 DEF FinishReady, Shape, Aggs
<1>25. ASSUME NEW c \in Ctxs, NEW missing \in {0, 1}, HistoryAnswers(c, missing) PROVE Shape'
  <2> DEFINE rows == ctx[c].rec.from..ctx[c].rec.to - 1 - missing
  <2>1. ctx[c].rec \in Requests
    <3>1. ctx[c].rec # NoRec
      BY <1>25 DEF HistoryAnswers, NoRec
    <3>2. QED
      BY <3>1, ShapeFacts DEF Recs
  <2>2. rows \in SUBSET Bars
    <3>1. ctx[c].rec.from \in Nat /\ ctx[c].rec.to \in Nat /\ ctx[c].rec.to <= NowBar /\ NowBar <= MaxClock
      BY <1>25, <2>1, ShapeFacts DEF HistoryAnswers, Requests, Timely, CtxTimely, Bars
    <3>2. \A b \in rows : b \in Nat /\ b <= MaxClock
      <4>1. \A lo \in Nat, hi \in Nat : hi <= NowBar => \A b \in lo..hi - 1 - missing : b \in Nat /\ b <= MaxClock
        <5>1. missing \in Nat
          BY <1>25
        <5>2. QED
          BY <1>0, <3>1, <5>1
      <4>2. QED
        BY <3>1, <4>1
    <3>3. QED
      BY <1>0, <3>2 DEF Bars
  <2> HIDE DEF rows
  <2>3. [ctx[c].rec EXCEPT !.stage = "queued"] \in Recs /\ NoRec \in Recs
    BY <2>1, Samples DEF Recs, Requests
  <2>4. ctx' \in [Ctxs -> Contexts]
    <3>1. ctx' = [ctx EXCEPT ![c].rec = NoRec] \/ ctx' = [ctx EXCEPT ![c].rec = [ctx[c].rec EXCEPT !.stage = "queued"]]
      BY <1>25 DEF HistoryAnswers, SetRec
    <3>2. \A q \in Recs : [ctx[c] EXCEPT !.rec = q] \in Contexts
      BY <1>0, Samples, ContextUpdates
    <3>3. QED
      BY <1>0, <2>3, <3>1, <3>2
  <2>5. queue' \in Seq(Jobs)
    <3>1. [kind |-> "finish", c |-> c] \in Jobs /\ [kind |-> "apply", c |-> c, rows |-> rows] \in Jobs
      BY <2>2, JobsAre
    <3>2. queue' = queue \/ Enqueue([kind |-> "finish", c |-> c]) \/ Enqueue([kind |-> "apply", c |-> c, rows |-> rows])
      BY <1>25 DEF HistoryAnswers, rows
    <3>3. QED
      BY <1>0, <3>1, <3>2, EnqueueAdds
  <2>6. QED
    BY <1>0, <1>25, <2>4, <2>5 DEF HistoryAnswers, Shape, Aggs
<1>26. ASSUME NEW c \in Ctxs, HistoryFails(c) PROVE Shape'
  <2>1. ctx[c].rec \in Requests
    <3>1. ctx[c].rec # NoRec
      BY <1>26 DEF HistoryFails, NoRec
    <3>2. QED
      BY <3>1, ShapeFacts DEF Recs
  <2>2. [ctx[c].rec EXCEPT !.stage = "queued"] \in Recs
    BY <2>1 DEF Recs, Requests
  <2>3. ctx' \in [Ctxs -> Contexts]
    <3>1. [ctx[c] EXCEPT !.rec = [ctx[c].rec EXCEPT !.stage = "queued"]] \in Contexts
      BY <1>0, <2>2, Samples, ContextUpdates
    <3>2. QED
      BY <1>0, <1>26, <3>1 DEF HistoryFails, SetRec
  <2>4. queue' \in Seq(Jobs)
    <3>1. [kind |-> "finish", c |-> c] \in Jobs
      BY JobsAre
    <3>2. QED
      BY <1>0, <1>26, <3>1, EnqueueAdds DEF HistoryFails
  <2>5. faults' \in [breaks : Nat, crashes : Nat, fails : Nat]
    BY <1>26, FaultsCount DEF HistoryFails
  <2>6. QED
    BY <1>0, <1>26, <2>3, <2>4, <2>5 DEF HistoryFails, Shape, Aggs
<1>27. CASE Crash
  <2>1. ctx' \in [Ctxs -> Contexts]
    BY <1>27, Samples, OffIsContext DEF Crash
  <2>2. queue' \in Seq(Jobs) /\ job' \in Running /\ closed' \subseteq Bars
    BY <1>27, EmptySeq, RunningAre DEF Crash
  <2>3. agg' \in Aggs
    BY <1>27, Samples DEF Crash, Aggs
  <2>4. sock' \in [session : Nat, epoch : Nat, connected : BOOLEAN, confirmed : BOOLEAN]
        /\ faults' \in [breaks : Nat, crashes : Nat, fails : Nat]
    BY <1>0, <1>27, FaultsCount DEF Crash
  <2>5. QED
    BY <1>0, <1>27, <2>1, <2>2, <2>3, <2>4 DEF Crash, Shape, Aggs
<1>28. CASE UNCHANGED vars
  BY <1>0, <1>28 DEF vars, Shape, Aggs
<1>29. QED
  BY <1>1, <1>2, <1>3, <1>4, <1>5, <1>6, <1>7, <1>8, <1>9, <1>10, <1>11, <1>12, <1>13, <1>14, <1>15, <1>16,
     <1>17, <1>18, <1>19, <1>20, <1>21, <1>22, <1>23, <1>24, <1>25, <1>26, <1>27, <1>28 DEF Next, JobStep

-----------------------------------------------------------------------------
(* Everything recorded stays in the past.                                  *)

LEMMA TimelyFrames ==
  ASSUME Timely, UNCHANGED clock
  PROVE  /\ UNCHANGED sock => (sock.epoch <= clock)'
         /\ Waiting' \subseteq Waiting => QueueTimely'
         /\ UNCHANGED queue => QueueTimely'
         /\ ctx' = ctx /\ db' = db => CtxTimely'
         /\ job' = job => JobTimely'
         /\ job' = Idle => JobTimely'
         /\ agg' = agg /\ (closed' \subseteq closed) => AggTimely'
<1>1. UNCHANGED sock => (sock.epoch <= clock)'
  BY DEF Timely
<1>2. Waiting' \subseteq Waiting => QueueTimely'
  BY DEF Timely, QueueTimely, NowBar
<1>3. UNCHANGED queue => QueueTimely'
  <2>1. UNCHANGED queue => UNCHANGED Waiting
    BY DEF Waiting
  <2>2. QED
    BY <1>2, <2>1
<1>4. ctx' = ctx /\ db' = db => CtxTimely'
  BY DEF Timely, CtxTimely, Past, NowBar
<1>5. job' = job => JobTimely'
  BY DEF Timely, JobTimely, Past, NowBar, Recovering, InTx, At
<1>6. job' = Idle => JobTimely'
  BY DEF JobTimely, Idle, Recovering, InTx, At
<1>7. agg' = agg /\ (closed' \subseteq closed) => AggTimely'
  BY DEF Timely, AggTimely, NowBar
<1>8. QED
  BY <1>1, <1>2, <1>3, <1>4, <1>5, <1>6, <1>7

\* A job that joins the queue is of the present.
LEMMA EnqueueTimely ==
  ASSUME Shape, Timely, UNCHANGED clock, NEW j \in Jobs, Enqueue(j),
         j.kind \in {"trade", "flush", "refresh"} => j.at <= clock,
         j.kind = "apply" => \A b \in j.rows : b < NowBar
  PROVE  QueueTimely'
<1>1. Waiting' = Waiting \cup {j}
  BY EnqueueAdds DEF Shape
<1>2. QED
  BY <1>1 DEF Timely, QueueTimely, NowBar

\* A context that changes neither history nor request stays in the past.
LEMMA CtxsTimely ==
  ASSUME Timely, UNCHANGED clock, UNCHANGED db,
         \A c \in Ctxs : /\ ctx'[c].hist = ctx[c].hist \/ Past(ctx'[c].hist)
                         /\ ctx'[c].rec = ctx[c].rec \/ ctx'[c].rec.stage = "none" \/ ctx'[c].rec.to <= NowBar
  PROVE  CtxTimely'
BY DEF Timely, CtxTimely, Past, NowBar

LEMMA SetRecTimely ==
  ASSUME Shape, Timely, UNCHANGED <<clock, db>>, NEW c \in Ctxs, NEW q \in Recs,
         SetRec(c, q), q.stage = "none" \/ q.to <= NowBar
  PROVE  CtxTimely'
<1>1. \A d \in Ctxs : ctx'[d].hist = ctx[d].hist /\ (ctx'[d].rec = ctx[d].rec \/ (d = c /\ ctx'[d].rec = q))
  BY DEF SetRec, Shape, Contexts
<1>2. QED
  BY <1>1, CtxsTimely

LEMMA PastFlush ==
  ASSUME Shape, Timely, UNCHANGED clock, NEW bar \in Bars, bar <= NowBar, agg' = FlushTo(bar).agg \/ agg' = [FlushTo(bar).agg EXCEPT !.open = bar],
         closed' = closed \cup FlushTo(bar).out
  PROVE  AggTimely'
<1> DEFINE f == FlushTo(bar)
<1>0. /\ agg \in Aggs /\ clock \in Nat /\ NowBar \in Nat /\ bar \in Nat
      /\ agg.last \in Int /\ agg.open \in Int
  BY ShapeFacts, Bounds DEF Bars, Marks
<1>1. /\ f.agg \in Aggs /\ f.out \subseteq Bars
      /\ \A b \in f.out : b < bar /\ b <= f.agg.last
      /\ f.agg.last >= agg.last
      /\ f.agg.last = agg.last \/ f.agg.last \in f.out
      /\ f.agg.open = agg.open \/ f.agg.open = -1
  BY <1>0, FlushToIs
<1> HIDE DEF f
<1>2. agg'.last = f.agg.last /\ (agg'.open = bar \/ agg'.open = f.agg.open)
  BY <1>1 DEF f, Aggs
<1>3. NowBar <= CeilBar(clock) /\ CeilBar(clock) \in Nat
  <2>1. 2 * NowBar <= clock /\ clock <= 2 * CeilBar(clock) /\ CeilBar(clock) \in Nat
    BY <1>0, Halves DEF NowBar
  <2> DEFINE a == NowBar b == CeilBar(clock)
  <2> HIDE DEF a, b
  <2>2. a \in Nat /\ b \in Nat /\ 2 * a <= clock /\ clock <= 2 * b
    BY <1>0, <2>1 DEF a, b
  <2>3. a <= b
    BY <1>0, <2>2
  <2>4. QED
    BY <2>1, <2>3 DEF a, b
<1>4. f.agg.last \in Int /\ \A b \in f.out : b \in Int /\ b < NowBar
  BY <1>0, <1>1, Bounds DEF Aggs, Marks, Bars
<1>5. agg'.last < CeilBar(clock)
  BY <1>0, <1>1, <1>2, <1>3, <1>4 DEF Timely, AggTimely
<1>6. agg'.open <= NowBar
  BY <1>0, <1>1, <1>2 DEF Timely, AggTimely
<1>7. \A b \in closed : b \in Int /\ b <= agg.last /\ b < NowBar
  BY Bounds DEF Timely, AggTimely, Shape, Bars
<1>8. \A b \in closed' : b < NowBar /\ b <= agg'.last
  BY <1>0, <1>1, <1>2, <1>4, <1>7 DEF f
<1>9. QED
  BY <1>5, <1>6, <1>8 DEF AggTimely, NowBar

LEMMA TimelyPasses ==
  ASSUME Shape, Timely, TimePasses
  PROVE  Timely'
<1>1. clock' = clock + 1 /\ clock \in Nat /\ UNCHANGED <<sock, agg, closed, queue, job, ctx, db>>
  BY ShapeFacts DEF TimePasses
<1>2. NowBar \in Nat /\ NowBar' \in Nat /\ NowBar <= NowBar'
  <2>1. /\ clock \div 2 \in Nat /\ (clock + 1) \div 2 \in Nat
        /\ 2 * (clock \div 2) <= clock /\ clock + 1 < 2 * ((clock + 1) \div 2) + 2
    BY <1>1, Halves
  <2> DEFINE a == clock \div 2 b == (clock + 1) \div 2
  <2> HIDE DEF a, b
  <2>2. a \in Nat /\ b \in Nat /\ 2 * a <= clock /\ clock + 1 < 2 * b + 2
    BY <2>1 DEF a, b
  <2>3. a <= b
    BY <1>1, <2>2
  <2>4. QED
    BY <1>1, <2>2, <2>3 DEF a, b, NowBar
<1>3. CeilBar(clock) <= CeilBar(clock') /\ CeilBar(clock) \in Nat /\ CeilBar(clock') \in Nat
  <2>1. clock + 1 \in Nat /\ clock <= clock + 1
    BY <1>1
  <2>2. CeilBar(clock) <= CeilBar(clock + 1) /\ CeilBar(clock) \in Nat /\ CeilBar(clock + 1) \in Nat
    BY <1>1, <2>1, CeilGrows, Halves
  <2>3. QED
    BY <1>1, <2>2
<1>4. (sock.epoch <= clock)'
  BY <1>1, ShapeFacts DEF Timely
<1>5. QueueTimely'
  <2>1. Waiting' = Waiting
    BY <1>1 DEF Waiting
  <2>2. \A j \in Waiting : j \in Jobs
    BY ElementOfSeq, LenProperties DEF Waiting, Shape
  <2>3. ASSUME NEW j \in Waiting, j.kind \in {"trade", "flush", "refresh"} PROVE j.at <= clock'
    <3>1. j.at \in Nat /\ j.at <= clock
      BY <2>2, <2>3, JobsHave DEF Trades, Timers, Timely, QueueTimely
    <3>2. QED
      BY <1>1, <3>1
  <2>4. ASSUME NEW j \in Waiting, j.kind = "apply", NEW b \in j.rows PROVE b < NowBar'
    <3>1. b \in Bars
      BY <2>2, <2>4, JobsHave
    <3>2. b \in Int /\ b < NowBar
      BY <2>4, <3>1, Bounds DEF Timely, QueueTimely, Bars
    <3>3. QED
      BY <1>2, <3>2
  <2>5. QED
    BY <2>1, <2>3, <2>4 DEF QueueTimely
<1>6. ASSUME NEW h \in Hists, Past(h) PROVE \A x \in h : x[1] < NowBar'
  <2> TAKE x \in h
  <2>1. x[1] \in Int /\ x[1] < NowBar
    BY <1>6, Bounds DEF Hists, Bars, Past
  <2>2. QED
    BY <1>2, <2>1
<1>7. CtxTimely'
  <2>1. \A c \in Ctxs : /\ \A x \in ctx[c].hist : x[1] < NowBar'
                        /\ \A x \in db[c].hist : x[1] < NowBar'
    BY <1>6, ShapeFacts DEF Timely, CtxTimely
  <2>2. ASSUME NEW c \in Ctxs, ctx[c].rec.stage # "none" PROVE ctx[c].rec.to <= NowBar'
    <3>1. ctx[c].rec # NoRec /\ ctx[c].rec \in Recs
      BY <2>2, ShapeFacts DEF NoRec
    <3>2. ctx[c].rec.to \in Nat /\ ctx[c].rec.to <= NowBar
      BY <2>2, <3>1 DEF Recs, Requests, Timely, CtxTimely
    <3>3. QED
      BY <1>2, <3>2
  <2>3. QED
    BY <1>1, <2>1, <2>2 DEF CtxTimely, Past
<1>8. JobTimely'
  <2>1. job \in Running
    BY DEF Shape
  <2>2. Recovering /\ job.pc # "ready" => \A x \in job.hist : x[1] < NowBar'
    <3>1. SUFFICES ASSUME Recovering, job.pc # "ready" PROVE \A x \in job.hist : x[1] < NowBar'
      OBVIOUS
    <3>2. job.hist \in Hists /\ Past(job.hist)
      BY <2>1, <3>1, RunningHave DEF Timely, JobTimely
    <3>3. QED
      BY <1>6, <3>2
  <2>3. At("flush", "work") \/ InTx => job.bar < NowBar'
    <3>1. At("flush", "work") \/ InTx => job.bar \in Bars
      BY <2>1, RunningHave DEF Saved, Deciding
    <3>2. At("flush", "work") \/ InTx => job.bar \in Int /\ job.bar < NowBar
      BY <3>1, Bounds DEF Timely, JobTimely, Bars
    <3>3. QED
      BY <1>2, <3>2
  <2>4. At("finish", "ready") => job.boundary <= clock'
    <3>1. At("finish", "ready") => job.boundary \in Nat /\ job.boundary <= clock
      BY <2>1, RunningHave DEF Finished, Timely, JobTimely
    <3>2. QED
      BY <1>1, <3>1
  <2>5. InTx => job.work \subseteq DOMAIN job.backup /\ \A c \in DOMAIN job.backup : \A x \in job.backup[c].hist : x[1] < NowBar'
    <3>1. SUFFICES ASSUME InTx PROVE \A c \in DOMAIN job.backup : \A x \in job.backup[c].hist : x[1] < NowBar'
      BY DEF Timely, JobTimely
    <3>2. \A c \in DOMAIN job.backup : job.backup[c].hist \in Hists /\ Past(job.backup[c].hist)
      BY <2>1, <3>1, RunningHave, DecidingHas DEF Timely, JobTimely
    <3>3. QED
      BY <1>6, <3>2
  <2>6. QED
    BY <1>1, <2>2, <2>3, <2>4, <2>5 DEF JobTimely, Recovering, InTx, At, Past
<1>9. AggTimely'
  <2>1. agg.open \in Int /\ agg.last \in Int /\ agg.open <= NowBar /\ agg.last < CeilBar(clock)
    BY ShapeFacts, Bounds DEF Timely, AggTimely, Marks
  <2>2. \A b \in closed : b \in Int /\ b < NowBar /\ b <= agg.last
    BY Bounds DEF Timely, AggTimely, Shape, Bars
  <2>3. agg.last < CeilBar(clock') /\ agg.open <= NowBar'
    BY <1>2, <1>3, <2>1
  <2>4. \A b \in closed : b < NowBar' /\ b <= agg.last
    BY <1>2, <2>2
  <2>5. CeilBar(clock)' = CeilBar(clock')
    BY DEF CeilBar
  <2>6. QED
    BY <1>1, <2>3, <2>4, <2>5 DEF AggTimely
<1>10. QED
  BY <1>4, <1>5, <1>7, <1>8, <1>9 DEF Timely

LEMMA TimelyStep ==
  ASSUME Shape, Timely, [Next]_vars
  PROVE  Timely'
<1>0. /\ clock \in Nat /\ NowBar \in Nat /\ sock.epoch <= clock /\ queue \in Seq(Jobs) /\ job \in Running
      /\ QueueTimely /\ CtxTimely /\ JobTimely /\ AggTimely
  BY ShapeFacts DEF Timely, Shape
<1>1. CASE Interrupt
  <2>1. UNCHANGED <<clock, job, db>>
    BY <1>1 DEF Interrupt
  <2>2. QueueTimely'
    BY <1>1, <2>1, JobsAre, EnqueueTimely DEF Interrupt, Job
  <2>3. CtxTimely'
    BY <1>1, <2>1, CtxsTimely, ShapeFacts DEF Interrupt, Contexts
  <2>4. AggTimely'
    <3>1. agg'.open = -1 /\ agg'.last = -1 /\ closed' = {}
      BY <1>1, ShapeFacts DEF Interrupt, Aggs
    <3>2. CeilBar(clock) \in Nat /\ CeilBar(clock)' = CeilBar(clock) /\ NowBar' = NowBar
      BY <1>0, <2>1, Halves DEF NowBar
    <3>3. QED
      BY <1>0, <2>1, <3>1, <3>2 DEF AggTimely
  <2>5. (sock.epoch <= clock)'
    <3>1. sock'.epoch = clock
      BY <1>1 DEF Interrupt, Shape
    <3>2. QED
      BY <1>0, <2>1, <3>1
  <2>6. QED
    BY <2>1, <2>2, <2>3, <2>4, <2>5, TimelyFrames DEF Timely
<1>2. CASE Subscribed
  <2>1. UNCHANGED <<clock, job, agg, closed, ctx, db>>
    BY <1>2 DEF Subscribed
  <2>2. QueueTimely'
    BY <1>2, <2>1, JobsAre, EnqueueTimely DEF Subscribed, Job
  <2>3. (sock.epoch <= clock)'
    BY <1>0, <1>2 DEF Subscribed, Shape
  <2>4. QED
    BY <2>1, <2>2, <2>3, TimelyFrames DEF Timely
<1>3. CASE ReceiveTrade
  <2>1. UNCHANGED <<clock, sock, job, agg, closed, ctx, db>>
    BY <1>3 DEF ReceiveTrade
  <2> DEFINE j == [kind |-> "trade", at |-> clock, session |-> sock.session, epoch |-> sock.epoch]
  <2>2. j \in Jobs /\ j.at <= clock /\ j.kind = "trade" /\ Enqueue(j)
    BY <1>0, <1>3, JobsAre, ShapeFacts DEF ReceiveTrade
  <2> HIDE DEF j
  <2>3. QueueTimely'
    BY <2>1, <2>2, EnqueueTimely
  <2>4. QED
    BY <2>1, <2>3, TimelyFrames DEF Timely
<1>4. CASE TimePasses
  BY <1>4, TimelyPasses
<1>5. ASSUME NEW k \in {"flush", "refresh"}, Timer(k) PROVE Timely'
  <2>1. UNCHANGED <<clock, sock, job, agg, closed, ctx, db>>
    BY <1>5 DEF Timer
  <2> DEFINE j == [kind |-> k, at |-> clock]
  <2>2. j \in Jobs /\ j.at <= clock /\ j.kind # "apply" /\ Enqueue(j)
    BY <1>0, <1>5, JobsAre DEF Timer
  <2> HIDE DEF j
  <2>3. QueueTimely'
    BY <2>1, <2>2, EnqueueTimely
  <2>4. QED
    BY <2>1, <2>3, TimelyFrames DEF Timely
<1>6. CASE RunMark
  <2>1. Waiting' \subseteq Waiting /\ UNCHANGED <<clock, sock, job, agg, closed, db>>
    BY <1>0, <1>6, TakeRemoves DEF RunMark
  <2>2. CtxTimely'
    BY <1>6, <2>1, CtxsTimely, ShapeFacts DEF RunMark, Unready, Contexts
  <2>3. QED
    BY <2>1, <2>2, TimelyFrames DEF Timely
<1>7. CASE RunReady
  <2>1. Waiting' \subseteq Waiting /\ UNCHANGED <<clock, job, agg, closed, db>>
    BY <1>0, <1>7, TakeRemoves DEF RunReady
  <2>2. CtxTimely'
    BY <1>7, <2>1, CtxsTimely, ShapeFacts DEF RunReady, Unready, Contexts
  <2>3. (sock.epoch <= clock)'
    BY <1>0, <1>7 DEF RunReady, Shape
  <2>4. QED
    BY <2>1, <2>2, <2>3, TimelyFrames DEF Timely
<1>8. CASE RunRefresh
  <2>1. Waiting' \subseteq Waiting /\ UNCHANGED <<clock, job, agg, closed, db>>
    BY <1>0, <1>8, TakeRemoves DEF RunRefresh
  <2>2. CtxTimely'
    <3>1. ASSUME NEW c \in Ctxs
          PROVE  /\ Past(ctx'[c].hist)
                 /\ ctx'[c].rec = ctx[c].rec \/ ctx'[c].rec.stage = "none" \/ ctx'[c].rec.to <= NowBar
      <4> DEFINE x == Refreshed(c)
      <4>1. x \in Contexts /\ Past(x.hist) /\ (x.rec = ctx[c].rec \/ x.rec.stage = "none")
        <5>1. ctx[c] \in Contexts /\ Past(ctx[c].hist) /\ Past(db[c].hist)
          BY <1>0, ShapeFacts DEF CtxTimely
        <5>2. QED
          BY <5>1, RefreshedIs DEF Refreshed, Contexts, Off, NoRec
      <4>2. ctx'[c] = Launched(x)
        BY <1>8 DEF RunRefresh
      <4> HIDE DEF x
      <4>3. ctx'[c] = x \/ \E q \in Requests : ctx'[c] = [x EXCEPT !.rec = q] /\ q.to = NowBar
        BY <4>1, <4>2, LaunchedIs
      <4>4. CASE ctx'[c] = x
        BY <4>1, <4>4
      <4>5. ASSUME NEW q \in Requests, ctx'[c] = [x EXCEPT !.rec = q], q.to = NowBar
            PROVE  Past(ctx'[c].hist) /\ ctx'[c].rec.to <= NowBar
        BY <1>0, <4>1, <4>5 DEF Contexts
      <4>6. QED
        BY <4>3, <4>4, <4>5
    <3>2. QED
      BY <2>1, <3>1, CtxsTimely
  <2>3. (sock.epoch <= clock)'
    BY <1>0, <1>8 DEF RunRefresh, Shape
  <2>4. QED
    BY <2>1, <2>2, <2>3, TimelyFrames DEF Timely
<1>9. CASE RunTrade
  <2> DEFINE t == Head(queue) bar == t.at \div 2 f == FlushTo(bar)
  <2>1. Waiting' \subseteq Waiting /\ t \in Waiting /\ t \in Jobs /\ t.kind = "trade" /\ UNCHANGED <<clock, ctx, db>>
    BY <1>0, <1>9, TakeRemoves DEF RunTrade
  <2>2. bar \in Bars /\ bar <= NowBar
    <3>1. t.at \in Nat /\ t.at <= clock
      BY <1>0, <2>1, JobsHave DEF Trades, QueueTimely
    <3>2. QED
      BY <3>1, HalfPast
  <2> HIDE DEF f, bar
  <2>3. CASE UNCHANGED <<sock, agg, closed, job>>
    BY <2>1, <2>3, TimelyFrames DEF Timely
  <2>4. CASE ~UNCHANGED <<sock, agg, closed, job>>
    <3>1. LET joins == bar > f.agg.final /\ f.agg.open \in {-1, bar}
          IN /\ agg' = IF joins THEN [f.agg EXCEPT !.open = bar] ELSE f.agg
             /\ sock' = [sock EXCEPT !.confirmed = @ \/ (joins /\ sock.connected)]
             /\ closed' = closed \cup f.out
             /\ job' = [kind |-> "flush", pc |-> "next", upTo |-> bar]
      BY <1>9, <2>4 DEF RunTrade, bar, f
    <3>2. AggTimely'
      BY <2>1, <2>2, <3>1, PastFlush DEF f
    <3>3. JobTimely'
      BY <3>1 DEF JobTimely, Recovering, InTx, At
    <3>4. (sock.epoch <= clock)'
      BY <1>0, <2>1, <3>1 DEF Shape
    <3>5. QED
      BY <2>1, <3>2, <3>3, <3>4, TimelyFrames DEF Timely
  <2>5. QED
    BY <2>3, <2>4
<1>10. CASE RunFlush
  <2> DEFINE t == Head(queue) bar == t.at \div 2 f == FlushTo(bar)
  <2>1. Waiting' \subseteq Waiting /\ t \in Waiting /\ t \in Jobs /\ t.kind = "flush" /\ UNCHANGED <<clock, sock, ctx, db>>
    BY <1>0, <1>10, TakeRemoves DEF RunFlush
  <2>2. bar \in Bars /\ bar <= NowBar
    <3>1. t.at \in Nat /\ t.at <= clock
      BY <1>0, <2>1, JobsHave DEF Timers, QueueTimely
    <3>2. QED
      BY <3>1, HalfPast
  <2>3. agg' = f.agg /\ closed' = closed \cup f.out /\ job' = [kind |-> "flush", pc |-> "next", upTo |-> bar]
    BY <1>10 DEF RunFlush
  <2> HIDE DEF f, bar
  <2>4. AggTimely'
    BY <2>1, <2>2, <2>3, PastFlush DEF f
  <2>5. JobTimely'
    BY <2>3 DEF JobTimely, Recovering, InTx, At
  <2>6. QED
    BY <2>1, <2>4, <2>5, TimelyFrames DEF Timely
<1>11. CASE SaveBar
  <2>1. UNCHANGED <<clock, sock, agg, closed, queue, ctx, db>>
    BY <1>11 DEF SaveBar
  <2>2. JobTimely'
    <3>1. CASE {b \in closed : b < job.upTo} = {}
      BY <1>11, <2>1, <3>1, TimelyFrames DEF SaveBar, Done
    <3>2. CASE {b \in closed : b < job.upTo} # {}
      <4>1. closed \in SUBSET Nat /\ closed # {}
        BY <3>2, Bounds DEF Bars, Shape
      <4>2. Min(closed) \in closed
        BY <4>1, MinIs
      <4>3. job' = [kind |-> "flush", pc |-> "work", upTo |-> job.upTo, bar |-> Min(closed)]
        BY <1>11, <3>2 DEF SaveBar
      <4>4. QED
        BY <1>0, <2>1, <4>2, <4>3 DEF JobTimely, AggTimely, Recovering, InTx, At, NowBar
    <3>3. QED
      BY <3>1, <3>2
  <2>3. QED
    BY <2>1, <2>2, TimelyFrames DEF Timely
<1>12. CASE SelectWork
  <2>1. UNCHANGED <<clock, sock, agg, queue, ctx, db>> /\ closed' \subseteq closed
    BY <1>12 DEF SelectWork
  <2>2. JobTimely'
    <3> DEFINE work == {c \in Ctxs : Work(c, job.bar)}
               saved == [c \in work |-> [hist |-> ctx[c].hist, last |-> ctx[c].last, bound |-> ctx[c].bound]]
    <3>1. CASE work = {}
      BY <1>12, <3>1 DEF SelectWork, JobTimely, Recovering, InTx, At
    <3>2. CASE work # {}
      <4>1. job' = [kind |-> "flush", pc |-> "evaluate", upTo |-> job.upTo, bar |-> job.bar, work |-> work, backup |-> saved]
        BY <1>12, <3>2 DEF SelectWork
      <4>2. work = DOMAIN saved /\ \A c \in DOMAIN saved : \A x \in saved[c].hist : x[1] < NowBar
        BY <1>0 DEF CtxTimely, Past
      <4>3. job.bar < NowBar
        BY <1>0, <1>12 DEF SelectWork, JobTimely
      <4> HIDE DEF work, saved
      <4>4. QED
        BY <2>1, <4>1, <4>2, <4>3 DEF JobTimely, Recovering, InTx, At, NowBar, Past
    <3>3. QED
      BY <3>1, <3>2
  <2>3. QED
    BY <2>1, <2>2, TimelyFrames DEF Timely
<1>13. CASE Evaluate
  <2> DEFINE live == IF sock.connected THEN {c \in job.work : db[c].last < job.bar} ELSE {}
  <2>0. job \in Deciding /\ InTx
    BY <1>0, <1>13, RunningHave DEF Evaluate, At, InTx
  <2>1. UNCHANGED <<clock, sock, agg, closed, queue, db>>
    BY <1>13 DEF Evaluate
  <2>2. job' = [job EXCEPT !.pc = "decide", !.work = live] /\ live \subseteq job.work
        /\ ctx' = [c \in Ctxs |-> IF c \in live THEN [ctx[c] EXCEPT !.hist = Rereads(c) \cup {<<job.bar, "real">>}] ELSE ctx[c]]
    BY <1>13 DEF Evaluate
  <2>3. job.bar < NowBar /\ job.work \subseteq DOMAIN job.backup /\ \A c \in DOMAIN job.backup : Past(job.backup[c].hist)
    BY <1>0, <2>0 DEF JobTimely
  <2> HIDE DEF live
  <2>4. JobTimely'
    <3>1. job'.kind = "flush" /\ job'.pc = "decide" /\ job'.bar = job.bar /\ job'.backup = job.backup
          /\ job'.work \subseteq DOMAIN job.backup
      BY <2>0, <2>2, <2>3 DEF Deciding
    <3>2. QED
      BY <2>1, <2>3, <3>1 DEF JobTimely, Recovering, InTx, At, NowBar, Past
  <2>5. CtxTimely'
    <3>1. ASSUME NEW c \in Ctxs
          PROVE  (ctx'[c].hist = ctx[c].hist \/ Past(ctx'[c].hist)) /\ ctx'[c].rec = ctx[c].rec
      <4>1. Past(Rereads(c) \cup {<<job.bar, "real">>})
        BY <1>0, <2>3 DEF Rereads, CtxTimely, Past
      <4>2. ctx[c] \in Contexts
        BY ShapeFacts
      <4>3. QED
        BY <2>2, <4>1, <4>2 DEF Contexts
    <3>2. QED
      BY <2>1, <3>1, CtxsTimely
  <2>6. QED
    BY <2>1, <2>4, <2>5, TimelyFrames DEF Timely
<1>14. ASSUME Rollback, job \in Deciding, UNCHANGED <<clock, sock, agg, queue>>, JobTimely,
              \A c \in DOMAIN job.backup : c \in Ctxs => Past(job.backup[c].hist)
       PROVE  Timely'
  <2>1. UNCHANGED <<closed, db>> /\ job' = Idle
    BY <1>14 DEF Rollback, Done
  <2>2. CtxTimely'
    <3>1. ASSUME NEW c \in Ctxs
          PROVE  (ctx'[c].hist = ctx[c].hist \/ Past(ctx'[c].hist)) /\ ctx'[c].rec = ctx[c].rec
      <4>1. ctx[c] \in Contexts
        BY ShapeFacts
      <4>2. QED
        BY <1>14, <4>1 DEF Rollback, RestoredCtx, Contexts
    <3>2. QED
      BY <1>14, <2>1, <3>1, CtxsTimely
  <2>3. QED
    BY <1>14, <2>1, <2>2, TimelyFrames DEF Timely
<1>15. CASE DecideBars
  <2>1. job \in Deciding /\ InTx /\ UNCHANGED <<clock, sock, agg, queue>>
    BY <1>0, <1>15, RunningHave DEF DecideBars, At, InTx
  <2>2. CASE Rollback
    BY <1>0, <1>14, <2>1, <2>2 DEF JobTimely
  <2>3. CASE job' = [job EXCEPT !.pc = "commit"] /\ UNCHANGED <<ctx, closed, db, decided>>
    <3>1. /\ job'.kind = "flush" /\ job'.pc = "commit" /\ job'.bar = job.bar /\ job'.work = job.work
          /\ job'.backup = job.backup
      BY <2>1, <2>3 DEF Deciding
    <3>2. JobTimely'
      BY <1>0, <2>1, <3>1 DEF JobTimely, Recovering, InTx, At, NowBar, Past
    <3>3. QED
      BY <2>1, <2>3, <3>2, TimelyFrames DEF Timely
  <2>4. QED
    BY <1>15, <2>2, <2>3 DEF DecideBars
<1>16. CASE FailBars
  <2>1. job \in Deciding /\ InTx /\ UNCHANGED <<clock, sock, agg, queue>> /\ Rollback
    BY <1>0, <1>16, RunningHave DEF FailBars, At, InTx
  <2>2. QED
    BY <1>0, <1>14, <2>1 DEF JobTimely
<1>17. CASE CommitBars
  <2>1. UNCHANGED <<clock, sock, agg, queue>> /\ closed' \subseteq closed
        /\ job' = [kind |-> "flush", pc |-> "next", upTo |-> job.upTo]
    BY <1>17 DEF CommitBars
  <2>2. JobTimely'
    BY <2>1 DEF JobTimely, Recovering, InTx, At
  <2>3. CtxTimely'
    <3>1. ASSUME NEW c \in Ctxs
          PROVE  /\ ctx'[c].hist = ctx[c].hist /\ ctx'[c].rec = ctx[c].rec
                 /\ db'[c].hist = db[c].hist \/ db'[c].hist = ctx[c].hist
      <4>1. ctx[c] \in Contexts
        BY ShapeFacts
      <4>2. QED
        BY <1>17, <4>1 DEF CommitBars, Contexts
    <3>2. NowBar' = NowBar
      BY <2>1 DEF NowBar
    <3>3. QED
      BY <1>0, <3>1, <3>2 DEF CtxTimely, Past
  <2>4. QED
    BY <2>1, <2>2, <2>3, TimelyFrames DEF Timely
<1>18. CASE RunApply
  <2> DEFINE c == Head(queue).c rows == Head(queue).rows
  <2>1. /\ Waiting' \subseteq Waiting /\ Head(queue) \in Waiting /\ Head(queue) \in Jobs /\ Head(queue).kind = "apply"
        /\ UNCHANGED <<clock, sock, agg, closed, db>>
    BY <1>0, <1>18, TakeRemoves DEF RunApply
  <2>2. c \in Ctxs /\ rows \in SUBSET Bars /\ \A b \in rows : b < NowBar
    BY <1>0, <2>1, JobsHave DEF QueueTimely
  <2>3. CASE Valid(c)
    <3>1. job' = [kind |-> "apply", pc |-> "commit", c |-> c, rows |-> rows, hist |-> Applied(ctx[c].hist, rows)] /\ ctx' = ctx
      BY <1>18, <2>3 DEF RunApply
    <3> HIDE DEF c, rows
    <3>2. ctx[c].hist \in Hists /\ \A x \in ctx[c].hist : x[1] < NowBar
      BY <1>0, <2>2, ShapeFacts DEF CtxTimely, Past
    <3>3. \A x \in Applied(ctx[c].hist, rows) : x[1] < NowBar
      BY <1>0, <2>2, <3>2, AppliedIs
    <3>4. JobTimely'
      <4>1. NowBar' = NowBar
        BY <2>1 DEF NowBar
      <4> DEFINE g == Applied(ctx[c].hist, rows)
      <4>2. job'.hist = g /\ job'.kind = "apply" /\ job'.pc = "commit" /\ \A x \in g : x[1] < NowBar
        BY <3>1, <3>3
      <4> HIDE DEF g
      <4>3. QED
        BY <4>1, <4>2 DEF JobTimely, Recovering, InTx, At, Past
    <3>5. QED
      BY <2>1, <3>1, <3>4, TimelyFrames DEF Timely
  <2>4. CASE ~Valid(c)
    <3>1. job' = job /\ SetRec(c, NoRec)
      BY <1>18, <2>4 DEF RunApply
    <3> HIDE DEF c, rows
    <3>2. CtxTimely'
      BY <2>1, <2>2, <3>1, Samples, SetRecTimely DEF NoRec
    <3>3. QED
      BY <2>1, <3>1, <3>2, TimelyFrames DEF Timely
  <2>5. QED
    BY <2>3, <2>4
<1>19. CASE CommitApply
  <2>1. job \in Applying /\ UNCHANGED <<clock, sock, agg, closed, queue, ctx>>
    BY <1>0, <1>19, RunningHave DEF CommitApply
  <2>2. Past(job.hist) /\ job' = [job EXCEPT !.pc = "memory"]
    BY <1>0, <1>19 DEF CommitApply, JobTimely, Recovering, At
  <2>3. JobTimely'
    <3>1. job'.hist = job.hist /\ job'.kind = "apply" /\ job'.pc = "memory"
      BY <2>1, <2>2 DEF Applying
    <3>2. QED
      BY <2>1, <2>2, <3>1 DEF JobTimely, Recovering, InTx, At, Past, NowBar
  <2>4. CtxTimely'
    <3>1. \A c \in Ctxs : db'[c].hist = db[c].hist \/ db'[c].hist = job.hist
      BY <1>19 DEF CommitApply, Shape, StoredRow
    <3>2. QED
      BY <1>0, <2>1, <2>2, <3>1 DEF CtxTimely, Past, NowBar
  <2>5. QED
    BY <2>1, <2>3, <2>4, TimelyFrames DEF Timely
<1>20. CASE ApplyMemory
  <2>1. job \in Applying /\ UNCHANGED <<clock, sock, agg, closed, db>> /\ job' = Idle
    BY <1>0, <1>20, RunningHave DEF ApplyMemory, Done
  <2>2. Past(job.hist) /\ job.c \in Ctxs
    BY <1>0, <1>20, <2>1 DEF ApplyMemory, JobTimely, Recovering, At, Applying
  <2>3. CASE Valid(job.c)
    <3>1. ctx' = [ctx EXCEPT ![job.c] = Adopt(job.c, job.hist)] /\ Enqueue([kind |-> "finish", c |-> job.c])
      BY <1>20, <2>3 DEF ApplyMemory
    <3>2. QueueTimely'
      <4> DEFINE j == [kind |-> "finish", c |-> job.c]
      <4>1. j \in Jobs /\ j.kind = "finish" /\ Enqueue(j)
        BY <2>2, <3>1, JobsAre
      <4> HIDE DEF j
      <4>2. QED
        BY <2>1, <4>1, EnqueueTimely
    <3>3. CtxTimely'
      <4>1. \A c \in Ctxs : (ctx'[c].hist = ctx[c].hist \/ ctx'[c].hist = job.hist) /\ ctx'[c].rec = ctx[c].rec
        BY <2>2, <3>1 DEF Adopt, Shape, Contexts
      <4>2. QED
        BY <2>1, <2>2, <4>1, CtxsTimely
    <3>4. QED
      BY <2>1, <3>2, <3>3, TimelyFrames DEF Timely
  <2>4. CASE ~Valid(job.c)
    <3>1. SetRec(job.c, NoRec) /\ queue' = queue
      BY <1>20, <2>4 DEF ApplyMemory
    <3>2. CtxTimely'
      BY <2>1, <2>2, <3>1, Samples, SetRecTimely DEF NoRec
    <3>3. QED
      BY <2>1, <3>1, <3>2, TimelyFrames DEF Timely
  <2>5. QED
    BY <2>3, <2>4
<1>21. CASE RunFinish
  <2> DEFINE c == Head(queue).c new == Appended(ctx[c])
  <2>1. /\ Waiting' \subseteq Waiting /\ Head(queue) \in Jobs /\ Head(queue).kind = "finish"
        /\ UNCHANGED <<clock, sock, agg, closed>>
    BY <1>0, <1>21, TakeRemoves DEF RunFinish
  <2>2. c \in Ctxs
    BY <2>1, JobsHave
  <2>3. CASE Valid(c)
    <3>1. /\ job' = [kind |-> "finish", pc |-> "append", c |-> c, hist |-> ctx[c].hist \cup Rows(new)]
          /\ db' = IF new = {} THEN db ELSE [db EXCEPT ![c] = [hist |-> ctx[c].hist \cup Rows(new), last |-> Max(new)]]
          /\ ctx' = ctx
      BY <1>21, <2>3 DEF RunFinish
    <3>2. \A b \in new : b < NowBar
      <4>1. ctx[c] \in Contexts
        BY <2>2, ShapeFacts
      <4>2. QED
        BY <4>1, AppendedIs
    <3> HIDE DEF c, new
    <3>3. Past(ctx[c].hist \cup Rows(new))
      BY <1>0, <2>2, <3>2 DEF CtxTimely, Past, Rows
    <3> DEFINE h == ctx[c].hist \cup Rows(new)
    <3>4. /\ job'.kind = "finish" /\ job'.pc = "append" /\ job'.hist = h /\ Past(h)
          /\ \A d \in Ctxs : db'[d].hist = db[d].hist \/ db'[d].hist = h
      <4>1. \A d \in Ctxs : db'[d].hist = db[d].hist \/ db'[d].hist = h
        BY <2>2, <3>1 DEF Shape, StoredRow
      <4>2. QED
        BY <3>1, <3>3, <4>1
    <3> HIDE DEF h
    <3>5. JobTimely' /\ CtxTimely'
      <4>1. NowBar' = NowBar
        BY <2>1 DEF NowBar
      <4>2. JobTimely'
        BY <3>4, <4>1 DEF JobTimely, Recovering, InTx, At, Past
      <4>3. CtxTimely'
        BY <1>0, <3>1, <3>4, <4>1 DEF CtxTimely, Past
      <4>4. QED
        BY <4>2, <4>3
    <3>6. QED
      BY <2>1, <3>5, TimelyFrames DEF Timely
  <2>4. CASE ~Valid(c)
    <3>1. job' = job /\ db' = db /\ SetRec(c, NoRec)
      BY <1>21, <2>4 DEF RunFinish
    <3> HIDE DEF c, new
    <3>2. CtxTimely'
      BY <2>1, <2>2, <3>1, Samples, SetRecTimely DEF NoRec
    <3>3. QED
      BY <2>1, <3>1, <3>2, TimelyFrames DEF Timely
  <2>5. QED
    BY <2>3, <2>4
<1>22. CASE FinishAppend
  <2> DEFINE c == job.c warm == Warm([ctx[c] EXCEPT !.hist = job.hist])
  <2>1. job \in Finishing /\ UNCHANGED <<clock, sock, agg, closed, queue>> /\ Past(job.hist)
    BY <1>0, <1>22, RunningHave DEF FinishAppend, JobTimely, Recovering, At
  <2>2. c \in Ctxs
    BY <2>1 DEF Finishing
  <2>3. \A b \in warm : b < NowBar
    BY WarmIs
  <2>4. /\ ctx' = [ctx EXCEPT ![c].rec = NoRec] \/ ctx' = [ctx EXCEPT ![c].hist = job.hist, ![c].last = LastOf(job.hist)]
           \/ ctx' = [ctx EXCEPT ![c] = [Adopt(c, job.hist) EXCEPT !.ready = FALSE, !.rec = NoRec]]
        /\ job' = Idle \/ job' = [job EXCEPT !.pc = "boundary"] \/ job' = [job EXCEPT !.pc = "warm", !.hist = Rows(warm)]
        /\ db' = db \/ db' = [db EXCEPT ![c] = [hist |-> Rows(warm), last |-> Max(warm)]]
    BY <1>22 DEF FinishAppend, SetRec, Done
  <2> HIDE DEF c, warm
  <2>5. Past(Rows(warm)) /\ NowBar' = NowBar
    BY <2>1, <2>3 DEF Past, Rows, NowBar
  <2>6. JobTimely'
    <3>1. CASE job' = Idle
      BY <2>1, <3>1, TimelyFrames
    <3>2. CASE job' = [job EXCEPT !.pc = "boundary"] \/ job' = [job EXCEPT !.pc = "warm", !.hist = Rows(warm)]
      <4>1. job'.kind = "finish" /\ job'.pc # "ready" /\ (job'.hist = job.hist \/ job'.hist = Rows(warm))
        BY <2>1, <3>2 DEF Finishing
      <4>2. QED
        BY <2>1, <2>5, <4>1 DEF JobTimely, Recovering, InTx, At, Past
    <3>3. QED
      BY <2>4, <3>1, <3>2
  <2>7. CtxTimely'
    <3>1. \A d \in Ctxs : (ctx'[d].hist = ctx[d].hist \/ ctx'[d].hist = job.hist)
                          /\ (ctx'[d].rec = ctx[d].rec \/ ctx'[d].rec = NoRec)
      <4>1. CASE ctx' = [ctx EXCEPT ![c].rec = NoRec]
        BY <2>2, <4>1 DEF Shape, Contexts
      <4>2. CASE ctx' = [ctx EXCEPT ![c].hist = job.hist, ![c].last = LastOf(job.hist)]
        BY <2>2, <4>2 DEF Shape, Contexts
      <4>3. CASE ctx' = [ctx EXCEPT ![c] = [Adopt(c, job.hist) EXCEPT !.ready = FALSE, !.rec = NoRec]]
        <5>1. \A d \in Ctxs : d # c => ctx'[d] = ctx[d]
          BY <4>3 DEF Shape
        <5>2. ctx'[c] = [Adopt(c, job.hist) EXCEPT !.ready = FALSE, !.rec = NoRec]
          BY <2>2, <4>3 DEF Shape
        <5>3. ctx'[c].hist = job.hist /\ ctx'[c].rec = NoRec
          BY <2>2, <5>2, ShapeFacts DEF Adopt, Contexts
        <5>4. QED
          BY <5>1, <5>3
      <4>4. QED
        BY <2>4, <4>1, <4>2, <4>3
    <3>2. \A d \in Ctxs : db'[d].hist = db[d].hist \/ db'[d].hist = Rows(warm)
      <4>1. db \in [Ctxs -> StoredRow]
        BY DEF Shape
      <4>2. QED
        BY <2>2, <2>4, <4>1
    <3>3. QED
      BY <1>0, <2>1, <2>5, <3>1, <3>2 DEF CtxTimely, Past, NoRec
  <2>8. QED
    BY <2>1, <2>6, <2>7, TimelyFrames DEF Timely
<1>23. CASE FinishWarm
  <2>1. job \in Finishing /\ UNCHANGED <<clock, sock, agg, closed, queue, db>> /\ Past(job.hist)
    BY <1>0, <1>23, RunningHave DEF FinishWarm, JobTimely, Recovering, At
  <2>2. job.c \in Ctxs
    BY <2>1 DEF Finishing
  <2>3. JobTimely'
    <3>1. CASE job' = Idle
      BY <2>1, <3>1, TimelyFrames
    <3>2. CASE job' = [job EXCEPT !.pc = "boundary"]
      <4>1. job'.kind = "finish" /\ job'.pc = "boundary" /\ job'.hist = job.hist
        BY <2>1, <3>2 DEF Finishing
      <4>2. QED
        BY <2>1, <4>1 DEF JobTimely, Recovering, InTx, At, Past, NowBar
    <3>3. QED
      BY <1>23, <3>1, <3>2 DEF FinishWarm, Done
  <2>4. CtxTimely'
    <3>1. \A d \in Ctxs : (ctx'[d].hist = ctx[d].hist \/ ctx'[d].hist = job.hist)
                          /\ (ctx'[d].rec = ctx[d].rec \/ ctx'[d].rec = NoRec)
      <4>1. CASE ctx' = [ctx EXCEPT ![job.c] = Adopt(job.c, job.hist)]
        BY <2>2, <4>1 DEF Shape, Contexts, Adopt
      <4>2. CASE ctx' = [ctx EXCEPT ![job.c].rec = NoRec]
        BY <2>2, <4>2 DEF Shape, Contexts
      <4>3. QED
        BY <1>23, <4>1, <4>2 DEF FinishWarm, SetRec
    <3>2. QED
      BY <2>1, <3>1, CtxsTimely DEF NoRec
  <2>5. QED
    BY <2>1, <2>3, <2>4, TimelyFrames DEF Timely
<1>24. CASE FinishBoundary
  <2>1. job \in Finishing /\ UNCHANGED <<clock, agg, closed, queue, db>>
    BY <1>0, <1>24, RunningHave DEF FinishBoundary
  <2>2. job.c \in Ctxs
    BY <2>1 DEF Finishing
  <2>3. JobTimely'
    <3>1. CASE job' = Idle
      BY <2>1, <3>1, TimelyFrames
    <3>2. CASE job' = [kind |-> "finish", pc |-> "ready", c |-> job.c, boundary |-> clock]
      BY <1>0, <2>1, <3>2 DEF JobTimely, Recovering, InTx, At
    <3>3. QED
      BY <1>24, <3>1, <3>2 DEF FinishBoundary, Done
  <2>4. CtxTimely'
    <3>1. ctx' = ctx \/ SetRec(job.c, NoRec)
      BY <1>24 DEF FinishBoundary
    <3>2. QED
      BY <2>1, <2>2, <3>1, Samples, SetRecTimely, TimelyFrames DEF NoRec
  <2>5. (sock.epoch <= clock)'
    BY <1>0, <1>24 DEF FinishBoundary, Shape
  <2>6. QED
    BY <2>1, <2>3, <2>4, <2>5, TimelyFrames DEF Timely
<1>25. CASE FinishReady
  <2> DEFINE covered == job.boundary \div 2 - 1 base == CeilBar(job.boundary) - 1
  <2>1. job \in Finished /\ UNCHANGED <<clock, sock, closed, queue, db>> /\ job' = Idle
    BY <1>0, <1>25, RunningHave DEF FinishReady, Done
  <2>2. job.c \in Ctxs /\ job.boundary \in Nat /\ job.boundary <= clock
    BY <1>0, <1>25, <2>1 DEF FinishReady, Finished, JobTimely
  <2>3. base \in Int /\ base < CeilBar(clock) /\ CeilBar(clock) \in Nat
    <3>1. CeilBar(job.boundary) <= CeilBar(clock) /\ CeilBar(job.boundary) \in Nat /\ CeilBar(clock) \in Nat
      BY <1>0, <2>2, CeilGrows, Halves
    <3>2. QED
      BY <3>1
  <2>4. agg' = agg \/ /\ agg'.open \in {agg.open, -1} /\ agg'.last = Max({agg.last, base})
    BY <1>25 DEF FinishReady
  <2>5. agg.last \in Int /\ agg.open \in Int
    BY ShapeFacts, Bounds DEF Marks
  <2> HIDE DEF covered, base
  <2>6. AggTimely'
    <3>1. CASE agg' = agg
      BY <2>1, <3>1, TimelyFrames
    <3>2. CASE agg'.open \in {agg.open, -1} /\ agg'.last = Max({agg.last, base})
      <4>1. agg'.last \in Int /\ agg'.last >= agg.last /\ agg'.last < CeilBar(clock)
        BY <1>0, <2>3, <2>5, <3>2, MaxOfTwo DEF AggTimely
      <4>2. \A b \in closed : b \in Int /\ b <= agg.last /\ b < NowBar
        BY <1>0, Bounds DEF AggTimely, Shape, Bars
      <4>3. \A b \in closed : b <= agg'.last /\ b < NowBar
        BY <2>5, <4>1, <4>2
      <4>4. agg'.open <= NowBar
        BY <1>0, <3>2 DEF AggTimely
      <4>5. QED
        BY <2>1, <4>1, <4>3, <4>4 DEF AggTimely, NowBar
    <3>3. QED
      BY <2>4, <3>1, <3>2
  <2>7. CtxTimely'
    <3>1. \A d \in Ctxs : ctx'[d].hist = ctx[d].hist /\ (ctx'[d].rec = ctx[d].rec \/ ctx'[d].rec = NoRec)
      <4>1. CASE ctx' = [ctx EXCEPT ![job.c].rec = NoRec]
        BY <2>2, <4>1 DEF Shape, Contexts
      <4>2. CASE ctx' = [ctx EXCEPT ![job.c].ready = TRUE, ![job.c].bound = job.boundary, ![job.c].rec = NoRec]
        BY <2>2, <4>2 DEF Shape, Contexts
      <4>3. QED
        BY <1>25, <4>1, <4>2 DEF FinishReady, SetRec
    <3>2. QED
      BY <2>1, <3>1, CtxsTimely DEF NoRec
  <2>8. QED
    BY <2>1, <2>6, <2>7, TimelyFrames DEF Timely
<1>26. ASSUME NEW c \in Ctxs, NEW missing \in {0, 1}, HistoryAnswers(c, missing) PROVE Timely'
  <2> DEFINE rows == ctx[c].rec.from..ctx[c].rec.to - 1 - missing
  <2>1. UNCHANGED <<clock, sock, agg, closed, job, db>> /\ ctx[c].rec.stage = "history"
    BY <1>26 DEF HistoryAnswers
  <2>2. ctx[c].rec \in Requests
    <3>1. ctx[c].rec # NoRec
      BY <2>1 DEF NoRec
    <3>2. QED
      BY <3>1, ShapeFacts DEF Recs
  <2>3. ctx[c].rec.to \in Nat /\ ctx[c].rec.to <= NowBar /\ ctx[c].rec.from \in Nat
    BY <1>0, <2>1, <2>2 DEF CtxTimely, Requests
  <2>4. \A b \in rows : b \in Nat /\ b < NowBar
    <3>1. \A lo \in Nat, hi \in Nat : hi <= NowBar => \A b \in lo..hi - 1 - missing : b \in Nat /\ b < NowBar
      BY <1>0, <1>26
    <3>2. QED
      BY <2>3, <3>1
  <2> HIDE DEF rows
  <2>5. rows \in SUBSET Bars
    BY <1>0, <2>4, ShapeFacts, Bounds DEF Bars
  <2>6. CASE ~Valid(c)
    <3>1. SetRec(c, NoRec) /\ queue' = queue
      BY <1>26, <2>6 DEF HistoryAnswers
    <3>2. CtxTimely'
      BY <2>1, <3>1, Samples, SetRecTimely DEF NoRec
    <3>3. QED
      BY <2>1, <3>1, <3>2, TimelyFrames DEF Timely
  <2>7. CASE Valid(c)
    <3> DEFINE q == [ctx[c].rec EXCEPT !.stage = "queued"]
               j == IF rows = {} THEN [kind |-> "finish", c |-> c] ELSE [kind |-> "apply", c |-> c, rows |-> rows]
    <3>1. SetRec(c, q) /\ Enqueue(j)
      BY <1>26, <2>7 DEF HistoryAnswers, rows
    <3>2. q \in Recs /\ q.to <= NowBar
      BY <2>2, <2>3 DEF Recs, Requests
    <3>3. j \in Jobs /\ j.kind \notin {"trade", "flush", "refresh"} /\ (j.kind = "apply" => \A b \in j.rows : b < NowBar)
      BY <2>4, <2>5, JobsAre
    <3> HIDE DEF q, j
    <3>4. CtxTimely'
      BY <2>1, <3>1, <3>2, SetRecTimely
    <3>5. QueueTimely'
      BY <2>1, <3>1, <3>3, EnqueueTimely
    <3>6. QED
      BY <2>1, <3>4, <3>5, TimelyFrames DEF Timely
  <2>8. QED
    BY <2>6, <2>7
<1>27. ASSUME NEW c \in Ctxs, HistoryFails(c) PROVE Timely'
  <2>1. UNCHANGED <<clock, sock, agg, closed, job, db>> /\ ctx[c].rec.stage = "history"
    BY <1>27 DEF HistoryFails
  <2>2. ctx[c].rec \in Requests
    <3>1. ctx[c].rec # NoRec
      BY <2>1 DEF NoRec
    <3>2. QED
      BY <3>1, ShapeFacts DEF Recs
  <2> DEFINE q == [ctx[c].rec EXCEPT !.stage = "queued"]
             j == [kind |-> "finish", c |-> c]
  <2>3. SetRec(c, q) /\ Enqueue(j)
    BY <1>27 DEF HistoryFails
  <2>4. q \in Recs /\ q.to <= NowBar
    BY <1>0, <2>1, <2>2 DEF Recs, Requests, CtxTimely
  <2>5. j \in Jobs /\ j.kind = "finish"
    BY JobsAre
  <2> HIDE DEF q, j
  <2>6. CtxTimely'
    BY <2>1, <2>3, <2>4, SetRecTimely
  <2>7. QueueTimely'
    BY <2>1, <2>3, <2>5, EnqueueTimely
  <2>8. QED
    BY <2>1, <2>6, <2>7, TimelyFrames DEF Timely
<1>28. CASE Crash
  <2>1. UNCHANGED <<clock, db>> /\ job' = Idle /\ queue' = <<>> /\ closed' = {}
    BY <1>28 DEF Crash
  <2>2. CtxTimely'
    BY <1>28, <2>1, CtxsTimely DEF Crash, Off, NoRec, Past
  <2>3. QueueTimely'
    BY <2>1 DEF QueueTimely, Waiting
  <2>4. AggTimely'
    BY <1>0, <1>28, <2>1, Halves DEF Crash, AggTimely, NowBar
  <2>5. (sock.epoch <= clock)'
    BY <1>0, <1>28 DEF Crash
  <2>6. QED
    BY <2>1, <2>2, <2>3, <2>4, <2>5, TimelyFrames DEF Timely
<1>29. CASE UNCHANGED vars
  BY <1>29, TimelyFrames DEF vars, Timely
<1>30. QED
  BY <1>1, <1>2, <1>3, <1>4, <1>5, <1>6, <1>7, <1>8, <1>9, <1>10, <1>11, <1>12, <1>13, <1>15, <1>16,
     <1>17, <1>18, <1>19, <1>20, <1>21, <1>22, <1>23, <1>24, <1>25, <1>26, <1>27, <1>28, <1>29 DEF Next, JobStep

-----------------------------------------------------------------------------
(* Only the subscription of the day makes a strategy ready.                *)

LEMMA CurrentFrames ==
  ASSUME Shape, Current, UNCHANGED <<faults.breaks, faults.crashes>>,
         UNCHANGED <<sock.session, sock.epoch>>, sock.connected => sock'.connected,
         \A c \in Ctxs : /\ ctx'[c].ready => ctx[c].ready /\ ctx'[c].bound = ctx[c].bound
                         /\ ctx[c].on => ctx'[c].on
                         /\ ctx'[c].rec.stage # "none" =>
                              /\ ctx[c].rec.stage # "none" /\ ctx'[c].rec.session = ctx[c].rec.session
                              /\ ctx'[c].rec.epoch = ctx[c].rec.epoch /\ ctx'[c].rec.bound = ctx[c].rec.bound,
         \/ job' = job /\ (At("finish", "ready") => \A c \in Ctxs : ctx'[c].bound = ctx[c].bound)
         \/ job'.kind \notin {"apply", "finish"}
         \/ job'.pc # "ready" /\ job'.c \in Ctxs /\ ctx[job'.c].on /\ ~ctx[job'.c].ready
  PROVE  Current'
<1>1. Session' = Session
  BY DEF Session
<1>2. (sock.session \in {0, Session})'
  BY <1>1 DEF Current
<1>3. (\A c \in Ctxs : ctx[c].ready => /\ ctx[c].on /\ ctx[c].rec.stage = "none"
                                       /\ sock.session # 0 /\ sock.connected /\ ctx[c].bound >= sock.epoch)'
  BY DEF Current
<1>4. (\A c \in Ctxs : ctx[c].rec.stage # "none" =>
         ctx[c].on /\ ctx[c].rec.session \in 1..Session /\ (sock.session = 0 => ctx[c].rec.session # Session))'
  BY <1>1 DEF Current
<1>5. (Recovering => ctx[job.c].on /\ ~ctx[job.c].ready)'
  <2>1. CASE job' = job
    <3>1. Recovering => job.c \in Ctxs
      BY RunningHave DEF Shape
    <3>2. QED
      BY <2>1, <3>1 DEF Current, Recovering
  <2>2. CASE job'.kind \notin {"apply", "finish"}
    BY <2>2 DEF Recovering
  <2>3. CASE job'.pc # "ready" /\ job'.c \in Ctxs /\ ctx[job'.c].on /\ ~ctx[job'.c].ready
    BY <2>3 DEF Recovering
  <2>4. QED
    BY <2>1, <2>2, <2>3
<1>6. (At("finish", "ready") /\ Valid(job.c) => sock.connected /\ job.boundary >= sock.epoch)'
  <2>1. CASE job' = job /\ (At("finish", "ready") => \A c \in Ctxs : ctx'[c].bound = ctx[c].bound)
    <3>1. SUFFICES ASSUME At("finish", "ready"), Valid(job.c)' PROVE sock'.connected /\ job.boundary >= sock.epoch
      BY <2>1 DEF At
    <3>2. job.c \in Ctxs
      BY <3>1, RunningHave DEF Shape, Recovering, At
    <3>3. Valid(job.c)
      <4>1. job'.c = job.c /\ ctx'[job.c].bound = ctx[job.c].bound
        BY <2>1, <3>1, <3>2
      <4>2. ctx'[job.c].rec.stage # "none"
        BY <3>1, <4>1 DEF Valid
      <4>3. ctx[job.c].on
        BY <3>2, <4>2 DEF Current
      <4>4. QED
        BY <3>1, <3>2, <4>1, <4>2, <4>3 DEF Valid
    <3>4. QED
      BY <3>1, <3>3 DEF Current
  <2>2. CASE job'.kind \notin {"apply", "finish"} \/ job'.pc # "ready"
    BY <2>2 DEF At
  <2>3. QED
    BY <2>1, <2>2
<1>7. QED
  BY <1>2, <1>3, <1>4, <1>5, <1>6 DEF Current

LEMMA SetRecFrames ==
  ASSUME Shape, NEW c \in Ctxs, NEW q \in Recs, SetRec(c, q),
         q.stage # "none" => /\ ctx[c].rec.stage # "none" /\ q.session = ctx[c].rec.session
                             /\ q.epoch = ctx[c].rec.epoch /\ q.bound = ctx[c].rec.bound
  PROVE  \A d \in Ctxs : /\ ctx'[d].ready = ctx[d].ready /\ ctx'[d].bound = ctx[d].bound /\ ctx'[d].on = ctx[d].on
                         /\ ctx'[d].hist = ctx[d].hist /\ ctx'[d].last = ctx[d].last
                         /\ ctx'[d].rec.stage # "none" =>
                              /\ ctx[d].rec.stage # "none" /\ ctx'[d].rec.session = ctx[d].rec.session
                              /\ ctx'[d].rec.epoch = ctx[d].rec.epoch /\ ctx'[d].rec.bound = ctx[d].rec.bound
<1>1. \A d \in Ctxs : d # c => ctx'[d] = ctx[d]
  BY DEF SetRec, Shape
<1>2. /\ ctx'[c].ready = ctx[c].ready /\ ctx'[c].bound = ctx[c].bound /\ ctx'[c].on = ctx[c].on
      /\ ctx'[c].hist = ctx[c].hist /\ ctx'[c].last = ctx[c].last /\ ctx'[c].rec = q
  BY DEF SetRec, Shape, Contexts
<1>3. QED
  BY <1>1, <1>2

\* Ending a recovery disturbs nothing else.
LEMMA NoRecFrames ==
  ASSUME Shape, NEW c \in Ctxs, SetRec(c, NoRec)
  PROVE  \A d \in Ctxs : /\ ctx'[d].ready = ctx[d].ready /\ ctx'[d].bound = ctx[d].bound /\ ctx'[d].on = ctx[d].on
                         /\ ctx'[d].hist = ctx[d].hist /\ ctx'[d].last = ctx[d].last
                         /\ ctx'[d].rec.stage # "none" =>
                              /\ ctx[d].rec.stage # "none" /\ ctx'[d].rec.session = ctx[d].rec.session
                              /\ ctx'[d].rec.epoch = ctx[d].rec.epoch /\ ctx'[d].rec.bound = ctx[d].rec.bound
<1>1. NoRec \in Recs /\ NoRec.stage = "none"
  BY DEF Recs, NoRec
<1>2. QED
  BY <1>1, SetRecFrames

LEMMA CurrentStep ==
  ASSUME Shape, Timely, Current, [Next]_vars
  PROVE  Current'
<1>0. /\ clock \in Nat /\ sock.epoch \in Nat /\ sock.session \in Nat /\ sock.epoch <= clock /\ job \in Running
      /\ queue \in Seq(Jobs) /\ faults.breaks \in Nat /\ faults.crashes \in Nat
      /\ \A c \in Ctxs : ctx[c] \in Contexts
  BY ShapeFacts DEF Timely, Shape
<1>1. CASE Interrupt
  <2>1. /\ job' = job /\ sock'.session = 0
        /\ Session \in Nat /\ Session' = Session + 1
        /\ \A c \in Ctxs : ~ctx'[c].ready /\ ctx'[c].on = ctx[c].on /\ ctx'[c].rec = ctx[c].rec
    <3>1. faults'.breaks = faults.breaks + 1 /\ faults'.crashes = faults.crashes
      BY <1>0, <1>1 DEF Interrupt, Shape
    <3>2. \A c \in Ctxs : ~ctx'[c].ready /\ ctx'[c].on = ctx[c].on /\ ctx'[c].rec = ctx[c].rec
      BY <1>0, <1>1 DEF Interrupt, Contexts
    <3>3. job' = job /\ sock'.session = 0
      BY <1>1 DEF Interrupt, Shape
    <3>4. QED
      BY <1>0, <3>1, <3>2, <3>3 DEF Session
  <2>2. \A c \in Ctxs : ctx'[c].rec.stage # "none" =>
          ctx'[c].on /\ ctx'[c].rec.session \in 1..Session' /\ ctx'[c].rec.session # Session'
    <3> TAKE c \in Ctxs
    <3>1. ctx[c].rec.stage # "none" => ctx[c].on /\ ctx[c].rec.session \in 1..Session
      BY DEF Current
    <3>2. QED
      BY <2>1, <3>1
  <2>3. (Recovering => ctx[job.c].on /\ ~ctx[job.c].ready)'
    <3>1. Recovering => job.c \in Ctxs
      BY <1>0, RunningHave
    <3>2. QED
      BY <2>1, <3>1 DEF Recovering, Current
  <2>4. ~(At("finish", "ready") /\ Valid(job.c))'
    <3>1. SUFFICES ASSUME At("finish", "ready"), Valid(job.c)' PROVE FALSE
      BY <2>1 DEF At
    <3>2. job.c \in Ctxs
      BY <1>0, <3>1, RunningHave DEF Recovering, At
    <3>3. ctx'[job.c].rec.session = 0 /\ ctx'[job.c].rec.stage # "none"
      BY <2>1, <3>1 DEF Valid
    <3>4. QED
      BY <2>1, <2>2, <3>2, <3>3
  <2>5. QED
    BY <2>1, <2>2, <2>3, <2>4 DEF Current
<1>2. CASE Subscribed
  <2>1. /\ UNCHANGED <<job, ctx, faults>> /\ sock'.session = Session /\ sock'.epoch = clock /\ sock'.connected = sock.connected
        /\ sock.session = 0
    BY <1>2 DEF Subscribed, Shape, Session
  <2>2. \A c \in Ctxs : ~ctx[c].ready
    BY <2>1 DEF Current
  <2>3. Session \in Nat /\ Session' = Session /\ Session # 0
    BY <1>0, <2>1 DEF Session
  <2>4. ~(At("finish", "ready") /\ Valid(job.c))'
    <3>1. SUFFICES ASSUME At("finish", "ready"), Valid(job.c)' PROVE FALSE
      BY <2>1 DEF At
    <3>2. job.c \in Ctxs
      BY <1>0, <3>1, RunningHave DEF Recovering, At
    <3>3. ctx[job.c].rec.session = Session /\ ctx[job.c].rec.stage # "none"
      BY <2>1, <3>1 DEF Valid
    <3>4. QED
      BY <2>1, <3>2, <3>3 DEF Current
  <2>5. (Recovering => ctx[job.c].on /\ ~ctx[job.c].ready)'
    BY <2>1 DEF Recovering, Current
  <2>6. QED
    BY <2>1, <2>2, <2>3, <2>4, <2>5 DEF Current
<1>3. CASE ReceiveTrade
  BY <1>3, CurrentFrames DEF ReceiveTrade
<1>4. CASE TimePasses
  BY <1>4, CurrentFrames DEF TimePasses
<1>5. ASSUME NEW k \in {"flush", "refresh"}, Timer(k) PROVE Current'
  BY <1>5, CurrentFrames DEF Timer
<1>6. CASE RunMark
  <2>1. \A c \in Ctxs : ~ctx'[c].ready /\ ctx'[c].on = ctx[c].on /\ ctx'[c].rec = ctx[c].rec /\ ctx'[c].bound = ctx[c].bound
    BY <1>0, <1>6 DEF RunMark, Unready, Contexts
  <2>2. UNCHANGED <<job, sock, faults>>
    BY <1>6 DEF RunMark
  <2>3. QED
    BY <2>1, <2>2, CurrentFrames
<1>7. CASE RunReady
  <2>1. \A c \in Ctxs : ~ctx'[c].ready /\ ctx'[c].on = ctx[c].on /\ ctx'[c].rec = ctx[c].rec
    BY <1>0, <1>7 DEF RunReady, Unready, Contexts
  <2>2. UNCHANGED <<job, faults>> /\ job = Idle /\ UNCHANGED <<sock.session, sock.epoch>> /\ sock'.connected
    BY <1>7 DEF RunReady, Take, Shape
  <2>3. job'.kind \notin {"apply", "finish"}
    BY <2>2 DEF Idle
  <2>4. QED
    BY <2>1, <2>2, <2>3, CurrentFrames
<1>8. CASE RunRefresh
  <2>1. job' = Idle /\ UNCHANGED faults /\ UNCHANGED <<sock.session, sock.epoch>> /\ (sock.connected => sock'.connected)
        /\ Session' = Session
    BY <1>8 DEF RunRefresh, Take, Shape, Session
  <2>2. ASSUME NEW c \in Ctxs
        PROVE  /\ ctx'[c].on
               /\ ctx'[c].ready => ctx[c].ready /\ ctx'[c].bound = ctx[c].bound /\ ctx'[c].rec = ctx[c].rec
               /\ ctx'[c].rec.stage # "none" => \/ ctx[c].rec.stage # "none" /\ ctx'[c].rec.session = ctx[c].rec.session
                                                \/ sock.session # 0 /\ ctx'[c].rec.session = sock.session
    <3> DEFINE x == Refreshed(c)
    <3>1. /\ x \in Contexts /\ x.on
          /\ x.ready => ctx[c].ready /\ x.bound = ctx[c].bound /\ x.rec = ctx[c].rec
          /\ x.rec.stage # "none" => x.rec = ctx[c].rec
      BY <1>0, RefreshedIs DEF Refreshed, Contexts, Off, NoRec
    <3>2. ctx'[c] = Launched(x)
      BY <1>8 DEF RunRefresh
    <3> HIDE DEF x
    <3>3. ctx'[c] = x \/ /\ ~x.ready /\ sock.session # 0
                         /\ \E q \in Requests : ctx'[c] = [x EXCEPT !.rec = q] /\ q.session = sock.session
      BY <3>1, <3>2, LaunchedIs
    <3>4. CASE ctx'[c] = x
      BY <3>1, <3>4
    <3>5. ASSUME ~x.ready, sock.session # 0, NEW q \in Requests, ctx'[c] = [x EXCEPT !.rec = q], q.session = sock.session
          PROVE  ctx'[c].on /\ ~ctx'[c].ready /\ ctx'[c].rec.session = sock.session
      BY <3>1, <3>5 DEF Contexts
    <3>6. QED
      BY <3>3, <3>4, <3>5
  <2>3. sock.session # 0 => sock.session = Session /\ Session \in 1..Session
    BY <1>0 DEF Current, Session
  <2>4. (sock.session \in {0, Session})'
    BY <2>1 DEF Current
  <2>5. (\A c \in Ctxs : ctx[c].ready => /\ ctx[c].on /\ ctx[c].rec.stage = "none"
                                         /\ sock.session # 0 /\ sock.connected /\ ctx[c].bound >= sock.epoch)'
    BY <2>1, <2>2 DEF Current
  <2>6. (\A c \in Ctxs : ctx[c].rec.stage # "none" =>
           ctx[c].on /\ ctx[c].rec.session \in 1..Session /\ (sock.session = 0 => ctx[c].rec.session # Session))'
    BY <2>1, <2>2, <2>3 DEF Current
  <2>7. ~Recovering' /\ ~At("finish", "ready")'
    BY <2>1 DEF Recovering, At, Idle
  <2>8. QED
    BY <2>4, <2>5, <2>6, <2>7 DEF Current
<1>9. CASE RunTrade
  <2>1. UNCHANGED <<ctx, faults>>
    BY <1>9 DEF RunTrade
  <2>2. UNCHANGED <<sock.session, sock.epoch, sock.connected>> /\ (job' = job \/ job'.kind = "flush")
    <3>1. CASE UNCHANGED <<sock, agg, closed, job>>
      BY <3>1
    <3>2. CASE ~UNCHANGED <<sock, agg, closed, job>>
      <4> DEFINE t == Head(queue) bar == t.at \div 2 f == FlushTo(bar)
                 joins == bar > f.agg.final /\ f.agg.open \in {-1, bar}
      <4>1. sock' = [sock EXCEPT !.confirmed = @ \/ (joins /\ sock.connected)]
            /\ job' = [kind |-> "flush", pc |-> "next", upTo |-> bar]
        BY <1>9, <3>2 DEF RunTrade
      <4> HIDE DEF joins, bar
      <4>2. QED
        BY <4>1 DEF Shape
    <3>3. QED
      BY <3>1, <3>2
  <2>3. QED
    BY <2>1, <2>2, CurrentFrames
<1>10. CASE RunFlush
  <2>1. UNCHANGED <<ctx, faults, sock>> /\ job'.kind = "flush"
    BY <1>10 DEF RunFlush
  <2>2. QED
    BY <2>1, CurrentFrames
<1>11. CASE SaveBar
  <2>1. UNCHANGED <<ctx, faults, sock>> /\ job'.kind \notin {"apply", "finish"}
    BY <1>11 DEF SaveBar, Done, Idle
  <2>2. QED
    BY <2>1, CurrentFrames
<1>12. CASE SelectWork
  <2>1. UNCHANGED <<ctx, faults, sock>> /\ job'.kind \notin {"apply", "finish"}
    BY <1>12 DEF SelectWork
  <2>2. QED
    BY <2>1, CurrentFrames
<1>13. CASE Evaluate
  <2>1. job \in Deciding /\ job'.kind = "flush" /\ UNCHANGED <<faults, sock>>
    BY <1>0, <1>13, RunningHave DEF Evaluate, Deciding
  <2>2. \A c \in Ctxs : /\ ctx'[c].ready = ctx[c].ready /\ ctx'[c].bound = ctx[c].bound /\ ctx'[c].on = ctx[c].on
                        /\ ctx'[c].rec = ctx[c].rec
    BY <1>0, <1>13 DEF Evaluate, Contexts
  <2>3. QED
    BY <2>1, <2>2, CurrentFrames
<1>14. ASSUME Rollback, UNCHANGED <<sock, faults.breaks, faults.crashes>> PROVE Current'
  <2>1. \A c \in Ctxs : /\ ctx'[c].ready = ctx[c].ready /\ ctx'[c].bound = ctx[c].bound /\ ctx'[c].on = ctx[c].on
                        /\ ctx'[c].rec = ctx[c].rec
    BY <1>0, <1>14 DEF Rollback, RestoredCtx, Contexts
  <2>2. job'.kind \notin {"apply", "finish"}
    BY <1>14 DEF Rollback, Done, Idle
  <2>3. QED
    BY <1>14, <2>1, <2>2, CurrentFrames
<1>15. CASE DecideBars
  <2>1. CASE Rollback
    BY <1>14, <1>15, <2>1 DEF DecideBars
  <2>2. CASE job' = [job EXCEPT !.pc = "commit"] /\ UNCHANGED <<ctx, closed, db, decided>>
    <3>1. job \in Deciding /\ job'.kind = "flush" /\ UNCHANGED <<faults, sock>>
      BY <1>0, <1>15, <2>2, RunningHave DEF DecideBars, Deciding
    <3>2. QED
      BY <2>2, <3>1, CurrentFrames
  <2>3. QED
    BY <1>15, <2>1, <2>2 DEF DecideBars
<1>16. CASE FailBars
  BY <1>14, <1>16 DEF FailBars, Shape
<1>17. CASE CommitBars
  <2>1. job'.kind = "flush" /\ UNCHANGED <<faults, sock>>
    BY <1>17 DEF CommitBars
  <2>2. \A c \in Ctxs : /\ ctx'[c].ready = ctx[c].ready /\ ctx'[c].bound = ctx[c].bound /\ ctx'[c].on = ctx[c].on
                        /\ ctx'[c].rec = ctx[c].rec
    BY <1>0, <1>17 DEF CommitBars, Contexts
  <2>3. QED
    BY <2>1, <2>2, CurrentFrames
<1>18. CASE RunApply
  <2> DEFINE c == Head(queue).c
  <2>1. c \in Ctxs /\ job = Idle /\ UNCHANGED <<sock, faults>>
    BY <1>0, <1>18, TakeRemoves, JobsHave DEF RunApply
  <2>2. CASE Valid(c)
    <3>1. job'.pc = "commit" /\ job'.c = c /\ ctx' = ctx
      BY <1>18, <2>2 DEF RunApply
    <3> HIDE DEF c
    <3>2. ctx[c].on /\ ~ctx[c].ready
      BY <2>1, <2>2 DEF Valid, Current
    <3>3. QED
      BY <2>1, <3>1, <3>2, CurrentFrames
  <2>3. CASE ~Valid(c)
    <3>1. SetRec(c, NoRec) /\ job' = job
      BY <1>18, <2>3 DEF RunApply
    <3> HIDE DEF c
    <3>2. QED
      BY <2>1, <3>1, NoRecFrames, CurrentFrames
  <2>4. QED
    BY <2>2, <2>3
<1>19. CASE CommitApply
  <2>1. job \in Applying /\ UNCHANGED <<ctx, sock, faults>> /\ job' = [job EXCEPT !.pc = "memory"] /\ Recovering
    BY <1>0, <1>19, RunningHave DEF CommitApply, Recovering, At
  <2>2. job'.pc = "memory" /\ job'.c = job.c /\ job.c \in Ctxs
    BY <2>1 DEF Applying
  <2>3. ctx[job.c].on /\ ~ctx[job.c].ready
    BY <2>1 DEF Current
  <2>4. QED
    BY <2>1, <2>2, <2>3, CurrentFrames
<1>20. CASE ApplyMemory
  <2>1. job \in Applying /\ UNCHANGED <<sock, faults>> /\ job'.kind = "idle"
    BY <1>0, <1>20, RunningHave DEF ApplyMemory, Done, Idle
  <2>2. job.c \in Ctxs /\ job.hist \in Hists /\ LastOf(job.hist) \in Marks
    BY <2>1, LastIs DEF Applying
  <2>3. CASE Valid(job.c)
    <3>1. ctx' = [ctx EXCEPT ![job.c] = Adopt(job.c, job.hist)]
      BY <1>20, <2>3 DEF ApplyMemory
    <3>2. ctx'[job.c] = [ctx[job.c] EXCEPT !.hist = job.hist, !.last = LastOf(job.hist)]
          /\ \A d \in Ctxs \ {job.c} : ctx'[d] = ctx[d]
      BY <2>2, <3>1 DEF Adopt, Shape
    <3>3. \A d \in Ctxs : /\ ctx'[d].ready = ctx[d].ready /\ ctx'[d].bound = ctx[d].bound /\ ctx'[d].on = ctx[d].on
                          /\ ctx'[d].rec = ctx[d].rec
      <4>1. ctx[job.c] \in Contexts
        BY <1>0, <2>2
      <4>2. /\ ctx'[job.c].ready = ctx[job.c].ready /\ ctx'[job.c].bound = ctx[job.c].bound /\ ctx'[job.c].on = ctx[job.c].on
            /\ ctx'[job.c].rec = ctx[job.c].rec
        BY <3>2, <4>1 DEF Contexts
      <4>3. QED
        BY <3>2, <4>2
    <3>4. QED
      BY <2>1, <3>3, CurrentFrames
  <2>4. CASE ~Valid(job.c)
    BY <1>20, <2>1, <2>2, <2>4, NoRecFrames, CurrentFrames DEF ApplyMemory
  <2>5. QED
    BY <2>3, <2>4
<1>21. CASE RunFinish
  <2> DEFINE c == Head(queue).c
  <2>1. c \in Ctxs /\ job = Idle /\ UNCHANGED <<sock, faults>>
    BY <1>0, <1>21, TakeRemoves, JobsHave DEF RunFinish
  <2>2. CASE Valid(c)
    <3>1. job'.pc = "append" /\ job'.c = c /\ ctx' = ctx
      BY <1>21, <2>2 DEF RunFinish
    <3> HIDE DEF c
    <3>2. ctx[c].on /\ ~ctx[c].ready
      BY <2>1, <2>2 DEF Valid, Current
    <3>3. QED
      BY <2>1, <3>1, <3>2, CurrentFrames
  <2>3. CASE ~Valid(c)
    <3>1. SetRec(c, NoRec) /\ job' = job
      BY <1>21, <2>3 DEF RunFinish
    <3> HIDE DEF c
    <3>2. QED
      BY <2>1, <3>1, NoRecFrames, CurrentFrames
  <2>4. QED
    BY <2>2, <2>3
<1>22. CASE FinishAppend
  <2> DEFINE c == job.c h == job.hist warm == Warm([ctx[c] EXCEPT !.hist = job.hist])
  <2>1. job \in Finishing /\ UNCHANGED <<sock, faults>> /\ Recovering
    BY <1>0, <1>22, RunningHave DEF FinishAppend, Recovering, At
  <2>2. c \in Ctxs /\ h \in Hists /\ LastOf(h) \in Marks
    BY <2>1, LastIs DEF Finishing
  <2>3. ctx[c].on /\ ~ctx[c].ready
    BY <2>1 DEF Current
  <2>4. /\ \/ SetRec(c, NoRec)
           \/ ctx' = [ctx EXCEPT ![c].hist = h, ![c].last = LastOf(h)]
           \/ ctx' = [ctx EXCEPT ![c] = [Adopt(c, h) EXCEPT !.ready = FALSE, !.rec = NoRec]]
        /\ job' = Idle \/ job' = [job EXCEPT !.pc = "boundary"] \/ job' = [job EXCEPT !.pc = "warm", !.hist = Rows(warm)]
    BY <1>22 DEF FinishAppend, Done
  <2>5. job'.kind = "idle" \/ (job'.pc # "ready" /\ job'.c = c)
    <3>1. CASE job' = Idle
      BY <3>1 DEF Idle
    <3>2. CASE job' = [job EXCEPT !.pc = "boundary"]
      BY <2>1, <3>2 DEF Finishing
    <3>3. CASE job' = [job EXCEPT !.pc = "warm", !.hist = Rows(warm)]
      <4> HIDE DEF warm
      <4>1. QED
        BY <2>1, <3>3 DEF Finishing
    <3>4. QED
      BY <2>4, <3>1, <3>2, <3>3
  <2> HIDE DEF c, h, warm
  <2>6. CASE SetRec(c, NoRec)
    BY <2>1, <2>2, <2>3, <2>5, <2>6, NoRecFrames, CurrentFrames
  <2>7. CASE ctx' = [ctx EXCEPT ![c].hist = h, ![c].last = LastOf(h)]
    <3>1. ctx'[c] = [ctx[c] EXCEPT !.hist = h, !.last = LastOf(h)] /\ \A d \in Ctxs \ {c} : ctx'[d] = ctx[d]
      BY <2>2, <2>7 DEF Shape
    <3>2. \A d \in Ctxs : /\ ctx'[d].ready = ctx[d].ready /\ ctx'[d].bound = ctx[d].bound /\ ctx'[d].on = ctx[d].on
                          /\ ctx'[d].rec = ctx[d].rec
      <4>1. ctx[c] \in Contexts
        BY <1>0, <2>2
      <4>2. /\ ctx'[c].ready = ctx[c].ready /\ ctx'[c].bound = ctx[c].bound /\ ctx'[c].on = ctx[c].on
            /\ ctx'[c].rec = ctx[c].rec
        BY <3>1, <4>1 DEF Contexts
      <4>3. QED
        BY <3>1, <4>2
    <3>3. QED
      BY <2>1, <2>2, <2>3, <2>5, <3>2, CurrentFrames
  <2>8. CASE ctx' = [ctx EXCEPT ![c] = [Adopt(c, h) EXCEPT !.ready = FALSE, !.rec = NoRec]]
    <3>1. ctx'[c] = [Adopt(c, h) EXCEPT !.ready = FALSE, !.rec = NoRec] /\ \A d \in Ctxs \ {c} : ctx'[d] = ctx[d]
      BY <2>2, <2>8 DEF Shape
    <3>2. ~ctx'[c].ready /\ ctx'[c].on = ctx[c].on /\ ctx'[c].rec.stage = "none"
      BY <1>0, <2>2, <3>1 DEF Adopt, Contexts, NoRec
    <3>3. QED
      BY <2>1, <2>2, <2>3, <2>5, <3>1, <3>2, CurrentFrames
  <2>9. QED
    BY <2>4, <2>6, <2>7, <2>8
<1>23. CASE FinishWarm
  <2>1. job \in Finishing /\ UNCHANGED <<sock, faults>> /\ Recovering
    BY <1>0, <1>23, RunningHave DEF FinishWarm, Recovering, At
  <2>2. job.c \in Ctxs /\ job.hist \in Hists /\ LastOf(job.hist) \in Marks
    BY <2>1, LastIs DEF Finishing
  <2>3. ctx[job.c].on /\ ~ctx[job.c].ready
    BY <2>1 DEF Current
  <2>4. CASE Valid(job.c)
    <3>1. ctx' = [ctx EXCEPT ![job.c] = Adopt(job.c, job.hist)] /\ job' = [job EXCEPT !.pc = "boundary"]
      BY <1>23, <2>4 DEF FinishWarm
    <3>2. ctx'[job.c] = [ctx[job.c] EXCEPT !.hist = job.hist, !.last = LastOf(job.hist)]
          /\ \A d \in Ctxs \ {job.c} : ctx'[d] = ctx[d]
      BY <2>2, <3>1 DEF Adopt, Shape
    <3>3. job'.pc = "boundary" /\ job'.c = job.c
      BY <2>1, <3>1 DEF Finishing
    <3>4. \A d \in Ctxs : /\ ctx'[d].ready = ctx[d].ready /\ ctx'[d].bound = ctx[d].bound /\ ctx'[d].on = ctx[d].on
                          /\ ctx'[d].rec = ctx[d].rec
      <4>1. ctx[job.c] \in Contexts
        BY <1>0, <2>2
      <4>2. /\ ctx'[job.c].ready = ctx[job.c].ready /\ ctx'[job.c].bound = ctx[job.c].bound /\ ctx'[job.c].on = ctx[job.c].on
            /\ ctx'[job.c].rec = ctx[job.c].rec
        BY <3>2, <4>1 DEF Contexts
      <4>3. QED
        BY <3>2, <4>2
    <3>5. QED
      BY <2>1, <2>2, <2>3, <3>3, <3>4, CurrentFrames
  <2>5. CASE ~Valid(job.c)
    <3>1. SetRec(job.c, NoRec) /\ job'.kind = "idle"
      BY <1>23, <2>5 DEF FinishWarm, Done, Idle
    <3>2. QED
      BY <2>1, <2>2, <3>1, NoRecFrames, CurrentFrames
  <2>6. QED
    BY <2>4, <2>5
<1>24. CASE FinishBoundary
  <2>1. job \in Finishing /\ UNCHANGED faults /\ Recovering
    BY <1>0, <1>24, RunningHave DEF FinishBoundary, Recovering, At
  <2>2. job.c \in Ctxs /\ ctx[job.c].on /\ ~ctx[job.c].ready
    BY <2>1 DEF Finishing, Current
  <2>3. CASE Valid(job.c)
    <3>1. /\ UNCHANGED <<sock.session, sock.epoch>> /\ sock'.connected /\ ctx' = ctx
          /\ job' = [kind |-> "finish", pc |-> "ready", c |-> job.c, boundary |-> clock]
      BY <1>24, <2>3 DEF FinishBoundary, Shape
    <3>2. job'.kind = "finish" /\ job'.c = job.c /\ job'.boundary = clock
      BY <3>1
    <3>3. Session' = Session
      BY <2>1 DEF Session
    <3>4. (\A c \in Ctxs : ctx[c].ready => /\ ctx[c].on /\ ctx[c].rec.stage = "none"
                                           /\ sock.session # 0 /\ sock.connected /\ ctx[c].bound >= sock.epoch)'
      BY <3>1 DEF Current
    <3>5. (\A c \in Ctxs : ctx[c].rec.stage # "none" =>
             ctx[c].on /\ ctx[c].rec.session \in 1..Session /\ (sock.session = 0 => ctx[c].rec.session # Session))'
      BY <3>1, <3>3 DEF Current
    <3>6. (Recovering => ctx[job.c].on /\ ~ctx[job.c].ready)'
      BY <2>2, <3>1, <3>2
    <3>7. (At("finish", "ready") /\ Valid(job.c) => sock.connected /\ job.boundary >= sock.epoch)'
      BY <1>0, <3>1, <3>2
    <3>8. (sock.session \in {0, Session})'
      BY <3>1, <3>3 DEF Current
    <3>9. QED
      BY <3>4, <3>5, <3>6, <3>7, <3>8 DEF Current
  <2>4. CASE ~Valid(job.c)
    <3>1. SetRec(job.c, NoRec) /\ job'.kind = "idle" /\ sock' = sock
      BY <1>24, <2>4 DEF FinishBoundary, Done, Idle
    <3>2. QED
      BY <2>1, <2>2, <3>1, NoRecFrames, CurrentFrames
  <2>5. QED
    BY <2>3, <2>4
<1>25. CASE FinishReady
  <2>1. job \in Finished /\ UNCHANGED <<sock, faults>> /\ Recovering /\ job' = Idle
    BY <1>0, <1>25, RunningHave DEF FinishReady, Recovering, At, Done
  <2>2. job.c \in Ctxs
    BY <2>1 DEF Finished
  <2>3. CASE Valid(job.c)
    <3>1. ctx' = [ctx EXCEPT ![job.c].ready = TRUE, ![job.c].bound = job.boundary, ![job.c].rec = NoRec]
      BY <1>25, <2>3 DEF FinishReady
    <3>2. /\ \A d \in Ctxs \ {job.c} : ctx'[d] = ctx[d]
          /\ ctx'[job.c].on = ctx[job.c].on /\ ctx'[job.c].bound = job.boundary /\ ctx'[job.c].rec.stage = "none"
      BY <1>0, <2>2, <3>1 DEF Shape, Contexts, NoRec
    <3>3. sock.connected /\ job.boundary >= sock.epoch /\ ctx[job.c].on
      BY <1>25, <2>1, <2>3 DEF FinishReady, Current
    <3>4. sock.session # 0
      <4>1. ctx[job.c].rec.session = sock.session /\ ctx[job.c].rec.session \in 1..Session
        BY <2>2, <2>3 DEF Valid, Current
      <4>2. QED
        BY <4>1
    <3>5. Session' = Session /\ ~Recovering' /\ ~At("finish", "ready")'
      BY <2>1 DEF Session, Recovering, At, Idle
    <3>6. (\A c \in Ctxs : ctx[c].ready => /\ ctx[c].on /\ ctx[c].rec.stage = "none"
                                           /\ sock.session # 0 /\ sock.connected /\ ctx[c].bound >= sock.epoch)'
      <4> SUFFICES ASSUME NEW c \in Ctxs, ctx'[c].ready
                   PROVE  /\ ctx'[c].on /\ ctx'[c].rec.stage = "none"
                          /\ sock.session # 0 /\ sock.connected /\ ctx'[c].bound >= sock.epoch
        BY <2>1
      <4>1. CASE c = job.c
        BY <3>2, <3>3, <3>4, <4>1
      <4>2. CASE c # job.c
        BY <3>2, <4>2 DEF Current
      <4>3. QED
        BY <4>1, <4>2
    <3>7. (\A c \in Ctxs : ctx[c].rec.stage # "none" =>
             ctx[c].on /\ ctx[c].rec.session \in 1..Session /\ (sock.session = 0 => ctx[c].rec.session # Session))'
      BY <2>1, <3>2, <3>5 DEF Current
    <3>8. (sock.session \in {0, Session})'
      BY <2>1, <3>5 DEF Current
    <3>9. QED
      BY <3>5, <3>6, <3>7, <3>8 DEF Current
  <2>4. CASE ~Valid(job.c)
    <3>1. SetRec(job.c, NoRec) /\ job'.kind = "idle"
      BY <1>25, <2>1, <2>4 DEF FinishReady, Idle
    <3>2. QED
      BY <2>1, <2>2, <3>1, NoRecFrames, CurrentFrames
  <2>5. QED
    BY <2>3, <2>4
<1>26. ASSUME NEW c \in Ctxs, ctx[c].rec.stage = "history", UNCHANGED <<sock, faults.breaks, faults.crashes, job>>,
              SetRec(c, NoRec) \/ SetRec(c, [ctx[c].rec EXCEPT !.stage = "queued"])
       PROVE  Current'
  <2>1. ctx[c].rec \in Requests
    <3>1. ctx[c].rec # NoRec
      BY <1>26 DEF NoRec
    <3>2. QED
      BY <3>1, ShapeFacts DEF Recs
  <2> DEFINE q == [ctx[c].rec EXCEPT !.stage = "queued"]
  <2>2. q \in Recs /\ q.session = ctx[c].rec.session /\ q.epoch = ctx[c].rec.epoch /\ q.bound = ctx[c].rec.bound
    BY <2>1 DEF Recs, Requests
  <2> HIDE DEF q
  <2>3. CASE SetRec(c, NoRec)
    BY <1>26, <2>3, NoRecFrames, CurrentFrames
  <2>4. CASE SetRec(c, q)
    BY <1>26, <2>2, <2>4, SetRecFrames, CurrentFrames
  <2>5. QED
    BY <1>26, <2>3, <2>4 DEF q
<1>27. ASSUME NEW c \in Ctxs, NEW missing \in {0, 1}, HistoryAnswers(c, missing) PROVE Current'
  BY <1>26, <1>27 DEF HistoryAnswers
<1>28. ASSUME NEW c \in Ctxs, HistoryFails(c) PROVE Current'
  BY <1>26, <1>28 DEF HistoryFails, Shape
<1>29. CASE Crash
  <2>1. sock'.session = 0 /\ job' = Idle /\ \A c \in Ctxs : ~ctx'[c].ready /\ ctx'[c].rec.stage = "none"
    BY <1>29 DEF Crash, Off, NoRec
  <2>2. ~Recovering' /\ ~At("finish", "ready")'
    BY <2>1 DEF Recovering, At, Idle
  <2>3. QED
    BY <2>1, <2>2 DEF Current
<1>30. CASE UNCHANGED vars
  BY <1>30, CurrentFrames DEF vars
<1>31. QED
  BY <1>1, <1>2, <1>3, <1>4, <1>5, <1>6, <1>7, <1>8, <1>9, <1>10, <1>11, <1>12, <1>13, <1>15, <1>16,
     <1>17, <1>18, <1>19, <1>20, <1>21, <1>22, <1>23, <1>24, <1>25, <1>27, <1>28, <1>29, <1>30 DEF Next, JobStep

-----------------------------------------------------------------------------
(* Memory and database.                                                    *)

LEMMA BarsAdvance ==
  ASSUME Shape, [Next]_vars
  PROVE  NowBar' \in Nat /\ NowBar <= NowBar' /\ (UNCHANGED clock => NowBar' = NowBar)
<1>1. clock \in Nat /\ NowBar \in Nat
  BY ShapeFacts
<1>2. clock' = clock \/ clock' = clock + 1
  BY DEF Next, vars, Interrupt, Subscribed, ReceiveTrade, TimePasses, Timer, JobStep, RunMark, RunReady, RunRefresh,
         RunTrade, RunFlush, SaveBar, SelectWork, Evaluate, DecideBars, CommitBars, RunApply, CommitApply, ApplyMemory,
         RunFinish, FinishAppend, FinishWarm, FinishBoundary, FinishReady, FailBars, HistoryAnswers, HistoryFails, Crash
<1>3. CASE clock' = clock
  BY <1>1, <1>3 DEF NowBar
<1>4. CASE clock' = clock + 1
  <2>1. /\ clock \div 2 \in Nat /\ (clock + 1) \div 2 \in Nat
        /\ 2 * (clock \div 2) <= clock /\ clock + 1 < 2 * ((clock + 1) \div 2) + 2
    BY <1>1, Halves
  <2> DEFINE a == clock \div 2 b == (clock + 1) \div 2
  <2> HIDE DEF a, b
  <2>2. a \in Nat /\ b \in Nat /\ 2 * a <= clock /\ clock + 1 < 2 * b + 2
    BY <2>1 DEF a, b
  <2>3. a <= b
    BY <1>1, <2>2
  <2>4. NowBar = a /\ NowBar' = b
    BY <1>4 DEF a, b, NowBar
  <2>5. clock' # clock
    BY <1>1, <1>4
  <2>6. QED
    BY <2>2, <2>3, <2>4, <2>5
<1>5. QED
  BY <1>2, <1>3, <1>4

LEMMA CoveredIsSome ==
  ASSUME NEW h \in Hists, Covered(h)
  PROVE  h # {}
<1>1. Cardinality({}) = 0
  BY FS_EmptySet
<1>2. QED
  BY <1>1, Bounds DEF Covered

LEMMA FollowsOn ==
  ASSUME Shape, NowBar' \in Nat, NowBar <= NowBar', NEW c \in Ctxs, Follows(c), db'[c] = db[c],
         ctx'[c].hist = ctx[c].hist, ctx'[c].last = ctx[c].last,
         ctx'[c].ready => ctx[c].ready, ctx'[c].on => ctx[c].on
  PROVE  Follows(c)'
<1>1. ctx[c].hist \in Hists
  BY ShapeFacts
<1>2. Covered(ctx[c].hist)' => Covered(ctx[c].hist)
  <2> DEFINE h == ctx[c].hist
  <2>1. Covered(h)' <=> Cardinality(h) >= Required /\ LastOf(h) >= NowBar' - 1
    BY DEF Covered, LastOf
  <2>2. Covered(h) <=> Cardinality(h) >= Required /\ LastOf(h) >= NowBar - 1
    BY DEF Covered
  <2>3. LastOf(h) \in Int /\ NowBar \in Nat
    BY <1>1, LastIs, ShapeFacts, Bounds DEF Marks
  <2>4. QED
    BY <2>1, <2>2, <2>3
<1>3. QED
  BY <1>2 DEF Follows, Kept

\* A step outside the transactions and the recovery jobs that leaves the histories alone.
LEMMA StoredFrames ==
  ASSUME Shape, Stored, [Next]_vars, UNCHANGED db,
         \A c \in Ctxs : /\ ctx'[c].hist = ctx[c].hist /\ ctx'[c].last = ctx[c].last /\ ctx'[c].on = ctx[c].on
                         /\ ctx'[c].ready => ctx[c].ready,
         job' = job \/ (~InTx /\ job'.kind = "flush" /\ job'.pc \notin {"evaluate", "decide", "commit"})
                    \/ (~InTx /\ job'.kind = "idle")
  PROVE  Stored'
<1>1. NowBar' \in Nat /\ NowBar <= NowBar' /\ job \in Running
  BY BarsAdvance DEF Shape
<1>2. (\A c \in Ctxs : db[c].last = LastOf(db[c].hist))'
  BY DEF Stored, LastOf
<1>3. ASSUME NEW c \in Ctxs, ~InFlight(c)' PROVE Follows(c)'
  <2>1. ~InFlight(c)
    BY <1>3 DEF InFlight, InTx
  <2>2. Follows(c)
    BY <2>1 DEF Stored
  <2>3. QED
    BY <1>1, <2>2, FollowsOn
<1>4. TxStored'
  <2>1. CASE job' = job
    <3>1. SUFFICES ASSUME InTx
                   PROVE  \A c \in DOMAIN job.backup :
                            /\ job.backup[c].hist = db[c].hist /\ job.backup[c].last = db[c].last
                            /\ ctx'[c].on /\ ctx'[c].last = db[c].last /\ db[c].last < job.bar
                            /\ IF job.pc # "evaluate" /\ c \in job.work
                               THEN LastOf(ctx'[c].hist) = job.bar ELSE ctx'[c].hist = db[c].hist
      BY <2>1 DEF TxStored, InTx, LastOf
    <3>2. DOMAIN job.backup \subseteq Ctxs
      BY <1>1, <3>1, RunningHave, DecidingHas
    <3>3. QED
      BY <3>1, <3>2 DEF Stored, TxStored
  <2>2. CASE job' # job
    BY <2>2 DEF TxStored, InTx
  <2>3. QED
    BY <2>1, <2>2
<1>5. RecStored'
  <2>1. CASE job' = job
    <3>1. Recovering => /\ job.c \in Ctxs /\ ctx[job.c].hist \in Hists
                        /\ ctx'[job.c].hist = ctx[job.c].hist /\ ctx'[job.c].last = ctx[job.c].last
                        /\ job.pc # "ready" => job.hist \in Hists
      BY <1>1, RunningHave, ShapeFacts
    <3>2. At("apply", "commit") /\ Covered(ctx[job.c].hist)' => Covered(ctx[job.c].hist)
      <4>1. SUFFICES ASSUME At("apply", "commit"), Covered(ctx[job.c].hist)' PROVE Covered(ctx[job.c].hist)
        OBVIOUS
      <4> DEFINE h == ctx[job.c].hist
      <4>2. h \in Hists /\ h' = h
        BY <2>1, <3>1, <4>1 DEF Recovering, At
      <4>3. Cardinality(h) >= Required /\ LastOf(h) >= NowBar' - 1
        BY <4>1, <4>2 DEF Covered, LastOf
      <4>4. LastOf(h) \in Int /\ NowBar \in Nat
        BY <4>2, LastIs, ShapeFacts, Bounds DEF Marks
      <4> HIDE DEF h
      <4>5. Covered(h)
        BY <1>1, <4>3, <4>4 DEF Covered
      <4>6. QED
        BY <4>5 DEF h
    <3>3. At("finish", "append") => (Covered(job.hist)' => Covered(job.hist))
      <4>1. SUFFICES ASSUME At("finish", "append"), Covered(job.hist)' PROVE Covered(job.hist)
        OBVIOUS
      <4> DEFINE h == job.hist
      <4>2. h \in Hists /\ h' = h
        BY <2>1, <3>1, <4>1 DEF Recovering, At
      <4>3. Cardinality(h) >= Required /\ LastOf(h) >= NowBar' - 1
        BY <4>1, <4>2 DEF Covered, LastOf
      <4>4. LastOf(h) \in Int /\ NowBar \in Nat
        BY <4>2, LastIs, ShapeFacts, Bounds DEF Marks
      <4> HIDE DEF h
      <4>5. Covered(h)
        BY <1>1, <4>3, <4>4 DEF Covered
      <4>6. QED
        BY <4>5 DEF h
    <3>4. At("apply", "commit")' => (Covered(ctx[job.c].hist)' => (job.hist = ctx[job.c].hist)')
      <4>1. SUFFICES ASSUME At("apply", "commit"), Covered(ctx[job.c].hist)' PROVE (job.hist = ctx[job.c].hist)'
        BY <2>1 DEF At
      <4>2. job.hist = ctx[job.c].hist
        BY <3>2, <4>1 DEF Stored, RecStored
      <4>3. ctx'[job.c].hist = ctx[job.c].hist
        BY <3>1, <4>1 DEF At, Recovering
      <4>4. QED
        BY <2>1, <4>2, <4>3
    <3>5. At("finish", "append")' => (Covered(job.hist)' => (job.hist = db[job.c].hist)')
      BY <2>1, <3>1, <3>3 DEF Stored, RecStored, At, Recovering
    <3>6. /\ At("apply", "memory")' => (db[job.c].hist = job.hist)'
          /\ At("finish", "warm")' => (db[job.c].hist = job.hist /\ job.hist # {})'
          /\ At("finish", "boundary")' => (Kept(job.c) /\ ctx[job.c].hist # {})'
          /\ At("finish", "ready")' => Kept(job.c)'
      BY <2>1, <3>1 DEF Stored, RecStored, At, Recovering, Kept
    <3>7. QED
      BY <3>4, <3>5, <3>6 DEF RecStored
  <2>2. CASE job' # job
    BY <2>2 DEF RecStored, At
  <2>3. QED
    BY <2>1, <2>2
<1>6. QED
  BY <1>2, <1>3, <1>4, <1>5 DEF Stored

\* A step about one strategy's recovery: the others follow as before.
LEMMA StoredAlone ==
  ASSUME Shape, Stored, [Next]_vars, NEW c \in Ctxs, ~InTx, ~InTx',
         \A d \in Ctxs \ {c} : db'[d] = db[d] /\ ctx'[d] = ctx[d],
         (db[c].last = LastOf(db[c].hist))', Follows(c)', RecStored'
  PROVE  Stored'
<1>1. NowBar' \in Nat /\ NowBar <= NowBar'
  BY BarsAdvance
<1>2. \A d \in Ctxs : (db[d].last = LastOf(db[d].hist))'
  BY DEF Stored, LastOf
<1>3. ASSUME NEW d \in Ctxs PROVE Follows(d)'
  <2>1. CASE d = c
    BY <2>1
  <2>2. CASE d # c
    <3>1. Follows(d)
      BY DEF Stored, InFlight
    <3>2. QED
      BY <1>1, <2>2, <3>1, FollowsOn
  <2>3. QED
    BY <2>1, <2>2
<1>4. QED
  BY <1>2, <1>3 DEF Stored, TxStored

LEMMA StoredStep ==
  ASSUME Shape, Timely, Current, Stored, [Next]_vars
  PROVE  Stored'
<1>0. /\ NowBar \in Nat /\ NowBar' \in Nat /\ NowBar <= NowBar' /\ job \in Running /\ queue \in Seq(Jobs)
      /\ \A c \in Ctxs : /\ ctx[c] \in Contexts /\ ctx[c].hist \in Hists /\ db[c] \in StoredRow
                         /\ db[c].last = LastOf(db[c].hist)
  BY BarsAdvance, ShapeFacts DEF Shape, Stored
<1>1. CASE Interrupt
  <2>1. \A c \in Ctxs : /\ ctx'[c].hist = ctx[c].hist /\ ctx'[c].last = ctx[c].last /\ ctx'[c].on = ctx[c].on
                        /\ ~ctx'[c].ready
    BY <1>0, <1>1 DEF Interrupt, Contexts
  <2>2. UNCHANGED <<db, job>>
    BY <1>1 DEF Interrupt
  <2>3. QED
    BY <2>1, <2>2, StoredFrames
<1>2. CASE Subscribed
  BY <1>2, StoredFrames DEF Subscribed
<1>3. CASE ReceiveTrade
  BY <1>3, StoredFrames DEF ReceiveTrade
<1>4. CASE TimePasses
  BY <1>4, StoredFrames DEF TimePasses
<1>5. ASSUME NEW k \in {"flush", "refresh"}, Timer(k) PROVE Stored'
  BY <1>5, StoredFrames DEF Timer
<1>6. CASE RunMark
  <2>1. \A c \in Ctxs : /\ ctx'[c].hist = ctx[c].hist /\ ctx'[c].last = ctx[c].last /\ ctx'[c].on = ctx[c].on
                        /\ ~ctx'[c].ready
    BY <1>0, <1>6 DEF RunMark, Unready, Contexts
  <2>2. UNCHANGED <<db, job>>
    BY <1>6 DEF RunMark
  <2>3. QED
    BY <2>1, <2>2, StoredFrames
<1>7. CASE RunReady
  <2>1. \A c \in Ctxs : /\ ctx'[c].hist = ctx[c].hist /\ ctx'[c].last = ctx[c].last /\ ctx'[c].on = ctx[c].on
                        /\ ~ctx'[c].ready
    BY <1>0, <1>7 DEF RunReady, Unready, Contexts
  <2>2. UNCHANGED <<db, job>>
    BY <1>7 DEF RunReady
  <2>3. QED
    BY <2>1, <2>2, StoredFrames
<1>8. CASE RunRefresh
  <2>1. job = Idle /\ job' = Idle /\ UNCHANGED <<clock, db>> /\ NowBar' = NowBar
    BY <1>8 DEF RunRefresh, Take, NowBar
  <2>2. \A c \in Ctxs : ~InFlight(c) /\ Follows(c)
    BY <2>1 DEF Stored, InFlight, InTx, Idle
  <2>3. ASSUME NEW c \in Ctxs PROVE Follows(c)'
    <3> DEFINE x == Refreshed(c)
    <3>1. /\ x \in Contexts
          /\ ctx[c].on => x.hist = ctx[c].hist /\ x.last = db[c].last /\ x.ready = ctx[c].ready
          /\ ~ctx[c].on => x.hist = db[c].hist /\ x.last = db[c].last
      BY <1>0, RefreshedIs DEF Refreshed, Contexts, Off
    <3>2. ctx'[c] = Launched(x)
      BY <1>8 DEF RunRefresh
    <3> HIDE DEF x
    <3>3. ctx'[c] = x \/ \E q \in Requests : ctx'[c] = [x EXCEPT !.rec = q]
      BY <3>1, <3>2, LaunchedIs
    <3>4. ctx'[c].hist = x.hist /\ ctx'[c].last = x.last /\ ctx'[c].ready = x.ready
      BY <3>1, <3>3 DEF Contexts
    <3>5. CASE ctx[c].on
      <4>1. Covered(ctx[c].hist)' => Covered(ctx[c].hist)
        BY <2>1, <3>1, <3>4, <3>5 DEF Covered, LastOf
      <4>2. QED
        BY <2>1, <2>2, <3>1, <3>4, <3>5, <4>1 DEF Follows, Kept
    <3>6. CASE ~ctx[c].on
      BY <2>1, <3>1, <3>4, <3>6 DEF Follows, Kept
    <3>7. QED
      BY <3>5, <3>6
  <2>4. (\A c \in Ctxs : db[c].last = LastOf(db[c].hist))'
    BY <1>0, <2>1 DEF LastOf
  <2>5. TxStored' /\ RecStored'
    BY <2>1 DEF TxStored, RecStored, InTx, At, Idle
  <2>6. QED
    BY <2>3, <2>4, <2>5 DEF Stored
<1>9. CASE RunTrade
  <2>1. UNCHANGED <<ctx, db>> /\ job = Idle
    BY <1>9 DEF RunTrade, Take
  <2>2. job' = job \/ (job'.kind = "flush" /\ job'.pc = "next")
    BY <1>9 DEF RunTrade
  <2>3. ~InTx
    BY <2>1 DEF InTx, Idle
  <2>4. QED
    BY <2>1, <2>2, <2>3, StoredFrames
<1>10. CASE RunFlush
  <2>1. UNCHANGED <<ctx, db>> /\ job = Idle /\ job'.kind = "flush" /\ job'.pc = "next"
    BY <1>10 DEF RunFlush, Take
  <2>2. ~InTx
    BY <2>1 DEF InTx, Idle
  <2>3. QED
    BY <2>1, <2>2, StoredFrames
<1>11. CASE SaveBar
  <2>1. UNCHANGED <<ctx, db>> /\ ~InTx
    BY <1>11 DEF SaveBar, InTx, At
  <2>2. job'.kind = "idle" \/ (job'.kind = "flush" /\ job'.pc = "work")
    BY <1>11 DEF SaveBar, Done, Idle
  <2>3. QED
    BY <2>1, <2>2, StoredFrames
<1>12. CASE SelectWork
  <2> DEFINE work == {c \in Ctxs : Work(c, job.bar)}
             saved == [c \in work |-> [hist |-> ctx[c].hist, last |-> ctx[c].last, bound |-> ctx[c].bound]]
  <2>1. UNCHANGED <<ctx, db>> /\ ~InTx
    BY <1>12 DEF SelectWork, InTx, At
  <2>2. CASE work = {}
    <3>1. job'.kind = "flush" /\ job'.pc = "next"
      BY <1>12, <2>2 DEF SelectWork
    <3>2. QED
      BY <2>1, <3>1, StoredFrames
  <2>3. CASE work # {}
    <3>1. job' = [kind |-> "flush", pc |-> "evaluate", upTo |-> job.upTo, bar |-> job.bar, work |-> work, backup |-> saved]
          /\ UNCHANGED clock
      BY <1>12, <2>3 DEF SelectWork
    <3>2. /\ DOMAIN saved = work
          /\ \A c \in work : /\ saved[c].hist = ctx[c].hist /\ saved[c].last = ctx[c].last
                             /\ c \in Ctxs /\ ctx[c].on /\ ctx[c].ready /\ job.bar > LastOf(ctx[c].hist)
      BY DEF Work
    <3>3. \A c \in Ctxs : ~InFlight(c) /\ Follows(c)
      BY <2>1 DEF Stored, InFlight
    <3>4. \A c \in work : Kept(c) /\ db[c].last < job.bar
      <4> TAKE c \in work
      <4>1. Kept(c) /\ db[c].last = LastOf(ctx[c].hist)
        BY <1>0, <3>2, <3>3 DEF Follows, Kept
      <4>2. LastOf(ctx[c].hist) \in Int /\ job.bar \in Int
        <5>1. job \in Saved
          BY <1>0, <1>12, RunningHave DEF SelectWork
        <5>2. QED
          BY <1>0, <3>2, <5>1, LastIs, Bounds DEF Marks, Saved, Bars
      <4>3. QED
        BY <3>2, <4>1, <4>2
    <3>5. job'.pc = "evaluate" /\ job'.backup = saved /\ job'.bar = job.bar /\ job'.kind = "flush"
      BY <3>1
    <3> HIDE DEF work, saved
    <3>6. TxStored'
      BY <2>1, <3>2, <3>4, <3>5 DEF TxStored, Kept
    <3>7. RecStored'
      BY <3>5 DEF RecStored, At
    <3>8. \A c \in Ctxs : Follows(c)'
      <4> TAKE c \in Ctxs
      <4>1. Follows(c)
        BY <3>3
      <4>2. QED
        BY <1>0, <2>1, <4>1, FollowsOn
    <3>9. QED
      BY <1>0, <2>1, <3>6, <3>7, <3>8 DEF Stored, LastOf
  <2>4. QED
    BY <2>2, <2>3
<1>13. CASE Evaluate
  <2> DEFINE live == IF sock.connected THEN {c \in job.work : db[c].last < job.bar} ELSE {}
  <2>1. job \in Deciding /\ InTx /\ UNCHANGED <<db, clock>>
    BY <1>0, <1>13, RunningHave DEF Evaluate, At, InTx
  <2>2. /\ job' = [job EXCEPT !.pc = "decide", !.work = live] /\ live \subseteq job.work
        /\ ctx' = [c \in Ctxs |-> IF c \in live THEN [ctx[c] EXCEPT !.hist = Rereads(c) \cup {<<job.bar, "real">>}] ELSE ctx[c]]
    BY <1>13 DEF Evaluate
  <2>3. job.work \subseteq DOMAIN job.backup /\ DOMAIN job.backup \subseteq Ctxs /\ job.bar \in Bars
    BY <2>1, DecidingHas DEF Timely, JobTimely
  <2>4. \A c \in DOMAIN job.backup : /\ job.backup[c].hist = db[c].hist /\ job.backup[c].last = db[c].last
                                     /\ ctx[c].on /\ ctx[c].last = db[c].last /\ db[c].last < job.bar
                                     /\ ctx[c].hist = db[c].hist
    BY <1>13, <2>1 DEF Evaluate, At, Stored, TxStored
  <2> HIDE DEF live
  <2>5. /\ job'.kind = "flush" /\ job'.pc = "decide" /\ job'.bar = job.bar /\ job'.work = live /\ job'.backup = job.backup
    BY <2>1, <2>2 DEF Deciding
  <2>6. ASSUME NEW c \in live PROVE LastOf(ctx'[c].hist) = job.bar
    <3>1. c \in Ctxs /\ db[c].hist \in Hists /\ db[c].last = LastOf(db[c].hist) /\ ctx[c].hist = db[c].hist
      BY <1>0, <2>2, <2>3, <2>4, ShapeFacts
    <3>2. Rereads(c) = db[c].hist
      BY <3>1 DEF Rereads
    <3>3. ctx'[c].hist = db[c].hist \cup {<<job.bar, "real">>}
      BY <1>0, <2>2, <3>1, <3>2 DEF Contexts
    <3>4. {<<job.bar, "real">>} = Rows({job.bar})
      BY DEF Rows
    <3>5. {job.bar} \in SUBSET Bars /\ {job.bar} # {} /\ \A b \in {job.bar} : b > LastOf(db[c].hist)
      <4>1. db[c].last < job.bar /\ db[c].last \in Int /\ job.bar \in Int
        BY <2>2, <2>3, <2>4, <3>1, LastIs, Bounds DEF Marks, Bars
      <4>2. QED
        BY <2>3, <3>1, <4>1
    <3> DEFINE S == {job.bar}
    <3> HIDE DEF S
    <3>6. Max(S) \in S /\ LastOf(db[c].hist \cup Rows(S)) = Max(S)
      BY <3>1, <3>5, LastGrows DEF S
    <3>7. QED
      BY <3>3, <3>4, <3>6 DEF S
  <2>7. \A c \in Ctxs : /\ ctx'[c].on = ctx[c].on /\ ctx'[c].last = ctx[c].last /\ ctx'[c].ready = ctx[c].ready
                        /\ c \notin live => ctx'[c] = ctx[c]
    BY <1>0, <2>2 DEF Contexts
  <2>8. TxStored'
    <3>1. SUFFICES ASSUME NEW c \in DOMAIN job.backup
                   PROVE  /\ job.backup[c].hist = db[c].hist /\ job.backup[c].last = db[c].last
                          /\ ctx'[c].on /\ ctx'[c].last = db[c].last /\ db[c].last < job.bar
                          /\ IF c \in live THEN LastOf(ctx'[c].hist) = job.bar ELSE ctx'[c].hist = db[c].hist
      BY <2>1, <2>5 DEF TxStored, LastOf
    <3>2. QED
      BY <2>3, <2>4, <2>6, <2>7
  <2>9. ASSUME NEW c \in Ctxs, ~InFlight(c)' PROVE Follows(c)'
    <3>1. c \notin DOMAIN job.backup /\ ~InFlight(c)
      BY <2>1, <2>5, <2>9 DEF InFlight, InTx
    <3>2. c \notin live
      BY <2>2, <2>3, <3>1
    <3>3. Follows(c)
      BY <3>1 DEF Stored
    <3>4. QED
      BY <1>0, <2>1, <2>7, <3>2, <3>3, FollowsOn
  <2>10. RecStored'
    BY <2>5 DEF RecStored, At
  <2>11. QED
    BY <1>0, <2>1, <2>8, <2>9, <2>10 DEF Stored, LastOf
<1>14. ASSUME Rollback, job \in Deciding, InTx PROVE Stored'
  <2>1. UNCHANGED db /\ job' = Idle
    BY <1>14 DEF Rollback, Done
  <2>2. ASSUME NEW c \in Ctxs, c \in DOMAIN job.backup PROVE Follows(c)'
    <3>1. ctx[c].on /\ job.backup[c].hist = db[c].hist /\ job.backup[c].last = db[c].last
      BY <1>14, <2>2 DEF Stored, TxStored
    <3>2. ctx'[c].hist = db[c].hist /\ ctx'[c].last = db[c].last
      BY <1>0, <1>14, <2>2, <3>1 DEF Rollback, RestoredCtx, Contexts
    <3>3. QED
      BY <2>1, <3>2 DEF Follows, Kept
  <2>3. ASSUME NEW c \in Ctxs, c \notin DOMAIN job.backup PROVE Follows(c)'
    <3>1. Follows(c)
      BY <2>3 DEF Stored, InFlight
    <3>2. ctx'[c] = ctx[c]
      BY <1>14, <2>3 DEF Rollback
    <3>3. QED
      BY <1>0, <2>1, <3>1, <3>2, FollowsOn
  <2>4. TxStored' /\ RecStored'
    BY <2>1 DEF TxStored, RecStored, InTx, At, Idle
  <2>5. QED
    BY <1>0, <2>1, <2>2, <2>3, <2>4 DEF Stored, LastOf
<1>15. CASE DecideBars
  <2>1. job \in Deciding /\ InTx
    BY <1>0, <1>15, RunningHave DEF DecideBars, At, InTx
  <2>2. CASE Rollback
    BY <1>14, <2>1, <2>2
  <2>3. CASE job' = [job EXCEPT !.pc = "commit"] /\ UNCHANGED <<ctx, closed, db, decided>>
    <3>1. /\ job'.kind = "flush" /\ job'.pc = "commit" /\ job'.bar = job.bar /\ job'.work = job.work
          /\ job'.backup = job.backup
      BY <2>1, <2>3 DEF Deciding
    <3>2. job.pc = "decide"
      BY <1>15 DEF DecideBars, At
    <3>3. TxStored'
      <4>1. SUFFICES ASSUME NEW c \in DOMAIN job.backup
                     PROVE  /\ job.backup[c].hist = db[c].hist /\ job.backup[c].last = db[c].last
                            /\ ctx[c].on /\ ctx[c].last = db[c].last /\ db[c].last < job.bar
                            /\ IF c \in job.work THEN LastOf(ctx[c].hist) = job.bar ELSE ctx[c].hist = db[c].hist
        BY <2>3, <3>1 DEF TxStored, LastOf
      <4>2. QED
        BY <2>1, <3>2 DEF Stored, TxStored
    <3>4. ASSUME NEW c \in Ctxs, ~InFlight(c)' PROVE Follows(c)'
      <4>1. ~InFlight(c)
        BY <2>1, <3>1, <3>4 DEF InFlight, InTx
      <4>2. Follows(c)
        BY <4>1 DEF Stored
      <4>3. QED
        BY <1>0, <2>3, <4>2, FollowsOn
    <3>5. RecStored'
      BY <3>1 DEF RecStored, At
    <3>6. QED
      BY <1>0, <2>3, <3>3, <3>4, <3>5 DEF Stored, LastOf
  <2>4. QED
    BY <1>15, <2>2, <2>3 DEF DecideBars
<1>16. CASE FailBars
  <2>1. job \in Deciding /\ InTx /\ Rollback
    BY <1>0, <1>16, RunningHave DEF FailBars, At, InTx
  <2>2. QED
    BY <1>14, <2>1
<1>17. CASE CommitBars
  <2>1. job \in Deciding /\ InTx /\ job.pc = "commit"
    BY <1>0, <1>17, RunningHave DEF CommitBars, At, InTx
  <2>2. /\ db' = [c \in Ctxs |-> IF c \in job.work THEN [hist |-> ctx[c].hist, last |-> job.bar] ELSE db[c]]
        /\ ctx' = [c \in Ctxs |-> IF c \in job.work THEN [ctx[c] EXCEPT !.last = job.bar] ELSE ctx[c]]
        /\ job'.kind = "flush" /\ job'.pc = "next"
    BY <1>17 DEF CommitBars
  <2>3. job.work \subseteq DOMAIN job.backup /\ DOMAIN job.backup \subseteq Ctxs
    BY <2>1, DecidingHas DEF Timely, JobTimely
  <2>4. ASSUME NEW c \in Ctxs, c \in job.work PROVE Follows(c)' /\ (db[c].last = LastOf(db[c].hist))'
    <3>1. LastOf(ctx[c].hist) = job.bar
      BY <2>1, <2>3, <2>4 DEF Stored, TxStored
    <3>2. db'[c].hist = ctx[c].hist /\ db'[c].last = job.bar /\ ctx'[c].hist = ctx[c].hist /\ ctx'[c].last = job.bar
      BY <1>0, <2>2, <2>4 DEF Contexts
    <3>3. QED
      BY <3>1, <3>2 DEF Follows, Kept, LastOf
  <2>5. ASSUME NEW c \in Ctxs, c \in DOMAIN job.backup, c \notin job.work PROVE Follows(c)' /\ (db[c].last = LastOf(db[c].hist))'
    <3>1. ctx[c].hist = db[c].hist /\ ctx[c].last = db[c].last
      BY <2>1, <2>5 DEF Stored, TxStored
    <3>2. db'[c] = db[c] /\ ctx'[c] = ctx[c]
      BY <2>2, <2>5
    <3>3. QED
      BY <1>0, <3>1, <3>2 DEF Follows, Kept, LastOf
  <2>6. ASSUME NEW c \in Ctxs, c \notin DOMAIN job.backup PROVE Follows(c)' /\ (db[c].last = LastOf(db[c].hist))'
    <3>1. Follows(c)
      BY <2>6 DEF Stored, InFlight
    <3>2. db'[c] = db[c] /\ ctx'[c] = ctx[c]
      BY <2>2, <2>3, <2>6
    <3>3. QED
      BY <1>0, <3>1, <3>2, FollowsOn DEF LastOf
  <2>7. TxStored' /\ RecStored'
    BY <2>2 DEF TxStored, RecStored, InTx, At
  <2>8. QED
    BY <2>4, <2>5, <2>6, <2>7 DEF Stored
<1>18. ASSUME NEW c \in Ctxs, SetRec(c, NoRec), UNCHANGED db, ~InTx, job' = job \/ job' = Idle PROVE Stored'
  <2>1. \A d \in Ctxs : /\ ctx'[d].ready = ctx[d].ready /\ ctx'[d].on = ctx[d].on
                        /\ ctx'[d].hist = ctx[d].hist /\ ctx'[d].last = ctx[d].last
    BY <1>18, NoRecFrames
  <2>2. job' = job \/ job'.kind = "idle"
    BY <1>18 DEF Idle
  <2>3. QED
    BY <1>18, <2>1, <2>2, StoredFrames
<1>19. CASE RunApply
  <2>1. /\ Head(queue) \in Waiting /\ Head(queue) \in Jobs /\ Head(queue).kind = "apply" /\ job = Idle
        /\ UNCHANGED <<clock, db>> /\ ~InTx
    BY <1>0, <1>19, TakeRemoves DEF RunApply, InTx, Idle
  <2>2. Head(queue).c \in Ctxs /\ Head(queue).rows \in SUBSET Bars /\ \A b \in Head(queue).rows : b < NowBar
    BY <2>1, JobsHave DEF Timely, QueueTimely
  <2>3. PICK c \in Ctxs : c = Head(queue).c
    BY <2>2
  <2>4. PICK rows \in SUBSET Bars : rows = Head(queue).rows
    BY <2>2
  <2>5. CASE Valid(c)
    <3>1. job' = [kind |-> "apply", pc |-> "commit", c |-> c, rows |-> rows, hist |-> Applied(ctx[c].hist, rows)] /\ ctx' = ctx
      BY <1>19, <2>3, <2>4, <2>5 DEF RunApply
    <3>2. ctx[c].hist \in Hists /\ \A x \in ctx[c].hist : x[1] < NowBar
      BY ShapeFacts DEF Timely, CtxTimely, Past
    <3>3. LastOf(ctx[c].hist) >= NowBar - 1 => Applied(ctx[c].hist, rows) = ctx[c].hist
      BY <1>0, <2>2, <2>4, <3>2, AppliedIs
    <3>4. job'.kind = "apply" /\ job'.pc = "commit" /\ job'.c = c /\ job'.hist = Applied(ctx[c].hist, rows)
      BY <3>1
    <3>5. RecStored'
      <4>1. Covered(ctx[c].hist)' => Applied(ctx[c].hist, rows) = ctx[c].hist
        BY <2>1, <3>1, <3>3 DEF Covered, LastOf, NowBar
      <4>2. SUFFICES ASSUME Covered(ctx[job.c].hist)' PROVE job'.hist = ctx'[c].hist
        BY <3>4 DEF RecStored, At
      <4>3. Covered(ctx[c].hist)'
        BY <3>4, <4>2 DEF Covered, LastOf
      <4>4. QED
        BY <3>1, <3>4, <4>1, <4>3
    <3>6. Follows(c)'
      <4>1. Follows(c)
        BY <2>1 DEF Stored, InFlight
      <4>2. QED
        BY <1>0, <2>1, <3>1, <4>1, FollowsOn
    <3>7. (db[c].last = LastOf(db[c].hist))'
      BY <1>0, <2>1 DEF LastOf
    <3>8. ~InTx'
      BY <3>4 DEF InTx
    <3>9. QED
      BY <2>1, <3>1, <3>5, <3>6, <3>7, <3>8, StoredAlone
  <2>6. CASE ~Valid(c)
    <3>1. job' = job /\ SetRec(c, NoRec)
      BY <1>19, <2>3, <2>6 DEF RunApply
    <3>2. QED
      BY <1>18, <2>1, <3>1
  <2>7. QED
    BY <2>5, <2>6
<1>20. CASE CommitApply
  <2>1. job \in Applying /\ UNCHANGED <<clock, ctx>> /\ Recovering /\ ~InTx
    BY <1>0, <1>20, RunningHave DEF CommitApply, Recovering, At, InTx
  <2>2. PICK c \in Ctxs : c = job.c
    BY <2>1 DEF Applying
  <2>3. PICK h \in Hists : h = job.hist
    BY <2>1 DEF Applying
  <2>4. /\ db' = [db EXCEPT ![c] = [hist |-> h, last |-> LastOf(h)]]
        /\ job' = [job EXCEPT !.pc = "memory"]
    BY <1>20, <2>2, <2>3 DEF CommitApply
  <2>5. /\ job'.kind = "apply" /\ job'.pc = "memory" /\ job'.c = c /\ job'.hist = h
        /\ db'[c].hist = h /\ db'[c].last = LastOf(h) /\ \A d \in Ctxs \ {c} : db'[d] = db[d]
    BY <2>1, <2>2, <2>3, <2>4 DEF Applying, Shape
  <2>6. ~ctx[c].ready
    BY <2>1, <2>2 DEF Current
  <2>7. Follows(c)'
    <3>1. Covered(ctx[c].hist)' => Covered(ctx[c].hist)
      BY <2>1 DEF Covered, LastOf, NowBar
    <3>2. Covered(ctx[c].hist) => h = ctx[c].hist
      BY <1>20, <2>2, <2>3 DEF CommitApply, Stored, RecStored
    <3>3. QED
      BY <2>1, <2>5, <2>6, <3>1, <3>2 DEF Follows
  <2>8. RecStored'
    BY <2>5 DEF RecStored, At
  <2>9. (db[c].last = LastOf(db[c].hist))' /\ ~InTx'
    BY <2>5 DEF LastOf, InTx
  <2>10. QED
    BY <2>1, <2>5, <2>7, <2>8, <2>9, StoredAlone
<1>21. CASE ApplyMemory
  <2>1. job \in Applying /\ UNCHANGED <<clock, db>> /\ Recovering /\ ~InTx /\ job' = Idle
    BY <1>0, <1>21, RunningHave DEF ApplyMemory, Recovering, At, InTx, Done
  <2>2. PICK c \in Ctxs : c = job.c
    BY <2>1 DEF Applying
  <2>3. job.hist = db[c].hist
    BY <1>21, <2>2 DEF ApplyMemory, Stored, RecStored
  <2>4. CASE Valid(c)
    <3>1. ctx' = [ctx EXCEPT ![c] = Adopt(c, job.hist)]
      BY <1>21, <2>2, <2>4 DEF ApplyMemory
    <3>2. ctx'[c] = Adopt(c, job.hist) /\ \A d \in Ctxs \ {c} : ctx'[d] = ctx[d]
      BY <3>1 DEF Shape
    <3>3. ctx'[c].hist = db[c].hist /\ ctx'[c].last = LastOf(db[c].hist)
      BY <1>0, <2>3, <3>2 DEF Adopt, Contexts
    <3>4. Follows(c)'
      BY <1>0, <2>1, <3>3 DEF Follows, Kept
    <3>5. RecStored' /\ ~InTx' /\ (db[c].last = LastOf(db[c].hist))'
      BY <1>0, <2>1 DEF RecStored, At, InTx, Idle, LastOf
    <3>6. QED
      BY <2>1, <3>2, <3>4, <3>5, StoredAlone
  <2>5. CASE ~Valid(c)
    <3>1. SetRec(c, NoRec)
      BY <1>21, <2>2, <2>5 DEF ApplyMemory
    <3>2. QED
      BY <1>18, <2>1, <3>1
  <2>6. QED
    BY <2>4, <2>5
<1>22. CASE RunFinish
  <2>1. Head(queue) \in Jobs /\ Head(queue).kind = "finish" /\ job = Idle /\ UNCHANGED clock /\ ~InTx
    BY <1>0, <1>22, TakeRemoves DEF RunFinish, InTx, Idle
  <2>2. Head(queue).c \in Ctxs
    BY <2>1, JobsHave
  <2>3. PICK c \in Ctxs : c = Head(queue).c
    BY <2>2
  <2>4. Appended(ctx[c]) \in SUBSET Bars /\ \A b \in Appended(ctx[c]) : b > LastOf(ctx[c].hist) /\ b < NowBar
    BY <1>0, AppendedIs
  <2>5. PICK new \in SUBSET Bars : new = Appended(ctx[c])
    BY <2>4
  <2>6. PICK g \in Hists : g = ctx[c].hist \cup Rows(new)
    BY <1>0, RowsAreHists, HistsJoin
  <2>7. CASE Valid(c)
    <3>1. /\ job' = [kind |-> "finish", pc |-> "append", c |-> c, hist |-> g]
          /\ db' = IF new = {} THEN db ELSE [db EXCEPT ![c] = [hist |-> g, last |-> Max(new)]]
          /\ ctx' = ctx
      BY <1>22, <2>3, <2>5, <2>6, <2>7 DEF RunFinish
    <3>2. job'.kind = "finish" /\ job'.pc = "append" /\ job'.c = c /\ job'.hist = g
      BY <3>1
    <3>3. ctx[c].on /\ ~ctx[c].ready
      BY <2>7 DEF Valid, Current
    <3>4. Follows(c)
      BY <2>1 DEF Stored, InFlight
    <3>5. LastOf(ctx[c].hist) \in Int /\ NowBar' = NowBar
      BY <1>0, <2>1, LastIs, Bounds DEF Marks, NowBar
    <3>6. CASE new = {}
      <4>1. g = ctx[c].hist /\ db' = db
        BY <2>6, <3>1, <3>6 DEF Rows
      <4>2. Covered(g)' => g = db[c].hist
        BY <3>1, <3>3, <3>4, <3>5, <4>1 DEF Covered, LastOf, Follows
      <4>3. RecStored'
        <5>1. SUFFICES ASSUME Covered(job.hist)' PROVE job'.hist = db'[c].hist
          BY <3>2 DEF RecStored, At
        <5>2. Covered(g)'
          BY <3>2, <5>1 DEF Covered, LastOf
        <5>3. QED
          BY <3>2, <4>1, <4>2, <5>2
      <4>4. Follows(c)'
        BY <1>0, <3>1, <3>4, <4>1, FollowsOn
      <4>5. (db[c].last = LastOf(db[c].hist))' /\ ~InTx'
        BY <1>0, <3>2, <4>1 DEF LastOf, InTx
      <4>6. QED
        BY <2>1, <3>1, <4>1, <4>3, <4>4, <4>5, StoredAlone
    <3>7. CASE new # {}
      <4>1. /\ db'[c].hist = g /\ db'[c].last = Max(new) /\ \A d \in Ctxs \ {c} : db'[d] = db[d]
        BY <3>1, <3>7 DEF Shape
      <4>2. LastOf(g) = Max(new) /\ Max(new) \in new
        BY <1>0, <2>4, <2>5, <2>6, <3>7, LastGrows
      <4>3. ~Covered(ctx[c].hist)
        <5>1. Max(new) \in Int /\ Max(new) > LastOf(ctx[c].hist) /\ Max(new) < NowBar
          BY <2>4, <2>5, <4>2, Bounds DEF Bars
        <5>2. QED
          BY <1>0, <3>5, <5>1 DEF Covered
      <4>4. Follows(c)'
        <5>1. Covered(ctx[c].hist)' => Covered(ctx[c].hist)
          BY <3>1, <3>5 DEF Covered, LastOf
        <5>2. QED
          BY <3>1, <3>3, <4>3, <5>1 DEF Follows
      <4>5. RecStored'
        BY <3>2, <4>1 DEF RecStored, At
      <4>6. (db[c].last = LastOf(db[c].hist))' /\ ~InTx'
        BY <3>2, <4>1, <4>2 DEF LastOf, InTx
      <4>7. QED
        BY <2>1, <3>1, <4>1, <4>4, <4>5, <4>6, StoredAlone
    <3>8. QED
      BY <3>6, <3>7
  <2>8. CASE ~Valid(c)
    <3>1. job' = job /\ SetRec(c, NoRec) /\ db' = db
      BY <1>22, <2>3, <2>8 DEF RunFinish
    <3>2. QED
      BY <1>18, <2>1, <3>1
  <2>9. QED
    BY <2>7, <2>8
<1>23. CASE FinishAppend
  <2>1. job \in Finishing /\ Recovering /\ ~InTx /\ UNCHANGED clock
    BY <1>0, <1>23, RunningHave DEF FinishAppend, Recovering, At, InTx
  <2>2. PICK c \in Ctxs : c = job.c
    BY <2>1 DEF Finishing
  <2>3. PICK h \in Hists : h = job.hist
    BY <2>1 DEF Finishing
  <2>4. LastOf(h) \in Marks /\ ~ctx[c].ready /\ NowBar' = NowBar /\ \A g \in Hists : Covered(g)' <=> Covered(g)
    BY <2>1, <2>2, LastIs DEF Current, Covered, LastOf, NowBar
  <2>5. Covered(h) => h = db[c].hist
    BY <1>23, <2>2, <2>3 DEF FinishAppend, Stored, RecStored
  <2>6. CASE ~Valid(c)
    <3>1. SetRec(c, NoRec) /\ db' = db /\ job' = Idle
      BY <1>23, <2>2, <2>6 DEF FinishAppend, Done
    <3>2. QED
      BY <1>18, <2>1, <3>1
  <2>7. CASE Valid(c) /\ Covered(h)
    <3>1. /\ ctx' = [ctx EXCEPT ![c].hist = h, ![c].last = LastOf(h)]
          /\ job' = [job EXCEPT !.pc = "boundary"] /\ db' = db
      BY <1>23, <2>2, <2>3, <2>7 DEF FinishAppend
    <3>2. ctx'[c] = [ctx[c] EXCEPT !.hist = h, !.last = LastOf(h)] /\ \A d \in Ctxs \ {c} : ctx'[d] = ctx[d]
      BY <3>1 DEF Shape
    <3>3. job'.kind = "finish" /\ job'.pc = "boundary" /\ job'.c = c
      BY <2>1, <2>2, <3>1 DEF Finishing
    <3>4. ctx'[c].hist = h /\ ctx'[c].last = LastOf(h)
      BY <1>0, <3>2 DEF Contexts
    <3>5. h # {} /\ h = db[c].hist
      BY <2>5, <2>7, CoveredIsSome
    <3>6. Kept(c)' /\ Follows(c)'
      BY <1>0, <3>1, <3>4, <3>5 DEF Kept, Follows
    <3>7. RecStored' /\ ~InTx' /\ (db[c].last = LastOf(db[c].hist))'
      BY <1>0, <3>1, <3>3, <3>4, <3>5, <3>6 DEF RecStored, Kept, At, InTx, LastOf
    <3>8. QED
      BY <2>1, <3>1, <3>2, <3>6, <3>7, StoredAlone
  <2>8. PICK warm \in SUBSET Bars : warm = Warm([ctx[c] EXCEPT !.hist = h])
    BY WarmIs
  <2>9. CASE Valid(c) /\ ~Covered(h) /\ warm # {}
    <3>1. Rows(warm) \in Hists /\ Rows(warm) # {} /\ LastOf(Rows(warm)) = Max(warm)
      BY <2>9, RowsAre
    <3>2. PICK g \in Hists : g = Rows(warm)
      BY <3>1
    <3>3. /\ ctx' = [ctx EXCEPT ![c].hist = h, ![c].last = LastOf(h)]
          /\ job' = [job EXCEPT !.pc = "warm", !.hist = g]
          /\ db' = [db EXCEPT ![c] = [hist |-> g, last |-> Max(warm)]]
      BY <1>23, <2>2, <2>3, <2>8, <2>9, <3>2 DEF FinishAppend
    <3>4. ctx'[c] = [ctx[c] EXCEPT !.hist = h, !.last = LastOf(h)] /\ \A d \in Ctxs \ {c} : ctx'[d] = ctx[d]
      BY <3>3 DEF Shape
    <3>5. db'[c].hist = g /\ db'[c].last = Max(warm) /\ \A d \in Ctxs \ {c} : db'[d] = db[d]
      BY <3>3 DEF Shape
    <3>6. job'.kind = "finish" /\ job'.pc = "warm" /\ job'.c = c /\ job'.hist = g
      BY <2>1, <2>2, <3>3 DEF Finishing
    <3>7. ctx'[c].hist = h /\ ctx'[c].ready = ctx[c].ready
      BY <1>0, <3>4 DEF Contexts
    <3>8. Follows(c)'
      <4>1. Covered(ctx[c].hist)' => Covered(h)
        BY <2>4, <3>7 DEF Covered, LastOf
      <4>2. QED
        BY <2>4, <2>9, <3>7, <4>1 DEF Follows
    <3>9. RecStored' /\ ~InTx' /\ (db[c].last = LastOf(db[c].hist))'
      BY <3>1, <3>2, <3>5, <3>6 DEF RecStored, At, InTx, LastOf
    <3>10. QED
      BY <2>1, <3>4, <3>5, <3>8, <3>9, StoredAlone
  <2>10. CASE Valid(c) /\ ~Covered(h) /\ warm = {}
    <3>1. /\ ctx' = [ctx EXCEPT ![c] = [Adopt(c, h) EXCEPT !.ready = FALSE, !.rec = NoRec]]
          /\ job' = Idle /\ db' = db
      BY <1>23, <2>2, <2>3, <2>8, <2>10 DEF FinishAppend, Done
    <3>2. ctx'[c] = [Adopt(c, h) EXCEPT !.ready = FALSE, !.rec = NoRec] /\ \A d \in Ctxs \ {c} : ctx'[d] = ctx[d]
      BY <3>1 DEF Shape
    <3>3. ctx'[c].hist = h /\ ~ctx'[c].ready
      BY <1>0, <3>2 DEF Adopt, Contexts
    <3>4. Follows(c)'
      <4>1. Covered(ctx[c].hist)' => Covered(h)
        BY <2>4, <3>3 DEF Covered, LastOf
      <4>2. QED
        BY <2>10, <3>3, <4>1 DEF Follows
    <3>5. RecStored' /\ ~InTx' /\ (db[c].last = LastOf(db[c].hist))'
      BY <1>0, <3>1 DEF RecStored, At, InTx, LastOf, Idle
    <3>6. QED
      BY <2>1, <3>1, <3>2, <3>4, <3>5, StoredAlone
  <2>11. QED
    BY <2>6, <2>7, <2>9, <2>10
<1>24. CASE FinishWarm
  <2>1. job \in Finishing /\ Recovering /\ ~InTx /\ UNCHANGED db
    BY <1>0, <1>24, RunningHave DEF FinishWarm, Recovering, At, InTx
  <2>2. PICK c \in Ctxs : c = job.c
    BY <2>1 DEF Finishing
  <2>3. db[c].hist = job.hist /\ job.hist # {}
    BY <1>24, <2>2 DEF FinishWarm, Stored, RecStored
  <2>4. CASE Valid(c)
    <3>1. ctx' = [ctx EXCEPT ![c] = Adopt(c, job.hist)] /\ job' = [job EXCEPT !.pc = "boundary"]
      BY <1>24, <2>2, <2>4 DEF FinishWarm
    <3>2. ctx'[c] = Adopt(c, job.hist) /\ \A d \in Ctxs \ {c} : ctx'[d] = ctx[d]
      BY <3>1 DEF Shape
    <3>3. ctx'[c].hist = db[c].hist /\ ctx'[c].last = LastOf(db[c].hist)
      BY <1>0, <2>3, <3>2 DEF Adopt, Contexts
    <3>4. job'.kind = "finish" /\ job'.pc = "boundary" /\ job'.c = c
      BY <2>1, <2>2, <3>1 DEF Finishing
    <3>5. Kept(c)' /\ Follows(c)'
      BY <1>0, <2>1, <3>3 DEF Follows, Kept
    <3>6. RecStored' /\ ~InTx' /\ (db[c].last = LastOf(db[c].hist))'
      BY <1>0, <2>1, <2>3, <3>3, <3>4, <3>5 DEF RecStored, Kept, At, InTx, LastOf
    <3>7. QED
      BY <2>1, <3>2, <3>5, <3>6, StoredAlone
  <2>5. CASE ~Valid(c)
    <3>1. SetRec(c, NoRec) /\ job' = Idle
      BY <1>24, <2>2, <2>5 DEF FinishWarm, Done
    <3>2. QED
      BY <1>18, <2>1, <3>1
  <2>6. QED
    BY <2>4, <2>5
<1>25. CASE FinishBoundary
  <2>1. job \in Finishing /\ Recovering /\ ~InTx /\ UNCHANGED db
    BY <1>0, <1>25, RunningHave DEF FinishBoundary, Recovering, At, InTx
  <2>2. PICK c \in Ctxs : c = job.c
    BY <2>1 DEF Finishing
  <2>3. CASE Valid(c)
    <3>1. job' = [kind |-> "finish", pc |-> "ready", c |-> c, boundary |-> clock] /\ ctx' = ctx
      BY <1>25, <2>2, <2>3 DEF FinishBoundary
    <3>2. Kept(c) /\ Follows(c)
      BY <1>25, <2>1, <2>2 DEF FinishBoundary, Stored, RecStored, InFlight
    <3>3. job'.kind = "finish" /\ job'.pc = "ready" /\ job'.c = c
      BY <3>1
    <3>4. Follows(c)' /\ Kept(c)'
      BY <1>0, <2>1, <3>1, <3>2, FollowsOn DEF Kept
    <3>5. RecStored' /\ ~InTx' /\ (db[c].last = LastOf(db[c].hist))'
      BY <1>0, <2>1, <3>3, <3>4 DEF RecStored, Kept, At, InTx, LastOf
    <3>6. QED
      BY <2>1, <3>1, <3>4, <3>5, StoredAlone
  <2>4. CASE ~Valid(c)
    <3>1. SetRec(c, NoRec) /\ job' = Idle
      BY <1>25, <2>2, <2>4 DEF FinishBoundary, Done
    <3>2. QED
      BY <1>18, <2>1, <3>1
  <2>5. QED
    BY <2>3, <2>4
<1>26. CASE FinishReady
  <2>1. job \in Finished /\ Recovering /\ ~InTx /\ UNCHANGED db /\ job' = Idle
    BY <1>0, <1>26, RunningHave DEF FinishReady, Recovering, At, InTx, Done
  <2>2. PICK c \in Ctxs : c = job.c
    BY <2>1 DEF Finished
  <2>3. CASE Valid(c)
    <3>1. ctx' = [ctx EXCEPT ![c].ready = TRUE, ![c].bound = job.boundary, ![c].rec = NoRec]
      BY <1>26, <2>2, <2>3 DEF FinishReady
    <3>2. /\ \A d \in Ctxs \ {c} : ctx'[d] = ctx[d]
          /\ ctx'[c].hist = ctx[c].hist /\ ctx'[c].last = ctx[c].last
      BY <1>0, <3>1 DEF Shape, Contexts
    <3>3. Kept(c)
      BY <1>26, <2>2 DEF FinishReady, Stored, RecStored
    <3>4. Follows(c)'
      BY <2>1, <3>2, <3>3 DEF Follows, Kept
    <3>5. RecStored' /\ ~InTx' /\ (db[c].last = LastOf(db[c].hist))'
      BY <1>0, <2>1 DEF RecStored, At, InTx, LastOf, Idle
    <3>6. QED
      BY <2>1, <3>2, <3>4, <3>5, StoredAlone
  <2>4. CASE ~Valid(c)
    <3>1. SetRec(c, NoRec)
      BY <1>26, <2>2, <2>4 DEF FinishReady
    <3>2. QED
      BY <1>18, <2>1, <3>1
  <2>5. QED
    BY <2>3, <2>4
<1>27. ASSUME NEW c \in Ctxs, ctx[c].rec.stage = "history", UNCHANGED <<db, job>>,
              SetRec(c, NoRec) \/ SetRec(c, [ctx[c].rec EXCEPT !.stage = "queued"])
       PROVE  Stored'
  <2>1. \A d \in Ctxs \ {c} : ctx'[d] = ctx[d]
    BY <1>27 DEF SetRec, Shape
  <2>2. \/ ctx'[c] = [ctx[c] EXCEPT !.rec = NoRec]
        \/ ctx'[c] = [ctx[c] EXCEPT !.rec = [ctx[c].rec EXCEPT !.stage = "queued"]]
    BY <1>27 DEF SetRec, Shape
  <2>3. /\ ctx'[c].hist = ctx[c].hist /\ ctx'[c].last = ctx[c].last /\ ctx'[c].on = ctx[c].on
        /\ ctx'[c].ready = ctx[c].ready
    BY <1>0, <2>2 DEF Contexts
  <2>4. QED
    BY <1>27, <2>1, <2>3, StoredFrames
<1>28. ASSUME NEW c \in Ctxs, NEW missing \in {0, 1}, HistoryAnswers(c, missing) PROVE Stored'
  BY <1>27, <1>28 DEF HistoryAnswers
<1>29. ASSUME NEW c \in Ctxs, HistoryFails(c) PROVE Stored'
  BY <1>27, <1>29 DEF HistoryFails
<1>30. CASE Crash
  <2>1. UNCHANGED db /\ job' = Idle /\ \A c \in Ctxs : ctx'[c] = Off
    BY <1>30 DEF Crash
  <2>2. \A c \in Ctxs : Follows(c)'
    BY <2>1 DEF Follows, Off
  <2>3. TxStored' /\ RecStored' /\ (\A c \in Ctxs : db[c].last = LastOf(db[c].hist))'
    BY <1>0, <2>1 DEF TxStored, RecStored, InTx, At, Idle, LastOf
  <2>4. QED
    BY <2>2, <2>3 DEF Stored
<1>31. CASE UNCHANGED vars
  BY <1>31, StoredFrames DEF vars
<1>32. QED
  BY <1>1, <1>2, <1>3, <1>4, <1>5, <1>6, <1>7, <1>8, <1>9, <1>10, <1>11, <1>12, <1>13, <1>15, <1>16,
     <1>17, <1>19, <1>20, <1>21, <1>22, <1>23, <1>24, <1>25, <1>26, <1>28, <1>29, <1>30, <1>31 DEF Next, JobStep

-----------------------------------------------------------------------------
(* The theorems.                                                           *)

LEMMA RecoveryInit == Init => RecoveryInv
<1> SUFFICES ASSUME Init PROVE RecoveryInv
  OBVIOUS
<1>1. /\ clock = Start /\ clock \in Nat /\ clock \in 0..MaxClock /\ clock <= MaxClock /\ MaxClock \in Nat
      /\ queue = <<>> /\ job = Idle /\ closed = {} /\ sock.session = 0 /\ sock.epoch = 0
      /\ agg.open = -1 /\ agg.last = -1 /\ agg.final = -1
      /\ \A c \in Ctxs : ctx[c] = Off /\ db[c].hist = {} /\ db[c].last = -1
  BY Bounds DEF Init
<1>2. Off \in Contexts /\ Off.hist = {} /\ Off.rec.stage = "none" /\ ~Off.ready /\ ~Off.on
  BY Samples, OffIsContext DEF Off, NoRec
<1>3. Shape
  <2>1. ctx \in [Ctxs -> Contexts] /\ db \in [Ctxs -> StoredRow]
    BY <1>2, Samples DEF Init, StoredRow
  <2>2. sock \in [session : Nat, epoch : Nat, connected : BOOLEAN, confirmed : BOOLEAN]
        /\ faults \in [breaks : Nat, crashes : Nat, fails : Nat]
        /\ agg \in [open : Marks, last : Marks, final : Marks]
    BY Samples DEF Init
  <2>3. queue \in Seq(Jobs) /\ decided \in [Ctxs -> Seq(Bars \X Nat)] /\ job \in Running
    BY <1>1, EmptySeq, RunningAre DEF Init
  <2>4. QED
    BY <1>1, <2>1, <2>2, <2>3 DEF Shape
<1>4. NowBar \in Nat /\ CeilBar(clock) \in Nat
  BY <1>1, Halves DEF NowBar
<1>5. Timely
  <2>1. Waiting = {}
    BY <1>1 DEF Waiting
  <2>2. QED
    BY <1>1, <1>2, <1>4, <2>1
    DEF Timely, QueueTimely, CtxTimely, JobTimely, AggTimely, Past, Recovering, At, InTx, Idle
<1>6. Current
  BY <1>1, <1>2 DEF Current, Recovering, At, Idle
<1>7. Stored
  <2>1. LastOf({}) = -1
    BY Samples, LastIs
  <2>2. ~Covered({})
    BY Samples, CoveredIsSome
  <2>3. QED
    BY <1>1, <1>2, <2>1, <2>2 DEF Stored, Follows, Kept, TxStored, RecStored, InTx, At, Idle
<1>8. QED
  BY <1>3, <1>5, <1>6, <1>7 DEF RecoveryInv

\* What is recorded is of the past, a strategy is ready only under the current subscription,
\* and memory and database agree outside the transactions and the recovery jobs, in every
\* reachable state, whatever breaks, fails or crashes and however often.
THEOREM RecoveryInductive == Spec => []RecoveryInv
<1>1. RecoveryInv /\ [Next]_vars => RecoveryInv'
  BY ShapeStep, TimelyStep, CurrentStep, StoredStep DEF RecoveryInv
<1>2. QED
  BY RecoveryInit, <1>1, PTL DEF Spec

\* No recovery that outlived its subscription, no late answer and no commit that ends after
\* an interruption makes a strategy ready: who is ready is connected, and under a boundary
\* not older than the subscription.
THEOREM ReadyStaysCurrent == Spec => []ReadyIsCurrent
<1>1. RecoveryInv => ReadyIsCurrent
  BY DEF RecoveryInv, Current, ReadyIsCurrent
<1>2. QED
  BY <1>1, RecoveryInductive, PTL

\* Between two jobs every ready strategy holds in memory the history and the newest bar that
\* live_watches holds: a rolled back transaction, a rebuilt evaluator and an appended tail
\* leave no difference behind.
THEOREM MemoryStaysStored == Spec => []MemoryIsStored
<1>1. RecoveryInv => MemoryIsStored
  BY DEF RecoveryInv, Stored, InFlight, InTx, Idle, Follows, Kept, MemoryIsStored
<1>2. QED
  BY <1>1, RecoveryInductive, PTL

-----------------------------------------------------------------------------
(* The inductive invariant of the order of the bars.                       *)

\* The bar strategy c has to decide next when it is ready since bound.
Expected(c, bound) ==
  LET n == Len(decided[c])
  IN IF n > 0 /\ decided[c][n][2] = bound THEN decided[c][n][1] + 1 ELSE CeilBar(bound)
Later(c, bar) == \A i \in DOMAIN decided[c] : decided[c][i][1] < bar

\* The aggregator goes on without a gap as long as a strategy is ready.
Active == \E c \in Ctxs : ctx[c].ready
Reached(c) == ctx[c].ready /\ 2 * (agg.last + 1) >= ctx[c].bound
EarlierOnly(c) == \A b \in Bars : agg.final < b /\ b <= agg.last => 2 * b < ctx[c].bound
Gapless ==
  Active =>
    /\ agg.last >= 0 /\ \E c \in Ctxs : Reached(c)
    /\ ~sock.confirmed => agg.open <= agg.last + 1
    /\ \A c \in Ctxs : ctx[c].ready => EarlierOnly(c)
    /\ At("flush", "work") \/ InTx => job.bar \in closed /\ \A b \in closed : job.bar <= b

\* What waits for a ready strategy is what it has to decide, from the first on.
Serves(c) ==
  LET e == Expected(c, ctx[c].bound) first == CeilBar(ctx[c].bound)
  IN /\ \A b \in Bars : b >= first => (b \in closed <=> e <= b /\ b <= agg.last)
     /\ e >= first /\ (e = first \/ e <= agg.last + 1) /\ Later(c, e)
     /\ ~InFlight(c) => LastOf(ctx[c].hist) < e
TxServes ==
  InTx =>
    /\ job.pc = "evaluate" => job.work = DOMAIN job.backup
    /\ \A c \in DOMAIN job.backup :
         /\ job.bar = Expected(c, job.backup[c].bound) /\ Later(c, job.bar)
         /\ ctx[c].ready => ctx[c].bound = job.backup[c].bound /\ c \in job.work
    /\ \A c \in Ctxs \ DOMAIN job.backup : ctx[c].ready => 2 * job.bar < ctx[c].bound
DecidedPast ==
  \A c \in Ctxs : \A i \in DOMAIN decided[c] :
    decided[c][i][2] < 2 * decided[c][i][1] + 2 /\ 2 * decided[c][i][1] + 2 <= clock
EndServes ==
  At("finish", "ready") =>
    /\ job.boundary >= 1
    /\ agg.last < CeilBar(job.boundary) /\ agg.open <= job.boundary \div 2
    /\ LastOf(ctx[job.c].hist) < CeilBar(job.boundary)
    /\ \A i \in DOMAIN decided[job.c] : 2 * decided[job.c][i][1] + 2 <= job.boundary
Serving ==
  /\ agg.open # -1 => agg.open > agg.final
  /\ \A c \in Ctxs : ctx[c].ready => Serves(c)
  /\ TxServes /\ DecidedPast /\ EndServes

Order == Gapless /\ Serving /\ DecidedInOrder
IInv == RecoveryInv /\ Order

-----------------------------------------------------------------------------
(* What was decided, and the boundaries.                                   *)

LEMMA DecidedHas ==
  ASSUME Shape, NEW c \in Ctxs
  PROVE  /\ Len(decided[c]) \in Nat /\ DOMAIN decided[c] = 1..Len(decided[c])
         /\ \A i \in DOMAIN decided[c] : /\ decided[c][i] \in Bars \X Nat /\ decided[c][i][1] \in Bars
                                         /\ decided[c][i][1] \in Nat /\ decided[c][i][2] \in Nat
<1>1. decided[c] \in Seq(Bars \X Nat)
  BY DEF Shape
<1>2. Len(decided[c]) \in Nat /\ DOMAIN decided[c] = 1..Len(decided[c])
  BY <1>1, LenProperties
<1>3. \A i \in DOMAIN decided[c] : decided[c][i] \in Bars \X Nat
  BY <1>1, <1>2, ElementOfSeq
<1>4. \A x \in Bars \X Nat : x[1] \in Bars /\ x[1] \in Nat /\ x[2] \in Nat
  BY Bounds DEF Bars
<1>5. QED
  BY <1>2, <1>3, <1>4

LEMMA ExpectedIs ==
  ASSUME Shape, NEW c \in Ctxs, NEW bound \in Nat
  PROVE  Expected(c, bound) \in Nat
<1>1. CeilBar(bound) \in Nat
  BY Halves
<1>2. Len(decided[c]) > 0 => Len(decided[c]) \in DOMAIN decided[c]
  BY DecidedHas
<1>3. Len(decided[c]) > 0 => decided[c][Len(decided[c])][1] \in Nat
  BY <1>2, DecidedHas
<1>4. QED
  BY <1>1, <1>3 DEF Expected

\* The bars that open at a boundary or later are those from its CeilBar on.
LEMMA FromBound ==
  ASSUME NEW b \in Int, NEW n \in Nat
  PROVE  /\ b >= CeilBar(n) <=> 2 * b >= n
         /\ b < CeilBar(n) <=> 2 * b < n
<1> DEFINE k == CeilBar(n)
<1>1. k \in Nat /\ n <= 2 * k /\ 2 * k < n + 2
  BY Halves
<1> HIDE DEF k
<1>2. b >= k => 2 * b >= n
  BY <1>1
<1>3. b < k => 2 * b < n
  <2>1. SUFFICES ASSUME b < k PROVE 2 * b < n
    OBVIOUS
  <2>2. 2 * b + 2 <= 2 * k
    BY <1>1, <2>1
  <2>3. QED
    BY <1>1, <2>2
<1>4. (b >= k <=> 2 * b >= n) /\ (b < k <=> 2 * b < n)
  BY <1>1, <1>2, <1>3
<1>5. QED
  BY <1>4 DEF k

LEMMA ClockGoesOn ==
  ASSUME Shape, [Next]_vars
  PROVE  clock \in Nat /\ clock' \in Nat /\ clock <= clock'
<1>1. clock \in Nat
  BY ShapeFacts
<1>2. clock' = clock \/ clock' = clock + 1
  BY DEF Next, vars, Interrupt, Subscribed, ReceiveTrade, TimePasses, Timer, JobStep, RunMark, RunReady, RunRefresh,
         RunTrade, RunFlush, SaveBar, SelectWork, Evaluate, DecideBars, CommitBars, RunApply, CommitApply, ApplyMemory,
         RunFinish, FinishAppend, FinishWarm, FinishBoundary, FinishReady, FailBars, HistoryAnswers, HistoryFails, Crash
<1>3. QED
  BY <1>1, <1>2

LEMMA DecidedPastOn ==
  ASSUME Shape, DecidedPast, clock \in Nat, clock' \in Nat, clock <= clock', UNCHANGED decided
  PROVE  DecidedPast'
<1>1. SUFFICES ASSUME NEW c \in Ctxs, NEW i \in DOMAIN decided[c]
               PROVE  decided[c][i][2] < 2 * decided[c][i][1] + 2 /\ 2 * decided[c][i][1] + 2 <= clock'
  BY DEF DecidedPast
<1>2. decided[c][i][2] < 2 * decided[c][i][1] + 2 /\ 2 * decided[c][i][1] + 2 <= clock
  BY <1>1 DEF DecidedPast
<1>3. decided[c][i][1] \in Nat
  BY <1>1, DecidedHas
<1>4. QED
  BY <1>2, <1>3

-----------------------------------------------------------------------------
(* Steps that leave the order alone.                                       *)

\* No strategy is ready any more.
LEMMA Silenced ==
  ASSUME Shape, Order, [Next]_vars, \A c \in Ctxs : ~ctx'[c].ready,
         UNCHANGED decided, job' = job, At("finish", "ready") => ctx'[job.c].hist = ctx[job.c].hist,
         agg' = agg \/ (agg'.open = -1 /\ agg'.last = -1)
  PROVE  Order'
<1>1. Gapless'
  BY DEF Gapless, Active
<1>2. DecidedInOrder'
  BY DEF Order, DecidedInOrder, CeilBar
<1>3. DecidedPast'
  BY ClockGoesOn, DecidedPastOn DEF Order, Serving
<1>4. TxServes'
  <2>1. SUFFICES ASSUME InTx
                 PROVE  /\ job.pc = "evaluate" => job.work = DOMAIN job.backup
                        /\ \A c \in DOMAIN job.backup :
                             /\ job.bar = Expected(c, job.backup[c].bound) /\ Later(c, job.bar)
                             /\ ~ctx'[c].ready
    BY DEF TxServes, InTx, Expected, Later, CeilBar
  <2>2. job \in Running /\ DOMAIN job.backup \subseteq Ctxs
    BY <2>1, RunningHave, DecidingHas DEF Shape
  <2>3. QED
    BY <2>1, <2>2 DEF Order, Serving, TxServes
<1>5. EndServes'
  <2>1. SUFFICES ASSUME At("finish", "ready")
                 PROVE  /\ job.boundary >= 1
                        /\ agg'.last < CeilBar(job.boundary) /\ agg'.open <= job.boundary \div 2
                        /\ LastOf(ctx'[job.c].hist) < CeilBar(job.boundary)
                        /\ \A i \in DOMAIN decided[job.c] : 2 * decided[job.c][i][1] + 2 <= job.boundary
    BY DEF EndServes, At, LastOf, CeilBar
  <2>2. job.boundary \in Nat
    BY <2>1, RunningHave DEF Shape, Finished, At
  <2>3. CeilBar(job.boundary) \in Nat /\ job.boundary \div 2 \in Nat
    BY <2>2, Halves
  <2>4. EndServes
    BY DEF Order, Serving
  <2>5. agg'.last < CeilBar(job.boundary) /\ agg'.open <= job.boundary \div 2
    BY <2>1, <2>3, <2>4 DEF EndServes
  <2>6. LastOf(ctx'[job.c].hist) < CeilBar(job.boundary)
    BY <2>1, <2>4 DEF EndServes
  <2>7. QED
    BY <2>1, <2>4, <2>5, <2>6 DEF EndServes
<1>6. agg'.open # -1 => agg'.open > agg'.final
  BY DEF Order, Serving
<1>7. QED
  BY <1>1, <1>2, <1>3, <1>4, <1>5, <1>6 DEF Order, Serving

\* Nothing that the order speaks of changes.
LEMMA Carried ==
  ASSUME Shape, Order, [Next]_vars, UNCHANGED <<decided, agg, closed>>, sock'.confirmed = sock.confirmed,
         \A c \in Ctxs : /\ ctx'[c].ready = ctx[c].ready
                         /\ ctx[c].ready => ctx'[c].bound = ctx[c].bound /\ ctx'[c].hist = ctx[c].hist,
         \/ job' = job /\ (At("finish", "ready") => ctx'[job.c].hist = ctx[job.c].hist)
         \/ ~InTx /\ ~InTx' /\ ~At("flush", "work")' /\ ~At("finish", "ready")'
  PROVE  Order'
<1>1. Active' => Active
  BY DEF Active
<1>2. \A c \in Ctxs : InFlight(c)' <=> InFlight(c)
  BY DEF InFlight, InTx
<1>3. Gapless'
  <2>1. SUFFICES ASSUME Active'
                 PROVE  /\ agg.last >= 0 /\ \E c \in Ctxs : Reached(c)'
                        /\ ~sock'.confirmed => agg.open <= agg.last + 1
                        /\ \A c \in Ctxs : ctx'[c].ready => EarlierOnly(c)'
                        /\ (At("flush", "work") \/ InTx)' => job'.bar \in closed /\ \A b \in closed : job'.bar <= b
    BY DEF Gapless
  <2>2. Gapless /\ Active
    BY <1>1, <2>1 DEF Order
  <2>3. \E c \in Ctxs : Reached(c)'
    BY <2>2 DEF Gapless, Reached
  <2>4. \A c \in Ctxs : ctx'[c].ready => EarlierOnly(c)'
    BY <2>2 DEF Gapless, EarlierOnly
  <2>5. (At("flush", "work") \/ InTx)' => job' = job /\ (At("flush", "work") \/ InTx)
    BY DEF At, InTx
  <2>6. QED
    BY <2>2, <2>3, <2>4, <2>5 DEF Gapless
<1>4. ASSUME NEW c \in Ctxs, ctx'[c].ready PROVE Serves(c)'
  <2>1. ctx[c].ready /\ ctx'[c].bound = ctx[c].bound /\ ctx'[c].hist = ctx[c].hist
    BY <1>4
  <2>2. Serves(c)
    BY <2>1 DEF Order, Serving
  <2>3. QED
    BY <1>2, <2>1, <2>2 DEF Serves, Expected, Later, LastOf, CeilBar
<1>5. TxServes'
  <2>1. SUFFICES ASSUME InTx, job' = job
                 PROVE  /\ job.pc = "evaluate" => job.work = DOMAIN job.backup
                        /\ \A c \in DOMAIN job.backup :
                             /\ job.bar = Expected(c, job.backup[c].bound) /\ Later(c, job.bar)
                             /\ ctx'[c].ready => ctx'[c].bound = job.backup[c].bound /\ c \in job.work
                        /\ \A c \in Ctxs \ DOMAIN job.backup : ctx'[c].ready => 2 * job.bar < ctx'[c].bound
    BY DEF TxServes, InTx, Expected, Later, CeilBar
  <2>2. job \in Running /\ DOMAIN job.backup \subseteq Ctxs
    BY <2>1, RunningHave, DecidingHas DEF Shape
  <2>3. QED
    BY <2>1, <2>2 DEF Order, Serving, TxServes
<1>6. EndServes'
  <2>1. SUFFICES ASSUME At("finish", "ready"), job' = job, ctx'[job.c].hist = ctx[job.c].hist
                 PROVE  EndServes'
    BY DEF EndServes, At
  <2>2. QED
    BY <2>1 DEF Order, Serving, EndServes, LastOf, CeilBar, At
<1>7. DecidedInOrder'
  BY DEF Order, DecidedInOrder, CeilBar
<1>8. DecidedPast'
  BY ClockGoesOn, DecidedPastOn DEF Order, Serving
<1>9. QED
  BY <1>3, <1>4, <1>5, <1>6, <1>7, <1>8 DEF Order, Serving

-----------------------------------------------------------------------------
(* Closing bars.                                                           *)

\* While a strategy is ready and the feed is confirmed, every gap may be filled.
LEMMA MayFillOn ==
  ASSUME Shape, Current, Gapless, Active, sock.confirmed
  PROVE  MayFill(agg.last) /\ \A l \in agg.last..MaxClock : MayFill(l)
<1>1. PICK c \in Ctxs : Reached(c)
  BY DEF Gapless
<1>2. agg.last \in Nat /\ ctx[c].bound \in Nat /\ ctx[c].ready /\ ctx[c].on /\ sock.connected
      /\ 2 * (agg.last + 1) >= ctx[c].bound
  BY <1>1, ShapeFacts, Bounds DEF Gapless, Current, Reached, Marks
<1>3. ASSUME NEW l \in Int, l >= agg.last PROVE MayFill(l)
  <2>1. l >= 0 /\ 2 * (l + 1) >= ctx[c].bound
    BY <1>2, <1>3
  <2>2. QED
    BY <1>2, <2>1 DEF MayFill
<1>4. \A l \in agg.last..MaxClock : l \in Int /\ l >= agg.last
  BY <1>2, Bounds
<1>5. MayFill(agg.last)
  BY <1>2, <1>3
<1>6. QED
  BY <1>3, <1>4, <1>5

\* The bars a flush closes are those that follow, or the open one that nobody waits for any more.
LEMMA FlushOrder ==
  ASSUME Shape, Timely, Current, Order, [Next]_vars, job = Idle, UNCHANGED <<ctx, decided>>,
         NEW bar \in Bars, closed' = closed \cup FlushTo(bar).out,
         job'.kind = "flush", job'.pc = "next",
         \/ agg' = FlushTo(bar).agg /\ sock'.confirmed = sock.confirmed
         \/ /\ agg' = [FlushTo(bar).agg EXCEPT !.open = bar]
            /\ bar > FlushTo(bar).agg.final /\ (sock.connected => sock'.confirmed)
  PROVE  Order'
<1> DEFINE f == FlushTo(bar)
<1>0. /\ agg \in Aggs /\ bar \in Nat /\ bar <= MaxClock /\ MaxClock \in Nat
      /\ agg.last \in Int /\ agg.open \in Int /\ agg.final \in Int /\ agg.open >= -1
      /\ Gapless /\ Serving /\ DecidedInOrder
  BY ShapeFacts, Bounds DEF Bars, Marks, Order
<1>1. /\ f.agg \in Aggs /\ f.out \subseteq Bars
      /\ \A b \in f.out : b < bar /\ b <= f.agg.last /\ b <= f.agg.final /\ (b > agg.last \/ b = agg.open)
      /\ f.agg.last >= agg.last /\ f.agg.final >= agg.final
      /\ f.agg.last = agg.last \/ f.agg.last \in f.out
      /\ f.agg.final = agg.final \/ f.agg.final \in f.out
      /\ IF agg.open \in 0..bar - 1 THEN agg.open \in f.out /\ f.agg.open = -1 ELSE f.agg.open = agg.open
      /\ agg.last >= 0 /\ MayFill(agg.last) /\ (\A l \in agg.last..MaxClock : MayFill(l))
           => \A b \in agg.last + 1..bar - 1 : b \in f.out
      /\ ~sock.confirmed => \A b \in f.out : b = agg.open
  BY <1>0, FlushToIs
<1> HIDE DEF f
<1>2. /\ agg'.last = f.agg.last /\ agg'.final = f.agg.final
      /\ \/ agg'.open = f.agg.open /\ sock'.confirmed = sock.confirmed
         \/ agg'.open = bar /\ bar > f.agg.final /\ (sock.connected => sock'.confirmed)
      /\ closed' = closed \cup f.out
  BY <1>1 DEF f, Aggs
<1>3. f.agg.last \in Int /\ f.agg.final \in Int /\ f.agg.open \in Int /\ \A b \in f.out : b \in Int
  BY <1>1, Bounds DEF Aggs, Marks, Bars
<1>4. ~InTx /\ ~InTx' /\ ~At("flush", "work")' /\ ~At("finish", "ready")'
  BY DEF InTx, At, Idle
<1>5. Active' => Active /\ sock.connected
  BY DEF Active, Current
<1>6. ASSUME NEW c \in Ctxs, ctx[c].ready PROVE EarlierOnly(c)'
  <2>1. EarlierOnly(c)
    BY <1>0, <1>6 DEF Gapless, Active
  <2>2. ASSUME NEW b \in Bars, f.agg.final < b, b <= f.agg.last PROVE 2 * b < ctx[c].bound
    <3>1. b \in Int
      BY Bounds DEF Bars
    <3>2. f.agg.last = agg.last
      BY <1>1, <1>3, <2>2, <3>1
    <3>3. agg.final < b /\ b <= agg.last
      BY <1>0, <1>1, <1>3, <2>2, <3>1, <3>2
    <3>4. QED
      BY <2>1, <3>3 DEF EarlierOnly
  <2>3. QED
    BY <1>2, <2>2 DEF EarlierOnly
<1>7. Gapless'
  <2>1. SUFFICES ASSUME Active'
                 PROVE  /\ agg'.last >= 0 /\ \E c \in Ctxs : Reached(c)'
                        /\ ~sock'.confirmed => agg'.open <= agg'.last + 1
                        /\ \A c \in Ctxs : ctx[c].ready => EarlierOnly(c)'
    BY <1>4 DEF Gapless
  <2>2. Active /\ sock.connected
    BY <1>5, <2>1
  <2>3. agg'.last >= 0
    BY <1>0, <1>1, <1>2, <1>3, <2>2 DEF Gapless
  <2>4. \E c \in Ctxs : Reached(c)'
    <3>1. PICK c \in Ctxs : Reached(c)
      BY <1>0, <2>2 DEF Gapless
    <3>2. ctx[c].bound \in Nat
      BY ShapeFacts
    <3>3. 2 * (f.agg.last + 1) >= ctx[c].bound
      BY <1>0, <1>1, <1>3, <3>1, <3>2 DEF Reached
    <3>4. QED
      BY <1>2, <3>1, <3>3 DEF Reached
  <2>5. ~sock'.confirmed => agg'.open <= agg'.last + 1
    <3>1. SUFFICES ASSUME ~sock'.confirmed PROVE agg'.open <= agg'.last + 1
      OBVIOUS
    <3>2. agg'.open = f.agg.open /\ ~sock.confirmed
      BY <1>2, <2>2, <3>1
    <3>3. agg.open <= agg.last + 1
      BY <1>0, <2>2, <3>2 DEF Gapless
    <3>4. f.agg.open = -1 \/ f.agg.open = agg.open
      BY <1>1
    <3>5. QED
      BY <1>0, <1>1, <1>2, <1>3, <2>3, <3>2, <3>3, <3>4
  <2>6. QED
    BY <1>6, <2>3, <2>4, <2>5
<1>8. agg'.open # -1 => agg'.open > agg'.final
  <2>1. SUFFICES ASSUME agg'.open = f.agg.open, f.agg.open # -1 PROVE f.agg.open > f.agg.final
    BY <1>2
  <2>2. agg.open = f.agg.open /\ agg.open > agg.final /\ agg.open >= bar
    BY <1>0, <1>1, <2>1 DEF Serving
  <2>3. QED
    BY <1>0, <1>1, <1>3, <2>2
<1>9. ASSUME NEW c \in Ctxs, ctx[c].ready PROVE Serves(c)'
  <2> DEFINE e == Expected(c, ctx[c].bound) first == CeilBar(ctx[c].bound)
  <2>1. e \in Nat /\ first \in Nat /\ ctx[c].bound \in Nat
    BY ShapeFacts, ExpectedIs, Halves
  <2>2. Active /\ Serves(c)
    BY <1>0, <1>9 DEF Active, Serving
  <2>3. /\ \A b \in Bars : b >= first => (b \in closed <=> e <= b /\ b <= agg.last)
        /\ e >= first /\ (e = first \/ e <= agg.last + 1) /\ Later(c, e)
        /\ LastOf(ctx[c].hist) < e
    BY <1>4, <2>2 DEF Serves, InFlight
  <2>4. ASSUME NEW b \in Bars, b >= first PROVE b \in closed' <=> e <= b /\ b <= f.agg.last
    <3>1. b \in Int /\ 2 * b >= ctx[c].bound
      BY <2>1, <2>4, FromBound, Bounds DEF Bars
    <3>2. ASSUME b \in f.out PROVE e <= b /\ b <= f.agg.last
      <4>1. CASE b > agg.last
        BY <1>0, <1>1, <2>1, <2>3, <2>4, <3>1, <3>2, <4>1
      <4>2. CASE b = agg.open /\ b <= agg.last
        <5>1. agg.final < b
          BY <1>0, <3>1, <4>2, Bounds DEF Serving, Bars
        <5>2. 2 * b < ctx[c].bound
          BY <1>0, <1>9, <2>2, <4>2, <5>1 DEF Gapless, EarlierOnly
        <5>3. QED
          BY <2>1, <3>1, <5>2
      <4>3. QED
        BY <1>0, <1>1, <3>1, <3>2, <4>1, <4>2
    <3>3. ASSUME e <= b, b <= f.agg.last, b > agg.last PROVE b \in f.out
      <4>1. f.agg.last \in f.out /\ f.agg.last < bar
        BY <1>0, <1>1, <1>3, <3>1, <3>3
      <4>2. CASE sock.confirmed
        <5>1. b \in agg.last + 1..bar - 1
          BY <1>0, <1>3, <3>1, <3>3, <4>1
        <5>2. agg.last >= 0
          BY <1>0, <2>2 DEF Gapless
        <5>3. QED
          BY <1>0, <1>1, <2>2, <4>2, <5>1, <5>2, MayFillOn
      <4>3. CASE ~sock.confirmed
        <5>1. f.agg.last = agg.open /\ agg.open <= agg.last + 1
          BY <1>0, <1>1, <2>2, <4>1, <4>3 DEF Gapless
        <5>2. b = f.agg.last
          BY <1>0, <1>3, <3>1, <3>3, <5>1
        <5>3. QED
          BY <4>1, <5>2
      <4>4. QED
        BY <4>2, <4>3
    <3>4. b \in closed <=> e <= b /\ b <= agg.last
      BY <2>3, <2>4
    <3>5. b <= agg.last => b <= f.agg.last
      BY <1>0, <1>1, <1>3, <3>1
    <3>6. QED
      BY <1>0, <1>2, <3>1, <3>2, <3>3, <3>4, <3>5
  <2>5. e = first \/ e <= f.agg.last + 1
    BY <1>0, <1>1, <1>3, <2>1, <2>3
  <2>6. e' = e /\ first' = first /\ Later(c, e)' = Later(c, e) /\ LastOf(ctx[c].hist)' = LastOf(ctx[c].hist)
    BY DEF Expected, Later, CeilBar, LastOf
  <2> HIDE DEF e, first
  <2>7. /\ \A b \in Bars : b >= first' => (b \in closed' <=> e' <= b /\ b <= agg'.last)
        /\ e' >= first' /\ (e' = first' \/ e' <= agg'.last + 1) /\ Later(c, e)'
        /\ LastOf(ctx[c].hist)' < e'
    BY <1>2, <2>3, <2>4, <2>5, <2>6
  <2>8. QED
    BY <2>7 DEF Serves, e, first
<1>10. DecidedPast'
  BY <1>0, ClockGoesOn, DecidedPastOn DEF Serving
<1>11. DecidedInOrder'
  BY <1>0 DEF DecidedInOrder, CeilBar
<1>12. TxServes' /\ EndServes'
  BY <1>4 DEF TxServes, EndServes
<1>13. QED
  BY <1>7, <1>8, <1>9, <1>10, <1>11, <1>12 DEF Order, Serving

-----------------------------------------------------------------------------
(* Deciding bars.                                                          *)

LEMMA SaveBarOrder ==
  ASSUME Shape, Order, [Next]_vars, SaveBar
  PROVE  Order'
<1>0. job.kind = "flush" /\ job.pc = "next" /\ UNCHANGED <<sock, agg, closed, ctx, decided>>
  BY DEF SaveBar, At
<1>1. CASE {b \in closed : b < job.upTo} = {}
  <2>1. job' = Idle
    BY <1>1 DEF SaveBar, Done
  <2>2. QED
    BY <1>0, <2>1, Carried DEF InTx, At, Idle
<1>2. CASE {b \in closed : b < job.upTo} # {}
  <2>1. job' = [kind |-> "flush", pc |-> "work", upTo |-> job.upTo, bar |-> Min(closed)]
    BY <1>2 DEF SaveBar
  <2>2. closed \in SUBSET Nat /\ closed # {}
    BY <1>2, Bounds DEF Shape, Bars
  <2>3. Min(closed) \in closed /\ \A b \in closed : Min(closed) <= b
    BY <2>2, MinIs
  <2>4. job'.bar = Min(closed) /\ ~InTx /\ ~InTx' /\ ~At("finish", "ready")'
    BY <1>0, <2>1 DEF InTx, At
  <2>5. Gapless'
    BY <1>0, <2>3, <2>4 DEF Order, Gapless, Active, Reached, EarlierOnly
  <2>6. ASSUME NEW c \in Ctxs, ctx[c].ready PROVE Serves(c)'
    <3>1. Serves(c)
      BY <2>6 DEF Order, Serving
    <3>2. QED
      BY <1>0, <2>4, <3>1 DEF Serves, Expected, Later, InFlight, LastOf, CeilBar
  <2>7. DecidedPast' /\ DecidedInOrder'
    BY <1>0, ClockGoesOn, DecidedPastOn DEF Order, Serving, DecidedInOrder, CeilBar
  <2>8. QED
    BY <1>0, <2>4, <2>5, <2>6, <2>7 DEF Order, Serving, TxServes, EndServes
<1>3. QED
  BY <1>1, <1>2

\* Who takes part in a transaction has its bar to decide; for the other ready strategies the
\* bar is before their boundary.
LEMMA SelectWorkOrder ==
  ASSUME Shape, Timely, Current, Order, [Next]_vars, SelectWork
  PROVE  Order'
<1> DEFINE work == {c \in Ctxs : Work(c, job.bar)}
<1>0. /\ At("flush", "work") /\ UNCHANGED <<sock, agg, ctx, decided>> /\ ~InTx
      /\ job \in Saved /\ job.bar \in Bars /\ job.bar \in Nat /\ agg.last \in Int
  <2>1. At("flush", "work") /\ UNCHANGED <<sock, agg, ctx, decided>>
    BY DEF SelectWork
  <2>2. job \in Saved
    BY <2>1, RunningHave DEF Shape
  <2>3. QED
    BY <2>1, <2>2, ShapeFacts, Bounds DEF Saved, Bars, InTx, At, Marks
<1>1. \A c \in Ctxs : ctx[c].ready => Serves(c) /\ Active
  BY DEF Order, Serving, Active
<1>2. Active => job.bar \in closed /\ \A b \in closed : job.bar <= b
  BY <1>0 DEF Order, Gapless
<1>3. ASSUME NEW c \in Ctxs, ctx[c].ready, 2 * job.bar >= ctx[c].bound
      PROVE  /\ job.bar = Expected(c, ctx[c].bound) /\ Later(c, job.bar)
             /\ LastOf(ctx[c].hist) < job.bar
  <2> DEFINE e == Expected(c, ctx[c].bound) first == CeilBar(ctx[c].bound)
  <2>1. e \in Nat /\ first \in Nat /\ ctx[c].bound \in Nat
    BY ShapeFacts, ExpectedIs, Halves
  <2>2. /\ \A b \in Bars : b >= first => (b \in closed <=> e <= b /\ b <= agg.last)
        /\ e >= first /\ Later(c, e) /\ LastOf(ctx[c].hist) < e
    BY <1>0, <1>1, <1>3 DEF Serves, InFlight
  <2>3. job.bar >= first
    BY <1>0, <1>3, <2>1, FromBound
  <2> HIDE DEF e, first
  <2>4. e <= job.bar /\ job.bar <= agg.last
    BY <1>0, <1>1, <1>2, <1>3, <2>2, <2>3
  <2>5. e \in Bars /\ e <= agg.last
    BY <1>0, <2>1, <2>4, Bounds DEF Bars
  <2>6. e \in closed
    BY <2>1, <2>2, <2>5
  <2>7. job.bar = e
    BY <1>0, <1>1, <1>2, <1>3, <2>1, <2>4, <2>6
  <2>8. QED
    BY <2>2, <2>7 DEF e
<1>4. \A c \in Ctxs : ctx[c].ready /\ c \notin work => 2 * job.bar < ctx[c].bound
  <2> SUFFICES ASSUME NEW c \in Ctxs, ctx[c].ready, c \notin work PROVE 2 * job.bar < ctx[c].bound
    OBVIOUS
  <2>1. ctx[c].bound \in Nat /\ LastOf(ctx[c].hist) \in Int
    BY ShapeFacts, Bounds DEF Marks
  <2>2. ~(ctx[c].on /\ sock.connected /\ 2 * job.bar >= ctx[c].bound /\ job.bar > LastOf(ctx[c].hist))
    BY DEF Work
  <2>3. ctx[c].on /\ sock.connected
    BY DEF Current
  <2>4. QED
    BY <1>0, <1>3, <2>1, <2>2, <2>3
<1>5. DecidedPast' /\ DecidedInOrder'
  BY <1>0, ClockGoesOn, DecidedPastOn DEF Order, Serving, DecidedInOrder, CeilBar
<1>6. (agg.open # -1 => agg.open > agg.final)'
  BY <1>0 DEF Order, Serving
<1>7. CASE work = {}
  <2>1. job' = [kind |-> "flush", pc |-> "next", upTo |-> job.upTo] /\ closed' = closed \ {job.bar}
    BY <1>7 DEF SelectWork
  <2>2. ~InTx' /\ ~At("flush", "work")' /\ ~At("finish", "ready")'
    BY <2>1 DEF InTx, At
  <2>3. ASSUME NEW c \in Ctxs, ctx[c].ready PROVE Serves(c)'
    <3>1. ctx[c].bound \in Nat /\ 2 * job.bar < ctx[c].bound
      BY <1>4, <1>7, <2>3, ShapeFacts
    <3>2. ~(job.bar >= CeilBar(ctx[c].bound))
      BY <1>0, <3>1, FromBound
    <3>3. \A b \in Bars : b >= CeilBar(ctx[c].bound) => (b \in closed' <=> b \in closed)
      BY <2>1, <3>2
    <3>4. Serves(c)
      BY <1>1, <2>3
    <3>5. QED
      BY <1>0, <2>2, <3>3, <3>4 DEF Serves, Expected, Later, InFlight, LastOf, CeilBar
  <2>4. Gapless'
    BY <1>0, <2>2 DEF Order, Gapless, Active, Reached, EarlierOnly
  <2>5. QED
    BY <1>0, <1>5, <1>6, <2>2, <2>3, <2>4 DEF Order, Serving, TxServes, EndServes
<1>8. CASE work # {}
  <2>0. PICK saved : saved = [c \in work |-> [hist |-> ctx[c].hist, last |-> ctx[c].last, bound |-> ctx[c].bound]]
    OBVIOUS
  <2>1. /\ job' = [kind |-> "flush", pc |-> "evaluate", upTo |-> job.upTo, bar |-> job.bar, work |-> work, backup |-> saved]
        /\ closed' = closed
    BY <1>8, <2>0 DEF SelectWork
  <2>2. DOMAIN saved = work /\ \A c \in work : saved[c].bound = ctx[c].bound
    BY <2>0
  <2>3. \A c \in work : c \in Ctxs /\ ctx[c].ready /\ 2 * job.bar >= ctx[c].bound
    BY DEF Work
  <2> HIDE DEF work
  <2>4. /\ InTx' /\ ~At("finish", "ready")' /\ job'.bar = job.bar /\ job'.work = work /\ job'.backup = saved
        /\ job'.pc = "evaluate"
    BY <2>1 DEF InTx, At
  <2>5. TxServes'
    <3>1. \A c \in work : /\ job.bar = Expected(c, saved[c].bound)' /\ Later(c, job.bar)'
                          /\ ctx'[c].bound = saved[c].bound
      <4> SUFFICES ASSUME NEW c \in work
                   PROVE  /\ job.bar = Expected(c, saved[c].bound)' /\ Later(c, job.bar)'
                          /\ ctx'[c].bound = saved[c].bound
        OBVIOUS
      <4>1. job.bar = Expected(c, ctx[c].bound) /\ Later(c, job.bar) /\ saved[c].bound = ctx[c].bound
        BY <1>3, <2>2, <2>3
      <4>2. QED
        BY <1>0, <2>4, <4>1 DEF Expected, Later, CeilBar
    <3>2. QED
      BY <1>0, <1>4, <2>2, <2>4, <3>1 DEF TxServes
  <2>6. ASSUME NEW c \in Ctxs, ctx[c].ready PROVE Serves(c)'
    <3>1. Serves(c) /\ ~InFlight(c)
      BY <1>0, <1>1, <2>6 DEF InFlight
    <3>2. QED
      BY <1>0, <2>1, <3>1 DEF Serves, Expected, Later, LastOf, CeilBar
  <2>7. Gapless'
    BY <1>0, <2>1, <2>4, <1>2 DEF Order, Gapless, Active, Reached, EarlierOnly, At
  <2>8. QED
    BY <1>0, <1>5, <1>6, <2>4, <2>5, <2>6, <2>7 DEF Order, Serving, EndServes
<1>9. QED
  BY <1>7, <1>8

LEMMA EvaluateOrder ==
  ASSUME Shape, Timely, Current, Stored, Order, [Next]_vars, Evaluate
  PROVE  Order'
<1>1. PICK live : /\ live = IF sock.connected THEN {c \in job.work : db[c].last < job.bar} ELSE {}
                  /\ ctx' = [c \in Ctxs |-> IF c \in live THEN [ctx[c] EXCEPT !.hist = Rereads(c) \cup {<<job.bar, "real">>}]
                                            ELSE ctx[c]]
                  /\ job' = [job EXCEPT !.pc = "decide", !.work = live]
  BY DEF Evaluate
<1>2. /\ At("flush", "evaluate") /\ InTx /\ UNCHANGED <<sock, agg, closed, decided>> /\ job \in Deciding
      /\ DOMAIN job.backup \subseteq Ctxs
  <2>1. At("flush", "evaluate") /\ InTx /\ UNCHANGED <<sock, agg, closed, decided>>
    BY DEF Evaluate, At, InTx
  <2>2. job \in Deciding
    BY <2>1, RunningHave DEF Shape
  <2>3. QED
    BY <2>1, <2>2, DecidingHas
<1>3. /\ job'.kind = "flush" /\ job'.pc = "decide" /\ job'.work = live /\ job'.bar = job.bar /\ job'.backup = job.backup
      /\ InTx' /\ ~At("finish", "ready")'
  <2>1. /\ job'.kind = "flush" /\ job'.pc = "decide" /\ job'.work = live /\ job'.bar = job.bar /\ job'.backup = job.backup
    BY <1>1, <1>2 DEF Deciding
  <2>2. QED
    BY <2>1 DEF InTx, At
<1>4. live \subseteq DOMAIN job.backup
  BY <1>1, <1>2 DEF Order, Serving, TxServes, At
<1>5. \A c \in Ctxs : /\ ctx'[c].ready = ctx[c].ready /\ ctx'[c].bound = ctx[c].bound
                      /\ c \notin live => ctx'[c].hist = ctx[c].hist
  <2> TAKE c \in Ctxs
  <2>1. ctx[c] \in Contexts
    BY ShapeFacts
  <2>2. CASE c \in live
    <3>1. ctx'[c] = [ctx[c] EXCEPT !.hist = Rereads(c) \cup {<<job.bar, "real">>}]
      BY <1>1, <2>2
    <3>2. QED
      BY <2>1, <2>2, <3>1 DEF Contexts
  <2>3. CASE c \notin live
    BY <1>1, <2>3
  <2>4. QED
    BY <2>2, <2>3
<1>6. \A c \in DOMAIN job.backup : ctx[c].ready => c \in live
  BY <1>1, <1>2 DEF Order, Serving, TxServes, Stored, TxStored, Current, At
<1>7. TxServes'
  <2>1. \A c \in DOMAIN job.backup :
          /\ job.bar = Expected(c, job.backup[c].bound)' /\ Later(c, job.bar)'
    BY <1>2, <1>3 DEF Order, Serving, TxServes, Expected, Later, CeilBar
  <2>2. \A c \in DOMAIN job.backup : ctx'[c].ready => ctx'[c].bound = job.backup[c].bound /\ c \in live
    BY <1>2, <1>5, <1>6 DEF Order, Serving, TxServes
  <2>3. \A c \in Ctxs \ DOMAIN job.backup : ctx'[c].ready => 2 * job.bar < ctx'[c].bound
    BY <1>2, <1>5 DEF Order, Serving, TxServes
  <2>4. QED
    BY <1>3, <2>1, <2>2, <2>3 DEF TxServes
<1>8. ASSUME NEW c \in Ctxs, ctx'[c].ready PROVE Serves(c)'
  <2>1. Serves(c) /\ (InFlight(c)' <=> InFlight(c)) /\ (~InFlight(c) => ctx'[c].hist = ctx[c].hist)
    BY <1>2, <1>3, <1>4, <1>5, <1>8 DEF Order, Serving, InFlight
  <2>2. QED
    BY <1>2, <1>5, <2>1 DEF Serves, Expected, Later, LastOf, CeilBar
<1>9. Gapless'
  <2>1. \A c \in Ctxs : /\ Reached(c) => Reached(c)'
                        /\ EarlierOnly(c) => EarlierOnly(c)'
    BY <1>2, <1>5 DEF Reached, EarlierOnly
  <2>2. Active' => Active
    BY <1>5 DEF Active
  <2>3. QED
    BY <1>2, <1>3, <1>5, <2>1, <2>2 DEF Order, Gapless, At
<1>10. DecidedPast' /\ DecidedInOrder'
  BY <1>2, ClockGoesOn, DecidedPastOn DEF Order, Serving, DecidedInOrder, CeilBar
<1>11. QED
  BY <1>2, <1>3, <1>7, <1>8, <1>9, <1>10 DEF Order, Serving, EndServes

\* What a rollback brings back ends before the bar that failed.
LEMMA RollbackOrder ==
  ASSUME Shape, Timely, Current, Stored, Order, [Next]_vars, InTx, Rollback, UNCHANGED <<sock, agg>>
  PROVE  Order'
<1>1. job' = Idle /\ UNCHANGED <<closed, decided>> /\ job \in Deciding /\ DOMAIN job.backup \subseteq Ctxs /\ job.bar \in Nat
  <2>1. job' = Idle /\ UNCHANGED <<closed, decided>> /\ job \in Deciding
    BY RunningHave DEF Rollback, Done, Shape
  <2>2. QED
    BY <2>1, DecidingHas, Bounds DEF Bars
<1>2. ~InTx' /\ ~At("flush", "work")' /\ ~At("finish", "ready")'
  BY <1>1 DEF InTx, At, Idle
<1>3. ASSUME NEW c \in Ctxs
      PROVE  /\ ctx'[c].ready = ctx[c].ready /\ ctx'[c].bound = ctx[c].bound
             /\ IF c \in DOMAIN job.backup THEN ctx'[c].hist = db[c].hist ELSE ctx'[c].hist = ctx[c].hist
  <2>1. ctx[c] \in Contexts
    BY ShapeFacts
  <2>2. CASE c \in DOMAIN job.backup
    <3>1. ctx[c].on /\ job.backup[c].hist = db[c].hist
      BY <2>2 DEF Stored, TxStored
    <3>2. ctx'[c] = [ctx[c] EXCEPT !.hist = job.backup[c].hist, !.last = job.backup[c].last]
      BY <2>2, <3>1 DEF Rollback, RestoredCtx
    <3>3. QED
      BY <2>1, <2>2, <3>1, <3>2 DEF Contexts
  <2>3. CASE c \notin DOMAIN job.backup
    BY <2>3 DEF Rollback
  <2>4. QED
    BY <2>2, <2>3
<1>4. ASSUME NEW c \in Ctxs, ctx'[c].ready PROVE Serves(c)'
  <2>1. Serves(c) /\ ctx[c].ready
    BY <1>3, <1>4 DEF Order, Serving
  <2>2. LastOf(ctx'[c].hist) < Expected(c, ctx[c].bound)
    <3>1. CASE c \in DOMAIN job.backup
      <4>1. LastOf(db[c].hist) < job.bar
        BY <3>1 DEF Stored, TxStored
      <4>2. job.bar = Expected(c, ctx[c].bound)
        BY <2>1, <3>1 DEF Order, Serving, TxServes
      <4>3. ctx'[c].hist = db[c].hist
        BY <1>3, <3>1
      <4>4. QED
        BY <4>1, <4>2, <4>3
    <3>2. CASE c \notin DOMAIN job.backup
      <4>1. ctx'[c].hist = ctx[c].hist
        BY <1>3, <3>2
      <4>2. QED
        BY <2>1, <3>2, <4>1 DEF Serves, InFlight
    <3>3. QED
      BY <3>1, <3>2
  <2>3. QED
    BY <1>1, <1>3, <2>1, <2>2 DEF Serves, Expected, Later, LastOf, CeilBar
<1>5. Gapless'
  <2>1. \A c \in Ctxs : /\ Reached(c) => Reached(c)'
                        /\ EarlierOnly(c) => EarlierOnly(c)'
    BY <1>3 DEF Reached, EarlierOnly
  <2>2. Active' => Active
    BY <1>3 DEF Active
  <2>3. QED
    BY <1>1, <1>2, <1>3, <2>1, <2>2 DEF Order, Gapless
<1>6. DecidedPast' /\ DecidedInOrder'
  BY <1>1, ClockGoesOn, DecidedPastOn DEF Order, Serving, DecidedInOrder, CeilBar
<1>7. QED
  BY <1>1, <1>2, <1>4, <1>5, <1>6 DEF Order, Serving, TxServes, EndServes

LEMMA DecideBarsOrder ==
  ASSUME Shape, Timely, Current, Stored, Order, [Next]_vars, DecideBars
  PROVE  Order'
<1>0. At("flush", "decide") /\ InTx /\ UNCHANGED <<sock, agg>> /\ job \in Deciding /\ DOMAIN job.backup \subseteq Ctxs
  <2>1. At("flush", "decide") /\ InTx /\ UNCHANGED <<sock, agg>>
    BY DEF DecideBars, At, InTx
  <2>2. QED
    BY <2>1, RunningHave, DecidingHas DEF Shape
<1>1. CASE ~\A c \in job.work : ctx[c].ready /\ sock.connected
  BY <1>0, <1>1, RollbackOrder DEF DecideBars
<1>2. CASE \A c \in job.work : ctx[c].ready /\ sock.connected
  <2>1. job' = [job EXCEPT !.pc = "commit"] /\ UNCHANGED <<ctx, closed, decided>>
    BY <1>2 DEF DecideBars
  <2>2. /\ job'.kind = "flush" /\ job'.pc = "commit" /\ job'.work = job.work /\ job'.bar = job.bar /\ job'.backup = job.backup
    BY <1>0, <2>1 DEF Deciding
  <2>3. InTx' /\ ~At("finish", "ready")'
    BY <2>2 DEF InTx, At
  <2>4. TxServes'
    BY <1>0, <2>1, <2>2, <2>3 DEF Order, Serving, TxServes, Expected, Later, CeilBar
  <2>5. ASSUME NEW c \in Ctxs, ctx[c].ready PROVE Serves(c)'
    <3>1. Serves(c) /\ (InFlight(c)' <=> InFlight(c))
      BY <1>0, <2>2, <2>3, <2>5 DEF Order, Serving, InFlight
    <3>2. QED
      BY <1>0, <2>1, <3>1 DEF Serves, Expected, Later, LastOf, CeilBar
  <2>6. Gapless'
    BY <1>0, <2>1, <2>2, <2>3 DEF Order, Gapless, Active, Reached, EarlierOnly
  <2>7. DecidedPast' /\ DecidedInOrder'
    BY <2>1, ClockGoesOn, DecidedPastOn DEF Order, Serving, DecidedInOrder, CeilBar
  <2>8. QED
    BY <1>0, <2>1, <2>3, <2>4, <2>5, <2>6, <2>7 DEF Order, Serving, EndServes
<1>3. QED
  BY <1>1, <1>2

LEMMA CommitBarsOrder ==
  ASSUME Shape, Timely, Current, Stored, Order, [Next]_vars, CommitBars
  PROVE  Order'
<1>0. /\ At("flush", "commit") /\ InTx /\ UNCHANGED <<clock, sock, agg>> /\ job \in Deciding
      /\ DOMAIN job.backup \subseteq Ctxs /\ job.work \subseteq DOMAIN job.backup
      /\ job.bar \in Bars /\ job.bar \in Nat /\ job.bar < NowBar /\ agg.last \in Int /\ NowBar \in Nat /\ clock \in Nat
      /\ \A c \in DOMAIN job.backup : job.backup[c].bound \in Nat
  <2>1. At("flush", "commit") /\ InTx /\ UNCHANGED <<clock, sock, agg>>
    BY DEF CommitBars, At, InTx
  <2>2. job \in Deciding
    BY <2>1, RunningHave DEF Shape
  <2>3. job.work \subseteq DOMAIN job.backup /\ job.bar < NowBar
    BY <2>1 DEF Timely, JobTimely
  <2>4. QED
    BY <2>1, <2>2, <2>3, DecidingHas, ShapeFacts, Bounds DEF Bars, Marks
<1>1. /\ job' = [kind |-> "flush", pc |-> "next", upTo |-> job.upTo] /\ closed' = closed \ {job.bar}
      /\ ~InTx' /\ ~At("flush", "work")' /\ ~At("finish", "ready")'
  BY DEF CommitBars, InTx, At
<1>2. ASSUME NEW c \in Ctxs
      PROVE  /\ ctx'[c].ready = ctx[c].ready /\ ctx'[c].bound = ctx[c].bound /\ ctx'[c].hist = ctx[c].hist
             /\ c \notin job.work => decided'[c] = decided[c]
  <2>1. ctx[c] \in Contexts
    BY ShapeFacts
  <2>2. CASE c \in job.work
    <3>1. ctx'[c] = [ctx[c] EXCEPT !.last = job.bar]
      BY <2>2 DEF CommitBars
    <3>2. QED
      BY <2>1, <2>2, <3>1 DEF Contexts
  <2>3. CASE c \notin job.work
    BY <2>3 DEF CommitBars
  <2>4. QED
    BY <2>2, <2>3
<1>3. ASSUME NEW c \in job.work
      PROVE  LET n == Len(decided[c])
             IN /\ Len(decided'[c]) = n + 1 /\ DOMAIN decided'[c] = 1..n + 1 /\ n \in Nat
                /\ \A i \in 1..n : decided'[c][i] = decided[c][i]
                /\ decided'[c][n + 1] = <<job.bar, job.backup[c].bound>>
  <2>1. decided'[c] = Append(decided[c], <<job.bar, job.backup[c].bound>>)
    BY <1>0 DEF CommitBars
  <2>2. decided[c] \in Seq(Bars \X Nat) /\ <<job.bar, job.backup[c].bound>> \in Bars \X Nat
    BY <1>0 DEF Shape
  <2>3. QED
    BY <2>1, <2>2, AppendProperties, LenProperties
<1>4. ASSUME NEW c \in job.work
      PROVE  job.bar = Expected(c, job.backup[c].bound) /\ Later(c, job.bar)
  BY <1>0 DEF Order, Serving, TxServes
<1>5. job.bar \in Nat /\ \A c \in job.work : job.backup[c].bound < 2 * job.bar + 2 /\ 2 * job.bar + 2 <= clock
  <2> SUFFICES ASSUME NEW c \in job.work
               PROVE  job.backup[c].bound < 2 * job.bar + 2 /\ 2 * job.bar + 2 <= clock
    BY <1>0
  <2> DEFINE bound == job.backup[c].bound n == Len(decided[c]) first == CeilBar(bound)
  <2>1. c \in Ctxs /\ bound \in Nat /\ n \in Nat /\ first \in Nat /\ bound <= 2 * first
    BY <1>0, Halves, DecidedHas
  <2>2. 2 * NowBar <= clock
    BY <1>0, Halves DEF NowBar
  <2>3. CASE n > 0 /\ decided[c][n][2] = bound
    <3>1. n \in DOMAIN decided[c]
      BY <2>1, <2>3, DecidedHas
    <3>2. bound < 2 * decided[c][n][1] + 2 /\ decided[c][n][1] \in Nat
      BY <2>1, <2>3, <3>1, DecidedHas DEF Order, Serving, DecidedPast
    <3>3. job.bar = decided[c][n][1] + 1
      BY <1>4, <2>3 DEF Expected
    <3> HIDE DEF n, bound
    <3>4. bound < 2 * job.bar + 2
      BY <2>1, <3>2, <3>3
    <3>5. QED
      BY <1>0, <2>2, <3>4 DEF bound
  <2>4. CASE ~(n > 0 /\ decided[c][n][2] = bound)
    <3>1. job.bar = first
      BY <1>4, <2>4 DEF Expected
    <3> HIDE DEF first, n, bound
    <3>2. bound < 2 * job.bar + 2
      BY <1>0, <2>1, <3>1
    <3>3. QED
      BY <1>0, <2>2, <3>2 DEF bound
  <2>5. QED
    BY <2>3, <2>4
<1>6. DecidedPast'
  <2>1. SUFFICES ASSUME NEW c \in Ctxs, NEW i \in DOMAIN decided'[c]
                 PROVE  decided'[c][i][2] < 2 * decided'[c][i][1] + 2 /\ 2 * decided'[c][i][1] + 2 <= clock
    BY <1>0 DEF DecidedPast
  <2>2. CASE c \notin job.work
    BY <1>2, <2>1, <2>2 DEF Order, Serving, DecidedPast
  <2>3. CASE c \in job.work /\ i \in 1..Len(decided[c])
    <3>1. decided'[c][i] = decided[c][i] /\ i \in DOMAIN decided[c]
      BY <1>3, <2>3, DecidedHas
    <3>2. QED
      BY <2>1, <3>1 DEF Order, Serving, DecidedPast
  <2>4. CASE c \in job.work /\ i = Len(decided[c]) + 1
    <3>1. decided'[c][i] = <<job.bar, job.backup[c].bound>>
      BY <1>3, <2>4
    <3>2. QED
      BY <1>5, <2>4, <3>1
  <2>5. QED
    BY <1>3, <2>1, <2>2, <2>3, <2>4
<1>7. DecidedInOrder'
  <2> DEFINE InTurn(d, i) ==
        LET bar == d[i][1] bound == d[i][2]
            resumed == i = 1 \/ d[i - 1][2] # bound
        IN /\ i > 1 => bar > d[i - 1][1]
           /\ bar = IF resumed THEN CeilBar(bound) ELSE d[i - 1][1] + 1
  <2>1. \A c \in Ctxs : \A i \in DOMAIN decided[c] : InTurn(decided[c], i)
    BY DEF Order, DecidedInOrder
  <2>2. SUFFICES ASSUME NEW c \in Ctxs, NEW i \in DOMAIN decided'[c]
                 PROVE  InTurn(decided'[c], i)
    BY DEF DecidedInOrder, CeilBar
  <2>3. CASE c \notin job.work
    BY <1>2, <2>1, <2>2, <2>3
  <2>4. CASE c \in job.work /\ i \in 1..Len(decided[c])
    <3>0. i \in Nat /\ (i = 1 \/ i > 1) /\ i \in DOMAIN decided[c] /\ (i > 1 => i - 1 \in 1..Len(decided[c]))
      BY <2>4, DecidedHas
    <3>1. /\ decided'[c][i] = decided[c][i] /\ i \in DOMAIN decided[c] /\ i \in Nat
          /\ i > 1 => decided'[c][i - 1] = decided[c][i - 1]
          /\ i = 1 \/ i > 1
      BY <1>3, <2>4, <3>0
    <3>2. InTurn(decided[c], i)
      BY <2>1, <3>1
    <3>3. QED
      BY <3>1, <3>2
  <2>5. CASE c \in job.work /\ i = Len(decided[c]) + 1
    <3> DEFINE n == Len(decided[c]) bound == job.backup[c].bound
    <3>1. /\ n \in Nat /\ DOMAIN decided[c] = 1..n
          /\ decided'[c][i] = <<job.bar, bound>> /\ (n > 0 => decided'[c][n] = decided[c][n] /\ n \in DOMAIN decided[c])
      BY <1>3, <2>5, DecidedHas
    <3>2. job.bar = Expected(c, bound) /\ Later(c, job.bar)
      BY <1>4, <2>5
    <3>3. n > 0 => job.bar > decided[c][n][1] /\ decided[c][n][1] \in Nat
      BY <1>0, <3>1, <3>2, DecidedHas DEF Later
    <3>4. i = n + 1 /\ i - 1 = n /\ (i = 1 <=> n = 0) /\ (i > 1 <=> n > 0)
      BY <2>5, <3>1
    <3>5. job.bar = IF n > 0 /\ decided[c][n][2] = bound THEN decided[c][n][1] + 1 ELSE CeilBar(bound)
      BY <3>2 DEF Expected
    <3> HIDE DEF n, bound
    <3>6. QED
      BY <3>1, <3>3, <3>4, <3>5
  <2>6. QED
    BY <1>3, <2>2, <2>3, <2>4, <2>5
<1>8. ASSUME NEW c \in Ctxs, ctx[c].ready PROVE Serves(c)'
  <2> DEFINE bound == ctx[c].bound e == Expected(c, bound) first == CeilBar(bound)
  <2>1. e \in Nat /\ first \in Nat /\ bound \in Nat /\ LastOf(ctx[c].hist) \in Int
    BY ShapeFacts, ExpectedIs, Halves, Bounds DEF Marks
  <2>2. Active /\ Serves(c)
    BY <1>8 DEF Order, Serving, Active
  <2>3. /\ \A b \in Bars : b >= first => (b \in closed <=> e <= b /\ b <= agg.last)
        /\ e >= first /\ (e = first \/ e <= agg.last + 1) /\ Later(c, e)
    BY <2>2 DEF Serves
  <2>4. CASE c \in DOMAIN job.backup
    <3>1. c \in job.work /\ bound = job.backup[c].bound
      BY <1>0, <1>8, <2>4 DEF Order, Serving, TxServes
    <3>2. job.bar = e
      BY <1>4, <3>1
    <3>3. job.bar \in closed
      BY <1>0, <2>2 DEF Order, Gapless
    <3>4. job.bar <= agg.last
      BY <3>3 DEF Timely, AggTimely
    <3>5. LastOf(ctx[c].hist) = job.bar
      BY <1>0, <2>4, <3>1 DEF Stored, TxStored, At
    <3>0. PICK k \in Nat : k = job.bar + 1
      BY <1>0
    <3>6. Expected(c, bound)' = k
      <4>1. Len(decided'[c]) > 0 /\ decided'[c][Len(decided'[c])] = <<job.bar, job.backup[c].bound>>
        BY <1>3, <3>1
      <4>2. bound' = bound
        BY <1>2
      <4> HIDE DEF bound
      <4>3. QED
        BY <3>0, <3>1, <4>1, <4>2 DEF Expected
    <3>7. Later(c, k)'
      <4>1. SUFFICES ASSUME NEW i \in DOMAIN decided'[c] PROVE decided'[c][i][1] < job.bar + 1
        BY <3>0 DEF Later
      <4>2. CASE i \in 1..Len(decided[c])
        <5>1. decided'[c][i] = decided[c][i] /\ i \in DOMAIN decided[c]
          BY <1>3, <3>1, <4>2, DecidedHas
        <5>2. decided[c][i][1] < job.bar /\ decided[c][i][1] \in Nat
          BY <1>4, <3>1, <5>1, DecidedHas DEF Later
        <5>3. QED
          BY <1>0, <5>1, <5>2
      <4>3. CASE i = Len(decided[c]) + 1
        BY <1>0, <1>3, <3>1, <4>3
      <4>4. QED
        BY <1>3, <3>1, <4>1, <4>2, <4>3
    <3>8. first' = first /\ LastOf(ctx[c].hist)' = LastOf(ctx[c].hist)
      BY <1>2 DEF CeilBar, LastOf
    <3> HIDE DEF e, first
    <3>9. ASSUME NEW b \in Bars, b >= first PROVE b \in closed' <=> job.bar + 1 <= b /\ b <= agg.last
      <4>1. b \in closed <=> e <= b /\ b <= agg.last
        BY <2>3, <3>9
      <4>2. b \in Nat
        BY Bounds DEF Bars
      <4>3. QED
        BY <1>0, <1>1, <3>2, <4>1, <4>2
    <3>10. k \in Nat /\ k >= first /\ k <= agg.last + 1 /\ LastOf(ctx[c].hist) < k
      BY <1>0, <2>1, <2>3, <3>0, <3>2, <3>4, <3>5
    <3>11. Expected(c, ctx[c].bound)' = k /\ CeilBar(ctx[c].bound)' = first /\ Later(c, k)'
           /\ LastOf(ctx[c].hist)' < k
      BY <3>6, <3>7, <3>8, <3>10 DEF first
    <3> HIDE DEF bound
    <3>12. \A b \in Bars : b >= first => (b \in closed' <=> k <= b /\ b <= agg.last)
      BY <3>0, <3>9
    <3>13. QED
      BY <1>0, <3>10, <3>11, <3>12 DEF Serves
  <2>5. CASE c \notin DOMAIN job.backup
    <3>1. 2 * job.bar < bound /\ c \notin job.work
      BY <1>0, <1>8, <2>5 DEF Order, Serving, TxServes
    <3>2. ~(job.bar >= first)
      BY <1>0, <2>1, <3>1, FromBound
    <3>3. \A b \in Bars : b >= first => (b \in closed' <=> b \in closed)
      BY <1>1, <3>2
    <3>4. LastOf(ctx[c].hist) < e
      BY <2>2, <2>5 DEF Serves, InFlight
    <3>5. e' = e /\ first' = first /\ Later(c, e)' = Later(c, e) /\ LastOf(ctx[c].hist)' = LastOf(ctx[c].hist)
      BY <1>2, <3>1 DEF Expected, Later, CeilBar, LastOf
    <3> HIDE DEF e, first
    <3>6. /\ \A b \in Bars : b >= first' => (b \in closed' <=> e' <= b /\ b <= agg'.last)
          /\ e' >= first' /\ (e' = first' \/ e' <= agg'.last + 1) /\ Later(c, e)'
          /\ LastOf(ctx[c].hist)' < e'
      BY <1>0, <2>3, <3>3, <3>4, <3>5
    <3>7. QED
      BY <3>6 DEF Serves, e, first
  <2>6. QED
    BY <2>4, <2>5
<1>9. Gapless'
  <2>1. \A c \in Ctxs : /\ Reached(c) => Reached(c)'
                        /\ EarlierOnly(c) => EarlierOnly(c)'
    BY <1>0, <1>2 DEF Reached, EarlierOnly
  <2>2. Active' => Active
    BY <1>2 DEF Active
  <2>3. QED
    BY <1>0, <1>1, <1>2, <2>1, <2>2 DEF Order, Gapless
<1>10. QED
  BY <1>0, <1>1, <1>2, <1>6, <1>7, <1>8, <1>9 DEF Order, Serving, TxServes, EndServes

-----------------------------------------------------------------------------
(* Becoming ready.                                                         *)

\* What the boundary is about to separate: everything up to now is before it.
LEMMA FinishBoundaryOrder ==
  ASSUME Shape, Timely, Current, Stored, Order, [Next]_vars, FinishBoundary
  PROVE  Order'
<1>0. /\ At("finish", "boundary") /\ ~InTx /\ ~At("flush", "work") /\ job.c \in Ctxs
      /\ UNCHANGED <<clock, agg, closed, decided>> /\ sock'.confirmed = sock.confirmed
  <2>1. At("finish", "boundary") /\ UNCHANGED <<clock, agg, closed, decided>>
    BY DEF FinishBoundary
  <2>2. sock'.confirmed = sock.confirmed
    BY DEF FinishBoundary, Shape
  <2>3. job.c \in Ctxs
    BY <2>1, RunningHave DEF Shape, Recovering, At
  <2>4. QED
    BY <2>1, <2>2, <2>3 DEF At, InTx
<1>1. CASE ~Valid(job.c)
  <2>1. SetRec(job.c, NoRec) /\ job' = Idle
    BY <1>1 DEF FinishBoundary, Done
  <2>2. \A c \in Ctxs : ctx'[c].ready = ctx[c].ready /\ ctx'[c].bound = ctx[c].bound /\ ctx'[c].hist = ctx[c].hist
    BY <2>1, ShapeFacts DEF SetRec, Contexts, Shape
  <2>3. QED
    BY <1>0, <2>1, <2>2, Carried DEF InTx, At, Idle
<1>2. CASE Valid(job.c)
  <2>1. job' = [kind |-> "finish", pc |-> "ready", c |-> job.c, boundary |-> clock] /\ ctx' = ctx
    BY <1>2 DEF FinishBoundary
  <2>2. /\ job'.c = job.c /\ job'.boundary = clock /\ ~InTx' /\ ~At("flush", "work")' /\ At("finish", "ready")'
    BY <2>1 DEF InTx, At
  <2>3. EndServes'
    <3>1. ctx[job.c].hist # {} /\ ctx[job.c].hist \in Hists /\ Past(ctx[job.c].hist)
      BY <1>0, ShapeFacts DEF Stored, RecStored, Timely, CtxTimely
    <3>2. /\ clock \in Nat /\ NowBar \in Nat /\ CeilBar(clock) \in Nat
          /\ 2 * NowBar <= clock /\ clock <= 2 * CeilBar(clock)
      BY ShapeFacts, Halves DEF NowBar
    <3>3. PICK x \in ctx[job.c].hist : x[1] = LastOf(ctx[job.c].hist)
      BY <3>1, LastIs
    <3>4. x[1] \in Nat /\ x[1] < NowBar
      BY <3>1, Bounds DEF Hists, Bars, Past
    <3>5. agg.last < CeilBar(clock) /\ agg.open <= NowBar
      BY DEF Timely, AggTimely
    <3> DEFINE k == CeilBar(clock) m == NowBar
    <3>6. clock \div 2 = m
      BY DEF NowBar
    <3> HIDE DEF k, m
    <3>7. m \in Nat /\ k \in Nat /\ 2 * m <= clock /\ clock <= 2 * k /\ x[1] < m
      BY <3>2, <3>4 DEF k, m
    <3>8. clock >= 1 /\ x[1] < k
      BY <3>2, <3>4, <3>7
    <3>9. /\ clock >= 1
          /\ agg.last < k /\ agg.open <= clock \div 2
          /\ LastOf(ctx[job.c].hist) < k
          /\ \A i \in DOMAIN decided[job.c] : 2 * decided[job.c][i][1] + 2 <= clock
      BY <1>0, <3>3, <3>5, <3>6, <3>8 DEF k, m, Order, Serving, DecidedPast
    <3>10. k' = k
      BY <1>0 DEF k, CeilBar
    <3>11. LastOf(ctx[job.c].hist)' = LastOf(ctx[job.c].hist)
      BY <2>1, <2>2 DEF LastOf
    <3>12. CeilBar(job.boundary)' = k
      BY <2>2 DEF k, CeilBar
    <3>13. QED
      BY <1>0, <2>2, <3>9, <3>11, <3>12 DEF EndServes
  <2>4. ASSUME NEW c \in Ctxs, ctx[c].ready PROVE Serves(c)'
    <3>1. Serves(c) /\ ~InFlight(c)
      BY <1>0, <2>4 DEF Order, Serving, InFlight
    <3>2. QED
      BY <1>0, <2>1, <2>2, <3>1 DEF Serves, Expected, Later, LastOf, CeilBar
  <2>5. Gapless'
    BY <1>0, <2>1, <2>2 DEF Order, Gapless, Active, Reached, EarlierOnly
  <2>6. DecidedPast' /\ DecidedInOrder'
    BY <1>0, ClockGoesOn, DecidedPastOn DEF Order, Serving, DecidedInOrder, CeilBar
  <2>7. QED
    BY <1>0, <2>1, <2>2, <2>3, <2>4, <2>5, <2>6 DEF Order, Serving, TxServes
<1>3. QED
  BY <1>1, <1>2

\* The strategy that becomes ready starts at the first whole bar after the boundary, which no
\* closed bar has reached and for which nothing was decided.
LEMMA FinishReadyOrder ==
  ASSUME Shape, Timely, Current, Stored, Order, [Next]_vars, FinishReady
  PROVE  Order'
<1>0. /\ At("finish", "ready") /\ ~InTx /\ ~At("flush", "work") /\ job.c \in Ctxs /\ job' = Idle
      /\ UNCHANGED <<clock, closed, decided, sock>> /\ job.boundary \in Nat /\ ~ctx[job.c].ready
  <2>1. At("finish", "ready") /\ UNCHANGED <<clock, closed, decided, sock>> /\ job' = Idle
    BY DEF FinishReady, Done
  <2>2. job \in Finished
    BY <2>1, RunningHave DEF Shape
  <2>3. job.c \in Ctxs /\ job.boundary \in Nat
    BY <2>2 DEF Finished
  <2>4. ~ctx[job.c].ready
    BY <2>1 DEF Current, Recovering, At
  <2>5. QED
    BY <2>1, <2>3, <2>4 DEF At, InTx
<1>1. ~InTx' /\ ~At("flush", "work")' /\ ~At("finish", "ready")'
  BY <1>0 DEF InTx, At, Idle
<1>2. CASE ~Valid(job.c)
  <2>1. SetRec(job.c, NoRec) /\ UNCHANGED agg
    BY <1>2 DEF FinishReady
  <2>2. \A c \in Ctxs : ctx'[c].ready = ctx[c].ready /\ ctx'[c].bound = ctx[c].bound /\ ctx'[c].hist = ctx[c].hist
    BY <2>1, ShapeFacts DEF SetRec, Contexts, Shape
  <2>3. QED
    BY <1>0, <1>1, <2>1, <2>2, Carried
<1>3. CASE Valid(job.c)
  <2>0. PICK a \in Ctxs, B \in Nat : a = job.c /\ B = job.boundary
    BY <1>0
  <2> DEFINE alone == ~\E d \in Ctxs \ {a} : ctx[d].on /\ ctx[d].ready
             covered == B \div 2 - 1
             first == CeilBar(B)
             base == first - 1
  <2>1. /\ ctx' = [ctx EXCEPT ![a].ready = TRUE, ![a].bound = B, ![a].rec = NoRec]
        /\ agg' = IF ~alone THEN agg
                  ELSE [open |-> IF agg.open <= covered THEN -1 ELSE agg.open,
                        last |-> Max({agg.last, base}), final |-> Max({agg.final, covered})]
    BY <1>3, <2>0 DEF FinishReady
  <2>2. /\ ctx'[a].ready /\ ctx'[a].bound = B /\ ctx'[a].hist = ctx[a].hist
        /\ \A d \in Ctxs \ {a} : ctx'[d] = ctx[d]
    BY <2>1, ShapeFacts DEF Shape, Contexts
  <2>3. /\ B >= 1 /\ first \in Nat /\ B <= 2 * first /\ 2 * first < B + 2 /\ B \div 2 \in Nat
        /\ 2 * (B \div 2) <= B /\ covered \in Int /\ B < 2 * (B \div 2) + 2
        /\ agg.last < first /\ agg.open <= B \div 2 /\ LastOf(ctx[a].hist) < first
        /\ \A i \in DOMAIN decided[a] : 2 * decided[a][i][1] + 2 <= B
    <3>1. /\ B >= 1 /\ agg.last < first /\ agg.open <= B \div 2 /\ LastOf(ctx[a].hist) < first
          /\ \A i \in DOMAIN decided[a] : 2 * decided[a][i][1] + 2 <= B
      BY <1>0, <2>0 DEF Order, Serving, EndServes
    <3>2. /\ first \in Nat /\ B <= 2 * first /\ 2 * first < B + 2 /\ B \div 2 \in Nat
          /\ 2 * (B \div 2) <= B /\ B < 2 * (B \div 2) + 2
      BY Halves
    <3>3. covered \in Int
      BY <3>2
    <3> HIDE DEF first, covered
    <3>4. QED
      BY <3>1, <3>2, <3>3
  <2>4. /\ agg.last \in Int /\ agg.open \in Int /\ agg.final \in Int /\ agg.last >= -1
        /\ \A b \in closed : b \in Int /\ b <= agg.last
        /\ \A b \in Bars : b \in Int
    BY ShapeFacts, Bounds DEF Marks, Timely, AggTimely, Shape, Bars
  <2>5. Expected(a, B) = first /\ Later(a, first)
    <3>1. \A i \in DOMAIN decided[a] : decided[a][i][1] \in Nat /\ decided[a][i][2] \in Nat
                                       /\ decided[a][i][2] < 2 * decided[a][i][1] + 2
      BY DecidedHas DEF Order, Serving, DecidedPast
    <3> HIDE DEF first
    <3>2. \A i \in DOMAIN decided[a] : decided[a][i][1] < first /\ decided[a][i][2] # B
      <4> TAKE i \in DOMAIN decided[a]
      <4> DEFINE p == decided[a][i][1] q == decided[a][i][2]
      <4>1. p \in Nat /\ q \in Nat /\ q < 2 * p + 2 /\ 2 * p + 2 <= B
        BY <2>3, <3>1
      <4> HIDE DEF p, q
      <4>2. p < first /\ q # B
        BY <2>3, <4>1
      <4>3. QED
        BY <4>2 DEF p, q
    <3>3. Len(decided[a]) > 0 => Len(decided[a]) \in DOMAIN decided[a]
      BY DecidedHas
    <3>4. QED
      BY <3>2, <3>3 DEF Expected, Later, first
  <2>6. /\ agg'.last \in Int /\ agg.last <= agg'.last /\ agg'.last < first
        /\ alone => agg'.last = base
        /\ ~alone => agg' = agg
    <3> HIDE DEF first, alone, covered
    <3>1. CASE alone
      <4>1. Max({agg.last, base}) = base
        <5>1. base \in Int /\ (agg.last >= base => agg.last = base)
          BY <2>3, <2>4
        <5> HIDE DEF base
        <5>2. QED
          BY <2>4, <5>1, MaxOfTwo
      <4>2. QED
        BY <2>1, <2>3, <2>4, <3>1, <4>1
    <3>2. CASE ~alone
      BY <2>1, <2>3, <2>4, <3>2
    <3>3. QED
      BY <3>1, <3>2
  <2>7. agg'.open # -1 => agg'.open > agg'.final
    <3> HIDE DEF first, alone, covered, base
    <3>1. agg.open # -1 => agg.open > agg.final
      BY DEF Order, Serving
    <3>2. CASE alone
      <4>1. Max({agg.final, covered}) = IF agg.final >= covered THEN agg.final ELSE covered
        BY <2>3, <2>4, MaxOfTwo
      <4>2. QED
        BY <2>1, <2>3, <2>4, <3>1, <3>2, <4>1
    <3>3. CASE ~alone
      BY <2>6, <3>1, <3>3
    <3>4. QED
      BY <3>2, <3>3
  <2>8. ASSUME NEW b \in Bars, b <= agg'.last PROVE 2 * b < B
    <3> HIDE DEF first, alone, covered, base
    <3>1. b \in Int /\ b < first
      BY <2>3, <2>4, <2>6, <2>8
    <3>2. QED
      BY <2>3, <3>1
  <2>9. Serves(a)'
    <3>1. Expected(a, ctx[a].bound)' = first /\ CeilBar(ctx[a].bound)' = first /\ Later(a, first)'
          /\ LastOf(ctx[a].hist)' = LastOf(ctx[a].hist)
      <4>1. Expected(a, B)' = Expected(a, B) /\ Later(a, first)' = Later(a, first)
        BY <1>0 DEF Expected, Later, CeilBar
      <4>2. Expected(a, ctx[a].bound)' = Expected(a, B)'
        BY <2>2 DEF Expected, CeilBar
      <4>3. CeilBar(ctx[a].bound)' = CeilBar(B)
        BY <2>2 DEF CeilBar
      <4>4. LastOf(ctx[a].hist)' = LastOf(ctx[a].hist)
        BY <2>2 DEF LastOf
      <4>5. QED
        BY <2>5, <4>1, <4>2, <4>3, <4>4
    <3> HIDE DEF first, alone, covered, base
    <3>2. \A b \in Bars : b >= first => (b \in closed' <=> first <= b /\ b <= agg'.last)
      BY <1>0, <2>3, <2>4, <2>6
    <3>3. QED
      BY <2>3, <3>1, <3>2 DEF Serves
  <2>10. ASSUME NEW d \in Ctxs \ {a}, ctx[d].ready PROVE Serves(d)' /\ EarlierOnly(d)' /\ ~alone
    <3>1. Serves(d) /\ EarlierOnly(d) /\ ctx[d].on
      BY <2>10 DEF Order, Serving, Gapless, Active, Current
    <3>2. ~alone /\ agg' = agg
      BY <2>6, <2>10, <3>1
    <3>3. ~InFlight(d) /\ ~InFlight(d)'
      BY <1>0, <1>1 DEF InFlight
    <3> HIDE DEF alone
    <3>4. Serves(d)'
      BY <1>0, <2>2, <3>1, <3>2, <3>3 DEF Serves, Expected, Later, LastOf, CeilBar
    <3>5. EarlierOnly(d)'
      BY <2>2, <3>1, <3>2 DEF EarlierOnly
    <3>6. QED
      BY <3>2, <3>4, <3>5
  <2>11. EarlierOnly(a)'
    BY <2>2, <2>8 DEF EarlierOnly
  <2>12. agg'.last >= 0 /\ \E c \in Ctxs : Reached(c)'
    <3>1. CASE alone
      <4>1. agg'.last = first - 1
        BY <2>6, <3>1
      <4> HIDE DEF first, alone, covered, base
      <4>2. agg'.last >= 0 /\ 2 * (agg'.last + 1) >= B
        BY <2>3, <4>1
      <4>3. Reached(a)'
        BY <2>2, <4>2 DEF Reached
      <4>4. QED
        BY <4>2, <4>3
    <3>2. CASE ~alone
      <4>1. Active /\ agg' = agg
        BY <2>6, <3>2 DEF Active
      <4>2. PICK d \in Ctxs : Reached(d)
        BY <4>1 DEF Order, Gapless
      <4>3. d # a
        BY <1>0, <2>0, <4>2 DEF Reached
      <4>4. Reached(d)'
        BY <2>2, <4>1, <4>2, <4>3 DEF Reached
      <4>5. agg'.last >= 0
        BY <4>1 DEF Order, Gapless
      <4>6. QED
        BY <4>4, <4>5
    <3>3. QED
      BY <3>1, <3>2
  <2>13. ~sock'.confirmed => agg'.open <= agg'.last + 1
    <3>1. SUFFICES ASSUME ~sock.confirmed PROVE agg'.open <= agg'.last + 1
      BY <1>0
    <3>2. CASE alone
      <4>1. agg'.last = first - 1 /\ (agg'.open = -1 \/ agg'.open = agg.open)
        BY <2>1, <2>6, <3>2
      <4> DEFINE h == B \div 2
      <4>2. h \in Nat /\ 2 * h <= B /\ agg.open <= h
        BY <2>3
      <4> HIDE DEF first, alone, covered, base, h
      <4>3. h <= first
        BY <2>3, <4>2
      <4>4. QED
        BY <2>3, <2>4, <4>1, <4>2, <4>3
    <3>3. CASE ~alone
      <4>1. Active /\ agg' = agg
        BY <2>6, <3>3 DEF Active
      <4>2. QED
        BY <3>1, <4>1 DEF Order, Gapless
    <3>4. QED
      BY <3>2, <3>3
  <2>14. \A d \in Ctxs : ctx'[d].ready => Serves(d)' /\ EarlierOnly(d)'
    <3> TAKE d \in Ctxs
    <3>1. d = a \/ (d \in Ctxs \ {a} /\ ctx'[d] = ctx[d])
      BY <2>2
    <3>2. QED
      BY <2>9, <2>10, <2>11, <3>1
  <2>15. Gapless'
    BY <1>1, <2>12, <2>13, <2>14 DEF Gapless
  <2>16. DecidedPast' /\ DecidedInOrder'
    BY <1>0, ClockGoesOn, DecidedPastOn DEF Order, Serving, DecidedInOrder, CeilBar
  <2>17. QED
    BY <1>1, <2>7, <2>14, <2>15, <2>16 DEF Order, Serving, TxServes, EndServes
<1>4. QED
  BY <1>2, <1>3

-----------------------------------------------------------------------------
(* Every step.                                                             *)

\* A recovery that is started, answered or given up touches no history.
LEMMA SetRecKeeps ==
  ASSUME Shape, NEW c \in Ctxs, NEW rec, SetRec(c, rec)
  PROVE  \A d \in Ctxs : ctx'[d].ready = ctx[d].ready /\ ctx'[d].bound = ctx[d].bound /\ ctx'[d].hist = ctx[d].hist
BY ShapeFacts DEF SetRec, Contexts, Shape

\* A recovery job works for a strategy that is not ready.
LEMMA RecoveryOrder ==
  ASSUME Shape, Order, Current, [Next]_vars, Recovering, job.pc # "ready",
         UNCHANGED <<sock, agg, closed, decided>>,
         \A d \in Ctxs : /\ ctx'[d].ready = ctx[d].ready
                         /\ d # job.c => ctx'[d].bound = ctx[d].bound /\ ctx'[d].hist = ctx[d].hist,
         job' = Idle \/ (Recovering' /\ job'.pc # "ready")
  PROVE  Order'
<1>1. job.c \in Ctxs /\ ~ctx[job.c].ready
  BY RunningHave DEF Shape, Current
<1>2. ~InTx /\ ~InTx' /\ ~At("flush", "work")' /\ ~At("finish", "ready")'
  BY DEF InTx, At, Idle, Recovering
<1>3. \A d \in Ctxs : ctx[d].ready => ctx'[d].bound = ctx[d].bound /\ ctx'[d].hist = ctx[d].hist
  BY <1>1
<1>4. QED
  BY <1>2, <1>3, Carried

LEMMA OrderStep ==
  ASSUME Shape, Timely, Current, Stored, Order, [Next]_vars
  PROVE  Order'
<1>0. job \in Running /\ queue \in Seq(Jobs) /\ \A c \in Ctxs : ctx[c] \in Contexts
  BY ShapeFacts DEF Shape
<1>1. CASE Interrupt
  <2>1. \A c \in Ctxs : ctx'[c].hist = ctx[c].hist /\ ~ctx'[c].ready
    BY <1>0, <1>1 DEF Interrupt, Contexts
  <2>2. UNCHANGED <<job, decided>> /\ agg'.open = -1 /\ agg'.last = -1
    BY <1>1 DEF Interrupt, Shape
  <2>3. At("finish", "ready") => job.c \in Ctxs
    BY <1>0, RunningHave DEF Recovering, At
  <2>4. QED
    BY <2>1, <2>2, <2>3, Silenced
<1>2. CASE Subscribed
  <2>1. UNCHANGED <<job, ctx, agg, closed, decided>> /\ sock'.confirmed = sock.confirmed
    BY <1>2 DEF Subscribed, Shape
  <2>2. QED
    BY <2>1, Carried
<1>3. CASE ReceiveTrade
  BY <1>3, Carried DEF ReceiveTrade
<1>4. CASE TimePasses
  BY <1>4, Carried DEF TimePasses
<1>5. ASSUME NEW k \in {"flush", "refresh"}, Timer(k) PROVE Order'
  BY <1>5, Carried DEF Timer
<1>6. CASE RunMark
  <2>1. \A c \in Ctxs : ctx'[c].hist = ctx[c].hist /\ ~ctx'[c].ready
    BY <1>0, <1>6 DEF RunMark, Unready, Contexts
  <2>2. UNCHANGED <<job, decided, agg>> /\ ~At("finish", "ready")
    BY <1>6 DEF RunMark, Take, At, Idle
  <2>3. QED
    BY <2>1, <2>2, Silenced
<1>7. CASE RunReady
  <2>1. \A c \in Ctxs : ctx'[c].hist = ctx[c].hist /\ ~ctx'[c].ready
    BY <1>0, <1>7 DEF RunReady, Unready, Contexts
  <2>2. UNCHANGED <<job, decided, agg>> /\ ~At("finish", "ready")
    BY <1>7 DEF RunReady, Take, At, Idle
  <2>3. QED
    BY <2>1, <2>2, Silenced
<1>8. CASE RunRefresh
  <2>1. job = Idle /\ job' = Idle /\ UNCHANGED <<agg, closed, decided>> /\ sock'.confirmed = sock.confirmed
    BY <1>8 DEF RunRefresh, Take, Shape
  <2>2. ASSUME NEW c \in Ctxs
        PROVE  /\ ctx'[c].ready = ctx[c].ready
               /\ ctx[c].ready => ctx'[c].bound = ctx[c].bound /\ ctx'[c].hist = ctx[c].hist
    <3> DEFINE x == Refreshed(c)
    <3>1. ctx[c].ready => ctx[c].on
      BY DEF Current
    <3>2. /\ x \in Contexts /\ x.ready = ctx[c].ready
          /\ ctx[c].on => x.bound = ctx[c].bound /\ x.hist = ctx[c].hist
      <4>1. x \in Contexts
        BY RefreshedIs
      <4>2. CASE ctx[c].on
        BY <1>0, <4>1, <4>2 DEF Refreshed, Contexts
      <4>3. CASE ~ctx[c].on
        <5>1. ~ctx[c].ready
          BY <3>1, <4>3
        <5>2. x = [Off EXCEPT !.on = TRUE, !.bound = clock, !.hist = db[c].hist, !.last = db[c].last]
          BY <4>3 DEF Refreshed
        <5>3. x.ready = FALSE
          BY <5>2 DEF Off
        <5>4. ctx[c].ready = FALSE
          BY <1>0, <5>1 DEF Contexts
        <5>5. QED
          BY <4>1, <4>3, <5>3, <5>4
      <4>4. QED
        BY <4>2, <4>3
    <3>3. ctx'[c] = Launched(x)
      BY <1>8 DEF RunRefresh
    <3> HIDE DEF x
    <3>4. ctx'[c] = x \/ \E q \in Requests : ctx'[c] = [x EXCEPT !.rec = q]
      BY <3>2, <3>3, LaunchedIs
    <3>5. ctx'[c].hist = x.hist /\ ctx'[c].bound = x.bound /\ ctx'[c].ready = x.ready
      BY <3>2, <3>4 DEF Contexts
    <3>6. QED
      BY <3>1, <3>2, <3>5
  <2>3. ~InTx /\ ~InTx' /\ ~At("flush", "work")' /\ ~At("finish", "ready")'
    BY <2>1 DEF InTx, At, Idle
  <2>4. QED
    BY <2>1, <2>2, <2>3, Carried
<1>9. CASE RunTrade
  <2> DEFINE t == Head(queue)
  <2>1. t \in Waiting /\ t \in Jobs /\ t.kind = "trade" /\ job = Idle /\ UNCHANGED <<ctx, decided>>
    BY <1>0, <1>9, TakeRemoves DEF RunTrade
  <2>2. t.at \in Nat /\ t.at <= clock
    BY <2>1, JobsHave DEF Trades, Timely, QueueTimely
  <2>3. PICK bar \in Bars : bar = t.at \div 2
    BY <2>2, HalfPast
  <2> DEFINE f == FlushTo(bar)
  <2>4. CASE UNCHANGED <<sock, agg, closed, job>>
    BY <2>1, <2>4, Carried DEF Idle, At
  <2>5. CASE ~UNCHANGED <<sock, agg, closed, job>>
    <3>1. LET joins == bar > f.agg.final /\ f.agg.open \in {-1, bar}
          IN /\ agg' = IF joins THEN [f.agg EXCEPT !.open = bar] ELSE f.agg
             /\ sock' = [sock EXCEPT !.confirmed = @ \/ (joins /\ sock.connected)]
             /\ closed' = closed \cup f.out
             /\ job' = [kind |-> "flush", pc |-> "next", upTo |-> bar]
      BY <1>9, <2>3, <2>5 DEF RunTrade
    <3>2. job'.kind = "flush" /\ job'.pc = "next"
      BY <3>1
    <3>3. \/ agg' = f.agg /\ sock'.confirmed = sock.confirmed
          \/ agg' = [f.agg EXCEPT !.open = bar] /\ bar > f.agg.final /\ (sock.connected => sock'.confirmed)
      <4>1. sock.confirmed \in BOOLEAN /\ sock.connected \in BOOLEAN
        BY ShapeFacts
      <4> HIDE DEF f
      <4>2. CASE bar > f.agg.final /\ f.agg.open \in {-1, bar}
        BY <3>1, <4>1, <4>2 DEF Shape
      <4>3. CASE ~(bar > f.agg.final /\ f.agg.open \in {-1, bar})
        BY <3>1, <4>1, <4>3 DEF Shape
      <4>4. QED
        BY <4>2, <4>3
    <3>4. QED
      BY <2>1, <3>1, <3>2, <3>3, FlushOrder
  <2>6. QED
    BY <2>4, <2>5
<1>10. CASE RunFlush
  <2> DEFINE t == Head(queue)
  <2>1. t \in Waiting /\ t \in Jobs /\ t.kind = "flush" /\ job = Idle /\ UNCHANGED <<ctx, decided, sock>>
    BY <1>0, <1>10, TakeRemoves DEF RunFlush
  <2>2. t.at \in Nat /\ t.at <= clock
    BY <2>1, JobsHave DEF Timers, Timely, QueueTimely
  <2>3. PICK bar \in Bars : bar = t.at \div 2
    BY <2>2, HalfPast
  <2>4. agg' = FlushTo(bar).agg /\ closed' = closed \cup FlushTo(bar).out /\ job'.kind = "flush" /\ job'.pc = "next"
    BY <1>10, <2>3 DEF RunFlush
  <2>5. QED
    BY <2>1, <2>4, FlushOrder
<1>11. CASE SaveBar
  BY <1>11, SaveBarOrder
<1>12. CASE SelectWork
  BY <1>12, SelectWorkOrder
<1>13. CASE Evaluate
  BY <1>13, EvaluateOrder
<1>14. CASE DecideBars
  BY <1>14, DecideBarsOrder
<1>15. CASE CommitBars
  BY <1>15, CommitBarsOrder
<1>16. CASE FailBars
  <2>1. InTx /\ Rollback /\ UNCHANGED <<sock, agg>>
    BY <1>16 DEF FailBars, InTx, At
  <2>2. QED
    BY <2>1, RollbackOrder
<1>17. CASE RunApply
  <2> DEFINE t == Head(queue)
  <2>1. PICK c \in Ctxs : c = t.c
    BY <1>0, <1>17, TakeRemoves, JobsHave DEF RunApply
  <2>2. job = Idle /\ UNCHANGED <<sock, agg, closed, decided>>
    BY <1>17 DEF RunApply, Take
  <2>3. \/ job'.kind = "apply" /\ UNCHANGED ctx
        \/ job' = job /\ SetRec(c, NoRec)
    BY <1>17, <2>1 DEF RunApply
  <2>4. \A d \in Ctxs : ctx'[d].ready = ctx[d].ready /\ ctx'[d].bound = ctx[d].bound /\ ctx'[d].hist = ctx[d].hist
    BY <2>3, SetRecKeeps
  <2>5. ~InTx /\ ~InTx' /\ ~At("flush", "work")' /\ ~At("finish", "ready")'
    BY <2>2, <2>3 DEF InTx, At, Idle
  <2>6. QED
    BY <2>2, <2>4, <2>5, Carried
<1>18. CASE CommitApply
  <2>1. Recovering /\ job.pc # "ready" /\ UNCHANGED <<sock, agg, closed, decided, ctx>>
    BY <1>18 DEF CommitApply, At, Recovering
  <2>2. Recovering' /\ job'.pc # "ready"
    <3>1. job \in Applying /\ job' = [job EXCEPT !.pc = "memory"]
      BY <1>0, <1>18, RunningHave DEF CommitApply
    <3>2. QED
      BY <3>1 DEF Applying, Recovering
  <2>3. QED
    BY <2>1, <2>2, RecoveryOrder
<1>19. CASE ApplyMemory
  <2>1. Recovering /\ job.pc # "ready" /\ UNCHANGED <<sock, agg, closed, decided>> /\ job' = Idle
    BY <1>19 DEF ApplyMemory, At, Recovering, Done
  <2>2. job.c \in Ctxs
    BY <1>0, <2>1, RunningHave
  <2>3. SetRec(job.c, NoRec) \/ ctx' = [ctx EXCEPT ![job.c] = Adopt(job.c, job.hist)]
    BY <1>19 DEF ApplyMemory
  <2>4. \A d \in Ctxs : /\ ctx'[d].ready = ctx[d].ready
                        /\ d # job.c => ctx'[d].bound = ctx[d].bound /\ ctx'[d].hist = ctx[d].hist
    <3>1. CASE SetRec(job.c, NoRec)
      BY <2>2, <3>1, SetRecKeeps
    <3>2. CASE ctx' = [ctx EXCEPT ![job.c] = Adopt(job.c, job.hist)]
      BY <1>0, <2>2, <3>2 DEF Adopt, Contexts, Shape
    <3>3. QED
      BY <2>3, <3>1, <3>2
  <2>5. QED
    BY <2>1, <2>4, RecoveryOrder
<1>20. CASE RunFinish
  <2> DEFINE t == Head(queue)
  <2>1. PICK c \in Ctxs : c = t.c
    BY <1>0, <1>20, TakeRemoves, JobsHave DEF RunFinish
  <2>2. job = Idle /\ UNCHANGED <<sock, agg, closed, decided>>
    BY <1>20 DEF RunFinish, Take
  <2>3. \/ job'.kind = "finish" /\ job'.pc = "append" /\ UNCHANGED ctx
        \/ job' = job /\ SetRec(c, NoRec)
    BY <1>20, <2>1 DEF RunFinish
  <2>4. \A d \in Ctxs : ctx'[d].ready = ctx[d].ready /\ ctx'[d].bound = ctx[d].bound /\ ctx'[d].hist = ctx[d].hist
    BY <2>3, SetRecKeeps
  <2>5. ~InTx /\ ~InTx' /\ ~At("flush", "work")' /\ ~At("finish", "ready")'
    BY <2>2, <2>3 DEF InTx, At, Idle
  <2>6. QED
    BY <2>2, <2>4, <2>5, Carried
<1>21. CASE FinishAppend
  <2>1. Recovering /\ job.pc # "ready" /\ UNCHANGED <<sock, agg, closed, decided>>
    BY <1>21 DEF FinishAppend, At, Recovering
  <2>2. job.c \in Ctxs /\ ~ctx[job.c].ready /\ job \in Finishing
    BY <1>0, <1>21, <2>1, RunningHave DEF Current, FinishAppend
  <2>3. \/ SetRec(job.c, NoRec)
        \/ ctx' = [ctx EXCEPT ![job.c].hist = job.hist, ![job.c].last = LastOf(job.hist)]
        \/ ctx' = [ctx EXCEPT ![job.c] = [Adopt(job.c, job.hist) EXCEPT !.ready = FALSE, !.rec = NoRec]]
    BY <1>21 DEF FinishAppend
  <2>4. job' = Idle \/ (Recovering' /\ job'.pc # "ready")
    <3>1. \/ job' = Idle \/ job' = [job EXCEPT !.pc = "boundary"]
          \/ \E h : job' = [job EXCEPT !.pc = "warm", !.hist = h]
      BY <1>21 DEF FinishAppend, Done
    <3>2. QED
      BY <2>2, <3>1 DEF Finishing, Recovering
  <2>5. \A d \in Ctxs : /\ ctx'[d].ready = ctx[d].ready
                        /\ d # job.c => ctx'[d].bound = ctx[d].bound /\ ctx'[d].hist = ctx[d].hist
    <3>1. CASE SetRec(job.c, NoRec)
      BY <2>2, <3>1, SetRecKeeps
    <3>2. CASE ctx' = [ctx EXCEPT ![job.c].hist = job.hist, ![job.c].last = LastOf(job.hist)]
      BY <1>0, <2>2, <3>2 DEF Contexts, Shape
    <3>3. CASE ctx' = [ctx EXCEPT ![job.c] = [Adopt(job.c, job.hist) EXCEPT !.ready = FALSE, !.rec = NoRec]]
      <4>1. \A d \in Ctxs : d # job.c => ctx'[d] = ctx[d]
        BY <2>2, <3>3 DEF Shape
      <4>2. ctx'[job.c].ready = FALSE
        BY <1>0, <2>2, <3>3 DEF Adopt, Contexts, Shape
      <4>3. ctx[job.c].ready = FALSE
        BY <1>0, <2>2 DEF Contexts
      <4>4. QED
        BY <4>1, <4>2, <4>3
    <3>4. QED
      BY <2>3, <3>1, <3>2, <3>3
  <2>6. QED
    BY <2>1, <2>4, <2>5, RecoveryOrder
<1>22. CASE FinishWarm
  <2>1. Recovering /\ job.pc # "ready" /\ UNCHANGED <<sock, agg, closed, decided>>
    BY <1>22 DEF FinishWarm, At, Recovering
  <2>2. job.c \in Ctxs /\ job \in Finishing
    BY <1>0, <1>22, <2>1, RunningHave DEF FinishWarm
  <2>3. SetRec(job.c, NoRec) \/ ctx' = [ctx EXCEPT ![job.c] = Adopt(job.c, job.hist)]
    BY <1>22 DEF FinishWarm
  <2>4. job' = Idle \/ (Recovering' /\ job'.pc # "ready")
    <3>1. job' = Idle \/ job' = [job EXCEPT !.pc = "boundary"]
      BY <1>22 DEF FinishWarm, Done
    <3>2. QED
      BY <2>2, <3>1 DEF Finishing, Recovering
  <2>5. \A d \in Ctxs : /\ ctx'[d].ready = ctx[d].ready
                        /\ d # job.c => ctx'[d].bound = ctx[d].bound /\ ctx'[d].hist = ctx[d].hist
    <3>1. CASE SetRec(job.c, NoRec)
      BY <2>2, <3>1, SetRecKeeps
    <3>2. CASE ctx' = [ctx EXCEPT ![job.c] = Adopt(job.c, job.hist)]
      BY <1>0, <2>2, <3>2 DEF Adopt, Contexts, Shape
    <3>3. QED
      BY <2>3, <3>1, <3>2
  <2>6. QED
    BY <2>1, <2>4, <2>5, RecoveryOrder
<1>23. CASE FinishBoundary
  BY <1>23, FinishBoundaryOrder
<1>24. CASE FinishReady
  BY <1>24, FinishReadyOrder
<1>25. ASSUME NEW c \in Ctxs, NEW missing \in {0, 1}, HistoryAnswers(c, missing) PROVE Order'
  <2>1. \E rec : SetRec(c, rec)
    BY <1>25 DEF HistoryAnswers
  <2>2. \A d \in Ctxs : ctx'[d].ready = ctx[d].ready /\ ctx'[d].bound = ctx[d].bound /\ ctx'[d].hist = ctx[d].hist
    BY <2>1, SetRecKeeps
  <2>3. UNCHANGED <<sock, agg, closed, job, decided>> /\ (At("finish", "ready") => job.c \in Ctxs)
    BY <1>0, <1>25, RunningHave DEF HistoryAnswers, Recovering, At
  <2>4. QED
    BY <2>2, <2>3, Carried
<1>26. ASSUME NEW c \in Ctxs, HistoryFails(c) PROVE Order'
  <2>1. \E rec : SetRec(c, rec)
    BY <1>26 DEF HistoryFails
  <2>2. \A d \in Ctxs : ctx'[d].ready = ctx[d].ready /\ ctx'[d].bound = ctx[d].bound /\ ctx'[d].hist = ctx[d].hist
    BY <2>1, SetRecKeeps
  <2>3. UNCHANGED <<sock, agg, closed, job, decided>> /\ (At("finish", "ready") => job.c \in Ctxs)
    BY <1>0, <1>26, RunningHave DEF HistoryFails, Recovering, At
  <2>4. QED
    BY <2>2, <2>3, Carried
<1>27. CASE Crash
  <2>1. /\ job' = Idle /\ closed' = {} /\ agg'.open = -1 /\ UNCHANGED decided
        /\ \A c \in Ctxs : ~ctx'[c].ready
    BY <1>27 DEF Crash, Off
  <2>2. ~InTx' /\ ~At("finish", "ready")' /\ ~Active'
    BY <2>1 DEF InTx, At, Idle, Active
  <2>3. DecidedPast' /\ DecidedInOrder'
    BY <2>1, ClockGoesOn, DecidedPastOn DEF Order, Serving, DecidedInOrder, CeilBar
  <2>4. QED
    BY <2>1, <2>2, <2>3 DEF Order, Gapless, Serving, TxServes, EndServes
<1>28. CASE UNCHANGED vars
  BY <1>28, Carried DEF vars
<1>29. QED
  BY <1>1, <1>2, <1>3, <1>4, <1>5, <1>6, <1>7, <1>8, <1>9, <1>10, <1>11, <1>12, <1>13, <1>14, <1>15, <1>16,
     <1>17, <1>18, <1>19, <1>20, <1>21, <1>22, <1>23, <1>24, <1>25, <1>26, <1>27, <1>28 DEF Next, JobStep

LEMMA OrderInit == Init => Order
<1> SUFFICES ASSUME Init PROVE Order
  OBVIOUS
<1>1. /\ job = Idle /\ agg.open = -1
      /\ \A c \in Ctxs : ctx[c] = Off /\ decided[c] = <<>>
  BY DEF Init
<1>2. \A c \in Ctxs : ~ctx[c].ready /\ DOMAIN decided[c] = {}
  BY <1>1 DEF Off
<1>3. ~InTx /\ ~At("finish", "ready") /\ ~Active
  BY <1>1, <1>2 DEF InTx, At, Idle, Active
<1>4. QED
  BY <1>1, <1>2, <1>3 DEF Order, Gapless, Serving, TxServes, EndServes, DecidedPast, DecidedInOrder

\* In every reachable state the bars that wait are those the ready strategies still have to
\* decide, and the aggregator closes the next one next.
THEOREM OrderInductive == Spec => []IInv
<1>1. Init => IInv
  BY RecoveryInit, OrderInit DEF IInv
<1>2. IInv /\ [Next]_vars => IInv'
  BY ShapeStep, TimelyStep, CurrentStep, StoredStep, OrderStep DEF IInv, RecoveryInv
<1>3. QED
  BY <1>1, <1>2, PTL DEF Spec

\* A strategy decides bar after bar: none twice, none out of order, and from the first whole
\* bar after its boundary on none is left out while it stays ready, whatever transaction fails
\* and whatever breaks or restarts in between.
THEOREM BarsDecidedInOrder == Spec => []DecidedInOrder
<1>1. IInv => DecidedInOrder
  BY DEF IInv, Order
<1>2. QED
  BY <1>1, OrderInductive, PTL

=============================================================================
