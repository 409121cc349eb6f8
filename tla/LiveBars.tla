------------------------------- MODULE LiveBars -------------------------------
(* Closed-bar execution and recovery of the live service for one pool: the     *)
(* serial queue of jobs, the socket callbacks and history answers that run     *)
(* between the awaits of a job, the transaction in which bars are decided, and *)
(* the database that outlives the process.                                     *)
(*                                                                             *)
(* The clock counts half bars: bar k opens at 2 * k and closes at 2 * k + 2.   *)
(* A history is the set of pairs <<bar, kind>> an evaluator has consumed, and  *)
(* kind is "flat" for a bar that applyHistory filled in.                       *)
EXTENDS Integers, Sequences, FiniteSets, FiniteSetsExt, SequencesExt

CONSTANTS
  Ctxs,       \* strategies (runs) that watch the pool
  Required,   \* localWarmupBars
  Start, MaxClock,
  MaxQueue,   \* bound on queued work (2000 trades in the code)
  MaxBreaks, MaxCrashes, MaxFails, MaxFaults  \* of each kind and together

ASSUME BoundsNat == Required \in Nat \ {0} /\ MaxClock \in Nat /\ Start \in 0..MaxClock

VARIABLES
  clock, faults,
  sock,    \* [session, epoch, connected, confirmed]; session 0 is none
  agg,     \* aggregator: [open, last, final], bars; -1 is none
  closed,  \* closedBars waiting to be executed
  queue,   \* jobs not yet started
  job,     \* the running job and where it stands
  ctx,     \* in memory: [on, ready, bound, hist, last, rec]
  db,      \* live_watches: [hist, last]
  kline,   \* meme_kline: source of each stored bar
  decided  \* per strategy, the bars on which it took a committed decision
vars == <<clock, faults, sock, agg, closed, queue, job, ctx, db, kline, decided>>

Bars == 0 .. MaxClock
NowBar == clock \div 2
CeilBar(t) == (t + 1) \div 2
Idle == [kind |-> "idle"]
NoRec == [stage |-> "none"]
LastOf(hist) == Max({-1} \cup {h[1] : h \in hist})
Off == [on |-> FALSE, ready |-> FALSE, bound |-> 0, hist |-> {}, last |-> -1, rec |-> NoRec]

Job(kind) == [kind |-> kind]
Enqueue(j) == queue' = Append(queue, j)
Queued(kind) == \E i \in DOMAIN queue : queue[i].kind = kind
Spare == Len(queue) < MaxQueue
Spared == faults.breaks + faults.crashes + faults.fails < MaxFaults
Done == job' = Idle
At(kind, pc) == job.kind = kind /\ job.pc = pc

(* valid() of launchRecovery: the subscription and the boundary are still the  *)
(* ones the recovery was launched under.                                       *)
\* Mutant: the boundary and the run are not compared.
Valid_SessionOnly(c) == ctx[c].on /\ ctx[c].rec.stage # "none" /\ ctx[c].rec.session # 0
Valid(c) ==
  /\ ctx[c].on /\ ctx[c].rec.stage # "none"
  /\ ctx[c].rec.session = sock.session /\ ctx[c].rec.epoch = sock.epoch
  /\ ctx[c].rec.bound = ctx[c].bound

(* --------------------------- socket callbacks ----------------------------- *)
(* interruptMarket fences everything before any asynchronous work; it also     *)
(* runs when a queue overflows or a trade is malformed.                        *)
Interrupt ==
  /\ sock.session # 0 /\ faults.breaks < MaxBreaks /\ Spared
  /\ faults' = [faults EXCEPT !.breaks = @ + 1]
  /\ sock' = [sock EXCEPT !.session = 0, !.epoch = clock, !.connected = FALSE, !.confirmed = FALSE]
  /\ ctx' = [c \in Ctxs |-> [ctx[c] EXCEPT !.ready = FALSE, !.bound = clock]]
  /\ agg' = [agg EXCEPT !.open = -1, !.last = -1]
  /\ closed' = {}
  /\ Enqueue(Job("mark"))
  /\ UNCHANGED <<clock, job, db, kline, decided>>

Subscribed ==
  /\ sock.session = 0 /\ \E c \in Ctxs : ctx[c].on
  /\ sock' = [sock EXCEPT !.session = faults.breaks + faults.crashes + 1, !.epoch = clock]
  /\ Enqueue(Job("ready"))
  /\ UNCHANGED <<clock, faults, agg, closed, job, ctx, db, kline, decided>>

(* receiveTrade: a trade of the current bar is queued with its session.        *)
ReceiveTrade ==
  /\ sock.session # 0 /\ Spare /\ ~Queued("trade")
  /\ \E c \in Ctxs : ctx[c].on
  /\ Enqueue([kind |-> "trade", at |-> clock, session |-> sock.session, epoch |-> sock.epoch])
  /\ UNCHANGED <<clock, faults, sock, agg, closed, job, ctx, db, kline, decided>>

TimePasses ==
  /\ clock < MaxClock /\ clock' = clock + 1
  /\ UNCHANGED <<faults, sock, agg, closed, queue, job, ctx, db, kline, decided>>
Timer(kind) ==
  /\ Spare /\ ~Queued(kind) /\ job.kind # kind
  /\ Enqueue([kind |-> kind, at |-> clock])
  /\ UNCHANGED <<clock, faults, sock, agg, closed, job, ctx, db, kline, decided>>

(* ------------------------------ short jobs -------------------------------- *)
Take(kind) == job = Idle /\ queue # <<>> /\ Head(queue).kind = kind /\ queue' = Tail(queue)
(* markRecovering of every strategy on the pool.                               *)
Unready == [c \in Ctxs |-> [ctx[c] EXCEPT !.ready = FALSE]]
RunMark ==
  /\ Take("mark") /\ ctx' = Unready
  /\ UNCHANGED <<clock, faults, sock, agg, closed, job, db, kline, decided>>
RunReady ==
  /\ Take("ready")
  /\ sock' = [sock EXCEPT !.connected = TRUE]
  /\ ctx' = [c \in Ctxs |-> [Unready[c] EXCEPT !.bound = IF ctx[c].on THEN clock ELSE @]]
  /\ UNCHANGED <<clock, faults, agg, closed, job, db, kline, decided>>

(* refresh: reads live_watches, creates the contexts of a new process, and     *)
(* launches a recovery for whoever is not ready.                               *)
Refreshed(c) ==
  IF ctx[c].on THEN [ctx[c] EXCEPT !.last = db[c].last]
  ELSE [Off EXCEPT !.on = TRUE, !.bound = clock, !.hist = db[c].hist, !.last = db[c].last]
\* Mutant: a recovery waits for the first trade.
Launched_OnceTraded(x) ==
  IF x.ready \/ x.rec.stage # "none" \/ sock.session = 0 \/ ~sock.confirmed THEN x
  ELSE [x EXCEPT !.rec = [stage |-> "history", session |-> sock.session, epoch |-> sock.epoch, bound |-> x.bound,
                          from |-> x.last + 1, to |-> NowBar]]
Launched(x) ==
  IF x.ready \/ x.rec.stage # "none" \/ sock.session = 0 THEN x
  ELSE [x EXCEPT !.rec = [stage |-> "history", session |-> sock.session, epoch |-> sock.epoch, bound |-> x.bound,
                          from |-> x.last + 1, to |-> NowBar]]
RunRefresh ==
  /\ Take("refresh")
  /\ ctx' = [c \in Ctxs |-> Launched(Refreshed(c))]
  /\ sock' = [sock EXCEPT !.connected = @ \/ (sock.session # 0 /\ \E c \in Ctxs : ~ctx[c].on)]
  /\ UNCHANGED <<clock, faults, agg, closed, job, db, kline, decided>>

(* ----------------------- flushBars and executeBars ------------------------ *)
MayFill(last) ==
  last >= 0 /\ sock.connected /\ sock.confirmed /\ \E c \in Ctxs : ctx[c].on /\ 2 * (last + 1) >= ctx[c].bound
FlushTo(bar) ==
  LET until == IF agg.open = -1 THEN bar - 1 ELSE Min({bar - 1, agg.open - 1})
      fill1 == IF MayFill(agg.last) THEN agg.last + 1 .. until ELSE {}
      done == IF agg.open \in 0 .. bar - 1 THEN {agg.open} ELSE {}
      last == Max({agg.last} \cup fill1 \cup done)
      fill2 == IF MayFill(last) THEN last + 1 .. bar - 1 ELSE {}
      out == fill1 \cup done \cup fill2
  IN [out |-> out, agg |-> [open |-> IF done = {} THEN agg.open ELSE -1,
                            last |-> Max({last} \cup fill2), final |-> Max({agg.final} \cup out)]]

(* A trade job flushes up to its own time, then joins the bar of that time.    *)
RunTrade ==
  /\ Take("trade")
  /\ LET t == Head(queue) bar == t.at \div 2 f == FlushTo(bar)
     IN IF t.session # sock.session \/ t.epoch # sock.epoch \/ bar < CeilBar(sock.epoch) \/ ~\E c \in Ctxs : ctx[c].on
        THEN UNCHANGED <<sock, agg, closed, job>>
        ELSE LET joins == bar > f.agg.final /\ f.agg.open \in {-1, bar}
             IN /\ agg' = IF joins THEN [f.agg EXCEPT !.open = bar] ELSE f.agg
                /\ sock' = [sock EXCEPT !.confirmed = @ \/ (joins /\ sock.connected)]
                /\ closed' = closed \cup f.out
                /\ job' = [kind |-> "flush", pc |-> "next", upTo |-> bar]
  /\ UNCHANGED <<clock, faults, ctx, db, kline, decided>>
RunFlush ==
  /\ Take("flush")
  /\ LET bar == Head(queue).at \div 2 f == FlushTo(bar)
     IN /\ agg' = f.agg /\ closed' = closed \cup f.out
        /\ job' = [kind |-> "flush", pc |-> "next", upTo |-> bar]
  /\ UNCHANGED <<clock, faults, sock, ctx, db, kline, decided>>

(* The earliest closed bar is stored, then executed.                           *)
SaveBar ==
  /\ At("flush", "next")
  /\ IF {b \in closed : b < job.upTo} = {} THEN Done /\ UNCHANGED kline
     ELSE LET b == Min(closed)
          IN /\ kline' = [kline EXCEPT ![b] = IF @ = "none" THEN "ws" ELSE @]
             /\ job' = [kind |-> "flush", pc |-> "work", upTo |-> job.upTo, bar |-> b]
  /\ UNCHANGED <<clock, faults, sock, agg, closed, queue, ctx, db, decided>>
Work(c, b) ==
  /\ ctx[c].on /\ ctx[c].ready /\ sock.connected
  /\ 2 * b >= ctx[c].bound /\ b > LastOf(ctx[c].hist)
SelectWork ==
  /\ At("flush", "work")
  /\ LET work == {c \in Ctxs : Work(c, job.bar)}
     IN IF work = {} THEN /\ closed' = closed \ {job.bar}
                          /\ job' = [kind |-> "flush", pc |-> "next", upTo |-> job.upTo]
        ELSE /\ job' = [kind |-> "flush", pc |-> "evaluate", upTo |-> job.upTo, bar |-> job.bar, work |-> work,
                        backup |-> [c \in work |-> [hist |-> ctx[c].hist, last |-> ctx[c].last, bound |-> ctx[c].bound]]]
             /\ UNCHANGED closed
  /\ UNCHANGED <<clock, faults, sock, agg, queue, ctx, db, kline, decided>>
(* Inside the transaction the saved state is read again and the bar consumed.  *)
Rereads(c) == IF db[c].hist # {} THEN db[c].hist ELSE ctx[c].hist
Evaluate ==
  /\ At("flush", "evaluate")
  /\ LET live == IF sock.connected THEN {c \in job.work : db[c].last < job.bar} ELSE {}
     IN /\ ctx' = [c \in Ctxs |-> IF c \in live THEN [ctx[c] EXCEPT !.hist = Rereads(c) \cup {<<job.bar, "real">>}]
                                  ELSE ctx[c]]
        /\ job' = [job EXCEPT !.pc = "decide", !.work = live]
  /\ UNCHANGED <<clock, faults, sock, agg, closed, queue, db, kline, decided>>
\* Mutant: the evaluator is not restored.
RestoredCtx_Kept(c) == ctx[c]
RestoredCtx(c) == [ctx[c] EXCEPT !.hist = job.backup[c].hist, !.last = job.backup[c].last]
\* Mutant: the bar that failed is not tried again.
Rollback_BarDropped ==
  /\ ctx' = [c \in Ctxs |-> IF c \in DOMAIN job.backup /\ ctx[c].on THEN RestoredCtx(c) ELSE ctx[c]]
  /\ Done /\ closed' = closed \ {job.bar} /\ UNCHANGED <<db, decided>>
Rollback ==
  /\ ctx' = [c \in Ctxs |-> IF c \in DOMAIN job.backup /\ ctx[c].on THEN RestoredCtx(c) ELSE ctx[c]]
  /\ Done /\ UNCHANGED <<closed, db, decided>>
(* An interruption inside the transaction rolls the whole round back.          *)
DecideBars ==
  /\ At("flush", "decide")
  /\ IF ~\A c \in job.work : ctx[c].ready /\ sock.connected THEN Rollback
     ELSE job' = [job EXCEPT !.pc = "commit"] /\ UNCHANGED <<ctx, closed, db, decided>>
  /\ UNCHANGED <<clock, faults, sock, agg, queue, kline>>
CommitBars ==
  /\ At("flush", "commit")
  /\ db' = [c \in Ctxs |-> IF c \in job.work THEN [hist |-> ctx[c].hist, last |-> job.bar] ELSE db[c]]
  /\ ctx' = [c \in Ctxs |-> IF c \in job.work THEN [ctx[c] EXCEPT !.last = job.bar] ELSE ctx[c]]
  /\ decided' = [c \in Ctxs |-> IF c \in job.work THEN Append(decided[c], <<job.bar, job.backup[c].bound>>) ELSE decided[c]]
  /\ closed' = closed \ {job.bar}
  /\ job' = [kind |-> "flush", pc |-> "next", upTo |-> job.upTo]
  /\ UNCHANGED <<clock, faults, sock, agg, queue, kline>>
FailBars ==
  /\ At("flush", "commit") /\ faults.fails < MaxFails /\ Spared
  /\ faults' = [faults EXCEPT !.fails = @ + 1]
  /\ Rollback
  /\ UNCHANGED <<clock, sock, agg, queue, kline>>

(* ------------------------------- recovery --------------------------------- *)
SetRec(c, rec) == ctx' = [ctx EXCEPT ![c].rec = rec]
(* The history service answers with every closed bar of the range, with all    *)
(* but the newest, or not at all; a stale recovery ends here.                  *)
HistoryAnswers(c, missing) ==
  LET r == ctx[c].rec
      rows == r.from .. r.to - 1 - missing
  IN /\ r.stage = "history"
     /\ IF ~Valid(c) THEN SetRec(c, NoRec) /\ UNCHANGED queue
        ELSE /\ SetRec(c, [r EXCEPT !.stage = "queued"])
             /\ Enqueue(IF rows = {} THEN [kind |-> "finish", c |-> c]
                        ELSE [kind |-> "apply", c |-> c, rows |-> rows])
     /\ UNCHANGED <<clock, faults, sock, agg, closed, job, db, kline, decided>>
HistoryFails(c) ==
  /\ ctx[c].rec.stage = "history"
  /\ faults.fails < MaxFails /\ Spared /\ faults' = [faults EXCEPT !.fails = @ + 1]
  /\ SetRec(c, [ctx[c].rec EXCEPT !.stage = "queued"]) /\ Enqueue([kind |-> "finish", c |-> c])
  /\ UNCHANGED <<clock, sock, agg, closed, job, db, kline, decided>>

(* applyHistory: rows enter the store, gaps become flat bars, and the new      *)
(* evaluator replaces the old one in the database first, in memory afterwards. *)
Applied(hist, rows) ==
  LET last == LastOf(hist)
      new == {b \in rows : b > last}
      gap == IF hist = {} \/ new = {} THEN {} ELSE last + 1 .. Min(new) - 1
  IN hist \cup {<<b, "flat">> : b \in gap} \cup {<<b, "real">> : b \in new}
RunApply ==
  /\ Take("apply")
  /\ LET c == Head(queue).c
     IN IF Valid(c) THEN /\ job' = [kind |-> "apply", pc |-> "commit", c |-> c, rows |-> Head(queue).rows,
                                    hist |-> Applied(ctx[c].hist, Head(queue).rows)]
                         /\ UNCHANGED ctx
        ELSE SetRec(c, NoRec) /\ UNCHANGED job
  /\ UNCHANGED <<clock, faults, sock, agg, closed, db, kline, decided>>
CommitApply ==
  /\ At("apply", "commit")
  /\ kline' = [b \in Bars |-> IF b \in job.rows /\ kline[b] = "none" THEN "http" ELSE kline[b]]
  /\ db' = [db EXCEPT ![job.c] = [hist |-> job.hist, last |-> LastOf(job.hist)]]
  /\ job' = [job EXCEPT !.pc = "memory"]
  /\ UNCHANGED <<clock, faults, sock, agg, closed, queue, ctx, decided>>
Adopt(c, hist) == [ctx[c] EXCEPT !.hist = hist, !.last = LastOf(hist)]
ApplyMemory ==
  /\ At("apply", "memory")
  /\ LET c == job.c
     IN IF Valid(c) THEN ctx' = [ctx EXCEPT ![c] = Adopt(c, job.hist)] /\ Enqueue([kind |-> "finish", c |-> c])
        ELSE SetRec(c, NoRec) /\ UNCHANGED queue
  /\ Done /\ UNCHANGED <<clock, faults, sock, agg, closed, db, kline, decided>>

(* appendConnectedHistory: only an unbroken stored tail of this subscription.  *)
Ws(from) == {b \in Bars : kline[b] = "ws" /\ b >= from /\ b < NowBar}
Unbroken(from) == {b \in Ws(from) : \A k \in from .. b : k \in Ws(from)}
Appended(x) ==
  LET last == LastOf(x.hist)
  IN IF last = -1 \/ last + 1 < CeilBar(x.bound) THEN {} ELSE Unbroken(last + 1)
(* warmupFromConnectedFeed: the evaluator is rebuilt from live bars alone.     *)
Warm(x) ==
  LET first == CeilBar(x.bound) rows == Ws(first)
  IN IF Cardinality(rows) >= Required /\ Max(rows) >= NowBar - 1 /\ \A b \in Min(rows) .. Max(rows) : b \in rows
     THEN rows ELSE {}
Covered(hist) == Cardinality(hist) >= Required /\ LastOf(hist) >= NowBar - 1
Rows(S) == {<<b, "real">> : b \in S}

RunFinish ==
  /\ Take("finish")
  /\ LET c == Head(queue).c new == Appended(ctx[c])
     IN IF ~Valid(c) THEN SetRec(c, NoRec) /\ UNCHANGED <<db, job>>
        ELSE /\ job' = [kind |-> "finish", pc |-> "append", c |-> c, hist |-> ctx[c].hist \cup Rows(new)]
             /\ db' = IF new = {} THEN db
                      ELSE [db EXCEPT ![c] = [hist |-> ctx[c].hist \cup Rows(new), last |-> Max(new)]]
             /\ UNCHANGED ctx
  /\ UNCHANGED <<clock, faults, sock, agg, closed, kline, decided>>
FinishAppend ==
  /\ At("finish", "append")
  /\ LET c == job.c x == [ctx[c] EXCEPT !.hist = job.hist] warm == Warm(x)
     IN IF ~Valid(c) THEN SetRec(c, NoRec) /\ Done /\ UNCHANGED db
        ELSE IF Covered(job.hist)
        THEN ctx' = [ctx EXCEPT ![c].hist = job.hist, ![c].last = LastOf(job.hist)]
             /\ job' = [job EXCEPT !.pc = "boundary"] /\ UNCHANGED db
        ELSE IF warm # {}
        THEN /\ db' = [db EXCEPT ![c] = [hist |-> Rows(warm), last |-> Max(warm)]]
             /\ job' = [job EXCEPT !.pc = "warm", !.hist = Rows(warm)]
             /\ ctx' = [ctx EXCEPT ![c].hist = job.hist, ![c].last = LastOf(job.hist)]
        ELSE /\ ctx' = [ctx EXCEPT ![c] = [Adopt(c, job.hist) EXCEPT !.ready = FALSE, !.rec = NoRec]]
             /\ Done /\ UNCHANGED db
  /\ UNCHANGED <<clock, faults, sock, agg, closed, queue, kline, decided>>
FinishWarm ==
  /\ At("finish", "warm")
  /\ IF Valid(job.c) THEN ctx' = [ctx EXCEPT ![job.c] = Adopt(job.c, job.hist)] /\ job' = [job EXCEPT !.pc = "boundary"]
     ELSE SetRec(job.c, NoRec) /\ Done
  /\ UNCHANGED <<clock, faults, sock, agg, closed, queue, db, kline, decided>>
(* The boundary is read before the last awaits and takes effect after them.    *)
FinishBoundary ==
  /\ At("finish", "boundary")
  /\ IF Valid(job.c) THEN /\ sock' = [sock EXCEPT !.connected = TRUE]
                          /\ job' = [kind |-> "finish", pc |-> "ready", c |-> job.c, boundary |-> clock]
                          /\ UNCHANGED ctx
     ELSE SetRec(job.c, NoRec) /\ Done /\ UNCHANGED sock
  /\ UNCHANGED <<clock, faults, agg, closed, queue, db, kline, decided>>
FinishReady ==
  /\ At("finish", "ready")
  /\ LET c == job.c
         alone == ~\E d \in Ctxs \ {c} : ctx[d].on /\ ctx[d].ready
         covered == job.boundary \div 2 - 1
         base == CeilBar(job.boundary) - 1
     IN IF ~Valid(c) THEN SetRec(c, NoRec) /\ UNCHANGED agg
        ELSE /\ ctx' = [ctx EXCEPT ![c].ready = TRUE, ![c].bound = job.boundary, ![c].rec = NoRec]
             /\ agg' = IF ~alone THEN agg
                       ELSE [open |-> IF agg.open <= covered THEN -1 ELSE agg.open,
                             last |-> Max({agg.last, base}), final |-> Max({agg.final, covered})]
  /\ Done /\ UNCHANGED <<clock, faults, sock, closed, queue, db, kline, decided>>

(* -------------------------------- process --------------------------------- *)
Crash ==
  /\ faults.crashes < MaxCrashes /\ Spared
  /\ faults' = [faults EXCEPT !.crashes = @ + 1]
  /\ sock' = [session |-> 0, epoch |-> clock, connected |-> FALSE, confirmed |-> FALSE]
  /\ agg' = [open |-> -1, last |-> -1, final |-> -1]
  /\ closed' = {} /\ queue' = <<>> /\ job' = Idle
  /\ ctx' = [c \in Ctxs |-> Off]
  /\ UNCHANGED <<clock, db, kline, decided>>

Init ==
  /\ clock = Start /\ faults = [breaks |-> 0, crashes |-> 0, fails |-> 0]
  /\ sock = [session |-> 0, epoch |-> 0, connected |-> FALSE, confirmed |-> FALSE]
  /\ agg = [open |-> -1, last |-> -1, final |-> -1]
  /\ closed = {} /\ queue = <<>> /\ job = Idle
  /\ ctx = [c \in Ctxs |-> Off] /\ db = [c \in Ctxs |-> [hist |-> {}, last |-> -1]]
  /\ kline = [b \in Bars |-> "none"] /\ decided = [c \in Ctxs |-> <<>>]

JobStep ==
  \/ RunMark \/ RunReady \/ RunRefresh \/ RunTrade \/ RunFlush
  \/ SaveBar \/ SelectWork \/ Evaluate \/ DecideBars \/ CommitBars
  \/ RunApply \/ CommitApply \/ ApplyMemory
  \/ RunFinish \/ FinishAppend \/ FinishWarm \/ FinishBoundary \/ FinishReady
Next ==
  \/ Interrupt \/ Subscribed \/ ReceiveTrade \/ TimePasses \/ Timer("flush") \/ Timer("refresh")
  \/ JobStep \/ FailBars
  \/ (\E c \in Ctxs, missing \in {0, 1} : HistoryAnswers(c, missing)) \/ (\E c \in Ctxs : HistoryFails(c))
  \/ Crash

(* Jobs are taken from the queue and run on, the timers fire, a subscription   *)
(* is retried, and the history service answers completely again and again.     *)
Fairness ==
  /\ WF_vars(JobStep) /\ SF_vars(Timer("refresh")) /\ WF_vars(Subscribed)
  /\ \A c \in Ctxs : SF_vars(HistoryAnswers(c, 0)) /\ WF_vars(\E m \in {0, 1} : HistoryAnswers(c, m))
Spec == Init /\ [][Next]_vars
FairSpec == Spec /\ Fairness

(* ------------------------------- properties ------------------------------- *)
(* A strategy decides a bar once and never goes back, through failed           *)
(* transactions, interruptions, recoveries and restarts; and from the first    *)
(* whole bar after its boundary no closed bar is skipped while it stays ready: *)
(* one whose transaction failed is decided on the next try.                    *)
DecidedInOrder ==
  \A c \in Ctxs : \A i \in DOMAIN decided[c] :
    LET bar == decided[c][i][1] bound == decided[c][i][2]
        resumed == i = 1 \/ decided[c][i - 1][2] # bound
    IN /\ i > 1 => bar > decided[c][i - 1][1]
       /\ bar = IF resumed THEN CeilBar(bound) ELSE decided[c][i - 1][1] + 1

(* A strategy is ready only under the subscription its recovery was launched   *)
(* for: no answer that comes late brings back a context an interruption fenced.*)
ReadyIsCurrent ==
  \A c \in Ctxs : ctx[c].ready => sock.session # 0 /\ sock.connected /\ ctx[c].bound >= sock.epoch

(* Between jobs a ready strategy holds in memory what live_watches holds: a    *)
(* failed transaction leaves the evaluator where the database is.              *)
MemoryIsStored ==
  job = Idle => \A c \in Ctxs : ctx[c].ready => ctx[c].hist = db[c].hist /\ ctx[c].last = db[c].last

(* Whatever broke, in the end every strategy is ready and stays so, unless an *)
(* interruption inside a commit left its memory behind the stored history: it  *)
(* then asks for a range that lacks what it misses.                            *)
Behind == job = Idle /\ \E c \in Ctxs : ctx[c].on /\ ctx[c].hist # db[c].hist
EventuallyReady == <>[](\A c \in Ctxs : ctx[c].ready) \/ <>Behind

(* "Read back authoritative stored values": a bar that meme_kline holds is     *)
(* never replaced by a flat bar in a history.                                  *)
HistoryIsStored == \A c \in Ctxs : \A h \in db[c].hist : h[2] = "flat" => kline[h[1]] = "none"

=============================================================================
