------------------------------- MODULE Candles -------------------------------
(* LiveCandleAggregator: trades of one pool become closed 30 s and 1 min bars  *)
(* of price and market cap, and idle periods become flat bars.  The shell is   *)
(* what the live service puts around it: onTrade, flushBars, the subscription  *)
(* that is interrupted and confirmed, and the end of a recovery.  A unit of    *)
(* time is 15 seconds.                                                         *)
EXTENDS Integers, Sequences, FiniteSets, FiniteSetsExt, Functions, SequencesExt

CONSTANTS
  MarketTrades, \* [id, time, price, mcap, vol]; an mcap of 0 is unknown
  RunInterval,  \* interval of the strategy that watches the pool, 2 or 4
  Start, MaxClock, MaxRepeats, MaxBreaks,
  HistoryClose  \* close of the last bar a recovery found

\* A trade has one id; time counts from long ago.
ASSUME CandlesAssumption ==
  /\ MarketTrades \subseteq [id : Nat, time : Nat, price : Nat, mcap : Nat, vol : Nat]
  /\ \A t, u \in MarketTrades : t.id = u.id => t = u
  /\ Start \in Nat \ {0} /\ HistoryClose \in Nat

VARIABLES
  clock,
  sent,    \* trades delivered so far, how many of them a second time, and those the
           \* aggregator first heard of on the present connection
  handling,  \* the trade onTrade holds while it waits for flushBars, and its connection
  feed,    \* the watch: [session, on, confirmed, epoch, bound, breaks], `on` is connected,
           \* bound is noOrdersBefore
  agg,     \* shared by the streams: ids seen and the latest trade time
  stream   \* per interval and type: [open, final, last, out, mark, base]
cvars == <<clock, sent, handling, feed, agg, stream>>

Streams == {2, 4} \X {"price", "mcap"}
Step(s) == s[1]
Floor(t, step) == (t \div step) * step
Ceil(t, step) == ((t + step - 1) \div step) * step
Value(t, s) == IF s[2] = "price" THEN t.price ELSE t.mcap
None == [time |-> -1]
NoTrade == <<>>      \* no trade is being handled

(* A bar made of a set of trades, whatever their order of arrival: the first   *)
(* and the last by time, then by id.                                           *)
Before(t, u) == t.time < u.time \/ (t.time = u.time /\ t.id < u.id)
Summary(T, s, start) ==
  LET first == CHOOSE t \in T : \A u \in T \ {t} : Before(t, u)
      last == CHOOSE t \in T : \A u \in T \ {t} : Before(u, t)
      values == {Value(t, s) : t \in T}
  IN [time |-> start, open |-> Value(first, s), high |-> Max(values), low |-> Min(values), close |-> Value(last, s),
      vol |-> SumFunction([t \in T |-> t.vol]), synthetic |-> FALSE]

(* ------------------------- LiveCandleAggregator --------------------------- *)
Opened(t, s) ==
  [time |-> Floor(t.time, Step(s)), open |-> Value(t, s), high |-> Value(t, s), low |-> Value(t, s),
   close |-> Value(t, s), vol |-> t.vol, first |-> t, final |-> t]
Added(b, t, s) ==
  LET v == Value(t, s)
      b1 == [b EXCEPT !.high = Max({@, v}), !.low = Min({@, v}), !.vol = @ + t.vol]
      b2 == IF Before(t, b.first) THEN [b1 EXCEPT !.first = t, !.open = v] ELSE b1
  IN IF Before(b.final, t) THEN [b2 EXCEPT !.final = t, !.close = v] ELSE b2
Closed(b) == [time |-> b.time, open |-> b.open, high |-> b.high, low |-> b.low, close |-> b.close,
              vol |-> b.vol, synthetic |-> FALSE]
FlatBar(time, value) == [time |-> time, open |-> value, high |-> value, low |-> value, close |-> value,
                         vol |-> 0, synthetic |-> TRUE]
\* The n flat bars that follow a bar.
FlatsAfter(b, n, step) == [i \in 1..n |-> FlatBar(b.time + i * step, b.close)]
Finish(r) ==
  [r EXCEPT !.open = None, !.final = r.open.time, !.last = Closed(r.open),
            !.out = Append(@, Closed(r.open))]

(* acceptDetailed, in the bucket of one stream; `took` remembers the trade.    *)
\* Mutant: a trade of the last closed bucket opens it again.
Takes_Reopens(r, t, s) == Value(t, s) > 0 /\ r.open.time <= Floor(t.time, Step(s))
Takes(r, t, s) ==
  /\ Value(t, s) > 0
  /\ Floor(t.time, Step(s)) > r.final
  /\ r.open.time <= Floor(t.time, Step(s))
AcceptIn(r, t, s) ==
  LET q == IF r.open # None /\ r.open.time < Floor(t.time, Step(s)) THEN Finish(r) ELSE r
  IN IF ~Takes(r, t, s) THEN r
     ELSE [q EXCEPT !.open = IF q.open = None THEN Opened(t, s) ELSE Added(q.open, t, s), !.took = @ \cup {t}]
TooOld(t) == agg.latest - t.time >= 2 /\ t.time \div 4 # agg.latest \div 4

(* fillUntil: canFill can only refuse the first bar or none, it compares with  *)
(* noOrdersBefore.                                                             *)
FillUntil(r, s, until) ==
  LET from == r.last.time + Step(s)
      n == IF r.last = None \/ ~feed.on \/ ~feed.confirmed \/ from < feed.bound THEN 0
           ELSE Max({0, (until - from) \div Step(s)})
      flat == FlatsAfter(r.last, n, Step(s))
  IN IF n = 0 THEN r
     ELSE [r EXCEPT !.last = flat[n], !.final = flat[n].time, !.out = @ \o flat]
Flush(r, s, now) ==
  LET q == FillUntil(r, s, IF r.open = None THEN now ELSE Min({now, r.open.time}))
  IN FillUntil(IF q.open # None /\ q.open.time + Step(s) <= now THEN Finish(q) ELSE q, s, now)
MarkClosed(r, s, now) ==
  LET lastClosed == Floor(now, Step(s)) - Step(s)
  IN [r EXCEPT !.final = Max({@, lastClosed}), !.open = IF @.time <= lastClosed THEN None ELSE @]
Discard(r) == [r EXCEPT !.open = None, !.last = None, !.took = {}]

(* ------------------------------- the shell -------------------------------- *)
CandlesInit ==
  /\ clock = Start /\ sent = [once |-> {}, repeats |-> 0, heard |-> {}] /\ handling = NoTrade
  /\ feed = [session |-> FALSE, on |-> FALSE, confirmed |-> FALSE, epoch |-> 0, bound |-> 0, breaks |-> 0]
  /\ agg = [seen |-> {}, latest |-> -1]
  /\ stream = [s \in Streams |-> [open |-> None, final |-> -1, last |-> None, out |-> <<>>, took |-> {},
                                  mark |-> -1, base |-> None]]

TimePasses == clock < MaxClock /\ clock' = clock + 1 /\ UNCHANGED <<sent, handling, feed, agg, stream>>

(* What runs on the queue of the service waits for the trade that is handled.  *)
FlushTimer ==
  /\ handling = NoTrade
  /\ stream' = [s \in Streams |-> Flush(stream[s], s, clock)]
  /\ UNCHANGED <<clock, sent, handling, feed, agg>>

(* onTrade up to its await: a trade of a bucket the subscription began in is    *)
(* dropped, the bars that are over are closed and begin to be stored.          *)
StartsAt == Ceil(feed.epoch, 4)
OnTrade(t) ==
  /\ handling = NoTrade /\ feed.on /\ t.time <= clock
  /\ t \in sent.once => sent.repeats < MaxRepeats
  /\ sent' = [sent EXCEPT !.once = @ \cup {t}, !.repeats = @ + (IF t \in sent.once THEN 1 ELSE 0)]
  /\ IF t.time < StartsAt THEN UNCHANGED <<handling, stream>>
     ELSE /\ handling' = [trade |-> t, conn |-> feed.breaks]
          /\ stream' = [s \in Streams |-> Flush(stream[s], s, t.time)]
  /\ UNCHANGED <<clock, feed, agg>>

(* ... and after it: the epoch is not looked at again, whatever happened since.  *)
AcceptTrade ==
  /\ handling # NoTrade
  /\ LET t == handling.trade
         fresh == t.id \notin agg.seen /\ ~TooOld(t)
         taken == fresh /\ \E s \in Streams : Takes(stream[s], t, s)
     IN /\ stream' = IF fresh THEN [s \in Streams |-> AcceptIn(stream[s], t, s)] ELSE stream
        /\ agg' = IF fresh THEN [seen |-> agg.seen \cup {t.id}, latest |-> Max({agg.latest, t.time})] ELSE agg
        /\ feed' = [feed EXCEPT !.confirmed = @ \/ (taken /\ feed.on)]
        /\ sent' = [sent EXCEPT !.heard = IF fresh /\ handling.conn = feed.breaks THEN @ \cup {t} ELSE @]
  /\ handling' = NoTrade
  /\ UNCHANGED clock

(* flushBars throws, a bar could not be stored: the trade is lost.             *)
FlushThrows == handling # NoTrade /\ handling' = NoTrade /\ UNCHANGED <<clock, sent, feed, agg, stream>>

(* interruptMarket, a callback of the socket that waits for nothing; the        *)
(* confirmed subscription after it, and its part that runs on the queue.       *)
Interrupt ==
  /\ feed.session /\ feed.breaks < MaxBreaks
  /\ feed' = [session |-> FALSE, on |-> FALSE, confirmed |-> FALSE, epoch |-> clock, bound |-> clock,
              breaks |-> feed.breaks + 1]
  /\ stream' = [s \in Streams |-> [Discard(stream[s]) EXCEPT !.mark = -1]]
  /\ sent' = [sent EXCEPT !.heard = {}]
  /\ UNCHANGED <<clock, handling, agg>>
Ready ==
  /\ ~feed.session
  /\ feed' = [feed EXCEPT !.session = TRUE, !.epoch = clock]
  /\ UNCHANGED <<clock, sent, handling, agg, stream>>
Connect ==
  /\ handling = NoTrade /\ feed.session /\ ~feed.on
  /\ feed' = [feed EXCEPT !.on = TRUE, !.bound = clock]
  /\ UNCHANGED <<clock, sent, handling, agg, stream>>

(* The end of finishRecovery: seedAggregation puts a baseline before the first *)
(* whole bar, markClosedThrough closes what history has covered.               *)
Seeded(r, s) ==
  LET first == Ceil(clock, Step(s)) base == FlatBar(first - Step(s), HistoryClose)
  IN IF Step(s) = RunInterval /\ r.last.time < base.time THEN [r EXCEPT !.last = base] ELSE r
Recovered ==
  /\ handling = NoTrade /\ feed.on /\ \A s \in Streams : stream[s].mark = -1
  /\ stream' = [s \in Streams |->
       LET r == MarkClosed(Seeded(stream[s], s), s, clock)
       IN [r EXCEPT !.mark = Len(r.out), !.base = r.last]]
  /\ feed' = [feed EXCEPT !.bound = clock]
  /\ UNCHANGED <<clock, sent, handling, agg>>

CandlesNext ==
  \/ TimePasses \/ FlushTimer
  \/ (\E t \in MarketTrades : OnTrade(t)) \/ AcceptTrade \/ FlushThrows
  \/ Interrupt \/ Ready \/ Connect \/ Recovered

(* normalizeCandles over bars in the order of time; WithGap is the body of its  *)
(* loop.                                                                        *)
WithGap(out, b, step) ==
  LET n == IF out = <<>> THEN 0 ELSE Max({0, (b.time - (Last(out).time + step)) \div step})
  IN Append(out \o FlatsAfter(Last(out), n, step), b)
NormalizeCandles(bars, step) ==
  LET out[n \in 0..Len(bars)] == IF n = 0 THEN <<>> ELSE WithGap(out[n - 1], bars[n], step)
  IN out[Len(bars)]

(* ------------------------------- properties ------------------------------- *)
(* A bar is emitted once, and a stream never goes back in time, whatever late, *)
(* repeated or interrupted trades arrive.                                      *)
BarsInOrder ==
  \A s \in Streams : \A i \in 1 .. Len(stream[s].out) - 1 : stream[s].out[i].time < stream[s].out[i + 1].time

(* The open bar is the summary of the trades it took, whatever order they      *)
(* arrived in; once closed it never changes.                                   *)
BarsAreTheirTrades ==
  \A s \in Streams : LET r == stream[s] IN r.open # None =>
    Closed(r.open) = Summary({t \in r.took : Floor(t.time, Step(s)) = r.open.time}, s, r.open.time)

(* A bar that begins after the subscription was confirmed begins with a whole  *)
(* minute of it and misses no trade of its interval that the aggregator heard  *)
(* of on it: whatever is decided on is no part of a bucket.                    *)
WholeBuckets ==
  \A s \in Streams : LET r == stream[s] IN
    r.open # None /\ r.open.time > feed.epoch =>
      /\ r.open.time >= StartsAt
      /\ {t \in sent.heard : Value(t, s) > 0 /\ Floor(t.time, Step(s)) = r.open.time} \subseteq r.took

\* Those of some bars that were made of trades.
Traded(bars) ==
  LET real[n \in 0..Len(bars)] ==
        IF n = 0 THEN <<>> ELSE IF bars[n].synthetic THEN real[n - 1] ELSE Append(real[n - 1], bars[n])
  IN real[Len(bars)]

(* From a recovery on, the bars of the strategy's interval with the flat bars  *)
(* filled in live are those a backtest derives from the traded bars alone.     *)
FillsAgree ==
  \A s \in Streams : LET r == stream[s] IN
    r.mark >= 0 /\ Step(s) = RunInterval =>
      LET emitted == SubSeq(r.out, r.mark + 1, Len(r.out))
          upTo == Max({0} \cup {i \in DOMAIN emitted : ~emitted[i].synthetic})
      IN SubSeq(emitted, 1, upTo) = Tail(NormalizeCandles(<<r.base>> \o Traded(emitted), Step(s)))

(* Closed bars come once each and in order, every one is made of the trades it  *)
(* took; one that begins after the subscription was confirmed is whole, also    *)
(* when an interruption falls between the check of a trade and its acceptance;  *)
(* and a gap is filled alike wherever the code fills one.                       *)
BarsAgree == BarsInOrder /\ BarsAreTheirTrades /\ WholeBuckets /\ FillsAgree
=============================================================================
