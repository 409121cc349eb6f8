------------------------------ MODULE Evidence ------------------------------
(* Why a position was given up.  A run reads its frozen candles with            *)
(* FrozenReader, which fills gaps; an exit by invalidation happens where the    *)
(* strategy's condition group is met.  The API explains it later: from the      *)
(* snapshot saved with the signal, or, for runs made before there was one, from *)
(* the frozen chunks around the exit, read again without the run.               *)
EXTENDS Integers, Sequences, FiniteSets, FiniteSetsExt, SequencesExt

CONSTANTS
  Series,    \* frozen inputs: sequences of candles [time, open, close, vol]
  Groups,    \* condition groups: [mode, min, on, items], an item a leaf or a group of leaves
  Swing,     \* the impulse of the position: [low, high]
  BarStep,      \* length of an interval
  ChunkSize, \* candles of a chunk (256 in the code)
  MaxPeriod  \* intervals before an exit that are restored at most (2000 in the code)

Candle == [time : Nat, open : Int, close : Int, vol : Int]
(* A series is in the order of time; a node is a leaf or, one level down, a     *)
(* group of leaves.                                                             *)
Itemised(g) == Len(g.items) \in Nat /\ DOMAIN g.items = 1..Len(g.items) /\ g.min \in Int
IsGroup(n) == "items" \in DOMAIN n
ASSUME EvidenceAssumption ==
  /\ BarStep \in Nat \ {0} /\ ChunkSize \in Nat \ {0} /\ MaxPeriod \in Nat
  /\ \A s \in Series : s \in Seq(Candle) /\ \A i, j \in DOMAIN s : i < j => s[i].time < s[j].time
  /\ \A g \in Groups : Itemised(g) /\ \A i \in DOMAIN g.items :
       LET n == g.items[i] IN
       /\ IsGroup(n) => Itemised(n) /\ \A j \in DOMAIN n.items : ~IsGroup(n.items[j]) /\ n.items[j].period \in Nat
       /\ ~IsGroup(n) => n.period \in Nat

VARIABLES
  frozen,  \* the run's chunks
  group,   \* its invalidationConditionGroup
  version, \* of its engine: "old", "restorable" or "saving"
  reader,  \* FrozenReader: [chunk, offset, previous]
  seen,    \* the candles the engine was given
  exits,   \* the exit: [time, price, saved, why], why the evidence at that moment; or none
  status,  \* "running" or "completed"
  kept,    \* the API's cache: what it showed once the run was complete
  shown    \* what hydrateInvalidations last attached
evars == <<frozen, group, version, reader, seen, exits, status, kept, shown>>

Unavailable == <<[code |-> "unknown", path |-> <<>>, close |-> 0, baseline |-> <<>>]>>
Chunked(s) == [k \in 1..(Len(s) + ChunkSize - 1) \div ChunkSize |->
                 SubSeq(s, (k - 1) * ChunkSize + 1, Min({k * ChunkSize, Len(s)}))]
NoCandle == [time |-> -1, open |-> 0, close |-> 0, vol |-> 0]
Flatline(p, t) == [time |-> t, open |-> p.close, close |-> p.close, vol |-> 0]

(* -------------------------- conditions of an exit ------------------------- *)
Enabled(items) == {i \in DOMAIN items : items[i].on}
LeavesOf(n) == IF IsGroup(n) THEN {n.items[j] : j \in Enabled(n.items)} ELSE {n}
Leaves(g) == IF g.on THEN UNION {LeavesOf(g.items[i]) : i \in Enabled(g.items)} ELSE {}
Supported == {"fib", "swing", "volume"}
Period(g) == Max({1} \cup {l.period : l \in Leaves(g)})
Preceding(h, period) == SubSeq(h, Max({1, Len(h) - period}), Len(h) - 1)
Volumes(h) == FoldLeft(LAMBDA n, c : n + c.vol, 0, h)
(* evaluateCondition for what may invalidate a position.                        *)
Met(leaf, h) ==
  LET c == Last(h) b == Preceding(h, leaf.period) IN
  CASE leaf.type = "fib"    -> 2 * c.close < Swing.high + Swing.low
    [] leaf.type = "swing"  -> c.close < Swing.low
    [] leaf.type = "volume" -> c.close < c.open /\ b # <<>> /\ c.vol * Len(b) >= Volumes(b)
    [] OTHER -> c.close = c.open
(* evaluateConditionGroup and, beside it, describeInvalidation's visit: one     *)
(* says whether, the other why; a node that is not met has no matches.          *)
Holds(g, active, n) ==
  CASE g.mode = "all" -> n = active
    [] g.mode = "any" -> n > 0
    [] OTHER -> n >= Max({1, g.min})
Enough(g, met) ==
  g.on /\ Enabled(g.items) # {} /\ Holds(g, Cardinality(Enabled(g.items)), Cardinality(met))
LeavesMet(g, h) == Enough(g, {i \in Enabled(g.items) : Met(g.items[i], h)})
NodeMet(n, h) == IF IsGroup(n) THEN LeavesMet(n, h) ELSE Met(n, h)
GroupMet(g, h) == Enough(g, {i \in Enabled(g.items) : NodeMet(g.items[i], h)})

LeafMatch(leaf, h, path) ==
  IF leaf.on /\ Met(leaf, h)
  THEN <<[code |-> IF leaf.type \in Supported THEN leaf.type ELSE "other", path |-> path, close |-> Last(h).close,
          baseline |-> IF leaf.type = "volume" THEN Preceding(h, leaf.period) ELSE <<>>]>>
  ELSE <<>>
Gathered(g, results) ==
  IF Enough(g, {i \in DOMAIN results : results[i] # <<>>}) THEN FlattenSeq(results) ELSE <<>>
LeavesVisit(g, h, path) == Gathered(g, [i \in DOMAIN g.items |-> LeafMatch(g.items[i], h, Append(path, i))])
NodeVisit(n, h, path) == IF IsGroup(n) THEN LeavesVisit(n, h, path) ELSE LeafMatch(n, h, path)
Visit(g, h) == Gathered(g, [i \in DOMAIN g.items |-> NodeVisit(g.items[i], h, <<i>>)])
Described(g, h) == IF h = <<>> \/ Visit(g, h) = <<>> THEN Unavailable ELSE Visit(g, h)

(* ------------------------------ the run ----------------------------------- *)
Raw == frozen[reader.chunk][reader.offset]
More == reader.chunk <= Len(frozen)
Peeked == IF reader.previous # NoCandle /\ reader.previous.time + BarStep < Raw.time
          THEN Flatline(reader.previous, reader.previous.time + BarStep) ELSE Raw
Consumed(c) ==
  IF c # Raw THEN [reader EXCEPT !.previous = c]
  ELSE IF reader.offset = Len(frozen[reader.chunk]) THEN [chunk |-> reader.chunk + 1, offset |-> 1, previous |-> c]
  ELSE [reader EXCEPT !.offset = @ + 1, !.previous = c]

EvidenceInit ==
  /\ \E s \in Series : frozen = Chunked(s)
  /\ group \in Groups /\ version \in {"old", "restorable", "saving"}
  /\ reader = [chunk |-> 1, offset |-> 1, previous |-> NoCandle]
  /\ seen = <<>> /\ exits = {} /\ status = "running" /\ kept = {} /\ shown = {}

(* The engine gets the next candle; with a position open it may leave there.    *)
ReadCandle ==
  /\ status = "running" /\ More
  /\ reader' = Consumed(Peeked) /\ seen' = Append(seen, Peeked)
  /\ \/ UNCHANGED exits
     \/ /\ exits = {} /\ GroupMet(group, seen')
        /\ LET why == Described(group, seen') IN
           exits' = {[time |-> Peeked.time, price |-> Peeked.close, why |-> why,
                      saved |-> IF version = "saving" THEN why ELSE <<>>]}
  /\ UNCHANGED <<frozen, group, version, status, kept, shown>>
EndRun ==
  /\ status = "running" /\ ~More /\ status' = "completed"
  /\ UNCHANGED <<frozen, group, version, reader, seen, exits, kept, shown>>

(* ------------------------------ the API ----------------------------------- *)
(* invalidationHistory: the candles of the last `period` intervals, gaps filled *)
(* as the reader does, nothing after the last raw candle.                       *)
Ceiling(a, b) == -((-a) \div b)
GapBars(previous, c, from, time) ==
  LET first == Max({1, Ceiling(from - previous.time, BarStep)})
      last == (Min({c.time - 1, time}) - previous.time) \div BarStep
  IN [i \in 1..Max({0, last - first + 1}) |-> Flatline(previous, previous.time + (first + i - 1) * BarStep)]
InvalidationHistory(raw, time, period) ==
  LET from == time - period * BarStep
      passed(i) == i > 1 /\ raw[i - 1].time >= time
      gap(i) == IF i = 1 THEN <<>> ELSE GapBars(raw[i - 1], raw[i], from, time)
      own(c) == IF from <= c.time /\ c.time <= time THEN <<c>> ELSE <<>>
  IN FlattenSeq([i \in DOMAIN raw |-> IF passed(i) THEN <<>> ELSE gap(i) \o own(raw[i])])

Refused(g) == Leaves(g) = {} \/ (\E l \in Leaves(g) : l.type \notin Supported) \/ Period(g) > MaxPeriod
RestoreInvalidation(g, exit, raw) ==
  LET h == InvalidationHistory(raw, exit.time, Period(g)) IN
  IF Refused(g) \/ h = <<>> \/ Last(h).time # exit.time \/ Last(h).close # exit.price
  THEN Unavailable ELSE Described(g, h)

(* The chunks that overlap the interval, the last before it, the first after.   *)
(* Mutant: only those that overlap it and the one after.                        *)
Blocks_NoPredecessor(from, to) ==
  LET after == {k \in DOMAIN frozen : frozen[k][1].time > to} IN
  {k \in DOMAIN frozen : frozen[k][1].time <= to /\ Last(frozen[k]).time >= from} \cup (IF after = {} THEN {} ELSE {Min(after)})
Blocks(from, to) ==
  LET before == {k \in DOMAIN frozen : Last(frozen[k]).time < from}
      after == {k \in DOMAIN frozen : frozen[k][1].time > to}
  IN {k \in DOMAIN frozen : frozen[k][1].time <= to /\ Last(frozen[k]).time >= from}
       \cup (IF before = {} THEN {} ELSE {Max(before)}) \cup (IF after = {} THEN {} ELSE {Min(after)})
FromChunks(exit) ==
  LET ks == Blocks(exit.time - Period(group) * BarStep, exit.time)
      rows == FlattenSeq([i \in 1..Cardinality(ks) |-> frozen[Min(ks) + i - 1]])
  IN IF ks # {} /\ ks = Min(ks)..Max(ks) THEN RestoreInvalidation(group, exit, rows) ELSE Unavailable

(* hydrateInvalidations for the exit: snapshot, cache, chunks.                  *)
Restorable(exit) == exit.saved = <<>> /\ kept = {}
Detail(exit) ==
  IF exit.saved # <<>> THEN exit.saved
  ELSE IF kept # {} THEN CHOOSE d \in kept : TRUE
  ELSE IF version = "old" \/ Refused(group) THEN Unavailable
  ELSE FromChunks(exit)
Hydrate ==
  \E exit \in exits :
    /\ shown' = {Detail(exit)}
    /\ kept' = IF Restorable(exit) /\ status = "completed" THEN {Detail(exit)} ELSE kept
    /\ UNCHANGED <<frozen, group, version, reader, seen, exits, status>>

EvidenceNext == ReadCandle \/ EndRun \/ Hydrate
EvidenceSpec == EvidenceInit /\ [][EvidenceNext]_evars

(* What the API gives as the reason of an exit is what the engine saw when it   *)
(* left: the same conditions, with the same volumes behind them, whether it was *)
(* saved, restored while the run went on or cached; and it is missing only for  *)
(* engines and conditions that cannot be restored, or look back too far.        *)
ReasonsAreTheEngines ==
  \A d \in shown, exit \in exits :
    /\ exit.why # Unavailable
    /\ d = IF \/ version = "saving"
              \/ version = "restorable" /\ Period(group) <= MaxPeriod /\ \A l \in Leaves(group) : l.type \in Supported
           THEN exit.why ELSE Unavailable
=============================================================================
