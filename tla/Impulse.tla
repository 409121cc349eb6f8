------------------------------- MODULE Impulse -------------------------------
(* Impulse selection and indicators of packages/engine, computed three times   *)
(* over one feed of candles: from the full history (detectImpulse,             *)
(* advanceImpulseCandidate and evaluateCondition, the reference), from the     *)
(* bounded incremental state of a backtest (ResumableEngine.update / impulse / *)
(* group), and from the sliding window of the live evaluator.                  *)
(*                                                                             *)
(* Candles are numbered from 1 (index i stands for index i - 1 of the code).   *)
(* Averages and ratios are compared by cross-multiplication; percentages and   *)
(* ratios of the configuration are whole hundredths.                           *)
EXTENDS Integers, Sequences, FiniteSets, FiniteSetsExt, SequencesExt

CONSTANTS
  Cfg,          \* numbers of the strategy, named as in ImpulseConfig and Condition
  Bars,         \* candles the feed chooses from: [open, high, low, close, vol]
  Scripts,      \* fixed openings of the feed, long enough to fill the windows
  MaxBars,      \* length of a feed
  WindowFloor,  \* smallest live window (512 in the code)
  Rebase        \* running sums are recomputed every Rebase bars (256 in the code)

Quote == [open : Int, high : Int, low : Int, close : Int, vol : Int]
ASSUME ImpulseAssumption ==
  /\ Cfg \in [leftBars : Nat, rightBars : Nat, lookbackBars : Nat, maxDurationBars : Int, minGainPercent : Int,
       volumeExpansionRatio : Int, period : Nat \ {0}, obvBars : Nat, oversold : Int, recovery : Int, maxRatio : Int,
       minRatio : Int, minBodyPercent : Int, zoneLow : Int, zoneHigh : Int, minPercent : Int, maxPercent : Int,
       minChangePercent : Int, ratio : Int]
  /\ Bars \subseteq Quote /\ \A s \in Scripts : s \in Seq(Quote)
  /\ MaxBars \in Nat /\ WindowFloor \in Nat /\ Rebase \in Nat \ {0}

VARIABLES
  rule,   \* impulseCondition.selectionVersion: "legacy" or "pullback"
  opening,\* the script this feed starts with
  bars,   \* every candle so far
  ref,    \* pending candidate according to the full history
  eng,    \* PoolState of the backtest engine
  live    \* state of the live evaluator: window and pending candidate
ivars == <<rule, opening, bars, ref, eng, live>>

Volume(h, S) == SumFunction([j \in S |-> h[j].vol])
Back == Max({5, 2 * Cfg.leftBars})
NoImpulse == [lo |-> 0, hi |-> 0, low |-> 0, high |-> 0, vol |-> 0]
Candidate(h, off, p) ==
  [lo |-> p[1], hi |-> p[2], low |-> h[p[1] - off].low, high |-> h[p[2] - off].high,
   vol |-> Volume(h, p[1] - off .. p[2] - off)]
Moved(imp, d) == IF imp = NoImpulse THEN imp ELSE [imp EXCEPT !.lo = @ - d, !.hi = @ - d]

(* An extreme among the leftBars candles before it and the rightBars after it. *)
LowPivot(h, i) == \A j \in i - Cfg.leftBars .. i + Cfg.rightBars : h[i].low <= h[j].low
HighPivot(h, i) == \A j \in i - Cfg.leftBars .. i + Cfg.rightBars : h[i].high >= h[j].high

Gains(low, high) == 100 * (high - low) >= Cfg.minGainPercent * low
(* Mean volume of lo .. hi against the candles before it, from index `from` on.*)
Expands(h, off, lo, hi, from) ==
  /\ lo > from
  /\ 100 * Volume(h, lo - off .. hi - off) * (lo - from)
       >= Cfg.volumeExpansionRatio * Volume(h, from - off .. lo - 1 - off) * (hi - lo + 1)

(* Both searches scan highs and then lows from the latest to the earliest.     *)
Latest(h, off, P) ==
  IF P = {} THEN NoImpulse
  ELSE Candidate(h, off, CHOOSE p \in P : \A q \in P : p[2] > q[2] \/ (p[2] = q[2] /\ p[1] >= q[1]))
Ordered(lows, highs) == {p \in lows \X highs : p[1] < p[2] /\ p[2] - p[1] <= Cfg.maxDurationBars}

(* -------------------- the reference: full history ------------------------- *)
Lows(h, S) == {i \in S : LowPivot(h, i)}
Highs(h, S) == {i \in S : HighPivot(h, i)}
DetectImpulse(h) ==
  LET n == Len(h)
      S == Max({Cfg.leftBars + 1, n - Cfg.lookbackBars + 1}) .. n - Cfg.rightBars
      pairs == {p \in Ordered(Lows(h, S), Highs(h, S)) :
                  /\ Gains(h[p[1]].low, h[p[2]].high)
                  /\ Expands(h, 0, p[1], p[2], Max({1, p[1] - Back}))}
  IN IF n < Cfg.leftBars + Cfg.rightBars + 2 THEN NoImpulse ELSE Latest(h, 0, pairs)

(* advanceImpulseCandidate on the window h that starts after `off` candles.    *)
First(n, off) == Max({Cfg.leftBars + 1, n - Cfg.lookbackBars + 1, off + Cfg.leftBars + 1})
Stands(imp, h, off) ==
  LET n == off + Len(h) close == h[Len(h)].close
  IN /\ imp # NoImpulse
     /\ imp.lo >= First(n, off)
     /\ imp.hi + Cfg.rightBars <= n
     /\ close <= imp.high
     /\ close >= imp.low
(* No close after the high left the range, and no higher high lies inside it.  *)
Unbroken(h, off, lo, hi) ==
  LET low == h[lo - off].low high == h[hi - off].high
  IN /\ \A j \in hi + 1 - off .. Len(h) : low <= h[j].close /\ h[j].close <= high
     /\ \A j \in lo - off .. hi - off : h[j].high <= high
Selected(h, off, lows, highs) ==
  LET n == off + Len(h)
      S == First(n, off) .. n - Cfg.rightBars
      pairs == {p \in Ordered(lows \cap S, highs \cap S) :
                  /\ Unbroken(h, off, p[1], p[2])
                  /\ Gains(h[p[1] - off].low, h[p[2] - off].high)
                  /\ Max({1, p[1] - Back}) > off
                  /\ Expands(h, off, p[1], p[2], Max({1, p[1] - Back}))}
  IN IF Len(h) < Cfg.leftBars + Cfg.rightBars + 2 THEN NoImpulse ELSE Latest(h, off, pairs)
Advance(h, off, imp, lows, highs) ==
  IF Stands(imp, h, off) THEN imp ELSE Selected(h, off, lows, highs)
AdvanceAlone(h, imp) ==
  LET S == First(Len(h), 0) .. Len(h) - Cfg.rightBars
  IN Advance(h, 0, imp, Lows(h, S), Highs(h, S))

(* ------------------------- the backtest engine ---------------------------- *)
Rise(h, j) == Max({0, h[j].close - h[j - 1].close})
Fall(h, j) == Max({0, h[j - 1].close - h[j].close})
Flow(h, j) == IF h[j].close > h[j - 1].close THEN h[j].vol
              ELSE IF h[j].close < h[j - 1].close THEN -h[j].vol ELSE 0
Rises(h, S) == SumFunction([j \in S |-> Rise(h, j)])
Falls(h, S) == SumFunction([j \in S |-> Fall(h, j)])
Flows(h, S) == SumFunction([j \in S |-> Flow(h, j)])
Capacity == Max({Cfg.lookbackBars + Cfg.leftBars + Back + 3, Cfg.period + 3,
                 Cfg.obvBars + 3, 10})

NoRolling == [vol |-> 0, pvol |-> 0, gain |-> 0, loss |-> 0, pgain |-> 0, ploss |-> 0]
FreshPool == [n |-> 0, off |-> 0, hist |-> <<>>, lows |-> {}, highs |-> {},
              roll |-> NoRolling, obvs |-> <<>>, pend |-> NoImpulse]

(* Running sums over the last period candles, before the window is trimmed.    *)
DropsVolume(n) == n > Cfg.period
DropsChange(n) == n > Cfg.period + 1
Rolled(r, h, off, n) ==
  LET P == Cfg.period
      out == n - P - off                   \* position of the candle that leaves
      run == [vol  |-> r.vol + h[Len(h)].vol - (IF DropsVolume(n) THEN h[out].vol ELSE 0),
              gain |-> r.gain + (IF n > 1 THEN Rise(h, Len(h)) ELSE 0)
                              - (IF DropsChange(n) THEN Rise(h, out) ELSE 0),
              loss |-> r.loss + (IF n > 1 THEN Fall(h, Len(h)) ELSE 0)
                              - (IF DropsChange(n) THEN Fall(h, out) ELSE 0)]
      span == Max({1, n - P + 1}) - off .. Len(h)
      changes == span \ {1 - off}
      new == IF (n - 1) % Rebase = 0
             THEN [vol |-> Volume(h, span),
                   gain |-> Rises(h, changes),
                   loss |-> Falls(h, changes)]
             ELSE run
  IN [vol |-> new.vol, gain |-> new.gain, loss |-> new.loss,
      pvol |-> r.vol, pgain |-> r.gain, ploss |-> r.loss]

\* Mutant: a pivot outlives the look-back.
KeptFrom_OneMore(n) == Max({Cfg.leftBars + 1, n - Cfg.lookbackBars})
KeptFrom(n) == Max({Cfg.leftBars + 1, n - Cfg.lookbackBars + 1})
Update(s, b) ==
  LET n == s.n + 1
      full == Append(s.hist, b)
      obv == (IF s.obvs = <<>> THEN 0 ELSE Last(s.obvs)) + (IF n > 1 THEN Flow(full, Len(full)) ELSE 0)
      trim == Len(full) > Capacity
      hist == IF trim THEN Tail(full) ELSE full
      off == IF trim THEN s.off + 1 ELSE s.off
      p == n - Cfg.rightBars               \* the candle that has just been confirmed
      new == IF p > Cfg.leftBars /\ p - off > Cfg.leftBars THEN {p} ELSE {}
      keep(S) == {i \in S : i >= KeptFrom(n)}
  IN [s EXCEPT !.n = n, !.off = off, !.hist = hist,
        !.obvs = IF trim THEN Tail(Append(s.obvs, obv)) ELSE Append(s.obvs, obv),
        !.roll = Rolled(s.roll, full, s.off, n),
        !.lows = keep(s.lows \cup {i \in new : LowPivot(hist, i - off)}),
        !.highs = keep(s.highs \cup {i \in new : HighPivot(hist, i - off)})]

(* ResumableEngine.impulse: the incremental pivots, read at window offsets.    *)
ImpulseOf(s) ==
  IF rule = "pullback" THEN Advance(s.hist, s.off, s.pend, s.lows, s.highs)
  ELSE IF s.n < Cfg.leftBars + Cfg.rightBars + 2 THEN NoImpulse
  ELSE Latest(s.hist, s.off,
         {p \in Ordered(s.lows, s.highs) :
            /\ Gains(s.hist[p[1] - s.off].low, s.hist[p[2] - s.off].high)
            /\ Expands(s.hist, s.off, p[1], p[2], Max({1, p[1] - Back}))})

(* ------------------------------ conditions -------------------------------- *)
Conditions == {"fib_retracement", "percent_retracement", "volume_contraction",
  "bullish_volume_confirmation", "rsi_recovery", "obv_confirmation",
  "break_fib_invalidation", "break_swing_low_invalidation", "bearish_volume_invalidation"}

(* RSI is 100 - 100 / (1 + gain / loss), and 100 when nothing was lost.        *)
RsiAtMost(g, l, x) == IF l = 0 THEN 100 <= x ELSE 100 * g <= x * (g + l)
RsiAtLeast(g, l, x) == IF l = 0 THEN 100 >= x ELSE 100 * g >= x * (g + l)
Recovers(pg, pl, g, l) == RsiAtMost(pg, pl, Cfg.oversold) /\ RsiAtLeast(g, l, Cfg.recovery)
Contracts(sum, count, imp) ==
  imp.vol > 0 /\ 100 * sum * (imp.hi - imp.lo + 1) <= Cfg.maxRatio * imp.vol * count
Bodies(c, b) == IF c = "bullish_volume_confirmation" THEN b.close > b.open
                ELSE b.close < b.open /\ 100 * (b.open - b.close) >= Cfg.minBodyPercent * b.open

(* evaluateCondition over the candles h, with an impulse in their indices.     *)
Evaluate(c, h, imp) ==
  LET n == Len(h)
      b == h[n]
      P == Cfg.period
      before == Max({1, n - P}) .. n - 1
      pull == Max({imp.hi + 1, n - P + 1}) .. n
      last == n - Cfg.obvBars + 1 .. n
      found == imp # NoImpulse
      depth == 100 * (imp.high - b.close)
  IN CASE c = "fib_retracement" ->
            /\ found /\ n >= imp.hi + Cfg.rightBars
            /\ Cfg.zoneLow * (imp.high - imp.low) <= depth
            /\ depth <= Cfg.zoneHigh * (imp.high - imp.low)
       [] c = "percent_retracement" ->
            found /\ Cfg.minPercent * imp.high <= depth /\ depth <= Cfg.maxPercent * imp.high
       [] c = "volume_contraction" ->
            found /\ pull # {} /\ Contracts(Volume(h, pull), Cardinality(pull), imp)
       [] c \in {"bullish_volume_confirmation", "bearish_volume_invalidation"} ->
            /\ Bodies(c, b) /\ before # {}
            /\ 100 * b.vol * Cardinality(before) >= Cfg.minRatio * Volume(h, before)
       [] c = "rsi_recovery" ->
            n - 1 > P /\ Recovers(Rises(h, n - P .. n - 1), Falls(h, n - P .. n - 1),
                                  Rises(h, n - P + 1 .. n), Falls(h, n - P + 1 .. n))
       [] c = "obv_confirmation" ->
            /\ n > Cfg.obvBars /\ Volume(h, last) > 0
            /\ 100 * Flows(h, last) >= Cfg.minChangePercent * Volume(h, last)
       [] c = "break_fib_invalidation" ->
            found /\ depth > Cfg.ratio * (imp.high - imp.low)
       [] c = "break_swing_low_invalidation" -> found /\ b.close < imp.low

(* The whole period lies after the high of the impulse.                        *)
Clear(n, imp) == imp.hi < n - Cfg.period + 1

(* ResumableEngine.group: what has a running sum uses it, the rest is          *)
(* evaluated on the window with relative indices.                              *)
InGroup(c, s, imp) ==
  LET b == s.hist[Len(s.hist)] r == s.roll P == Cfg.period
  IN CASE c = "rsi_recovery" -> s.n > P + 1 /\ Recovers(r.pgain, r.ploss, r.gain, r.loss)
       [] c \in {"bullish_volume_confirmation", "bearish_volume_invalidation"} ->
            s.n > 1 /\ Bodies(c, b) /\ 100 * b.vol * Min({P, s.n - 1}) >= Cfg.minRatio * r.pvol
       [] c = "volume_contraction" /\ imp # NoImpulse /\ Clear(s.n, imp) ->
            Contracts(r.vol, Min({P, s.n}), imp)
       [] c = "obv_confirmation" ->
            LET L == Cfg.obvBars m == Len(s.obvs)
                base == Volume(s.hist, m - L + 1 .. m)
            IN s.n > L /\ base > 0 /\ 100 * (s.obvs[m] - s.obvs[m - L]) >= Cfg.minChangePercent * base
       [] OTHER -> Evaluate(c, s.hist, Moved(imp, s.off))

(* --------------------------- the live evaluator --------------------------- *)
MaxWindow == Max({WindowFloor, Cfg.lookbackBars + Cfg.leftBars + Cfg.rightBars + 8})
(* onClosedCandle while flat: slide the window, move the pending indices.      *)
Slide(s, b) ==
  LET full == Append(s.hist, b)
      over == Len(full) > MaxWindow
      hist == IF over THEN Tail(full) ELSE full
      pend == IF over THEN Moved(s.pend, 1) ELSE s.pend
  IN [hist |-> hist, pend |-> AdvanceAlone(hist, pend)]

(* ---------------------------------- feed ---------------------------------- *)
ImpulseInit ==
  /\ rule \in {"legacy", "pullback"}
  /\ opening \in Scripts
  /\ bars = <<>> /\ ref = NoImpulse
  /\ eng = FreshPool
  /\ live = [hist |-> <<>>, pend |-> NoImpulse]

NextBars == IF Len(bars) < Len(opening) THEN {opening[Len(bars) + 1]} ELSE Bars
FeedBar ==
  /\ Len(bars) < MaxBars
  /\ \E b \in NextBars :
       /\ bars' = Append(bars, b)
       /\ ref' = IF rule = "pullback" THEN AdvanceAlone(bars', ref) ELSE DetectImpulse(bars')
       /\ eng' = LET s == Update(eng, b) IN [s EXCEPT !.pend = ImpulseOf(s)]
       /\ live' = Slide(live, b)
  /\ UNCHANGED <<rule, opening>>

ImpulseNext == FeedBar
ImpulseSpec == ImpulseInit /\ [][ImpulseNext]_ivars

(* ------------------------------- properties ------------------------------- *)
(* The bounded window, offset and incremental pivots of a backtest select the  *)
(* very candidate the full history selects, under both selection rules.        *)
EngineSelectsAsReference == eng.pend = ref

(* The live evaluator, whose window drops old candles and renumbers the        *)
(* pending candidate, holds the same candidate as the full history, as long as *)
(* it holds the candles before the look-back that Expands compares with.       *)
LiveSelectsAsReference ==
  rule = "pullback" /\ MaxWindow >= Cfg.lookbackBars + Back =>
    Moved(live.pend, Len(live.hist) - Len(bars)) = ref

(* Every condition has the same verdict from running sums and trimmed windows  *)
(* (ResumableEngine.group) as from the full history (evaluateCondition).       *)
ConditionsAgree ==
  bars # <<>> => \A c \in Conditions : InGroup(c, eng, ref) = Evaluate(c, bars, ref)

(* A range that one close has left never revives: every close since the high   *)
(* of the pending candidate lies inside it, even after the price came back.    *)
NeverRevived ==
  rule = "pullback" /\ ref # NoImpulse =>
    \A j \in ref.hi + 1 .. Len(bars) : ref.low <= bars[j].close /\ bars[j].close <= ref.high

(* On every candle the resumable engine and the live evaluator select the      *)
(* impulse that the reference computes from the whole history, and decide      *)
(* every condition as it does; an impulse once invalid is never selected again.*)
ImpulseAgrees == EngineSelectsAsReference /\ LiveSelectsAsReference /\ ConditionsAgree /\ NeverRevived
=============================================================================
