------------------------------- MODULE Results -------------------------------
(* What a run leaves behind and what the API reads from it (results.ts,         *)
(* datasets.ts).  The engine writes signals as they happen and a trade when it  *)
(* ends; older releases did not number them.  The API numbers trades, finds the *)
(* trade of every signal, filters whole trades and sums them up, for the run    *)
(* and, by other code, for its tokens.                                          *)
EXTENDS Integers, FiniteSets, FiniteSetsExt, Functions

CONSTANTS
  RunPools,   \* [ca, pair]
  Outcomes,   \* net results of a trade, {} when the row has none
  Filters,    \* sets of signal types a user may filter by
  LastTime,   \* bound: bars
  MaxBuys     \* maxEntries

ASSUME ResultsAssumption ==
  /\ IsFiniteSet(RunPools) /\ LastTime \in Nat /\ MaxBuys \in Nat
  /\ \A pnl \in Outcomes : pnl \subseteq Int /\ \A x, y \in pnl : x = y

VARIABLES
  tradeRows,  \* [pool, entry, adds, exit, reason, pnl, no]; 0, "none" and {} for null
  signalRows, \* [pool, time, type, no, order, trade], trade the entry time of the position it belongs to
  holdings,       \* pool -> open position [entry, adds, no], entry = 0 without one
  numbered,   \* the run was taken over by a release that numbers trades
  barNo,
  finished
rvars == <<tradeRows, signalRows, holdings, numbered, barNo, finished>>

NotHeld == [entry |-> 0, adds |-> {}, no |-> 0]
NormalExits == {"take_profit", "timeout"}
Exits == NormalExits \cup {"end_of_backtest"}
ResultsInit ==
  /\ tradeRows = {} /\ signalRows = {} /\ holdings = [p \in RunPools |-> NotHeld]
  /\ numbered \in BOOLEAN /\ barNo = 1 /\ finished = FALSE

(* ------------------------------ the engine -------------------------------- *)
ClosedIn(p) == Cardinality({t \in tradeRows : t.pool = p})
Quieted(p) == \A s \in signalRows : s.pool = p => s.time < barNo
Signalled(p, type, pos, order) ==
  [pool |-> p, time |-> barNo, type |-> type, no |-> IF numbered THEN pos.no ELSE 0,
   order |-> IF numbered THEN order ELSE 0, trade |-> pos.entry]
OpenedNow(p) == [entry |-> barNo, adds |-> {}, no |-> IF numbered THEN ClosedIn(p) + 1 ELSE 0]
OpenTrade(p) ==
  /\ ~finished /\ holdings[p] = NotHeld /\ Quieted(p)
  /\ holdings' = [holdings EXCEPT ![p] = OpenedNow(p)]
  /\ signalRows' = signalRows \cup {Signalled(p, "entry", OpenedNow(p), 1)}
  /\ UNCHANGED <<tradeRows, numbered, barNo, finished>>
AddTo(p) ==
  /\ ~finished /\ holdings[p] # NotHeld /\ Quieted(p) /\ Cardinality(holdings[p].adds) + 1 < MaxBuys
  /\ holdings' = [holdings EXCEPT ![p].adds = @ \cup {barNo}]
  /\ signalRows' = signalRows \cup {Signalled(p, "add", holdings[p], Cardinality(holdings[p].adds) + 2)}
  /\ UNCHANGED <<tradeRows, numbered, barNo, finished>>
Written(p, exit, reason, pnl) ==
  [pool |-> p, entry |-> holdings[p].entry, adds |-> holdings[p].adds, exit |-> exit, reason |-> reason, pnl |-> pnl, no |-> holdings[p].no]
CloseTrade(p, reason, pnl) ==
  /\ ~finished /\ holdings[p] # NotHeld /\ (reason \in NormalExits => Quieted(p))
  /\ reason = "end_of_backtest" => barNo = LastTime
  /\ numbered => pnl # {}
  /\ tradeRows' = tradeRows \cup {Written(p, barNo, reason, pnl)}
  /\ signalRows' = signalRows \cup {Signalled(p, reason, holdings[p], Cardinality(holdings[p].adds) + 2)}
  /\ holdings' = [holdings EXCEPT ![p] = NotHeld]
  /\ UNCHANGED <<numbered, barNo, finished>>
NextTime == ~finished /\ barNo < LastTime /\ barNo' = barNo + 1 /\ UNCHANGED <<tradeRows, signalRows, holdings, numbered, finished>>
(* The engine restores a checkpoint without numbers and numbers what is open.   *)
TakeOver ==
  /\ ~finished /\ ~numbered /\ numbered' = TRUE
  /\ holdings' = [p \in RunPools |-> IF holdings[p] = NotHeld THEN NotHeld ELSE [holdings[p] EXCEPT !.no = ClosedIn(p) + 1]]
  /\ UNCHANGED <<tradeRows, signalRows, barNo, finished>>
(* finalizeOpenPositions: what is open is written without an exit.              *)
Finalize ==
  LET open == {p \in RunPools : holdings[p] # NotHeld} IN
  /\ ~finished /\ barNo = LastTime /\ finished' = TRUE
  /\ tradeRows' = tradeRows \cup {Written(p, 0, "none", {}) : p \in open}
  /\ signalRows' = signalRows \cup
       {[pool |-> p, time |-> barNo, type |-> "risk_event", no |-> 0, order |-> 0, trade |-> 0] : p \in open}
  /\ UNCHANGED <<holdings, numbered, barNo>>

ResultsNext ==
  \/ NextTime \/ TakeOver \/ Finalize
  \/ \E p \in RunPools :
       OpenTrade(p) \/ AddTo(p) \/ \E reason \in Exits, pnl \in Outcomes : CloseTrade(p, reason, pnl)

(* ------------------------------ the API ----------------------------------- *)
Class(t) ==
  IF t.reason = "end_of_backtest" THEN "end_of_backtest"
  ELSE IF t.exit = 0 THEN "open"
  ELSE IF t.reason \notin NormalExits \/ t.exit < t.entry \/ t.pnl = {} THEN "incomplete"
  ELSE "normal_closed"

(* enrichResults: a trade without a number has its place among its pool's.      *)
\* Mutant: trades are numbered over all pools.
Rank_InRun(t) == Cardinality({u \in tradeRows : u.entry <= t.entry})
Rank(t) == Cardinality({u \in tradeRows : u.pool = t.pool /\ u.entry <= t.entry})
TradeNo(t) ==
  IF t.no # 0 THEN t.no
  ELSE IF \E u \in tradeRows \ {t} : u.pool = t.pool /\ u.entry = t.entry THEN 0 ELSE Rank(t)
Candidates(s) ==
  {t \in tradeRows : t.pool = s.pool /\
     IF s.no # 0 THEN TradeNo(t) = s.no
     ELSE CASE s.type = "entry" -> t.entry = s.time
            [] s.type = "add" -> s.time \in t.adds
            [] s.type \in Exits -> t.reason = s.type /\ t.exit = s.time
            [] OTHER -> FALSE}
TradeOf(s) == IF Cardinality(Candidates(s)) = 1 THEN Candidates(s) ELSE {}
EventOrder(s, t) ==
  IF s.order # 0 THEN s.order
  ELSE CASE s.type = "entry" -> 1
         [] s.type = "add" -> Cardinality({a \in t.adds : a <= s.time}) + 1
         [] OTHER -> Cardinality(t.adds) + 2

(* selectResults and filteredStatistics.                                        *)
SelectedTrades(includeEnd, types) ==
  {t \in tradeRows : /\ includeEnd \/ Class(t) = "normal_closed"
                     /\ types = {} \/ \E s \in signalRows : s.type \in types /\ s.pool = t.pool /\ TradeOf(s) = {t}}
SelectedSignals(includeEnd, types) ==
  LET trades == SelectedTrades(includeEnd, types) IN
  {s \in signalRows : IF TradeOf(s) # {} THEN TradeOf(s) \subseteq trades
                      ELSE types = {} /\ (s.type = "risk_event" \/ includeEnd)}
\* A sum of which a part is missing is missing.
SumOf(results) ==
  IF \E x \in DOMAIN results : results[x] = {} THEN {}
  ELSE {SumFunction([x \in DOMAIN results |-> Max(results[x])])}
Total(S) == SumOf([t \in S |-> t.pnl])
NetPnl(includeEnd) == Total({t \in SelectedTrades(includeEnd, {}) : t.exit # 0})
(* runCas: per pool from the filtered trades, or with end exits by one SQL      *)
(* query, then per token and for the run.                                       *)
PoolTrades(p, includeEnd, types) ==
  IF types # {} \/ ~includeEnd THEN {t \in SelectedTrades(includeEnd, types) : t.pool = p}
  ELSE {t \in tradeRows : t.pool = p}
Realized(p, includeEnd, types) == Total({t \in PoolTrades(p, includeEnd, types) : t.exit # 0})
CaPools(ca, includeEnd, types) ==
  {p \in RunPools : p.ca = ca /\ (types # {} => PoolTrades(p, includeEnd, types) # {})}
CaRealized(ca, includeEnd, types) ==
  SumOf([p \in CaPools(ca, includeEnd, types) |-> Realized(p, includeEnd, types)])
RunRealized(includeEnd, types) ==
  LET cas == {ca \in {p.ca : p \in RunPools} : CaPools(ca, includeEnd, types) # {}} IN
  SumOf([ca \in cas |-> CaRealized(ca, includeEnd, types)])

(* Whichever release wrote a row, before or after a takeover in the middle of a *)
(* position: a signal is shown with the trade it belongs to as soon as that is  *)
(* written, and with none before; trades of a pool are numbered 1, 2, .. and    *)
(* the events of a trade 1, 2, .. in the order they happened.                   *)
SignalsFindTheirTrade ==
  LET of == [s \in signalRows |-> TradeOf(s)]
      own == [t \in tradeRows |-> {s \in signalRows : of[s] = {t}}]
  IN /\ \A s \in signalRows : of[s] = {t \in tradeRows : t.pool = s.pool /\ t.entry = s.trade}
     /\ \A t, u \in tradeRows : t.pool = u.pool => (t.entry < u.entry <=> TradeNo(t) < TradeNo(u))
     /\ \A p \in RunPools : {TradeNo(t) : t \in {u \in tradeRows : u.pool = p}} = 1..ClosedIn(p)
     /\ \A t \in tradeRows : {EventOrder(s, t) : s \in own[t]} = 1..Cardinality(own[t])
(* The tokens' results add up to the run's, missing ones included, with and     *)
(* without the exits at the end of the data; a filter shows whole trades.       *)
SumsAgree ==
  \A includeEnd \in BOOLEAN, types \in Filters :
    LET trades == SelectedTrades(includeEnd, types) shown == SelectedSignals(includeEnd, types) IN
    /\ RunRealized(includeEnd, types) = Total({t \in trades : t.exit # 0})
    /\ types = {} => RunRealized(includeEnd, types) = NetPnl(includeEnd)
    /\ \A s \in signalRows : (\E t \in trades : s.pool = t.pool /\ s.trade = t.entry) => s \in shown
(* Signals are shown with their trades, and every sum of results is the same    *)
(* whichever way the API computes it, from the first signal on (before it there *)
(* is no row to show or to add up).                                             *)
ResultsAgree == signalRows # {} => SignalsFindTheirTrade /\ SumsAgree
=============================================================================
