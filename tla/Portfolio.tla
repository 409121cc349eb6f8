------------------------------ MODULE Portfolio ------------------------------
(* One shared account traded by three programs on the same candles: the        *)
(* reference backtest (backtestSteps), the resumable backtest                  *)
(* (ResumableEngine.step) and the paper account of the live service            *)
(* (LiveEvaluator decisions, filled in the closing bar by createDecision and   *)
(* paperFill).  What the conditions and the impulse selection say of a candle  *)
(* is part of the tick (module Impulse shows that all three compute the same); *)
(* prices, amounts and quantities are whole numbers, a purchase buys whole     *)
(* tokens, and one percentage stands for fee, slippage and tax.                *)
EXTENDS Integers, Sequences, FiniteSets, FiniteSetsExt, SequencesExt

CONSTANTS
  Order,      \* the pools, sorted by pool key
  Plans,      \* strategies: [rule, lock, reentry, maxPos, maxEntries, closeAtEnd]
  Batches,    \* what one timestamp brings: pool -> [bar, met, invalid, keep, fresh, last],
              \* a candle and the verdicts of the conditions on it
  MaxSteps, Capital, Stake,
  CostPct, StopPct, TargetPct, MaxHolding,
  Tiers,      \* profit lock: [act, floor], in percent over the entry price
  SignalTime  \* entries are allowed strictly after this step

VARIABLES plan, now, ended, engine, reference, paper
pvars == <<plan, now, ended, engine, reference, paper>>

Pools == {Order[i] : i \in DOMAIN Order}
Pullback == plan.rule = "pullback"
Allows(t) == t > SignalTime
Costs(x) == (x * CostPct) \div 100
Affordable(cash) == (cash * 100) \div (100 + CostPct)

NoPos == [qty |-> 0, paid |-> 0, cost |-> 0, entries |-> 0, since |-> 0, at |-> 0, lock |-> 0, tier |-> 0]
Held(s) == s.pos.qty > 0
Entry(pos) == pos.paid \div pos.qty
StopOf(pos) == (Entry(pos) * StopPct) \div 100
TargetOf(pos) == (Entry(pos) * TargetPct) \div 100
OpenPools(acct) == {p \in Pools : Held(acct.pool[p])}

(* matchBarExit: lock or stop first, then invalidation, target, timeout, end.  *)
BarExit(b, pos, lock, invalid, timedOut, end) ==
  LET stop == Max({StopOf(pos), lock}) target == TargetOf(pos)
      exit(type, price) == [type |-> type, price |-> price]
  IN IF b.low <= stop
     THEN exit(IF lock > StopOf(pos) THEN "profit_lock" ELSE "stop_loss", Min({b.open, stop}))
     ELSE IF invalid THEN exit("invalidation", b.close)
     ELSE IF target > Entry(pos) /\ b.high >= target THEN exit("take_profit", Max({b.open, target}))
     ELSE IF timedOut THEN exit("timeout", b.close)
     ELSE IF end THEN exit("end_of_backtest", b.close)
     ELSE exit("none", 0)

(* advanceImpulseCandidate: a pending candidate stays while it stands, else a  *)
(* fresh search; `changed` says that one of the two exists.                    *)
Advanced(cand, t) ==
  IF cand # 0 /\ t.keep THEN [cand |-> cand, changed |-> FALSE]
  ELSE [cand |-> t.fresh, changed |-> cand # 0 \/ t.fresh # 0]

(* Profit lock, confirmed at the close and used from the next candle on.       *)
Confirmed(pos, close) ==
  LET cost == Entry(pos)
      hit == {i \in DOMAIN Tiers : i > pos.tier /\ 100 * close >= cost * (100 + Tiers[i].act)}
      price == {(cost * (100 + Tiers[i].floor)) \div 100 : i \in hit}
  IN IF hit = {} THEN pos ELSE [pos EXCEPT !.tier = Max(hit), !.lock = Max({@} \cup price)]

Tokens(cash, close) == Min({Stake, Affordable(cash)}) \div close
Bought(pos, qty, close, idx) ==
  [pos EXCEPT !.qty = @ + qty, !.paid = @ + qty * close, !.cost = @ + Costs(qty * close),
              !.entries = @ + 1, !.since = IF pos.qty = 0 THEN idx ELSE @,
              !.at = IF pos.qty = 0 THEN now + 1 ELSE @]
Row(p, pos, price, type) ==
  [pool |-> p, from |-> pos.at, to |-> now + 1, reason |-> type,
   net |-> pos.qty * price - pos.paid - pos.cost - Costs(pos.qty * price)]

Fresh == [pos |-> NoPos, edge |-> FALSE, add |-> FALSE, cand |-> 0, idx |-> 0, traded |-> FALSE, price |-> 0]
Adds(s, t) == plan.maxEntries > 1 /\ s.pos.entries < plan.maxEntries /\ t.met /\ ~s.add
Starts(s, t) == s.cand # 0 /\ t.met /\ ~s.edge /\ (plan.reentry \/ ~s.traded)
Unarmed(s) == [s EXCEPT !.edge = FALSE, !.add = FALSE]

(* A buy: cash pays the value and its costs; nothing happens without cash.     *)
Pay(a, p, close) ==
  LET qty == Tokens(a.cash, close) s == a.pool[p]
  IN IF qty = 0 THEN a
     ELSE [a EXCEPT !.cash = @ - qty * close - Costs(qty * close), !.pool[p].pos = Bought(s.pos, qty, close, s.idx)]
(* A new bar reaches the pools of the batch.                                   *)
Read(a, batch) ==
  [a EXCEPT !.pool = [p \in Pools |-> IF p \in DOMAIN batch
     THEN [@[p] EXCEPT !.idx = @ + 1, !.price = batch[p].bar.close] ELSE @[p]]]
Equity(a) == a.cash + MapThenSumSet(LAMBDA p : a.pool[p].pos.qty * a.pool[p].price, Pools)
Marked(a) ==
  LET e == Equity(a) peak == Max({a.peak, e})
  IN [a EXCEPT !.peak = peak, !.drawdown = Max({@, peak - e})]
Serve(step(_, _), a, batch) ==
  FoldLeft(LAMBDA acc, p : IF p \in DOMAIN batch THEN step(acc, p) ELSE acc, a, Order)
TimedOut(s) == s.idx - s.pos.since >= MaxHolding

(* ----------------------- ResumableEngine.step ----------------------------- *)
EngInit == [cash |-> Capital, peak |-> Capital, drawdown |-> 0, pool |-> [p \in Pools |-> Fresh], rows |-> <<>>,
            net |-> 0, wins |-> 0, losses |-> 0, streak |-> 0, maxStreak |-> 0]
EngClose(a, p, price, type) ==
  LET pos == a.pool[p].pos row == Row(p, pos, price, type) won == row.net > 0
      streak == IF won THEN 0 ELSE a.streak + 1
  IN [a EXCEPT !.cash = @ + pos.qty * price - Costs(pos.qty * price),
        !.rows = Append(@, row), !.net = @ + row.net,
        !.wins = IF won THEN @ + 1 ELSE @, !.losses = IF won THEN @ ELSE @ + 1,
        !.streak = streak, !.maxStreak = Max({@, streak}),
        !.pool[p] = [@ EXCEPT !.pos = NoPos, !.traded = TRUE, !.edge = ~Pullback,
                              !.cand = IF Pullback THEN 0 ELSE @]]
EngExit(a, p, t) ==
  LET s == a.pool[p]
      x == BarExit(t.bar, s.pos, IF plan.lock THEN s.pos.lock ELSE 0, t.invalid, TimedOut(s), t.last /\ plan.closeAtEnd)
  IN IF ~Held(s) \/ x.type = "none" THEN a ELSE EngClose(a, p, x.price, x.type)
(* ResumableEngine.impulse of a flat pool.                                     *)
EngLook(s, t) ==
  IF ~Pullback THEN [s EXCEPT !.cand = t.fresh]
  ELSE LET n == Advanced(s.cand, t) IN [s EXCEPT !.cand = n.cand, !.edge = @ /\ ~n.changed]
EngEnd(a, p, t) ==
  IF t.last /\ plan.closeAtEnd /\ Held(a.pool[p]) THEN EngClose(a, p, t.bar.close, "end_of_backtest")
  ELSE IF plan.lock /\ Held(a.pool[p]) THEN [a EXCEPT !.pool[p].pos = Confirmed(@, t.bar.close)] ELSE a
EngSkips(sold) == (Pullback /\ sold) \/ ~Allows(now + 1)
EngDecide(a0, p, t, sold) ==
  LET a == IF Held(a0.pool[p]) THEN a0 ELSE [a0 EXCEPT !.pool[p] = EngLook(@, t)]
      s == a.pool[p]
      bought == Pay(a, p, t.bar.close)
      start == Starts(s, t) /\ Cardinality(OpenPools(a)) < plan.maxPos
      entered == IF start /\ Held(bought.pool[p]) THEN [bought EXCEPT !.pool[p].cand = 0] ELSE a
  IN IF EngSkips(sold) THEN [a EXCEPT !.pool[p] = Unarmed(@)]
     ELSE EngEnd(IF Held(s) THEN [(IF Adds(s, t) THEN bought ELSE a) EXCEPT !.pool[p].add = t.met]
                 ELSE [entered EXCEPT !.pool[p].edge = s.cand # 0 /\ t.met, !.pool[p].add = FALSE], p, t)
EngStep(a0, batch) ==
  LET a1 == Read(a0, batch)
      a2 == Serve(LAMBDA a, p : EngExit(a, p, batch[p]), a1, batch)
  IN Marked(Serve(LAMBDA a, p : EngDecide(a, p, batch[p], Held(a1.pool[p]) /\ ~Held(a2.pool[p])), a2, batch))

(* ---------------------------- backtestSteps ------------------------------- *)
RefInit == [cash |-> Capital, peak |-> Capital, drawdown |-> 0, pool |-> [p \in Pools |-> Fresh],
            rows |-> <<>>, sold |-> {}]
RefClose(a, p, price, type) ==
  LET pos == a.pool[p].pos
  IN [a EXCEPT !.cash = @ + pos.qty * price - Costs(pos.qty * price), !.rows = Append(@, Row(p, pos, price, type)),
        !.sold = @ \cup {p},
        !.pool[p] = [@ EXCEPT !.pos = NoPos, !.traded = TRUE, !.edge = ~Pullback, !.cand = IF Pullback THEN 0 ELSE @]]
RefExit(a, p, t) ==
  LET s == a.pool[p]
      x == BarExit(t.bar, s.pos, 0, t.invalid, TimedOut(s), t.last /\ plan.closeAtEnd)
  IN IF ~Held(s) \/ x.type = "none" THEN a ELSE RefClose(a, p, x.price, x.type)
RefLook(s, t) ==
  IF ~Pullback THEN [s EXCEPT !.cand = t.fresh]
  ELSE IF Held(s) THEN [s EXCEPT !.cand = 0]
  ELSE LET n == Advanced(s.cand, t) IN [s EXCEPT !.cand = n.cand, !.edge = @ /\ ~n.changed]
RefSkips(a, p) == (Pullback /\ p \in a.sold) \/ ~Allows(now + 1)
RefDecide(a0, p, t) ==
  LET a == [a0 EXCEPT !.pool[p] = RefLook(@, t)]
      s == a.pool[p]
      trades == IF Held(s) THEN Adds(s, t) ELSE Starts(s, t) /\ Cardinality(OpenPools(a)) < plan.maxPos
      b == IF trades THEN Pay(a, p, t.bar.close) ELSE a
      c == IF Held(s) THEN [b EXCEPT !.pool[p].add = t.met]
           ELSE [b EXCEPT !.pool[p].edge = s.cand # 0 /\ t.met, !.pool[p].add = FALSE]
  IN IF RefSkips(a, p) THEN [a EXCEPT !.pool[p] = Unarmed(@)]
     ELSE IF plan.closeAtEnd /\ t.last /\ Held(c.pool[p]) THEN RefClose(c, p, t.bar.close, "end_of_backtest")
     ELSE c
RefStep(a, batch) ==
  Marked(Serve(LAMBDA acc, p : RefDecide(acc, p, batch[p]),
           Serve(LAMBDA acc, p : RefExit(acc, p, batch[p]), Read([a EXCEPT !.sold = {}], batch), batch), batch))

(* The longest run of losing trades, from the list of trades.                  *)
LosingRun(rows) == FoldLeft(LAMBDA acc, r : LET n == IF r.net <= 0 THEN acc.now + 1 ELSE 0
                                            IN [now |-> n, max |-> Max({acc.max, n})], [now |-> 0, max |-> 0], rows).max
Open(a) == [p \in OpenPools(a) |-> LET pos == a.pool[p].pos IN [qty |-> pos.qty, fees |-> pos.cost,
              net |-> a.pool[p].price * pos.qty - pos.paid - pos.cost]]
Report(trades, wins, losses, net, streak, a) ==
  [trades |-> trades, wins |-> wins, losses |-> losses, net |-> net, streak |-> streak, open |-> Open(a),
   equity |-> Equity(a), drawdown |-> a.drawdown]
EngReport == Report(engine.wins + engine.losses, engine.wins, engine.losses, engine.net, engine.maxStreak, engine)
RefReport ==
  LET won == Len(SelectSeq(reference.rows, LAMBDA r : r.net > 0))
      net == FoldLeft(LAMBDA x, r : x + r.net, 0, reference.rows)
  IN Report(Len(reference.rows), won, Len(reference.rows) - won, net, LosingRun(reference.rows), reference)

(* ------------------------- the paper account ------------------------------ *)
PaperInit == [cash |-> Capital, peak |-> Capital, drawdown |-> 0, rows |-> <<>>,
              pool |-> [p \in Pools |-> Fresh @@ [had |-> FALSE]]]
(* LiveEvaluator.onClosedCandle: the candidate, then one decision at most.     *)
PaperLook(s, t) ==
  IF ~Pullback THEN [s EXCEPT !.cand = IF Held(s) THEN @ ELSE t.fresh]
  ELSE IF Held(s) THEN [s EXCEPT !.cand = 0, !.had = TRUE]
  ELSE LET s1 == IF s.had THEN [s EXCEPT !.cand = 0, !.edge = FALSE, !.had = FALSE] ELSE s
           n == Advanced(s1.cand, t)
       IN [s1 EXCEPT !.cand = n.cand, !.edge = @ /\ ~n.changed]
PaperExit(s, t) == BarExit(t.bar, s.pos, IF plan.lock THEN s.pos.lock ELSE 0, t.invalid, TimedOut(s), FALSE)
PaperSells(s, t) == Held(s) /\ PaperExit(s, t).type # "none"
PaperBuys(s, t) ==
  /\ Allows(now + 1)
  /\ IF Held(s) THEN ~PaperSells(s, t) /\ Adds(s, t) ELSE Starts(s, t)
PaperEdges(s, t) ==
  IF ~Allows(now + 1) \/ PaperSells(s, t) THEN s
  ELSE IF ~Held(s) THEN [s EXCEPT !.edge = s.cand # 0 /\ t.met, !.add = FALSE]
  ELSE [s EXCEPT !.add = IF plan.maxEntries > 1 /\ s.pos.entries < plan.maxEntries THEN t.met ELSE @]
(* createDecision and paperFill, in the transaction of the closing bar.        *)
PaperSell(a, p, t) ==
  LET pos == a.pool[p].pos x == PaperExit(a.pool[p], t)
  IN [a EXCEPT !.cash = @ + pos.qty * x.price - Costs(pos.qty * x.price),
        !.rows = Append(@, Row(p, pos, x.price, x.type)),
        !.pool[p] = [@ EXCEPT !.pos = NoPos, !.traded = TRUE, !.edge = TRUE]]
PaperBuy(a, p, t) ==
  IF ~Held(a.pool[p]) /\ Cardinality(OpenPools(a)) >= plan.maxPos THEN a ELSE Pay(a, p, t.bar.close)
\* Mutant: the edge is not taken back.
PaperConfirm_KeepsEdge(s, t) ==
  LET s1 == IF Pullback /\ ~Held(s) /\ s.had THEN [s EXCEPT !.cand = t.fresh, !.had = FALSE] ELSE s
  IN IF plan.lock /\ Held(s1) THEN [s1 EXCEPT !.pos = Confirmed(@, t.bar.close)] ELSE s1
(* confirmClose: a fresh search after a sale, then the profit lock.            *)
PaperConfirm(s, t) ==
  LET s1 == IF Pullback /\ ~Held(s) /\ s.had
            THEN [s EXCEPT !.cand = t.fresh, !.edge = FALSE, !.add = FALSE, !.had = FALSE] ELSE s
  IN IF plan.lock /\ Held(s1) THEN [s1 EXCEPT !.pos = Confirmed(@, t.bar.close)] ELSE s1
PaperStep(a0, batch) ==
  LET a1 == Serve(LAMBDA a, p : [a EXCEPT !.pool[p] = PaperLook(@, batch[p])], Read(a0, batch), batch)
      sells == {p \in DOMAIN batch : PaperSells(a1.pool[p], batch[p])}
      buys == {p \in DOMAIN batch : PaperBuys(a1.pool[p], batch[p])}
      a2 == Serve(LAMBDA a, p : [a EXCEPT !.pool[p] = PaperEdges(@, batch[p])], a1, batch)
      a3 == Serve(LAMBDA a, p : IF p \in sells THEN PaperSell(a, p, batch[p]) ELSE a, a2, batch)
      a4 == Serve(LAMBDA a, p : IF p \in buys THEN PaperBuy(a, p, batch[p]) ELSE a, a3, batch)
  IN Marked(Serve(LAMBDA a, p : [a EXCEPT !.pool[p] = PaperConfirm(@, batch[p])], a4, batch))

(* ---------------------------------- feed ---------------------------------- *)
PortfolioInit ==
  /\ plan \in Plans /\ now = 0 /\ ended = {}
  /\ engine = EngInit /\ reference = RefInit /\ paper = PaperInit

Trade ==
  /\ now < MaxSteps
  /\ \E batch \in Batches :
       /\ DOMAIN batch \cap ended = {}
       /\ engine' = EngStep(engine, batch)
       /\ reference' = RefStep(reference, batch)
       /\ paper' = PaperStep(paper, batch)
       /\ ended' = ended \cup {p \in DOMAIN batch : batch[p].last}
  /\ now' = now + 1
  /\ UNCHANGED plan

PortfolioNext == Trade

(* ------------------------------- properties ------------------------------- *)
(* Without a profit lock, which the reference does not have, the resumable     *)
(* backtest closes the same trades at the same prices, keeps the same cash and *)
(* reports from its running counters what the reference computes from the list *)
(* of trades at the end.                                                       *)
ReferenceAgrees ==
  ~plan.lock => engine.rows = reference.rows /\ engine.cash = reference.cash /\ EngReport = RefReport

(* The paper account of a running strategy trades what a backtest of the same  *)
(* candles trades, lock tiers included, until the data of a pool ends: only a  *)
(* backtest knows a last bar.                                                  *)
PaperAgrees ==
  Pullback /\ ended = {} => paper.rows = engine.rows /\ paper.cash = engine.cash /\ Open(paper) = Open(engine)

(* One account serves every pool: it never goes below zero, never holds more   *)
(* pools than the strategy allows, and every token bought or sold is accounted *)
(* for.                                                                        *)
SharedAccount ==
  \A a \in {engine, reference, paper} :
    /\ a.cash >= 0 /\ Cardinality(OpenPools(a)) <= plan.maxPos
    /\ a.cash = Capital + FoldLeft(LAMBDA x, r : x + r.net, 0, a.rows)
                - MapThenSumSet(LAMBDA p : a.pool[p].pos.paid + a.pool[p].pos.cost, Pools)

(* A pool that was sold in a candle is not bought again in it.                 *)
NoReentryOnSale ==
  \A a \in {engine, reference, paper} : \A i \in DOMAIN a.rows :
    LET r == a.rows[i]
    IN /\ r.reason # "end_of_backtest" => ~(Held(a.pool[r.pool]) /\ a.pool[r.pool].pos.at = r.to)
       /\ \A j \in DOMAIN a.rows : a.rows[j].pool = r.pool /\ j > i => a.rows[j].from > r.to

=============================================================================
