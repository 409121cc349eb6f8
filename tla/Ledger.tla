------------------------------- MODULE Ledger -------------------------------
(* What the worker writes of its paper positions and what the API rebuilds    *)
(* from it.  The worker keeps a position per token and one row per fill; the   *)
(* API has only the rows and must find the same cycles, results and numbers,   *)
(* those before rows carried the position they belong to included.             *)
EXTENDS Integers, Sequences, FiniteSets, FiniteSetsExt, SequencesExt, Functions

CONSTANTS
  Coins,
  OrderAmount, Funds,     \* fixed amount of an order, initial capital
  Prices, CostRate, \* prices; fee, slippage and tax together, in percent
  MaxFills          \* bound
ASSUME LedgerAssumption ==
  /\ IsFiniteSet(Coins) /\ {OrderAmount, Funds, CostRate, MaxFills} \subseteq Nat /\ Prices \subseteq Nat \ {0}

VARIABLES
  account,   \* the run's [cash, pnl]
  position,  \* per token: [id, qty, cost, trades, entries], qty = 0 without one
  earlier,   \* history: per token, the positions closed before it was last admitted
  fills,     \* the rows of live_orders with their live_fills
  identified,\* the release that writes position_id is deployed
  bar        \* the time of the bar that closes
wvars == <<account, position, earlier, fills, identified, bar>>

Flat(trades) == [id |-> 0, qty |-> 0, cost |-> 0, trades |-> trades, entries |-> 0]
LedgerInit ==
  /\ account = [cash |-> Funds, pnl |-> 0] /\ position = [t \in Coins |-> Flat(0)]
  /\ earlier = [t \in Coins |-> 0] /\ fills = {} /\ identified \in BOOLEAN /\ bar = 1

Charge(gross) == (gross * CostRate) \div 100
NewIds ==   \* random: the next may sort before or after those there are
  LET free == (1..MaxFills) \ {f.id : f \in fills} IN IF free = {} THEN {} ELSE {Min(free), Max(free)}
WriteRow(row) == fills' = fills \cup {row} /\ UNCHANGED <<earlier, identified, bar>>
(* An exit or an entry, at most one per token and bar.                         *)
Quiet(t) == \A f \in fills : f.ca = t => f.time < bar

(* paperFill of a buy: the first one gives the position its id.                *)
FillBuy(t, price, id) ==
  LET p == position[t]
      gross == Min({OrderAmount, (account.cash * 100) \div (100 + CostRate)})
      qty == gross \div price
      of == IF p.qty > 0 THEN p.id ELSE IF identified THEN id ELSE 0
  IN /\ Quiet(t) /\ p.entries < 2 /\ qty > 0
     /\ position' = [position EXCEPT ![t] = [p EXCEPT !.id = of, !.qty = @ + qty,
                       !.cost = @ + qty * price + Charge(qty * price), !.entries = @ + 1]]
     /\ account' = [account EXCEPT !.cash = @ - qty * price - Charge(qty * price)]
     /\ WriteRow([id |-> id, ca |-> t, position |-> of, side |-> "buy", reason |-> IF p.qty > 0 THEN "add" ELSE "entry",
                time |-> bar, qty |-> qty, gross |-> qty * price, cost |-> Charge(qty * price)])
(* paperFill of a sell: the whole position, as requested.                      *)
FillSell(t, price, id) ==
  LET p == position[t]
      gross == p.qty * price
      net == gross - Charge(gross)
  IN /\ Quiet(t) /\ p.qty > 0
     /\ position' = [position EXCEPT ![t] = Flat(p.trades + 1)]
     /\ account' = [cash |-> account.cash + net, pnl |-> account.pnl + net - p.cost]
     /\ WriteRow([id |-> id, ca |-> t, position |-> p.id, side |-> "sell", reason |-> "exit",
                time |-> bar, qty |-> p.qty, gross |-> gross, cost |-> Charge(gross)])
Deploy == ~identified /\ identified' = TRUE /\ UNCHANGED <<account, position, earlier, fills, bar>>
NextBar == (\E f \in fills : f.time = bar) /\ bar' = bar + 1 /\ UNCHANGED <<account, position, earlier, fills, identified>>
(* A token that was evicted, for which it must not be held, is admitted again:  *)
(* the worker's state of it starts anew, its number of trades included, and the *)
(* rows stay.                                                                   *)
Readmit(t) ==
  /\ position[t].qty = 0 /\ position' = [position EXCEPT ![t] = Flat(0)]
  /\ earlier' = [earlier EXCEPT ![t] = @ + position[t].trades]
  /\ UNCHANGED <<account, fills, identified, bar>>

LedgerNext ==
  \/ Deploy \/ NextBar
  \/ \E t \in Coins, price \in Prices, id \in NewIds : FillBuy(t, price, id) \/ FillSell(t, price, id)
  \/ \E t \in Coins : Readmit(t)
LedgerSpec == LedgerInit /\ [][LedgerNext]_wvars

(* --------------------------------- the API -------------------------------- *)
(* Rows are taken by time, then by id: of a set of rows the latest comes last.  *)
TakenAfter(f, g) == f.time > g.time \/ (f.time = g.time /\ f.id > g.id)
LastTaken(F) == CHOOSE f \in F : \A g \in F \ {f} : TakenAfter(f, g)

(* buildLivePortfolio: cycles in the order they open; of each token the index  *)
(* of the one that is active and how many there have been.                     *)
NoCycles == [cycles |-> <<>>, active |-> [t \in Coins |-> 0], count |-> [t \in Coins |-> 0], incomplete |-> 0]
Opens(b, f) ==
  [b EXCEPT !.cycles = Append(@, [id |-> IF f.position # 0 THEN f.position ELSE f.id, ca |-> f.ca, orders |-> {f.id},
              no |-> b.count[f.ca] + 1, qty |-> f.qty, cost |-> f.gross + f.cost, pnl |-> 0, sold |-> 0, status |-> "open"]),
            !.active[f.ca] = Len(b.cycles) + 1, !.count[f.ca] = @ + 1]
Breaks(b, f) ==
  [b EXCEPT !.incomplete = @ + 1, !.active[f.ca] = 0,
            !.cycles = IF b.active[f.ca] = 0 THEN @ ELSE [@ EXCEPT ![b.active[f.ca]].status = "incomplete"]]
Grows(b, i, f) ==
  [b EXCEPT !.cycles[i].orders = @ \cup {f.id}, !.cycles[i].qty = @ + f.qty, !.cycles[i].cost = @ + f.gross + f.cost]
Shrinks(b, i, f) ==
  LET c == b.cycles[i]
      basis == (c.cost * f.qty) \div c.qty
      d == [c EXCEPT !.orders = @ \cup {f.id}, !.qty = @ - f.qty, !.cost = @ - basis,
              !.pnl = @ + f.gross - f.cost - basis, !.sold = f.time, !.status = IF c.qty = f.qty THEN "closed" ELSE @]
  IN [b EXCEPT !.cycles[i] = d, !.active[f.ca] = IF d.qty = 0 THEN 0 ELSE @]
(* Mutant: a fill without a position is foreign to every cycle.                *)
Foreign_Unlinked(b, f) == b.active[f.ca] # 0 /\ b.cycles[b.active[f.ca]].id # f.position
Foreign(b, f) == b.active[f.ca] # 0 /\ f.position # 0 /\ b.cycles[b.active[f.ca]].id # f.position
TakeFill(b, f) ==
  LET i == b.active[f.ca] IN
  IF f.side = "buy"
  THEN IF Foreign(b, f) THEN Opens(Breaks(b, f), f) ELSE IF i = 0 THEN Opens(b, f) ELSE Grows(b, i, f)
  ELSE IF i = 0 \/ Foreign(b, f) \/ f.qty > b.cycles[i].qty THEN Breaks(b, f) ELSE Shrinks(b, i, f)
Books[F \in SUBSET fills] == IF F = {} THEN NoCycles ELSE TakeFill(Books[F \ {LastTaken(F)}], LastTaken(F))
Portfolio == Books[fills]
(* realizedCapital: the balance after the exits up to a time.                  *)
Balance(b, time) == Funds + SumFunction(
  [i \in {j \in DOMAIN b.cycles : b.cycles[j].status = "closed" /\ b.cycles[j].sold <= time} |-> b.cycles[i].pnl])

(* markers: the number of each fill on the chart, of one token at a time.      *)
Numbered(m, f) ==
  LET k == IF f.position # 0 THEN f.position ELSE f.id
      new == f.side = "buy" /\ (k \notin DOMAIN m.cycles \/ (f.reason # "add" /\ f.position = 0))
      cs == IF new THEN [x \in DOMAIN m.cycles \cup {k} |-> IF x = k THEN m.count + 1 ELSE m.cycles[x]] ELSE m.cycles
  IN [count |-> IF new THEN m.count + 1 ELSE m.count, cycles |-> cs,
      labels |-> IF k \in DOMAIN cs THEN [x \in DOMAIN m.labels \cup {f.id} |-> IF x = f.id THEN cs[k] ELSE m.labels[x]] ELSE m.labels]
NoMarkers == [count |-> 0, cycles |-> <<>>, labels |-> <<>>]
Markers[F \in SUBSET fills] == IF F = {} THEN NoMarkers ELSE Numbered(Markers[F \ {LastTaken(F)}], LastTaken(F))
Labels(t) == Markers[{f \in fills : f.ca = t}].labels

(* The rows say all that the worker knows: every cycle is whole, what is open  *)
(* has the quantity and cost of the position that is held, and the curve of    *)
(* realised capital ends at the run's own result.  The worker's own number of  *)
(* a position (tradeNo) starts again at 1 with each admission of its token;    *)
(* the API numbers on over all of them.                                        *)
RowsTellPositions ==
  LET b == Portfolio IN
  /\ b.incomplete = 0
  /\ \A t \in Coins : IF position[t].qty = 0 THEN b.active[t] = 0 /\ b.count[t] = earlier[t] + position[t].trades
       ELSE /\ b.active[t] # 0 /\ b.count[t] = earlier[t] + position[t].trades + 1
            /\ LET c == b.cycles[b.active[t]] IN c.qty = position[t].qty /\ c.cost = position[t].cost
  /\ Balance(b, bar) = Funds + account.pnl
  /\ account.cash + SumFunction([t \in Coins |-> position[t].cost]) = Balance(b, bar)
(* The number of a fill on the chart is the number of its cycle in the table,  *)
(* as long as no position was added to before rows named their position.       *)
LabelsAgree ==
  (\A f \in fills : f.reason = "add" => f.position # 0) =>
    LET b == Portfolio
        shown == [t \in Coins |-> Labels(t)]
    IN \A c \in ToSet(b.cycles) : \A x \in c.orders : x \in DOMAIN shown[c.ca] => shown[c.ca][x] = c.no
(* As soon as there are rows of fills: both of what the API makes of them.     *)
LedgerTells == fills # {} => RowsTellPositions /\ LabelsAgree
=============================================================================
