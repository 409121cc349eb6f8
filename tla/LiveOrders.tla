------------------------------- MODULE LiveOrders -------------------------------
(***************************************************************************)
(* Real orders of one live run (apps/worker/src/live-service.ts).  A       *)
(* decision becomes a durable intent in the transaction that closes the    *)
(* bar; after COMMIT the intent is sent to the XXYY exchange, which knows  *)
(* no client order id, so that an order whose answer was lost can neither  *)
(* be repeated nor looked up.  The run is then put on hold until           *)
(* reconcileOrders has learnt what became of the order.                    *)
(*                                                                         *)
(* The worker's queue (enqueue) runs one job after the other: the bar      *)
(* cycle (executeBars, submitLive) and the refresh (switchExecution, load, *)
(* reconcileOrders) never overlap, but an interruption of the feed, the    *)
(* HTTP API, the exchange and a crash come between any two of their steps. *)
(*                                                                         *)
(* Abstractions.  A token is a number, its place in the order in which     *)
(* executeBars sorts its work.  Every order is a buy of maxOrderNative,    *)
(* one unit: fills of live orders are never recorded, so a live run has no *)
(* position, its evaluator never sells and its realised loss stays 0.  The *)
(* advisory lock leaves one worker.  The bounds are MaxOrders (intents),   *)
(* MaxToggles (pause, start, stop), MaxCuts (feed interruptions),          *)
(* MaxCrashes and MaxErrors (failed database statements).                  *)
(***************************************************************************)
EXTENDS Integers, FiniteSets, Sequences

CONSTANTS
  Tokens,     \* contracts the run watches
  MaxOrders,
  MaxOpen,    \* positionConfig.maxConcurrentPositions
  MaxTotal,   \* risk.maxTotalNative, in units
  MaxToggles, MaxCuts, MaxCrashes, MaxErrors

ASSUME TokensNat == Tokens \subseteq Nat /\ IsFiniteSet(Tokens)
ASSUME BoundsNat ==
  MaxOrders > 0 /\ {MaxOrders, MaxOpen, MaxTotal, MaxToggles, MaxCuts, MaxCrashes, MaxErrors} \subseteq Nat

Ids == 1..MaxOrders

VARIABLES
  status,     \* live_runs.status
  hold,       \* live_runs.execution_hold_reason is set
  orders,     \* live_orders: token, status and whether tx_id is stored
  fate,       \* what the exchange has made of the order
  pc,         \* the worker's place
  todo,       \* submissions of this bar cycle, the one at work first
  tx,         \* the exchange's answer carried a transaction id
  chosen,     \* the order being reconciled
  known,      \* the run's contexts are in this.watches
  link,       \* per token: context not ready, being recovered, ready
  stopping,   \* this.stopped
  left        \* disturbances left

row    == <<status, hold>>
job    == <<pc, todo, tx, chosen>>
memory == <<known, link, stopping>>
vars   == <<row, orders, fate, job, memory, left>>

NoOrder   == [ca |-> 0, status |-> "none", tx |-> FALSE]
Used      == {o \in Ids : orders[o].status # "none"}
WithState(S) == {o \in Ids : orders[o].status \in S}
Uncertain == {"submitted", "unknown"}
Spend(what) == left[what] > 0 /\ left' = [left EXCEPT ![what] = @ - 1]
Goto(step) == pc' = step
SetOrder(o, s) == orders' = [orders EXCEPT ![o].status = s]

\* An operator X_Y next to X is X with one plausible mistake: a variant against which the
\* properties below are tried; no definition uses it.

-----------------------------------------------------------------------------
(* The bar cycle: executeBars.                                             *)

\* pending: the token has an order that is not final.
\* Mutant: an intent that was not sent yet does not count.
OrderOpen_SentOnly(c) == \E o \in WithState(Uncertain) : orders[o].ca = c
OrderOpen(c) == \E o \in WithState(Uncertain \cup {"pending"}) : orders[o].ca = c

\* The work of a cycle is sorted: the tokens of S in ascending order.
Sorted(S) == {q \in [1..Cardinality(S) -> S] : \A i, j \in DOMAIN q : i < j => q[i] < q[j]}

\* A bar closes and the strategy asks to buy the tokens S.  The run's row is locked: a run
\* that is not running or on hold creates nothing, and only ready contexts take part.
MayDecide == status = "running" /\ ~hold
Decide(S) ==
  /\ pc = "idle" /\ known /\ MayDecide
  /\ S # {} /\ Cardinality(S) <= MaxOpen
  /\ \A c \in S : link[c] = "ready" /\ ~OrderOpen(c)
  /\ LET made == Cardinality(Used)
         new  == Cardinality(S)
     IN /\ made + new <= MaxOrders
        /\ \E wish \in Sorted(S) :
             orders' = [o \in Ids |-> IF o \in made + 1 .. made + new
                         THEN [ca |-> wish[o - made], status |-> "pending", tx |-> FALSE]
                         ELSE orders[o]]
        /\ \/ /\ todo' = [i \in 1..new |-> made + i]             \* COMMIT confirmed
              /\ Goto("check") /\ UNCHANGED left
           \/ /\ Spend("error") /\ todo' = <<>> /\ UNCHANGED pc  \* COMMIT took effect, its answer was lost
  /\ UNCHANGED <<row, fate, tx, chosen, memory>>

-----------------------------------------------------------------------------
(* submitLive, for the first order of todo.                                *)

Order == Head(todo)
Ready(o) == link[orders[o].ca] = "ready"
Done == todo' = Tail(todo) /\ Goto(IF Len(todo) = 1 THEN "idle" ELSE "check")

\* The run and the feed are looked at again; an order they no longer allow is cancelled.
MaySubmit(o) == status = "running" /\ ~hold /\ ~stopping /\ Ready(o)
SubmitCheck ==
  /\ pc = "check"
  /\ \/ ~MaySubmit(Order) /\ SetOrder(Order, "cancelled") /\ Done
     \/ MaySubmit(Order) /\ Goto("risk") /\ UNCHANGED <<orders, todo>>
  /\ UNCHANGED <<row, fate, tx, chosen, memory, left>>

\* Exposure, counted from the orders that may have bought something.
Exposure == Cardinality(WithState(Uncertain \cup {"filled"}))
RiskCheck ==
  /\ pc = "risk"
  /\ \/ Exposure + 1 > MaxTotal /\ SetOrder(Order, "failed") /\ Done
     \/ Exposure + 1 <= MaxTotal /\ Goto("wallet") /\ UNCHANGED <<orders, todo>>
  /\ UNCHANGED <<row, fate, tx, chosen, memory, left>>

\* The wallet cannot be verified, or its balance is too small.
WalletBad ==
  /\ pc = "wallet"
  /\ SetOrder(Order, "failed") /\ Done
  /\ UNCHANGED <<row, fate, tx, chosen, memory, left>>

\* The wallet is fine.  The feed is checked once more, in the same turn that sends the order.
WalletGood ==
  /\ pc = "wallet"
  /\ \/ ~(Ready(Order) /\ ~stopping) /\ SetOrder(Order, "cancelled") /\ Done /\ UNCHANGED <<fate, tx>>
     \/ /\ Ready(Order) /\ ~stopping
        /\ fate' = [fate EXCEPT ![Order] = "sent"] /\ tx' = FALSE
        /\ Goto("swap") /\ UNCHANGED <<orders, todo>>
  /\ UNCHANGED <<row, chosen, memory, left>>

\* The exchange answers with a transaction id.
SwapAccepted ==
  /\ pc = "swap" /\ fate[Order] \in {"accepted", "filled", "reverted"}
  /\ tx' = TRUE /\ Goto("submitted")
  /\ UNCHANGED <<row, orders, fate, todo, chosen, memory, left>>

\* No usable answer: refused, timed out or malformed.  The order may have been taken, or may still be.
\* Mutant: the request is repeated.
AfterNoAnswer_Retry == "wallet"
AfterNoAnswer == "unknown"
SwapLost ==
  /\ pc = "swap"
  /\ Goto(AfterNoAnswer)
  /\ UNCHANGED <<row, orders, fate, todo, tx, chosen, memory, left>>

StoreSubmitted ==
  /\ pc = "submitted"
  /\ orders' = [orders EXCEPT ![Order].status = "submitted", ![Order].tx = TRUE]
  /\ Goto("hold")
  /\ UNCHANGED <<row, fate, todo, tx, chosen, memory, left>>

StoreUnknown ==
  /\ pc = "unknown"
  /\ orders' = [orders EXCEPT ![Order].status = "unknown", ![Order].tx = @ \/ tx]
  /\ Goto("holdUnknown")
  /\ UNCHANGED <<row, fate, todo, tx, chosen, memory, left>>

StoreHold ==
  /\ pc \in {"hold", "holdUnknown"}
  /\ hold' = TRUE /\ Done
  /\ UNCHANGED <<status, orders, fate, tx, chosen, memory, left>>

\* A statement of the bar cycle fails.  Between the answer and the end of the try block the
\* order is treated as unknown; anywhere else the whole cycle is given up.
SubmitError ==
  /\ Spend("error")
  /\ \/ /\ pc \in {"submitted", "hold"}
        /\ Goto("unknown") /\ UNCHANGED <<orders, todo>>
     \/ /\ pc = "risk"
        /\ SetOrder(Order, "failed") /\ Done
     \/ /\ pc \in {"check", "risk", "wallet", "unknown", "holdUnknown"}
        /\ todo' = <<>> /\ Goto("idle") /\ UNCHANGED orders
  /\ UNCHANGED <<row, fate, tx, chosen, memory>>

-----------------------------------------------------------------------------
(* The refresh: switchExecution, loading the runs, reconcileOrders.        *)

\* switchExecution: an intent that was never confirmed has an uncertain outcome.
\* Mutant: intents of an earlier life are left as they are.
Doubtful_NotPending == {}
Doubtful == WithState({"pending"})
Refresh ==
  /\ pc \in {"idle", "boot"} /\ ~stopping
  /\ IF status = "running"
     THEN /\ orders' = [o \in Ids |-> IF o \in Doubtful THEN [orders[o] EXCEPT !.status = "unknown"] ELSE orders[o]]
          /\ hold' = (hold \/ \E o \in Ids : orders'[o].status \in Uncertain)
     ELSE UNCHANGED <<orders, hold>>
  /\ Goto("load")
  /\ UNCHANGED <<status, fate, todo, tx, chosen, memory, left>>

\* The contexts of a running run are loaded, those of another forgotten; contexts that are
\* not ready may start to recover.
LoadRuns ==
  /\ pc = "load"
  /\ known' = (status = "running")
  /\ IF status = "running"
     THEN \E R \in SUBSET {c \in Tokens : known /\ link[c] = "off"} :
            link' = [c \in Tokens |-> IF c \in R THEN "recovering" ELSE link[c]]
     ELSE link' = [c \in Tokens |-> "off"]
  /\ Goto("reconcile")
  /\ UNCHANGED <<row, orders, fate, todo, tx, chosen, stopping, left>>

\* The order checked longest ago that has a transaction id.
Traceable == {o \in WithState(Uncertain) : orders[o].tx}
Pick(o) ==
  /\ pc = "reconcile" /\ status = "running" /\ o \in Traceable
  /\ chosen' = o /\ Goto("query")
  /\ UNCHANGED <<row, orders, fate, todo, tx, memory, left>>

PickNone ==
  /\ pc = "reconcile"
  /\ status = "running" => Traceable = {}
  /\ Goto("idle")
  /\ UNCHANGED <<row, orders, fate, todo, tx, chosen, memory, left>>

\* The exchange reports a failed or reverted transaction: only that settles an order.
\* Mutant: any answer settles an order.
Final_AnyAnswer(o) == TRUE
Final(o) == fate[o] = "reverted"
QueryFinal ==
  /\ pc = "query" /\ Final(chosen)
  /\ SetOrder(chosen, "failed") /\ Goto("clear")
  /\ UNCHANGED <<row, fate, todo, tx, chosen, memory, left>>

\* Anything else keeps the order: still open, filled, no answer, wallet not verified.
QueryOpen ==
  /\ pc = "query"
  /\ Goto("idle")
  /\ UNCHANGED <<row, orders, fate, todo, tx, chosen, memory, left>>

StillUncertain == WithState(Uncertain)
ClearHold ==
  /\ pc = "clear"
  /\ hold' = (hold /\ StillUncertain # {})
  /\ Goto("idle")
  /\ UNCHANGED <<status, orders, fate, todo, tx, chosen, memory, left>>

\* A statement of the refresh fails: switchExecution is rolled back, the rest of the refresh is dropped.
RefreshError ==
  /\ pc \in {"load", "reconcile", "query", "clear"} /\ Spend("error")
  /\ Goto("idle")
  /\ UNCHANGED <<row, orders, fate, todo, tx, chosen, memory>>

-----------------------------------------------------------------------------
(* The feed, the HTTP API, the exchange, crashes.                          *)

\* interruptMarket: synchronous, at any await of the queue.
Interrupt(c) ==
  /\ pc # "down" /\ link[c] # "off" /\ Spend("cut")
  /\ link' = [link EXCEPT ![c] = "off"]
  /\ UNCHANGED <<row, orders, fate, job, known, stopping>>

\* finishRecovery, a job of the queue.
FinishRecovery(c) ==
  /\ pc = "idle" /\ known /\ status = "running" /\ link[c] = "recovering"
  /\ link' = [link EXCEPT ![c] = "ready"]
  /\ UNCHANGED <<row, orders, fate, job, known, stopping, left>>

Start ==
  /\ status = "paused" /\ status' = "running"
  /\ UNCHANGED <<hold, orders, fate, job, memory, left>>

Pause ==
  /\ status = "running" /\ status' = "paused" /\ Spend("toggle")
  /\ UNCHANGED <<hold, orders, fate, job, memory>>

Stop ==
  /\ status # "stopped" /\ status' = "stopped" /\ Spend("toggle")
  /\ UNCHANGED <<hold, orders, fate, job, memory>>

\* The exchange takes up an order it was sent, also after the worker stopped waiting for it.
Exchange(o) ==
  /\ \/ fate[o] = "sent" /\ fate' \in {[fate EXCEPT ![o] = f] : f \in {"accepted", "refused"}}
     \/ fate[o] = "accepted" /\ fate' \in {[fate EXCEPT ![o] = f] : f \in {"filled", "reverted"}}
  /\ UNCHANGED <<row, orders, job, memory, left>>

\* close: the queue is drained, its intents are cancelled instead of sent, the process ends.
Shutdown ==
  /\ pc # "down" /\ ~stopping /\ Spend("crash")
  /\ stopping' = TRUE
  /\ UNCHANGED <<row, orders, fate, job, known, link>>

Die == /\ Goto("down") /\ todo' = <<>> /\ tx' = FALSE /\ stopping' = FALSE
       /\ known' = FALSE /\ link' = [c \in Tokens |-> "off"]
       /\ UNCHANGED <<row, orders, fate, chosen>>
Exit  == pc \in {"idle", "boot"} /\ stopping /\ Die /\ UNCHANGED left
Crash == pc # "down" /\ Spend("crash") /\ Die

Restart ==
  /\ pc = "down" /\ Goto("boot")
  /\ UNCHANGED <<row, orders, fate, todo, tx, chosen, memory, left>>

-----------------------------------------------------------------------------
Init ==
  /\ status = "paused" /\ hold = FALSE
  /\ orders = [o \in Ids |-> NoOrder]
  /\ fate = [o \in Ids |-> "unsent"]
  /\ pc = "boot" /\ todo = <<>> /\ tx = FALSE /\ chosen = 1
  /\ known = FALSE /\ link = [c \in Tokens |-> "off"] /\ stopping = FALSE
  /\ left = [toggle |-> MaxToggles, cut |-> MaxCuts, crash |-> MaxCrashes, error |-> MaxErrors]

Submit == \/ SubmitCheck \/ RiskCheck \/ WalletBad \/ WalletGood \/ SwapAccepted \/ SwapLost
          \/ StoreSubmitted \/ StoreUnknown \/ StoreHold \/ SubmitError
Reconcile == (\E o \in Ids : Pick(o)) \/ PickNone \/ QueryFinal \/ QueryOpen \/ ClearHold

Next ==
  \/ \E S \in SUBSET Tokens : Decide(S)
  \/ Submit \/ Refresh \/ LoadRuns \/ Reconcile \/ RefreshError
  \/ \E c \in Tokens : Interrupt(c) \/ FinishRecovery(c)
  \/ Start \/ Pause \/ Stop
  \/ \E o \in Ids : Exchange(o)
  \/ Shutdown \/ Exit \/ Crash \/ Restart

Spec == Init /\ [][Next]_vars

\* Timers and queued jobs run, a dead worker is started again, exchange and database answer;
\* the exchange in the end reports a reverted transaction it is asked about again and again.
\* Nobody has to start a paused run, and no feed has to recover.
Fairness == /\ WF_vars(Submit) /\ WF_vars(Refresh) /\ WF_vars(LoadRuns) /\ WF_vars(Reconcile)
            /\ WF_vars(Exit) /\ WF_vars(Restart)
            /\ SF_vars(QueryFinal) /\ \A o \in Ids : SF_vars(Pick(o))
FairSpec == Spec /\ Fairness

-----------------------------------------------------------------------------
(* Properties.                                                             *)

Bought == {o \in Ids : fate[o] \in {"sent", "accepted", "filled"}}   \* may have cost money

Submitting == {"check", "risk", "wallet", "swap", "submitted", "hold", "unknown", "holdUnknown"}

\* Types; the cycle is in submitLive exactly while there is an order to submit.
TypeOK ==
  /\ status \in {"running", "paused", "stopped"} /\ hold \in BOOLEAN
  /\ orders \in [Ids -> [ca : Tokens \cup {0}, tx : BOOLEAN,
                        status : {"none", "pending", "submitted", "unknown", "failed", "cancelled"}]]
  /\ fate \in [Ids -> {"unsent", "sent", "accepted", "refused", "filled", "reverted"}]
  /\ pc \in Submitting \cup {"down", "boot", "idle", "load", "reconcile", "query", "clear"}
  /\ todo \in Seq(Ids) /\ (todo # <<>> <=> pc \in Submitting) /\ tx \in BOOLEAN /\ chosen \in Ids
  /\ known \in BOOLEAN /\ link \in [Tokens -> {"off", "recovering", "ready"}] /\ stopping \in BOOLEAN
  /\ left \in [{"toggle", "cut", "crash", "error"} -> Nat]

\* An order that may have cost money stays visible as open: it is never stored as cancelled or
\* failed, whatever is lost between the exchange and the database.
OnRecord == \A o \in Bought : orders[o].status \in Uncertain \cup {"pending"}

\* No token is bought a second time while an earlier purchase of it may exist.
OnePerToken == \A o, p \in Bought : o # p => orders[o].ca # orders[p].ca

\* The run has at most one order that may have cost money ("do not infer a position or send
\* another order").  One failed statement breaks this, and so do a crash and two pauses that
\* hide the interrupted order from switchExecution: it holds as long as every statement
\* succeeds and the run is paused at most once.
OneAtATime == Cardinality(Bought) <= 1
Stored == left["error"] = MaxErrors /\ left["toggle"] >= MaxToggles - 1
OneAtATimeIfStored == Stored => OneAtATime

\* No token is bought twice, and with every statement stored nothing is bought on top of
\* an order whose fate is open (createDecision, switchExecution, submitLive).
BuysApart == OnePerToken /\ OneAtATimeIfStored

\* An order is never sent again, also when its answer was lost.
NeverResent == [][\A o \in Ids : (pc # "swap" /\ pc' = "swap" /\ Order = o) => fate[o] = "unsent"]_vars

\* While the run is on hold nothing is sent, neither a new intent nor one committed before.
Frozen == [][hold => \A o \in Ids : fate[o] = "unsent" => fate'[o] = "unsent"]_vars

\* What goes to the exchange was never sent before and goes while the run is free to send,
\* whatever happens during the requests and statements of submitLive.
SendsAllowed == NeverResent /\ Frozen

\* An intent is sent, cancelled, rejected or declared unknown, unless its run is not running.
IntentSettles == \A o \in Ids : orders[o].status = "pending" ~> (orders[o].status # "pending" \/ status # "running")

\* When the exchange reports all open orders as reverted, the run is released.  A crash or a
\* failed statement in between breaks this; it holds as long as there is none.
AllReverted == \A o \in WithState(Uncertain) : orders[o].tx /\ fate[o] = "reverted"
HoldLifted == (hold /\ AllReverted) ~> (~hold \/ status # "running")
Disturbed == left["crash"] < MaxCrashes \/ left["error"] < MaxErrors
HoldLiftedIfUndisturbed == (hold /\ AllReverted) ~> (~hold \/ status # "running" \/ Disturbed)

\* Nothing an order waits for stays open: its intent settles, and its run's hold is lifted
\* once the exchange has reverted all that was uncertain.
OrdersSettle == IntentSettles /\ HoldLiftedIfUndisturbed

=============================================================================
