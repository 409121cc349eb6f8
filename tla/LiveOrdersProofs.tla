---------------------------- MODULE LiveOrdersProofs ----------------------------
(***************************************************************************)
(* Theorems about LiveOrders for any tokens, any number of intents and of  *)
(* disturbances.  The argument: orders are numbered without gaps, so that  *)
(* a decision overwrites none (Numbered); submitLive works on distinct     *)
(* intents of which only the first may have been sent (Queue), so nothing  *)
(* that was sent is cancelled; a token with an open order gets no other    *)
(* (OneOpen); and an order that may have cost money keeps the run from     *)
(* sending until its hold is stored (Blocked).                             *)
(***************************************************************************)
EXTENDS LiveOrders, FiniteSetTheorems, SequenceTheorems, TLAPS

-----------------------------------------------------------------------------
(* The inductive invariant.                                                *)

Open == Uncertain \cup {"pending"}
Sent(o) == fate[o] # "unsent"

\* Orders are numbered from 1 without gaps; a number not given yet was never sent.
Numbered ==
  /\ \E n \in 0..MaxOrders : Used = 1..n
  /\ \A o \in Ids : orders[o].status = "none" => ~Sent(o)

\* The submissions of a cycle are distinct; those behind the first one are intents.
Queue ==
  /\ \A i, j \in 1..Len(todo) : i # j => todo[i] # todo[j]
  /\ \A i \in 2..Len(todo) : orders[todo[i]].status = "pending" /\ ~Sent(todo[i])

\* What became of the first one, by the place in submitLive; an order being looked up is open.
First ==
  /\ pc \in {"check", "risk", "wallet"} => orders[Order].status = "pending" /\ ~Sent(Order)
  /\ pc \in {"swap", "submitted"} => orders[Order].status = "pending" /\ Sent(Order)
  /\ pc = "hold" => orders[Order].status = "submitted" /\ Sent(Order)
  /\ pc = "unknown" => orders[Order].status \in {"pending", "submitted"} /\ Sent(Order)
  /\ pc = "holdUnknown" => orders[Order].status = "unknown" /\ Sent(Order)
  /\ pc = "query" => orders[chosen].status \in Uncertain

\* Between the check of the run and the request no hold is stored.
FreeToSend == pc \in {"risk", "wallet"} => ~hold

\* A token has at most one open order.
OneOpen == \A o, p \in WithState(Open) : o # p => orders[o].ca # orders[p].ca

\* A run that has orders and does not run was paused or stopped.
Toggled == Used # {} /\ status # "running" => left["toggle"] < MaxToggles

Counters == left["error"] <= MaxErrors /\ left["toggle"] <= MaxToggles

\* What keeps the run from sending while an order may have cost money: the stored hold; the
\* submission at work, which stores it; or, after a crash, that no context is ready before a
\* refresh of the running run has seen the order.
HoldStored == hold /\ \A o \in Bought : orders[o].status \in Uncertain
AtWork == /\ ~hold /\ pc \in {"swap", "submitted", "hold", "unknown", "holdUnknown"}
          /\ \A o \in Bought : o = Order
Unseen ==
  /\ ~hold /\ \A c \in Tokens : link[c] = "off"
  /\ pc \in {"down", "boot", "load", "reconcile", "query", "clear", "idle"}
  /\ pc \in {"down", "boot", "load"} => ~known
  /\ pc \notin {"down", "boot"} => left["toggle"] < MaxToggles /\ (known => status = "running")
Blocked ==
  Stored => /\ \A o, p \in Bought : o = p
            /\ Bought # {} => HoldStored \/ AtWork \/ Unseen

Base == TypeOK /\ Numbered /\ Queue /\ First
IInv == Base /\ FreeToSend /\ OnRecord /\ OneOpen /\ Toggled /\ Counters /\ Blocked

-----------------------------------------------------------------------------
(* Types.                                                                  *)

Kinds == {"toggle", "cut", "crash", "error"}

\* The head and the tail of the submissions; giving up the first leaves the rest.
LEMMA OrderType ==
  ASSUME TypeOK, pc \in Submitting
  PROVE  /\ Order \in Ids /\ Order = todo[1] /\ Len(todo) \in Nat \ {0}
         /\ Tail(todo) \in Seq(Ids) /\ Len(Tail(todo)) = Len(todo) - 1
         /\ \A i \in 1..Len(Tail(todo)) : Tail(todo)[i] = todo[i + 1]
BY HeadTailProperties, EmptySeq, LenProperties DEF TypeOK, Order

OrderRecord == [ca : Tokens \cup {0}, tx : BOOLEAN,
                status : {"none", "pending", "submitted", "unknown", "failed", "cancelled"}]

LEMMA OrderUpdate ==
  ASSUME NEW r \in OrderRecord, NEW b \in BOOLEAN,
         NEW s \in {"none", "pending", "submitted", "unknown", "failed", "cancelled"}
  PROVE  /\ [r EXCEPT !.status = s] \in OrderRecord
         /\ [r EXCEPT !.status = s, !.tx = b] \in OrderRecord
<1>1. [r EXCEPT !.status = s] \in OrderRecord
  BY DEF OrderRecord
<1>2. [r EXCEPT !.status = s, !.tx = b] \in OrderRecord
  BY DEF OrderRecord
<1>3. QED
  BY <1>1, <1>2

LEMMA DoneType ==
  ASSUME TypeOK, pc \in Submitting, Done
  PROVE  /\ todo' \in Seq(Ids) /\ (todo' # <<>> <=> pc' \in Submitting)
         /\ pc' \in {"idle", "check"}
<1>1. /\ todo' = Tail(todo) /\ todo' \in Seq(Ids) /\ Len(todo') = Len(todo) - 1 /\ Len(todo) \in Nat \ {0}
  BY OrderType DEF Done
<1>2. todo' = <<>> <=> Len(todo') = 0
  BY <1>1, EmptySeq, LenProperties
<1>3. QED
  BY <1>1, <1>2 DEF Done, Goto, Submitting

LEMMA SetOrderType ==
  ASSUME TypeOK, NEW o \in Ids,
         NEW s \in {"none", "pending", "submitted", "unknown", "failed", "cancelled"},
         SetOrder(o, s)
  PROVE  /\ orders' \in [Ids -> OrderRecord]
         /\ orders'[o].status = s /\ orders'[o].ca = orders[o].ca /\ orders'[o].tx = orders[o].tx
         /\ \A p \in Ids : p # o => orders'[p] = orders[p]
<1> USE DEF OrderRecord
<1>1. orders' = [orders EXCEPT ![o] = [orders[o] EXCEPT !.status = s]]
  BY DEF SetOrder
<1>2. orders[o] \in OrderRecord /\ orders \in [Ids -> OrderRecord]
  BY DEF TypeOK
<1>3. QED
  BY <1>1, <1>2

LEMMA SpendType ==
  ASSUME TypeOK, NEW k \in Kinds, Spend(k)
  PROVE  /\ left' \in [Kinds -> Nat] /\ left'[k] = left[k] - 1 /\ left[k] > 0
         /\ \A j \in Kinds : j # k => left'[j] = left[j]
BY DEF Spend, TypeOK, Kinds

LEMMA TypeInit == Init => TypeOK
<1> SUFFICES ASSUME Init PROVE TypeOK
  OBVIOUS
<1> USE DEF OrderRecord
<1>1. left \in [Kinds -> Nat]
  <2>1. left = [k \in Kinds |-> IF k = "toggle" THEN MaxToggles ELSE IF k = "cut" THEN MaxCuts
                               ELSE IF k = "crash" THEN MaxCrashes ELSE MaxErrors]
    BY DEF Init, Kinds
  <2>2. QED
    BY <2>1, BoundsNat
<1>2. orders \in [Ids -> OrderRecord]
  BY DEF Init, NoOrder
<1>3. todo \in Seq(Ids) /\ (todo # <<>> <=> pc \in Submitting) /\ chosen \in Ids
  BY BoundsNat DEF Init, Submitting, Ids
<1>4. QED
  BY <1>1, <1>2, <1>3 DEF Init, TypeOK, Kinds

\* The steps of submitLive that go on with the next order.
Drop(s) == SetOrder(Order, s) /\ Done
Skip(s) == Drop(s) /\ UNCHANGED <<row, fate, tx, chosen, memory>>
SubmitSkip ==
  /\ pc \in {"check", "risk", "wallet"} /\ (UNCHANGED left \/ Spend("error"))
  /\ \E s \in {"cancelled", "failed"} : Skip(s)

\* Those that stay with the first order without storing anything.
SubmitGo ==
  /\ UNCHANGED <<row, orders, todo, chosen, memory>>
  /\ \/ /\ pc = "check" /\ MaySubmit(Order) /\ pc' = "risk" /\ UNCHANGED <<fate, tx, left>>
     \/ /\ pc = "risk" /\ pc' = "wallet" /\ UNCHANGED <<fate, tx, left>>
     \/ /\ pc = "swap" /\ Sent(Order) /\ pc' = "submitted" /\ tx' = TRUE /\ UNCHANGED <<fate, left>>
     \/ /\ pc = "swap" /\ pc' = "unknown" /\ UNCHANGED <<fate, tx, left>>
     \/ /\ pc \in {"submitted", "hold"} /\ pc' = "unknown" /\ Spend("error") /\ UNCHANGED <<fate, tx>>

Send ==
  /\ pc = "wallet" /\ Ready(Order) /\ pc' = "swap" /\ tx' = FALSE
  /\ fate' = [fate EXCEPT ![Order] = "sent"]
  /\ UNCHANGED <<row, orders, todo, chosen, memory, left>>

GiveUp ==
  /\ pc \in {"check", "risk", "wallet", "unknown", "holdUnknown"} /\ Spend("error")
  /\ todo' = <<>> /\ pc' = "idle" /\ UNCHANGED <<row, orders, fate, tx, chosen, memory>>

LEMMA SubmitSteps ==
  ASSUME Submit
  PROVE  SubmitSkip \/ SubmitGo \/ Send \/ GiveUp \/ StoreSubmitted \/ StoreUnknown \/ StoreHold
<1> DEFINE Goal == SubmitSkip \/ SubmitGo \/ Send \/ GiveUp \/ StoreSubmitted \/ StoreUnknown \/ StoreHold
<1> USE DEF Goto, row
<1>1. CASE SubmitCheck
  BY <1>1 DEF SubmitCheck, SubmitSkip, SubmitGo, Skip, Drop
<1>2. CASE RiskCheck
  BY <1>2 DEF RiskCheck, SubmitSkip, SubmitGo, Skip, Drop
<1>3. CASE WalletBad
  BY <1>3 DEF WalletBad, SubmitSkip, Skip, Drop
<1>4. CASE WalletGood
  BY <1>4 DEF WalletGood, SubmitSkip, Skip, Drop, Send
<1>5. CASE SwapAccepted
  BY <1>5 DEF SwapAccepted, SubmitGo, Sent
<1>6. CASE SwapLost
  BY <1>6 DEF SwapLost, AfterNoAnswer, SubmitGo
<1>7. CASE SubmitError
  BY <1>7 DEF SubmitError, SubmitSkip, SubmitGo, GiveUp, Skip, Drop
<1>8. QED
  BY <1>1, <1>2, <1>3, <1>4, <1>5, <1>6, <1>7 DEF Submit

LEMMA TypeStep == TypeOK /\ [Next]_vars => TypeOK'
<1> SUFFICES ASSUME TypeOK, [Next]_vars PROVE TypeOK'
  OBVIOUS
<1> USE DEF OrderRecord
<1>s. "error" \in Kinds /\ "toggle" \in Kinds /\ "cut" \in Kinds /\ "crash" \in Kinds
  BY DEF Kinds
<1>t. left \in [Kinds -> Nat]
  BY DEF TypeOK, Kinds
<1>1. ASSUME NEW S \in SUBSET Tokens, Decide(S) PROVE TypeOK'
  <2>1. PICK wish \in Sorted(S) :
          orders' = [o \in Ids |-> IF o \in Cardinality(Used) + 1 .. Cardinality(Used) + Cardinality(S)
                       THEN [ca |-> wish[o - Cardinality(Used)], status |-> "pending", tx |-> FALSE]
                       ELSE orders[o]]
    BY <1>1 DEF Decide
  <2>2. Cardinality(Used) \in Nat /\ Cardinality(S) \in Nat \ {0}
    <3>1. IsFiniteSet(Used) /\ IsFiniteSet(S)
      <4>1. IsFiniteSet(Ids)
        <5>1. MaxOrders \in Int /\ 1 \in Int
          BY BoundsNat
        <5>2. IsFiniteSet(1..MaxOrders)
          BY <5>1, FS_Interval
        <5>3. QED
          BY <5>2 DEF Ids
      <4>2. Used \subseteq Ids
        BY DEF Used
      <4>3. QED
        BY <4>1, <4>2, TokensNat, FS_Subset
    <3>2. S # {}
      BY <1>1 DEF Decide
    <3>3. QED
      BY <3>1, <3>2, FS_CardinalityType, FS_EmptySet
  <2>3. orders' \in [Ids -> OrderRecord]
    <3>1. wish \in [1..Cardinality(S) -> S]
      BY DEF Sorted
    <3>2. ASSUME NEW o \in Ids, o \in Cardinality(Used) + 1 .. Cardinality(Used) + Cardinality(S)
          PROVE  wish[o - Cardinality(Used)] \in Tokens
      BY <2>2, <3>1, <3>2 DEF Ids
    <3>3. QED
      BY <2>1, <3>2 DEF TypeOK
  <2>4. /\ todo' \in Seq(Ids) /\ (todo' # <<>> <=> pc' \in Submitting)
        /\ pc' \in {"idle", "check"}
    <3>1. CASE todo' = <<>> /\ UNCHANGED pc
      BY <1>1, <3>1 DEF Decide, Submitting
    <3>2. CASE todo' = [i \in 1..Cardinality(S) |-> Cardinality(Used) + i] /\ Goto("check")
      <4>1. Cardinality(Used) + Cardinality(S) <= MaxOrders
        BY <1>1 DEF Decide
      <4>2. \A i \in 1..Cardinality(S) : Cardinality(Used) + i \in Ids
        BY <2>2, <4>1, BoundsNat DEF Ids
      <4>3. todo' \in Seq(Ids) /\ Len(todo') = Cardinality(S)
        BY <2>2, <3>2, <4>2, IsASeq
      <4>4. todo' # <<>>
        BY <2>2, <4>3
      <4>5. QED
        BY <3>2, <4>3, <4>4 DEF Goto, Submitting
    <3>3. QED
      BY <1>1, <3>1, <3>2 DEF Decide
  <2>5. left' \in [Kinds -> Nat]
    BY <1>1, <1>s, <1>t, SpendType DEF Decide
  <2>6. QED
    <3>1. UNCHANGED <<status, hold, fate, tx, chosen, known, link, stopping>>
      BY <1>1 DEF Decide, row, memory
    <3>2. QED
      BY <2>3, <2>4, <2>5, <3>1 DEF TypeOK, Kinds, Submitting
<1>2. CASE Submit
  <2>1. pc \in Submitting
    BY <1>2 DEF Submit, SubmitCheck, RiskCheck, WalletBad, WalletGood, SwapAccepted, SwapLost,
       StoreSubmitted, StoreUnknown, StoreHold, SubmitError, Submitting
  <2>2. CASE SubmitSkip
    <3>0. UNCHANGED <<status, hold, fate, tx, chosen, known, link, stopping>>
      BY <2>2 DEF SubmitSkip, Skip, row, memory
    <3>1. orders' \in [Ids -> OrderRecord]
      BY <2>1, <2>2, OrderType, SetOrderType DEF SubmitSkip, Skip, Drop
    <3>2. left' \in [Kinds -> Nat]
      BY <2>2, <1>s, <1>t, SpendType DEF SubmitSkip
    <3>3. /\ todo' \in Seq(Ids) /\ (todo' # <<>> <=> pc' \in Submitting)
          /\ pc' \in {"idle", "check"}
      BY <2>1, <2>2, DoneType DEF SubmitSkip, Skip, Drop
    <3>4. QED
      BY <3>0, <3>1, <3>2, <3>3 DEF TypeOK, Kinds, Submitting
  <2>3. CASE SubmitGo
    <3>1. left' \in [Kinds -> Nat]
      BY <2>3, <1>s, <1>t, SpendType DEF SubmitGo
    <3>2. pc' \in Submitting /\ tx' \in BOOLEAN /\ UNCHANGED fate
      BY <2>3 DEF SubmitGo, Submitting, TypeOK
    <3>3. QED
      BY <2>1, <2>3, <3>1, <3>2 DEF SubmitGo, TypeOK, row, memory, Kinds
  <2>4. CASE Send
    <3>1. fate' \in [Ids -> {"unsent", "sent", "accepted", "refused", "filled", "reverted"}]
      BY <2>4 DEF Send, TypeOK
    <3>2. QED
      BY <2>1, <2>4, <3>1 DEF Send, TypeOK, row, memory, Submitting
  <2>5. CASE GiveUp
    BY <2>5, <1>s, SpendType DEF GiveUp, TypeOK, row, memory, Submitting, Kinds
  <2>6. CASE StoreSubmitted \/ StoreUnknown
    <3>1. orders' \in [Ids -> OrderRecord]
      <4>1. Order \in Ids /\ tx \in BOOLEAN /\ orders[Order].tx \in BOOLEAN
        BY <2>1, OrderType DEF TypeOK
      <4>2. CASE StoreSubmitted
        <5>1. orders' = [orders EXCEPT ![Order] = [orders[Order] EXCEPT !.status = "submitted", !.tx = TRUE]]
          BY <4>1, <4>2 DEF StoreSubmitted, TypeOK
        <5>2. orders \in [Ids -> OrderRecord]
          BY DEF TypeOK
        <5> HIDE DEF OrderRecord
        <5>3. QED
          BY <4>1, <5>1, <5>2, OrderUpdate
      <4>3. CASE StoreUnknown
        <5>1. (orders[Order].tx \/ tx) \in BOOLEAN
          OBVIOUS
        <5>2. orders' = [orders EXCEPT ![Order] = [orders[Order] EXCEPT !.status = "unknown",
                                                                        !.tx = orders[Order].tx \/ tx]]
          BY <4>1, <4>3 DEF StoreUnknown, TypeOK
        <5>3. orders \in [Ids -> OrderRecord]
          BY DEF TypeOK
        <5> HIDE DEF OrderRecord
        <5>4. QED
          BY <4>1, <5>1, <5>2, <5>3, OrderUpdate
      <4>4. QED
        BY <2>6, <4>2, <4>3
    <3>2. pc' \in Submitting
      BY <2>6 DEF StoreSubmitted, StoreUnknown, Goto, Submitting
    <3>3. QED
      BY <2>1, <2>6, <3>1, <3>2 DEF StoreSubmitted, StoreUnknown, TypeOK, row, memory
  <2>7. CASE StoreHold
    <3>0. hold' \in BOOLEAN /\ UNCHANGED <<status, orders, fate, tx, chosen, known, link, stopping, left>>
      BY <2>7 DEF StoreHold, memory
    <3>1. /\ todo' \in Seq(Ids) /\ (todo' # <<>> <=> pc' \in Submitting)
          /\ pc' \in {"idle", "check"}
      BY <2>1, <2>7, DoneType DEF StoreHold
    <3>2. QED
      BY <3>0, <3>1 DEF TypeOK, Submitting
  <2>8. QED
    BY <1>2, <2>2, <2>3, <2>4, <2>5, <2>6, <2>7, SubmitSteps
<1>3. CASE Refresh
  <2>1. orders' \in [Ids -> OrderRecord] /\ hold' \in BOOLEAN
    <3>1. CASE status = "running"
      <4>1. \A o \in Ids : orders'[o] = orders[o] \/ orders'[o] = [orders[o] EXCEPT !.status = "unknown"]
        BY <1>3, <3>1 DEF Refresh
      <4>2. orders' = [o \in Ids |-> orders'[o]]
        BY <1>3, <3>1 DEF Refresh
      <4>3. hold' \in BOOLEAN
        BY <1>3, <3>1 DEF Refresh
      <4>4. orders \in [Ids -> OrderRecord]
        BY DEF TypeOK
      <4> HIDE DEF OrderRecord
      <4>5. \A o \in Ids : orders'[o] \in OrderRecord
        BY <4>1, <4>4, OrderUpdate
      <4>6. QED
        BY <4>2, <4>3, <4>5
    <3>2. QED
      BY <1>3, <3>1 DEF Refresh, TypeOK
  <2>2. QED
    BY <1>3, <2>1 DEF Refresh, TypeOK, Goto, row, memory, Submitting
<1>4. CASE LoadRuns
  <2>1. known' \in BOOLEAN /\ link' \in [Tokens -> {"off", "recovering", "ready"}]
    BY <1>4 DEF LoadRuns, TypeOK
  <2>2. QED
    BY <1>4, <2>1 DEF LoadRuns, TypeOK, Goto, row, memory, Submitting
<1>5. CASE Reconcile
  <2>1. ASSUME NEW o \in Ids, Pick(o) PROVE TypeOK'
    BY <2>1 DEF Pick, TypeOK, Goto, row, memory, Submitting
  <2>2. CASE PickNone \/ QueryOpen
    BY <2>2 DEF PickNone, QueryOpen, TypeOK, Goto, row, memory, Submitting
  <2>3. CASE QueryFinal
    <3>1. orders' \in [Ids -> OrderRecord]
      BY <2>3, SetOrderType DEF QueryFinal, TypeOK
    <3>2. QED
      BY <2>3, <3>1 DEF QueryFinal, TypeOK, Goto, row, memory, Submitting
  <2>4. CASE ClearHold
    BY <2>4 DEF ClearHold, TypeOK, Goto, row, memory, Submitting
  <2>5. QED
    BY <1>5, <2>1, <2>2, <2>3, <2>4 DEF Reconcile
<1>6. CASE RefreshError
  BY <1>6, <1>s, SpendType DEF RefreshError, TypeOK, Goto, row, memory, Submitting, Kinds
<1>7. ASSUME NEW c \in Tokens, Interrupt(c) \/ FinishRecovery(c) PROVE TypeOK'
  <2>1. link' \in [Tokens -> {"off", "recovering", "ready"}]
    BY <1>7 DEF Interrupt, FinishRecovery, TypeOK
  <2>2. left' \in [Kinds -> Nat]
    BY <1>7, <1>s, <1>t, SpendType DEF Interrupt, FinishRecovery
  <2>3. QED
    BY <1>7, <2>1, <2>2 DEF Interrupt, FinishRecovery, TypeOK, row, job, memory, Kinds
<1>8. CASE Start \/ Pause \/ Stop
  <2>1. left' \in [Kinds -> Nat]
    BY <1>8, <1>s, <1>t, SpendType DEF Start, Pause, Stop
  <2>2. QED
    BY <1>8, <2>1 DEF Start, Pause, Stop, TypeOK, job, memory, Kinds
<1>9. ASSUME NEW o \in Ids, Exchange(o) PROVE TypeOK'
  <2>1. fate' \in [Ids -> {"unsent", "sent", "accepted", "refused", "filled", "reverted"}]
    <3>1. PICK f \in {"accepted", "refused", "filled", "reverted"} : fate' = [fate EXCEPT ![o] = f]
      BY <1>9 DEF Exchange
    <3>2. QED
      BY <3>1 DEF TypeOK
  <2>2. QED
    BY <1>9, <2>1 DEF Exchange, TypeOK, row, job, memory
<1>10. CASE Shutdown
  BY <1>10, <1>s, SpendType DEF Shutdown, TypeOK, row, job, Kinds
<1>11. CASE Exit \/ Crash
  <2>1. left' \in [Kinds -> Nat]
    BY <1>11, <1>s, <1>t, SpendType DEF Exit, Crash
  <2>2. Die
    BY <1>11 DEF Exit, Crash
  <2>3. /\ todo' \in Seq(Ids) /\ todo' = <<>> /\ pc' = "down" /\ tx' = FALSE /\ stopping' = FALSE
        /\ known' = FALSE /\ link' = [c \in Tokens |-> "off"]
        /\ UNCHANGED <<status, hold, orders, fate, chosen>>
    BY <2>2, EmptySeq DEF Die, Goto, row
  <2>4. link' \in [Tokens -> {"off", "recovering", "ready"}]
    BY <2>3
  <2>5. QED
    BY <2>1, <2>3, <2>4 DEF TypeOK, Submitting, Kinds
<1>12. CASE Restart
  BY <1>12 DEF Restart, TypeOK, Goto, row, memory, Submitting
<1>13. CASE UNCHANGED vars
  BY <1>13 DEF vars, TypeOK, row, job, memory
<1>14. QED
  BY <1>1, <1>2, <1>3, <1>4, <1>5, <1>6, <1>7, <1>8, <1>9, <1>10, <1>11, <1>12, <1>13 DEF Next

-----------------------------------------------------------------------------
(* Which steps touch orders and what the exchange made of them.            *)

OrderStep ==
  \/ \E S \in SUBSET Tokens : Decide(S)
  \/ SubmitSkip \/ Send \/ StoreSubmitted \/ StoreUnknown \/ Refresh \/ QueryFinal
  \/ \E o \in Ids : Exchange(o)

LEMMA OrderFrame ==
  ASSUME [Next]_vars
  PROVE  OrderStep \/ UNCHANGED <<orders, fate>>
<1>1. CASE Submit
  BY <1>1, SubmitSteps DEF SubmitGo, GiveUp, StoreHold, OrderStep
<1>2. CASE Reconcile
  BY <1>2 DEF Reconcile, Pick, PickNone, QueryOpen, ClearHold, OrderStep
<1>3. CASE LoadRuns \/ RefreshError \/ Start \/ Pause \/ Stop \/ Shutdown \/ Exit \/ Crash \/ Restart
  BY <1>3 DEF LoadRuns, RefreshError, Start, Pause, Stop, Shutdown, Exit, Crash, Die, Restart
<1>4. ASSUME NEW c \in Tokens, Interrupt(c) \/ FinishRecovery(c) PROVE UNCHANGED <<orders, fate>>
  BY <1>4 DEF Interrupt, FinishRecovery
<1>5. CASE UNCHANGED vars
  BY <1>5 DEF vars
<1>6. QED
  BY <1>1, <1>2, <1>3, <1>4, <1>5 DEF Next, OrderStep

\* A decision numbers its intents after all others, one for each of its tokens.
Makes(S, made, new) ==
  /\ Used = 1..made /\ made + new <= MaxOrders
  /\ \A o \in Ids \ (made + 1 .. made + new) : orders'[o] = orders[o]
  /\ \A o \in made + 1 .. made + new :
       /\ o \in Ids /\ orders[o].status = "none"
       /\ orders'[o].status = "pending" /\ orders'[o].ca \in S
  /\ \A o, p \in made + 1 .. made + new : o # p => orders'[o].ca # orders'[p].ca
  /\ \/ todo' = [i \in 1..new |-> made + i] /\ pc' = "check" /\ UNCHANGED left
     \/ todo' = <<>> /\ pc' = pc /\ Spend("error")

LEMMA DecideMakes ==
  ASSUME TypeOK, Numbered, NEW S \in SUBSET Tokens, Decide(S)
  PROVE  \E made \in Nat, new \in Nat \ {0} : Makes(S, made, new)
<1> DEFINE made == Cardinality(Used)
           new  == Cardinality(S)
<1>1. PICK n \in 0..MaxOrders : Used = 1..n
  BY DEF Numbered
<1>2. made = n /\ made \in Nat
  <2>1. n \in Nat /\ 1 \in Int
    BY BoundsNat
  <2>2. Cardinality(1..n) = n
    BY <2>1, FS_Interval
  <2>3. QED
    BY <1>1, <2>1, <2>2
<1>3. new \in Nat \ {0}
  BY TokensNat, FS_Subset, FS_CardinalityType, FS_EmptySet DEF Decide
<1>4. made + new <= MaxOrders
  BY DEF Decide
<1>5. PICK wish \in Sorted(S) :
        orders' = [o \in Ids |-> IF o \in made + 1 .. made + new
                     THEN [ca |-> wish[o - made], status |-> "pending", tx |-> FALSE]
                     ELSE orders[o]]
  BY DEF Decide
<1>6. wish \in [1..new -> S] /\ \A i, j \in 1..new : i < j => wish[i] < wish[j]
  BY DEF Sorted
<1>7. \/ todo' = [i \in 1..new |-> made + i] /\ pc' = "check" /\ UNCHANGED left
      \/ todo' = <<>> /\ pc' = pc /\ Spend("error")
  BY DEF Decide, Goto
<1> HIDE DEF made, new
<1>8. ASSUME NEW o \in made + 1 .. made + new
      PROVE  /\ o \in Ids /\ orders[o].status = "none" /\ o - made \in 1..new
             /\ orders'[o].status = "pending" /\ orders'[o].ca = wish[o - made]
  <2>1. o \in Ids /\ o - made \in 1..new
    BY <1>2, <1>3, <1>4, BoundsNat DEF Ids
  <2>2. o \notin Used
    BY <1>1, <1>2, <1>3
  <2>3. QED
    BY <1>5, <2>1, <2>2 DEF Used
<1>9. ASSUME NEW o \in made + 1 .. made + new, NEW p \in made + 1 .. made + new, o # p
      PROVE  orders'[o].ca # orders'[p].ca
  <2>1. o - made < p - made \/ p - made < o - made
    BY <1>2, <1>3, <1>9
  <2>2. wish[o - made] < wish[p - made] \/ wish[p - made] < wish[o - made]
    BY <1>6, <1>8, <2>1
  <2>3. wish[o - made] \in Nat /\ wish[p - made] \in Nat
    BY <1>6, <1>8, TokensNat
  <2>4. QED
    BY <1>8, <2>2, <2>3
<1>10. \A o \in Ids \ (made + 1 .. made + new) : orders'[o] = orders[o]
  BY <1>5
<1>11. \A o \in made + 1 .. made + new : orders'[o].ca \in S
  BY <1>6, <1>8
<1>12. QED
  BY <1>1, <1>2, <1>3, <1>4, <1>7, <1>8, <1>9, <1>10, <1>11 DEF Makes

\* Apart from a decision no order appears, changes its token, or is opened again.
LEMMA OrdersStay ==
  ASSUME Base, [Next]_vars, \A S \in SUBSET Tokens : ~Decide(S), NEW o \in Ids
  PROVE  /\ orders'[o].ca = orders[o].ca
         /\ orders'[o].status = "none" <=> orders[o].status = "none"
         /\ orders'[o].status \in Open => orders[o].status \in Open
<1> USE DEF Base
<1>1. CASE SubmitSkip
  <2>1. PICK s \in {"cancelled", "failed"} : SetOrder(Order, s)
    BY <1>1 DEF SubmitSkip, Skip, Drop
  <2>2. Order \in Ids /\ orders[Order].status = "pending"
    BY <1>1, OrderType DEF SubmitSkip, Submitting, First
  <2>3. QED
    BY <2>1, <2>2, SetOrderType DEF Open, Uncertain
<1>2. CASE StoreSubmitted \/ StoreUnknown
  <2>1. Order \in Ids /\ orders[Order].status \in {"pending", "submitted"}
    BY <1>2, OrderType DEF StoreSubmitted, StoreUnknown, Submitting, First
  <2>2. /\ orders'[Order].ca = orders[Order].ca /\ orders'[Order].status \in Uncertain
        /\ o # Order => orders'[o] = orders[o]
    BY <1>2, <2>1 DEF StoreSubmitted, StoreUnknown, TypeOK, OrderRecord, Uncertain
  <2>3. QED
    BY <2>1, <2>2 DEF Open, Uncertain
<1>3. CASE Refresh
  <2>1. \/ orders'[o] = orders[o]
        \/ orders[o].status = "pending" /\ orders'[o] = [orders[o] EXCEPT !.status = "unknown"]
    BY <1>3 DEF Refresh, Doubtful, WithState
  <2>2. QED
    BY <2>1 DEF TypeOK, OrderRecord, Open, Uncertain
<1>4. CASE QueryFinal
  <2>1. SetOrder(chosen, "failed") /\ orders[chosen].status \in Uncertain /\ chosen \in Ids
    BY <1>4 DEF QueryFinal, First, TypeOK
  <2>2. QED
    BY <2>1, SetOrderType DEF Open, Uncertain
<1>5. CASE Send \/ \E p \in Ids : Exchange(p)
  BY <1>5 DEF Send, Exchange
<1>6. QED
  BY <1>1, <1>2, <1>3, <1>4, <1>5, OrderFrame DEF OrderStep

\* What was sent stays sent, and only submitLive sends, the first of its intents.
LEMMA FatesStay ==
  ASSUME TypeOK, [Next]_vars, ~Send, NEW o \in Ids
  PROVE  (Sent(o)' <=> Sent(o)) /\ (o \in Bought' => o \in Bought)
<1>1. ASSUME NEW p \in Ids, Exchange(p) PROVE (Sent(o)' <=> Sent(o)) /\ (o \in Bought' => o \in Bought)
  <2>1. \/ fate[p] = "sent" /\ \E f \in {"accepted", "refused"} : fate' = [fate EXCEPT ![p] = f]
        \/ fate[p] = "accepted" /\ \E f \in {"filled", "reverted"} : fate' = [fate EXCEPT ![p] = f]
    BY <1>1 DEF Exchange
  <2>2. QED
    BY <2>1 DEF TypeOK, Sent, Bought
<1>2. CASE UNCHANGED fate
  BY <1>2 DEF Sent, Bought
<1>3. UNCHANGED fate \/ \E p \in Ids : Exchange(p)
  BY OrderFrame DEF OrderStep, Decide, SubmitSkip, Skip, StoreSubmitted, StoreUnknown, Refresh,
     QueryFinal
<1>4. QED
  BY <1>1, <1>2, <1>3

LEMMA SendEffect ==
  ASSUME TypeOK, Send
  PROVE  /\ Order \in Ids /\ fate'[Order] = "sent"
         /\ \A o \in Ids : o # Order => fate'[o] = fate[o]
BY OrderType DEF Send, Submitting, TypeOK

-----------------------------------------------------------------------------
(* Every part of the invariant is kept.                                    *)

LEMMA NumberedStep == Base /\ [Next]_vars => Numbered'
<1> SUFFICES ASSUME Base, [Next]_vars PROVE Numbered'
  OBVIOUS
<1> USE DEF Base
<1>1. ASSUME NEW S \in SUBSET Tokens, Decide(S) PROVE Numbered'
  <2>0. PICK made \in Nat, new \in Nat \ {0} : Makes(S, made, new)
    BY <1>1, DecideMakes
  <2>1. /\ Used = 1..made /\ made + new <= MaxOrders
        /\ \A o \in Ids \ (made + 1 .. made + new) : orders'[o] = orders[o]
        /\ \A o \in made + 1 .. made + new :
             o \in Ids /\ orders[o].status = "none" /\ orders'[o].status = "pending"
    BY <2>0 DEF Makes
  <2>2. UNCHANGED fate
    BY <1>1 DEF Decide
  <2>3. \A o \in Ids : orders'[o].status # "none" <=> o \in 1..(made + new)
    <3>1. \A o \in Ids : orders[o].status # "none" <=> o \in 1..made
      BY <2>1 DEF Used
    <3>2. QED
      BY <2>1, <3>1 DEF Ids
  <2>4. Used' = 1..(made + new)
    BY <2>1, <2>3, BoundsNat DEF Used, Ids
  <2>5. made + new \in 0..MaxOrders
    BY <2>1, BoundsNat
  <2>6. \A o \in Ids : orders'[o].status = "none" => ~Sent(o)'
    BY <2>1, <2>2 DEF Numbered, Sent
  <2>7. QED
    BY <2>4, <2>5, <2>6 DEF Numbered
<1>2. CASE \A S \in SUBSET Tokens : ~Decide(S)
  <2>1. \A o \in Ids : orders'[o].status = "none" <=> orders[o].status = "none"
    BY <1>2, OrdersStay
  <2>2. Used' = Used
    BY <2>1 DEF Used
  <2>3. \A o \in Ids : orders[o].status = "none" => ~Sent(o)'
    <3>1. CASE Send
      BY <3>1, SendEffect DEF First, Send, Numbered, Sent
    <3>2. CASE ~Send
      BY <3>2, FatesStay DEF Numbered
    <3>3. QED
      BY <3>1, <3>2
  <2>4. QED
    BY <2>1, <2>2, <2>3 DEF Numbered
<1>3. QED
  BY <1>1, <1>2

LEMMA HeadIsFirst ==
  ASSUME NEW s \in Seq(Ids), s # <<>>
  PROVE  Head(s) = s[1] /\ Len(s) \in Nat \ {0}
BY HeadTailProperties, EmptySeq, LenProperties

\* When the first submission is done, the rest is as it was.
LEMMA QueueDone ==
  ASSUME Base, pc \in Submitting, Done,
         \A o \in Ids : o # Order => orders'[o] = orders[o] /\ fate'[o] = fate[o]
  PROVE  /\ Queue'
         /\ pc' \in {"idle", "check"}
         /\ pc' = "check" => orders'[Order'].status = "pending" /\ ~Sent(Order)'
<1> USE DEF Base
<1>1. /\ Order = todo[1] /\ Len(todo) \in Nat \ {0} /\ todo' \in Seq(Ids)
      /\ Len(todo') = Len(todo) - 1 /\ \A i \in 1..Len(todo') : todo'[i] = todo[i + 1]
  BY OrderType DEF Done
<1>2. pc' \in {"idle", "check"} /\ (todo' # <<>> <=> pc' \in Submitting)
  BY DoneType
<1>3. ASSUME NEW i \in 1..Len(todo')
      PROVE  /\ todo'[i] \in Ids /\ todo'[i] # Order
             /\ orders'[todo'[i]].status = "pending" /\ fate'[todo'[i]] = "unsent"
  <2>1. i + 1 \in 2..Len(todo) /\ 1 \in 1..Len(todo) /\ i + 1 \in 1..Len(todo)
    BY <1>1
  <2>2. todo[i + 1] # Order /\ todo[i + 1] \in Ids
    BY <1>1, <2>1, ElementOfSeq DEF Queue, TypeOK
  <2>3. orders[todo[i + 1]].status = "pending" /\ fate[todo[i + 1]] = "unsent"
    BY <2>1 DEF Queue, Sent
  <2>4. QED
    BY <1>1, <2>2, <2>3
<1>4. \A i, j \in 1..Len(todo') : i # j => todo'[i] # todo'[j]
  BY <1>1 DEF Queue
<1>5. Queue'
  BY <1>1, <1>3, <1>4 DEF Queue, Sent
<1>6. ASSUME pc' = "check" PROVE orders'[Order'].status = "pending" /\ ~Sent(Order)'
  <2>1. Order' = todo'[1] /\ 1 \in 1..Len(todo')
    BY <1>1, <1>2, <1>6, HeadIsFirst DEF Order, Submitting
  <2>2. QED
    BY <1>3, <2>1 DEF Sent
<1>7. QED
  BY <1>2, <1>5, <1>6

\* A step that leaves the submissions alone changes at most the first of them.
LEMMA QueueKept ==
  ASSUME Base, UNCHANGED todo,
         \A o \in Ids : \/ orders'[o] = orders[o] /\ (Sent(o)' <=> Sent(o))
                        \/ todo # <<>> /\ o = Order
  PROVE  Queue'
<1> USE DEF Base
<1>1. ASSUME NEW i \in 2..Len(todo) PROVE todo[i] \in Ids /\ todo[i] # Order
  <2>1. Len(todo) \in Nat /\ todo # <<>>
    BY <1>1, LenProperties, EmptySeq DEF TypeOK
  <2>2. i \in 1..Len(todo) /\ 1 \in 1..Len(todo)
    BY <1>1, <2>1
  <2>3. Order = todo[1]
    BY <2>1, HeadIsFirst DEF Order, TypeOK
  <2>4. QED
    BY <1>1, <2>2, <2>3, ElementOfSeq DEF Queue, TypeOK
<1>2. QED
  BY <1>1 DEF Queue, Sent

LEMMA EmptyQueue ==
  ASSUME todo' = <<>>
  PROVE  Queue'
BY EmptySeq DEF Queue

LEMMA QueueStep == Base /\ [Next]_vars => Queue' /\ First'
<1> SUFFICES ASSUME Base, [Next]_vars PROVE Queue' /\ First'
  OBVIOUS
<1> USE DEF Base
<1>0. TypeOK'
  BY TypeStep
<1>1. ASSUME NEW S \in SUBSET Tokens, Decide(S) PROVE Queue' /\ First'
  <2>0. PICK made \in Nat, new \in Nat \ {0} : Makes(S, made, new)
    BY <1>1, DecideMakes
  <2>1. /\ \A o \in made + 1 .. made + new :
             o \in Ids /\ orders[o].status = "none" /\ orders'[o].status = "pending"
        /\ \/ todo' = [i \in 1..new |-> made + i] /\ pc' = "check"
           \/ todo' = <<>> /\ pc' = pc
    BY <2>0 DEF Makes
  <2>2. CASE todo' = <<>> /\ pc' = pc
    <3>1. pc = "idle"
      BY <1>1 DEF Decide
    <3>2. QED
      BY <2>2, <3>1, EmptyQueue DEF First
  <2>3. CASE todo' = [i \in 1..new |-> made + i] /\ pc' = "check"
    <3>1. todo' \in Seq(Ids) /\ Len(todo') = new /\ \A i \in 1..new : todo'[i] = made + i
      BY <1>0, <2>3, LenProperties DEF TypeOK
    <3>2. \A i \in 1..new : todo'[i] \in made + 1 .. made + new
      BY <3>1
    <3>3. \A i \in 1..new : orders'[todo'[i]].status = "pending" /\ fate'[todo'[i]] = "unsent"
      <4>1. UNCHANGED fate
        BY <1>1 DEF Decide
      <4>2. QED
        BY <2>1, <3>2, <4>1 DEF Numbered, Sent
    <3>4. \A i, j \in 1..new : i # j => todo'[i] # todo'[j]
      BY <3>1
    <3>5. Queue'
      BY <3>1, <3>3, <3>4 DEF Queue, Sent
    <3>6. Order' = todo'[1] /\ 1 \in 1..new
      <4>1. todo' # <<>>
        BY <1>0, <2>3 DEF TypeOK, Submitting
      <4>2. QED
        BY <3>1, <4>1, HeadIsFirst DEF Order
    <3>7. QED
      BY <2>3, <3>3, <3>5, <3>6 DEF First, Sent
  <2>4. QED
    BY <2>1, <2>2, <2>3
<1>2. CASE SubmitSkip
  <2>1. PICK s \in {"cancelled", "failed"} : SetOrder(Order, s) /\ Done /\ UNCHANGED fate
    BY <1>2 DEF SubmitSkip, Skip, Drop
  <2>2. pc \in Submitting /\ Order \in Ids
    BY <1>2, OrderType DEF SubmitSkip, Submitting
  <2>3. \A o \in Ids : o # Order => orders'[o] = orders[o] /\ fate'[o] = fate[o]
    BY <2>1, <2>2, SetOrderType
  <2>4. QED
    BY <2>1, <2>2, <2>3, QueueDone DEF First, Sent
<1>3. CASE StoreHold
  <2>1. Done /\ pc \in Submitting /\ UNCHANGED <<orders, fate>>
    BY <1>3 DEF StoreHold, Submitting
  <2>2. QED
    BY <2>1, QueueDone DEF First, Sent
<1>4. CASE GiveUp
  BY <1>4, EmptyQueue DEF GiveUp, First
<1>5. CASE SubmitGo
  <2>1. UNCHANGED <<orders, fate, todo, Order>> /\ pc \in Submitting /\ \A o \in Ids : Sent(o)' <=> Sent(o)
    BY <1>5 DEF SubmitGo, Order, Submitting, Sent
  <2>2. Queue'
    BY <2>1, QueueKept
  <2>3. First'
    BY <1>5, <2>1 DEF SubmitGo, First, Sent
  <2>4. QED
    BY <2>2, <2>3
<1>6. CASE Send
  <2>1. /\ todo # <<>> /\ UNCHANGED <<orders, todo, Order>> /\ pc' = "swap"
        /\ fate'[Order] = "sent" /\ orders[Order].status = "pending"
        /\ \A o \in Ids : o # Order => fate'[o] = fate[o]
    BY <1>6, SendEffect DEF Send, Order, TypeOK, Submitting, First
  <2>2. Queue'
    BY <2>1, QueueKept DEF Sent
  <2>3. QED
    BY <2>1, <2>2 DEF First, Sent
<1>7. CASE StoreSubmitted \/ StoreUnknown
  <2>1. /\ todo # <<>> /\ UNCHANGED <<fate, todo, Order>> /\ Order \in Ids /\ Sent(Order)
        /\ \A o \in Ids : o # Order => orders'[o] = orders[o]
    BY <1>7, OrderType DEF StoreSubmitted, StoreUnknown, Order, TypeOK, Submitting, First
  <2>2. /\ StoreSubmitted => pc' = "hold" /\ orders'[Order].status = "submitted"
        /\ StoreUnknown => pc' = "holdUnknown" /\ orders'[Order].status = "unknown"
    BY <2>1 DEF StoreSubmitted, StoreUnknown, Goto, TypeOK, OrderRecord
  <2>3. Queue'
    BY <2>1, QueueKept DEF Sent
  <2>4. QED
    BY <1>7, <2>1, <2>2, <2>3 DEF First, Sent
<1>8. CASE Refresh
  <2>1. todo' = <<>> /\ pc' = "load"
    BY <1>8 DEF Refresh, TypeOK, Submitting, Goto
  <2>2. QED
    BY <2>1, EmptyQueue DEF First
<1>9. CASE Reconcile
  <2>1. todo' = <<>> /\ pc' \in {"query", "idle", "clear"}
    BY <1>9 DEF Reconcile, Pick, PickNone, QueryFinal, QueryOpen, ClearHold, TypeOK, Submitting, Goto
  <2>2. ASSUME NEW o \in Ids, Pick(o) PROVE orders'[chosen'].status \in Uncertain
    BY <2>2 DEF Pick, Traceable, WithState
  <2>3. pc' = "query" => \E o \in Ids : Pick(o)
    BY <1>9 DEF Reconcile, PickNone, QueryFinal, QueryOpen, ClearHold, Goto
  <2>4. QED
    BY <2>1, <2>2, <2>3, EmptyQueue DEF First
<1>10. CASE LoadRuns \/ RefreshError \/ Exit \/ Crash \/ Restart
  <2>1. todo' = <<>> /\ pc' \in {"reconcile", "idle", "down", "boot"}
    BY <1>10 DEF LoadRuns, RefreshError, Exit, Crash, Die, Restart, TypeOK, Submitting, Goto
  <2>2. QED
    BY <2>1, EmptyQueue DEF First
<1>11. ASSUME UNCHANGED <<orders, job>>, \A o \in Ids : Sent(o)' <=> Sent(o)
       PROVE  Queue' /\ First'
  <2>1. Queue'
    BY <1>11, QueueKept DEF job
  <2>2. UNCHANGED <<pc, todo, Order, chosen>>
    BY <1>11 DEF job, Order
  <2>3. pc \in Submitting => Order \in Ids
    BY OrderType
  <2>4. First'
    BY <1>11, <2>2, <2>3 DEF First, Submitting
  <2>5. QED
    BY <2>1, <2>4
<1>12. ASSUME NEW c \in Tokens, Interrupt(c) \/ FinishRecovery(c) PROVE Queue' /\ First'
  BY <1>11, <1>12 DEF Interrupt, FinishRecovery, Sent
<1>13. ASSUME NEW o \in Ids, Exchange(o) PROVE Queue' /\ First'
  <2>1. ~Send
    BY <1>13 DEF Exchange, Send, job, TypeOK
  <2>2. QED
    BY <1>11, <1>13, <2>1, FatesStay DEF Exchange
<1>14. CASE Start \/ Pause \/ Stop \/ Shutdown \/ UNCHANGED vars
  BY <1>11, <1>14 DEF Start, Pause, Stop, Shutdown, vars, Sent
<1>15. QED
  BY <1>1, <1>2, <1>3, <1>4, <1>5, <1>6, <1>7, <1>8, <1>9, <1>10, <1>12, <1>13, <1>14, SubmitSteps DEF Next

LEMMA OnRecordStep == Base /\ OnRecord /\ [Next]_vars => OnRecord'
<1> SUFFICES ASSUME Base, OnRecord, [Next]_vars, NEW o \in Ids, o \in Bought'
             PROVE  orders'[o].status \in Open
  BY DEF OnRecord, Open, Bought
<1> USE DEF Base
<1>1. ASSUME ~Send PROVE o \in Bought /\ Sent(o) /\ orders[o].status \in Open
  BY <1>1, FatesStay DEF Bought, Sent, OnRecord, Open
<1>2. ASSUME NEW S \in SUBSET Tokens, Decide(S) PROVE orders'[o].status \in Open
  <2>1. PICK made \in Nat, new \in Nat \ {0} : Makes(S, made, new)
    BY <1>2, DecideMakes
  <2>2. ~Send
    BY <1>2 DEF Decide, Send
  <2>3. QED
    BY <1>1, <2>1, <2>2 DEF Makes, Open
<1>3. CASE SubmitSkip
  <2>1. PICK s \in {"cancelled", "failed"} : SetOrder(Order, s) /\ UNCHANGED fate
    BY <1>3 DEF SubmitSkip, Skip, Drop
  <2>2. Order \in Ids /\ ~Sent(Order)
    BY <1>3, OrderType DEF SubmitSkip, Submitting, First
  <2>3. o \in Bought /\ o # Order
    BY <2>1, <2>2 DEF Bought, Sent
  <2>4. QED
    BY <2>1, <2>2, <2>3, SetOrderType DEF OnRecord, Open
<1>4. CASE Send
  <2>1. orders[Order].status = "pending" /\ UNCHANGED orders
    BY <1>4 DEF Send, First
  <2>2. o # Order => o \in Bought
    BY <1>4, SendEffect DEF Bought
  <2>3. QED
    BY <2>1, <2>2 DEF OnRecord, Open
<1>5. CASE StoreSubmitted \/ StoreUnknown
  <2>1. Order \in Ids /\ ~Send
    BY <1>5, OrderType DEF StoreSubmitted, StoreUnknown, Submitting, Send
  <2>2. /\ orders'[Order].status \in Uncertain
        /\ o # Order => orders'[o] = orders[o]
    BY <1>5, <2>1 DEF StoreSubmitted, StoreUnknown, TypeOK, OrderRecord, Uncertain
  <2>3. QED
    BY <1>1, <2>1, <2>2 DEF Open
<1>6. CASE Refresh
  <2>1. \/ orders'[o] = orders[o]
        \/ orders'[o] = [orders[o] EXCEPT !.status = "unknown"]
    BY <1>6 DEF Refresh
  <2>2. ~Send
    BY <1>6 DEF Refresh, Send
  <2>3. QED
    BY <1>1, <2>1, <2>2 DEF TypeOK, OrderRecord, Open, Uncertain
<1>7. CASE QueryFinal
  <2>1. SetOrder(chosen, "failed") /\ fate[chosen] = "reverted" /\ chosen \in Ids /\ ~Send
    BY <1>7 DEF QueryFinal, Final, TypeOK, Send
  <2>2. o # chosen
    BY <1>1, <2>1 DEF Bought
  <2>3. QED
    BY <1>1, <2>1, <2>2, SetOrderType
<1>8. ASSUME NEW p \in Ids, Exchange(p) PROVE orders'[o].status \in Open
  <2>1. ~Send /\ UNCHANGED orders
    BY <1>8 DEF Exchange, Send, job
  <2>2. QED
    BY <1>1, <2>1
<1>9. CASE UNCHANGED <<orders, fate>>
  BY <1>9 DEF Bought, OnRecord, Open
<1>10. QED
  BY <1>2, <1>3, <1>4, <1>5, <1>6, <1>7, <1>8, <1>9, OrderFrame DEF OrderStep

LEMMA OneOpenStep == Base /\ OneOpen /\ [Next]_vars => OneOpen'
<1> SUFFICES ASSUME Base, OneOpen, [Next]_vars,
                    NEW o \in Ids, NEW p \in Ids, o # p,
                    orders'[o].status \in Open, orders'[p].status \in Open
             PROVE  orders'[o].ca # orders'[p].ca
  BY DEF OneOpen, WithState
<1> USE DEF Base
<1>1. ASSUME NEW S \in SUBSET Tokens, Decide(S) PROVE orders'[o].ca # orders'[p].ca
  <2>1. PICK made \in Nat, new \in Nat \ {0} : Makes(S, made, new)
    BY <1>1, DecideMakes
  <2> DEFINE New == made + 1 .. made + new
  <2>2. ASSUME NEW a \in Ids \ New, NEW b \in New, orders[a].status \in Open
        PROVE  orders[a].ca # orders'[b].ca
    <3>1. orders'[b].ca \in S
      BY <2>1 DEF Makes
    <3>2. ~OrderOpen(orders'[b].ca)
      BY <1>1, <3>1 DEF Decide
    <3>3. QED
      BY <2>2, <3>2 DEF OrderOpen, WithState, Open
  <2>3. \A a \in Ids \ New : orders'[a] = orders[a]
    BY <2>1 DEF Makes
  <2>4. CASE o \in New /\ p \in New
    BY <2>1, <2>4 DEF Makes
  <2>5. CASE o \in New /\ p \notin New
    BY <2>2, <2>3, <2>5
  <2>6. CASE o \notin New /\ p \in New
    BY <2>2, <2>3, <2>6
  <2>7. CASE o \notin New /\ p \notin New
    BY <2>3, <2>7 DEF OneOpen, WithState
  <2>8. QED
    BY <2>4, <2>5, <2>6, <2>7
<1>2. CASE \A S \in SUBSET Tokens : ~Decide(S)
  <2>1. /\ orders[o].status \in Open /\ orders[p].status \in Open
        /\ orders'[o].ca = orders[o].ca /\ orders'[p].ca = orders[p].ca
    BY <1>2, OrdersStay
  <2>2. QED
    BY <2>1 DEF OneOpen, WithState
<1>3. QED
  BY <1>1, <1>2

\* The hold changes where it is stored and where a refresh sets or clears it.
LEMMA HoldFrame ==
  ASSUME [Next]_vars
  PROVE  UNCHANGED hold \/ StoreHold \/ Refresh \/ ClearHold
<1>1. CASE Submit
  BY <1>1, SubmitSteps DEF SubmitSkip, SubmitGo, Send, GiveUp, StoreSubmitted, StoreUnknown, Skip, row
<1>2. CASE Reconcile
  BY <1>2 DEF Reconcile, Pick, PickNone, QueryFinal, QueryOpen, row
<1>3. CASE LoadRuns \/ RefreshError \/ Start \/ Pause \/ Stop \/ Shutdown \/ Exit \/ Crash \/ Restart
  BY <1>3 DEF LoadRuns, RefreshError, Start, Pause, Stop, Shutdown, Exit, Crash, Die, Restart, row
<1>4. CASE \/ \E S \in SUBSET Tokens : Decide(S)
           \/ \E c \in Tokens : Interrupt(c) \/ FinishRecovery(c)
           \/ \E o \in Ids : Exchange(o)
  BY <1>4 DEF Decide, Interrupt, FinishRecovery, Exchange, row
<1>5. CASE UNCHANGED vars
  BY <1>5 DEF vars, row
<1>6. QED
  BY <1>1, <1>2, <1>3, <1>4, <1>5 DEF Next

LEMMA FreeStep == Base /\ FreeToSend /\ [Next]_vars => FreeToSend'
<1> SUFFICES ASSUME Base, FreeToSend, [Next]_vars, pc' \in {"risk", "wallet"} PROVE ~hold'
  BY DEF FreeToSend
<1>1. UNCHANGED hold
  <2>1. ~StoreHold
    BY DoneType DEF StoreHold, Base, Submitting
  <2>2. ~Refresh /\ ~ClearHold
    BY DEF Refresh, ClearHold, Goto
  <2>3. QED
    BY <2>1, <2>2, HoldFrame
<1>2. ~hold
  <2>1. CASE Submit
    <3>1. CASE SubmitSkip
      BY <3>1, DoneType DEF SubmitSkip, Skip, Drop, Base, Submitting
    <3>2. CASE SubmitGo
      BY <3>2 DEF SubmitGo, MaySubmit, FreeToSend
    <3>3. CASE StoreHold
      BY <3>3, DoneType DEF StoreHold, Base, Submitting
    <3>4. QED
      BY <2>1, <3>1, <3>2, <3>3, SubmitSteps DEF Send, GiveUp, StoreSubmitted, StoreUnknown, Goto
  <2>2. CASE UNCHANGED pc
    BY <2>2 DEF FreeToSend
  <2>3. CASE Refresh \/ LoadRuns \/ Reconcile \/ RefreshError \/ Exit \/ Crash \/ Restart
    BY <2>3 DEF Refresh, LoadRuns, Reconcile, Pick, PickNone, QueryFinal, QueryOpen, ClearHold,
       RefreshError, Exit, Crash, Die, Restart, Goto
  <2>4. CASE \/ \E S \in SUBSET Tokens : Decide(S)
             \/ \E c \in Tokens : Interrupt(c) \/ FinishRecovery(c)
             \/ \E o \in Ids : Exchange(o)
             \/ Start \/ Pause \/ Stop \/ Shutdown \/ UNCHANGED vars
    BY <2>2, <2>4 DEF Decide, Interrupt, FinishRecovery, Exchange, Start, Pause, Stop, Shutdown,
       vars, job, Goto
  <2>5. QED
    BY <2>1, <2>3, <2>4 DEF Next
<1>3. QED
  BY <1>1, <1>2

\* A step uses up at most one disturbance and gives none back.
LEMMA LeftFrame ==
  ASSUME TypeOK, [Next]_vars
  PROVE  /\ UNCHANGED left \/ \E k \in Kinds : Spend(k)
         /\ \A k \in Kinds : left'[k] <= left[k]
<1>1. UNCHANGED left \/ \E k \in Kinds : Spend(k)
  <2>1. CASE Submit
    BY <2>1, SubmitSteps DEF SubmitSkip, SubmitGo, Send, GiveUp, StoreSubmitted, StoreUnknown, StoreHold,
       Skip, Kinds
  <2>2. CASE Refresh \/ LoadRuns \/ Reconcile \/ RefreshError
    BY <2>2 DEF Refresh, LoadRuns, Reconcile, Pick, PickNone, QueryFinal, QueryOpen, ClearHold,
       RefreshError, Kinds
  <2>3. CASE Start \/ Pause \/ Stop \/ Shutdown \/ Exit \/ Crash \/ Restart \/ UNCHANGED vars
    BY <2>3 DEF Start, Pause, Stop, Shutdown, Exit, Crash, Restart, vars, Kinds
  <2>4. CASE \/ \E S \in SUBSET Tokens : Decide(S)
             \/ \E c \in Tokens : Interrupt(c) \/ FinishRecovery(c)
             \/ \E o \in Ids : Exchange(o)
    BY <2>4 DEF Decide, Interrupt, FinishRecovery, Exchange, Kinds
  <2>5. QED
    BY <2>1, <2>2, <2>3, <2>4 DEF Next
<1>2. left \in [Kinds -> Nat]
  BY DEF TypeOK, Kinds
<1>3. ASSUME NEW k \in Kinds, NEW j \in Kinds, Spend(k) PROVE left'[j] <= left[j]
  BY <1>2, <1>3, SpendType
<1>4. ASSUME UNCHANGED left, NEW j \in Kinds PROVE left'[j] <= left[j]
  BY <1>2, <1>4
<1>5. QED
  BY <1>1, <1>3, <1>4

LEMMA CountersStep == TypeOK /\ Counters /\ [Next]_vars => Counters'
<1> SUFFICES ASSUME TypeOK, Counters, [Next]_vars PROVE Counters'
  OBVIOUS
<1>1. "error" \in Kinds /\ "toggle" \in Kinds /\ left \in [Kinds -> Nat] /\ left' \in [Kinds -> Nat]
  BY TypeStep DEF TypeOK, Kinds
<1>2. left'["error"] <= left["error"] /\ left'["toggle"] <= left["toggle"]
  BY <1>1, LeftFrame
<1>3. left["error"] \in Nat /\ left["toggle"] \in Nat /\ left'["error"] \in Nat /\ left'["toggle"] \in Nat
  BY <1>1
<1>4. QED
  BY <1>2, <1>3, BoundsNat DEF Counters

LEMMA StatusFrame ==
  ASSUME [Next]_vars
  PROVE  UNCHANGED status \/ Start \/ Pause \/ Stop
<1>1. CASE Submit
  BY <1>1, SubmitSteps DEF SubmitSkip, SubmitGo, Send, GiveUp, StoreSubmitted, StoreUnknown, StoreHold, Skip, row
<1>2. CASE Refresh \/ LoadRuns \/ Reconcile \/ RefreshError
  BY <1>2 DEF Refresh, LoadRuns, Reconcile, Pick, PickNone, QueryFinal, QueryOpen, ClearHold, RefreshError, row
<1>3. CASE Shutdown \/ Exit \/ Crash \/ Restart \/ UNCHANGED vars
  BY <1>3 DEF Shutdown, Exit, Crash, Die, Restart, row, vars
<1>4. CASE \/ \E S \in SUBSET Tokens : Decide(S)
           \/ \E c \in Tokens : Interrupt(c) \/ FinishRecovery(c)
           \/ \E o \in Ids : Exchange(o)
  BY <1>4 DEF Decide, Interrupt, FinishRecovery, Exchange, row
<1>5. QED
  BY <1>1, <1>2, <1>3, <1>4 DEF Next

LEMMA ToggledStep == Base /\ Counters /\ Toggled /\ [Next]_vars => Toggled'
<1> SUFFICES ASSUME Base, Counters, Toggled, [Next]_vars, Used' # {}, status' # "running"
             PROVE  left'["toggle"] < MaxToggles
  BY DEF Toggled
<1> USE DEF Base
<1>1. /\ "toggle" \in Kinds /\ left["toggle"] \in Nat /\ left'["toggle"] \in Nat
      /\ left'["toggle"] <= left["toggle"] /\ MaxToggles \in Nat
  BY TypeStep, LeftFrame, BoundsNat DEF TypeOK, Kinds
<1>2. CASE Pause \/ Stop
  <2>1. Spend("toggle")
    BY <1>2 DEF Pause, Stop
  <2>2. left'["toggle"] = left["toggle"] - 1
    BY <1>1, <2>1, SpendType
  <2>3. QED
    BY <1>1, <2>2 DEF Counters
<1>3. CASE ~Pause /\ ~Stop
  <2>1. status # "running"
    BY <1>3, StatusFrame DEF Start
  <2>2. \A S \in SUBSET Tokens : ~Decide(S)
    BY <2>1 DEF Decide, MayDecide
  <2>3. Used # {}
    BY <2>2, OrdersStay DEF Used
  <2>4. QED
    BY <1>1, <2>1, <2>3 DEF Toggled
<1>4. QED
  BY <1>2, <1>3

-----------------------------------------------------------------------------
(* What keeps the run from sending: Blocked, while every statement is      *)
(* stored and the run is not paused again.                                 *)

LEMMA StoredBefore ==
  ASSUME Base, Counters, [Next]_vars, Stored'
  PROVE  Stored /\ ~Spend("error")
<1>1. /\ left \in [Kinds -> Nat] /\ left' \in [Kinds -> Nat]
      /\ "error" \in Kinds /\ "toggle" \in Kinds
  BY TypeStep DEF Base, TypeOK, Kinds
<1>2. left'["error"] <= left["error"] /\ left'["toggle"] <= left["toggle"]
  BY <1>1, LeftFrame DEF Base
<1>3. /\ left["error"] \in Nat /\ left["toggle"] \in Nat
      /\ left'["error"] \in Nat /\ left'["toggle"] \in Nat /\ MaxErrors \in Nat /\ MaxToggles \in Nat
  BY <1>1, BoundsNat
<1>4. left'["error"] = MaxErrors /\ left'["toggle"] >= MaxToggles - 1
  BY DEF Stored
<1>5. left["error"] = MaxErrors /\ left["toggle"] >= MaxToggles - 1
  BY <1>2, <1>3, <1>4 DEF Counters
<1>6. ~Spend("error")
  <2>1. Spend("error") => left'["error"] = left["error"] - 1
    BY <1>1, SpendType DEF Base
  <2>2. QED
    BY <1>3, <1>4, <1>5, <2>1
<1>7. QED
  BY <1>5, <1>6 DEF Stored

\* A stored hold is kept while an order may have cost money.
LEMMA HoldStays ==
  ASSUME Base, OnRecord, [Next]_vars, HoldStored, Bought' # {}, Bought' \subseteq Bought
  PROVE  HoldStored'
<1> USE DEF Base
<1>1. hold'
  <2>1. CASE UNCHANGED hold
    BY <2>1 DEF HoldStored
  <2>2. CASE StoreHold
    BY <2>2 DEF StoreHold
  <2>3. CASE Refresh
    BY <2>3 DEF Refresh, HoldStored
  <2>4. CASE ClearHold
    <3>1. StillUncertain # {}
      BY DEF HoldStored, StillUncertain, WithState, Bought
    <3>2. QED
      BY <2>4, <3>1 DEF ClearHold, HoldStored
  <2>5. QED
    BY <2>1, <2>2, <2>3, <2>4, HoldFrame
<1>2. ASSUME NEW o \in Bought' PROVE orders'[o].status \in Uncertain
  <2>1. o \in Ids /\ o \in Bought /\ orders[o].status \in Uncertain
    BY <1>2 DEF HoldStored, Bought
  <2>2. orders'[o].status \in Open
    BY <1>2, OnRecordStep DEF OnRecord, Open
  <2>3. orders'[o].status # "pending"
    <3>1. \A S \in SUBSET Tokens : ~Decide(S)
      BY DEF Decide, MayDecide, HoldStored
    <3>2. CASE SubmitSkip
      <4>1. PICK s \in {"cancelled", "failed"} : SetOrder(Order, s) /\ Order \in Ids
        BY <3>2, OrderType DEF SubmitSkip, Skip, Drop, Submitting
      <4>2. QED
        BY <2>1, <4>1, SetOrderType DEF Uncertain
    <3>3. CASE StoreSubmitted \/ StoreUnknown
      <4>1. Order \in Ids
        BY <3>3, OrderType DEF StoreSubmitted, StoreUnknown, Submitting
      <4>2. /\ orders'[Order].status \in Uncertain
            /\ o # Order => orders'[o] = orders[o]
        BY <2>1, <3>3, <4>1 DEF StoreSubmitted, StoreUnknown, TypeOK, OrderRecord, Uncertain
      <4>3. QED
        BY <2>1, <4>2 DEF Uncertain
    <3>4. CASE Refresh
      <4>1. \/ orders'[o] = orders[o]
            \/ orders'[o] = [orders[o] EXCEPT !.status = "unknown"]
        BY <2>1, <3>4 DEF Refresh
      <4>2. QED
        BY <2>1, <4>1 DEF TypeOK, OrderRecord, Uncertain
    <3>5. CASE QueryFinal
      BY <2>1, <3>5, SetOrderType DEF QueryFinal, TypeOK, Uncertain
    <3>6. CASE UNCHANGED orders
      BY <2>1, <3>6 DEF Uncertain
    <3>7. QED
      BY <3>1, <3>2, <3>3, <3>4, <3>5, <3>6, OrderFrame DEF OrderStep, Send, Exchange
  <2>4. QED
    BY <2>2, <2>3 DEF Open
<1>3. QED
  BY <1>1, <1>2 DEF HoldStored

\* The submission at work ends in a stored hold, or in a crash.
LEMMA WorkStays ==
  ASSUME Base, [Next]_vars, ~Spend("error"), AtWork, Bought' # {}, Bought' \subseteq Bought
  PROVE  HoldStored' \/ AtWork' \/ Unseen'
<1> USE DEF Base
<1>1. Order \in Ids /\ \A o \in Bought' : o = Order
  BY OrderType DEF AtWork, Submitting
<1>2. ASSUME UNCHANGED <<hold, todo>>, pc' \in {"swap", "submitted", "hold", "unknown", "holdUnknown"}
      PROVE  AtWork'
  BY <1>1, <1>2 DEF AtWork, Order
<1>3. CASE Submit
  <2>1. CASE SubmitGo
    BY <1>2, <2>1 DEF SubmitGo, row, AtWork
  <2>2. CASE StoreSubmitted \/ StoreUnknown
    BY <1>2, <2>2 DEF StoreSubmitted, StoreUnknown, row, Goto
  <2>3. CASE StoreHold
    <3>1. hold' /\ orders'[Order].status \in Uncertain
      BY <2>3 DEF StoreHold, First, Uncertain
    <3>2. QED
      BY <1>1, <3>1 DEF HoldStored
  <2>4. QED
    BY <1>3, <2>1, <2>2, <2>3, SubmitSteps DEF SubmitSkip, Send, GiveUp, AtWork
<1>4. CASE Exit \/ Crash
  <2>1. Die /\ ~hold
    BY <1>4 DEF Exit, Crash, AtWork
  <2>2. pc' = "down" /\ ~hold' /\ ~known' /\ \A c \in Tokens : link'[c] = "off"
    BY <2>1 DEF Die, Goto, row
  <2>3. QED
    BY <2>2 DEF Unseen
<1>5. CASE \/ \E c \in Tokens : Interrupt(c) \/ FinishRecovery(c)
           \/ \E o \in Ids : Exchange(o)
           \/ Start \/ Pause \/ Stop \/ Shutdown \/ UNCHANGED vars
  <2>1. UNCHANGED <<hold, pc, todo>>
    BY <1>5 DEF Interrupt, FinishRecovery, Exchange, Start, Pause, Stop, Shutdown, vars, job, row
  <2>2. QED
    BY <1>2, <2>1 DEF AtWork
<1>6. QED
  BY <1>3, <1>4, <1>5 DEF Next, AtWork, Decide, Refresh, LoadRuns, Reconcile, Pick, PickNone, QueryFinal,
     QueryOpen, ClearHold, RefreshError, Restart

\* After a crash nothing is ready until a refresh of the running run has seen the order.
LEMMA UnseenStays ==
  ASSUME Base, OnRecord, Toggled, Counters, [Next]_vars, Stored', Unseen,
         Bought' # {}, Bought' \subseteq Bought
  PROVE  HoldStored' \/ Unseen'
<1> USE DEF Base
<1>0. /\ left["toggle"] \in Nat /\ left'["toggle"] \in Nat /\ MaxToggles \in Nat
      /\ left'["toggle"] <= left["toggle"]
  BY TypeStep, LeftFrame, BoundsNat DEF TypeOK, Kinds
<1>1. ~Spend("error")
  BY StoredBefore
<1>2. /\ ~hold /\ (\A c \in Tokens : link[c] = "off")
      /\ pc \in {"down", "boot", "load", "reconcile", "query", "clear", "idle"}
      /\ pc \in {"down", "boot", "load"} => ~known
      /\ pc \notin {"down", "boot"} => left["toggle"] < MaxToggles /\ (known => status = "running")
  BY DEF Unseen
<1>3. \A S \in SUBSET Tokens : ~Decide(S)
  BY <1>2 DEF Decide
<1>4. ~Submit
  BY <1>2 DEF Submit, SubmitCheck, RiskCheck, WalletBad, WalletGood, SwapAccepted, SwapLost,
     StoreSubmitted, StoreUnknown, StoreHold, SubmitError
<1>5. CASE Refresh
  <2>1. CASE status = "running"
    <3>1. ASSUME NEW o \in Bought' PROVE orders'[o].status \in Uncertain
      <4>1. o \in Ids /\ orders[o].status \in Open
        BY <1>5 DEF OnRecord, Open, Bought
      <4>2. CASE orders[o].status = "pending"
        <5>1. orders'[o] = [orders[o] EXCEPT !.status = "unknown"]
          BY <1>5, <2>1, <4>1, <4>2 DEF Refresh, Doubtful, WithState
        <5>2. QED
          BY <4>1, <5>1 DEF TypeOK, OrderRecord, Uncertain
      <4>3. CASE orders[o].status # "pending"
        <5>1. orders'[o] = orders[o]
          BY <1>5, <2>1, <4>1, <4>3 DEF Refresh, Doubtful, WithState
        <5>2. QED
          BY <4>1, <4>3, <5>1 DEF Open
      <4>4. QED
        BY <4>2, <4>3
    <3>2. \E o \in Ids : orders'[o].status \in Uncertain
      BY <3>1 DEF Bought
    <3>3. hold'
      BY <1>5, <2>1, <3>2 DEF Refresh
    <3>4. QED
      BY <3>1, <3>3 DEF HoldStored
  <2>2. CASE status # "running"
    <3>1. Used # {}
      BY DEF OnRecord, Bought, Used, Uncertain
    <3>2. left["toggle"] < MaxToggles
      BY <2>2, <3>1 DEF Toggled
    <3>3. ~known
      BY <1>2, <1>5, <2>2 DEF Refresh
    <3>4. UNCHANGED <<hold, left, known, link, status>> /\ pc' = "load"
      BY <1>5, <2>2 DEF Refresh, Goto, memory
    <3>5. QED
      BY <1>2, <3>2, <3>3, <3>4 DEF Unseen
  <2>3. QED
    BY <2>1, <2>2
<1>6. CASE LoadRuns
  <2>1. UNCHANGED <<hold, left, status>> /\ pc' = "reconcile" /\ known' = (status = "running")
    BY <1>6 DEF LoadRuns, Goto, row
  <2>2. \A c \in Tokens : link'[c] = "off"
    BY <1>2, <1>6 DEF LoadRuns
  <2>3. QED
    BY <1>2, <1>6, <2>1, <2>2 DEF Unseen, LoadRuns
<1>7. CASE Reconcile
  <2>1. /\ ~hold' /\ pc' \in {"query", "clear", "idle"} /\ pc \in {"reconcile", "query", "clear"}
        /\ UNCHANGED <<status, known, link, left>>
    <3>1. CASE ClearHold
      BY <1>2, <3>1 DEF ClearHold, Goto, memory
    <3>2. CASE PickNone \/ QueryFinal \/ QueryOpen \/ \E o \in Ids : Pick(o)
      <4>1. /\ UNCHANGED <<row, memory, left>> /\ pc' \in {"query", "clear", "idle"}
            /\ pc \in {"reconcile", "query"}
        BY <3>2 DEF PickNone, QueryFinal, QueryOpen, Pick, Goto
      <4>2. QED
        BY <1>2, <4>1 DEF row, memory
    <3>3. QED
      BY <1>7, <3>1, <3>2 DEF Reconcile
  <2>2. QED
    BY <1>2, <2>1 DEF Unseen
<1>8. CASE Exit \/ Crash
  <2>1. Die
    BY <1>8 DEF Exit, Crash
  <2>2. pc' = "down" /\ ~hold' /\ ~known' /\ \A c \in Tokens : link'[c] = "off"
    BY <1>2, <2>1 DEF Die, Goto, row
  <2>3. QED
    BY <2>2 DEF Unseen
<1>9. CASE Restart
  BY <1>2, <1>9 DEF Restart, Goto, Unseen, row, memory
<1>10. CASE Pause \/ Stop
  <2>1. left'["toggle"] = left["toggle"] - 1
    BY <1>10, SpendType DEF Pause, Stop, Kinds
  <2>2. left'["toggle"] >= MaxToggles - 1
    BY DEF Stored
  <2>3. pc \in {"down", "boot"}
    BY <1>0, <1>2, <2>1, <2>2
  <2>4. UNCHANGED <<hold, pc, known, link>>
    BY <1>10 DEF Pause, Stop, job, memory
  <2>5. QED
    BY <1>2, <2>3, <2>4 DEF Unseen
<1>11. CASE Start
  <2>1. UNCHANGED <<hold, pc, known, link, left>> /\ status' = "running"
    BY <1>11 DEF Start, job, memory
  <2>2. QED
    BY <1>2, <2>1 DEF Unseen
<1>12. ASSUME NEW o \in Ids, Exchange(o) PROVE Unseen'
  <2>1. UNCHANGED <<status, hold, pc, known, link, left>>
    BY <1>12 DEF Exchange, row, job, memory
  <2>2. QED
    BY <1>2, <2>1 DEF Unseen
<1>13. CASE Shutdown
  <2>1. UNCHANGED <<status, hold, pc, known, link>>
    BY <1>13 DEF Shutdown, row, job
  <2>2. QED
    BY <1>0, <1>2, <2>1 DEF Unseen
<1>14. CASE UNCHANGED vars
  BY <1>2, <1>14 DEF Unseen, vars, row, job, memory
<1>15. ASSUME NEW c \in Tokens PROVE ~Interrupt(c) /\ ~FinishRecovery(c)
  BY <1>2 DEF Interrupt, FinishRecovery
<1>16. QED
  BY <1>1, <1>3, <1>4, <1>5, <1>6, <1>7, <1>8, <1>9, <1>10, <1>11, <1>12, <1>13, <1>14, <1>15
  DEF Next, RefreshError

LEMMA BlockedStep ==
  Base /\ OnRecord /\ FreeToSend /\ Toggled /\ Counters /\ Blocked /\ [Next]_vars => Blocked'
<1> SUFFICES ASSUME Base, OnRecord, FreeToSend, Toggled, Counters, Blocked, [Next]_vars, Stored'
             PROVE  /\ \A o, p \in Bought' : o = p
                    /\ Bought' # {} => HoldStored' \/ AtWork' \/ Unseen'
  BY DEF Blocked
<1>1. Stored /\ ~Spend("error")
  BY StoredBefore
<1>2. /\ \A o, p \in Bought : o = p
      /\ Bought # {} => HoldStored \/ AtWork \/ Unseen
  BY <1>1 DEF Blocked
<1>3. CASE Send
  <2>1. pc = "wallet" /\ ~hold
    BY <1>3 DEF Send, FreeToSend
  <2>2. Bought = {}
    BY <1>2, <2>1 DEF HoldStored, AtWork, Unseen
  <2>3. \A o \in Bought' : o = Order
    BY <1>3, <2>2, SendEffect DEF Bought, Base
  <2>4. ~hold' /\ pc' = "swap" /\ Order' = Order
    BY <1>3, <2>1 DEF Send, row, Order
  <2>5. AtWork'
    BY <2>3, <2>4 DEF AtWork
  <2>6. QED
    BY <2>3, <2>5
<1>4. CASE ~Send
  <2>1. Bought' \subseteq Bought
    BY <1>4, FatesStay DEF Bought, Base
  <2>2. ASSUME Bought' # {} PROVE HoldStored' \/ AtWork' \/ Unseen'
    <3>1. Bought # {}
      BY <2>1, <2>2
    <3>2. QED
      BY <1>1, <1>2, <2>1, <2>2, <3>1, HoldStays, WorkStays, UnseenStays
  <2>3. QED
    BY <1>2, <2>1, <2>2
<1>5. QED
  BY <1>3, <1>4

-----------------------------------------------------------------------------
(* Theorems.                                                               *)

LEMMA InvInit == Init => IInv
<1> SUFFICES ASSUME Init PROVE IInv
  OBVIOUS
<1>1. TypeOK
  BY TypeInit
<1>2. /\ \A o \in Ids : orders[o] = NoOrder /\ fate[o] = "unsent"
      /\ todo = <<>> /\ pc = "boot" /\ left["error"] = MaxErrors /\ left["toggle"] = MaxToggles
  BY DEF Init
<1>3. \A o \in Ids : orders[o].status = "none"
  BY <1>2 DEF NoOrder
<1>4. Numbered
  <2>1. Used = {} /\ 0 \in 0..MaxOrders /\ 1..0 = {}
    BY <1>3, BoundsNat DEF Used
  <2>2. Used = 1..0
    BY <2>1
  <2>3. QED
    BY <1>2, <2>1, <2>2 DEF Numbered, Sent
<1>5. Queue /\ First
  BY <1>2, EmptySeq DEF Queue, First
<1>6. Bought = {} /\ Used = {} /\ WithState(Open) = {}
  BY <1>2, <1>3 DEF Bought, Used, WithState, Open, Uncertain
<1>7. FreeToSend /\ OnRecord /\ OneOpen /\ Toggled /\ Blocked
  BY <1>2, <1>6 DEF FreeToSend, OnRecord, OneOpen, Toggled, Blocked
<1>8. Counters
  BY <1>2, BoundsNat DEF Counters
<1>9. QED
  BY <1>1, <1>4, <1>5, <1>7, <1>8 DEF IInv, Base

LEMMA InvStep == IInv /\ [Next]_vars => IInv'
<1> SUFFICES ASSUME IInv, [Next]_vars PROVE IInv'
  OBVIOUS
<1>1. TypeOK' /\ Numbered' /\ Queue' /\ First'
  BY TypeStep, NumberedStep, QueueStep DEF IInv, Base
<1>2. FreeToSend' /\ OnRecord' /\ OneOpen'
  BY FreeStep, OnRecordStep, OneOpenStep DEF IInv
<1>3. Toggled' /\ Counters' /\ Blocked'
  BY ToggledStep, CountersStep, BlockedStep DEF IInv, Base
<1>4. QED
  BY <1>1, <1>2, <1>3 DEF IInv, Base

\* The inductive invariant holds in every reachable state of the order protocol, with any
\* number of intents, crashes, interruptions and failed statements.
THEOREM OrdersInductive == Spec => []IInv
<1>1. Init => IInv
  BY InvInit
<1>2. IInv /\ [Next]_vars => IInv'
  BY InvStep
<1>3. QED
  BY <1>1, <1>2, PTL DEF Spec

\* Types, and that submitLive is at work exactly while a submission is left.
THEOREM OrdersTypes == Spec => []TypeOK
<1>1. IInv => TypeOK
  BY DEF IInv, Base
<1>2. QED
  BY <1>1, OrdersInductive, PTL

\* An order that may have cost money is never stored as cancelled, failed or not at all:
\* every step of submitLive, switchExecution and reconcileOrders keeps it open.
THEOREM OrdersOnRecord == Spec => []OnRecord
<1>1. IInv => OnRecord
  BY DEF IInv
<1>2. QED
  BY <1>1, OrdersInductive, PTL

\* No token is bought a second time while an earlier purchase may exist, and the run has at
\* most one order that may have cost money while every statement is stored and it is paused
\* at most once (createDecision, submitLive, switchExecution).
THEOREM BuysStayApart == Spec => []BuysApart
<1>1. IInv => BuysApart
  <2> SUFFICES ASSUME IInv PROVE BuysApart
    OBVIOUS
  <2>1. OnePerToken
    <3>1. \A o \in Bought : o \in WithState(Open)
      BY DEF IInv, OnRecord, WithState, Open, Bought
    <3>2. QED
      BY <3>1 DEF IInv, OneOpen, OnePerToken
  <2>2. ASSUME Stored PROVE Cardinality(Bought) <= 1
    <3>1. \A o, p \in Bought : o = p
      BY <2>2 DEF IInv, Blocked
    <3>2. CASE Bought = {}
      BY <3>2, FS_EmptySet
    <3>3. CASE Bought # {}
      <4>1. PICK o : Bought = {o}
        BY <3>1, <3>3
      <4>2. QED
        BY <4>1, FS_Singleton
    <3>4. QED
      BY <3>2, <3>3
  <2>3. QED
    BY <2>1, <2>2 DEF BuysApart, OneAtATimeIfStored, OneAtATime
<1>2. QED
  BY <1>1, OrdersInductive, PTL

\* What submitLive sends was never sent before, also when an answer was lost, and nothing is
\* sent while the run is on hold, whatever comes between its checks and the request.
THEOREM SendsStayAllowed == Spec => SendsAllowed
<1>1. IInv /\ [Next]_vars => \A o \in Ids : (pc # "swap" /\ pc' = "swap" /\ Order = o) => fate[o] = "unsent"
  <2> SUFFICES ASSUME IInv, [Next]_vars, pc # "swap", pc' = "swap" PROVE ~Sent(Order)
    BY DEF Sent
  <2>1. Send
    <3>1. CASE Submit
      <4>1. SubmitSkip \/ StoreHold => pc' # "swap"
        BY DoneType DEF SubmitSkip, Skip, Drop, StoreHold, IInv, Base, Submitting
      <4>2. QED
        BY <3>1, <4>1, SubmitSteps DEF SubmitGo, GiveUp, StoreSubmitted, StoreUnknown, Goto
    <3>2. CASE Refresh \/ LoadRuns \/ Reconcile \/ RefreshError \/ Exit \/ Crash \/ Restart
      BY <3>2 DEF Refresh, LoadRuns, Reconcile, Pick, PickNone, QueryFinal, QueryOpen, ClearHold,
         RefreshError, Exit, Crash, Die, Restart, Goto
    <3>3. CASE \/ \E S \in SUBSET Tokens : Decide(S)
               \/ \E c \in Tokens : Interrupt(c) \/ FinishRecovery(c)
               \/ \E o \in Ids : Exchange(o)
               \/ Start \/ Pause \/ Stop \/ Shutdown \/ UNCHANGED vars
      BY <3>3 DEF Decide, Interrupt, FinishRecovery, Exchange, Start, Pause, Stop, Shutdown,
         vars, job, Goto
    <3>4. QED
      BY <3>1, <3>2, <3>3 DEF Next
  <2>2. QED
    BY <2>1 DEF Send, IInv, Base, First
<1>2. IInv /\ [Next]_vars => (hold => \A o \in Ids : fate[o] = "unsent" => fate'[o] = "unsent")
  <2> SUFFICES ASSUME IInv, [Next]_vars, hold, NEW o \in Ids, ~Sent(o) PROVE ~Sent(o)'
    BY DEF Sent
  <2>1. ~Send
    BY DEF Send, IInv, FreeToSend
  <2>2. QED
    BY <2>1, FatesStay DEF IInv, Base
<1>3. QED
  BY <1>1, <1>2, OrdersInductive, PTL DEF Spec, SendsAllowed, NeverResent, Frozen

=============================================================================
