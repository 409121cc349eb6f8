---------------------------- MODULE IntakeProofs ----------------------------
(* Theorems about how tokens come into a live run, and what is looked up for    *)
(* them: the admission of signals and the eviction of tokens (Admission), for   *)
(* any tokens, signals, rules and limit; the discovery of buys (Discovery), for *)
(* any ledger and page size; the slots, budgets, answers and waiting trades of  *)
(* Lookups, for any requests, items and limits; the projects and sessions of    *)
(* Shards, for any projects, connections and capacities.                        *)
EXTENDS Admission, Discovery, Lookups, Shards, Candles, CommonTheorems, SequenceTheorems

(* ------------------------------- Admission -------------------------------- *)

AdmissionSpec == AdmissionInit /\ [][AdmissionNext]_avars

Runs == [status : {"running", "paused", "stopped"}, started : {1}, rules : RuleTables, activated : [Providers -> Nat]]
Watches ==
  [status : {"none", "monitoring", "pending_eviction", "evicted_low_mcap"}, gen : Nat, key : AllSignals \cup {NoSignal},
   matched : SUBSET Providers, exit : Nat, exitOnly : BOOLEAN]
Ctxs == [exit : Nat, exitOnly : BOOLEAN]
Orders == {"none", "buy", "sell"}
CapsSeen == [cap : Nat, recent : BOOLEAN]
Checks == [ca : CAs \cup {"none"}, cap : Nat, overtaken : BOOLEAN, same : BOOLEAN]
Places == [at : {"none", "lookup", "queued"}, cap : Nat]

QueueTypes ==
  /\ run \in Runs
  /\ Signals \subseteq AllSignals /\ flight \in [Signals -> Places]
  /\ job \in Signals \cup {NoSignal, Refreshing}
WatchTypes ==
  /\ watch \in [CAs -> Watches] /\ ctx \in [CAs -> Ctxs]
  /\ orders \in [CAs -> Orders] /\ held \subseteq CAs
CapTypes ==
  /\ latest \in [CAs -> CapsSeen] /\ heard \in [CAs -> Nat]
  /\ check \in Checks

(* A context in memory belongs to a watch that is active, and an active watch   *)
(* was matched by some source.                                                  *)
CtxIsWatched ==
  /\ \A t \in CAs : ctx[t] # NoCtx => t \in Watched
  /\ \A t \in Watched : watch[t].matched # {}
Fits == IsFiniteSet(Watched) /\ Cardinality(Watched) <= Limit
(* What the worker keeps of a market cap is the newest it has heard of: a       *)
(* recent one, and the one of a recheck that still belongs to its context.      *)
CapsAreHeard ==
  /\ \A t \in CAs : latest[t].recent => heard[t] = latest[t].cap
  /\ check # NoCheck => check.ca \in CAs
  /\ check # NoCheck /\ check.same => ctx[check.ca] # NoCtx /\ heard[check.ca] = Newest(check)

AdmissionInv ==
  QueueTypes /\ WatchTypes /\ CapTypes /\ CtxIsWatched /\ Fits /\ HeldIsWatched /\ CapsAreHeard

LEMMA AdmissionInvInit == AdmissionInit => AdmissionInv
<1> SUFFICES ASSUME AdmissionInit PROVE AdmissionInv
  OBVIOUS
<1>1. PICK x \in Scenes : flight = [s \in x.signals |-> Nowhere]
  BY DEF AdmissionInit
<1>2. Signals = x.signals /\ Signals \subseteq AllSignals
  BY <1>1 DEF Signals, AllSignals
<1>3. FirstRules \in RuleTables
  BY RulesAssumption
<1>4. QueueTypes
  <2>1. run \in Runs
    BY <1>3 DEF AdmissionInit, Runs, RuleTables, Providers
  <2>2. flight \in [Signals -> Places]
    BY <1>1, <1>2 DEF Places, Nowhere
  <2>3. QED
    BY <2>1, <2>2, <1>2 DEF QueueTypes, AdmissionInit
<1>5. WatchTypes /\ CapTypes
  BY DEF AdmissionInit, WatchTypes, CapTypes, Watches, NoWatch, NoSignal, Ctxs, NoCtx, Orders, CapsSeen, Checks, NoCheck
<1>6. Watched = {}
  BY DEF AdmissionInit, Watched, NoWatch, Active
<1>7. QED
  BY <1>4, <1>5, <1>6, FS_EmptySet, AdmissionAssumption
  DEF AdmissionInit, AdmissionInv, CtxIsWatched, Fits, HeldIsWatched, CapsAreHeard

(* The least of a set of natural numbers that is not empty.                     *)
LEMMA LeastOf == ASSUME NEW S \in SUBSET Nat, S # {} PROVE \E x \in S : \A y \in S : x <= y
<1> DEFINE R == {ss \in Nat \X Nat : ss[1] < ss[2]}
<1>1. IsWellFoundedOn(R, Nat)
  BY NatLessThanWellFounded DEF OpToRel
<1>2. PICK x \in S : \A y \in S : ~ (<<y, x>> \in R)
  BY <1>1, WFMin
<1>3. ASSUME NEW y \in S PROVE x <= y
  <2>1. PICK p : p = <<y, x>>
    OBVIOUS
  <2>2. p \in Nat \X Nat /\ p[1] = y /\ p[2] = x
    BY <2>1
  <2>3. ~(p[1] < p[2])
    BY <2>1, <2>2, <1>2
  <2>4. QED
    BY <2>2, <2>3
<1>4. QED
  BY <1>3

LEMMA LeastExists == ASSUME NEW S \in SUBSET Nat, S # {} PROVE Min(S) \in S
BY LeastOf DEF Min

LEMMA ExitTyped == ASSUME NEW rules \in RuleTables, NEW m \in SUBSET Providers, m # {} PROVE EffectiveExit(rules, m) \in Nat
<1>1. {rules[p].exit : p \in m} \in SUBSET Nat /\ {rules[p].exit : p \in m} # {}
  BY DEF RuleTables
<1>2. QED
  BY <1>1, LeastExists DEF EffectiveExit

(* A step that leaves alone what is watched, held and ordered and the caps.     *)
LEMMA QueueStep ==
  ASSUME AdmissionInv, UNCHANGED <<watch, orders, held, ctx, latest, check, heard>>, QueueTypes'
  PROVE  AdmissionInv'
BY DEF AdmissionInv, WatchTypes, CapTypes, CtxIsWatched, Watched, Fits, HeldIsWatched, CapsAreHeard, Newest

LEMMA APISteps == ASSUME AdmissionInv, StartRun \/ PauseRun \/ StopRun \/ SetRules PROVE AdmissionInv'
<1>1. UNCHANGED <<flight, job, watch, orders, held, ctx, latest, check, heard>>
  BY DEF StartRun, PauseRun, StopRun, SetRules, API
<1>2. run' \in Runs
  <2>1. run \in Runs
    BY DEF AdmissionInv, QueueTypes
  <2>2. CASE StartRun \/ PauseRun \/ StopRun
    BY <2>1, <2>2 DEF StartRun, PauseRun, StopRun, Runs
  <2>3. CASE SetRules
    <3>1. PICK rs \in RuleSets, at \in Times :
            run' = [run EXCEPT !.rules = rs,
              !.activated = [p \in DOMAIN rs |-> IF rs[p].enabled /\ ~run.rules[p].enabled THEN at ELSE @[p]]]
      BY <2>3 DEF SetRules
    <3>2. rs \in RuleTables /\ at \in Nat
      BY RulesAssumption, AdmissionAssumption
    <3>3. DOMAIN rs = Providers /\ run.activated \in [Providers -> Nat]
      BY <3>2, <2>1 DEF RuleTables, Runs
    <3>4. PICK a : a = [p \in DOMAIN rs |-> IF rs[p].enabled /\ ~run.rules[p].enabled THEN at ELSE run.activated[p]]
      OBVIOUS
    <3>5. a \in [Providers -> Nat]
      BY <3>2, <3>3, <3>4
    <3>6. run' = [run EXCEPT !.rules = rs, !.activated = a]
      BY <3>1, <3>4
    <3>7. QED
      BY <2>1, <3>2, <3>5, <3>6 DEF Runs
  <2>4. QED
    BY <2>2, <2>3
<1>3. QueueTypes'
  BY <1>1, <1>2 DEF AdmissionInv, QueueTypes, Signals
<1>4. QED
  BY <1>1, <1>3, QueueStep

LEMMA DeliverStep == ASSUME AdmissionInv, NEW s \in Signals, Deliver(s) \/ Begin(s) PROVE AdmissionInv'
<1>1. UNCHANGED <<run, watch, orders, held, ctx, latest, check, heard>>
  BY DEF Deliver, Begin
<1>2. QueueTypes'
  BY DEF Deliver, Begin, Move, AdmissionInv, QueueTypes, Signals, Places, Nowhere
<1>3. QED
  BY <1>1, <1>2, QueueStep

LEMMA FailStep == ASSUME AdmissionInv, AdmitFails PROVE AdmissionInv'
<1>1. UNCHANGED <<run, watch, orders, held, ctx, latest, check, heard>>
  BY DEF AdmitFails
<1>2. QueueTypes'
  BY DEF AdmitFails, AdmissionInv, QueueTypes, Signals, Places, Nowhere
<1>3. QED
  BY <1>1, <1>2, QueueStep

(* The answer to a lookup is the newest cap of a token that has no context; of  *)
(* one that has, it only decides on the admission.                              *)
LEMMA LookedUpStep == ASSUME AdmissionInv, NEW s \in Signals, LookedUp(s) PROVE AdmissionInv'
<1>1. UNCHANGED <<run, watch, orders, held, ctx, latest, job, check>>
  BY DEF LookedUp
<1>2. s.ca \in CAs
  BY DEF AdmissionInv, QueueTypes, CAs
<1>3. CASE heard' = heard /\ Move(s, Nowhere)
  <2>1. QueueTypes'
    BY <1>1, <1>3 DEF Move, AdmissionInv, QueueTypes, Signals, Places, Nowhere
  <2>2. QED
    BY <1>1, <1>3, <2>1, QueueStep
<1>4. ASSUME NEW cap \in Nat, latest[s.ca].recent => cap = latest[s.ca].cap,
        Move(s, [at |-> "queued", cap |-> cap]),
        heard' = IF ctx[s.ca] = NoCtx THEN [heard EXCEPT ![s.ca] = cap] ELSE heard
      PROVE AdmissionInv'
  <2>1. QueueTypes'
    BY <1>1, <1>4 DEF Move, AdmissionInv, QueueTypes, Signals, Places
  <2>2. heard' \in [CAs -> Nat] /\ heard'[s.ca] \in {heard[s.ca], cap}
    BY <1>2, <1>4 DEF AdmissionInv, CapTypes
  <2>3. \A t \in CAs : t # s.ca \/ ctx[t] # NoCtx => heard'[t] = heard[t]
    BY <1>2, <1>4 DEF AdmissionInv, CapTypes
  <2>4. CapsAreHeard'
    BY <1>1, <1>2, <1>4, <2>2, <2>3 DEF AdmissionInv, CapsAreHeard, Newest
  <2>5. QED
    BY <1>1, <2>1, <2>2, <2>4 DEF AdmissionInv, WatchTypes, CapTypes, CtxIsWatched, Watched, Fits, HeldIsWatched
<1>5. ASSUME NEW c \in Caps,
        LET cap == IF latest[s.ca].recent THEN latest[s.ca].cap ELSE c IN
          /\ Move(s, [at |-> "queued", cap |-> cap])
          /\ heard' = IF ctx[s.ca] = NoCtx THEN [heard EXCEPT ![s.ca] = cap] ELSE heard
      PROVE AdmissionInv'
  <2>1. PICK cap : cap = IF latest[s.ca].recent THEN latest[s.ca].cap ELSE c
    OBVIOUS
  <2>2. cap \in Nat
    BY <2>1, <1>2, AdmissionAssumption DEF AdmissionInv, CapTypes, CapsSeen
  <2>3. QED
    BY <1>4, <1>5, <2>1, <2>2
<1>6. QED
  BY <1>3, <1>5 DEF LookedUp

(* A watch is joined, or begins: there is room for it, or it has its place.     *)
LEMMA AdmitStep == ASSUME AdmissionInv, Admit PROVE AdmissionInv'
<1> PICK s : s = job
  OBVIOUS
<1> PICK t : t = s.ca
  OBVIOUS
<1>1. s \in Signals /\ s \in AllSignals /\ t \in CAs /\ s.provider \in Providers
  BY SignalsAssumption DEF Admit, AdmissionInv, QueueTypes, CAs
<1>2. UNCHANGED <<run, orders, ctx, latest, check, heard>>
  BY DEF Admit
<1>3. QueueTypes'
  <2>1. job' \in {NoSignal, Refreshing} /\ flight' = [flight EXCEPT ![s] = Nowhere]
    BY DEF Admit, Move
  <2>2. QED
    BY <1>2, <2>1 DEF AdmissionInv, QueueTypes, Signals, Places, Nowhere
<1>4. CapTypes' /\ CapsAreHeard'
  BY <1>2 DEF AdmissionInv, CapTypes, CapsAreHeard, Newest
<1>5. run.rules \in RuleTables /\ watch[t] \in Watches
  BY <1>1 DEF AdmissionInv, QueueTypes, Runs, WatchTypes
<1>6. CASE UNCHANGED <<watch, held>>
  BY <1>2, <1>3, <1>4, <1>6 DEF AdmissionInv, WatchTypes, CtxIsWatched, Watched, Fits, HeldIsWatched
<1>7. ASSUME NEW w \in Watches, watch' = [watch EXCEPT ![t] = w], w.status \in Active, w.matched # {},
        \/ held' = held /\ t \in Watched
        \/ held' = held \ {t} /\ Cardinality(Watched) < Limit
      PROVE AdmissionInv'
  <2>1. WatchTypes'
    BY <1>1, <1>2, <1>7 DEF AdmissionInv, WatchTypes
  <2>2. watch'[t] = w /\ \A u \in CAs : u # t => watch'[u] = watch[u]
    BY <1>1, <1>7 DEF AdmissionInv, WatchTypes
  <2>3. Watched' = Watched \cup {t}
    BY <1>1, <1>7, <2>2 DEF Watched
  <2>4. CtxIsWatched'
    BY <1>2, <1>7, <2>2, <2>3 DEF AdmissionInv, CtxIsWatched, Watched
  <2>5. HeldIsWatched'
    BY <1>2, <1>7, <2>3 DEF AdmissionInv, HeldIsWatched
  <2>6. Fits'
    <3>1. IsFiniteSet(Watched) /\ Cardinality(Watched) \in Nat /\ Cardinality(Watched) <= Limit /\ Limit \in Nat
      BY FS_CardinalityType, AdmissionAssumption DEF AdmissionInv, Fits
    <3>2. /\ IsFiniteSet(Watched \cup {t})
          /\ Cardinality(Watched \cup {t}) = IF t \in Watched THEN Cardinality(Watched) ELSE Cardinality(Watched) + 1
      BY <3>1, FS_AddElement
    <3>3. Cardinality(Watched \cup {t}) <= Limit
      BY <1>7, <3>1, <3>2
    <3>4. QED
      BY <2>3, <3>2, <3>3 DEF Fits
  <2>7. QED
    BY <1>3, <1>4, <2>1, <2>4, <2>5, <2>6 DEF AdmissionInv
<1>8. CASE watch[t].status \in Active /\ watch' = [watch EXCEPT ![t] = Joined(@, s)] /\ held' = held
  <2>1. PICK m : m = watch[t].matched \cup {s.provider}
    OBVIOUS
  <2>2. m \in SUBSET Providers /\ m # {}
    BY <1>1, <1>5, <2>1 DEF Watches
  <2>3. PICK e \in Nat : e = EffectiveExit(run.rules, m)
    BY <1>5, <2>2, ExitTyped
  <2>4. PICK w : w = [watch[t] EXCEPT !.matched = m, !.exit = e]
    OBVIOUS
  <2>5. w \in Watches /\ w.status = watch[t].status /\ w.matched = m
    BY <1>5, <2>2, <2>4 DEF Watches
  <2>6. watch' = [watch EXCEPT ![t] = w]
    BY <1>1, <1>8, <2>1, <2>3, <2>4 DEF Joined, AdmissionInv, WatchTypes
  <2>7. t \in Watched
    BY <1>1, <1>8 DEF Watched
  <2>8. QED
    BY <1>7, <1>8, <2>2, <2>5, <2>6, <2>7
<1>9. CASE Admits(s) /\ watch' = [watch EXCEPT ![t] = Admitted(@, s)] /\ held' = held \ {t}
  <2>1. {s.provider} \in SUBSET Providers
    BY <1>1
  <2>2. PICK e \in Nat : e = EffectiveExit(run.rules, {s.provider})
    BY <1>5, <2>1, ExitTyped
  <2>3. PICK w : w = [status |-> "monitoring", gen |-> watch[t].gen + 1, key |-> s, matched |-> {s.provider},
                      exit |-> e, exitOnly |-> FALSE]
    OBVIOUS
  <2>4. w \in Watches /\ w.status \in Active /\ w.matched # {}
    <3>1. watch[t].gen + 1 \in Nat
      BY <1>5 DEF Watches
    <3>2. QED
      BY <1>1, <2>1, <2>3, <3>1 DEF Watches, Active
  <2>5. watch' = [watch EXCEPT ![t] = w]
    BY <1>1, <1>9, <2>2, <2>3 DEF Admitted, AdmissionInv, WatchTypes
  <2>6. Cardinality(Watched) < Limit
    BY <1>9 DEF Admits, CanMonitor
  <2>7. QED
    BY <1>7, <1>9, <2>4, <2>5, <2>6
<1>10. QED
  BY <1>6, <1>8, <1>9 DEF Admit

(* Letting go of a set S of watched tokens: whatever is held or ordered stays   *)
(* watched, the others lose their watch and their context.                      *)
LEMMA LetGoEffect ==
  ASSUME NEW ws \in [CAs -> Watches], NEW cs \in [CAs -> Ctxs], NEW S \in SUBSET CAs,
         orders \in [CAs -> Orders], LetGo(ws, cs, S)
  PROVE  /\ watch' \in [CAs -> Watches] /\ ctx' \in [CAs -> Ctxs] /\ orders' \in [CAs -> Orders]
         /\ \A t \in CAs : watch'[t].matched = ws[t].matched /\ watch'[t].exit = ws[t].exit
         /\ \A t \in CAs \ S : watch'[t] = ws[t] /\ ctx'[t] = cs[t] /\ orders'[t] = orders[t]
         /\ \A t \in S : /\ orders'[t] # "none" => orders[t] # "none"
                         /\ t \in held \/ orders'[t] # "none" => watch'[t].status = "pending_eviction"
                         /\ watch'[t].status = "pending_eviction" \/ ctx'[t] = NoCtx
<1>1. PICK os : os = Kept(S)
  OBVIOUS
<1>2. os \in [CAs -> Orders] /\ (\A t \in CAs : os[t] \in {orders[t], "none"}) /\ (\A t \in CAs \ S : os[t] = orders[t])
  BY <1>1 DEF Kept, Orders
<1>3. orders' = os
  BY <1>1 DEF LetGo
<1>4. watch' = [t \in CAs |-> IF t \notin S THEN ws[t] ELSE
        [ws[t] EXCEPT !.exitOnly = TRUE, !.status = IF t \in held \/ os[t] # "none" THEN "pending_eviction" ELSE "evicted_low_mcap"]]
  BY <1>1 DEF LetGo, Retained
<1>5. ctx' = [t \in CAs |-> IF t \notin S THEN cs[t] ELSE IF t \in held \/ os[t] # "none" THEN [cs[t] EXCEPT !.exitOnly = TRUE] ELSE NoCtx]
  BY <1>1 DEF LetGo, Retained
<1>6. ctx' \in [CAs -> Ctxs]
  BY <1>5 DEF Ctxs, NoCtx
<1>7. ASSUME NEW t \in S
      PROVE  /\ watch'[t] \in Watches /\ watch'[t].matched = ws[t].matched /\ watch'[t].exit = ws[t].exit
             /\ watch'[t].status = IF t \in held \/ os[t] # "none" THEN "pending_eviction" ELSE "evicted_low_mcap"
  <2>1. PICK st \in {"pending_eviction", "evicted_low_mcap"} : st = IF t \in held \/ os[t] # "none" THEN "pending_eviction" ELSE "evicted_low_mcap"
    OBVIOUS
  <2>2. watch'[t] = [ws[t] EXCEPT !.exitOnly = TRUE, !.status = st] /\ ws[t] \in Watches
    BY <1>4, <2>1
  <2>3. QED
    BY <2>1, <2>2 DEF Watches
<1>8. \A t \in CAs \ S : watch'[t] = ws[t]
  BY <1>4
<1>9. watch' \in [CAs -> Watches]
  <2>1. \A t \in CAs : watch'[t] \in Watches
    BY <1>7, <1>8
  <2>2. watch' = [t \in CAs |-> watch'[t]]
    BY <1>4
  <2>3. QED
    BY <2>1, <2>2
<1>10. \A t \in CAs \ S : ctx'[t] = cs[t]
  BY <1>5
<1>11. \A t \in S : t \in held \/ os[t] # "none" \/ ctx'[t] = NoCtx
  BY <1>5
<1>12. QED
  BY <1>2, <1>3, <1>6, <1>7, <1>8, <1>9, <1>10, <1>11

LEMMA LetGoKeeps ==
  ASSUME AdmissionInv, NEW ws \in [CAs -> Watches], NEW cs \in [CAs -> Ctxs], NEW S \in SUBSET Watched,
         \A t \in CAs : ws[t].status = watch[t].status /\ ws[t].matched = watch[t].matched,
         \A t \in CAs : cs[t] # NoCtx => t \in Watched,
         LetGo(ws, cs, S), held' = held
  PROVE  WatchTypes' /\ CtxIsWatched' /\ Fits' /\ HeldIsWatched'
<1>1. S \in SUBSET CAs /\ orders \in [CAs -> Orders] /\ held \subseteq CAs
  BY DEF AdmissionInv, WatchTypes, Watched
<1>2. /\ watch' \in [CAs -> Watches] /\ ctx' \in [CAs -> Ctxs] /\ orders' \in [CAs -> Orders]
      /\ \A t \in CAs : watch'[t].matched = ws[t].matched /\ watch'[t].exit = ws[t].exit
      /\ \A t \in CAs \ S : watch'[t] = ws[t] /\ ctx'[t] = cs[t] /\ orders'[t] = orders[t]
      /\ \A t \in S : /\ orders'[t] # "none" => orders[t] # "none"
                      /\ t \in held \/ orders'[t] # "none" => watch'[t].status = "pending_eviction"
                      /\ watch'[t].status = "pending_eviction" \/ ctx'[t] = NoCtx
  BY <1>1, LetGoEffect
<1>3. Watched' \subseteq Watched
  BY <1>2 DEF Watched
<1>4. WatchTypes'
  BY <1>1, <1>2 DEF WatchTypes
<1>5. CtxIsWatched'
  BY <1>2, <1>3 DEF AdmissionInv, CtxIsWatched, Watched, Active
<1>6. HeldIsWatched'
  BY <1>2 DEF AdmissionInv, HeldIsWatched, Watched, Active
<1>7. Fits'
  <2>1. IsFiniteSet(Watched') /\ Cardinality(Watched') <= Cardinality(Watched)
    BY <1>3, FS_Subset DEF AdmissionInv, Fits
  <2>2. Cardinality(Watched) \in Nat /\ Cardinality(Watched') \in Nat /\ Cardinality(Watched) <= Limit /\ Limit \in Nat
    BY <2>1, FS_CardinalityType, AdmissionAssumption DEF AdmissionInv, Fits
  <2>3. QED
    BY <2>1, <2>2 DEF Fits
<1>8. QED
  BY <1>4, <1>5, <1>6, <1>7

(* A recheck that still belongs to its context after a step belonged to it      *)
(* before, and the context is there.                                            *)
LEMMA FollowedIs ==
  ASSUME NEW k \in Checks, ctx' \in [CAs -> Ctxs], k # NoCheck => k.ca \in CAs
  PROVE  /\ Followed(k) \in Checks /\ Followed(k).ca = k.ca /\ Followed(k).cap = k.cap
         /\ Followed(k).overtaken = k.overtaken
         /\ Followed(k) # NoCheck => k # NoCheck
         /\ Followed(k).same => k.same
         /\ k # NoCheck /\ Followed(k).same => ctx'[k.ca] # NoCtx
<1>1. CASE k # NoCheck /\ ctx'[k.ca] = NoCtx
  <2>1. Followed(k) = [k EXCEPT !.same = FALSE]
    BY <1>1 DEF Followed
  <2>2. QED
    BY <1>1, <2>1 DEF Checks
<1>2. CASE ~(k # NoCheck /\ ctx'[k.ca] = NoCtx)
  BY <1>2 DEF Followed
<1>3. QED
  BY <1>1, <1>2

LEMMA TickStep == ASSUME AdmissionInv, NEW t \in CAs, Tick(t) PROVE AdmissionInv'
<1>1. UNCHANGED <<run, mode, held, view, flight, job>> /\ ctx[t] # NoCtx /\ t \in Watched
  BY DEF Tick, AdmissionInv, CtxIsWatched
<1>2. PICK c \in Caps :
        /\ latest' = [latest EXCEPT ![t] = [cap |-> c, recent |-> TRUE]]
        /\ heard' = [heard EXCEPT ![t] = c]
        /\ LetGo(watch, ctx, IF c < ctx[t].exit THEN {t} ELSE {})
  BY DEF Tick
<1>3. PICK S \in SUBSET Watched : S = IF c < ctx[t].exit THEN {t} ELSE {}
  BY <1>1
<1>4. LetGo(watch, ctx, S)
  BY <1>2, <1>3
<1>5. WatchTypes' /\ CtxIsWatched' /\ Fits' /\ HeldIsWatched'
  <2>1. watch \in [CAs -> Watches] /\ ctx \in [CAs -> Ctxs] /\ \A u \in CAs : ctx[u] # NoCtx => u \in Watched
    BY DEF AdmissionInv, WatchTypes, CtxIsWatched
  <2>2. QED
    BY <1>1, <1>4, <2>1, LetGoKeeps
<1>6. QueueTypes'
  BY <1>1 DEF AdmissionInv, QueueTypes, Signals
<1>7. c \in Nat
  BY AdmissionAssumption
<1>8. latest' \in [CAs -> CapsSeen] /\ heard' \in [CAs -> Nat]
  BY <1>2, <1>7 DEF AdmissionInv, CapTypes, CapsSeen
<1>9. \A u \in CAs : latest'[u].recent => heard'[u] = latest'[u].cap
  BY <1>2 DEF AdmissionInv, CapTypes, CapsAreHeard
<1>10. PICK k : k = IF check.ca = t THEN [check EXCEPT !.overtaken = TRUE] ELSE check
  OBVIOUS
<1>11. t # "none"
  BY SignalsAssumption DEF CAs
<1>12. /\ k \in Checks /\ k.ca = check.ca /\ k.cap = check.cap /\ k.same = check.same
       /\ k.overtaken = IF check.ca = t THEN TRUE ELSE check.overtaken
       /\ check = NoCheck => k = NoCheck
       /\ check # NoCheck => k # NoCheck /\ k.ca \in CAs
  <2>1. check \in Checks /\ (check # NoCheck => check.ca \in CAs)
    BY DEF AdmissionInv, CapTypes, CapsAreHeard
  <2>2. CASE check.ca = t
    <3>1. check # NoCheck
      BY <1>11, <2>2 DEF NoCheck
    <3>2. k = [check EXCEPT !.overtaken = TRUE]
      BY <1>10, <2>2
    <3>3. k \in Checks /\ k.ca = check.ca /\ k.cap = check.cap /\ k.same = check.same /\ k.overtaken = TRUE
      BY <2>1, <3>2 DEF Checks
    <3>4. k # NoCheck
      BY <1>11, <2>2, <3>3 DEF NoCheck
    <3>5. QED
      BY <2>1, <2>2, <3>1, <3>3, <3>4
  <2>3. CASE check.ca # t
    BY <1>10, <2>1, <2>3 DEF Checks
  <2>4. QED
    BY <2>2, <2>3
<1>13. check' = Followed(k)
  BY <1>10 DEF Tick
<1>14. /\ check' \in Checks /\ check'.ca = check.ca /\ check'.cap = check.cap
       /\ check'.overtaken = IF check.ca = t THEN TRUE ELSE check.overtaken
       /\ check' # NoCheck => check # NoCheck
       /\ check'.same => check.same
       /\ check # NoCheck /\ check'.same => ctx'[check.ca] # NoCtx
  <2>1. ctx' \in [CAs -> Ctxs] /\ (k # NoCheck => k.ca \in CAs)
    BY <1>5, <1>12 DEF WatchTypes
  <2>2. QED
    BY <1>12, <1>13, <2>1, FollowedIs
<1>15. CapsAreHeard'
  <2>1. check' # NoCheck => check'.ca \in CAs
    BY <1>14 DEF AdmissionInv, CapsAreHeard
  <2>2. ASSUME check' # NoCheck, check'.same PROVE ctx'[check'.ca] # NoCtx /\ heard'[check'.ca] = Newest(check)'
    <3>1. check # NoCheck /\ check.same /\ heard[check.ca] = Newest(check) /\ check.ca \in CAs
      BY <1>14, <2>2 DEF AdmissionInv, CapsAreHeard
    <3>2. CASE check.ca = t
      BY <1>2, <1>14, <2>2, <3>1, <3>2 DEF Newest, AdmissionInv, CapTypes
    <3>3. CASE check.ca # t
      BY <1>2, <1>14, <2>2, <3>1, <3>3 DEF Newest, AdmissionInv, CapTypes
    <3>4. QED
      BY <3>2, <3>3
  <2>3. QED
    BY <1>9, <2>1, <2>2 DEF CapsAreHeard, Newest
<1>16. QED
  BY <1>5, <1>6, <1>8, <1>14, <1>15 DEF AdmissionInv, CapTypes

LEMMA CapAgesStep == ASSUME AdmissionInv, NEW t \in CAs, CapAges(t) PROVE AdmissionInv'
<1>1. UNCHANGED <<run, watch, orders, held, ctx, flight, job, check, heard>> /\ latest' = [latest EXCEPT ![t].recent = FALSE]
  BY DEF CapAges
<1>2. QueueTypes' /\ WatchTypes' /\ CtxIsWatched' /\ Fits' /\ HeldIsWatched'
  BY <1>1 DEF AdmissionInv, QueueTypes, Signals, WatchTypes, CtxIsWatched, Watched, Fits, HeldIsWatched
<1>3. /\ latest' \in [CAs -> CapsSeen]
      /\ \A u \in CAs : latest'[u].cap = latest[u].cap /\ (latest'[u].recent => latest[u].recent)
  BY <1>1 DEF AdmissionInv, CapTypes, CapsSeen
<1>4. CapTypes' /\ CapsAreHeard'
  BY <1>1, <1>3 DEF AdmissionInv, CapTypes, CapsAreHeard, Newest
<1>5. QED
  BY <1>2, <1>4 DEF AdmissionInv

LEMMA StartCheckStep == ASSUME AdmissionInv, NEW t \in CAs, StartCheck(t) PROVE AdmissionInv'
<1>1. UNCHANGED <<run, watch, orders, held, ctx, latest, flight, job>> /\ ctx[t] # NoCtx
  BY DEF StartCheck
<1>2. PICK c \in Caps : LET cap == IF latest[t].recent THEN latest[t].cap ELSE c IN
        /\ check' = [ca |-> t, cap |-> cap, overtaken |-> FALSE, same |-> TRUE]
        /\ heard' = [heard EXCEPT ![t] = cap]
  BY DEF StartCheck
<1>3. PICK cap : cap = IF latest[t].recent THEN latest[t].cap ELSE c
  OBVIOUS
<1>4. cap \in Nat /\ (latest[t].recent => cap = latest[t].cap)
  BY <1>3, AdmissionAssumption DEF AdmissionInv, CapTypes, CapsSeen
<1>5. check' = [ca |-> t, cap |-> cap, overtaken |-> FALSE, same |-> TRUE] /\ heard' = [heard EXCEPT ![t] = cap]
  BY <1>2, <1>3
<1>6. QueueTypes' /\ WatchTypes' /\ CtxIsWatched' /\ Fits' /\ HeldIsWatched'
  BY <1>1 DEF AdmissionInv, QueueTypes, Signals, WatchTypes, CtxIsWatched, Watched, Fits, HeldIsWatched
<1>7. CapTypes'
  BY <1>1, <1>4, <1>5 DEF AdmissionInv, CapTypes, Checks
<1>8. CapsAreHeard'
  BY <1>1, <1>4, <1>5 DEF AdmissionInv, CapTypes, CapsAreHeard, Newest
<1>9. QED
  BY <1>6, <1>7, <1>8 DEF AdmissionInv

LEMMA ApplyCheckStep == ASSUME AdmissionInv, ApplyCheck PROVE AdmissionInv'
<1>1. UNCHANGED <<run, held, latest, flight, job, heard>> /\ check # NoCheck /\ check' = NoCheck
  BY DEF ApplyCheck
<1>2. PICK S : S = IF Current(check) /\ Newest(check) < ctx[check.ca].exit THEN {check.ca} ELSE {}
  OBVIOUS
<1>3. S \in SUBSET Watched
  BY <1>1, <1>2 DEF AdmissionInv, CapsAreHeard, CtxIsWatched, Current
<1>4. LetGo(watch, ctx, S)
  BY <1>2 DEF ApplyCheck
<1>5. WatchTypes' /\ CtxIsWatched' /\ Fits' /\ HeldIsWatched'
  <2>1. watch \in [CAs -> Watches] /\ ctx \in [CAs -> Ctxs] /\ \A u \in CAs : ctx[u] # NoCtx => u \in Watched
    BY DEF AdmissionInv, WatchTypes, CtxIsWatched
  <2>2. QED
    BY <1>1, <1>3, <1>4, <2>1, LetGoKeeps
<1>6. QueueTypes' /\ CapTypes' /\ CapsAreHeard'
  BY <1>1 DEF AdmissionInv, QueueTypes, Signals, CapTypes, CapsAreHeard, Checks, NoCheck
<1>7. QED
  BY <1>5, <1>6 DEF AdmissionInv

(* What a refresh makes of the rows and the contexts.                           *)
NewExits ==
  [t \in CAs |-> IF run.status = "running" /\ t \in Watched THEN EffectiveExit(run.rules, watch[t].matched) ELSE watch[t].exit]
NewRows == [t \in CAs |-> [watch[t] EXCEPT !.exit = NewExits[t]]]
NewCtxs ==
  [t \in CAs |-> IF run.status = "running" /\ t \in Watched THEN [exit |-> NewExits[t], exitOnly |-> watch[t].exitOnly] ELSE NoCtx]
LowNow == {t \in Watched : run.status = "running" /\ NewExits[t] # watch[t].exit /\ latest[t].recent /\ latest[t].cap < NewExits[t]}
SettledNow == {t \in Watched : run.status = "running" /\ watch[t].exitOnly /\ ~Retained(t, orders)}

LEMMA RefreshEffect ==
  ASSUME AdmissionInv, Refresh
  PROVE  /\ LetGo(NewRows, NewCtxs, LowNow \cup SettledNow) /\ LowNow \cup SettledNow \in SUBSET Watched
         /\ NewRows \in [CAs -> Watches] /\ NewCtxs \in [CAs -> Ctxs]
         /\ \A t \in CAs : /\ NewRows[t].status = watch[t].status /\ NewRows[t].matched = watch[t].matched
                           /\ NewRows[t].exitOnly = watch[t].exitOnly /\ NewRows[t].exit = NewExits[t]
                           /\ NewCtxs[t] # NoCtx => t \in Watched
         /\ UNCHANGED <<run, held, latest, flight, heard>>
         /\ job' = NoSignal /\ check' = Followed(check)
<1>1. LetGo(NewRows, NewCtxs, LowNow \cup SettledNow)
  BY DEF Refresh, NewExits, NewRows, NewCtxs, LowNow, SettledNow
<1>2. LowNow \cup SettledNow \in SUBSET Watched
  BY DEF LowNow, SettledNow
<1>3. \A t \in CAs : NewExits[t] \in Nat
  <2>1. SUFFICES ASSUME NEW t \in CAs PROVE NewExits[t] \in Nat
    OBVIOUS
  <2>2. run.rules \in RuleTables /\ watch[t] \in Watches
    BY DEF AdmissionInv, QueueTypes, Runs, WatchTypes
  <2>3. t \in Watched => EffectiveExit(run.rules, watch[t].matched) \in Nat
    <3>1. watch[t].matched \in SUBSET Providers
      BY <2>2 DEF Watches
    <3>2. t \in Watched => watch[t].matched # {}
      BY DEF AdmissionInv, CtxIsWatched
    <3>3. QED
      BY <2>2, <3>1, <3>2, ExitTyped
  <2>4. watch[t].exit \in Nat
    BY <2>2 DEF Watches
  <2>5. QED
    BY <2>3, <2>4 DEF NewExits
<1>4. /\ NewRows \in [CAs -> Watches]
      /\ \A t \in CAs : /\ NewRows[t].status = watch[t].status /\ NewRows[t].matched = watch[t].matched
                        /\ NewRows[t].exitOnly = watch[t].exitOnly /\ NewRows[t].exit = NewExits[t]
  BY <1>3 DEF AdmissionInv, WatchTypes, NewRows, Watches
<1>5. NewCtxs \in [CAs -> Ctxs] /\ \A t \in CAs : NewCtxs[t] # NoCtx => t \in Watched
  BY <1>3 DEF AdmissionInv, WatchTypes, Watches, NewCtxs, Ctxs, NoCtx
<1>6. UNCHANGED <<run, held, latest, flight, heard>> /\ job' = NoSignal /\ check' = Followed(check)
  BY DEF Refresh
<1>7. QED
  BY <1>1, <1>2, <1>4, <1>5, <1>6

LEMMA RefreshStep == ASSUME AdmissionInv, Refresh PROVE AdmissionInv'
<1>1. UNCHANGED <<run, held, latest, flight, heard>> /\ job' = NoSignal /\ check' = Followed(check)
  BY RefreshEffect
<1>2. WatchTypes' /\ CtxIsWatched' /\ Fits' /\ HeldIsWatched'
  <2>1. PICK ws : ws = NewRows
    OBVIOUS
  <2>2. PICK cs : cs = NewCtxs
    OBVIOUS
  <2>3. PICK S : S = LowNow \cup SettledNow
    OBVIOUS
  <2>4. ws \in [CAs -> Watches] /\ cs \in [CAs -> Ctxs] /\ S \in SUBSET Watched /\ LetGo(ws, cs, S)
    BY <2>1, <2>2, <2>3, RefreshEffect
  <2>5. /\ \A t \in CAs : ws[t].status = watch[t].status /\ ws[t].matched = watch[t].matched
        /\ \A t \in CAs : cs[t] # NoCtx => t \in Watched
    BY <2>1, <2>2, RefreshEffect
  <2>6. QED
    BY <1>1, <2>4, <2>5, LetGoKeeps
<1>3. QueueTypes'
  BY <1>1 DEF AdmissionInv, QueueTypes, Signals
<1>4. /\ check' \in Checks /\ check'.ca = check.ca /\ check'.cap = check.cap /\ check'.overtaken = check.overtaken
      /\ check' # NoCheck => check # NoCheck
      /\ check'.same => check.same
      /\ check # NoCheck /\ check'.same => ctx'[check.ca] # NoCtx
  <2>1. check \in Checks /\ (check # NoCheck => check.ca \in CAs) /\ ctx' \in [CAs -> Ctxs]
    BY <1>2 DEF AdmissionInv, CapTypes, CapsAreHeard, WatchTypes
  <2>2. QED
    BY <1>1, <2>1, FollowedIs
<1>5. CapTypes' /\ CapsAreHeard'
  BY <1>1, <1>4 DEF AdmissionInv, CapTypes, CapsAreHeard, Newest
<1>6. QED
  BY <1>2, <1>3, <1>5 DEF AdmissionInv

(* The strategy buys and sells only what has a context, hence what is watched.  *)
LEMMA TradeSteps ==
  ASSUME AdmissionInv, NEW t \in CAs, Buy(t) \/ Sell(t) \/ Filled(t) \/ Sold(t) \/ Unfilled(t)
  PROVE  AdmissionInv'
<1>1. PICK o2 \in Orders, gain \in {{}, {t}}, loss \in {{}, {t}} : TradeStep(t, orders[t], o2, gain, loss)
  BY DEF Buy, Sell, Filled, Sold, Unfilled, TradeStep, Orders
<1>2. t \in Watched
  BY <1>1 DEF TradeStep, AdmissionInv, CtxIsWatched
<1>3. UNCHANGED <<run, watch, ctx, latest, flight, job, check, heard>>
  BY <1>1 DEF TradeStep
<1>4. orders' = [orders EXCEPT ![t] = o2] /\ held' = (held \cup gain) \ loss
  BY <1>1 DEF TradeStep
<1>5. WatchTypes'
  BY <1>3, <1>4 DEF AdmissionInv, WatchTypes
<1>6. HeldIsWatched'
  BY <1>2, <1>3, <1>4 DEF AdmissionInv, WatchTypes, HeldIsWatched, Watched
<1>7. QED
  BY <1>3, <1>5, <1>6 DEF AdmissionInv, QueueTypes, Signals, CapTypes, CtxIsWatched, Watched, Fits, CapsAreHeard, Newest

LEMMA RestartStep == ASSUME AdmissionInv, RestartWorker PROVE AdmissionInv'
<1>1. UNCHANGED <<run, watch, orders, held, heard>> /\ job' = NoSignal /\ check' = NoCheck
  BY DEF RestartWorker
<1>2. /\ ctx' = [t \in CAs |-> NoCtx] /\ latest' = [t \in CAs |-> [cap |-> 0, recent |-> FALSE]]
      /\ flight' = [s \in Signals |-> Nowhere]
  BY DEF RestartWorker
<1>3. QueueTypes'
  BY <1>1, <1>2 DEF AdmissionInv, QueueTypes, Signals, Places, Nowhere
<1>4. WatchTypes' /\ CapTypes'
  BY <1>1, <1>2 DEF AdmissionInv, WatchTypes, CapTypes, Ctxs, NoCtx, CapsSeen, Checks, NoCheck
<1>5. CtxIsWatched' /\ Fits' /\ HeldIsWatched' /\ CapsAreHeard'
  BY <1>1, <1>2 DEF AdmissionInv, CtxIsWatched, Watched, Fits, HeldIsWatched, CapsAreHeard
<1>6. QED
  BY <1>3, <1>4, <1>5 DEF AdmissionInv

LEMMA AdmissionInvStep == AdmissionInv /\ [AdmissionNext]_avars => AdmissionInv'
<1> SUFFICES ASSUME AdmissionInv, [AdmissionNext]_avars PROVE AdmissionInv'
  OBVIOUS
<1>1. CASE UNCHANGED avars
  BY <1>1, QueueStep DEF avars, AdmissionInv, QueueTypes, Signals
<1>2. CASE StartRun \/ PauseRun \/ StopRun \/ SetRules
  BY <1>2, APISteps
<1>3. CASE Admit \/ AdmitFails \/ ApplyCheck \/ Refresh \/ RestartWorker
  BY <1>3, AdmitStep, FailStep, ApplyCheckStep, RefreshStep, RestartStep
<1>4. ASSUME NEW s \in Signals, Deliver(s) \/ LookedUp(s) \/ Begin(s) PROVE AdmissionInv'
  BY <1>4, DeliverStep, LookedUpStep
<1>5. ASSUME NEW t \in CAs, Tick(t) \/ CapAges(t) \/ StartCheck(t) PROVE AdmissionInv'
  BY <1>5, TickStep, CapAgesStep, StartCheckStep
<1>6. ASSUME NEW t \in CAs, Buy(t) \/ Sell(t) \/ Filled(t) \/ Sold(t) \/ Unfilled(t) PROVE AdmissionInv'
  BY <1>6, TradeSteps
<1>7. QED
  BY <1>1, <1>2, <1>3, <1>4, <1>5, <1>6 DEF AdmissionNext

\* The inductive invariant of the admission holds: contexts belong to active
\* watches, and the caps the worker keeps are the newest it has heard.
THEOREM AdmissionInductive == AdmissionSpec => []AdmissionInv
<1>1. QED
  BY AdmissionInvInit, AdmissionInvStep, PTL DEF AdmissionSpec

\* However many signals, lookups, rechecks and restarts come together, a run
\* never watches more tokens than its limit (canMonitor under the run's row lock).
THEOREM CapacityAlwaysHeld == AdmissionSpec => []CapacityHeld
<1>1. AdmissionInv => CapacityHeld
  <2> SUFFICES ASSUME AdmissionInv PROVE CapacityHeld
    OBVIOUS
  <2> DEFINE Held == {t \in CAs : watch[t].status \notin {"none", "evicted_low_mcap"}}
  <2>2. \A t \in CAs : watch[t].status \in {"none", "monitoring", "pending_eviction", "evicted_low_mcap"}
    BY DEF AdmissionInv, WatchTypes, Watches
  <2>3. Held = Watched
    BY <2>2 DEF Watched, Active
  <2> HIDE DEF Held
  <2>4. Cardinality(Held) <= Limit
    BY <2>3 DEF AdmissionInv, Fits
  <2>5. QED
    BY <2>4 DEF CapacityHeld, Held
<1>2. QED
  BY <1>1, AdmissionInductive, PTL

\* A token with a position or an outstanding order stays watched until both are
\* settled, whatever its cap does and whenever its context comes and goes
\* (evictOrRetain).
THEOREM HeldStaysWatched == AdmissionSpec => []HeldIsWatched
<1>1. AdmissionInv => HeldIsWatched
  BY DEF AdmissionInv
<1>2. QED
  BY <1>1, AdmissionInductive, PTL

LEMMA LowOrKept ==
  ASSUME AdmissionInv, [AdmissionNext]_avars, NEW t \in CAs, watch'[t].exitOnly, ~watch[t].exitOnly
  PROVE  heard'[t] < Later(ctx[t].exit, watch'[t].exit)
<1>1. watch \in [CAs -> Watches] /\ ctx \in [CAs -> Ctxs] /\ orders \in [CAs -> Orders] /\ ctx[t].exit \in Nat
  BY DEF AdmissionInv, WatchTypes, Ctxs
<1>2. AdmissionInv' /\ watch'[t].exit \in Nat /\ heard'[t] \in Nat
  BY AdmissionInvStep DEF AdmissionInv, WatchTypes, Watches, CapTypes
<1>3. heard'[t] < ctx[t].exit => heard'[t] < Later(ctx[t].exit, watch'[t].exit)
  BY <1>1, <1>2 DEF Later
<1>4. heard'[t] < watch'[t].exit => heard'[t] < Later(ctx[t].exit, watch'[t].exit)
  BY <1>1, <1>2 DEF Later
<1>5. ASSUME NEW S \in SUBSET Watched, LetGo(watch, ctx, S) PROVE t \in S
  <2>1. S \in SUBSET CAs
    BY DEF Watched
  <2>2. \A u \in CAs \ S : watch'[u] = watch[u]
    BY <1>1, <1>5, <2>1, LetGoEffect
  <2>3. QED
    BY <2>2
<1>6. CASE Admit
  <2>1. \/ watch' = watch
        \/ watch' = [watch EXCEPT ![job.ca] = Joined(@, job)]
        \/ watch' = [watch EXCEPT ![job.ca] = Admitted(@, job)]
    BY <1>6 DEF Admit
  <2>2. watch'[t].exitOnly \in {watch[t].exitOnly, FALSE}
    <3>1. watch[t] \in Watches
      BY <1>1
    <3>2. Joined(watch[t], job).exitOnly = watch[t].exitOnly
      BY <3>1 DEF Joined, Watches
    <3>3. Admitted(watch[t], job).exitOnly = FALSE
      BY DEF Admitted
    <3>4. QED
      BY <1>1, <2>1, <3>2, <3>3
  <2>3. QED
    BY <2>2
<1>7. CASE ApplyCheck
  <2>1. PICK S : S = IF Current(check) /\ Newest(check) < ctx[check.ca].exit THEN {check.ca} ELSE {}
    OBVIOUS
  <2>2. LetGo(watch, ctx, S) /\ heard' = heard /\ check # NoCheck
    BY <1>7, <2>1 DEF ApplyCheck
  <2>3. S \in SUBSET Watched
    BY <2>1, <2>2 DEF AdmissionInv, CapsAreHeard, CtxIsWatched, Current
  <2>4. t \in S
    BY <1>5, <2>2, <2>3
  <2>5. QED
    BY <1>3, <2>1, <2>2, <2>4 DEF AdmissionInv, CapsAreHeard, Current
<1>8. ASSUME NEW u \in CAs, Tick(u) PROVE heard'[t] < ctx[t].exit
  <2>1. PICK c \in Caps : heard' = [heard EXCEPT ![u] = c] /\ LetGo(watch, ctx, IF c < ctx[u].exit THEN {u} ELSE {})
    BY <1>8 DEF Tick
  <2>2. PICK S : S = IF c < ctx[u].exit THEN {u} ELSE {}
    OBVIOUS
  <2>3. S \in SUBSET Watched
    BY <1>8, <2>2 DEF Tick, AdmissionInv, CtxIsWatched
  <2>4. t \in S
    BY <1>5, <2>1, <2>2, <2>3
  <2>5. QED
    BY <2>1, <2>2, <2>4 DEF AdmissionInv, CapTypes
<1>9. CASE Refresh
  <2>1. PICK ws : ws = NewRows
    OBVIOUS
  <2>2. PICK cs : cs = NewCtxs
    OBVIOUS
  <2>3. PICK S : S = LowNow \cup SettledNow
    OBVIOUS
  <2>4. /\ LetGo(ws, cs, S) /\ S \in SUBSET Watched /\ ws \in [CAs -> Watches] /\ cs \in [CAs -> Ctxs]
        /\ ws[t].exitOnly = watch[t].exitOnly /\ ws[t].exit = NewExits[t]
        /\ heard' = heard
    BY <1>9, <2>1, <2>2, <2>3, RefreshEffect
  <2>5. /\ watch'[t].exit = ws[t].exit
        /\ t \notin S => watch'[t] = ws[t]
    <3>1. S \in SUBSET CAs
      BY <2>4 DEF Watched
    <3>2. QED
      BY <1>1, <2>4, <3>1, LetGoEffect
  <2>6. t \in LowNow
    BY <2>3, <2>4, <2>5 DEF SettledNow
  <2>7. heard[t] < NewExits[t]
    BY <2>6 DEF LowNow, AdmissionInv, CapsAreHeard
  <2>8. QED
    BY <1>4, <2>4, <2>5, <2>7
<1>10. watch' # watch
  OBVIOUS
<1>11. QED
  BY <1>3, <1>6, <1>7, <1>8, <1>9, <1>10
  DEF AdmissionNext, avars, StartRun, PauseRun, StopRun, SetRules, API, AdmitFails, RestartWorker, Deliver, LookedUp, Begin,
      CapAges, StartCheck, Buy, Sell, Filled, Sold, Unfilled, TradeStep

\* A token is let go only if the newest cap heard of it is under its threshold:
\* neither the answer to a lookup that a trade has overtaken nor a recheck that
\* was started for an earlier watch does it (recheckMarketCaps, onTrade, refresh).
THEOREM EvictedOnlyOnLowCap == AdmissionSpec => EvictedOnLowCap
<1>1. AdmissionInv /\ [AdmissionNext]_avars =>
        [\A t \in CAs : watch'[t].exitOnly /\ ~watch[t].exitOnly => heard'[t] < Later(ctx[t].exit, watch'[t].exit)]_avars
  BY LowOrKept
<1>2. QED
  BY <1>1, AdmissionInductive, PTL DEF AdmissionSpec, EvictedOnLowCap

(* ------------------------------- Discovery -------------------------------- *)

DiscoverySpec == DiscoveryInit /\ [][DiscoveryNext]_dvars

Buys == {i \in DOMAIN ledger : IsBuy(i)}
Posted == {i \in DOMAIN inbox : inbox[i] # "absent"}
Cursors == [since : Nat, head : Nat, before : Nat, target : Nat, pending : SUBSET Int, finished : BOOLEAN]
Scanning == {"rest", "saveFirst", "page", "savePage", "fetch", "saveItem", "saveHead"}

(* A cursor c is sound when n transactions have happened, B are the buys among  *)
(* them and P are in the inbox: a finished walk has gone down to the head or to *)
(* the start, and what c has behind it is in the inbox.                         *)
Passed(c, n, B) ==
  {i \in 1..n : i > c.since /\ i \in B
     /\ (i <= c.head \/ (c.target # 0 /\ c.before <= i /\ i <= c.target /\ i \notin c.pending))}
Sound(c, n, B, P) ==
  /\ c \in Cursors /\ c.head <= n /\ c.target <= n
  /\ c.target = 0 => c.before = 0
  /\ c.finished => \A i \in 1..c.target : i > c.since /\ i > c.head => i >= c.before
  /\ Passed(c, n, B) \subseteq P

ScanTypes ==
  /\ top \in Nat /\ 1..top \subseteq DOMAIN ledger
  /\ inbox \in [DOMAIN ledger -> {"absent", "waiting", "processed"}]
  /\ scan \in [pc : Scanning, c : Cursors \cup {NoCursor}, left : Nat]
(* Every cursor there is, saved, in a scan, or on its late way, is sound, so it *)
(* does not matter which one is written last.                                   *)
CursorsSound ==
  /\ cursor # NoCursor => Sound(cursor, top, Buys, Posted)
  /\ scan.pc # "rest" => Sound(scan.c, top, Buys, Posted)
  /\ \A c \in late : Sound(c, top, Buys, Posted)
DiscoveryInv == ScanTypes /\ CursorsSound /\ (scan.pc \in {"saveFirst", "page"} => scan.c.pending = {})

LEMMA DiscoveryInvInit == DiscoveryInit => DiscoveryInv
<1> SUFFICES ASSUME DiscoveryInit PROVE DiscoveryInv
  OBVIOUS
<1>1. ScanTypes
  BY DEF DiscoveryInit, ScanTypes, NoScan, Scanning
<1>2. CursorsSound
  BY DEF DiscoveryInit, CursorsSound, NoScan
<1>3. QED
  BY <1>1, <1>2 DEF DiscoveryInit, DiscoveryInv, NoScan

(* The ledger only grows and the inbox only fills: a sound cursor stays sound.  *)
LEMMA SoundStays ==
  ASSUME NEW n \in Nat, NEW m \in Nat, n <= m, NEW B, NEW P, NEW Q, P \subseteq Q, NEW c, Sound(c, n, B, P)
  PROVE  Sound(c, m, B, Q)
<1>1. c \in Cursors /\ c.head <= n /\ c.target <= n /\ c.head \in Nat /\ c.target \in Nat
  BY DEF Sound, Cursors
<1>2. Passed(c, m, B) \subseteq Passed(c, n, B)
  BY <1>1 DEF Passed
<1>3. c.head <= m /\ c.target <= m
  BY <1>1
<1>4. QED
  BY <1>1, <1>2, <1>3 DEF Sound

(* A page that is read makes a sound cursor of one that has nothing pending.    *)
LEMMA PagedSound ==
  ASSUME ScanTypes, NEW c, Sound(c, top, Buys, Posted), c.pending = {}
  PROVE  Sound(Paged(c), top, Buys, Posted)
<1>1. /\ c \in Cursors /\ c.since \in Nat /\ c.head \in Nat /\ c.before \in Nat /\ c.target \in Nat
      /\ c.head <= top /\ c.target <= top /\ top \in Nat
      /\ c.target = 0 => c.before = 0
      /\ Passed(c, top, Buys) \subseteq Posted
  BY DEF Sound, Cursors, ScanTypes
<1>2. PICK n \in Nat : n = NewestOf(c)
  BY <1>1 DEF NewestOf
<1>3. PICK o \in Nat : o = OldestOf(c) /\ o >= 1 /\ (n >= 1 => o <= n)
  BY <1>2, PageAssumption DEF OldestOf
<1>4. PICK pg : pg = o..n
  OBVIOUS
<1>5. Page(c) = pg /\ pg \subseteq Int /\ (pg = {} <=> n = 0)
  <2>1. n = 0 => pg = {}
    BY <1>3, <1>4
  <2>2. n # 0 => n \in pg
    BY <1>3, <1>4
  <2>3. QED
    BY <1>2, <1>3, <1>4, <2>1, <2>2 DEF Page
<1>6. PICK missing : missing = {i \in pg : (\A j \in Stops(c) : j < i) /\ ~ledger[i].err}
  OBVIOUS
<1>7. PICK tg \in Nat : tg = IF c.target # 0 THEN c.target ELSE IF pg # {} THEN n ELSE c.head
  BY <1>1
<1>8. PICK fin \in BOOLEAN : fin = (Stops(c) # {} \/ Cardinality(pg) < PageSize)
  OBVIOUS
<1>9. PICK b \in Nat : b = IF pg = {} THEN 0 ELSE o
  OBVIOUS
<1>10. PICK q : q = [c EXCEPT !.target = tg, !.pending = missing, !.finished = fin, !.before = b]
  OBVIOUS
<1>11. Paged(c) = q
  BY <1>2, <1>3, <1>5, <1>6, <1>7, <1>8, <1>9, <1>10 DEF Paged
<1>12. /\ q \in Cursors /\ q.since = c.since /\ q.head = c.head /\ q.target = tg /\ q.pending = missing
       /\ q.finished = fin /\ q.before = b
  <2>1. missing \in SUBSET Int
    BY <1>5, <1>6
  <2>2. QED
    BY <1>1, <1>7, <1>8, <1>9, <1>10, <2>1 DEF Cursors
<1>13. tg <= top
  BY <1>1, <1>2, <1>7 DEF NewestOf
<1>14. tg = 0 => b = 0
  BY <1>5, <1>7, <1>9
<1>15. Cardinality(pg) < PageSize => o = 1
  <2>1. CASE PageSize < n
    <3>1. o = n + 1 - PageSize
      BY <1>2, <1>3, <2>1 DEF OldestOf
    <3>2. o \in Int /\ n \in Int /\ o <= n
      BY <1>2, <1>3, <3>1, <2>1, PageAssumption
    <3>3. Cardinality(o..n) = n - o + 1
      BY <3>2, FS_Interval
    <3>4. QED
      BY <1>4, <3>1, <3>3, PageAssumption
  <2>2. CASE ~(PageSize < n)
    BY <1>2, <1>3, <2>2 DEF OldestOf
  <2>3. QED
    BY <2>1, <2>2
<1>16. ASSUME fin, NEW i \in 1..tg, i > c.since, i > c.head PROVE i >= b
  <2>1. CASE pg = {}
    BY <1>9, <2>1
  <2>2. ASSUME NEW j \in Stops(c), pg # {} PROVE i >= b
    <3>1. j \in Int /\ o <= j /\ (j = c.head \/ j <= c.since)
      BY <1>4, <1>5, <2>2 DEF Stops
    <3>2. QED
      BY <1>1, <1>3, <1>9, <1>16, <3>1
  <2>3. CASE Cardinality(pg) < PageSize
    BY <1>1, <1>9, <1>15, <1>16, <2>3
  <2>4. QED
    BY <1>8, <1>16, <2>1, <2>2, <2>3
<1>17. Passed(q, top, Buys) \subseteq Posted
  <2> SUFFICES ASSUME NEW i \in Passed(q, top, Buys) PROVE i \in Passed(c, top, Buys)
    BY <1>1
  <2>1. i \in 1..top /\ i \in Int /\ i > c.since /\ i \in Buys
    BY <1>12 DEF Passed
  <2>2. CASE i <= c.head
    BY <2>1, <2>2 DEF Passed
  <2>3. CASE i > c.head
    <3>1. tg # 0 /\ b <= i /\ i <= tg /\ i \notin missing
      BY <1>1, <1>12, <2>1, <2>3 DEF Passed
    <3>2. i \notin pg
      <4> SUFFICES ASSUME i \in pg PROVE FALSE
        OBVIOUS
      <4>1. ~ledger[i].err
        BY <2>1 DEF Buys, IsBuy, WalletBuys
      <4>2. PICK j \in Stops(c) : ~(j < i)
        BY <1>6, <3>1, <4>1
      <4>3. j \in Int /\ (j = c.head \/ j <= c.since)
        BY <1>5 DEF Stops
      <4>4. QED
        BY <1>1, <2>1, <2>3, <4>2, <4>3
    <3>3. c.before # 0 /\ c.before <= i
      <4>1. i > n
        BY <1>4, <1>5, <1>9, <2>1, <3>1, <3>2
      <4>2. QED
        BY <1>1, <1>2, <2>1, <4>1 DEF NewestOf
    <3>4. c.target # 0 /\ tg = c.target
      BY <1>1, <1>7, <3>3
    <3>5. QED
      BY <2>1, <3>1, <3>3, <3>4 DEF Passed
  <2>4. QED
    BY <1>1, <2>1, <2>2, <2>3
<1>18. QED
  BY <1>1, <1>11, <1>12, <1>13, <1>14, <1>16, <1>17 DEF Sound

(* After a finished walk the next one stops where it began.                     *)
LEMMA NextWalkSound ==
  ASSUME ScanTypes, NEW c, Sound(c, top, Buys, Posted), Walked(c)
  PROVE  Sound(NextWalk(c), top, Buys, Posted)
<1>1. /\ c \in Cursors /\ c.since \in Nat /\ c.head \in Nat /\ c.before \in Nat /\ c.target \in Nat
      /\ c.head <= top /\ c.target <= top /\ top \in Nat /\ c.pending = {}
      /\ \A i \in 1..c.target : i > c.since /\ i > c.head => i >= c.before
      /\ Passed(c, top, Buys) \subseteq Posted
  BY DEF Sound, Cursors, ScanTypes, Walked
<1>2. PICK q : q = NextWalk(c)
  OBVIOUS
<1>3. /\ q \in Cursors /\ q.since = c.since /\ q.head = c.target /\ q.before = 0 /\ q.target = 0
  BY <1>1, <1>2 DEF NextWalk, Cursors
<1>4. Passed(q, top, Buys) \subseteq Passed(c, top, Buys)
  <2> SUFFICES ASSUME NEW i \in Passed(q, top, Buys) PROVE i \in Passed(c, top, Buys)
    OBVIOUS
  <2>1. i \in 1..top /\ i \in Nat /\ i > c.since /\ i \in Buys /\ i <= c.target
    BY <1>1, <1>3 DEF Passed
  <2>2. c.target # 0
    BY <1>1, <2>1
  <2>3. i <= c.head \/ i >= c.before
    BY <1>1, <2>1
  <2>4. QED
    BY <1>1, <2>1, <2>2, <2>3 DEF Passed
<1>5. QED
  BY <1>1, <1>2, <1>3, <1>4 DEF Sound

(* A step that leaves the ledger alone or lets it grow, and the inbox or fills  *)
(* it, keeps every cursor sound that it does not write.                         *)
LEMMA CursorsStay ==
  ASSUME DiscoveryInv, ledger' = ledger, top' \in Nat, top <= top', Posted \subseteq Posted'
  PROVE  /\ Buys' = Buys
         /\ \A c : Sound(c, top, Buys, Posted) => Sound(c, top', Buys', Posted')
<1>1. Buys' = Buys
  BY DEF Buys, IsBuy
<1>2. top \in Nat
  BY DEF DiscoveryInv, ScanTypes
<1>3. QED
  BY <1>1, <1>2, SoundStays

LEMMA TransactsStep == ASSUME DiscoveryInv, Transacts PROVE DiscoveryInv'
<1>1. UNCHANGED <<ledger, cursor, scan, late, inbox>> /\ top' = top + 1 /\ top + 1 \in DOMAIN ledger
  BY DEF Transacts
<1>2. top \in Nat /\ top' \in Nat /\ top <= top' /\ 1..top' \subseteq DOMAIN ledger
  BY <1>1 DEF DiscoveryInv, ScanTypes
<1>3. Posted' = Posted
  BY <1>1 DEF Posted
<1>4. \A c : Sound(c, top, Buys, Posted) => Sound(c, top', Buys', Posted')
  BY <1>1, <1>2, <1>3, CursorsStay
<1>5. QED
  BY <1>1, <1>2, <1>4 DEF DiscoveryInv, ScanTypes, CursorsSound

(* A step of the scan itself: the cursor it holds is sound, if it goes on.      *)
LEMMA ScanStep ==
  ASSUME DiscoveryInv, UNCHANGED <<ledger, top, cursor, late, inbox>>,
         scan' \in [pc : Scanning, c : Cursors \cup {NoCursor}, left : Nat],
         scan'.pc # "rest" => Sound(scan'.c, top, Buys, Posted),
         scan'.pc \in {"saveFirst", "page"} => scan'.c.pending = {}
  PROVE  DiscoveryInv'
<1>1. Posted' = Posted /\ Buys' = Buys
  BY DEF Posted, Buys, IsBuy
<1>2. QED
  BY <1>1 DEF DiscoveryInv, ScanTypes, CursorsSound

LEMMA StartScanStep == ASSUME DiscoveryInv, StartScan PROVE DiscoveryInv'
<1>1. UNCHANGED <<ledger, top, cursor, late, inbox>> /\ Batch \in Nat /\ top \in Nat
  BY PageAssumption DEF StartScan, DiscoveryInv, ScanTypes
<1>2. CASE cursor = NoCursor
  <2>1. scan' = [pc |-> "saveFirst", c |-> FirstCursor, left |-> Batch]
    BY <1>2 DEF StartScan
  <2>2. /\ FirstCursor \in Cursors /\ FirstCursor.head = 0 /\ FirstCursor.target = 0 /\ FirstCursor.before = 0
        /\ FirstCursor.finished = FALSE /\ FirstCursor.pending = {}
    BY <1>1 DEF FirstCursor, Cursors
  <2>3. Passed(FirstCursor, top, Buys) = {}
    BY <1>1, <2>2 DEF Passed
  <2>4. Sound(FirstCursor, top, Buys, Posted)
    BY <1>1, <2>2, <2>3 DEF Sound
  <2>5. scan' \in [pc : Scanning, c : Cursors \cup {NoCursor}, left : Nat]
    BY <1>1, <2>1, <2>2 DEF Scanning
  <2>6. QED
    BY <1>1, <2>1, <2>2, <2>4, <2>5, ScanStep
<1>3. CASE cursor # NoCursor
  <2>1. scan' = [pc |-> AfterLoad(cursor), c |-> cursor, left |-> Batch]
    BY <1>3 DEF StartScan
  <2>2. Sound(cursor, top, Buys, Posted) /\ cursor \in Cursors
    BY <1>3 DEF DiscoveryInv, CursorsSound, Sound
  <2>3. QED
    BY <1>1, <2>1, <2>2, ScanStep DEF AfterLoad, Scanning
<1>4. QED
  BY <1>2, <1>3

LEMMA ReadPageStep == ASSUME DiscoveryInv, ReadPage PROVE DiscoveryInv'
<1>1. UNCHANGED <<ledger, top, cursor, late, inbox>> /\ scan.pc = "page" /\ ScanTypes
  BY DEF ReadPage, DiscoveryInv
<1>2. PICK q : q = Paged(scan.c)
  OBVIOUS
<1>3. Sound(q, top, Buys, Posted) /\ q \in Cursors
  <2>1. Sound(scan.c, top, Buys, Posted) /\ scan.c.pending = {}
    BY <1>1 DEF DiscoveryInv, CursorsSound
  <2>2. Sound(q, top, Buys, Posted)
    BY <1>1, <1>2, <2>1, PagedSound
  <2>3. QED
    BY <2>2 DEF Sound
<1>4. scan' = [scan EXCEPT !.pc = "savePage", !.c = q]
  BY <1>2 DEF ReadPage
<1>5. scan' \in [pc : Scanning, c : Cursors \cup {NoCursor}, left : Nat] /\ scan'.pc = "savePage" /\ scan'.c = q
  BY <1>1, <1>3, <1>4 DEF ScanTypes, Scanning
<1>6. QED
  BY <1>1, <1>3, <1>5, ScanStep

(* The buy is in the inbox before its transaction leaves the cursor.            *)
LEMMA ReceiveBuyStep == ASSUME DiscoveryInv, ReceiveBuy PROVE DiscoveryInv'
<1>1. PICK i \in scan.c.pending :
        /\ inbox' = IF IsBuy(i) /\ inbox[i] = "absent" THEN [inbox EXCEPT ![i] = "waiting"] ELSE inbox
        /\ scan' = [scan EXCEPT !.pc = "saveItem", !.left = @ - 1, !.c.pending = @ \ {i}]
  BY DEF ReceiveBuy
<1>2. UNCHANGED <<ledger, top, cursor, late>> /\ scan.pc = "fetch" /\ scan.left > 0
  BY DEF ReceiveBuy
<1>3. PICK c : c = scan.c
  OBVIOUS
<1>4. Sound(c, top, Buys, Posted) /\ c \in Cursors /\ top \in Nat
  BY <1>2, <1>3 DEF DiscoveryInv, CursorsSound, Sound, ScanTypes
<1>5. PICK q : q = [c EXCEPT !.pending = @ \ {i}]
  OBVIOUS
<1>6. /\ q \in Cursors /\ q.since = c.since /\ q.head = c.head /\ q.before = c.before /\ q.target = c.target
      /\ q.finished = c.finished /\ q.pending = c.pending \ {i}
  BY <1>4, <1>5 DEF Cursors
<1>7. scan' = [scan EXCEPT !.pc = "saveItem", !.left = @ - 1, !.c = q]
  BY <1>1, <1>3, <1>5 DEF DiscoveryInv, ScanTypes
<1>8. scan' \in [pc : Scanning, c : Cursors \cup {NoCursor}, left : Nat] /\ scan'.pc = "saveItem" /\ scan'.c = q
  <2>1. scan.left - 1 \in Nat
    BY <1>2 DEF DiscoveryInv, ScanTypes
  <2>2. QED
    BY <1>6, <1>7, <2>1 DEF DiscoveryInv, ScanTypes, Scanning
<1>9. /\ inbox' \in [DOMAIN ledger -> {"absent", "waiting", "processed"}]
      /\ Posted \subseteq Posted'
      /\ i \in Buys => i \in Posted'
  BY <1>1 DEF DiscoveryInv, ScanTypes, Posted, Buys
<1>10. Buys' = Buys /\ \A d : Sound(d, top, Buys, Posted) => Sound(d, top', Buys', Posted')
  BY <1>2, <1>4, <1>9, CursorsStay
<1>11. Sound(q, top, Buys, Posted')
  <2>1. Sound(c, top, Buys, Posted')
    BY <1>2, <1>4, <1>10
  <2>2. Passed(q, top, Buys) \subseteq Passed(c, top, Buys) \cup ({i} \cap Buys)
    BY <1>6 DEF Passed
  <2>3. Passed(q, top, Buys) \subseteq Posted'
    BY <1>9, <2>1, <2>2 DEF Sound
  <2>4. QED
    BY <1>6, <2>1, <2>3 DEF Sound
<1>12. QED
  BY <1>2, <1>8, <1>9, <1>10, <1>11 DEF DiscoveryInv, ScanTypes, CursorsSound

LEMMA EndBatchStep == ASSUME DiscoveryInv, EndBatch PROVE DiscoveryInv'
<1>1. UNCHANGED <<ledger, top, cursor, late, inbox>> /\ scan.pc = "fetch" /\ ScanTypes
  BY DEF EndBatch, DiscoveryInv
<1>2. CASE Walked(scan.c)
  <2>1. PICK q : q = NextWalk(scan.c)
    OBVIOUS
  <2>2. Sound(q, top, Buys, Posted) /\ q \in Cursors
    BY <1>1, <1>2, <2>1, NextWalkSound DEF DiscoveryInv, CursorsSound, Sound
  <2>3. scan' = [scan EXCEPT !.pc = "saveHead", !.c = q]
    BY <1>2, <2>1 DEF EndBatch
  <2>4. scan' \in [pc : Scanning, c : Cursors \cup {NoCursor}, left : Nat] /\ scan'.pc = "saveHead" /\ scan'.c = q
    BY <1>1, <2>2, <2>3 DEF ScanTypes, Scanning
  <2>5. QED
    BY <1>1, <2>2, <2>4, ScanStep
<1>3. CASE ~Walked(scan.c)
  BY <1>1, <1>3, ScanStep DEF EndBatch, NoScan, Scanning
<1>4. QED
  BY <1>2, <1>3

LEMMA SaveCursorStep == ASSUME DiscoveryInv, SaveCursor PROVE DiscoveryInv'
<1>1. UNCHANGED <<ledger, top, late, inbox>> /\ cursor' = scan.c /\ scan.pc \in Saves
  BY DEF SaveCursor
<1>2. Posted' = Posted /\ Buys' = Buys
  BY <1>1 DEF Posted, Buys, IsBuy
<1>3. Sound(scan.c, top, Buys, Posted)
  BY <1>1 DEF DiscoveryInv, CursorsSound, Saves
<1>4. /\ scan' \in [pc : Scanning, c : Cursors \cup {NoCursor}, left : Nat]
      /\ scan'.pc # "rest" => scan'.c = scan.c
      /\ scan'.pc \in {"saveFirst", "page"} => scan.pc = "saveFirst"
  <2>1. CASE scan.pc = "saveFirst"
    BY <2>1 DEF SaveCursor, DiscoveryInv, ScanTypes, Scanning
  <2>2. CASE scan.pc = "saveHead"
    BY <2>2 DEF SaveCursor, NoScan, Scanning
  <2>3. CASE scan.pc \in {"savePage", "saveItem"}
    <3>1. scan' = [scan EXCEPT !.pc = "fetch"]
      BY <2>3 DEF SaveCursor
    <3>2. QED
      BY <3>1 DEF DiscoveryInv, ScanTypes, Scanning
  <2>4. QED
    BY <1>1, <2>1, <2>2, <2>3 DEF Saves
<1>5. QED
  BY <1>1, <1>2, <1>3, <1>4 DEF DiscoveryInv, ScanTypes, CursorsSound

LEMMA ScanFailsStep == ASSUME DiscoveryInv, ScanFails PROVE DiscoveryInv'
<1>1. UNCHANGED <<ledger, top, cursor, inbox>> /\ scan' = NoScan /\ scan.pc # "rest"
  BY DEF ScanFails
<1>2. Posted' = Posted /\ Buys' = Buys
  BY <1>1 DEF Posted, Buys, IsBuy
<1>3. \A c \in late' : c \in late \/ c = scan.c
  BY DEF ScanFails
<1>4. \A c \in late' : Sound(c, top, Buys, Posted)
  BY <1>1, <1>3 DEF DiscoveryInv, CursorsSound
<1>5. QED
  BY <1>1, <1>2, <1>4 DEF DiscoveryInv, ScanTypes, CursorsSound, NoScan, Scanning

LEMMA LateWriteStep == ASSUME DiscoveryInv, LateWrite PROVE DiscoveryInv'
<1>1. PICK c \in late : cursor' = c /\ late' = late \ {c}
  BY DEF LateWrite
<1>2. UNCHANGED <<ledger, top, scan, inbox>>
  BY DEF LateWrite
<1>3. Posted' = Posted /\ Buys' = Buys
  BY <1>2 DEF Posted, Buys, IsBuy
<1>4. QED
  BY <1>1, <1>2, <1>3 DEF DiscoveryInv, ScanTypes, CursorsSound

LEMMA DrainInboxStep == ASSUME DiscoveryInv, DrainInbox PROVE DiscoveryInv'
<1>1. UNCHANGED <<ledger, top, cursor, scan, late>>
  BY DEF DrainInbox
<1>2. PICK i \in DOMAIN inbox : inbox[i] = "waiting" /\ inbox' = [inbox EXCEPT ![i] = "processed"]
  BY DEF DrainInbox
<1>3. inbox' \in [DOMAIN ledger -> {"absent", "waiting", "processed"}] /\ Posted \subseteq Posted'
  BY <1>2 DEF DiscoveryInv, ScanTypes, Posted
<1>4. top \in Nat
  BY DEF DiscoveryInv, ScanTypes
<1>5. \A c : Sound(c, top, Buys, Posted) => Sound(c, top', Buys', Posted')
  BY <1>1, <1>3, <1>4, CursorsStay
<1>6. QED
  BY <1>1, <1>3, <1>5 DEF DiscoveryInv, ScanTypes, CursorsSound

LEMMA DiscoveryInvStep == DiscoveryInv /\ [DiscoveryNext]_dvars => DiscoveryInv'
<1> SUFFICES ASSUME DiscoveryInv, [DiscoveryNext]_dvars PROVE DiscoveryInv'
  OBVIOUS
<1>1. CASE UNCHANGED dvars
  BY <1>1, ScanStep DEF dvars, DiscoveryInv, ScanTypes, CursorsSound
<1>2. QED
  BY <1>1, TransactsStep, StartScanStep, ReadPageStep, ReceiveBuyStep, EndBatchStep, SaveCursorStep, ScanFailsStep,
     LateWriteStep, DrainInboxStep DEF DiscoveryNext

\* Every cursor of the discovery is sound, saved or not, whichever of them is
\* written last (saveCursor).
THEOREM DiscoveryInductive == DiscoverySpec => []DiscoveryInv
<1>1. QED
  BY DiscoveryInvInit, DiscoveryInvStep, PTL DEF DiscoverySpec

\* No buy of a watched wallet is lost behind the saved cursor, whatever fails,
\* times out, is repeated or is written late, for any ledger, page and batch size
\* (scanWallets).
THEOREM NoBuyIsLost == DiscoverySpec => []NoBuyLost
<1>1. DiscoveryInv => NoBuyLost
  <2> SUFFICES ASSUME DiscoveryInv, cursor # NoCursor, NEW i \in Behind(cursor) PROVE inbox[i] # "absent"
    BY DEF NoBuyLost
  <2>1. Passed(cursor, top, Buys) \subseteq Posted /\ top \in Nat /\ 1..top \subseteq DOMAIN ledger
    BY DEF DiscoveryInv, CursorsSound, ScanTypes, Sound
  <2>2. i \in Passed(cursor, top, Buys)
    BY <2>1 DEF Behind, Passed, Buys
  <2>3. QED
    BY <2>1, <2>2 DEF Posted
<1>2. QED
  BY <1>1, DiscoveryInductive, PTL

(* -------------------------------- Lookups --------------------------------- *)

LookupsNext ==
  \/ HistoryNext /\ UNCHANGED <<items, svars>>
  \/ NextItem /\ UNCHANGED <<hvars, svars>>
  \/ SupplyNext /\ UNCHANGED <<hvars, items>>
LookupsSpec == HistoryInit /\ SupplyInit /\ items = <<>> /\ [][LookupsNext]_<<hvars, items, svars>>

HistoryPlaces == {"rest", "waiting", "entered", "sent", "delay"}
Running == {r \in Ranges : req[r].at \in {"entered", "sent"}}
HistoryTypes ==
  /\ req \in [Ranges -> [at : HistoryPlaces, tries : Nat]] /\ active \in Nat /\ line \in Seq(Ranges) /\ closed \in BOOLEAN
HistoryInv ==
  /\ HistoryTypes
  /\ IsFiniteSet(Running) /\ active = Cardinality(Running) /\ active <= Slots
  /\ line # <<>> => active = Slots
  /\ \A i \in 1..Len(line) : req[line[i]].at = "waiting"
  /\ \A i, j \in 1..Len(line) : line[i] = line[j] => i = j

SupplyRecords == [status : {"none", "failed", "ready"}, attempts : 0..MaxTries]
GetPlaces == {"rest", "asked", "sent", "lookup", "answered", "refused"}
Supplying ==
  /\ mem \in SupplyRecords /\ store \in SupplyRecords /\ unread \in Nat /\ unsaved \in Nat
  /\ asked \in [life : Nat, ever : Nat]
  /\ get \in [at : GetPlaces, n : 0..MaxTries]
(* The lookups a record accounts for, one that is about to be sent, and those  *)
(* the failures of Redis paid for: every lookup is one of these.               *)
Spent(r) == IF r.status = "ready" THEN MaxTries ELSE r.attempts
Due == IF get.at = "sent" THEN 1 ELSE 0
Lent == MaxTries * unread + unsaved
BudgetInv ==
  /\ Supplying
  /\ asked.ever + Due <= Lent + Spent(store)
  /\ mem # NoRecord => asked.ever + Due <= Lent + Spent(mem) /\ asked.life + Due <= Spent(mem)
  /\ mem = NoRecord => asked.life = 0 /\ get.at \notin {"sent", "lookup"}
  /\ get.at \in {"sent", "lookup"} => asked.ever + Due <= Lent + get.n /\ asked.life + Due <= get.n

Received == [n : Nat, time : Nat, group : Nat]
PipeTypes(p) ==
  /\ DOMAIN p = {"n", "waiting", "queue", "blocked"}
  /\ p.n \in Nat /\ p.waiting \in Seq(Received) /\ p.queue \in Seq(Received) /\ p.blocked \in BOOLEAN
Follows(a, b) == IF a.group = b.group THEN BeforeIn(a, b) ELSE a.n < b.n
AllFollow(s) == \A i, j \in 1..Len(s) : i < j => Follows(s[i], s[j])
\* One group, in the order of arrival.
Together(s) == \A i, j \in 1..Len(s) : s[i].group = s[j].group /\ (i < j => s[i].n < s[j].n)
Ahead(q, s) == \A i \in 1..Len(q), j \in 1..Len(s) : q[i].n < s[j].n /\ q[i].group # s[j].group
UpTo(s, n) == \A i \in 1..Len(s) : s[i].n <= n /\ s[i].group <= n
(* The queue, and what waits behind it, are in the order of the trades, and    *)
(* while a trade waits no other passes.                                        *)
InOrder(p) ==
  /\ PipeTypes(p) /\ AllFollow(p.queue) /\ Together(p.waiting) /\ Ahead(p.queue, p.waiting)
  /\ UpTo(p.queue, p.n) /\ UpTo(p.waiting, p.n)
  /\ p.waiting # <<>> => p.blocked
SupplyInv == BudgetInv /\ InOrder(pipe)

LookupsInv == HistoryInv /\ SupplyInv /\ items \in Seq(Items)

(* ------------------------- the slots of HistoryClient ---------------------- *)

LEMMA SlotTaken ==
  ASSUME HistoryInv, NEW r \in Ranges, req[r].at \in {"rest", "delay"}, NEW tries \in Nat, Enter(r, tries),
         closed' \in BOOLEAN
  PROVE  HistoryInv'
<1>1. /\ HistoryTypes /\ Slots \in Nat /\ r \notin Running /\ IsFiniteSet(Running)
      /\ \A i \in 1..Len(line) : line[i] # r /\ line[i] \in Ranges
  BY LookupsAssumption DEF HistoryInv, HistoryTypes, Running
<1>2. CASE active >= Slots
  <2>1. req' = [req EXCEPT ![r] = [at |-> "waiting", tries |-> tries]] /\ line' = Append(line, r) /\ active' = active
    BY <1>2 DEF Enter
  <2>2. HistoryTypes'
    BY <1>1, <2>1 DEF HistoryTypes, HistoryPlaces
  <2>3. Running' = Running
    BY <1>1, <2>1 DEF Running, HistoryTypes
  <2>4. active = Slots
    BY <1>1, <1>2 DEF HistoryInv, HistoryTypes
  <2>5. \A i \in 1..Len(line') : line'[i] = IF i = Len(line) + 1 THEN r ELSE line[i]
    BY <1>1, <2>1 DEF HistoryTypes
  <2>6. Len(line') = Len(line) + 1 /\ Len(line) \in Nat
    BY <1>1, <2>1 DEF HistoryTypes
  <2>7. \A i \in 1..Len(line') : req'[line'[i]].at = "waiting"
    BY <1>1, <2>1, <2>5, <2>6 DEF HistoryInv, HistoryTypes
  <2>8. \A i, j \in 1..Len(line') : line'[i] = line'[j] => i = j
    BY <1>1, <2>5, <2>6 DEF HistoryInv
  <2>9. QED
    BY <1>1, <2>1, <2>2, <2>3, <2>4, <2>7, <2>8 DEF HistoryInv
<1>3. CASE ~(active >= Slots)
  <2>1. req' = [req EXCEPT ![r] = [at |-> "entered", tries |-> tries]] /\ line' = line /\ active' = active + 1
    BY <1>3 DEF Enter
  <2>2. HistoryTypes'
    BY <1>1, <2>1 DEF HistoryTypes, HistoryPlaces
  <2>3. Running' = Running \cup {r}
    BY <1>1, <2>1 DEF Running, HistoryTypes
  <2>4. IsFiniteSet(Running') /\ Cardinality(Running') = Cardinality(Running) + 1
    BY <1>1, <2>3, FS_AddElement
  <2>5. active < Slots /\ active \in Nat /\ line = <<>>
    BY <1>1, <1>3 DEF HistoryInv, HistoryTypes
  <2>6. active' = Cardinality(Running') /\ active' <= Slots
    BY <1>1, <2>1, <2>4, <2>5 DEF HistoryInv
  <2>7. QED
    BY <2>1, <2>2, <2>4, <2>5, <2>6 DEF HistoryInv
<1>4. QED
  BY <1>2, <1>3

LEMMA SlotLeft ==
  ASSUME HistoryInv, NEW r \in Running, NEW place \in [at : {"rest", "delay"}, tries : Nat], Leave(r, place), closed' \in BOOLEAN
  PROVE  HistoryInv'
<1>1. /\ HistoryTypes /\ Slots \in Nat /\ r \in Ranges /\ IsFiniteSet(Running)
      /\ \A i \in 1..Len(line) : line[i] # r /\ line[i] \in Ranges /\ line[i] \notin Running
  BY LookupsAssumption DEF HistoryInv, HistoryTypes, Running
<1>2. IsFiniteSet(Running \ {r}) /\ Cardinality(Running \ {r}) = Cardinality(Running) - 1
  BY <1>1, FS_RemoveElement
<1>3. CASE line = <<>>
  <2>1. req' = [req EXCEPT ![r] = place] /\ line' = line /\ active' = active - 1
    BY <1>3 DEF Leave
  <2>2. Running' = Running \ {r}
    BY <1>1, <2>1 DEF Running, HistoryTypes
  <2>3. Cardinality(Running \ {r}) \in Nat
    BY <1>2, FS_CardinalityType
  <2>4. active' = Cardinality(Running') /\ active' \in Nat /\ active' <= Slots
    BY <1>1, <1>2, <2>1, <2>2, <2>3 DEF HistoryInv, HistoryTypes
  <2>5. HistoryTypes'
    BY <1>1, <2>1, <2>4 DEF HistoryTypes, HistoryPlaces
  <2>6. QED
    BY <1>2, <1>3, <2>1, <2>2, <2>4, <2>5 DEF HistoryInv
<1>4. CASE line # <<>>
  <2>1. PICK h : h = Head(line)
    OBVIOUS
  <2>2. h = line[1] /\ 1 \in 1..Len(line) /\ Len(line) \in Nat
    BY <1>1, <1>4, <2>1 DEF HistoryTypes
  <2>3. h \in Ranges /\ h # r /\ h \notin Running /\ req[h].at = "waiting"
    BY <1>1, <2>2 DEF HistoryInv
  <2>4. req' = [req EXCEPT ![r] = place, ![h].at = "entered"] /\ line' = Tail(line) /\ active' = active
    BY <1>4, <2>1 DEF Leave
  <2>5. /\ req' \in [Ranges -> [at : HistoryPlaces, tries : Nat]] /\ req'[r] = place /\ req'[h].at = "entered"
        /\ \A q \in Ranges : q # r /\ q # h => req'[q] = req[q]
    <3>1. req'[r] = place /\ req'[h] = [req[h] EXCEPT !.at = "entered"]
          /\ \A q \in Ranges : q # r /\ q # h => req'[q] = req[q]
      BY <1>1, <2>3, <2>4 DEF HistoryTypes
    <3>2. DOMAIN req' = Ranges /\ req' = [q \in Ranges |-> req'[q]]
      BY <1>1, <2>4 DEF HistoryTypes
    <3>3. \A q \in Ranges : req'[q] \in [at : HistoryPlaces, tries : Nat]
      BY <1>1, <2>3, <3>1 DEF HistoryTypes, HistoryPlaces
    <3>4. req'[h].at = "entered"
      BY <1>1, <2>3, <3>1 DEF HistoryTypes
    <3>5. QED
      BY <3>1, <3>2, <3>3, <3>4
  <2>6. Running' = (Running \ {r}) \cup {h}
    BY <1>1, <2>3, <2>5 DEF Running
  <2>7. IsFiniteSet(Running') /\ Cardinality(Running') = Cardinality(Running)
    <3>1. h \notin Running \ {r}
      BY <2>3
    <3>2. IsFiniteSet(Running') /\ Cardinality(Running') = Cardinality(Running \ {r}) + 1
      BY <1>2, <2>6, <3>1, FS_AddElement
    <3>3. Cardinality(Running) \in Nat
      BY <1>1, FS_CardinalityType
    <3>4. QED
      BY <1>2, <3>2, <3>3
  <2>8. Len(line') = Len(line) - 1 /\ \A i \in 1..Len(line') : line'[i] = line[i + 1] /\ i + 1 \in 1..Len(line)
    BY <1>1, <1>4, <2>4 DEF HistoryTypes
  <2>9. \A i \in 1..Len(line') : line'[i] # h
    <3> SUFFICES ASSUME NEW i \in 1..Len(line'), line'[i] = h PROVE FALSE
      OBVIOUS
    <3>1. i \in Nat \ {0} /\ i + 1 \in 1..Len(line) /\ line[i + 1] = line[1]
      BY <2>2, <2>8
    <3>2. \A a, b \in 1..Len(line) : line[a] = line[b] => a = b
      BY DEF HistoryInv
    <3>3. i + 1 = 1
      BY <2>2, <3>1, <3>2
    <3>4. QED
      BY <3>1, <3>3
  <2>10. \A i \in 1..Len(line') : req'[line'[i]].at = "waiting"
    <3> SUFFICES ASSUME NEW i \in 1..Len(line') PROVE req'[line'[i]].at = "waiting"
      OBVIOUS
    <3>1. PICK q : q = line'[i]
      OBVIOUS
    <3>2. q = line[i + 1] /\ i + 1 \in 1..Len(line) /\ q # h
      BY <2>8, <2>9, <3>1
    <3>3. q \in Ranges /\ q # r /\ req[q].at = "waiting"
      BY <1>1, <3>2 DEF HistoryInv
    <3>4. QED
      BY <2>5, <3>1, <3>2, <3>3
  <2>11. \A i, j \in 1..Len(line') : line'[i] = line'[j] => i = j
    BY <2>2, <2>8 DEF HistoryInv
  <2>12. HistoryTypes'
    BY <1>1, <1>4, <2>4, <2>5 DEF HistoryTypes
  <2>13. QED
    BY <1>4, <2>4, <2>7, <2>10, <2>11, <2>12 DEF HistoryInv
<1>5. QED
  BY <1>3, <1>4

LEMMA HistoryInvInit == HistoryInit => HistoryInv
<1> SUFFICES ASSUME HistoryInit PROVE HistoryInv
  OBVIOUS
<1>1. Running = {}
  BY DEF Running, HistoryInit, Idle
<1>2. HistoryTypes
  <2>1. req = [r \in Ranges |-> Idle] /\ active = 0 /\ line = <<>> /\ closed = FALSE
    BY DEF HistoryInit
  <2>2. Idle \in [at : HistoryPlaces, tries : Nat]
    BY DEF Idle, HistoryPlaces
  <2>3. <<>> \in Seq(Ranges)
    OBVIOUS
  <2>4. QED
    BY <2>1, <2>2, <2>3 DEF HistoryTypes
<1>3. QED
  BY <1>1, <1>2, FS_EmptySet, LookupsAssumption DEF HistoryInit, HistoryInv

LEMMA HistoryInvStep == ASSUME HistoryInv, HistoryNext PROVE HistoryInv'
<1>0. HistoryTypes
  BY DEF HistoryInv
<1>1. ASSUME NEW r \in Ranges, Ask(r) PROVE HistoryInv'
  <2>1. req[r].at = "rest" /\ Enter(r, 0) /\ closed' = closed
    BY <1>1 DEF Ask, Idle
  <2>2. QED
    BY <1>0, <2>1, SlotTaken DEF HistoryTypes
<1>2. ASSUME NEW r \in Ranges, Send(r) PROVE HistoryInv'
  <2>1. CASE closed
    <3>1. r \in Running /\ Leave(r, Idle) /\ closed' = closed /\ Idle \in [at : {"rest", "delay"}, tries : Nat]
      BY <1>2, <2>1 DEF Send, Running, Idle
    <3>2. QED
      BY <1>0, <3>1, SlotLeft DEF HistoryTypes
  <2>2. CASE ~closed
    <3>1. req[r].at = "entered" /\ req' = [req EXCEPT ![r].at = "sent"] /\ active' = active /\ line' = line /\ closed' = closed
      BY <1>2, <2>2 DEF Send
    <3>2. HistoryTypes' /\ req'[r].at = "sent" /\ \A q \in Ranges : q # r => req'[q] = req[q]
      BY <1>0, <3>1 DEF HistoryTypes, HistoryPlaces
    <3>3. Running' = Running
      BY <3>1, <3>2 DEF Running
    <3>4. \A i \in 1..Len(line) : line[i] \in Ranges /\ line[i] # r
      BY <1>0, <3>1 DEF HistoryInv, HistoryTypes
    <3>5. QED
      BY <3>1, <3>2, <3>3, <3>4 DEF HistoryInv
  <2>3. QED
    BY <2>1, <2>2
<1>3. ASSUME NEW r \in Ranges, Answer(r) PROVE HistoryInv'
  <2>1. r \in Running /\ closed' = closed
    BY <1>3 DEF Answer, Running
  <2>2. CASE Leave(r, Idle)
    BY <1>0, <2>1, <2>2, SlotLeft DEF HistoryTypes, Idle
  <2>3. CASE Leave(r, [at |-> "delay", tries |-> req[r].tries + 1])
    <3>1. [at |-> "delay", tries |-> req[r].tries + 1] \in [at : {"rest", "delay"}, tries : Nat]
      BY <1>0 DEF HistoryTypes
    <3>2. QED
      BY <1>0, <2>1, <2>3, <3>1, SlotLeft DEF HistoryTypes
  <2>4. QED
    BY <1>3, <2>2, <2>3 DEF Answer
<1>4. ASSUME NEW r \in Ranges, Retry(r) PROVE HistoryInv'
  <2>1. req[r].at = "delay" /\ Enter(r, req[r].tries) /\ closed' = closed /\ req[r].tries \in Nat
    BY <1>0, <1>4 DEF Retry, HistoryTypes
  <2>2. QED
    BY <1>0, <2>1, SlotTaken DEF HistoryTypes
<1>5. CASE Close
  BY <1>0, <1>5 DEF Close, HistoryInv, HistoryTypes, Running
<1>6. QED
  BY <1>1, <1>2, <1>3, <1>4, <1>5 DEF HistoryNext

(* ----------------------- the attempts of ProjectCache ---------------------- *)

LEMMA LentIs == ASSUME unread \in Nat, unsaved \in Nat PROVE Lent \in Nat
<1>1. MaxTries \in Nat
  BY LookupsAssumption
<1>2. MaxTries * unread \in Nat
  BY <1>1
<1>3. QED
  BY <1>2 DEF Lent

LEMMA SupplyInvInit == SupplyInit => SupplyInv
<1> SUFFICES ASSUME SupplyInit PROVE SupplyInv
  OBVIOUS
<1>1. BudgetInv
  <2>1. MaxTries \in Nat /\ Lent \in Nat
    BY LookupsAssumption, LentIs DEF SupplyInit
  <2>2. Supplying
    BY <2>1 DEF SupplyInit, Supplying, SupplyRecords, GetPlaces, NoRecord, NoLookup
  <2>3. QED
    BY <2>1, <2>2 DEF SupplyInit, BudgetInv, Spent, Due, NoRecord, NoLookup
<1>2. InOrder(pipe)
  BY DEF SupplyInit, PipeInit, InOrder, PipeTypes, AllFollow, Together, Ahead, UpTo
<1>3. QED
  BY <1>1, <1>2 DEF SupplyInv

\* A failed read adds a budget to what is lent, a failed write one lookup.
LEMMA LentGrows ==
  ASSUME Supplying, unread' \in {unread, unread + 1}, unsaved' \in {unsaved, unsaved + 1}
  PROVE  /\ Lent \in Nat /\ Lent' \in Nat /\ unread' \in Nat /\ unsaved' \in Nat
         /\ Lent' = Lent + (IF unread' = unread THEN 0 ELSE MaxTries) + (IF unsaved' = unsaved THEN 0 ELSE 1)
<1>1. MaxTries \in Nat /\ unread \in Nat /\ unsaved \in Nat
  BY LookupsAssumption DEF Supplying
<1>2. PICK k \in Nat : k = MaxTries * unread
  BY <1>1
<1>3. MaxTries * (unread + 1) = k + MaxTries
  BY <1>1, <1>2
<1>4. Lent = k + unsaved
  BY <1>2 DEF Lent
<1>5. Lent' = (IF unread' = unread THEN k ELSE k + MaxTries) + unsaved'
  <2>1. Lent' = MaxTries * unread' + unsaved'
    BY DEF Lent
  <2>2. CASE unread' = unread
    BY <1>2, <2>1, <2>2
  <2>3. CASE unread' # unread
    <3>1. unread' = unread + 1
      BY <2>3
    <3>2. QED
      BY <1>3, <2>1, <2>3, <3>1
  <2>4. QED
    BY <2>2, <2>3
<1>6. unread' \in Nat /\ unsaved' \in Nat /\ unsaved' = unsaved + (IF unsaved' = unsaved THEN 0 ELSE 1)
  BY <1>1
<1>7. Lent \in Nat
  BY <1>1, <1>4
<1>8. QED
  <2>1. CASE unread' = unread
    <3>1. Lent' = Lent + (IF unsaved' = unsaved THEN 0 ELSE 1)
      <4>1. Lent' = k + unsaved' /\ Lent = k + unsaved
        BY <1>4, <1>5, <2>1
      <4>2. PICK x \in Nat, y \in Nat, d \in Nat : x = unsaved /\ y = unsaved' /\ d = IF unsaved' = unsaved THEN 0 ELSE 1
        BY <1>1, <1>6
      <4>3. y = x + d
        BY <1>6, <4>2
      <4>4. k + y = (k + x) + d
        BY <1>1, <4>3
      <4>5. QED
        BY <4>1, <4>2, <4>4
    <3>2. Lent' \in Nat
      BY <1>7, <3>1
    <3>3. QED
      BY <1>6, <1>7, <2>1, <3>1, <3>2
  <2>2. CASE unread' # unread
    <3>1. Lent' = Lent + MaxTries + (IF unsaved' = unsaved THEN 0 ELSE 1)
      <4>1. Lent' = (k + MaxTries) + unsaved' /\ Lent = k + unsaved
        BY <1>4, <1>5, <2>2
      <4>2. PICK x \in Nat, y \in Nat, d \in Nat : x = unsaved /\ y = unsaved' /\ d = IF unsaved' = unsaved THEN 0 ELSE 1
        BY <1>1, <1>6
      <4>3. y = x + d
        BY <1>6, <4>2
      <4>4. (k + MaxTries) + y = (k + x) + MaxTries + d
        BY <1>1, <4>3
      <4>5. QED
        BY <4>1, <4>2, <4>4
    <3>2. Lent' \in Nat
      BY <1>1, <1>7, <3>1
    <3>3. QED
      BY <1>6, <1>7, <2>2, <3>1, <3>2
  <2>3. QED
    BY <2>1, <2>2

\* What read finds accounts for what was asked so far.
LEMMA ReadFinds ==
  ASSUME BudgetInv, NEW r, ReadRecord(r), get.at # "sent", unsaved' \in {unsaved, unsaved + 1}
  PROVE  /\ unread' \in {unread, unread + 1} /\ r \in SupplyRecords
         /\ asked.ever <= MaxTries * unread' + unsaved + Spent(r) /\ asked.life <= Spent(r)
         /\ (r = NoRecord => mem = NoRecord) /\ (mem # NoRecord => r = mem)
<1>1. /\ Supplying /\ MaxTries \in Nat /\ unread \in Nat /\ unsaved \in Nat /\ Lent \in Nat
      /\ asked.ever \in Nat /\ asked.life \in Nat /\ asked.ever <= Lent + Spent(store)
      /\ (mem # NoRecord => asked.ever <= Lent + Spent(mem) /\ asked.life <= Spent(mem))
      /\ (mem = NoRecord => asked.life = 0)
      /\ Spent(store) \in 0..MaxTries /\ Spent(mem) \in 0..MaxTries
  <2>1. Supplying /\ MaxTries \in Nat
    BY LookupsAssumption DEF BudgetInv
  <2>2. Spent(store) \in 0..MaxTries /\ Spent(mem) \in 0..MaxTries
    BY <2>1 DEF Supplying, SupplyRecords, Spent
  <2>3. asked.ever \in Nat /\ asked.life \in Nat /\ Due = 0 /\ Lent \in Nat
    BY <2>1, LentIs DEF Supplying, Due
  <2>4. asked.ever <= Lent + Spent(store)
    BY <2>2, <2>3 DEF BudgetInv
  <2>5. mem # NoRecord => asked.ever <= Lent + Spent(mem) /\ asked.life <= Spent(mem)
    BY <2>2, <2>3 DEF BudgetInv
  <2>6. QED
    BY <2>1, <2>2, <2>3, <2>4, <2>5 DEF BudgetInv, Supplying
<1>2. CASE r = (IF mem # NoRecord THEN mem ELSE store) /\ unread' = unread
  <2>1. MaxTries * unread' + unsaved = Lent /\ r \in SupplyRecords
    BY <1>1, <1>2 DEF Lent, Supplying
  <2>2. CASE mem # NoRecord
    BY <1>1, <1>2, <2>1, <2>2
  <2>3. CASE mem = NoRecord
    BY <1>1, <1>2, <2>1, <2>3
  <2>4. QED
    BY <2>2, <2>3
<1>3. CASE mem = NoRecord /\ r = NoRecord /\ unread' = unread + 1
  <2>1. PICK k \in Nat : k = MaxTries * unread
    BY <1>1
  <2>2. MaxTries * unread' = k + MaxTries /\ Lent = k + unsaved
    BY <1>1, <1>3, <2>1 DEF Lent
  <2>3. r \in SupplyRecords /\ Spent(r) = 0
    BY <1>1, <1>3 DEF NoRecord, SupplyRecords, Spent
  <2>4. asked.ever <= MaxTries * unread' + unsaved + Spent(r) /\ asked.life <= Spent(r)
    BY <1>1, <1>3, <2>1, <2>2, <2>3
  <2>5. QED
    BY <1>3, <2>3, <2>4
<1>4. QED
  BY <1>2, <1>3 DEF ReadRecord

LEMMA StartGetStep == ASSUME BudgetInv, StartGet PROVE BudgetInv'
<1>1. PICK r \in {mem, store, NoRecord} :
        /\ ReadRecord(r)
        /\ \/ /\ r.status = "ready" /\ get' = [at |-> "answered", n |-> 0]
              /\ mem' = r /\ UNCHANGED <<store, unsaved>>
           \/ /\ r.status # "ready" /\ (r.attempts >= MaxTries \/ (mem = NoRecord /\ r # NoRecord))
              /\ get' = [at |-> "refused", n |-> 0]
              /\ mem' = r /\ UNCHANGED <<store, unsaved>>
           \/ /\ r.status # "ready" /\ r.attempts < MaxTries /\ SaveRecord(Failed(r.attempts + 1))
              /\ get' = [at |-> "sent", n |-> r.attempts + 1]
  BY DEF StartGet
<1>2. /\ get.at = "asked" /\ asked' = asked /\ MaxTries \in Nat /\ Supplying
      /\ asked.ever \in Nat /\ asked.life \in Nat /\ unread \in Nat /\ unsaved \in Nat
  BY LookupsAssumption DEF StartGet, BudgetInv, Supplying
<1>3. unsaved' \in {unsaved, unsaved + 1}
  BY <1>1 DEF SaveRecord
<1>4. /\ unread' \in {unread, unread + 1} /\ r \in SupplyRecords
      /\ asked.ever <= MaxTries * unread' + unsaved + Spent(r) /\ asked.life <= Spent(r)
      /\ (r = NoRecord => mem = NoRecord) /\ (mem # NoRecord => r = mem)
  BY <1>1, <1>2, <1>3, ReadFinds
<1>5. /\ Lent \in Nat /\ Lent' \in Nat /\ unread' \in Nat /\ unsaved' \in Nat
      /\ Lent' = Lent + (IF unread' = unread THEN 0 ELSE MaxTries) + (IF unsaved' = unsaved THEN 0 ELSE 1)
  BY <1>2, <1>3, <1>4, LentGrows
<1>6. PICK k \in Nat : k = MaxTries * unread'
  <2>1. PICK u \in Nat : u = unread'
    BY <1>5
  <2>2. MaxTries * u \in Nat
    BY <1>2
  <2>3. QED
    BY <2>1, <2>2
<1>7. Lent' = k + unsaved' /\ asked.ever <= k + unsaved + Spent(r) /\ Spent(r) \in 0..MaxTries
  BY <1>2, <1>4, <1>6 DEF Lent, SupplyRecords, Spent
<1>8. asked.ever <= Lent + Spent(store) /\ Spent(store) \in 0..MaxTries
  BY <1>2, <1>5 DEF BudgetInv, Due, Supplying, SupplyRecords, Spent
<1>9. ASSUME mem' = r, store' = store, unsaved' = unsaved, get'.at \in {"answered", "refused"}, get'.n = 0,
             DOMAIN get' = {"at", "n"}, get' \in [at : GetPlaces, n : 0..MaxTries]
      PROVE  BudgetInv'
  <2>1. Supplying'
    BY <1>2, <1>4, <1>5, <1>9 DEF Supplying
  <2>2. Due' = 0 /\ Spent(store)' = Spent(store) /\ Spent(mem)' = Spent(r)
    BY <1>9 DEF Due, Spent
  <2>3. Lent <= Lent'
    BY <1>2, <1>5, <1>9
  <2>4. asked'.ever + Due' <= Lent' + Spent(store)'
    BY <1>2, <1>5, <1>8, <2>2, <2>3
  <2>5. asked'.ever + Due' <= Lent' + Spent(mem)' /\ asked'.life + Due' <= Spent(mem)'
    BY <1>2, <1>4, <1>6, <1>7, <1>9, <2>2
  <2>6. mem' = NoRecord => asked'.life = 0
    BY <1>2, <1>4, <1>9 DEF BudgetInv
  <2>7. QED
    BY <1>9, <2>1, <2>4, <2>5, <2>6 DEF BudgetInv
<1>10. CASE /\ r.status # "ready" /\ r.attempts < MaxTries /\ SaveRecord(Failed(r.attempts + 1))
            /\ get' = [at |-> "sent", n |-> r.attempts + 1]
  <2>1. PICK n \in 1..MaxTries : n = r.attempts + 1
    BY <1>2, <1>4, <1>10 DEF SupplyRecords
  <2>2. get' = [at |-> "sent", n |-> n] /\ mem' = Failed(n) /\ Spent(r) = n - 1 /\ n \in 0..MaxTries
        /\ ((store' = Failed(n) /\ unsaved' = unsaved) \/ (store' = store /\ unsaved' = unsaved + 1))
    <3>1. Spent(r) = r.attempts /\ r.attempts \in Nat
      BY <1>4, <1>10 DEF Spent, SupplyRecords
    <3>2. Spent(r) = n - 1 /\ n \in 0..MaxTries
      BY <1>2, <2>1, <3>1
    <3>3. get' = [at |-> "sent", n |-> n] /\ SaveRecord(Failed(n))
      BY <1>10, <2>1
    <3>4. QED
      BY <3>2, <3>3 DEF SaveRecord
  <2>3. Due' = 1 /\ Spent(mem)' = n /\ Spent(Failed(n)) = n /\ get'.n = n /\ get'.at = "sent" /\ mem' # NoRecord
    BY <2>2 DEF Due, Spent, Failed, NoRecord
  <2>4. Failed(n) \in SupplyRecords
    BY <2>2 DEF Failed, SupplyRecords
  <2>5. Supplying'
    BY <1>2, <1>5, <2>2, <2>4 DEF Supplying, GetPlaces
  <2>6. asked'.ever + Due' <= Lent' + n /\ asked'.life + Due' <= n
    <3>1. unsaved <= unsaved'
      BY <1>2, <1>3
    <3>2. QED
      <4>1. PICK x \in Nat, y \in Nat : x = unsaved /\ y = unsaved'
        BY <1>2, <1>5
      <4>2. PICK e \in Nat, l \in Nat : e = asked.ever /\ l = asked.life
        BY <1>2
      <4>3. e <= k + x + (n - 1) /\ l <= n - 1 /\ x <= y /\ Lent' = k + y
        BY <1>4, <1>7, <2>2, <3>1, <4>1, <4>2
      <4>4. e + 1 <= (k + y) + n /\ l + 1 <= n
        BY <4>3
      <4>5. asked'.ever = e /\ asked'.life = l /\ Due' = 1
        BY <1>2, <2>3, <4>2
      <4>6. QED
        BY <4>3, <4>4, <4>5
  <2>7. asked'.ever + Due' <= Lent' + Spent(store)'
    <3>1. CASE store' = Failed(n)
      BY <2>3, <2>6, <3>1 DEF Spent
    <3>2. CASE store' = store /\ unsaved' = unsaved + 1
      <4>1. Spent(store)' = Spent(store) /\ Lent + 1 <= Lent'
        BY <1>2, <1>5, <3>2 DEF Spent
      <4>2. QED
        BY <1>2, <1>5, <1>8, <2>3, <4>1
    <3>3. QED
      BY <2>2, <3>1, <3>2
  <2>8. QED
    BY <2>3, <2>5, <2>6, <2>7 DEF BudgetInv
<1>11. QED
  <2>1. CASE /\ r.status = "ready" /\ get' = [at |-> "answered", n |-> 0]
             /\ mem' = r /\ UNCHANGED <<store, unsaved>>
    BY <1>2, <1>9, <2>1 DEF GetPlaces
  <2>2. CASE /\ get' = [at |-> "refused", n |-> 0] /\ mem' = r /\ UNCHANGED <<store, unsaved>>
    BY <1>2, <1>9, <2>2 DEF GetPlaces
  <2>3. QED
    BY <1>1, <1>10, <2>1, <2>2

\* A record that accounts for what was asked may be saved, if the write succeeds or not.
LEMMA SaveKeeps ==
  ASSUME BudgetInv, NEW r \in SupplyRecords, SaveRecord(r), unread' = unread, asked' = asked, get.at # "sent" \/ get' = get,
         r # NoRecord,
         asked.ever + Due <= Lent + Spent(r), asked.life + Due <= Spent(r),
         get' = get \/ (get' \in [at : GetPlaces, n : 0..MaxTries] /\ get'.at \in {"answered", "refused"})
  PROVE  BudgetInv'
<1>1. /\ MaxTries \in Nat /\ Supplying /\ asked.ever \in Nat /\ asked.life \in Nat /\ Due \in 0..1
      /\ unread \in Nat /\ unsaved \in Nat /\ get.n \in Nat
  BY LookupsAssumption DEF BudgetInv, Supplying, Due
<1>2. mem' = r /\ ((store' = r /\ unsaved' = unsaved) \/ (store' = store /\ unsaved' = unsaved + 1))
  BY DEF SaveRecord
<1>3. Lent \in Nat /\ Lent' \in Nat /\ unsaved' \in Nat /\ Lent' >= Lent
  BY <1>1, <1>2, LentGrows
<1>4. Due' = Due
  BY DEF Due
<1>5. Spent(r) \in 0..MaxTries /\ Spent(store) \in 0..MaxTries
  BY <1>1 DEF Supplying, SupplyRecords, Spent
<1>6. Supplying'
  BY <1>1, <1>2, <1>3 DEF Supplying
<1>7. Spent(mem)' = Spent(r)
  BY <1>2 DEF Spent
<1>8. asked'.ever + Due' <= Lent' + Spent(mem)' /\ asked'.life + Due' <= Spent(mem)'
  BY <1>1, <1>3, <1>4, <1>5, <1>7
<1>9. asked'.ever + Due' <= Lent' + Spent(store)'
  <2>1. CASE store' = r
    BY <1>1, <1>3, <1>4, <1>5, <2>1 DEF Spent
  <2>2. CASE store' = store
    <3>1. Spent(store)' = Spent(store) /\ asked.ever + Due <= Lent + Spent(store)
      BY <2>2 DEF Spent, BudgetInv
    <3>2. QED
      BY <1>1, <1>3, <1>4, <1>5, <3>1
  <2>3. QED
    BY <1>2, <2>1, <2>2
<1>10. get'.at \in {"sent", "lookup"} => asked'.ever + Due' <= Lent' + get'.n /\ asked'.life + Due' <= get'.n
  <2> SUFFICES ASSUME get'.at \in {"sent", "lookup"} PROVE asked'.ever + Due' <= Lent' + get'.n /\ asked'.life + Due' <= get'.n
    OBVIOUS
  <2>1. get' = get
    OBVIOUS
  <2>2. asked.ever + Due <= Lent + get.n /\ asked.life + Due <= get.n
    BY <2>1 DEF BudgetInv
  <2>3. QED
    BY <1>1, <1>3, <1>4, <2>1, <2>2
<1>11. QED
  BY <1>2, <1>6, <1>8, <1>9, <1>10 DEF BudgetInv

LEMMA BudgetStep ==
  ASSUME BudgetInv, StartGet \/ SendGet \/ GetAnswered \/ StartFresh \/ FreshAnswered
  PROVE  BudgetInv' /\ pipe' = pipe
<1>0. /\ MaxTries \in Nat /\ Supplying /\ asked.ever \in Nat /\ asked.life \in Nat /\ get.n \in 0..MaxTries
      /\ DOMAIN asked = {"life", "ever"} /\ Lent \in Nat
  BY LookupsAssumption, LentIs DEF BudgetInv, Supplying
<1>1. CASE StartGet
  BY <1>1, StartGetStep DEF StartGet
<1>2. CASE SendGet
  <2>1. /\ get.at = "sent" /\ get' = [get EXCEPT !.at = "lookup"]
        /\ asked' = [life |-> asked.life + 1, ever |-> asked.ever + 1]
        /\ mem' = mem /\ store' = store /\ unread' = unread /\ unsaved' = unsaved /\ pipe' = pipe
    BY <1>2 DEF SendGet, redis
  <2>2. get' \in [at : GetPlaces, n : 0..MaxTries] /\ get'.at = "lookup" /\ get'.n = get.n
    BY <1>0, <2>1 DEF Supplying, GetPlaces
  <2>3. Supplying'
    BY <1>0, <2>1, <2>2 DEF Supplying
  <2>4. Due = 1 /\ Due' = 0 /\ Lent' = Lent /\ Spent(store)' = Spent(store) /\ Spent(mem)' = Spent(mem)
    BY <2>1, <2>2 DEF Due, Lent, Spent
  <2>5. asked'.ever + Due' = asked.ever + Due /\ asked'.life + Due' = asked.life + Due
    BY <1>0, <2>1, <2>4
  <2>6. QED
    BY <2>1, <2>2, <2>3, <2>4, <2>5 DEF BudgetInv
<1>3. CASE GetAnswered
  <2>1. /\ get.at = "lookup" /\ asked' = asked /\ pipe' = pipe /\ unread' = unread
        /\ \/ SaveRecord(Supplied(get.n)) /\ get' = [get EXCEPT !.at = "answered"]
           \/ SaveRecord(Failed(get.n)) /\ get' = [get EXCEPT !.at = "refused"]
    BY <1>3 DEF GetAnswered
  <2>2. get' \in [at : GetPlaces, n : 0..MaxTries] /\ get'.at \in {"answered", "refused"}
    BY <1>0, <2>1 DEF Supplying, GetPlaces
  <2>3. Supplied(get.n) \in SupplyRecords /\ Failed(get.n) \in SupplyRecords
        /\ Supplied(get.n) # NoRecord /\ Failed(get.n) # NoRecord
    BY <1>0 DEF Supplied, Failed, SupplyRecords, NoRecord
  <2>4. Spent(Supplied(get.n)) = MaxTries /\ Spent(Failed(get.n)) = get.n
    BY DEF Spent, Supplied, Failed
  <2>5. Due = 0 /\ asked.ever + Due <= Lent + get.n /\ asked.life + Due <= get.n
    BY <2>1 DEF BudgetInv, Due
  <2>6. asked.ever + Due <= Lent + MaxTries /\ asked.life + Due <= MaxTries
    BY <1>0, <2>5
  <2>7. CASE SaveRecord(Supplied(get.n))
    BY <2>1, <2>2, <2>3, <2>4, <2>6, <2>7, SaveKeeps
  <2>8. CASE SaveRecord(Failed(get.n))
    BY <2>1, <2>2, <2>3, <2>4, <2>5, <2>8, SaveKeeps
  <2>9. QED
    BY <2>1, <2>7, <2>8
<1>4. CASE StartFresh
  <2>1. PICK r \in {mem, store, NoRecord} : ReadRecord(r) /\ mem' = r
    BY <1>4 DEF StartFresh
  <2>2. store' = store /\ unsaved' = unsaved /\ get' = get /\ asked' = asked /\ pipe' = pipe
    BY <1>4 DEF StartFresh
  <2>3. CASE mem # NoRecord
    <3>1. mem' = mem /\ unread' = unread
      BY <2>1, <2>3 DEF ReadRecord
    <3>2. QED
      BY <2>2, <3>1 DEF BudgetInv, Supplying, Spent, Due, Lent
  <2>4. CASE mem = NoRecord
    <3>1. get.at \notin {"sent", "lookup"} /\ asked.life = 0
      BY <2>4 DEF BudgetInv
    <3>2. /\ unread' \in {unread, unread + 1} /\ r \in SupplyRecords
          /\ asked.ever <= MaxTries * unread' + unsaved + Spent(r) /\ asked.life <= Spent(r)
      BY <2>1, <2>2, <3>1, ReadFinds
    <3>3. Lent' \in Nat /\ unread' \in Nat /\ Lent' >= Lent
      BY <1>0, <2>2, <3>2, LentGrows
    <3>4. asked.ever <= Lent' + Spent(r) /\ Spent(mem)' = Spent(r) /\ Spent(store)' = Spent(store)
      BY <2>1, <2>2, <3>2 DEF Lent, Spent
    <3>5. Supplying'
      BY <1>0, <2>1, <2>2, <3>2, <3>3 DEF Supplying
    <3>6. Due = 0 /\ Due' = 0
      BY <2>2, <3>1 DEF Due
    <3>7. asked'.ever + Due' <= Lent' + Spent(mem)' /\ asked'.life + Due' <= Spent(mem)'
      BY <1>0, <2>2, <3>2, <3>4, <3>6
    <3>8. asked'.ever + Due' <= Lent' + Spent(store)'
      <4>1. asked.ever + Due <= Lent + Spent(store) /\ Spent(store) \in Nat
        BY <1>0 DEF BudgetInv, Supplying, SupplyRecords, Spent
      <4>2. QED
        BY <1>0, <2>2, <3>3, <3>4, <3>6, <4>1
    <3>9. QED
      BY <2>2, <3>1, <3>5, <3>7, <3>8 DEF BudgetInv
  <2>5. QED
    BY <2>2, <2>3, <2>4
<1>5. CASE FreshAnswered
  <2>1. get' = get /\ asked' = asked /\ pipe' = pipe /\ unread' = unread
        /\ (SaveRecord(Supplied(0)) \/ UNCHANGED <<mem, store, unsaved>>)
    BY <1>5 DEF FreshAnswered
  <2>2. CASE SaveRecord(Supplied(0))
    <3>1. Supplied(0) \in SupplyRecords /\ Spent(Supplied(0)) = MaxTries /\ Supplied(0) # NoRecord
      BY <1>0 DEF Supplied, SupplyRecords, Spent, NoRecord
    <3>2. asked.ever + Due <= Lent + MaxTries /\ asked.life + Due <= MaxTries
      <4>1. Spent(store) \in 0..MaxTries /\ Spent(mem) \in 0..MaxTries /\ Due \in Nat
        BY <1>0 DEF Supplying, SupplyRecords, Spent, Due
      <4>2. asked.ever + Due <= Lent + Spent(store)
            /\ (mem # NoRecord => asked.life + Due <= Spent(mem))
            /\ (mem = NoRecord => asked.life = 0 /\ Due = 0)
        BY DEF BudgetInv, Due
      <4>3. QED
        BY <1>0, <4>1, <4>2
    <3>3. QED
      BY <2>1, <2>2, <3>1, <3>2, SaveKeeps
  <2>3. CASE UNCHANGED <<mem, store, unsaved>>
    BY <2>1, <2>3 DEF BudgetInv, Supplying, Spent, Due, Lent
  <2>4. QED
    BY <2>1, <2>2, <2>3
<1>6. QED
  BY <1>1, <1>2, <1>3, <1>4, <1>5

\* What only moves get between other places, or stops it.
LEMMA BudgetStays ==
  ASSUME BudgetInv, mem' = mem, UNCHANGED redis, asked' = asked,
         get' = get \/ (get' \in [at : {"rest", "asked"}, n : {0}] /\ get.at # "sent")
  PROVE  BudgetInv'
<1>1. store' = store /\ unread' = unread /\ unsaved' = unsaved /\ MaxTries \in Nat
  BY LookupsAssumption DEF redis
<1>2. Due' = Due /\ Lent' = Lent /\ Spent(mem)' = Spent(mem) /\ Spent(store)' = Spent(store)
  BY <1>1 DEF Due, Lent, Spent
<1>3. Supplying'
  BY <1>1 DEF BudgetInv, Supplying, GetPlaces
<1>4. QED
  BY <1>1, <1>2, <1>3 DEF BudgetInv

(* ----------------------- trades that wait for the supply ------------------- *)

\* No trade waits.  Handing on trades then keeps the order.
Open(p) == InOrder(p) /\ p.waiting = <<>> /\ ~p.blocked

LEMMA FromReset ==
  ASSUME PipeTypes(pipe), NEW n \in Nat, NEW q, q = [Reset EXCEPT !.n = n]
  PROVE  InOrder(q)
<1>1. PICK r : r = Reset
  OBVIOUS
<1>2. PipeTypes(r) /\ r.waiting = <<>> /\ r.queue = <<>> /\ r.blocked = FALSE
  BY <1>1 DEF Reset, PipeTypes
<1>3. PipeTypes(q) /\ q.waiting = <<>> /\ q.queue = <<>>
  BY <1>1, <1>2 DEF PipeTypes
<1>4. QED
  BY <1>3 DEF InOrder, AllFollow, Together, Ahead, UpTo

LEMMA HandOnDoes ==
  ASSUME PipeTypes(pipe), NEW f, Open(f), NEW ks \in Seq(Received), AllFollow(ks), UpTo(ks, f.n), Ahead(f.queue, ks)
  PROVE  InOrder(HandOn(f, ks))
<1>1. PICK q : q = HandOn(f, ks)
  OBVIOUS
<1>2. PipeTypes(f)
  BY DEF Open, InOrder
<1>3. CASE Len(f.queue) + Len(ks) > MaxQueue
  <2>1. q = [Reset EXCEPT !.n = f.n] /\ f.n \in Nat
    BY <1>1, <1>2, <1>3 DEF HandOn, PipeTypes
  <2>2. QED
    BY <1>1, <2>1, FromReset
<1>4. CASE ~(Len(f.queue) + Len(ks) > MaxQueue)
  <2>1. f.queue \in Seq(Received) /\ f.n \in Nat
    BY <1>2 DEF PipeTypes
  <2>2. PICK s : s = f.queue \o ks
    OBVIOUS
  <2>3. s \in Seq(Received)
    BY <2>1, <2>2
  <2>4. q = [f EXCEPT !.queue = s]
    BY <1>1, <1>4, <2>2 DEF HandOn
  <2>5. PipeTypes(q) /\ q.n = f.n /\ q.waiting = <<>> /\ q.queue = s
    <3>1. f.waiting = <<>>
      BY DEF Open
    <3>2. QED
      BY <1>2, <2>3, <2>4, <3>1 DEF PipeTypes
  <2>6. PICK m \in Nat : m = Len(f.queue)
    BY <2>1
  <2>7. \A i \in 1..Len(s) : \/ i \in 1..m /\ s[i] = f.queue[i]
                             \/ i - m \in 1..Len(ks) /\ i > m /\ s[i] = ks[i - m]
    BY <2>1, <2>2, <2>6
  <2>8. AllFollow(f.queue) /\ UpTo(f.queue, f.n)
    BY DEF Open, InOrder
  <2>9. AllFollow(s)
    <3> SUFFICES ASSUME NEW i \in 1..Len(s), NEW j \in 1..Len(s), i < j PROVE Follows(s[i], s[j])
      BY DEF AllFollow
    <3>1. CASE i \in 1..m /\ s[i] = f.queue[i]
      <4>1. CASE j \in 1..m /\ s[j] = f.queue[j]
        BY <2>6, <2>8, <3>1, <4>1 DEF AllFollow
      <4>2. CASE j - m \in 1..Len(ks) /\ s[j] = ks[j - m]
        BY <2>6, <3>1, <4>2 DEF Ahead, Follows
      <4>3. QED
        BY <2>7, <4>1, <4>2
    <3>2. CASE i - m \in 1..Len(ks) /\ i > m /\ s[i] = ks[i - m]
      <4>1. j - m \in 1..Len(ks) /\ s[j] = ks[j - m]
        BY <2>7, <3>2
      <4>2. i - m < j - m
        OBVIOUS
      <4>3. QED
        BY <3>2, <4>1, <4>2 DEF AllFollow
    <3>3. QED
      BY <2>7, <3>1, <3>2
  <2>10. UpTo(s, f.n)
    <3> SUFFICES ASSUME NEW i \in 1..Len(s) PROVE s[i].n <= f.n /\ s[i].group <= f.n
      BY DEF UpTo
    <3>1. QED
      BY <2>6, <2>7, <2>8 DEF UpTo
  <2>11. InOrder(q)
    BY <2>5, <2>9, <2>10 DEF InOrder, Together, Ahead, UpTo
  <2>12. QED
    BY <1>1, <2>11
<1>5. QED
  BY <1>3, <1>4

LEMMA ReceiveStep == ASSUME SupplyInv, ReceiveTrade PROVE SupplyInv'
<1>1. PICK ws \in BOOLEAN, at \in TradeTimes :
        LET f == [pipe EXCEPT !.n = @ + 1] IN
        IF Passes(f, ws) THEN pipe' = HandOn(f, <<[n |-> f.n, time |-> at, group |-> f.n]>>) /\ UNCHANGED get
        ELSE IF get = NoLookup /\ mem = Failed(MaxTries) THEN pipe' = [f EXCEPT !.blocked = TRUE] /\ UNCHANGED get
        ELSE IF Len(f.waiting) >= MaxWaiting THEN pipe' = [Reset EXCEPT !.n = f.n] /\ UNCHANGED get
        ELSE /\ pipe' = [f EXCEPT !.waiting = Append(@, [n |-> f.n, time |-> at, group |-> Group(f)]), !.blocked = TRUE]
             /\ IF MayGet THEN BeginGet \/ UNCHANGED get ELSE UNCHANGED get
  BY DEF ReceiveTrade
<1>2. PICK f : f = [pipe EXCEPT !.n = @ + 1]
  OBVIOUS
<1>3. PipeTypes(pipe) /\ InOrder(pipe) /\ BudgetInv /\ mem' = mem /\ UNCHANGED redis /\ asked' = asked /\ at \in Nat
  BY LookupsAssumption DEF SupplyInv, InOrder, ReceiveTrade
<1>4. /\ PipeTypes(f) /\ f.n = pipe.n + 1 /\ pipe.n \in Nat /\ f.waiting = pipe.waiting /\ f.queue = pipe.queue
      /\ f.blocked = pipe.blocked /\ pipe.queue \in Seq(Received) /\ pipe.waiting \in Seq(Received)
  BY <1>2, <1>3 DEF PipeTypes
<1>5. PICK n \in Nat : n = f.n
  BY <1>4
<1>6. /\ \A i \in 1..Len(f.queue) : f.queue[i] \in Received /\ f.queue[i].n < n /\ f.queue[i].group < n
      /\ \A i \in 1..Len(f.waiting) : f.waiting[i] \in Received /\ f.waiting[i].n < n /\ f.waiting[i].group < n
      /\ AllFollow(f.queue) /\ Together(f.waiting) /\ Ahead(f.queue, f.waiting)
  <2>1. \A i \in 1..Len(f.queue) : f.queue[i] \in Received /\ f.queue[i].n <= pipe.n /\ f.queue[i].group <= pipe.n
    BY <1>3, <1>4 DEF InOrder, UpTo
  <2>2. \A i \in 1..Len(f.waiting) : f.waiting[i] \in Received /\ f.waiting[i].n <= pipe.n /\ f.waiting[i].group <= pipe.n
    BY <1>3, <1>4 DEF InOrder, UpTo
  <2>3. \A i \in 1..Len(f.queue) : f.queue[i] \in Received /\ f.queue[i].n < n /\ f.queue[i].group < n
    <3> SUFFICES ASSUME NEW i \in 1..Len(f.queue) PROVE f.queue[i] \in Received /\ f.queue[i].n < n /\ f.queue[i].group < n
      OBVIOUS
    <3>1. PICK k : k = f.queue[i]
      OBVIOUS
    <3>2. k \in Received /\ k.n <= pipe.n /\ k.group <= pipe.n
      BY <2>1, <3>1
    <3>3. k.n \in Nat /\ k.group \in Nat /\ n = pipe.n + 1 /\ pipe.n \in Nat
      BY <1>4, <1>5, <3>2 DEF Received
    <3>4. k.n < n /\ k.group < n
      BY <3>2, <3>3
    <3>5. QED
      BY <3>1, <3>2, <3>4
  <2>4. \A i \in 1..Len(f.waiting) : f.waiting[i] \in Received /\ f.waiting[i].n < n /\ f.waiting[i].group < n
    <3> SUFFICES ASSUME NEW i \in 1..Len(f.waiting) PROVE f.waiting[i] \in Received /\ f.waiting[i].n < n /\ f.waiting[i].group < n
      OBVIOUS
    <3>1. PICK k : k = f.waiting[i]
      OBVIOUS
    <3>2. k \in Received /\ k.n <= pipe.n /\ k.group <= pipe.n
      BY <2>2, <3>1
    <3>3. k.n \in Nat /\ k.group \in Nat /\ n = pipe.n + 1 /\ pipe.n \in Nat
      BY <1>4, <1>5, <3>2 DEF Received
    <3>4. k.n < n /\ k.group < n
      BY <3>2, <3>3
    <3>5. QED
      BY <3>1, <3>2, <3>4
  <2>5. QED
    BY <1>3, <1>4, <2>3, <2>4 DEF InOrder
<1>7. UpTo(f.queue, n) /\ UpTo(f.waiting, n)
  <2>1. \A k \in Received : k.n < n /\ k.group < n => k.n <= n /\ k.group <= n
    BY <1>5 DEF Received
  <2>2. \A i \in 1..Len(f.queue) : f.queue[i].n <= n /\ f.queue[i].group <= n
    BY <1>6, <2>1
  <2>3. \A i \in 1..Len(f.waiting) : f.waiting[i].n <= n /\ f.waiting[i].group <= n
    BY <1>6, <2>1
  <2>4. QED
    BY <2>2, <2>3 DEF UpTo
<1>8. InOrder(f)
  BY <1>3, <1>4, <1>5, <1>6, <1>7 DEF InOrder
<1>9. BudgetInv'
  <2>1. get' = get \/ (get' \in [at : {"rest", "asked"}, n : {0}] /\ get.at # "sent")
    BY <1>1 DEF BeginGet, MayGet, NoLookup
  <2>2. QED
    BY <1>3, <2>1, BudgetStays
<1>10. InOrder(pipe')
  <2>1. CASE Passes(f, ws)
    <3>1. PICK ks : ks = <<[n |-> n, time |-> at, group |-> n]>>
      OBVIOUS
    <3>2. pipe' = HandOn(f, ks)
      BY <1>1, <1>2, <1>5, <2>1, <3>1
    <3>3. Open(f)
      BY <1>8, <2>1 DEF Passes, Open, InOrder
    <3>4. ks \in Seq(Received) /\ Len(ks) = 1 /\ ks[1].n = n /\ ks[1].group = n
      BY <1>3, <3>1 DEF Received
    <3>5. AllFollow(ks) /\ UpTo(ks, f.n)
      BY <1>5, <3>4 DEF AllFollow, UpTo
    <3>6. Ahead(f.queue, ks)
      BY <1>6, <3>4 DEF Ahead, Received
    <3>7. QED
      BY <1>3, <3>2, <3>3, <3>4, <3>5, <3>6, HandOnDoes
  <2>2. CASE pipe' = [f EXCEPT !.blocked = TRUE]
    <3>1. /\ PipeTypes(pipe') /\ pipe'.n = f.n /\ pipe'.waiting = f.waiting /\ pipe'.queue = f.queue /\ pipe'.blocked
      BY <1>4, <2>2 DEF PipeTypes
    <3>2. QED
      BY <1>8, <3>1 DEF InOrder
  <2>3. CASE pipe' = [Reset EXCEPT !.n = f.n]
    BY <1>3, <1>5, <2>3, FromReset
  <2>4. CASE pipe' = [f EXCEPT !.waiting = Append(@, [n |-> f.n, time |-> at, group |-> Group(f)]), !.blocked = TRUE]
    <3>1. PICK g : g = Group(f)
      OBVIOUS
    <3>2. /\ g \in Nat /\ g <= n /\ (\A i \in 1..Len(f.waiting) : f.waiting[i].group = g)
          /\ \A i \in 1..Len(f.queue) : f.queue[i].group # g
      <4>1. CASE f.waiting = <<>>
        BY <1>5, <1>6, <3>1, <4>1 DEF Group, Received
      <4>2. CASE f.waiting # <<>>
        <5>1. 1 \in 1..Len(f.waiting) /\ g = f.waiting[1].group
          BY <1>4, <3>1, <4>2 DEF Group
        <5>2. QED
          BY <1>6, <5>1 DEF Received, Together, Ahead
      <4>3. QED
        BY <4>1, <4>2
    <3>3. PICK k : k = [n |-> n, time |-> at, group |-> g]
      OBVIOUS
    <3>4. k \in Received /\ k.n = n /\ k.group = g
      BY <1>3, <3>2, <3>3 DEF Received
    <3>5. PICK w : w = Append(f.waiting, k)
      OBVIOUS
    <3>6. pipe' = [f EXCEPT !.waiting = w, !.blocked = TRUE]
      BY <1>5, <2>4, <3>1, <3>3, <3>5
    <3>7. w \in Seq(Received) /\ Len(w) = Len(f.waiting) + 1 /\ Len(f.waiting) \in Nat
          /\ \A i \in 1..Len(w) : w[i] = IF i = Len(f.waiting) + 1 THEN k ELSE f.waiting[i]
      BY <1>4, <3>4, <3>5
    <3>8. /\ PipeTypes(pipe') /\ pipe'.n = n /\ pipe'.waiting = w /\ pipe'.queue = f.queue /\ pipe'.blocked
      BY <1>4, <1>5, <3>6, <3>7 DEF PipeTypes
    <3>9. \A i \in 1..Len(w) : (i \in 1..Len(f.waiting) /\ w[i] = f.waiting[i]) \/ (i = Len(f.waiting) + 1 /\ w[i] = k)
      BY <3>7
    <3>10. Together(w)
      <4> SUFFICES ASSUME NEW i \in 1..Len(w), NEW j \in 1..Len(w)
                   PROVE  w[i].group = w[j].group /\ (i < j => w[i].n < w[j].n)
        BY DEF Together
      <4>1. w[i].group = g /\ w[j].group = g
        BY <3>2, <3>4, <3>9
      <4>2. ASSUME i < j PROVE w[i].n < w[j].n
        <5>1. i \in 1..Len(f.waiting) /\ w[i] = f.waiting[i] /\ w[i].n < n
          BY <1>6, <3>7, <3>9, <4>2
        <5>2. CASE j \in 1..Len(f.waiting) /\ w[j] = f.waiting[j]
          BY <1>6, <4>2, <5>1, <5>2 DEF Together
        <5>3. CASE w[j] = k
          BY <3>4, <5>1, <5>3
        <5>4. QED
          BY <3>9, <5>2, <5>3
      <4>3. QED
        BY <4>1, <4>2
    <3>11. Ahead(f.queue, w)
      BY <1>6, <3>2, <3>4, <3>9 DEF Ahead
    <3>12. UpTo(w, n)
      BY <1>7, <3>2, <3>4, <3>9 DEF UpTo
    <3>13. QED
      BY <1>6, <1>7, <3>8, <3>10, <3>11, <3>12 DEF InOrder
  <2>5. QED
    BY <1>1, <1>2, <2>1, <2>2, <2>3, <2>4
<1>11. QED
  BY <1>9, <1>10 DEF SupplyInv

\* What waited together, sorted as the market had it, follows the queue.
LEMMA SortedFollows ==
  ASSUME NEW q \in Seq(Received), NEW w \in Seq(Received), Together(w), Ahead(q, w), NEW n \in Nat, UpTo(w, n), NEW s \in Sorted(w)
  PROVE  s \in Seq(Received) /\ AllFollow(s) /\ Ahead(q, s) /\ UpTo(s, n)
<1>1. /\ s \in [1..Len(w) -> ToSet(w)] /\ Len(w) \in Nat
      /\ \A i, j \in 1..Len(w) : i < j => BeforeIn(s[i], s[j])
  BY DEF Sorted
<1>2. \A i \in 1..Len(w) : \E k \in 1..Len(w) : s[i] = w[k]
  BY <1>1 DEF ToSet
<1>3. ToSet(w) \subseteq Received
  BY DEF ToSet
<1>4. s \in Seq(Received) /\ Len(s) = Len(w)
  BY <1>1, <1>3, SeqDef
<1>5. AllFollow(s)
  <2> SUFFICES ASSUME NEW i \in 1..Len(s), NEW j \in 1..Len(s), i < j PROVE Follows(s[i], s[j])
    BY DEF AllFollow
  <2>1. s[i].group = s[j].group
    <3>1. PICK k \in 1..Len(w), l \in 1..Len(w) : s[i] = w[k] /\ s[j] = w[l]
      BY <1>2, <1>4
    <3>2. w[k].group = w[l].group
      BY DEF Together
    <3>3. QED
      BY <3>1, <3>2
  <2>2. QED
    BY <1>1, <1>4, <2>1 DEF Follows
<1>6. Ahead(q, s) /\ UpTo(s, n)
  BY <1>2, <1>4 DEF Ahead, UpTo
<1>7. QED
  BY <1>4, <1>5, <1>6

LEMMA SettlesStep == ASSUME SupplyInv, GetSettles PROVE SupplyInv'
<1>1. /\ get.at \in {"answered", "refused"} /\ get' = NoLookup /\ mem' = mem /\ UNCHANGED redis /\ asked' = asked
  BY DEF GetSettles
<1>2. BudgetInv'
  <2>1. get' \in [at : {"rest", "asked"}, n : {0}] /\ get.at # "sent"
    BY <1>1 DEF NoLookup
  <2>2. QED
    BY <1>1, <2>1, BudgetStays DEF SupplyInv
<1>3. PipeTypes(pipe) /\ InOrder(pipe)
  BY DEF SupplyInv, InOrder
<1>4. InOrder(pipe')
  <2>1. ASSUME NEW s \in Sorted(pipe.waiting), pipe' = HandOn([pipe EXCEPT !.waiting = <<>>, !.blocked = FALSE], s)
        PROVE  InOrder(pipe')
    <3>1. PICK f : f = [pipe EXCEPT !.waiting = <<>>, !.blocked = FALSE]
      OBVIOUS
    <3>2. PipeTypes(f) /\ f.waiting = <<>> /\ f.blocked = FALSE /\ f.queue = pipe.queue /\ f.n = pipe.n
      BY <1>3, <3>1 DEF PipeTypes
    <3>3. Open(f)
      BY <1>3, <3>2 DEF Open, InOrder, Together, Ahead, UpTo
    <3>4. pipe.waiting \in Seq(Received) /\ pipe.queue \in Seq(Received) /\ pipe.n \in Nat
      BY <1>3 DEF PipeTypes
    <3>5. Together(pipe.waiting) /\ Ahead(pipe.queue, pipe.waiting) /\ UpTo(pipe.waiting, pipe.n)
      BY <1>3 DEF InOrder
    <3>6. s \in Seq(Received) /\ AllFollow(s) /\ Ahead(pipe.queue, s) /\ UpTo(s, pipe.n)
      BY <3>4, <3>5, SortedFollows
    <3>7. InOrder(HandOn(f, s))
      BY <1>3, <3>2, <3>3, <3>6, HandOnDoes
    <3>8. QED
      BY <2>1, <3>1, <3>7
  <2>2. CASE pipe' = [pipe EXCEPT !.waiting = <<>>]
    <3>1. PipeTypes(pipe') /\ pipe'.waiting = <<>> /\ pipe'.queue = pipe.queue /\ pipe'.n = pipe.n
      BY <1>3, <2>2 DEF PipeTypes
    <3>2. QED
      BY <1>3, <3>1 DEF InOrder, Together, Ahead, UpTo
  <2>3. CASE pipe' = pipe
    BY <1>3, <2>3
  <2>4. QED
    BY <2>1, <2>2, <2>3 DEF GetSettles
<1>5. QED
  BY <1>2, <1>4 DEF SupplyInv

LEMMA SupplyInvStep == ASSUME SupplyInv, SupplyNext PROVE SupplyInv'
<1>0. PipeTypes(pipe) /\ InOrder(pipe) /\ BudgetInv
  BY DEF SupplyInv, InOrder
<1>1. CASE StartGet \/ SendGet \/ GetAnswered \/ StartFresh \/ FreshAnswered
  <2>1. BudgetInv' /\ pipe' = pipe
    BY <1>0, <1>1, BudgetStep
  <2>2. QED
    BY <1>0, <2>1 DEF SupplyInv
<1>2. CASE ReceiveTrade
  BY <1>2, ReceiveStep
<1>3. CASE Prepare
  <2>1. /\ get' \in [at : {"rest", "asked"}, n : {0}] /\ get.at # "sent"
        /\ mem' = mem /\ UNCHANGED redis /\ asked' = asked /\ pipe' = pipe
    BY <1>3 DEF Prepare, MayGet, BeginGet, NoLookup
  <2>2. QED
    BY <1>0, <2>1, BudgetStays DEF SupplyInv
<1>4. CASE GetSettles
  BY <1>4, SettlesStep
<1>5. CASE HandleTrade
  <2>1. pipe.queue # <<>> /\ pipe' = [pipe EXCEPT !.queue = Tail(@)]
    BY <1>5 DEF HandleTrade
  <2>2. /\ PipeTypes(pipe') /\ pipe'.queue = Tail(pipe.queue) /\ pipe'.waiting = pipe.waiting /\ pipe'.n = pipe.n
        /\ pipe'.blocked = pipe.blocked /\ pipe.queue \in Seq(Received)
    BY <1>0, <2>1 DEF PipeTypes
  <2>3. Len(pipe'.queue) = Len(pipe.queue) - 1
        /\ \A i \in 1..Len(pipe'.queue) : pipe'.queue[i] = pipe.queue[i + 1] /\ i + 1 \in 1..Len(pipe.queue)
    BY <2>1, <2>2
  <2>4. AllFollow(pipe'.queue)
    <3> SUFFICES ASSUME NEW i \in 1..Len(pipe'.queue), NEW j \in 1..Len(pipe'.queue), i < j
                 PROVE  Follows(pipe'.queue[i], pipe'.queue[j])
      BY DEF AllFollow
    <3>1. i + 1 < j + 1
      OBVIOUS
    <3>2. QED
      BY <1>0, <2>3, <3>1 DEF InOrder, AllFollow
  <2>5. Ahead(pipe'.queue, pipe.waiting) /\ UpTo(pipe'.queue, pipe.n)
    BY <1>0, <2>3 DEF InOrder, Ahead, UpTo
  <2>6. InOrder(pipe')
    BY <1>0, <2>2, <2>4, <2>5 DEF InOrder
  <2>7. BudgetInv'
    BY <1>0, <1>5, BudgetStays DEF HandleTrade
  <2>8. QED
    BY <2>6, <2>7 DEF SupplyInv
<1>6. ASSUME pipe' = Reset PROVE InOrder(pipe')
  <2>1. PICK n \in Nat : n = pipe.n
    BY <1>0 DEF PipeTypes
  <2>2. Reset = [Reset EXCEPT !.n = n]
    BY <1>0, <2>1 DEF Reset, PipeTypes
  <2>3. QED
    BY <1>0, <1>6, <2>2, FromReset
<1>7. CASE Interrupted
  <2>1. pipe' = Reset /\ mem' = mem /\ UNCHANGED redis /\ get' = get /\ asked' = asked
    BY <1>7 DEF Interrupted
  <2>2. QED
    BY <1>0, <1>6, <2>1, BudgetStays DEF SupplyInv
<1>8. CASE RestartCache
  <2>1. /\ mem' = NoRecord /\ get' = NoLookup /\ pipe' = Reset /\ asked' = [asked EXCEPT !.life = 0]
        /\ store' = store /\ unread' = unread /\ unsaved' = unsaved
    BY <1>8 DEF RestartCache, redis
  <2>2. MaxTries \in Nat /\ Supplying /\ asked.ever \in Nat /\ Lent \in Nat
    BY <1>0, LookupsAssumption, LentIs DEF BudgetInv, Supplying
  <2>3. asked' \in [life : Nat, ever : Nat] /\ asked'.life = 0 /\ asked'.ever = asked.ever
    BY <2>1, <2>2 DEF Supplying
  <2>4. Supplying'
    BY <2>1, <2>2, <2>3 DEF Supplying, SupplyRecords, GetPlaces, NoRecord, NoLookup
  <2>5. Due' = 0 /\ Due \in 0..1 /\ Lent' = Lent /\ Spent(store)' = Spent(store) /\ get'.at = "rest"
    BY <2>1 DEF Due, Lent, Spent, NoLookup
  <2>6. Spent(store) \in Nat /\ asked.ever + Due <= Lent + Spent(store)
    BY <1>0, <2>2 DEF BudgetInv, Supplying, SupplyRecords, Spent
  <2>7. asked'.ever + Due' <= Lent' + Spent(store)'
    BY <2>2, <2>3, <2>5, <2>6
  <2>8. BudgetInv'
    BY <2>1, <2>3, <2>4, <2>5, <2>7 DEF BudgetInv
  <2>9. QED
    BY <1>6, <2>1, <2>8 DEF SupplyInv
<1>9. QED
  BY <1>1, <1>2, <1>3, <1>4, <1>5, <1>7, <1>8 DEF SupplyNext

(* ------------------------- the bars of an answer --------------------------- *)

NoBars == [rows |-> <<>>, conflicts |-> {}]
\* What is known after the items in V that count: per time the bar all agree on, or a conflict.
AgreedOn(acc, V) ==
  /\ DOMAIN acc = {"rows", "conflicts"}
  /\ \A t : t \in acc.conflicts <=> \E b, c \in V : b.time = t /\ c.time = t /\ b # c
  /\ \A t : t \in DOMAIN acc.rows <=> t \notin acc.conflicts /\ \E b \in V : b.time = t
  /\ \A t \in DOMAIN acc.rows : acc.rows[t] \in V /\ acc.rows[t].time = t

LEMMA ReadItemAgrees ==
  ASSUME NEW acc, NEW V, AgreedOn(acc, V), NEW b
  PROVE  AgreedOn(ReadItem(acc, b), IF b.bad THEN V ELSE V \cup {b})
<1>1. PICK q : q = ReadItem(acc, b)
  OBVIOUS
<1>2. CASE b.bad
  BY <1>2 DEF ReadItem
<1>3. CASE ~b.bad /\ b.time \in acc.conflicts
  <2>1. q = acc
    BY <1>1, <1>3 DEF ReadItem
  <2>2. AgreedOn(acc, V \cup {b})
    BY <1>3 DEF AgreedOn
  <2>3. QED
    BY <1>1, <1>3, <2>1, <2>2
<1>4. CASE ~b.bad /\ b.time \notin acc.conflicts /\ b.time \in DOMAIN acc.rows /\ acc.rows[b.time] # b
  <2>1. q = [rows |-> Without(acc.rows, b.time), conflicts |-> acc.conflicts \cup {b.time}]
    BY <1>1, <1>4 DEF ReadItem
  <2>2. /\ DOMAIN q = {"rows", "conflicts"} /\ q.conflicts = acc.conflicts \cup {b.time}
        /\ DOMAIN q.rows = DOMAIN acc.rows \ {b.time} /\ \A t \in DOMAIN q.rows : q.rows[t] = acc.rows[t]
    BY <2>1 DEF Without
  <2>3. \A t : t \in q.conflicts <=> \E c, d \in V \cup {b} : c.time = t /\ d.time = t /\ c # d
    BY <1>4, <2>2 DEF AgreedOn
  <2>4. \A t : t \in DOMAIN q.rows <=> t \notin q.conflicts /\ \E c \in V \cup {b} : c.time = t
    BY <1>4, <2>2 DEF AgreedOn
  <2>5. \A t \in DOMAIN q.rows : q.rows[t] \in V \cup {b} /\ q.rows[t].time = t
    BY <2>2 DEF AgreedOn
  <2>6. AgreedOn(q, V \cup {b})
    BY <2>2, <2>3, <2>4, <2>5 DEF AgreedOn
  <2>7. QED
    BY <1>1, <1>4, <2>6
<1>5. CASE ~b.bad /\ b.time \notin acc.conflicts /\ ~(b.time \in DOMAIN acc.rows /\ acc.rows[b.time] # b)
  <2>1. q = [acc EXCEPT !.rows = [u \in DOMAIN acc.rows \cup {b.time} |-> IF u = b.time THEN b ELSE acc.rows[u]]]
    BY <1>1, <1>5 DEF ReadItem
  <2>2. /\ DOMAIN q = {"rows", "conflicts"} /\ q.conflicts = acc.conflicts
        /\ DOMAIN q.rows = DOMAIN acc.rows \cup {b.time}
        /\ \A t \in DOMAIN q.rows : q.rows[t] = IF t = b.time THEN b ELSE acc.rows[t]
    BY <2>1 DEF AgreedOn
  <2>3. \A c \in V : c.time = b.time => c = b
    BY <1>5 DEF AgreedOn
  <2>4. \A t : t \in q.conflicts <=> \E c, d \in V \cup {b} : c.time = t /\ d.time = t /\ c # d
    BY <2>2, <2>3 DEF AgreedOn
  <2>5. \A t : t \in DOMAIN q.rows <=> t \notin q.conflicts /\ \E c \in V \cup {b} : c.time = t
    BY <1>5, <2>2 DEF AgreedOn
  <2>6. \A t \in DOMAIN q.rows : q.rows[t] \in V \cup {b} /\ q.rows[t].time = t
    BY <2>2 DEF AgreedOn
  <2>7. AgreedOn(q, V \cup {b})
    BY <2>2, <2>4, <2>5, <2>6 DEF AgreedOn
  <2>8. QED
    BY <1>1, <1>5, <2>7
<1>6. QED
  BY <1>2, <1>3, <1>4, <1>5

\* The recursion of Parsed, unfolded.
LEMMA ParsedIs ==
  ASSUME NEW ws \in Seq(Items)
  PROVE  \E h : /\ h[0] = NoBars /\ \A i \in 1..Len(ws) : h[i] = ReadItem(h[i - 1], ws[i])
                /\ Parsed(ws) = ToSet(h[Len(ws)].rows)
<1> DEFINE Good(m) == \E g : g = [i \in 0..m |-> IF i = 0 THEN NoBars ELSE ReadItem(g[i - 1], ws[i])]
           Bad == {m \in Nat : ~Good(m)}
<1>1. ASSUME Bad # {} PROVE FALSE
  <2>1. PICK m \in Bad : \A y \in Bad : m <= y
    <3>1. Bad \in SUBSET Nat
      OBVIOUS
    <3> HIDE DEF Bad
    <3>2. QED
      BY <1>1, <3>1, LeastOf
  <2>2. CASE m = 0
    <3>1. PICK g : g = [i \in 0..0 |-> NoBars]
      OBVIOUS
    <3>2. g = [i \in 0..0 |-> IF i = 0 THEN NoBars ELSE ReadItem(g[i - 1], ws[i])]
      BY <3>1
    <3>3. QED
      BY <2>2, <3>2
  <2>3. CASE m # 0
    <3>1. m \in Nat /\ m - 1 \in Nat /\ Good(m - 1)
      <4> HIDE DEF Good
      <4>1. m \in Nat /\ m - 1 \in Nat /\ ~(m <= m - 1)
        BY <2>1, <2>3
      <4>2. m - 1 \notin Bad
        BY <2>1, <4>1
      <4>3. QED
        BY <4>1, <4>2
    <3>2. PICK g : g = [i \in 0..(m - 1) |-> IF i = 0 THEN NoBars ELSE ReadItem(g[i - 1], ws[i])]
      BY <3>1
    <3>3. PICK d : d = [i \in 0..m |-> IF i < m THEN g[i] ELSE ReadItem(g[m - 1], ws[m])]
      OBVIOUS
    <3>4. \A i \in 0..m : d[i] = IF i = 0 THEN NoBars ELSE ReadItem(d[i - 1], ws[i])
      <4>1. \A i \in 0..(m - 1) : d[i] = g[i]
        BY <3>1, <3>3
      <4>2. d[m] = ReadItem(g[m - 1], ws[m])
        BY <3>1, <3>3
      <4>3. d[m] = ReadItem(d[m - 1], ws[m])
        BY <2>3, <3>1, <4>1, <4>2
      <4>4. \A i \in 0..(m - 1) : g[i] = IF i = 0 THEN NoBars ELSE ReadItem(g[i - 1], ws[i])
        BY <3>2
      <4>5. \A i \in 0..(m - 1) : d[i] = IF i = 0 THEN NoBars ELSE ReadItem(d[i - 1], ws[i])
        <5> SUFFICES ASSUME NEW i \in 0..(m - 1) PROVE d[i] = IF i = 0 THEN NoBars ELSE ReadItem(d[i - 1], ws[i])
          OBVIOUS
        <5>1. CASE i = 0
          BY <4>1, <4>4, <5>1
        <5>2. CASE i # 0
          <6>1. i - 1 \in 0..(m - 1) /\ d[i - 1] = g[i - 1] /\ d[i] = g[i]
            BY <3>1, <4>1, <5>2
          <6>2. QED
            BY <4>4, <5>2, <6>1
        <5>3. QED
          BY <5>1, <5>2
      <4>6. \A i \in 0..m : i \in 0..(m - 1) \/ i = m
        BY <3>1
      <4>7. QED
        BY <2>3, <4>3, <4>5, <4>6
    <3>5. d = [i \in 0..m |-> IF i = 0 THEN NoBars ELSE ReadItem(d[i - 1], ws[i])]
      <4>1. d = [i \in 0..m |-> d[i]]
        BY <3>3
      <4>2. QED
        BY <3>4, <4>1
    <3>6. Good(m)
      BY <3>5
    <3>7. QED
      BY <2>1, <3>6
  <2>4. QED
    BY <2>2, <2>3
<1>2. Len(ws) \in Nat
  OBVIOUS
<1>3. Good(Len(ws))
  BY <1>1, <1>2
<1> DEFINE h == CHOOSE g : g = [i \in 0..Len(ws) |-> IF i = 0 THEN NoBars ELSE ReadItem(g[i - 1], ws[i])]
<1>4. h = [i \in 0..Len(ws) |-> IF i = 0 THEN NoBars ELSE ReadItem(h[i - 1], ws[i])]
  BY <1>3
<1>5. Parsed(ws) = ToSet(h[Len(ws)].rows)
  BY DEF Parsed, NoBars
<1> HIDE DEF h
<1>6. \A i \in 0..Len(ws) : h[i] = IF i = 0 THEN NoBars ELSE ReadItem(h[i - 1], ws[i])
  BY <1>4
<1>7. QED
  BY <1>2, <1>5, <1>6

\* Whatever the items, what is read are the bars of the times whose valid items agree.
LEMMA ReadsAlike == ASSUME items \in Seq(Items) PROVE ReadAlike
<1>1. PICK h : /\ h[0] = NoBars /\ \A i \in 1..Len(items) : h[i] = ReadItem(h[i - 1], items[i])
               /\ Parsed(items) = ToSet(h[Len(items)].rows)
  BY ParsedIs
<1>2. Len(items) \in Nat /\ DOMAIN items = 1..Len(items)
  OBVIOUS
<1> DEFINE V(m) == {b \in {items[i] : i \in 1..m} : ~b.bad}
           Good(m) == AgreedOn(h[m], V(m))
           Bad == {m \in 0..Len(items) : ~Good(m)}
<1>3. Good(0)
  <2>1. V(0) = {}
    OBVIOUS
  <2>2. h[0] = NoBars /\ DOMAIN NoBars = {"rows", "conflicts"} /\ NoBars.conflicts = {} /\ DOMAIN NoBars.rows = {}
    BY <1>1 DEF NoBars
  <2>3. QED
    BY <2>1, <2>2 DEF AgreedOn
<1>4. ASSUME NEW m \in 1..Len(items), Good(m - 1) PROVE Good(m)
  <2>1. PICK b : b = items[m]
    OBVIOUS
  <2>2. V(m) = IF b.bad THEN V(m - 1) ELSE V(m - 1) \cup {b}
    BY <1>2, <2>1
  <2>3. h[m] = ReadItem(h[m - 1], b)
    BY <1>1, <2>1
  <2> HIDE DEF V
  <2>4. AgreedOn(ReadItem(h[m - 1], b), IF b.bad THEN V(m - 1) ELSE V(m - 1) \cup {b})
    BY <1>4, ReadItemAgrees
  <2>5. QED
    BY <2>2, <2>3, <2>4
<1> HIDE DEF Good
<1>5. ASSUME Bad # {} PROVE FALSE
  <2>1. Bad \in SUBSET Nat
    OBVIOUS
  <2>2. PICK m \in Bad : \A y \in Bad : m <= y
    <3> HIDE DEF Bad
    <3>1. QED
      BY <1>5, <2>1, LeastOf
  <2>3. m # 0
    BY <1>3
  <2>4. m \in 1..Len(items) /\ m - 1 \in 0..Len(items) /\ m - 1 < m
    BY <1>2, <2>3
  <2>5. Good(m - 1)
    BY <2>2, <2>4
  <2>6. QED
    BY <1>4, <2>4, <2>5
<1>6. Good(Len(items))
  BY <1>2, <1>5
<1>7. PICK acc, W : acc = h[Len(items)] /\ W = {b \in ToSet(items) : ~b.bad}
  OBVIOUS
<1>8. V(Len(items)) = W
  BY <1>2, <1>7 DEF ToSet
<1>9. AgreedOn(acc, W)
  BY <1>6, <1>7, <1>8 DEF Good
<1>10. ToSet(acc.rows) = {b \in W : \A c \in W : c.time = b.time => c = b}
  <2>1. \A b \in ToSet(acc.rows) : b \in W /\ \A c \in W : c.time = b.time => c = b
    <3> SUFFICES ASSUME NEW t \in DOMAIN acc.rows PROVE acc.rows[t] \in W /\ \A c \in W : c.time = acc.rows[t].time => c = acc.rows[t]
      BY DEF ToSet
    <3>1. QED
      BY <1>9 DEF AgreedOn
  <2>2. ASSUME NEW b \in W, \A c \in W : c.time = b.time => c = b PROVE b \in ToSet(acc.rows)
    <3>1. b.time \notin acc.conflicts
      BY <1>9, <2>2 DEF AgreedOn
    <3>2. b.time \in DOMAIN acc.rows /\ acc.rows[b.time] = b
      BY <1>9, <2>2, <3>1 DEF AgreedOn
    <3>3. QED
      BY <3>2 DEF ToSet
  <2>3. QED
    BY <2>1, <2>2
<1>11. {b \in W : \A c \in W : c.time = b.time => c = b}
         = {b \in ToSet(items) : ~b.bad /\ \A c \in ToSet(items) : ~c.bad /\ c.time = b.time => c = b}
  BY <1>7
<1>12. QED
  BY <1>1, <1>7, <1>10, <1>11 DEF ReadAlike

(* ------------------------------- the results ------------------------------- *)

LEMMA SupplyStays == ASSUME SupplyInv, UNCHANGED svars PROVE SupplyInv'
<1>1. mem' = mem /\ UNCHANGED redis /\ get' = get /\ asked' = asked /\ pipe' = pipe
  BY DEF svars
<1>2. QED
  BY <1>1, BudgetStays DEF SupplyInv

LEMMA LookupsInvStep == ASSUME LookupsInv, [LookupsNext]_<<hvars, items, svars>> PROVE LookupsInv'
<1>1. CASE HistoryNext /\ UNCHANGED <<items, svars>>
  BY <1>1, HistoryInvStep, SupplyStays DEF LookupsInv
<1>2. CASE NextItem /\ UNCHANGED <<hvars, svars>>
  <2>1. SupplyInv'
    BY <1>2, SupplyStays DEF LookupsInv
  <2>2. QED
    BY <1>2, <2>1 DEF NextItem, LookupsInv, HistoryInv, HistoryTypes, Running, hvars
<1>3. CASE SupplyNext /\ UNCHANGED <<hvars, items>>
  BY <1>3, SupplyInvStep DEF LookupsInv, HistoryInv, HistoryTypes, Running, hvars
<1>4. CASE UNCHANGED <<hvars, items, svars>>
  <2>1. SupplyInv'
    BY <1>4, SupplyStays DEF LookupsInv
  <2>2. QED
    BY <1>4, <2>1 DEF LookupsInv, HistoryInv, HistoryTypes, Running, hvars
<1>5. QED
  BY <1>1, <1>2, <1>3, <1>4 DEF LookupsNext

(* The slots are those of the requests that run, every lookup is accounted for *)
(* by a record or by a failure of Redis, and what waits for a supply waits     *)
(* behind the queue.                                                           *)
THEOREM LookupsInductive == LookupsSpec => []LookupsInv
<1>1. HistoryInit /\ SupplyInit /\ items = <<>> => LookupsInv
  BY HistoryInvInit, SupplyInvInit DEF LookupsInv
<1>2. LookupsInv /\ [LookupsNext]_<<hvars, items, svars>> => LookupsInv'
  BY LookupsInvStep
<1>3. QED
  BY <1>1, <1>2, PTL DEF LookupsSpec

(* LookupsRight: no slot is lost under any errors, retries and close; one      *)
(* process never sends a fourth lookup and restarts buy none but for calls to  *)
(* Redis that failed, each of which buys a bounded number; and the order of    *)
(* the rows of an answer does not matter, however long it is.                  *)
THEOREM LookupsStayRight == LookupsSpec => []LookupsRight
<1>1. ASSUME BudgetInv PROVE BudgetKept
  <2>1. /\ MaxTries \in Nat /\ unread \in Nat /\ unsaved \in Nat /\ asked.ever \in Nat /\ asked.life \in Nat
        /\ Due \in Nat /\ Spent(mem) \in 0..MaxTries /\ Spent(store) \in 0..MaxTries
    BY <1>1, LookupsAssumption DEF BudgetInv, Supplying, SupplyRecords, Due, Spent
  <2>2. asked.life <= MaxTries
    BY <1>1, <2>1 DEF BudgetInv
  <2>3. asked.ever + Due <= Lent + Spent(store)
    BY <1>1 DEF BudgetInv
  <2>4. PICK k \in Nat : k = MaxTries * unread
    BY <2>1
  <2>5. MaxTries * (1 + unread) = MaxTries + k /\ Lent = k + unsaved
    BY <2>1, <2>4 DEF Lent
  <2>6. asked.ever <= MaxTries * (1 + unread) + unsaved
    BY <2>1, <2>3, <2>4, <2>5
  <2>7. QED
    BY <2>2, <2>6 DEF BudgetKept
<1>2. ASSUME HistoryInv PROVE SlotsKept
  BY <1>2 DEF HistoryInv, Running, SlotsKept
<1>3. LookupsInv => LookupsRight
  BY <1>1, <1>2, ReadsAlike DEF LookupsInv, LookupsRight, SupplyInv
<1>4. QED
  BY <1>3, LookupsInductive, PTL

(* Trades of a project reach the queue in their order, whether they waited for *)
(* the supply or brought a market cap of their own, and those that waited      *)
(* together in that of the market, whatever else came meanwhile.               *)
THEOREM TradesHandedOnInOrder == LookupsSpec => []HandedOnInOrder
<1>1. LookupsInv => HandedOnInOrder
  BY DEF LookupsInv, SupplyInv, InOrder, HandedOnInOrder, AllFollow, Follows
<1>2. QED
  BY <1>1, LookupsInductive, PTL

(* --------------------------------- Shards --------------------------------- *)

ShardsSpec == ShardsInit /\ [][ShardsNext]_fvars

Projects == ToSet(ByKey)
IsSeq(s) == s \in Seq(ToSet(s))
Held(c) == c.has \cup (c.after \ Unasked)
ConnTypes(c) ==
  /\ DOMAIN c = {"id", "projects", "has", "after", "state"}
  /\ c.id \in Nat \ {0} /\ c.projects \in Seq(Projects) /\ c.has \subseteq Projects
  /\ c.after = Unasked \/ c.after \subseteq Projects
  /\ c.state \in {"hello", "open", "set", "dead"}
Distinct(cs) == \A i, j \in 1..Len(cs) : cs[i].id = cs[j].id => i = j
Apart(cs) == \A c, d \in ToSet(cs) : c # d => Wants(c) \cap Wants(d) = {}
Carries(c, want, cap) ==
  Len(c.projects) <= cap /\ Wants(c) \subseteq want /\ IsInjective(c.projects)
(* A request is answered before the next one is made, and made after a hello.  *)
InTurn(c) == (c.state # "set" => c.has = {}) /\ (c.state \in {"hello", "dead"} => c.after = Unasked)
(* The connections and what each is to carry.                                  *)
Spread(cs, want, cap, id) ==
  /\ IsSeq(cs) /\ Distinct(cs) /\ Apart(cs)
  /\ \A c \in ToSet(cs) : ConnTypes(c) /\ Carries(c, want, cap) /\ InTurn(c) /\ c.id < id
(* A project that is not astray is held by one connection at most, by the one  *)
(* that is to carry it while it is wanted, and has the session of that one.    *)
Owned(p, cs, want, session) ==
  /\ \A c, d \in ToSet(cs) : p \in Held(c) /\ p \in Held(d) => c = d
  /\ \A c \in ToSet(cs) : p \in Held(c) /\ p \in want => p \in Wants(c)
  /\ \A c \in ToSet(cs) : p \in c.has => session = c.id
  /\ session # 0 => \E c \in ToSet(cs) : p \in c.has
(* What the projects are dealt out of, and what there always is.               *)
Dealing(cs) ==
  /\ Spread(cs, desired, capacity, newId)
  /\ desired \subseteq Projects /\ capacity \in Nat \ {0} /\ newId \in Nat \ {0}
  /\ sessions \in [Projects -> Nat] /\ shifted = {}
  /\ \A p \in Projects \ astray : Owned(p, cs, desired, sessions[p])
ShardsInv == Dealing(conns) /\ \A c \in ToSet(conns) : c.projects # <<>>

(* --------------------- recursion, and parts of sequences ------------------- *)

\* The members of a sequence.
LEMMA ToSetIs ==
  ASSUME NEW S, NEW s \in Seq(S)
  PROVE  /\ IsSeq(s) /\ Len(s) \in Nat /\ DOMAIN s = 1..Len(s)
         /\ ToSet(s) = {s[i] : i \in 1..Len(s)} /\ ToSet(s) \subseteq S
<1>1. Len(s) \in Nat /\ DOMAIN s = 1..Len(s) /\ s \in [1..Len(s) -> S]
  OBVIOUS
<1>2. ToSet(s) = {s[i] : i \in 1..Len(s)}
  BY <1>1 DEF ToSet
<1>3. s \in [1..Len(s) -> ToSet(s)]
  BY <1>1, <1>2
<1>4. s \in Seq(ToSet(s))
  BY <1>1, <1>3
<1>5. QED
  BY <1>1, <1>2, <1>4 DEF IsSeq

LEMMA OnlyDoes ==
  ASSUME NEW S, NEW s \in Seq(S), NEW W
  PROVE  LET r == Only(s, W) IN
         /\ r \in Seq(S) /\ Len(r) <= Len(s) /\ ToSet(r) = ToSet(s) \cap W
         /\ IsInjective(s) => IsInjective(r)
<1>1. Len(s) \in Nat /\ DOMAIN s = 1..Len(s) /\ \A i \in 1..Len(s) : s[i] \in S
  OBVIOUS
<1> DEFINE G == [i \in 1..Len(s) |-> [r \in Seq(S) |-> IF s[i] \in W THEN Append(r, s[i]) ELSE r]]
<1>2. G \in [1..Len(s) -> [Seq(S) -> Seq(S)]]
  BY <1>1
<1>3. PICK h \in [0..Len(s) -> Seq(S)] : h[0] = <<>> /\ \A i \in 1..Len(s) : h[i] = G[i][h[i - 1]]
  <2>1. <<>> \in Seq(S)
    OBVIOUS
  <2> HIDE DEF G
  <2>2. PICK n, V, a, g : n = Len(s) /\ V = Seq(S) /\ a = <<>> /\ g = G
    OBVIOUS
  <2>3. n \in Nat /\ a \in V /\ g \in [1..n -> [V -> V]]
    BY <1>1, <1>2, <2>1, <2>2
  <2>4. \E h : Steps(h, n, V, a, g)
    BY <2>3, RecursionIs
  <2>5. QED
    BY <2>2, <2>4 DEF Steps
<1>4. ASSUME NEW i \in 1..Len(s)
      PROVE  i - 1 \in 0..Len(s) /\ h[i - 1] \in Seq(S)
             /\ h[i] = IF s[i] \in W THEN Append(h[i - 1], s[i]) ELSE h[i - 1]
  <2>1. i - 1 \in 0..Len(s)
    BY <1>1
  <2>2. PICK r \in Seq(S) : r = h[i - 1]
    BY <1>3, <2>1
  <2>3. G[i][r] = IF s[i] \in W THEN Append(r, s[i]) ELSE r
    OBVIOUS
  <2>4. QED
    BY <1>3, <2>1, <2>2, <2>3
<1> HIDE DEF G
<1>5. Only(s, W) = h[Len(s)]
  <2> DEFINE Is(g) == g = [i \in 0..Len(s) |-> IF i = 0 THEN <<>> ELSE IF s[i] \in W THEN Append(g[i - 1], s[i]) ELSE g[i - 1]]
             c == CHOOSE g : Is(g)
  <2>1. Is(h)
    <3>1. \A i \in 0..Len(s) : h[i] = IF i = 0 THEN <<>> ELSE IF s[i] \in W THEN Append(h[i - 1], s[i]) ELSE h[i - 1]
      <4> SUFFICES ASSUME NEW i \in 0..Len(s)
                   PROVE  h[i] = IF i = 0 THEN <<>> ELSE IF s[i] \in W THEN Append(h[i - 1], s[i]) ELSE h[i - 1]
        OBVIOUS
      <4>1. i # 0 => i \in 1..Len(s)
        BY <1>1
      <4>2. QED
        BY <1>3, <1>4, <4>1
    <3>2. h = [i \in 0..Len(s) |-> h[i]]
      BY <1>3
    <3>3. QED
      BY <3>1, <3>2
  <2>2. Is(c)
    <3> HIDE DEF Is
    <3>1. QED
      BY <2>1
  <2>3. Only(s, W) = c[Len(s)]
    BY DEF Only
  <2> HIDE DEF c
  <2>4. \A i \in 0..Len(s) : c[i] = IF i = 0 THEN <<>> ELSE IF s[i] \in W THEN Append(c[i - 1], s[i]) ELSE c[i - 1]
    BY <2>2
  <2> DEFINE Bad == {i \in 0..Len(s) : c[i] # h[i]}
  <2>5. ASSUME Bad # {} PROVE FALSE
    <3>1. Bad \in SUBSET Nat
      OBVIOUS
    <3>2. PICK m \in Bad : \A y \in Bad : m <= y
      <4> HIDE DEF Bad
      <4>1. QED
        BY <2>5, <3>1, LeastOf
    <3>3. m # 0
      BY <1>1, <1>3, <2>4
    <3>4. m \in 1..Len(s) /\ m - 1 \in 0..Len(s) /\ ~(m <= m - 1)
      BY <1>1, <3>3
    <3>5. c[m - 1] = h[m - 1]
      BY <3>2, <3>4
    <3>6. QED
      BY <1>4, <2>4, <3>3, <3>4, <3>5
  <2>6. QED
    BY <1>1, <2>3, <2>5
<1> DEFINE Good(m) == /\ Len(h[m]) <= m
                      /\ ToSet(h[m]) = {s[i] : i \in 1..m} \cap W
                      /\ IsInjective(s) => IsInjective(h[m])
           Bad == {m \in 0..Len(s) : ~Good(m)}
<1>6. Good(0)
  <2>1. h[0] = <<>> /\ ToSet(h[0]) = {} /\ IsInjective(h[0]) /\ Len(h[0]) = 0 /\ 1..0 = {}
    BY <1>3 DEF ToSet, IsInjective
  <2>2. QED
    BY <2>1
<1>7. ASSUME NEW m \in 1..Len(s), Good(m - 1) PROVE Good(m)
  <2>1. PICK r, q : r = h[m - 1] /\ q = h[m]
    OBVIOUS
  <2>2. /\ r \in Seq(S) /\ Len(r) <= m - 1 /\ ToSet(r) = {s[i] : i \in 1..(m - 1)} \cap W
        /\ IsInjective(s) => IsInjective(r)
    BY <1>4, <1>7, <2>1
  <2>3. q = IF s[m] \in W THEN Append(r, s[m]) ELSE r
    BY <1>4, <2>1
  <2>4. \A i \in 1..m : i \in 1..(m - 1) \/ i = m
    OBVIOUS
  <2>5. {s[i] : i \in 1..m} = {s[i] : i \in 1..(m - 1)} \cup {s[m]}
    <3>1. 1..(m - 1) \subseteq 1..m /\ m \in 1..m
      BY <1>1
    <3>2. QED
      BY <2>4, <3>1
  <2>6. CASE s[m] \in W
    <3>1. q = Append(r, s[m]) /\ s[m] \in S
      BY <1>1, <2>3, <2>6
    <3>2. /\ Len(r) \in Nat /\ DOMAIN r = 1..Len(r) /\ DOMAIN q = 1..(Len(r) + 1) /\ Len(q) = Len(r) + 1
          /\ \A i \in 1..Len(r) : q[i] = r[i]
          /\ q[Len(r) + 1] = s[m]
      BY <2>2, <3>1
    <3>3. \A i \in 1..(Len(r) + 1) : i \in 1..Len(r) \/ i = Len(r) + 1
      BY <3>2
    <3>4. ToSet(q) = ToSet(r) \cup {s[m]}
      <4>1. 1..Len(r) \subseteq 1..(Len(r) + 1) /\ Len(r) + 1 \in 1..(Len(r) + 1)
        BY <3>2
      <4>2. QED
        BY <3>2, <3>3, <4>1 DEF ToSet
    <3>5. ASSUME IsInjective(s) PROVE IsInjective(q)
      <4>1. s[m] \notin ToSet(r)
        <5>1. \A i \in 1..(m - 1) : i \in 1..Len(s) /\ m \in 1..Len(s) /\ i # m
          BY <1>1
        <5>2. \A i \in 1..(m - 1) : s[i] # s[m]
          BY <1>1, <3>5, <5>1 DEF IsInjective
        <5>3. QED
          BY <2>2, <5>2
      <4>2. \A i \in 1..Len(r) : r[i] \in ToSet(r)
        BY <3>2 DEF ToSet
      <4>3. \A i, j \in 1..Len(r) : r[i] = r[j] => i = j
        BY <2>2, <3>2, <3>5 DEF IsInjective
      <4>4. \A i, j \in 1..(Len(r) + 1) : q[i] = q[j] => i = j
        BY <3>2, <3>3, <4>1, <4>2, <4>3
      <4>5. QED
        BY <3>2, <4>4 DEF IsInjective
    <3>6. Len(q) <= m
      BY <2>2, <3>2
    <3>7. QED
      BY <2>1, <2>2, <2>5, <2>6, <3>4, <3>5, <3>6
  <2>7. CASE s[m] \notin W
    <3>1. Len(r) <= m
      BY <2>2
    <3>2. QED
      BY <2>1, <2>2, <2>3, <2>5, <2>7, <3>1
  <2>8. QED
    BY <2>6, <2>7
<1> HIDE DEF Good
<1>8. ASSUME Bad # {} PROVE FALSE
  <2>1. Bad \in SUBSET Nat
    OBVIOUS
  <2>2. PICK m \in Bad : \A y \in Bad : m <= y
    <3> HIDE DEF Bad
    <3>1. QED
      BY <1>8, <2>1, LeastOf
  <2>3. m # 0
    BY <1>6
  <2>4. m \in 1..Len(s) /\ m - 1 \in 0..Len(s) /\ ~(m <= m - 1)
    BY <1>1, <2>3
  <2>5. QED
    BY <1>7, <2>2, <2>4
<1>9. Good(Len(s))
  BY <1>1, <1>8
<1>10. h[Len(s)] \in Seq(S) /\ ToSet(s) = {s[i] : i \in 1..Len(s)}
  BY <1>1, <1>3 DEF ToSet
<1>11. QED
  BY <1>5, <1>9, <1>10 DEF Good

LEMMA CarryingDoes ==
  ASSUME NEW cs, IsSeq(cs), Distinct(cs), NEW W
  PROVE  LET r == Only(cs, W) IN IsSeq(r) /\ Distinct(r) /\ ToSet(r) = ToSet(cs) \cap W
<1>1. PICK r, S : r = Only(cs, W) /\ S = ToSet(cs)
  OBVIOUS
<1>2. cs \in Seq(S)
  BY <1>1 DEF IsSeq
<1>3. /\ Len(cs) \in Nat /\ DOMAIN cs = 1..Len(cs) /\ ToSet(cs) = {cs[i] : i \in 1..Len(cs)}
  BY <1>2, ToSetIs
<1>4. IsInjective(cs)
  BY <1>3 DEF Distinct, IsInjective
<1>5. r \in Seq(S) /\ ToSet(r) = ToSet(cs) \cap W /\ IsInjective(r)
  BY <1>1, <1>2, <1>4, OnlyDoes
<1>6. IsSeq(r) /\ Len(r) \in Nat /\ DOMAIN r = 1..Len(r) /\ ToSet(r) = {r[i] : i \in 1..Len(r)}
  BY <1>5, ToSetIs
<1>7. ASSUME NEW i \in 1..Len(r), NEW j \in 1..Len(r), r[i].id = r[j].id PROVE i = j
  <2>1. PICK x \in 1..Len(cs) : r[i] = cs[x]
    BY <1>3, <1>5, <1>6
  <2>2. PICK y \in 1..Len(cs) : r[j] = cs[y]
    BY <1>3, <1>5, <1>6
  <2>3. x = y
    BY <1>7, <2>1, <2>2 DEF Distinct
  <2>4. QED
    BY <1>5, <1>6, <2>1, <2>2, <2>3 DEF IsInjective
<1>8. Distinct(r)
  BY <1>7 DEF Distinct
<1>9. QED
  BY <1>1, <1>5, <1>6, <1>8

\* Members with the same number are the same.
LEMMA SameId ==
  ASSUME NEW cs, IsSeq(cs), Distinct(cs), NEW c \in ToSet(cs), NEW d \in ToSet(cs), c.id = d.id
  PROVE  c = d
<1>1. /\ Len(cs) \in Nat /\ ToSet(cs) = {cs[i] : i \in 1..Len(cs)}
  BY ToSetIs DEF IsSeq
<1>2. PICK i \in 1..Len(cs), j \in 1..Len(cs) : c = cs[i] /\ d = cs[j]
  BY <1>1
<1>3. QED
  BY <1>2 DEF Distinct

LEMMA KeptByDoes ==
  ASSUME NEW c, c.projects \in Seq(Projects), IsInjective(c.projects), NEW want, NEW cap \in Nat \ {0}
  PROVE  LET k == KeptBy(c, want, cap) IN
         /\ k \in Seq(Projects) /\ IsInjective(k) /\ Len(k) <= cap /\ ToSet(k) \subseteq Wants(c) \cap want
         /\ Len(c.projects) <= cap => ToSet(k) = Wants(c) \cap want
<1>1. PICK ps, n, k : ps = Only(c.projects, want) /\ n = Less(Len(ps), cap) /\ k = SubSeq(ps, 1, n)
  OBVIOUS
<1>2. k = KeptBy(c, want, cap)
  BY <1>1 DEF KeptBy
<1>3. /\ ps \in Seq(Projects) /\ Len(ps) <= Len(c.projects) /\ ToSet(ps) = Wants(c) \cap want /\ IsInjective(ps)
  BY <1>1, OnlyDoes DEF Wants
<1>4. Len(ps) \in Nat /\ Len(c.projects) \in Nat /\ DOMAIN ps = 1..Len(ps)
  BY <1>3
<1>5. n \in Nat /\ n <= Len(ps) /\ n <= cap /\ (Len(ps) <= cap => n = Len(ps))
  BY <1>1, <1>4 DEF Less
<1>6. k \in Seq(Projects) /\ Len(k) = n /\ \A i \in 1..n : k[i] = ps[i]
  BY <1>1, <1>3, <1>4, <1>5
<1>7. DOMAIN k = 1..n /\ 1..n \subseteq 1..Len(ps)
  <2>1. DOMAIN k = 1..Len(k)
    BY <1>6
  <2>2. 1..n \subseteq 1..Len(ps)
    <3>1. PICK m \in Nat : m = Len(ps)
      BY <1>4
    <3>2. n \in Nat /\ n <= m
      BY <1>5, <3>1
    <3>3. QED
      BY <3>1, <3>2
  <2>3. QED
    BY <1>6, <2>1, <2>2
<1>8. IsInjective(k)
  BY <1>3, <1>4, <1>6, <1>7 DEF IsInjective
<1>9. ToSet(k) \subseteq ToSet(ps)
  BY <1>4, <1>6, <1>7 DEF ToSet
<1>10. ASSUME Len(c.projects) <= cap PROVE ToSet(k) = ToSet(ps)
  <2>1. Len(ps) <= cap
    BY <1>3, <1>4, <1>10
  <2>2. n = Len(ps)
    BY <1>5, <2>1
  <2>3. QED
    BY <1>4, <1>6, <1>7, <2>2 DEF ToSet
<1>11. QED
  BY <1>2, <1>3, <1>5, <1>6, <1>8, <1>9, <1>10

LEMMA UptoDoes ==
  ASSUME NEW cs, Len(cs) \in Nat, NEW n \in Nat, NEW cap \in Nat \ {0}, \A i \in 1..Len(cs) : Len(cs[i].projects) \in Nat
  PROVE  LET u == Upto(cs, n, cap) IN
         /\ \A i \in 0..Len(cs) : u[i] \in 0..n
         /\ \A i \in 1..Len(cs) : u[i - 1] <= u[i] /\ u[i] <= u[i - 1] + SpareRoom(cs[i], cap)
         /\ \A i, j \in 0..Len(cs) : i <= j => u[i] <= u[j]
<1> DEFINE G == [i \in 1..Len(cs) |-> [r \in 0..n |-> Less(n, r + SpareRoom(cs[i], cap))]]
<1>1. \A i \in 1..Len(cs) : SpareRoom(cs[i], cap) \in Nat
  BY DEF SpareRoom
<1>2. \A i \in 1..Len(cs), r \in 0..n : /\ Less(n, r + SpareRoom(cs[i], cap)) \in 0..n
                                       /\ r <= Less(n, r + SpareRoom(cs[i], cap))
                                       /\ Less(n, r + SpareRoom(cs[i], cap)) <= r + SpareRoom(cs[i], cap)
  BY <1>1 DEF Less
<1>3. G \in [1..Len(cs) -> [0..n -> 0..n]]
  BY <1>2
<1>4. PICK h \in [0..Len(cs) -> 0..n] : h[0] = 0 /\ \A i \in 1..Len(cs) : h[i] = G[i][h[i - 1]]
  <2> HIDE DEF G
  <2>1. PICK m, V, a, g : m = Len(cs) /\ V = 0..n /\ a = 0 /\ g = G
    OBVIOUS
  <2>2. m \in Nat /\ a \in V /\ g \in [1..m -> [V -> V]]
    BY <1>3, <2>1
  <2>3. \E h : Steps(h, m, V, a, g)
    BY <2>2, RecursionIs
  <2>4. QED
    BY <2>1, <2>3 DEF Steps
<1>5. ASSUME NEW i \in 1..Len(cs)
      PROVE  i - 1 \in 0..Len(cs) /\ i \in 0..Len(cs) /\ h[i - 1] \in 0..n /\ h[i] = Less(n, h[i - 1] + SpareRoom(cs[i], cap))
  <2>1. i - 1 \in 0..Len(cs) /\ i \in 0..Len(cs)
    OBVIOUS
  <2>2. PICK r \in 0..n : r = h[i - 1]
    BY <1>4, <2>1
  <2>3. G[i][r] = Less(n, r + SpareRoom(cs[i], cap))
    OBVIOUS
  <2>4. QED
    BY <1>4, <2>1, <2>2, <2>3
<1> HIDE DEF G
<1>6. Upto(cs, n, cap) = h
  <2> DEFINE Is(g) == g = [i \in 0..Len(cs) |-> IF i = 0 THEN 0 ELSE Less(n, g[i - 1] + SpareRoom(cs[i], cap))]
             c == CHOOSE g : Is(g)
  <2>1. Is(h)
    <3>1. \A i \in 0..Len(cs) : h[i] = IF i = 0 THEN 0 ELSE Less(n, h[i - 1] + SpareRoom(cs[i], cap))
      <4> SUFFICES ASSUME NEW i \in 0..Len(cs)
                   PROVE  h[i] = IF i = 0 THEN 0 ELSE Less(n, h[i - 1] + SpareRoom(cs[i], cap))
        OBVIOUS
      <4>1. i # 0 => i \in 1..Len(cs)
        OBVIOUS
      <4>2. QED
        BY <1>4, <1>5, <4>1
    <3>2. h = [i \in 0..Len(cs) |-> h[i]]
      BY <1>4
    <3>3. QED
      BY <3>1, <3>2
  <2>2. Is(c)
    <3> HIDE DEF Is
    <3>1. QED
      BY <2>1
  <2>3. Upto(cs, n, cap) = c
    BY DEF Upto
  <2> HIDE DEF c
  <2>4. /\ c = [i \in 0..Len(cs) |-> c[i]]
        /\ \A i \in 0..Len(cs) : c[i] = IF i = 0 THEN 0 ELSE Less(n, c[i - 1] + SpareRoom(cs[i], cap))
    BY <2>2
  <2> DEFINE Bad == {i \in 0..Len(cs) : c[i] # h[i]}
  <2>5. ASSUME Bad # {} PROVE FALSE
    <3>1. Bad \in SUBSET Nat
      OBVIOUS
    <3>2. PICK m \in Bad : \A y \in Bad : m <= y
      <4> HIDE DEF Bad
      <4>1. QED
        BY <2>5, <3>1, LeastOf
    <3>3. m # 0
      BY <1>4, <2>4
    <3>4. m \in 1..Len(cs) /\ m - 1 \in 0..Len(cs) /\ ~(m <= m - 1)
      BY <3>3
    <3>5. c[m - 1] = h[m - 1]
      BY <3>2, <3>4
    <3>6. QED
      BY <1>5, <2>4, <3>3, <3>4, <3>5
  <2>6. c = h
    BY <1>4, <2>4, <2>5
  <2>7. QED
    BY <2>3, <2>6
<1>7. \A i \in 1..Len(cs) : h[i - 1] <= h[i] /\ h[i] <= h[i - 1] + SpareRoom(cs[i], cap)
  BY <1>2, <1>5
<1>8. \A i \in 0..Len(cs) : h[i] \in Nat
  BY <1>4
<1>9. ASSUME NEW i \in 0..Len(cs) PROVE \A j \in 0..Len(cs) : i <= j => h[i] <= h[j]
  <2> DEFINE Bad == {j \in 0..Len(cs) : i <= j /\ ~(h[i] <= h[j])}
  <2>1. ASSUME Bad # {} PROVE FALSE
    <3>1. Bad \in SUBSET Nat
      OBVIOUS
    <3>2. PICK m \in Bad : \A y \in Bad : m <= y
      <4> HIDE DEF Bad
      <4>1. QED
        BY <2>1, <3>1, LeastOf
    <3>3. m # i
      BY <1>8
    <3>4. m \in 1..Len(cs) /\ m - 1 \in 0..Len(cs) /\ ~(m <= m - 1) /\ i <= m - 1
      BY <3>3
    <3>5. h[i] <= h[m - 1]
      BY <3>2, <3>4
    <3>6. h[m - 1] <= h[m] /\ h[m - 1] \in Nat /\ h[m] \in Nat /\ h[i] \in Nat
      BY <1>7, <1>8, <3>4
    <3>7. h[i] <= h[m]
      BY <3>5, <3>6
    <3>8. QED
      BY <3>7
  <2>2. QED
    BY <2>1
<1>10. QED
  BY <1>4, <1>6, <1>7, <1>9

LEMMA SliceDoes ==
  ASSUME NEW rest \in Seq(Projects), IsInjective(rest), NEW x \in 0..Len(rest), NEW y \in 0..Len(rest), x <= y
  PROVE  LET s == SubSeq(rest, x + 1, y) IN
         s \in Seq(Projects) /\ Len(s) = y - x /\ IsInjective(s) /\ ToSet(s) = {rest[k] : k \in (x + 1)..y}
<1>1. PICK s : s = SubSeq(rest, x + 1, y)
  OBVIOUS
<1>2. PICK n \in Nat : n = Len(rest)
  OBVIOUS
<1>3. x \in Nat /\ y \in Nat /\ x <= n /\ y <= n /\ DOMAIN rest = 1..n
  BY <1>2
<1>4. s \in Seq(Projects) /\ Len(s) = y - x /\ \A k \in 1..(y - x) : s[k] = rest[x + k]
  <2>1. x + 1 \in Int /\ y \in Int /\ \A k \in x + 1..y : rest[k] \in Projects
    BY <1>2, <1>3
  <2>2. /\ s \in Seq(Projects) /\ Len(s) = (IF x + 1 <= y THEN y - (x + 1) + 1 ELSE 0)
        /\ \A k \in 1..y - (x + 1) + 1 : s[k] = rest[x + 1 + k - 1]
    BY <1>1, <2>1, SubSeqProperties
  <2>3. Len(s) = y - x
    BY <1>3, <2>2
  <2>4. ASSUME NEW k \in 1..(y - x) PROVE s[k] = rest[x + k]
    <3>1. k \in 1..y - (x + 1) + 1 /\ x + 1 + k - 1 = x + k
      BY <1>3
    <3>2. QED
      BY <2>2, <3>1
  <2>5. QED
    BY <2>2, <2>3, <2>4
<1>5. DOMAIN s = 1..(y - x)
  <2>1. DOMAIN s = 1..Len(s)
    BY <1>4
  <2>2. QED
    BY <1>4, <2>1
<1>6. IsInjective(s)
  <2>1. \A k \in 1..(y - x) : x + k \in 1..n
    BY <1>3
  <2>2. ASSUME NEW k \in 1..(y - x), NEW m \in 1..(y - x), s[k] = s[m] PROVE k = m
    <3>1. x + k = x + m
      BY <1>3, <1>4, <2>1, <2>2 DEF IsInjective
    <3>2. QED
      BY <1>3, <3>1
  <2>3. QED
    BY <1>5, <2>2 DEF IsInjective
<1>7. ToSet(s) = {rest[k] : k \in (x + 1)..y}
  <2>1. ToSet(s) = {s[k] : k \in 1..(y - x)}
    BY <1>5 DEF ToSet
  <2>2. \A k \in 1..(y - x) : x + k \in (x + 1)..y
    BY <1>3
  <2>3. \A k \in (x + 1)..y : k - x \in 1..(y - x) /\ s[k - x] = rest[k]
    <3>1. \A k \in (x + 1)..y : k - x \in 1..(y - x) /\ x + (k - x) = k
      BY <1>3
    <3>2. QED
      BY <1>4, <3>1
  <2>4. ToSet(s) \subseteq {rest[k] : k \in (x + 1)..y}
    BY <1>4, <2>1, <2>2
  <2>5. {rest[k] : k \in (x + 1)..y} \subseteq ToSet(s)
    BY <2>1, <2>3
  <2>6. QED
    BY <2>4, <2>5
<1>8. QED
  BY <1>1, <1>4, <1>6, <1>7

LEMMA JoinDoes ==
  ASSUME NEW p \in Seq(Projects), NEW s \in Seq(Projects), IsInjective(p), IsInjective(s), ToSet(p) \cap ToSet(s) = {}
  PROVE  LET j == p \o s IN
         j \in Seq(Projects) /\ Len(j) = Len(p) + Len(s) /\ IsInjective(j) /\ ToSet(j) = ToSet(p) \cup ToSet(s)
<1>1. PICK j : j = p \o s
  OBVIOUS
<1>2. PICK m \in Nat, n \in Nat : m = Len(p) /\ n = Len(s)
  OBVIOUS
<1>3. j \in Seq(Projects) /\ Len(j) = m + n
  BY <1>1, <1>2
<1>4. DOMAIN p = 1..m /\ DOMAIN s = 1..n /\ DOMAIN j = 1..(m + n)
  <2>1. DOMAIN j = 1..Len(j)
    BY <1>3
  <2>2. QED
    BY <1>2, <1>3, <2>1
<1>5. \A i \in 1..m : i \in 1..(m + n) /\ j[i] = p[i]
  BY <1>1, <1>2
<1>6. \A i \in 1..n : m + i \in 1..(m + n) /\ j[m + i] = s[i]
  BY <1>1, <1>2
<1>7. \A i \in 1..(m + n) : \/ i \in 1..m
                            \/ i - m \in 1..n /\ i = m + (i - m)
  BY <1>2
<1>8. \A i \in 1..(m + n) : \/ i \in 1..m /\ j[i] = p[i] /\ j[i] \in ToSet(p)
                            \/ i - m \in 1..n /\ j[i] = s[i - m] /\ j[i] \in ToSet(s)
  BY <1>4, <1>5, <1>6, <1>7 DEF ToSet
<1>9. ToSet(j) = ToSet(p) \cup ToSet(s)
  <2>1. ToSet(j) = {j[i] : i \in 1..(m + n)}
    BY <1>4 DEF ToSet
  <2>2. ToSet(p) \subseteq ToSet(j)
    BY <1>4, <1>5, <2>1 DEF ToSet
  <2>3. ToSet(s) \subseteq ToSet(j)
    BY <1>4, <1>6, <2>1 DEF ToSet
  <2>4. ToSet(j) \subseteq ToSet(p) \cup ToSet(s)
    BY <1>8, <2>1
  <2>5. QED
    BY <2>2, <2>3, <2>4
<1>10. ASSUME NEW i \in 1..(m + n), NEW k \in 1..(m + n), j[i] = j[k] PROVE i = k
  <2>1. CASE i \in 1..m /\ j[i] = p[i] /\ j[i] \in ToSet(p)
    <3>1. k \in 1..m /\ j[k] = p[k]
      BY <1>8, <1>10, <2>1
    <3>2. QED
      BY <1>4, <1>10, <2>1, <3>1 DEF IsInjective
  <2>2. CASE i - m \in 1..n /\ j[i] = s[i - m] /\ j[i] \in ToSet(s)
    <3>1. k - m \in 1..n /\ j[k] = s[k - m]
      BY <1>8, <1>10, <2>2
    <3>2. i - m = k - m
      BY <1>4, <1>10, <2>2, <3>1 DEF IsInjective
    <3>3. QED
      BY <3>2
  <2>3. QED
    BY <1>8, <2>1, <2>2
<1>11. IsInjective(j)
  BY <1>4, <1>10 DEF IsInjective
<1>12. QED
  BY <1>1, <1>2, <1>3, <1>9, <1>11

\* A connection before and after it is given more to carry.
Same(c, d) == d.id = c.id /\ d.has = c.has /\ d.after = c.after /\ d.state = c.state
Grown(c, d, ps) == Same(c, d) /\ Wants(c) \subseteq Wants(d) /\ Wants(d) \subseteq Wants(c) \cup ps
Fit(c, cap) == ConnTypes(c) /\ Len(c.projects) <= cap /\ IsInjective(c.projects)

Fillable(cs, rest, cap) ==
  /\ IsSeq(cs) /\ Distinct(cs) /\ Apart(cs) /\ \A c \in ToSet(cs) : Fit(c, cap)
  /\ rest \in Seq(Projects) /\ IsInjective(rest) /\ \A c \in ToSet(cs) : Wants(c) \cap ToSet(rest) = {}
FilledWith(cs, ds, rest, left, cap) ==
  /\ IsSeq(ds) /\ Distinct(ds) /\ Apart(ds)
  /\ \A d \in ToSet(ds) : Fit(d, cap) /\ \E c \in ToSet(cs) : Grown(c, d, ToSet(rest))
  /\ \A c \in ToSet(cs) : \E d \in ToSet(ds) : Grown(c, d, ToSet(rest))
  /\ ToSet(left) \subseteq ToSet(rest) /\ \A d \in ToSet(ds) : Wants(d) \cap ToSet(left) = {}

LEMMA FillDoes ==
  ASSUME NEW cs, NEW cap \in Nat \ {0}, NEW rest, Fillable(cs, rest, cap)
  PROVE  LET f == Fill(cs, rest, cap) IN FilledWith(cs, f.cs, rest, f.rest, cap)
<1> USE DEF Fillable
<1>1. PICK n \in Nat, N \in Nat : n = Len(cs) /\ N = Len(rest)
  BY ToSetIs DEF IsSeq
<1>0. PICK u : u = Upto(cs, Len(rest), cap)
  OBVIOUS
<1>2. DOMAIN cs = 1..n /\ ToSet(cs) = {cs[i] : i \in 1..n} /\ DOMAIN rest = 1..N /\ ToSet(rest) = {rest[k] : k \in 1..N}
  BY <1>1, ToSetIs DEF IsSeq
<1>3. \A i \in 1..n : Fit(cs[i], cap) /\ Len(cs[i].projects) \in Nat /\ cs[i].projects \in Seq(Projects)
  BY <1>2 DEF Fit, ConnTypes
<1>4. /\ \A i \in 0..n : u[i] \in 0..N
      /\ \A i \in 1..n : u[i - 1] <= u[i] /\ u[i] <= u[i - 1] + SpareRoom(cs[i], cap)
      /\ \A i, j \in 0..n : i <= j => u[i] <= u[j]
  BY <1>0, <1>1, <1>3, UptoDoes
<1> DEFINE slice(i) == SubSeq(rest, u[i - 1] + 1, u[i])
           new(i) == [cs[i] EXCEPT !.projects = cs[i].projects \o slice(i)]
<1>5. PICK ds : ds = [i \in 1..n |-> new(i)]
  OBVIOUS
<1>6. PICK left : left = SubSeq(rest, u[n] + 1, N)
  OBVIOUS
<1>7. Fill(cs, rest, cap).cs = ds /\ Fill(cs, rest, cap).rest = left
  BY <1>0, <1>1, <1>2, <1>5, <1>6 DEF Fill
<1>8. ASSUME NEW i \in 1..n
      PROVE  /\ slice(i) \in Seq(Projects) /\ Len(slice(i)) = u[i] - u[i - 1] /\ IsInjective(slice(i))
             /\ ToSet(slice(i)) = {rest[k] : k \in (u[i - 1] + 1)..u[i]} /\ ToSet(slice(i)) \subseteq ToSet(rest)
  <2>1. i - 1 \in 0..n /\ i \in 0..n
    OBVIOUS
  <2>2. PICK x \in 0..N, y \in 0..N : x = u[i - 1] /\ y = u[i] /\ x <= y
    BY <1>4, <2>1
  <2>3. LET s == SubSeq(rest, x + 1, y) IN
        s \in Seq(Projects) /\ Len(s) = y - x /\ IsInjective(s) /\ ToSet(s) = {rest[k] : k \in (x + 1)..y}
    BY <1>1, <2>2, SliceDoes
  <2>4. (x + 1)..y \subseteq 1..N
    OBVIOUS
  <2>5. PICK s : s = SubSeq(rest, x + 1, y)
    OBVIOUS
  <2>6. s \in Seq(Projects) /\ Len(s) = y - x /\ IsInjective(s) /\ ToSet(s) = {rest[k] : k \in (x + 1)..y}
    BY ONLY <2>3, <2>5
  <2>7. ToSet(s) \subseteq ToSet(rest)
    BY ONLY <1>2, <2>4, <2>6
  <2>8. slice(i) = s
    BY ONLY <2>2, <2>5
  <2>9. QED
    BY ONLY <2>2, <2>6, <2>7, <2>8
<1>9. ASSUME NEW i \in 1..n
      PROVE  /\ ds[i].projects \in Seq(Projects) /\ Len(ds[i].projects) <= cap /\ IsInjective(ds[i].projects)
             /\ Wants(ds[i]) = Wants(cs[i]) \cup ToSet(slice(i))
             /\ Same(cs[i], ds[i]) /\ ConnTypes(ds[i])
  <2>1. PICK p, s, j : p = cs[i].projects /\ s = slice(i) /\ j = p \o s
    OBVIOUS
  <2>2. /\ p \in Seq(Projects) /\ IsInjective(p) /\ Len(p) <= cap /\ ConnTypes(cs[i]) /\ Len(p) \in Nat
        /\ s \in Seq(Projects) /\ IsInjective(s) /\ Len(s) = u[i] - u[i - 1] /\ ToSet(s) \subseteq ToSet(rest)
    BY <1>3, <1>8, <2>1 DEF Fit
  <2>3. ToSet(p) \cap ToSet(s) = {}
    BY <1>2, <2>1, <2>2 DEF Wants
  <2>4. j \in Seq(Projects) /\ Len(j) = Len(p) + Len(s) /\ IsInjective(j) /\ ToSet(j) = ToSet(p) \cup ToSet(s)
    BY <2>1, <2>2, <2>3, JoinDoes
  <2>5. Len(j) <= cap
    <3>1. PICK x \in Nat, y \in Nat, m \in Nat : x = u[i - 1] /\ y = u[i] /\ m = Len(p)
      <4>1. i - 1 \in 0..n /\ i \in 0..n
        OBVIOUS
      <4>2. QED
        BY <1>4, <2>2, <4>1
    <3>2. y <= x + SpareRoom(cs[i], cap) /\ SpareRoom(cs[i], cap) = IF cap > m THEN cap - m ELSE 0
      BY <1>4, <2>1, <3>1 DEF SpareRoom
    <3>3. m <= cap /\ Len(j) = m + (y - x)
      BY <2>2, <2>4, <3>1
    <3>4. QED
      BY <3>1, <3>2, <3>3, SMTT(30)
  <2>6. ds[i] = [cs[i] EXCEPT !.projects = j]
    BY <1>5, <2>1
  <2>7. /\ DOMAIN ds[i] = DOMAIN cs[i] /\ ds[i].projects = j /\ ds[i].id = cs[i].id /\ ds[i].has = cs[i].has
        /\ ds[i].after = cs[i].after /\ ds[i].state = cs[i].state
    BY <2>2, <2>6 DEF ConnTypes
  <2>8. QED
    BY <2>1, <2>2, <2>4, <2>5, <2>7 DEF ConnTypes, Same, Wants
<1> HIDE DEF new, slice
<1>10. Len(ds) = n /\ DOMAIN ds = 1..n /\ IsSeq(ds) /\ ToSet(ds) = {ds[i] : i \in 1..n}
  <2>1. ds \in [1..n -> {ds[i] : i \in 1..n}]
    BY <1>5
  <2>2. ds \in Seq({ds[i] : i \in 1..n})
    BY <2>1, SMTT(30)
  <2>3. Len(ds) = n
    BY <2>1
  <2>4. QED
    BY <2>2, <2>3, ToSetIs
<1>11. Distinct(ds)
  BY <1>1, <1>9, <1>10 DEF Distinct, Same
<1> DEFINE span(i) == (u[i - 1] + 1)..u[i]
<1>12. ASSUME NEW i \in 1..n, NEW j \in 1..n, i < j PROVE ToSet(slice(i)) \cap ToSet(slice(j)) = {}
  <2>1. /\ ToSet(slice(i)) = {rest[k] : k \in (u[i - 1] + 1)..u[i]}
        /\ ToSet(slice(j)) = {rest[k] : k \in (u[j - 1] + 1)..u[j]}
    BY <1>8
  <2>2. PICK a \in 0..N, b \in 0..N, c \in 0..N, d \in 0..N : a = u[i - 1] /\ b = u[i] /\ c = u[j - 1] /\ d = u[j]
    <3>1. i - 1 \in 0..n /\ i \in 0..n /\ j - 1 \in 0..n /\ j \in 0..n
      OBVIOUS
    <3>2. QED
      BY <1>4, <3>1
  <2>3. b <= c
    <3>1. i \in 0..n /\ j - 1 \in 0..n /\ i <= j - 1
      BY <1>12
    <3>2. QED
      BY <1>4, <2>2, <3>1
  <2>4. \A k \in (a + 1)..b, m \in (c + 1)..d : k \in 1..N /\ m \in 1..N /\ k # m
    BY <2>3
  <2>5. \A k \in (a + 1)..b, m \in (c + 1)..d : rest[k] # rest[m]
    BY <1>2, <2>4 DEF IsInjective
  <2>6. QED
    BY <2>1, <2>2, <2>5
<1>13. ASSUME NEW i \in 1..n, NEW j \in 1..n, i # j PROVE Wants(ds[i]) \cap Wants(ds[j]) = {}
  <2>1. ToSet(slice(i)) \cap ToSet(slice(j)) = {}
    <3>1. i < j \/ j < i
      BY <1>13
    <3>2. QED
      BY <1>12, <3>1
  <2>2. cs[i] # cs[j]
    BY <1>1, <1>13 DEF Distinct
  <2>3. Wants(cs[i]) \cap Wants(cs[j]) = {}
    BY <1>2, <2>2 DEF Apart
  <2>4. Wants(ds[i]) = Wants(cs[i]) \cup ToSet(slice(i)) /\ Wants(ds[j]) = Wants(cs[j]) \cup ToSet(slice(j))
    BY <1>9
  <2>5. ToSet(slice(i)) \subseteq ToSet(rest) /\ ToSet(slice(j)) \subseteq ToSet(rest)
    BY <1>8
  <2>6. Wants(cs[i]) \cap ToSet(rest) = {} /\ Wants(cs[j]) \cap ToSet(rest) = {}
    <3>1. cs[i] \in ToSet(cs) /\ cs[j] \in ToSet(cs)
      BY <1>2
    <3>2. QED
      BY <3>1
  <2>7. QED
    BY <2>1, <2>3, <2>4, <2>5, <2>6
<1>14. Apart(ds)
  BY <1>10, <1>13 DEF Apart
<1>15. ASSUME NEW i \in 1..n PROVE Fit(ds[i], cap) /\ Grown(cs[i], ds[i], ToSet(rest))
  BY <1>8, <1>9 DEF Fit, Grown
<1>16. PICK x \in 0..N : x = u[n]
  <2>1. n \in 0..n
    OBVIOUS
  <2>2. QED
    BY <1>4, <2>1
<1>17. ToSet(left) = {rest[k] : k \in (x + 1)..N} /\ ToSet(left) \subseteq ToSet(rest)
  <2>1. N \in 0..Len(rest) /\ x \in 0..Len(rest) /\ x <= N
    BY <1>1, <1>16
  <2>2. ToSet(SubSeq(rest, x + 1, N)) = {rest[k] : k \in (x + 1)..N}
    BY <2>1, SliceDoes
  <2>3. (x + 1)..N \subseteq 1..N
    BY <1>1
  <2>4. QED
    BY <1>2, <1>6, <1>16, <2>2, <2>3
<1>18. ASSUME NEW i \in 1..n PROVE Wants(ds[i]) \cap ToSet(left) = {}
  <2>1. ToSet(slice(i)) = {rest[k] : k \in (u[i - 1] + 1)..u[i]}
    BY <1>8
  <2>2. PICK a \in 0..N, b \in 0..N : a = u[i - 1] /\ b = u[i]
    <3>1. i - 1 \in 0..n /\ i \in 0..n
      OBVIOUS
    <3>2. QED
      BY <1>4, <3>1
  <2>3. b <= x
    <3>1. i \in 0..n /\ n \in 0..n /\ i <= n
      OBVIOUS
    <3>2. QED
      BY <1>4, <1>16, <2>2, <3>1
  <2>4. \A k \in (a + 1)..b, m \in (x + 1)..N : k \in 1..N /\ m \in 1..N /\ k # m
    BY <1>1, <2>3
  <2>5. \A k \in (a + 1)..b, m \in (x + 1)..N : rest[k] # rest[m]
    BY <1>2, <2>4 DEF IsInjective
  <2>6. ToSet(slice(i)) \cap ToSet(left) = {}
    BY <1>17, <2>1, <2>2, <2>5
  <2>7. QED
    <3>1. Wants(ds[i]) = Wants(cs[i]) \cup ToSet(slice(i))
      BY <1>9
    <3>2. cs[i] \in ToSet(cs)
      BY <1>2
    <3>3. Wants(cs[i]) \cap ToSet(rest) = {}
      BY <3>2
    <3>4. QED
      BY <1>17, <2>6, <3>1, <3>3
<1>19. \A d \in ToSet(ds) : Fit(d, cap) /\ (\E c \in ToSet(cs) : Grown(c, d, ToSet(rest))) /\ Wants(d) \cap ToSet(left) = {}
  <2> SUFFICES ASSUME NEW d \in ToSet(ds)
               PROVE  Fit(d, cap) /\ (\E c \in ToSet(cs) : Grown(c, d, ToSet(rest))) /\ Wants(d) \cap ToSet(left) = {}
    OBVIOUS
  <2>1. PICK i \in 1..n : d = ds[i]
    BY <1>10
  <2>2. cs[i] \in ToSet(cs)
    BY <1>2
  <2>3. QED
    BY <1>15, <1>18, <2>1, <2>2
<1>20. \A c \in ToSet(cs) : \E d \in ToSet(ds) : Grown(c, d, ToSet(rest))
  <2> SUFFICES ASSUME NEW c \in ToSet(cs) PROVE \E d \in ToSet(ds) : Grown(c, d, ToSet(rest))
    OBVIOUS
  <2>1. PICK i \in 1..n : c = cs[i]
    BY <1>2
  <2>2. ds[i] \in ToSet(ds)
    BY <1>10
  <2>3. QED
    BY <1>15, <2>1, <2>2
<1>21. QED
  BY <1>7, <1>10, <1>11, <1>14, <1>17, <1>19, <1>20 DEF FilledWith

KeptOf(cs, want, cap) == [i \in DOMAIN cs |-> [cs[i] EXCEPT !.projects = KeptBy(cs[i], want, cap)]]

KeptAs(cs, kept, want, most, cap) ==
  /\ IsSeq(kept) /\ Distinct(kept) /\ Apart(kept)
  /\ \A k \in ToSet(kept) : Fit(k, cap) /\ Wants(k) \subseteq want /\ \E c \in ToSet(cs) : Same(c, k)
  /\ \A c \in ToSet(cs) : \E k \in ToSet(kept) : Same(c, k) /\ (most <= cap => Wants(k) = Wants(c) \cap want)

LEMMA KeptDoes ==
  ASSUME NEW cs, NEW old, NEW most \in Nat \ {0}, NEW id, Spread(cs, old, most, id), NEW want, NEW cap \in Nat \ {0},
         NEW kept, kept = KeptOf(cs, want, cap)
  PROVE  KeptAs(cs, kept, want, most, cap)
<1>1. PICK n \in Nat : n = Len(cs)
  BY ToSetIs DEF Spread, IsSeq
<1>2. DOMAIN cs = 1..n /\ ToSet(cs) = {cs[i] : i \in 1..n}
  BY <1>1, ToSetIs DEF Spread, IsSeq
<1>3. PICK ks : ks = [i \in 1..n |-> [cs[i] EXCEPT !.projects = KeptBy(cs[i], want, cap)]]
  OBVIOUS
<1>4. ASSUME NEW i \in 1..n
      PROVE  /\ cs[i] \in ToSet(cs) /\ Same(cs[i], ks[i]) /\ Fit(ks[i], cap)
             /\ Wants(ks[i]) \subseteq want /\ Wants(ks[i]) \subseteq Wants(cs[i])
             /\ most <= cap => Wants(ks[i]) = Wants(cs[i]) \cap want
  <2>1. PICK c, p : c = cs[i] /\ p = KeptBy(c, want, cap)
    OBVIOUS
  <2>2. c \in ToSet(cs) /\ ConnTypes(c) /\ Len(c.projects) <= most /\ IsInjective(c.projects)
    BY <1>2, <2>1 DEF Spread, Carries
  <2>3. c.projects \in Seq(Projects) /\ Len(c.projects) \in Nat
    BY <2>2 DEF ConnTypes
  <2>4. /\ p \in Seq(Projects) /\ IsInjective(p) /\ Len(p) <= cap /\ ToSet(p) \subseteq Wants(c) \cap want
        /\ Len(c.projects) <= cap => ToSet(p) = Wants(c) \cap want
    BY <2>1, <2>2, <2>3, KeptByDoes
  <2>5. ks[i] = [c EXCEPT !.projects = p]
    BY <1>3, <2>1
  <2>6. /\ DOMAIN ks[i] = DOMAIN c /\ ks[i].projects = p /\ ks[i].id = c.id /\ ks[i].has = c.has
        /\ ks[i].after = c.after /\ ks[i].state = c.state
    BY <2>2, <2>5 DEF ConnTypes
  <2>7. Fit(ks[i], cap)
    BY <2>2, <2>4, <2>6 DEF Fit, ConnTypes
  <2>8. Wants(ks[i]) = ToSet(p)
    BY <2>6 DEF Wants
  <2>9. ASSUME most <= cap PROVE Len(c.projects) <= cap
    <3>1. PICK q : q = Len(c.projects) /\ q \in Nat /\ q <= most
      BY <2>2, <2>3
    <3>2. QED
      BY <2>9, <3>1
  <2>10. QED
    BY <2>1, <2>2, <2>4, <2>6, <2>7, <2>8, <2>9 DEF Same
<1>5. Len(ks) = n /\ DOMAIN ks = 1..n /\ IsSeq(ks) /\ ToSet(ks) = {ks[i] : i \in 1..n}
  <2>1. PICK S : S = {ks[i] : i \in 1..n}
    OBVIOUS
  <2>2. ks = [i \in 1..n |-> ks[i]] /\ \A i \in 1..n : ks[i] \in S
    BY <1>3, <2>1
  <2>3. ks \in [1..n -> S]
    BY <2>2
  <2>4. ks \in Seq(S) /\ Len(ks) = n
    BY <2>3
  <2>5. QED
    BY <2>4, ToSetIs
<1>6. Distinct(ks)
  BY <1>1, <1>4, <1>5 DEF Spread, Distinct, Same
<1>7. ASSUME NEW i \in 1..n, NEW j \in 1..n, ks[i] # ks[j] PROVE Wants(ks[i]) \cap Wants(ks[j]) = {}
  <2>1. cs[i] # cs[j]
    BY <1>1, <1>7 DEF Spread, Distinct
  <2>2. Wants(cs[i]) \cap Wants(cs[j]) = {}
    BY <1>4, <2>1 DEF Spread, Apart
  <2>3. Wants(ks[i]) \subseteq Wants(cs[i]) /\ Wants(ks[j]) \subseteq Wants(cs[j])
    BY <1>4
  <2>4. QED
    BY <2>2, <2>3
<1>8. Apart(ks)
  BY <1>5, <1>7 DEF Apart
<1>9. ASSUME NEW k \in ToSet(ks) PROVE Fit(k, cap) /\ Wants(k) \subseteq want /\ \E c \in ToSet(cs) : Same(c, k)
  BY <1>4, <1>5
<1>10. ASSUME NEW c \in ToSet(cs)
       PROVE  \E k \in ToSet(ks) : Same(c, k) /\ (most <= cap => Wants(k) = Wants(c) \cap want)
  <2>1. PICK i \in 1..n : c = cs[i]
    BY <1>2
  <2>2. ks[i] \in ToSet(ks)
    BY <1>5
  <2>3. QED
    BY <1>4, <2>1, <2>2
<1>11. kept = ks
  BY <1>2, <1>3 DEF KeptOf
<1>12. QED
  BY <1>5, <1>6, <1>8, <1>9, <1>10, <1>11 DEF KeptAs

LEMMA OfferedDoes ==
  ASSUME NEW cs, IsSeq(cs), Distinct(cs), Apart(cs), NEW cap \in Nat \ {0}, newId \in Nat \ {0},
         \A c \in ToSet(cs) : Fit(c, cap) /\ c.id < newId
  PROVE  LET o == cs \o Spare(MaxConns - Len(cs)) IN
         /\ IsSeq(o) /\ Distinct(o) /\ Apart(o) /\ ToSet(cs) \subseteq ToSet(o)
         /\ \A c \in ToSet(o) : /\ Fit(c, cap)
                                /\ c \in ToSet(cs) \/ \E k \in 1..MaxConns : c = Conn(newId + k - 1, <<>>)
<1>1. PICK n \in Nat : n = Len(cs) /\ DOMAIN cs = 1..n /\ ToSet(cs) = {cs[i] : i \in 1..n}
  BY ToSetIs DEF IsSeq
<1>2. PICK m \in Nat : m = (IF MaxConns > n THEN MaxConns - n ELSE 0) /\ 1..m = 1..(MaxConns - n) /\ m <= MaxConns
  <2>1. PICK k, j : k = MaxConns /\ j = IF k > n THEN k - n ELSE 0
    OBVIOUS
  <2>2. k \in Nat
    BY ONLY <2>1, ShardsAssumption DEF ShardsAssumption
  <2>3. n \in Nat
    OBVIOUS
  <2>4. j \in Nat /\ j <= k /\ 1..j = 1..(k - n)
    BY ONLY <2>1, <2>2, <2>3
  <2>5. QED
    BY ONLY <2>1, <2>4
<1>3. PICK sp : sp = [k \in 1..m |-> Conn(newId + k - 1, <<>>)]
  OBVIOUS
<1>4. sp = Spare(MaxConns - Len(cs))
  BY <1>1, <1>2, <1>3 DEF Spare
<1>5. PICK S : S = ToSet(cs) \cup {sp[k] : k \in 1..m}
  OBVIOUS
<1>6. cs \in Seq(S) /\ sp \in Seq(S) /\ Len(sp) = m
  <2>1. cs \in [1..n -> S] /\ sp \in [1..m -> S]
    <3>1. cs = [i \in 1..n |-> cs[i]] /\ \A i \in 1..n : cs[i] \in S
      <4>1. cs \in Seq(ToSet(cs))
        BY DEF IsSeq
      <4>2. QED
        BY <1>1, <1>5, <4>1
    <3>2. sp = [i \in 1..m |-> sp[i]] /\ \A i \in 1..m : sp[i] \in S
      BY <1>3, <1>5
    <3>3. QED
      BY <3>1, <3>2
  <2>2. QED
    BY <2>1
<1>7. PICK o : o = cs \o sp
  OBVIOUS
<1>8. o \in Seq(S) /\ Len(o) = n + m /\ IsSeq(o) /\ ToSet(o) = {o[i] : i \in 1..(n + m)}
  <2>1. o \in Seq(S)
    BY <1>6, <1>7
  <2>2. Len(o) = Len(cs) + Len(sp)
    <3>1. \A a, b \in Seq(S) : Len(a \o b) = Len(a) + Len(b)
      OBVIOUS
    <3>2. QED
      BY <1>6, <1>7, <3>1
  <2>3. Len(o) = n + m
    BY <1>1, <1>6, <2>2
  <2>4. QED
    BY <2>1, <2>3, ToSetIs
<1>9. \A i \in 1..n : o[i] = cs[i] /\ i \in 1..(n + m)
  <2> SUFFICES ASSUME NEW i \in 1..n PROVE o[i] = cs[i] /\ i \in 1..(n + m)
    OBVIOUS
  <2>1. i \in 1..Len(cs)
    BY <1>1
  <2>2. o[i] = cs[i]
    BY <1>6, <1>7, <2>1
  <2>3. QED
    BY <2>2
<1>10. ASSUME NEW i \in 1..(n + m), i \notin 1..n
       PROVE  /\ i - n \in 1..m /\ o[i] = Conn(newId + (i - n) - 1, <<>>) /\ i - n \in 1..MaxConns
              /\ o[i].id = newId + (i - n) - 1 /\ o[i].projects = <<>>
  <2>1. i - n \in 1..m /\ i - n \in 1..MaxConns
    BY <1>2, <1>10, ShardsAssumption
  <2>2. o[i] = sp[i - n]
    <3>1. PICK k \in 1..m : k = i - n
      BY <2>1
    <3>2. i = n + k /\ k \in 1..Len(sp)
      BY <1>6, <3>1
    <3>3. o[Len(cs) + k] = sp[k]
      BY <1>6, <1>7, <3>2
    <3>4. QED
      BY <1>1, <3>1, <3>2, <3>3
  <2>3. sp[i - n] = Conn(newId + (i - n) - 1, <<>>)
    BY <1>3, <2>1
  <2>4. QED
    BY <2>1, <2>2, <2>3 DEF Conn
<1>11. ASSUME NEW i \in 1..n PROVE cs[i] \in ToSet(cs) /\ cs[i].id \in Nat /\ cs[i].id < newId
  BY <1>1 DEF Fit, ConnTypes
<1>12. ASSUME NEW i \in 1..(n + m), NEW j \in 1..(n + m), o[i].id = o[j].id PROVE i = j
  <2>1. CASE i \in 1..n /\ j \in 1..n
    BY <1>1, <1>9, <1>12, <2>1 DEF Distinct
  <2>2. CASE i \in 1..n /\ j \notin 1..n
    BY <1>9, <1>10, <1>11, <1>12, <2>2
  <2>3. CASE i \notin 1..n /\ j \in 1..n
    BY <1>9, <1>10, <1>11, <1>12, <2>3
  <2>4. CASE i \notin 1..n /\ j \notin 1..n
    BY <1>10, <1>12, <2>4
  <2>5. QED
    BY <2>1, <2>2, <2>3, <2>4
<1>13. Distinct(o)
  BY <1>8, <1>12 DEF Distinct
<1>14. \A i \in 1..(n + m) : i \notin 1..n => Wants(o[i]) = {}
  BY <1>10 DEF Wants, ToSet
<1>15. Apart(o)
  <2> SUFFICES ASSUME NEW i \in 1..(n + m), NEW j \in 1..(n + m), o[i] # o[j] PROVE Wants(o[i]) \cap Wants(o[j]) = {}
    BY <1>8 DEF Apart
  <2>1. CASE i \in 1..n /\ j \in 1..n
    BY <1>9, <1>11, <2>1 DEF Apart
  <2>2. QED
    BY <1>14, <2>1
<1>16. ToSet(cs) \subseteq ToSet(o)
  BY <1>1, <1>8, <1>9
<1>17. ASSUME NEW i \in 1..(n + m)
       PROVE  Fit(o[i], cap) /\ (o[i] \in ToSet(cs) \/ \E k \in 1..MaxConns : o[i] = Conn(newId + k - 1, <<>>))
  <2>1. CASE i \in 1..n
    BY <1>9, <1>11, <2>1
  <2>2. CASE i \notin 1..n
    <3>1. PICK k \in 1..MaxConns : o[i] = Conn(newId + k - 1, <<>>)
      BY <1>10, <2>2
    <3>2. newId + k - 1 \in Nat \ {0}
      BY ShardsAssumption
    <3>3. PICK q : q = <<>>
      OBVIOUS
    <3>4. q \in Seq(Projects) /\ Len(q) = 0 /\ IsInjective(q)
      BY <3>3 DEF IsInjective
    <3>5. Fit(o[i], cap)
      BY <3>1, <3>2, <3>3, <3>4 DEF Fit, ConnTypes, Conn
    <3>6. QED
      BY <3>1, <3>5
  <2>3. QED
    BY <2>1, <2>2
<1>18. o = cs \o Spare(MaxConns - Len(cs))
  BY ONLY <1>4, <1>7
<1>19. ASSUME NEW c \in ToSet(o)
       PROVE  Fit(c, cap) /\ (c \in ToSet(cs) \/ \E k \in 1..MaxConns : c = Conn(newId + k - 1, <<>>))
  <2>1. PICK i \in 1..(n + m) : c = o[i]
    BY ONLY <1>8, <1>19
  <2>2. QED
    BY ONLY <1>17, <2>1
<1>20. IsSeq(o)
  BY ONLY <1>8
<1>21. QED
  BY ONLY <1>13, <1>15, <1>16, <1>18, <1>19, <1>20

\* What a connection has come to after the projects were dealt out again.
TakenUp(k, d) == Same(k, d) /\ Wants(k) \subseteq Wants(d)
Fresh(d) == d.has = {} /\ d.after = Unasked /\ d.state = "hello" /\ d.id \in newId..(newId + MaxConns - 1)

LEMMA EmptyIs == ASSUME NEW S, NEW s \in Seq(S) PROVE s = <<>> <=> ToSet(s) = {}
<1>1. ToSet(s) = {s[i] : i \in 1..Len(s)} /\ Len(s) \in Nat
  BY ToSetIs
<1>2. s = <<>> <=> Len(s) = 0
  OBVIOUS
<1>3. Len(s) # 0 => 1 \in 1..Len(s)
  BY <1>1
<1>4. Len(s) = 0 => 1..Len(s) = {}
  BY <1>1
<1>5. QED
  BY <1>1, <1>2, <1>3, <1>4

DealtAs(cs, kept, alive, all, want, most, cap, rest) ==
  /\ \A c \in ToSet(cs) : \E k \in ToSet(kept) : Same(c, k) /\ (most <= cap => Wants(k) = Wants(c) \cap want)
  /\ \A k \in ToSet(kept) : \E c \in ToSet(cs) : Same(c, k)
  /\ \A k \in ToSet(kept) : Wants(k) # {} => k \in ToSet(alive)
  /\ ToSet(alive) \subseteq ToSet(kept)
  /\ IsSeq(all) /\ Distinct(all) /\ Apart(all)
  /\ \A d \in ToSet(all) : /\ Fit(d, cap) /\ Wants(d) \subseteq want /\ d.projects # <<>>
                           /\ Fresh(d) \/ \E k \in ToSet(alive) : TakenUp(k, d)
  /\ \A k \in ToSet(alive) : \E d \in ToSet(all) : TakenUp(k, d)
  /\ ToSet(rest) \subseteq want /\ \A d \in ToSet(all) : Wants(d) \cap ToSet(rest) = {}

LEMMA DealDoes ==
  ASSUME NEW cs, NEW old, NEW most \in Nat \ {0}, Spread(cs, old, most, newId), newId \in Nat \ {0},
         NEW want \in SUBSET Projects, NEW cap \in Nat \ {0}, NEW kept, NEW alive, NEW dealt, NEW all,
         kept = KeptOf(cs, want, cap),
         alive = Carrying(kept),
         dealt = Fill(alive \o Spare(MaxConns - Len(alive)),
                      Only(ByKey, want \ UNION {Wants(c) : c \in ToSet(alive)}), cap),
         all = Carrying(dealt.cs)
  PROVE  DealtAs(cs, kept, alive, all, want, most, cap, dealt.rest)
<1>1. /\ IsSeq(kept) /\ Distinct(kept) /\ Apart(kept)
      /\ \A k \in ToSet(kept) : Fit(k, cap) /\ Wants(k) \subseteq want /\ \E c \in ToSet(cs) : Same(c, k)
      /\ \A c \in ToSet(cs) : \E k \in ToSet(kept) : Same(c, k) /\ (most <= cap => Wants(k) = Wants(c) \cap want)
  <2>1. KeptAs(cs, kept, want, most, cap)
    BY KeptDoes
  <2>2. QED
    BY <2>1 DEF KeptAs
<1>2. PICK W : W = {k \in ToSet(kept) : k.projects # <<>>}
  OBVIOUS
<1>3. IsSeq(alive) /\ Distinct(alive) /\ ToSet(alive) = W /\ W \subseteq ToSet(kept)
  <2>1. alive = Only(kept, W)
    BY <1>2 DEF Carrying
  <2>2. IsSeq(kept) /\ Distinct(kept)
    BY <1>1
  <2>3. IsSeq(alive) /\ Distinct(alive) /\ ToSet(alive) = ToSet(kept) \cap W
    BY <2>1, <2>2, CarryingDoes
  <2>4. QED
    BY <1>2, <2>3
<1>4. ASSUME NEW k \in ToSet(kept) PROVE Wants(k) # {} <=> k \in ToSet(alive)
  <2>1. k.projects \in Seq(Projects)
    BY <1>1, <1>4 DEF Fit, ConnTypes
  <2>2. Wants(k) # {} <=> k.projects # <<>>
    BY <2>1, EmptyIs DEF Wants
  <2>3. QED
    BY <1>2, <1>3, <1>4, <2>2
<1>5. Apart(alive)
  BY <1>1, <1>3 DEF Apart
<1>6. ASSUME NEW k \in ToSet(alive) PROVE Fit(k, cap) /\ k.id < newId /\ Wants(k) \subseteq want
  <2>1. PICK c \in ToSet(cs) : Same(c, k)
    BY <1>1, <1>3, <1>6
  <2>2. c.id < newId
    BY <2>1 DEF Spread
  <2>3. QED
    BY <1>1, <1>3, <1>6, <2>1, <2>2 DEF Same
<1>7. PICK o : o = alive \o Spare(MaxConns - Len(alive))
  OBVIOUS
<1>8. /\ IsSeq(o) /\ Distinct(o) /\ Apart(o) /\ ToSet(alive) \subseteq ToSet(o)
      /\ \A c \in ToSet(o) : /\ Fit(c, cap)
                             /\ c \in ToSet(alive) \/ \E k \in 1..MaxConns : c = Conn(newId + k - 1, <<>>)
  BY <1>3, <1>5, <1>6, <1>7, OfferedDoes
<1>9. PICK had : had = UNION {Wants(c) : c \in ToSet(alive)}
  OBVIOUS
<1>10. PICK rest : rest = Only(ByKey, want \ had)
  OBVIOUS
<1>11. rest \in Seq(Projects) /\ IsInjective(rest) /\ ToSet(rest) \subseteq want \ had
  <2>1. ByKey \in Seq(Projects) /\ IsInjective(ByKey)
    BY ShardsAssumption DEF Projects
  <2>2. rest \in Seq(Projects) /\ ToSet(rest) = ToSet(ByKey) \cap (want \ had) /\ IsInjective(rest)
    BY <1>10, <2>1, OnlyDoes
  <2>3. QED
    BY <2>2
<1>12. ASSUME NEW c \in ToSet(o), c \notin ToSet(alive)
       PROVE  Wants(c) = {} /\ Fresh(c)
  <2>1. PICK k \in 1..MaxConns : c = Conn(newId + k - 1, <<>>)
    BY <1>8, <1>12
  <2>2. c.projects = <<>> /\ c.has = {} /\ c.after = Unasked /\ c.state = "hello" /\ c.id = newId + k - 1
    BY <2>1 DEF Conn
  <2>3. Wants(c) = {}
    BY <2>2 DEF Wants, ToSet
  <2>4. newId + k - 1 \in newId..(newId + MaxConns - 1)
    BY ShardsAssumption
  <2>5. QED
    BY <2>2, <2>3, <2>4 DEF Fresh
<1>13. ASSUME NEW c \in ToSet(o) PROVE Wants(c) \cap ToSet(rest) = {} /\ Wants(c) \subseteq want
  <2>1. CASE c \in ToSet(alive)
    BY <1>6, <1>9, <1>11, <2>1
  <2>2. QED
    BY <1>12, <2>1
<1>14. dealt = Fill(o, rest, cap)
  BY <1>7, <1>9, <1>10
<1>15. PICK ds, left : ds = dealt.cs /\ left = dealt.rest
  OBVIOUS
<1>16. /\ IsSeq(ds) /\ Distinct(ds) /\ Apart(ds)
       /\ \A d \in ToSet(ds) : Fit(d, cap) /\ \E c \in ToSet(o) : Grown(c, d, ToSet(rest))
       /\ \A c \in ToSet(o) : \E d \in ToSet(ds) : Grown(c, d, ToSet(rest))
       /\ ToSet(left) \subseteq ToSet(rest) /\ \A d \in ToSet(ds) : Wants(d) \cap ToSet(left) = {}
  <2>1. \A c \in ToSet(o) : Fit(c, cap)
    BY <1>8
  <2>2. \A c \in ToSet(o) : Wants(c) \cap ToSet(rest) = {}
    BY <1>13
  <2>3. Fillable(o, rest, cap)
    BY <1>8, <1>11, <2>1, <2>2 DEF Fillable
  <2>4. FilledWith(o, ds, rest, left, cap)
    BY <1>14, <1>15, <2>3, FillDoes
  <2>5. QED
    BY <2>4 DEF FilledWith
<1>17. PICK V : V = {d \in ToSet(ds) : d.projects # <<>>}
  OBVIOUS
<1>18. IsSeq(all) /\ Distinct(all) /\ ToSet(all) = V /\ V \subseteq ToSet(ds)
  <2>1. all = Only(ds, V)
    BY <1>15, <1>17 DEF Carrying
  <2>2. IsSeq(all) /\ Distinct(all) /\ ToSet(all) = ToSet(ds) \cap V
    BY <1>16, <2>1, CarryingDoes
  <2>3. QED
    BY <1>17, <2>2
<1>19. Apart(all)
  BY <1>16, <1>18 DEF Apart
<1>20. ASSUME NEW d \in ToSet(all)
       PROVE  /\ Fit(d, cap) /\ Wants(d) \subseteq want /\ d.projects # <<>>
              /\ Fresh(d) \/ \E k \in ToSet(alive) : TakenUp(k, d)
  <2>1. d \in ToSet(ds) /\ d.projects # <<>>
    BY <1>17, <1>18, <1>20
  <2>2. PICK c \in ToSet(o) : Grown(c, d, ToSet(rest))
    BY <1>16, <2>1
  <2>3. Same(c, d) /\ Wants(c) \subseteq Wants(d) /\ Wants(d) \subseteq Wants(c) \cup ToSet(rest)
    BY <2>2 DEF Grown
  <2>4. Wants(d) \subseteq want
    BY <1>11, <1>13, <2>3
  <2>5. CASE c \in ToSet(alive)
    BY <1>16, <2>1, <2>3, <2>4, <2>5 DEF TakenUp
  <2>6. CASE c \notin ToSet(alive)
    <3>1. Fresh(d)
      BY <1>12, <2>3, <2>6 DEF Fresh, Same
    <3>2. QED
      BY <1>16, <2>1, <2>4, <3>1
  <2>7. QED
    BY <2>5, <2>6
<1>21. ASSUME NEW k \in ToSet(alive) PROVE \E d \in ToSet(all) : TakenUp(k, d)
  <2>1. PICK d \in ToSet(ds) : Grown(k, d, ToSet(rest))
    BY <1>8, <1>16, <1>21
  <2>2. Wants(k) # {} /\ Wants(k) \subseteq Wants(d) /\ Same(k, d)
    BY <1>3, <1>4, <1>21, <2>1 DEF Grown
  <2>3. d.projects \in Seq(Projects)
    BY <1>16, <2>1 DEF Fit, ConnTypes
  <2>4. d.projects # <<>>
    BY <2>2, <2>3, EmptyIs DEF Wants
  <2>5. QED
    BY <1>17, <1>18, <2>1, <2>2, <2>4 DEF TakenUp
<1>22. ToSet(left) \subseteq want /\ \A d \in ToSet(all) : Wants(d) \cap ToSet(left) = {}
  BY <1>11, <1>16, <1>18
<1>23. QED
  BY <1>1, <1>3, <1>4, <1>15, <1>18, <1>19, <1>20, <1>21, <1>22, SMTT(30) DEF DealtAs

LEMMA AtIs ==
  ASSUME NEW cs, Apart(cs), NEW c \in ToSet(cs), NEW p \in Wants(c)
  PROVE  At(cs, p) = {c.id}
<1>1. \A d \in ToSet(cs) : p \in Wants(d) <=> d = c
  BY DEF Apart
<1>2. QED
  BY <1>1 DEF At

(* What dealing them out leaves: ShardsInv of the next state.                  *)
LEMMA AssignDoes ==
  ASSUME NEW cs, Dealing(cs), NEW want \in SUBSET Projects, NEW cap \in Nat \ {0}, Assign(want, cs, cap)
  PROVE  /\ newId' \in Nat \ {0} /\ sessions' \in [Projects -> Nat] /\ shifted' = {}
         /\ Spread(conns', want, cap, newId') /\ \A c \in ToSet(conns') : c.projects # <<>>
         /\ \A p \in Projects \ astray' : Owned(p, conns', want, sessions'[p])
<1> USE DEF Dealing
<1>1. PICK kept, alive : kept = KeptOf(cs, want, cap) /\ alive = Carrying(kept)
  OBVIOUS
<1>2. PICK dealt, all :
        /\ dealt = Fill(alive \o Spare(MaxConns - Len(alive)),
                        Only(ByKey, want \ UNION {Wants(c) : c \in ToSet(alive)}), cap)
        /\ all = Carrying(dealt.cs)
  OBVIOUS
<1>3. PICK gone, rest : gone = {c \in ToSet(cs) : c.id \notin Ids(alive)} /\ rest = dealt.rest
  OBVIOUS
<1>4. /\ conns' = all /\ newId' = newId + (IF Ids(all) \subseteq Ids(alive) THEN 0 ELSE MaxConns)
      /\ sessions' = Unheard(Told(gone, rest))
      /\ astray' = astray \cup (UNION {Unwanted(c) : c \in gone})
                     \cup {p \in want : \E c \in ToSet(kept) : p \in Pending(c) /\ At(all, p) # {c.id}}
      /\ shifted' = shifted \cup {p \in want : cap = capacity /\ At(cs, p) \notin {{}, At(all, p)}}
  BY <1>1, <1>2, <1>3 DEF Assign, KeptOf
<1>5. /\ \A c \in ToSet(cs) : \E k \in ToSet(kept) : Same(c, k) /\ (capacity <= cap => Wants(k) = Wants(c) \cap want)
      /\ \A k \in ToSet(kept) : \E c \in ToSet(cs) : Same(c, k)
      /\ \A k \in ToSet(kept) : Wants(k) # {} => k \in ToSet(alive)
      /\ ToSet(alive) \subseteq ToSet(kept)
      /\ IsSeq(all) /\ Distinct(all) /\ Apart(all)
      /\ \A d \in ToSet(all) : /\ Fit(d, cap) /\ Wants(d) \subseteq want /\ d.projects # <<>>
                               /\ Fresh(d) \/ \E k \in ToSet(alive) : TakenUp(k, d)
      /\ \A k \in ToSet(alive) : \E d \in ToSet(all) : TakenUp(k, d)
      /\ ToSet(rest) \subseteq want /\ \A d \in ToSet(all) : Wants(d) \cap ToSet(rest) = {}
  <2>1. PICK old, most : old = desired /\ most = capacity
    OBVIOUS
  <2>2. Spread(cs, old, most, newId) /\ most \in Nat \ {0} /\ newId \in Nat \ {0}
    BY <2>1
  <2>3. DealtAs(cs, kept, alive, all, want, most, cap, dealt.rest)
    BY <1>1, <1>2, <2>2, DealDoes
  <2>4. QED
    BY <1>3, <2>1, <2>3 DEF DealtAs
<1>6. IsSeq(cs) /\ Distinct(cs) /\ Apart(cs)
      /\ \A c \in ToSet(cs) : ConnTypes(c) /\ Carries(c, desired, capacity) /\ InTurn(c) /\ c.id < newId
  BY DEF Spread
\* Where an old connection and a dealt one come from.
<1>7. ASSUME NEW k \in ToSet(alive)
      PROVE  \E c \in ToSet(cs), d \in ToSet(all) : Same(c, k) /\ TakenUp(k, d) /\ c.id \in Ids(alive)
  <2>1. PICK c \in ToSet(cs) : Same(c, k)
    BY <1>5, <1>7
  <2>2. c.id \in Ids(alive)
    BY <1>7, <2>1 DEF Ids, Same
  <2>3. QED
    BY <1>5, <1>7, <2>1, <2>2
<1>8. ASSUME NEW d \in ToSet(all), ~Fresh(d)
      PROVE  \E k \in ToSet(alive), c \in ToSet(cs) : Same(c, k) /\ TakenUp(k, d) /\ c.id \in Ids(alive)
  <2>1. PICK k \in ToSet(alive) : TakenUp(k, d)
    BY <1>5, <1>8
  <2>2. QED
    BY <1>7, <2>1
<1>9. newId' \in Nat \ {0} /\ newId <= newId'
  BY <1>4, ShardsAssumption
<1>10. ASSUME NEW d \in ToSet(all) PROVE ConnTypes(d) /\ Carries(d, want, cap) /\ InTurn(d) /\ d.id < newId'
  <2>1. ConnTypes(d) /\ Carries(d, want, cap) /\ d.id \in Nat
    BY <1>5, <1>10 DEF Fit, Carries, ConnTypes
  <2>2. CASE Fresh(d)
    <3>1. d.id \notin Ids(alive)
      <4> SUFFICES ASSUME NEW k \in ToSet(alive), k.id = d.id PROVE FALSE
        BY DEF Ids
      <4>1. PICK c \in ToSet(cs) : Same(c, k)
        BY <1>7
      <4>2. c.id < newId /\ c.id = d.id
        BY <1>6, <4>1 DEF Same
      <4>3. newId <= d.id
        BY <2>2 DEF Fresh
      <4>4. QED
        BY <2>1, <4>2, <4>3
    <3>2. newId' = newId + MaxConns
      BY <1>4, <1>10, <3>1 DEF Ids
    <3>3. d.id \in newId..(newId + MaxConns - 1) /\ InTurn(d)
      BY <2>2 DEF Fresh, InTurn
    <3>4. QED
      BY <2>1, <3>2, <3>3, ShardsAssumption
  <2>3. CASE ~Fresh(d)
    <3>1. PICK k \in ToSet(alive), c \in ToSet(cs) : Same(c, k) /\ TakenUp(k, d)
      BY <1>8, <1>10, <2>3
    <3>2. InTurn(c) /\ c.id < newId /\ Same(c, d)
      BY <1>6, <3>1 DEF TakenUp, Same
    <3>3. InTurn(d) /\ d.id < newId
      BY <3>2 DEF InTurn, Same
    <3>4. QED
      BY <1>9, <2>1, <3>3
  <2>4. QED
    BY <2>2, <2>3
<1>11. Spread(conns', want, cap, newId') /\ \A c \in ToSet(conns') : c.projects # <<>>
  BY <1>4, <1>5, <1>10 DEF Spread
<1>12. sessions' \in [Projects -> Nat] /\ \A p \in Projects : sessions'[p] = IF p \in Told(gone, rest) THEN 0 ELSE sessions[p]
  BY <1>4 DEF Unheard
<1>13. ASSUME NEW p \in want, cap = capacity, At(cs, p) # {} PROVE At(cs, p) = At(all, p)
  <2>1. PICK c \in ToSet(cs) : p \in Wants(c)
    BY <1>13 DEF At
  <2>2. PICK k \in ToSet(kept) : Same(c, k) /\ Wants(k) = Wants(c) \cap want
    BY <1>5, <1>13
  <2>3. p \in Wants(k) /\ k \in ToSet(alive)
    BY <1>5, <1>13, <2>1, <2>2
  <2>4. PICK d \in ToSet(all) : TakenUp(k, d)
    BY <1>5, <2>3
  <2>5. p \in Wants(d) /\ d.id = c.id
    BY <2>2, <2>3, <2>4 DEF TakenUp, Same
  <2>6. At(cs, p) = {c.id}
    BY <1>6, <2>1, AtIs
  <2>7. At(all, p) = {d.id}
    BY <1>5, <2>5, AtIs
  <2>8. QED
    BY <2>5, <2>6, <2>7
<1>14. shifted' = {}
  BY <1>4, <1>13
<1>15. ASSUME NEW p \in Projects \ astray'
       PROVE  Owned(p, all, want, sessions'[p])
  <2>1. p \notin astray /\ Owned(p, cs, desired, sessions[p])
    BY <1>4, <1>15
  <2>2. ASSUME NEW c \in gone PROVE p \notin Unwanted(c)
    BY <1>4, <1>15, <2>2
  <2>3. ASSUME p \in want, NEW k \in ToSet(kept), p \in Pending(k) PROVE At(all, p) = {k.id}
    BY <1>4, <1>15, <2>3
  \* A holder is one that held before, and is not closed.
  <2>4. ASSUME NEW d \in ToSet(all), p \in Held(d)
        PROVE  \E k \in ToSet(alive), c \in ToSet(cs) :
                 Same(c, k) /\ TakenUp(k, d) /\ c.id \in Ids(alive) /\ p \in Held(k) /\ p \in Held(c) /\ c.has = d.has /\ c.id = d.id
    <3>1. ~Fresh(d)
      BY <2>4 DEF Fresh, Held
    <3>2. PICK k \in ToSet(alive), c \in ToSet(cs) : Same(c, k) /\ TakenUp(k, d) /\ c.id \in Ids(alive)
      BY <1>8, <2>4, <3>1
    <3>3. c.has = d.has /\ c.after = d.after /\ c.id = d.id /\ k.has = d.has /\ k.after = d.after
      BY <3>2 DEF Same, TakenUp
    <3>4. p \in Held(k) /\ p \in Held(c)
      BY <2>4, <3>3 DEF Held
    <3>5. QED
      BY <3>2, <3>3, <3>4
  <2>5. ASSUME NEW d \in ToSet(all), NEW e \in ToSet(all), p \in Held(d), p \in Held(e) PROVE d = e
    <3>1. PICK c \in ToSet(cs) : p \in Held(c) /\ c.id = d.id
      BY <2>4, <2>5
    <3>2. PICK b \in ToSet(cs) : p \in Held(b) /\ b.id = e.id
      BY <2>4, <2>5
    <3>3. c = b
      BY <2>1, <3>1, <3>2 DEF Owned
    <3>4. d.id = e.id
      BY <3>1, <3>2, <3>3
    <3>5. QED
      BY <1>5, <2>5, <3>4, SameId
  <2>6. ASSUME NEW d \in ToSet(all), p \in Held(d), p \in want PROVE p \in Wants(d)
    <3>1. PICK k \in ToSet(alive) : TakenUp(k, d) /\ p \in Held(k)
      BY <2>4, <2>6
    <3>2. CASE p \in Wants(k)
      BY <3>1, <3>2 DEF TakenUp
    <3>3. CASE p \notin Wants(k)
      <4>1. p \in Pending(k) /\ k \in ToSet(kept)
        BY <1>5, <3>1, <3>3 DEF Pending, Held
      <4>2. At(all, p) = {k.id}
        BY <2>3, <2>6, <4>1
      <4>3. PICK e \in ToSet(all) : p \in Wants(e) /\ e.id = k.id
        BY <4>2 DEF At
      <4>4. e.id = d.id
        BY <3>1, <4>3 DEF TakenUp, Same
      <4>5. e = d
        BY <1>5, <2>6, <4>4, SameId
      <4>6. QED
        BY <4>3, <4>5
    <3>4. QED
      BY <3>2, <3>3
  <2>7. ASSUME NEW d \in ToSet(all), p \in d.has PROVE sessions'[p] = d.id
    <3>1. p \in Held(d)
      BY <2>7 DEF Held
    <3>2. PICK c \in ToSet(cs) : p \in Held(c) /\ c.has = d.has /\ c.id = d.id /\ c.id \in Ids(alive)
      BY <2>4, <2>7, <3>1
    <3>3. sessions[p] = d.id
      BY <2>1, <2>7, <3>2 DEF Owned
    <3>4. ASSUME NEW g \in gone, p \in Wants(g) PROVE FALSE
      <4>1. g \in ToSet(cs) /\ g # c
        BY <1>3, <3>2, <3>4
      <4>2. p \in desired
        BY <1>6, <3>4, <4>1 DEF Carries
      <4>3. p \in Wants(c)
        BY <2>1, <3>2, <4>2 DEF Owned
      <4>4. QED
        BY <1>6, <3>4, <4>1, <4>3 DEF Apart
    <3>5. p \notin ToSet(rest)
      <4>1. p \in ToSet(rest) => p \in want
        BY <1>5
      <4>2. QED
        BY <1>5, <2>6, <2>7, <3>1, <4>1
    <3>6. p \notin Told(gone, rest)
      <4>1. PICK U : U = UNION {Wants(g) : g \in gone}
        OBVIOUS
      <4>2. p \notin U
        BY <3>4, <4>1
      <4>3. Told(gone, rest) = U \cup ToSet(rest)
        BY <4>1 DEF Told
      <4>4. QED
        BY <3>5, <4>2, <4>3
    <3>7. QED
      BY <1>12, <3>3, <3>6
  <2>8. ASSUME sessions'[p] # 0 PROVE \E d \in ToSet(all) : p \in d.has
    <3>1. p \notin Told(gone, rest) /\ sessions[p] # 0
      BY <1>12, <2>8
    <3>2. PICK c \in ToSet(cs) : p \in c.has
      BY <2>1, <3>1 DEF Owned
    <3>3. c \notin gone
      BY <2>2, <3>1, <3>2 DEF Told, Unwanted
    <3>4. PICK k \in ToSet(alive) : k.id = c.id
      BY <1>3, <3>2, <3>3 DEF Ids
    <3>5. PICK b \in ToSet(cs), d \in ToSet(all) : Same(b, k) /\ TakenUp(k, d)
      BY <1>7
    <3>6. b = c
      <4>1. b.id = c.id
        BY <3>4, <3>5 DEF Same
      <4>2. QED
        BY <1>6, <3>2, <4>1, SameId
    <3>7. d.has = c.has
      BY <3>5, <3>6 DEF Same, TakenUp
    <3>8. QED
      BY <3>2, <3>7
  <2>9. QED
    BY <2>5, <2>6, <2>7, <2>8 DEF Owned
<1>16. QED
  BY <1>4, <1>9, <1>11, <1>12, <1>14, <1>15

(* ------------------------- the connections' handlers ----------------------- *)

PutIn(cs, d) == [i \in DOMAIN cs |-> IF cs[i].id = d.id THEN d ELSE cs[i]]

LEMMA PutDoes ==
  ASSUME NEW cs, IsSeq(cs), Distinct(cs), NEW c \in ToSet(cs), NEW d, d.id = c.id
  PROVE  LET ds == PutIn(cs, d) IN IsSeq(ds) /\ Distinct(ds) /\ ToSet(ds) = (ToSet(cs) \ {c}) \cup {d}
<1>1. PICK n \in Nat : n = Len(cs) /\ DOMAIN cs = 1..n /\ ToSet(cs) = {cs[i] : i \in 1..n}
  BY ToSetIs DEF IsSeq
<1>2. PICK m \in 1..n : cs[m] = c
  BY <1>1
<1>3. PICK ds : ds = [i \in 1..n |-> IF cs[i].id = d.id THEN d ELSE cs[i]]
  OBVIOUS
<1>4. \A i \in 1..n : cs[i].id = d.id <=> i = m
  BY <1>1, <1>2 DEF Distinct
<1>5. \A i \in 1..n : ds[i] = IF i = m THEN d ELSE cs[i]
  BY <1>3, <1>4
<1>6. PICK S : S = {ds[i] : i \in 1..n}
  OBVIOUS
<1>7. ds \in Seq(S) /\ Len(ds) = n
  <2>1. ds = [i \in 1..n |-> ds[i]] /\ \A i \in 1..n : ds[i] \in S
    BY <1>3, <1>6
  <2>2. ds \in [1..n -> S]
    BY <2>1
  <2>3. QED
    BY <2>2
<1>8. IsSeq(ds) /\ ToSet(ds) = {ds[i] : i \in 1..n}
  BY <1>7, ToSetIs
<1>9. \A i \in 1..n : ds[i].id = cs[i].id
  BY <1>2, <1>5
<1>10. Distinct(ds)
  BY <1>1, <1>7, <1>9 DEF Distinct
<1>11. ToSet(ds) = (ToSet(cs) \ {c}) \cup {d}
  <2>1. \A i \in 1..n : cs[i] = c => i = m
    BY <1>4
  <2>2. ASSUME NEW e \in ToSet(ds) PROVE e \in (ToSet(cs) \ {c}) \cup {d}
    <3>1. PICK i \in 1..n : e = ds[i]
      BY <1>8, <2>2
    <3>2. QED
      BY <1>1, <1>5, <2>1, <3>1
  <2>3. ASSUME NEW e \in (ToSet(cs) \ {c}) \cup {d} PROVE e \in ToSet(ds)
    <3>1. CASE e = d
      BY <1>5, <1>8, <3>1
    <3>2. CASE e # d
      <4>1. PICK i \in 1..n : e = cs[i]
        BY <1>1, <2>3, <3>2
      <4>2. i # m
        BY <1>2, <2>3, <3>2, <4>1
      <4>3. QED
        BY <1>5, <1>8, <4>1, <4>2
    <3>3. QED
      BY <3>1, <3>2
  <2>4. QED
    BY <2>2, <2>3
<1>12. PutIn(cs, d) = ds
  BY <1>1, <1>3 DEF PutIn
<1>13. QED
  BY <1>8, <1>10, <1>11, <1>12

\* One connection's handler leaves the projects where they are.
LEMMA PutSpread ==
  ASSUME NEW cs, NEW want, NEW cap, NEW id, Spread(cs, want, cap, id), NEW c \in ToSet(cs),
         NEW d, ConnTypes(d), InTurn(d), d.id = c.id, d.projects = c.projects, NEW ds, ds = PutIn(cs, d)
  PROVE  Spread(ds, want, cap, id) /\ ToSet(ds) = (ToSet(cs) \ {c}) \cup {d} /\ Wants(d) = Wants(c)
<1>1. IsSeq(cs) /\ Distinct(cs) /\ Apart(cs)
  BY DEF Spread
<1>2. IsSeq(ds) /\ Distinct(ds) /\ ToSet(ds) = (ToSet(cs) \ {c}) \cup {d}
  BY <1>1, PutDoes
<1>3. Wants(d) = Wants(c)
  BY DEF Wants
<1>4. Apart(ds)
  BY <1>1, <1>2, <1>3 DEF Apart
<1>5. ConnTypes(d) /\ Carries(d, want, cap) /\ InTurn(d) /\ d.id < id
  BY <1>3 DEF Spread, Carries
<1>6. QED
  BY <1>2, <1>3, <1>4, <1>5 DEF Spread

LEMMA DroppedSpread ==
  ASSUME NEW want, NEW cap, NEW id, Spread(conns, want, cap, id), NEW c \in ToSet(conns)
  PROVE  Spread(Dropped(c), want, cap, id) /\ ToSet(Dropped(c)) = ToSet(conns) \ {c}
<1>1. IsSeq(conns) /\ Distinct(conns) /\ Apart(conns)
  BY DEF Spread
<1>2. PICK W : W = ToSet(conns) \ {c}
  OBVIOUS
<1>3. PICK ds : ds = Dropped(c) /\ ds = Only(conns, W)
  BY <1>2 DEF Dropped
<1>4. IsSeq(ds) /\ Distinct(ds) /\ ToSet(ds) = ToSet(conns) \cap W
  BY <1>1, <1>3, CarryingDoes
<1>5. ToSet(ds) = ToSet(conns) \ {c}
  BY <1>2, <1>4
<1>6. Apart(ds)
  BY <1>1, <1>5 DEF Apart
<1>7. QED
  BY <1>3, <1>4, <1>5, <1>6 DEF Spread

\* A project's place when the handler of connection c has made it d, or has dropped it.
LEMMA OwnedAfter ==
  ASSUME NEW p, NEW cs, NEW want, NEW s, Owned(p, cs, want, s), Apart(cs), NEW c \in ToSet(cs),
         NEW d, d.id = c.id, Wants(d) = Wants(c), NEW ds, ToSet(ds) = (ToSet(cs) \ {c}) \cup {d}, NEW t,
         p \in Held(d) => p \in Held(c) \/ (p \in Wants(c) /\ p \in want),
         p \in d.has => t = d.id,
         \A e \in ToSet(cs) \ {c} : p \in e.has => t = s,
         t # 0 => p \in d.has \/ (t = s /\ p \notin c.has)
  PROVE  Owned(p, ds, want, t)
<1>1. /\ \A e, f \in ToSet(cs) : p \in Held(e) /\ p \in Held(f) => e = f
      /\ \A e \in ToSet(cs) : p \in Held(e) /\ p \in want => p \in Wants(e)
      /\ \A e \in ToSet(cs) : p \in e.has => s = e.id
      /\ s # 0 => \E e \in ToSet(cs) : p \in e.has
  BY DEF Owned
<1>2. ASSUME NEW f \in ToSet(cs) \ {c}, p \in Held(f), p \in Held(d) PROVE FALSE
  <2>1. CASE p \in Held(c)
    BY <1>1, <1>2, <2>1
  <2>2. CASE p \in Wants(c) /\ p \in want
    <3>1. p \in Wants(f)
      BY <1>1, <1>2, <2>2
    <3>2. QED
      BY <1>2, <2>2, <3>1 DEF Apart
  <2>3. QED
    BY <1>2, <2>1, <2>2
<1>3. ASSUME NEW e \in ToSet(ds), NEW f \in ToSet(ds), p \in Held(e), p \in Held(f) PROVE e = f
  <2>1. e \in ToSet(cs) \ {c} \/ e = d
    OBVIOUS
  <2>2. f \in ToSet(cs) \ {c} \/ f = d
    OBVIOUS
  <2>3. QED
    BY <1>1, <1>2, <1>3, <2>1, <2>2
<1>4. ASSUME NEW e \in ToSet(ds), p \in Held(e), p \in want PROVE p \in Wants(e)
  <2>1. e \in ToSet(cs) \ {c} \/ e = d
    OBVIOUS
  <2>2. QED
    BY <1>1, <1>4, <2>1
<1>5. ASSUME NEW e \in ToSet(ds), p \in e.has PROVE t = e.id
  <2>1. e \in ToSet(cs) \ {c} \/ e = d
    OBVIOUS
  <2>2. QED
    BY <1>1, <1>5, <2>1
<1>6. ASSUME t # 0 PROVE \E e \in ToSet(ds) : p \in e.has
  <2>1. CASE p \in d.has
    BY <2>1
  <2>2. CASE t = s /\ p \notin c.has
    <3>1. PICK e \in ToSet(cs) : p \in e.has
      BY <1>1, <1>6, <2>2
    <3>2. QED
      BY <2>2, <3>1
  <2>3. QED
    BY <1>6, <2>1, <2>2
<1>7. QED
  BY <1>3, <1>4, <1>5, <1>6 DEF Owned

LEMMA OwnedWithout ==
  ASSUME NEW p, NEW cs, NEW want, NEW s, Owned(p, cs, want, s), NEW c \in ToSet(cs),
         NEW ds, ToSet(ds) = ToSet(cs) \ {c}, NEW t,
         \A e \in ToSet(cs) \ {c} : p \in e.has => t = s,
         t # 0 => t = s /\ p \notin c.has
  PROVE  Owned(p, ds, want, t)
<1>1. /\ \A e, f \in ToSet(cs) : p \in Held(e) /\ p \in Held(f) => e = f
      /\ \A e \in ToSet(cs) : p \in Held(e) /\ p \in want => p \in Wants(e)
      /\ \A e \in ToSet(cs) : p \in e.has => s = e.id
      /\ s # 0 => \E e \in ToSet(cs) : p \in e.has
  BY DEF Owned
<1>2. ASSUME t # 0 PROVE \E e \in ToSet(ds) : p \in e.has
  <2>1. PICK e \in ToSet(cs) : p \in e.has
    BY <1>1, <1>2
  <2>2. QED
    BY <1>2, <2>1
<1>3. QED
  BY <1>1, <1>2 DEF Owned

\* Of a connection whose handler runs.
LEMMA OfConn ==
  ASSUME ShardsInv, NEW c \in ToSet(conns)
  PROVE  /\ Spread(conns, desired, capacity, newId) /\ Apart(conns) /\ IsSeq(conns) /\ Distinct(conns)
         /\ ConnTypes(c) /\ InTurn(c) /\ Wants(c) \subseteq desired
         /\ \A p \in Projects : p \in Held(c) <=> p \in c.has \/ (c.after # Unasked /\ p \in c.after)
         /\ \A p \in Projects \ astray : Owned(p, conns, desired, sessions[p])
         /\ sessions \in [Projects -> Nat] /\ c.projects # <<>> /\ c.id \in Nat
<1>1. Spread(conns, desired, capacity, newId)
  BY DEF ShardsInv, Dealing
<1>2. /\ Apart(conns) /\ IsSeq(conns) /\ Distinct(conns) /\ ConnTypes(c) /\ InTurn(c) /\ Wants(c) \subseteq desired
  BY <1>1 DEF Spread, Carries
<1>3. \A p \in Projects : p # "none"
  BY ShardsAssumption DEF Projects
<1>4. ASSUME NEW p \in Projects PROVE p \in Held(c) <=> p \in c.has \/ (c.after # Unasked /\ p \in c.after)
  BY <1>3 DEF Held, Unasked
<1>5. QED
  BY <1>1, <1>2, <1>4 DEF ShardsInv, Dealing, ConnTypes

LEMMA PutStep ==
  ASSUME ShardsInv, NEW c \in ToSet(conns), NEW d, ConnTypes(d), InTurn(d), d.id = c.id, d.projects = c.projects,
         Put(d), UNCHANGED <<desired, capacity, newId, shifted>>, sessions' \in [Projects -> Nat],
         \A p \in Projects \ astray' :
           /\ p \notin astray
           /\ p \in Held(d) => p \in Held(c) \/ p \in Wants(c)
           /\ p \in d.has => sessions'[p] = d.id
           /\ \A e \in ToSet(conns) \ {c} : p \in e.has => sessions'[p] = sessions[p]
           /\ sessions'[p] # 0 => p \in d.has \/ (sessions'[p] = sessions[p] /\ p \notin c.has)
  PROVE  ShardsInv'
<1>1. /\ Spread(conns, desired, capacity, newId) /\ Apart(conns) /\ Wants(c) \subseteq desired
      /\ \A p \in Projects \ astray : Owned(p, conns, desired, sessions[p])
  BY OfConn
<1>2. PICK ds : ds = conns'
  OBVIOUS
<1>3. ds = PutIn(conns, d)
  BY <1>2 DEF Put, PutIn
<1>4. Spread(ds, desired, capacity, newId) /\ ToSet(ds) = (ToSet(conns) \ {c}) \cup {d} /\ Wants(d) = Wants(c)
  BY <1>1, <1>3, PutSpread
<1>5. ASSUME NEW p \in Projects \ astray' PROVE Owned(p, ds, desired, sessions'[p])
  <2>1. PICK s, t : s = sessions[p] /\ t = sessions'[p]
    OBVIOUS
  <2>2. Owned(p, conns, desired, s)
    BY <1>1, <1>5, <2>1
  <2>3. p \in Held(d) => p \in Held(c) \/ (p \in Wants(c) /\ p \in desired)
    BY <1>1, <1>5
  <2>4. /\ p \in d.has => t = d.id
        /\ \A e \in ToSet(conns) \ {c} : p \in e.has => t = s
        /\ t # 0 => p \in d.has \/ (t = s /\ p \notin c.has)
    BY <1>5, <2>1
  <2>5. QED
    BY <1>1, <1>4, <2>1, <2>2, <2>3, <2>4, OwnedAfter
<1>6. \A e \in ToSet(ds) : e.projects # <<>>
  BY <1>4, OfConn
<1>7. desired' = desired /\ capacity' = capacity /\ newId' = newId /\ shifted' = shifted
  OBVIOUS
<1>8. QED
  BY <1>2, <1>4, <1>5, <1>6, <1>7 DEF ShardsInv, Dealing

LEMMA RequestStep == ASSUME ShardsInv, NEW c \in ToSet(conns), Request(c) PROVE ShardsInv'
<1>1. ConnTypes(c) /\ InTurn(c) /\ sessions \in [Projects -> Nat]
      /\ \A p \in Projects : p \in Held(c) <=> p \in c.has \/ (c.after # Unasked /\ p \in c.after)
  BY OfConn
<1>2. PICK a : /\ Put([c EXCEPT !.after = a]) /\ a \subseteq Projects /\ a \subseteq c.has \cup Wants(c)
               /\ c.state \in {"open", "set"}
  <2>1. Wants(c) \subseteq Projects /\ c.has \subseteq Projects
    <3>1. c.projects \in Seq(Projects) /\ c.has \subseteq Projects
      BY <1>1 DEF ConnTypes
    <3>2. QED
      BY <3>1, ToSetIs DEF Wants
  <2>2. \/ Put([c EXCEPT !.after = Wants(c)])
        \/ Put([c EXCEPT !.after = c.has \ (c.has \ Wants(c))])
        \/ Put([c EXCEPT !.after = c.has \cup Wants(c)])
    BY DEF Request
  <2>3. c.state \in {"open", "set"}
    BY DEF Request
  <2>4. QED
    BY <2>1, <2>2, <2>3
<1>3. PICK d : d = [c EXCEPT !.after = a]
  OBVIOUS
<1>4. d.id = c.id /\ d.projects = c.projects /\ d.has = c.has /\ d.after = a /\ d.state = c.state /\ DOMAIN d = DOMAIN c
  BY <1>1, <1>3 DEF ConnTypes
<1>5. ConnTypes(d) /\ InTurn(d)
  BY <1>1, <1>2, <1>4 DEF ConnTypes, InTurn
<1>6. UNCHANGED <<desired, capacity, sessions, newId, astray, shifted>>
  BY DEF Request
<1>7. ASSUME NEW p \in Projects \ astray'
      PROVE  /\ p \notin astray
             /\ p \in Held(d) => p \in Held(c) \/ p \in Wants(c)
             /\ p \in d.has => sessions'[p] = d.id
             /\ \A e \in ToSet(conns) \ {c} : p \in e.has => sessions'[p] = sessions[p]
             /\ sessions'[p] # 0 => p \in d.has \/ (sessions'[p] = sessions[p] /\ p \notin c.has)
  <2>1. Owned(p, conns, desired, sessions[p])
    BY <1>6, <1>7, OfConn
  <2>2. p \in Held(d) => p \in c.has \/ p \in Wants(c)
    BY <1>2, <1>4 DEF Held
  <2>3. p \in c.has => sessions[p] = c.id
    BY <2>1 DEF Owned
  <2>4. QED
    BY <1>1, <1>4, <1>6, <1>7, <2>2, <2>3
<1>8. Put(d)
  BY <1>2, <1>3
<1>9. QED
  BY <1>1, <1>4, <1>5, <1>6, <1>7, <1>8, PutStep

LEMMA AckStep == ASSUME ShardsInv, NEW c \in ToSet(conns), Ack(c) PROVE ShardsInv'
<1>1. ConnTypes(c) /\ InTurn(c) /\ sessions \in [Projects -> Nat] /\ c.id \in Nat
      /\ \A p \in Projects : p \in Held(c) <=> p \in c.has \/ (c.after # Unasked /\ p \in c.after)
  BY OfConn
<1>2. c.after # Unasked /\ c.after \subseteq Projects
  BY <1>1 DEF Ack, ConnTypes
<1>3. PICK d : d = [c EXCEPT !.has = c.after, !.after = Unasked, !.state = "set"]
  OBVIOUS
<1>4. d.id = c.id /\ d.projects = c.projects /\ d.has = c.after /\ d.after = Unasked /\ d.state = "set" /\ DOMAIN d = DOMAIN c
  BY <1>1, <1>3 DEF ConnTypes
<1>5. ConnTypes(d) /\ InTurn(d)
  BY <1>1, <1>2, <1>4 DEF ConnTypes, InTurn
<1>6. UNCHANGED <<desired, capacity, newId, astray, shifted>> /\ Put(d)
  BY <1>3 DEF Ack
<1>7. sessions' = [p \in Projects |->
        IF p \in c.after \ c.has THEN c.id ELSE IF p \in c.has \ c.after THEN 0 ELSE sessions[p]]
  BY <1>1 DEF Ack
<1>8. sessions' \in [Projects -> Nat]
  BY <1>1, <1>7
<1>9. ASSUME NEW p \in Projects \ astray'
      PROVE  /\ p \notin astray
             /\ p \in Held(d) => p \in Held(c) \/ p \in Wants(c)
             /\ p \in d.has => sessions'[p] = d.id
             /\ \A e \in ToSet(conns) \ {c} : p \in e.has => sessions'[p] = sessions[p]
             /\ sessions'[p] # 0 => p \in d.has \/ (sessions'[p] = sessions[p] /\ p \notin c.has)
  <2>1. Owned(p, conns, desired, sessions[p]) /\ p \notin astray
    BY <1>6, <1>9, OfConn
  <2>2. p \in Held(d) => p \in c.after
    BY <1>4 DEF Held
  <2>3. p \in Held(c) <=> p \in c.has \/ p \in c.after
    BY <1>1, <1>2
  <2>4. p \in c.has => sessions[p] = c.id
    BY <2>1 DEF Owned
  <2>5. ASSUME NEW e \in ToSet(conns) \ {c}, p \in e.has PROVE p \notin Held(c)
    <3>1. p \in Held(e)
      BY <2>5 DEF Held
    <3>2. QED
      BY <2>1, <3>1 DEF Owned
  <2>6. sessions'[p] = IF p \in c.after \ c.has THEN c.id ELSE IF p \in c.has \ c.after THEN 0 ELSE sessions[p]
    BY <1>7, <1>9
  <2>7. QED
    BY <1>4, <2>1, <2>2, <2>3, <2>4, <2>5, <2>6
<1>10. QED
  BY <1>4, <1>5, <1>6, <1>8, <1>9, PutStep

LEMMA RejectedStep == ASSUME ShardsInv, NEW c \in ToSet(conns), Rejected(c) PROVE ShardsInv'
<1>1. ConnTypes(c) /\ InTurn(c) /\ sessions \in [Projects -> Nat]
      /\ \A p \in Projects : p \in Held(c) <=> p \in c.has \/ (c.after # Unasked /\ p \in c.after)
  BY OfConn
<1>2. c.after # Unasked /\ c.state = "set"
  BY DEF Rejected
<1>3. PICK d : d = [c EXCEPT !.after = Unasked]
  OBVIOUS
<1>4. d.id = c.id /\ d.projects = c.projects /\ d.has = c.has /\ d.after = Unasked /\ d.state = "set" /\ DOMAIN d = DOMAIN c
  BY <1>1, <1>2, <1>3 DEF ConnTypes
<1>5. ConnTypes(d) /\ InTurn(d)
  BY <1>1, <1>4 DEF ConnTypes, InTurn
<1>6. UNCHANGED <<desired, capacity, newId, astray, shifted>> /\ Put(d)
  BY <1>3 DEF Rejected
<1>7. sessions' = [p \in Projects |-> IF p \in c.after \ c.has THEN 0 ELSE sessions[p]]
  BY <1>1 DEF Rejected, Unheard
<1>8. sessions' \in [Projects -> Nat]
  BY <1>1, <1>7
<1>9. ASSUME NEW p \in Projects \ astray'
      PROVE  /\ p \notin astray
             /\ p \in Held(d) => p \in Held(c) \/ p \in Wants(c)
             /\ p \in d.has => sessions'[p] = d.id
             /\ \A e \in ToSet(conns) \ {c} : p \in e.has => sessions'[p] = sessions[p]
             /\ sessions'[p] # 0 => p \in d.has \/ (sessions'[p] = sessions[p] /\ p \notin c.has)
  <2>1. Owned(p, conns, desired, sessions[p]) /\ p \notin astray
    BY <1>6, <1>9, OfConn
  <2>2. p \in Held(d) => p \in c.has
    BY <1>4 DEF Held
  <2>3. p \in Held(c) <=> p \in c.has \/ p \in c.after
    BY <1>1, <1>2
  <2>4. p \in c.has => sessions[p] = c.id
    BY <2>1 DEF Owned
  <2>5. ASSUME NEW e \in ToSet(conns) \ {c}, p \in e.has PROVE p \notin Held(c)
    <3>1. p \in Held(e)
      BY <2>5 DEF Held
    <3>2. QED
      BY <2>1, <3>1 DEF Owned
  <2>6. sessions'[p] = IF p \in c.after \ c.has THEN 0 ELSE sessions[p]
    BY <1>7, <1>9
  <2>7. QED
    BY <1>4, <2>1, <2>2, <2>3, <2>4, <2>5, <2>6
<1>10. QED
  BY <1>4, <1>5, <1>6, <1>8, <1>9, PutStep

\* What is told when a connection fails or is closed is not held by another one.
LEMMA HeldElsewhere ==
  ASSUME ShardsInv, NEW c \in ToSet(conns), NEW p \in Projects \ astray, NEW e \in ToSet(conns) \ {c}, p \in e.has
  PROVE  p \notin Wants(c)
<1>1. Owned(p, conns, desired, sessions[p]) /\ Wants(c) \subseteq desired /\ Apart(conns)
  BY OfConn
<1>2. p \in desired => p \in Wants(e)
  BY <1>1 DEF Owned, Held
<1>3. QED
  BY <1>1, <1>2 DEF Apart

LEMMA FailConnStep == ASSUME ShardsInv, NEW c \in ToSet(conns), Fail(c) PROVE ShardsInv'
<1>1. ConnTypes(c) /\ InTurn(c) /\ sessions \in [Projects -> Nat]
  BY OfConn
<1>2. PICK s \in {"hello", "dead"} : Put([c EXCEPT !.state = s, !.has = {}, !.after = Unasked])
  BY DEF Fail
<1>3. PICK d : d = [c EXCEPT !.state = s, !.has = {}, !.after = Unasked]
  OBVIOUS
<1>4. d.id = c.id /\ d.projects = c.projects /\ d.has = {} /\ d.after = Unasked /\ d.state = s /\ DOMAIN d = DOMAIN c
  BY <1>1, <1>3 DEF ConnTypes
<1>5. ConnTypes(d) /\ InTurn(d)
  BY <1>1, <1>4 DEF ConnTypes, InTurn
<1>6. UNCHANGED <<desired, capacity, newId, shifted>> /\ Put(d) /\ astray' = astray \cup Unwanted(c)
  BY <1>2, <1>3 DEF Fail
<1>7. sessions' = [p \in Projects |-> IF p \in Wants(c) THEN 0 ELSE sessions[p]]
  BY <1>1 DEF Fail, Unheard
<1>8. sessions' \in [Projects -> Nat]
  BY <1>1, <1>7
<1>9. ASSUME NEW p \in Projects \ astray'
      PROVE  /\ p \notin astray
             /\ p \in Held(d) => p \in Held(c) \/ p \in Wants(c)
             /\ p \in d.has => sessions'[p] = d.id
             /\ \A e \in ToSet(conns) \ {c} : p \in e.has => sessions'[p] = sessions[p]
             /\ sessions'[p] # 0 => p \in d.has \/ (sessions'[p] = sessions[p] /\ p \notin c.has)
  <2>1. p \notin astray /\ p \notin Unwanted(c)
    BY <1>6, <1>9
  <2>2. p \notin Held(d) /\ p \notin d.has
    BY <1>4 DEF Held
  <2>3. \A e \in ToSet(conns) \ {c} : p \in e.has => p \notin Wants(c)
    BY <2>1, HeldElsewhere
  <2>4. sessions'[p] = IF p \in Wants(c) THEN 0 ELSE sessions[p]
    BY <1>7, <1>9
  <2>5. p \in c.has => p \in Wants(c)
    BY <2>1 DEF Unwanted
  <2>6. QED
    BY <2>1, <2>2, <2>3, <2>4, <2>5
<1>10. QED
  BY <1>4, <1>5, <1>6, <1>8, <1>9, PutStep

LEMMA ResetProjectsStep == ASSUME ShardsInv, NEW c \in ToSet(conns), ResetProjects(c) PROVE ShardsInv'
<1>1. Spread(conns, desired, capacity, newId) /\ sessions \in [Projects -> Nat]
  BY OfConn
<1>2. PICK ds : ds = conns'
  OBVIOUS
<1>3. PICK want, cap, id : want = desired /\ cap = capacity /\ id = newId
  OBVIOUS
<1>4. Spread(ds, want, cap, id) /\ ToSet(ds) = ToSet(conns) \ {c}
  BY <1>1, <1>2, <1>3, DroppedSpread DEF ResetProjects
<1>5. UNCHANGED <<desired, capacity, newId, shifted>> /\ astray' = astray \cup Unwanted(c)
  BY DEF ResetProjects
<1>6. sessions' = [p \in Projects |-> IF p \in Wants(c) THEN 0 ELSE sessions[p]]
  BY <1>1 DEF ResetProjects, Unheard
<1>7. sessions' \in [Projects -> Nat]
  BY <1>1, <1>6
<1>8. ASSUME NEW p \in Projects \ astray' PROVE Owned(p, ds, desired, sessions'[p])
  <2>1. p \notin astray /\ p \notin Unwanted(c)
    BY <1>5, <1>8
  <2>2. PICK s, t : s = sessions[p] /\ t = sessions'[p]
    OBVIOUS
  <2>3. Owned(p, conns, want, s)
    BY <1>3, <1>8, <2>1, <2>2, OfConn
  <2>4. \A e \in ToSet(conns) \ {c} : p \in e.has => p \notin Wants(c)
    BY <2>1, HeldElsewhere
  <2>5. t = IF p \in Wants(c) THEN 0 ELSE s
    BY <1>6, <1>8, <2>2
  <2>6. p \in c.has => p \in Wants(c)
    BY <2>1 DEF Unwanted
  <2>7. QED
    BY <1>3, <1>4, <2>2, <2>3, <2>4, <2>5, <2>6, OwnedWithout
<1>9. \A e \in ToSet(ds) : e.projects # <<>>
  BY <1>4, OfConn
<1>10. QED
  BY <1>2, <1>3, <1>4, <1>5, <1>7, <1>8, <1>9 DEF ShardsInv, Dealing

LEMMA HelloStep == ASSUME ShardsInv, NEW c \in ToSet(conns), Hello(c) PROVE ShardsInv'
<1>1. ConnTypes(c) /\ InTurn(c) /\ Spread(conns, desired, capacity, newId) /\ sessions \in [Projects -> Nat]
      /\ \A p \in Projects : p \in Held(c) <=> p \in c.has \/ (c.after # Unasked /\ p \in c.after)
  BY OfConn
<1>2. c.state = "hello" /\ c.has = {} /\ c.after = Unasked
  BY <1>1 DEF Hello, InTurn
<1>3. PICK n \in Offers :
        IF Len(c.projects) <= n
        THEN Put([c EXCEPT !.state = "open"]) /\ UNCHANGED <<desired, capacity, sessions, newId, moves, astray, shifted>>
        ELSE capacity' = n /\ Assign(desired, Dropped(c), n) /\ UNCHANGED <<desired, moves>>
  BY DEF Hello
<1>4. CASE Len(c.projects) <= n
  <2>1. PICK d : d = [c EXCEPT !.state = "open"]
    OBVIOUS
  <2>2. Put(d) /\ UNCHANGED <<desired, capacity, sessions, newId, astray, shifted>>
    BY <1>3, <1>4, <2>1
  <2>3. d.id = c.id /\ d.projects = c.projects /\ d.has = {} /\ d.after = Unasked /\ d.state = "open" /\ DOMAIN d = DOMAIN c
    BY <1>1, <1>2, <2>1 DEF ConnTypes
  <2>4. ConnTypes(d) /\ InTurn(d)
    BY <1>1, <2>3 DEF ConnTypes, InTurn
  <2>5. ASSUME NEW p \in Projects \ astray'
        PROVE  /\ p \notin astray
               /\ p \in Held(d) => p \in Held(c) \/ p \in Wants(c)
               /\ p \in d.has => sessions'[p] = d.id
               /\ \A e \in ToSet(conns) \ {c} : p \in e.has => sessions'[p] = sessions[p]
               /\ sessions'[p] # 0 => p \in d.has \/ (sessions'[p] = sessions[p] /\ p \notin c.has)
    BY <1>2, <2>2, <2>3, <2>5 DEF Held
  <2>6. QED
    BY <1>1, <2>2, <2>3, <2>4, <2>5, PutStep
<1>5. CASE ~(Len(c.projects) <= n)
  <2>1. PICK ds : ds = Dropped(c)
    OBVIOUS
  <2>2. PICK want, cap, id : want = desired /\ cap = capacity /\ id = newId
    OBVIOUS
  <2>3. Spread(ds, want, cap, id) /\ ToSet(ds) = ToSet(conns) \ {c}
    BY <1>1, <2>1, <2>2, DroppedSpread
  <2>4. ASSUME NEW p \in Projects \ astray PROVE Owned(p, ds, want, sessions[p])
    <3>1. PICK s : s = sessions[p]
      OBVIOUS
    <3>2. Owned(p, conns, want, s) /\ p \notin c.has
      BY <1>2, <2>2, <2>4, <3>1, OfConn
    <3>3. QED
      BY <2>3, <3>1, <3>2, OwnedWithout
  <2>5. Dealing(ds)
    BY <2>2, <2>3, <2>4 DEF ShardsInv, Dealing
  <2>6. n \in Nat \ {0} /\ want \in SUBSET Projects /\ Assign(want, ds, n)
    BY <1>3, <1>5, <2>1, <2>2, ShardsAssumption DEF ShardsInv, Dealing
  <2>7. /\ newId' \in Nat \ {0} /\ sessions' \in [Projects -> Nat] /\ shifted' = {}
        /\ Spread(conns', want, n, newId') /\ \A e \in ToSet(conns') : e.projects # <<>>
        /\ \A p \in Projects \ astray' : Owned(p, conns', want, sessions'[p])
    BY <2>5, <2>6, AssignDoes
  <2>8. desired' = want /\ capacity' = n
    BY <1>3, <1>5, <2>2
  <2>9. QED
    BY <2>6, <2>7, <2>8 DEF ShardsInv, Dealing
<1>6. QED
  BY <1>4, <1>5

\* The projects are dealt out again: a change of them, or the next refresh.
LEMMA DealtStep ==
  ASSUME ShardsInv, NEW want \in SUBSET Projects, desired' = want, Assign(want, conns, capacity), UNCHANGED capacity
  PROVE  ShardsInv'
<1>1. PICK cs, cap : cs = conns /\ cap = capacity
  OBVIOUS
<1>2. Dealing(cs) /\ cap \in Nat \ {0} /\ Assign(want, cs, cap)
  BY <1>1 DEF ShardsInv, Dealing
<1>3. /\ newId' \in Nat \ {0} /\ sessions' \in [Projects -> Nat] /\ shifted' = {}
      /\ Spread(conns', want, cap, newId') /\ \A e \in ToSet(conns') : e.projects # <<>>
      /\ \A p \in Projects \ astray' : Owned(p, conns', want, sessions'[p])
  BY <1>2, AssignDoes
<1>4. QED
  BY <1>1, <1>2, <1>3 DEF ShardsInv, Dealing

LEMMA ShardsInvInit == ShardsInit => ShardsInv
<1> SUFFICES ASSUME ShardsInit PROVE ShardsInv
  OBVIOUS
<1>1. PICK cs : cs = conns /\ cs = <<>>
  BY DEF ShardsInit
<1>2. Len(cs) = 0 /\ cs \in Seq({}) /\ ToSet(cs) = {}
  BY <1>1 DEF ToSet
<1>3. Spread(cs, desired, capacity, newId)
  BY <1>2 DEF Spread, IsSeq, Distinct, Apart
<1>4. /\ desired = {} /\ capacity \in Nat \ {0} /\ newId = 1 /\ sessions = [p \in Projects |-> 0] /\ shifted = {}
  BY ShardsAssumption DEF ShardsInit, Projects
<1>5. \A p \in Projects : Owned(p, cs, desired, sessions[p])
  BY <1>2, <1>4 DEF Owned
<1>6. QED
  BY <1>1, <1>2, <1>3, <1>4, <1>5 DEF ShardsInv, Dealing

(* Whatever the live service wants, the servers answer and the network does,   *)
(* the connections carry the wanted projects once each, and a project that is  *)
(* not astray is held where it is wanted, with that connection's session.      *)
THEOREM ShardsInductive == ShardsSpec => []ShardsInv
<1>1. ShardsInit => ShardsInv
  BY ShardsInvInit
<1>2. ShardsInv /\ [ShardsNext]_fvars => ShardsInv'
  <2> SUFFICES ASSUME ShardsInv, [ShardsNext]_fvars PROVE ShardsInv'
    OBVIOUS
  <2>1. CASE SetProjects
    <3>1. PICK want \in SUBSET ToSet(ByKey) : desired' = want /\ Assign(want, conns, capacity)
      BY <2>1 DEF SetProjects
    <3>2. UNCHANGED capacity
      BY <2>1 DEF SetProjects
    <3>3. QED
      BY <3>1, <3>2, DealtStep DEF Projects
  <2>2. CASE Reassign
    <3>1. PICK want : want = desired /\ want \in SUBSET Projects
      BY DEF ShardsInv, Dealing
    <3>2. desired' = want /\ Assign(want, conns, capacity) /\ UNCHANGED capacity
      BY <2>2, <3>1 DEF Reassign
    <3>3. QED
      BY <3>1, <3>2, DealtStep
  <2>3. ASSUME NEW c \in ToSet(conns), Hello(c) \/ Request(c) \/ Ack(c) \/ Rejected(c) \/ Fail(c) \/ ResetProjects(c)
        PROVE  ShardsInv'
    BY <2>3, HelloStep, RequestStep, AckStep, RejectedStep, FailConnStep, ResetProjectsStep
  <2>4. CASE UNCHANGED fvars
    BY <2>4 DEF fvars, ShardsInv, Dealing
  <2>5. QED
    BY <2>1, <2>2, <2>3, <2>4 DEF ShardsNext
<1>3. QED
  BY <1>1, <1>2, PTL DEF ShardsSpec

(* Every wanted project has one place that it keeps, no connection carries     *)
(* more than it may, and a wanted project has a session exactly when its       *)
(* connection has confirmed it, unless it went astray (MemeMarketFeed).        *)
THEOREM SessionsStayRight == ShardsSpec => []SessionsRight
<1>1. ShardsInv => OnePlace
  BY DEF ShardsInv, Dealing, Spread, Carries, Apart, OnePlace
<1>2. ASSUME ShardsInv PROVE SessionsAreOwned
  <2> SUFFICES ASSUME NEW p \in desired \ astray
               PROVE  {c.id : c \in {d \in ToSet(conns) : p \in Wants(d) \cap d.has}}
                        = IF sessions[p] = 0 THEN {} ELSE {sessions[p]}
    BY DEF SessionsAreOwned
  <2>1. PICK of : of = {c.id : c \in {d \in ToSet(conns) : p \in Wants(d) \cap d.has}}
    OBVIOUS
  <2>2. /\ \A e \in ToSet(conns) : p \in Held(e) /\ p \in desired => p \in Wants(e)
        /\ \A e \in ToSet(conns) : p \in e.has => sessions[p] = e.id
        /\ sessions[p] # 0 => \E e \in ToSet(conns) : p \in e.has
    BY <1>2 DEF ShardsInv, Dealing, Owned
  <2>3. \A e \in ToSet(conns) : p \in e.has => p \in Wants(e) /\ e.id # 0
    BY <1>2, <2>2 DEF Held, ShardsInv, Dealing, Spread, ConnTypes
  <2>4. \A x \in of : x = sessions[p] /\ x # 0
    BY <2>1, <2>2, <2>3
  <2>5. ASSUME sessions[p] # 0 PROVE sessions[p] \in of
    BY <2>1, <2>2, <2>3, <2>5
  <2>6. QED
    BY <2>1, <2>4, <2>5
<1>3. QED
  BY <1>1, <1>2, ShardsInductive, PTL DEF SessionsRight

(* -------------------------------- Candles --------------------------------- *)

CandlesSpec == CandlesInit /\ [][CandlesNext]_cvars

Candle == [time : Int, open : Int, high : Int, low : Int, close : Int, vol : Int, synthetic : BOOLEAN]
OpenBar == [time : Int, open : Int, high : Int, low : Int, close : Int, vol : Int, first : MarketTrades, final : MarketTrades]
StreamFields == {"open", "final", "last", "out", "took", "mark", "base"}

(* What follows is about a stream r of kind s while the subscription is f, the  *)
(* clock c and the ids of the trades received so far `ids`.                    *)
StreamTyped(r) ==
  /\ DOMAIN r = StreamFields
  /\ r.final \in Int /\ r.mark \in Int
  /\ r.out \in Seq(Candle)
  /\ r.took \in SUBSET MarketTrades /\ IsFiniteSet(r.took)
  /\ r.open = None \/ r.open \in OpenBar
  /\ r.last = None \/ r.last \in Candle

(* The recovered stream goes on in the strategy's interval.                     *)
AfterMark(r, s) == r.mark # -1 /\ Step(s) = RunInterval

(* The open bar b is made of the trades S.                                      *)
MadeOf(b, S, s) ==
  /\ b.first \in S /\ \A u \in S \ {b.first} : Before(b.first, u)
  /\ b.final \in S /\ \A u \in S \ {b.final} : Before(u, b.final)
  /\ b.open = Value(b.first, s) /\ b.close = Value(b.final, s)
  /\ \E u \in S : b.high = Value(u, s)
  /\ \E u \in S : b.low = Value(u, s)
  /\ \A u \in S : b.low <= Value(u, s) /\ Value(u, s) <= b.high
  /\ b.vol = SumFunction([t \in S |-> t.vol])
InBucket(S, s, start) == {t \in S : Floor(t.time, Step(s)) = start}
OpenIsMade(r, s, f) ==
  r.open # None =>
    /\ r.open.time % Step(s) = 0 /\ r.open.time > r.final
    /\ r.last # None => r.last.time <= r.open.time
    /\ MadeOf(r.open, InBucket(r.took, s, r.open.time), s)
    /\ AfterMark(r, s) => (f.on /\ f.confirmed) \/ r.last.time + Step(s) >= r.open.time

(* A trade that was taken is in a closed bucket or in the open bar.             *)
TookIsPast(r, s, ids) ==
  \A t \in r.took : t.id \in ids /\ (Floor(t.time, Step(s)) <= r.final \/ (r.open # None /\ Floor(t.time, Step(s)) = r.open.time))

OutIsPast(r) ==
  /\ \A i \in 1 .. Len(r.out) - 1 : r.out[i].time < r.out[i + 1].time
  /\ \A i \in 1 .. Len(r.out) :
       r.out[i].time <= r.final /\ (r.last # None => r.out[i].time <= r.last.time)

(* Where the next flat bar may go: behind all that is closed.                   *)
LastIsClosed(r, s, f, c) ==
  /\ r.final = -1 \/ r.final + Step(s) <= c
  /\ r.last # None =>
       /\ r.last.time % Step(s) = 0 /\ r.last.time - Step(s) <= r.final
       /\ r.final <= r.last.time \/ r.final < f.bound
  /\ r.open # None => r.open.time <= c
  /\ ~f.on => r.mark = -1

(* The base and what was emitted after it, E, are what a backtest makes of the  *)
(* base and the traded bars, and k flat bars after it.                          *)
Emitted(r) == SubSeq(r.out, r.mark + 1, Len(r.out))
Derived(base, E, step) == NormalizeCandles(<<base>> \o Traded(E), step)
Chained(base, E, last, k, step) ==
  LET N == Derived(base, E, step) IN
  /\ N # <<>> /\ (Len(N) > 1 => ~Last(N).synthetic)
  /\ <<base>> \o E = N \o FlatsAfter(Last(N), k, step)
  /\ last.time = Last(N).time + k * step /\ last.close = Last(N).close
FlatsFollow(r, s, f) ==
  /\ r.mark \in -1 .. Len(r.out)
  /\ AfterMark(r, s) =>
       /\ r.base \in Candle /\ r.last # None /\ r.last.time + Step(s) >= f.bound
       /\ \E k \in 0 .. Len(r.out) : Chained(r.base, Emitted(r), r.last, k, Step(s)) /\ (k > 0 => r.last.time <= r.final)

StreamOk(r, s, f, c, ids) ==
  /\ StreamTyped(r) /\ OpenIsMade(r, s, f) /\ TookIsPast(r, s, ids) /\ OutIsPast(r)
  /\ LastIsClosed(r, s, f, c) /\ FlatsFollow(r, s, f)

(* An open bar is none of the present subscription, or it begins with a whole   *)
(* minute of it; and of the trades `told` on it those that count are in the    *)
(* open bar, or their bucket is over.                                          *)
OpenIsFresh(r, f) ==
  r.open # None => r.open.time <= f.epoch \/ (f.on /\ r.open.time >= Ceil(f.epoch, 4))
HeardIsTaken(r, s, told) ==
  \A t \in told : Value(t, s) > 0 =>
    \/ t \in r.took \/ Floor(t.time, Step(s)) <= r.final
    \/ r.open # None /\ Floor(t.time, Step(s)) < r.open.time
StreamFresh(r, s, f, told) == OpenIsFresh(r, f) /\ HeardIsTaken(r, s, told)

(* The trade that is handled: of an earlier subscription, or past the first     *)
(* whole minute of this one; the bars that were over when it happened are.      *)
Handled ==
  handling # NoTrade =>
    /\ handling.trade \in MarketTrades /\ handling.trade.time <= clock
    /\ handling.trade.time <= feed.epoch \/ (feed.on /\ handling.trade.time >= StartsAt)
    /\ \A s \in Streams : stream[s].open = None \/ stream[s].open.time + Step(s) > handling.trade.time

Feeding ==
  /\ clock \in Nat \ {0}
  /\ DOMAIN feed = {"session", "on", "confirmed", "epoch", "bound", "breaks"}
  /\ feed.on \in BOOLEAN /\ feed.confirmed \in BOOLEAN /\ feed.epoch \in Nat /\ feed.bound \in Nat
  /\ feed.epoch <= clock /\ feed.bound <= clock /\ (feed.on => feed.session)
  /\ DOMAIN agg = {"seen", "latest"}
  /\ DOMAIN stream = Streams
  /\ DOMAIN sent = {"once", "repeats", "heard"} /\ sent.heard \subseteq MarketTrades
CandlesInv ==
  /\ Feeding /\ Handled
  /\ \A s \in Streams : StreamOk(stream[s], s, feed, clock, agg.seen) /\ StreamFresh(stream[s], s, feed, sent.heard)

(* ------------------------- loops over a sequence --------------------------- *)

\* Two recursions with the same start and the same first n steps agree on the n-th value.
LEMMA StepsAgree ==
  ASSUME NEW n \in Nat, NEW m \in Nat, n <= m, NEW V, NEW a, NEW G, NEW H, NEW g, NEW h,
         Steps(g, n, V, a, G), Steps(h, m, V, a, H), \A i \in 1..n : G[i] = H[i]
  PROVE  g[n] = h[n]
<1> DEFINE Bad == {i \in 0..n : g[i] # h[i]}
<1>1. ASSUME Bad # {} PROVE FALSE
  <2>1. Bad \in SUBSET Nat
    OBVIOUS
  <2>2. PICK i \in Bad : \A j \in Bad : i <= j
    <3> HIDE DEF Bad
    <3>1. QED
      BY <1>1, <2>1, MinIsLeast
  <2>3. i # 0
    BY DEF Steps
  <2>4. i \in 1..n /\ i \in 1..m /\ i - 1 \in 0..n /\ ~(i <= i - 1)
    BY <2>3
  <2>5. g[i - 1] = h[i - 1]
    BY <2>2, <2>4
  <2>6. g[i] = G[i][g[i - 1]] /\ h[i] = H[i][h[i - 1]] /\ G[i] = H[i]
    BY <2>4 DEF Steps
  <2>7. QED
    BY <2>5, <2>6
<1>2. QED
  BY <1>1

TradedStep(bars) == [i \in 1..Len(bars) |-> [v \in Seq(Candle) |-> IF bars[i].synthetic THEN v ELSE Append(v, bars[i])]]
NormalStep(bars, step) == [i \in 1..Len(bars) |-> [v \in Seq(Candle) |-> WithGap(v, bars[i], step)]]

LEMMA FlatsAre ==
  ASSUME NEW b \in Candle, NEW n \in Nat, NEW step \in {2, 4}
  PROVE  /\ FlatsAfter(b, n, step) \in Seq(Candle) /\ Len(FlatsAfter(b, n, step)) = n
         /\ \A i \in 1..n : /\ FlatsAfter(b, n, step)[i] = FlatBar(b.time + i * step, b.close)
                            /\ FlatBar(b.time + i * step, b.close) \in Candle
<1>1. b.time \in Int /\ b.close \in Int
  BY DEF Candle
<1>2. ASSUME NEW i \in 1..n PROVE FlatBar(b.time + i * step, b.close) \in Candle
  <2>1. b.time + i * step \in Int
    BY <1>1
  <2>2. PICK t : t = b.time + i * step
    OBVIOUS
  <2>3. QED
    BY <1>1, <2>1, <2>2 DEF FlatBar, Candle
<1>3. QED
  BY <1>2 DEF FlatsAfter

LEMMA FlatsAreBars ==
  ASSUME NEW b \in Candle, NEW n \in Nat, NEW step \in {2, 4}
  PROVE  FlatsAfter(b, n, step) \in Seq(Candle) /\ Len(FlatsAfter(b, n, step)) = n
BY FlatsAre

LEMMA WithGapIs ==
  ASSUME NEW out \in Seq(Candle), NEW b \in Candle, NEW step \in {2, 4}
  PROVE  /\ WithGap(out, b, step) \in Seq(Candle)
         /\ \E n \in Nat : /\ WithGap(out, b, step) = Append(out \o FlatsAfter(Last(out), n, step), b)
                           /\ out = <<>> => n = 0
                           /\ out # <<>> => n = Max({0, (b.time - (Last(out).time + step)) \div step})
<1>1. CASE out = <<>>
  <2>1. WithGap(out, b, step) = Append(out \o FlatsAfter(Last(out), 0, step), b)
    BY <1>1 DEF WithGap
  <2>2. FlatsAfter(Last(out), 0, step) = <<>>
    BY DEF FlatsAfter
  <2>3. QED
    BY <1>1, <2>1, <2>2
<1>2. CASE out # <<>>
  <2>1. PICK c \in Candle : c = Last(out)
    BY <1>2 DEF Last
  <2>2. PICK x \in Int : x = (b.time - (c.time + step)) \div step
    BY DEF Candle
  <2>3. PICK n \in Nat : n = Max({0, x})
    <3>1. \E y \in {0, x} : \A z \in {0, x} : y >= z
      OBVIOUS
    <3>2. Max({0, x}) \in {0, x} /\ Max({0, x}) >= 0
      BY <3>1 DEF Max
    <3>3. QED
      BY <3>2
  <2>4. WithGap(out, b, step) = Append(out \o FlatsAfter(c, n, step), b)
    BY <1>2, <2>1, <2>2, <2>3 DEF WithGap
  <2>5. PICK F \in Seq(Candle) : F = FlatsAfter(c, n, step)
    BY FlatsAre
  <2>6. Append(out \o F, b) \in Seq(Candle)
    OBVIOUS
  <2>7. QED
    BY <1>2, <2>1, <2>2, <2>3, <2>4, <2>5, <2>6
<1>3. QED
  BY <1>1, <1>2

\* The two loops that read bars are recursions over the bars.
LEMMA TradedSteps ==
  ASSUME NEW bars \in Seq(Candle)
  PROVE  \E h : Steps(h, Len(bars), Seq(Candle), <<>>, TradedStep(bars)) /\ Traded(bars) = h[Len(bars)]
<1>1. Len(bars) \in Nat /\ \A i \in 1..Len(bars) : bars[i] \in Candle
  OBVIOUS
<1>2. TradedStep(bars) \in [1..Len(bars) -> [Seq(Candle) -> Seq(Candle)]]
  BY <1>1 DEF TradedStep
<1>3. PICK h : Steps(h, Len(bars), Seq(Candle), <<>>, TradedStep(bars))
  <2>1. PICK n, V, a, g : n = Len(bars) /\ V = Seq(Candle) /\ a = <<>> /\ g = TradedStep(bars)
    OBVIOUS
  <2>2. n \in Nat /\ a \in V /\ g \in [1..n -> [V -> V]]
    BY <1>1, <1>2, <2>1
  <2>3. \E h : Steps(h, n, V, a, g)
    BY <2>2, RecursionIs
  <2>4. QED
    BY <2>1, <2>3
<1>4. ASSUME NEW i \in 1..Len(bars), NEW v \in Seq(Candle)
      PROVE  TradedStep(bars)[i][v] = IF bars[i].synthetic THEN v ELSE Append(v, bars[i])
  BY DEF TradedStep
<1> DEFINE Is(g) == g = [n \in 0..Len(bars) |->
               IF n = 0 THEN <<>> ELSE IF bars[n].synthetic THEN g[n - 1] ELSE Append(g[n - 1], bars[n])]
           c == CHOOSE g : Is(g)
<1>5. Is(h)
  <2>1. ASSUME NEW i \in 0..Len(bars)
        PROVE  h[i] = IF i = 0 THEN <<>> ELSE IF bars[i].synthetic THEN h[i - 1] ELSE Append(h[i - 1], bars[i])
    <3>1. CASE i = 0
      BY <1>3, <3>1 DEF Steps
    <3>2. CASE i # 0
      <4>1. i \in 1..Len(bars) /\ i - 1 \in 0..Len(bars)
        BY <1>1, <3>2
      <4>2. h[i - 1] \in Seq(Candle) /\ h[i] = TradedStep(bars)[i][h[i - 1]]
        BY <1>3, <4>1 DEF Steps
      <4>3. QED
        BY <1>4, <3>2, <4>1, <4>2
    <3>3. QED
      BY <3>1, <3>2
  <2>2. h = [i \in 0..Len(bars) |-> h[i]]
    BY <1>3 DEF Steps
  <2>3. QED
    BY <2>1, <2>2
<1>6. Is(c)
  <2> HIDE DEF Is
  <2>1. QED
    BY <1>5
<1>7. Traded(bars) = c[Len(bars)]
  BY DEF Traded
<1> HIDE DEF c
<1>8. c = h
  <2> DEFINE Bad == {i \in 0..Len(bars) : c[i] # h[i]}
  <2>1. ASSUME Bad # {} PROVE FALSE
    <3>1. Bad \in SUBSET Nat
      OBVIOUS
    <3>2. PICK m \in Bad : \A j \in Bad : m <= j
      <4> HIDE DEF Bad
      <4>1. QED
        BY <2>1, <3>1, MinIsLeast
    <3>3. m # 0
      BY <1>5, <1>6
    <3>4. m \in 1..Len(bars) /\ m - 1 \in 0..Len(bars) /\ ~(m <= m - 1)
      BY <1>1, <3>3
    <3>5. c[m - 1] = h[m - 1]
      BY <3>2, <3>4
    <3>6. QED
      BY <1>5, <1>6, <3>3, <3>4, <3>5
  <2>2. \A i \in 0..Len(bars) : c[i] = h[i]
    BY <2>1
  <2>3. c = [i \in 0..Len(bars) |-> c[i]] /\ h = [i \in 0..Len(bars) |-> h[i]]
    BY <1>5, <1>6
  <2>4. QED
    BY <2>2, <2>3
<1>9. QED
  BY <1>3, <1>7, <1>8

LEMMA NormalSteps ==
  ASSUME NEW bars \in Seq(Candle), NEW step \in {2, 4}
  PROVE  \E h : Steps(h, Len(bars), Seq(Candle), <<>>, NormalStep(bars, step)) /\ NormalizeCandles(bars, step) = h[Len(bars)]
<1>1. Len(bars) \in Nat /\ \A i \in 1..Len(bars) : bars[i] \in Candle
  OBVIOUS
<1>2. NormalStep(bars, step) \in [1..Len(bars) -> [Seq(Candle) -> Seq(Candle)]]
  BY <1>1, WithGapIs DEF NormalStep
<1>3. PICK h : Steps(h, Len(bars), Seq(Candle), <<>>, NormalStep(bars, step))
  <2>1. PICK n, V, a, g : n = Len(bars) /\ V = Seq(Candle) /\ a = <<>> /\ g = NormalStep(bars, step)
    OBVIOUS
  <2>2. n \in Nat /\ a \in V /\ g \in [1..n -> [V -> V]]
    BY <1>1, <1>2, <2>1
  <2>3. \E h : Steps(h, n, V, a, g)
    BY <2>2, RecursionIs
  <2>4. QED
    BY <2>1, <2>3
<1>4. ASSUME NEW i \in 1..Len(bars), NEW v \in Seq(Candle)
      PROVE  NormalStep(bars, step)[i][v] = WithGap(v, bars[i], step)
  BY DEF NormalStep
<1> DEFINE Is(g) == g = [n \in 0..Len(bars) |->
               IF n = 0 THEN <<>> ELSE WithGap(g[n - 1], bars[n], step)]
           c == CHOOSE g : Is(g)
<1>5. Is(h)
  <2>1. ASSUME NEW i \in 0..Len(bars)
        PROVE  h[i] = IF i = 0 THEN <<>> ELSE WithGap(h[i - 1], bars[i], step)
    <3>1. CASE i = 0
      BY <1>3, <3>1 DEF Steps
    <3>2. CASE i # 0
      <4>1. i \in 1..Len(bars) /\ i - 1 \in 0..Len(bars)
        BY <1>1, <3>2
      <4>2. h[i - 1] \in Seq(Candle) /\ h[i] = NormalStep(bars, step)[i][h[i - 1]]
        BY <1>3, <4>1 DEF Steps
      <4>3. QED
        BY <1>4, <3>2, <4>1, <4>2
    <3>3. QED
      BY <3>1, <3>2
  <2>2. h = [i \in 0..Len(bars) |-> h[i]]
    BY <1>3 DEF Steps
  <2>3. QED
    BY <2>1, <2>2
<1>6. Is(c)
  <2> HIDE DEF Is
  <2>1. QED
    BY <1>5
<1>7. NormalizeCandles(bars, step) = c[Len(bars)]
  BY DEF NormalizeCandles
<1> HIDE DEF c
<1>8. c = h
  <2> DEFINE Bad == {i \in 0..Len(bars) : c[i] # h[i]}
  <2>1. ASSUME Bad # {} PROVE FALSE
    <3>1. Bad \in SUBSET Nat
      OBVIOUS
    <3>2. PICK m \in Bad : \A j \in Bad : m <= j
      <4> HIDE DEF Bad
      <4>1. QED
        BY <2>1, <3>1, MinIsLeast
    <3>3. m # 0
      BY <1>5, <1>6
    <3>4. m \in 1..Len(bars) /\ m - 1 \in 0..Len(bars) /\ ~(m <= m - 1)
      BY <1>1, <3>3
    <3>5. c[m - 1] = h[m - 1]
      BY <3>2, <3>4
    <3>6. QED
      BY <1>5, <1>6, <3>3, <3>4, <3>5
  <2>2. \A i \in 0..Len(bars) : c[i] = h[i]
    BY <2>1
  <2>3. c = [i \in 0..Len(bars) |-> c[i]] /\ h = [i \in 0..Len(bars) |-> h[i]]
    BY <1>5, <1>6
  <2>4. QED
    BY <2>2, <2>3
<1>9. QED
  BY <1>3, <1>7, <1>8

LEMMA TradedIs ==
  ASSUME NEW bars \in Seq(Candle)
  PROVE  /\ Traded(bars) \in Seq(Candle) /\ (bars = <<>> => Traded(bars) = <<>>)
         /\ \A b \in Candle : Traded(Append(bars, b)) = IF b.synthetic THEN Traded(bars) ELSE Append(Traded(bars), b)
<1>1. Len(bars) \in Nat
  OBVIOUS
<1>2. PICK h : Steps(h, Len(bars), Seq(Candle), <<>>, TradedStep(bars)) /\ Traded(bars) = h[Len(bars)]
  BY TradedSteps
<1>3. Traded(bars) \in Seq(Candle) /\ (bars = <<>> => Traded(bars) = <<>>)
  BY <1>1, <1>2 DEF Steps
<1>4. ASSUME NEW b \in Candle
      PROVE  Traded(Append(bars, b)) = IF b.synthetic THEN Traded(bars) ELSE Append(Traded(bars), b)
  <2>1. PICK more \in Seq(Candle) : more = Append(bars, b)
    BY AppendProperties
  <2>2. Len(more) = Len(bars) + 1 /\ more[Len(more)] = b /\ \A i \in 1..Len(bars) : more[i] = bars[i]
    BY <2>1, AppendProperties
  <2>3. PICK g : Steps(g, Len(more), Seq(Candle), <<>>, TradedStep(more)) /\ Traded(more) = g[Len(more)]
    BY TradedSteps
  <2>4. g[Len(bars)] = h[Len(bars)]
    <3>1. ASSUME NEW i \in 1..Len(bars) PROVE TradedStep(bars)[i] = TradedStep(more)[i]
      <4>1. i \in 1..Len(more) /\ more[i] = bars[i]
        BY <1>1, <2>2
      <4>2. QED
        BY <4>1 DEF TradedStep
    <3>2. PICK n, m, V, a, G, H : n = Len(bars) /\ m = Len(more) /\ V = Seq(Candle) /\ a = <<>>
                                  /\ G = TradedStep(bars) /\ H = TradedStep(more)
      OBVIOUS
    <3>3. n \in Nat /\ m \in Nat /\ n <= m /\ Steps(h, n, V, a, G) /\ Steps(g, m, V, a, H) /\ \A i \in 1..n : G[i] = H[i]
      BY <1>1, <1>2, <2>2, <2>3, <3>1, <3>2
    <3>4. h[n] = g[n]
      BY <3>3, StepsAgree
    <3>5. QED
      BY <3>2, <3>4
  <2>5. Len(more) \in 1..Len(more) /\ Len(more) - 1 = Len(bars) /\ Len(bars) \in 0..Len(more)
    BY <1>1, <2>2
  <2>6. g[Len(more)] = TradedStep(more)[Len(more)][g[Len(bars)]]
    BY <2>3, <2>5 DEF Steps
  <2>7. TradedStep(more)[Len(more)][g[Len(bars)]] = IF b.synthetic THEN g[Len(bars)] ELSE Append(g[Len(bars)], b)
    <3>1. g[Len(bars)] \in Seq(Candle)
      BY <2>3, <2>5 DEF Steps
    <3>2. QED
      BY <2>2, <2>5, <3>1 DEF TradedStep
  <2>8. QED
    BY <1>2, <2>1, <2>3, <2>4, <2>6, <2>7
<1>5. QED
  BY <1>3, <1>4

LEMMA NormalIs ==
  ASSUME NEW bars \in Seq(Candle), NEW step \in {2, 4}
  PROVE  /\ NormalizeCandles(bars, step) \in Seq(Candle) /\ (bars = <<>> => NormalizeCandles(bars, step) = <<>>)
         /\ \A b \in Candle : NormalizeCandles(Append(bars, b), step) = WithGap(NormalizeCandles(bars, step), b, step)
<1>1. Len(bars) \in Nat
  OBVIOUS
<1>2. PICK h : Steps(h, Len(bars), Seq(Candle), <<>>, NormalStep(bars, step)) /\ NormalizeCandles(bars, step) = h[Len(bars)]
  BY NormalSteps
<1>3. NormalizeCandles(bars, step) \in Seq(Candle) /\ (bars = <<>> => NormalizeCandles(bars, step) = <<>>)
  BY <1>1, <1>2 DEF Steps
<1>4. ASSUME NEW b \in Candle
      PROVE  NormalizeCandles(Append(bars, b), step) = WithGap(NormalizeCandles(bars, step), b, step)
  <2>1. PICK more \in Seq(Candle) : more = Append(bars, b)
    BY AppendProperties
  <2>2. Len(more) = Len(bars) + 1 /\ more[Len(more)] = b /\ \A i \in 1..Len(bars) : more[i] = bars[i]
    BY <2>1, AppendProperties
  <2>3. PICK g : Steps(g, Len(more), Seq(Candle), <<>>, NormalStep(more, step)) /\ NormalizeCandles(more, step) = g[Len(more)]
    BY NormalSteps
  <2>4. g[Len(bars)] = h[Len(bars)]
    <3>1. ASSUME NEW i \in 1..Len(bars) PROVE NormalStep(bars, step)[i] = NormalStep(more, step)[i]
      <4>1. i \in 1..Len(more) /\ more[i] = bars[i]
        BY <1>1, <2>2
      <4>2. QED
        BY <4>1 DEF NormalStep
    <3>2. PICK n, m, V, a, G, H : n = Len(bars) /\ m = Len(more) /\ V = Seq(Candle) /\ a = <<>>
                                  /\ G = NormalStep(bars, step) /\ H = NormalStep(more, step)
      OBVIOUS
    <3>3. n \in Nat /\ m \in Nat /\ n <= m /\ Steps(h, n, V, a, G) /\ Steps(g, m, V, a, H) /\ \A i \in 1..n : G[i] = H[i]
      BY <1>1, <1>2, <2>2, <2>3, <3>1, <3>2
    <3>4. h[n] = g[n]
      BY <3>3, StepsAgree
    <3>5. QED
      BY <3>2, <3>4
  <2>5. Len(more) \in 1..Len(more) /\ Len(more) - 1 = Len(bars) /\ Len(bars) \in 0..Len(more)
    BY <1>1, <2>2
  <2>6. g[Len(more)] = NormalStep(more, step)[Len(more)][g[Len(bars)]]
    BY <2>3, <2>5 DEF Steps
  <2>7. NormalStep(more, step)[Len(more)][g[Len(bars)]] = WithGap(g[Len(bars)], b, step)
    <3>1. g[Len(bars)] \in Seq(Candle)
      BY <2>3, <2>5 DEF Steps
    <3>2. QED
      BY <2>2, <2>5, <3>1 DEF NormalStep
  <2>8. QED
    BY <1>2, <2>1, <2>3, <2>4, <2>6, <2>7
<1>5. QED
  BY <1>3, <1>4

\* Flat bars are not traded.
LEMMA FlatsNotTraded ==
  ASSUME NEW bars \in Seq(Candle), NEW c \in Candle, NEW n \in Nat, NEW step \in {2, 4}
  PROVE  Traded(bars \o FlatsAfter(c, n, step)) = Traded(bars)
<1> DEFINE Bad == {k \in 0..n : Traded(bars \o FlatsAfter(c, k, step)) # Traded(bars)}
<1>1. ASSUME Bad # {} PROVE FALSE
  <2>1. Bad \in SUBSET Nat
    OBVIOUS
  <2>2. PICK k \in Bad : \A j \in Bad : k <= j
    <3> HIDE DEF Bad
    <3>1. QED
      BY <1>1, <2>1, MinIsLeast
  <2>3. k # 0
    <3>1. FlatsAfter(c, 0, step) = <<>> /\ bars \o <<>> = bars
      BY DEF FlatsAfter
    <3>2. QED
      BY <3>1
  <2>4. k \in Nat /\ k - 1 \in Nat /\ k - 1 \in 0..n /\ ~(k <= k - 1) /\ k \in 1..k
    BY <2>3
  <2>5. PICK b \in Candle : b = FlatBar(c.time + k * step, c.close)
    BY <2>4, FlatsAre
  <2>6. PICK F, E : F = FlatsAfter(c, k, step) /\ E = FlatsAfter(c, k - 1, step)
    OBVIOUS
  <2>7. F = Append(E, b)
    <3>1. F = [i \in 1..k |-> FlatBar(c.time + i * step, c.close)] /\ E = [i \in 1..(k - 1) |-> FlatBar(c.time + i * step, c.close)]
      BY <2>6 DEF FlatsAfter
    <3>2. E \in Seq(Candle) /\ F \in Seq(Candle) /\ Len(E) = k - 1 /\ Len(F) = k
      <4>1. PICK j \in Nat : j = k - 1
        BY <2>4
      <4>2. E \in Seq(Candle) /\ Len(E) = j
        BY <2>6, <4>1, FlatsAre
      <4>3. QED
        BY <2>4, <2>6, <4>1, <4>2, FlatsAre
    <3>3. PICK M : M = Append(E, b)
      OBVIOUS
    <3>4. M \in Seq(Candle) /\ Len(M) = k /\ M[k] = b /\ \A i \in 1..(k - 1) : M[i] = E[i]
      <4>1. Len(E) + 1 = k
        BY <2>4, <3>2
      <4>2. QED
        BY <3>2, <3>3, <4>1, AppendProperties
    <3>5. ASSUME NEW i \in 1..k PROVE F[i] = M[i]
      <4>1. CASE i = k
        BY <2>4, <2>5, <3>1, <3>4, <4>1
      <4>2. CASE i # k
        <5>1. i \in 1..(k - 1)
          BY <2>4, <4>2
        <5>2. QED
          BY <3>1, <3>4, <5>1
      <4>3. QED
        BY <4>1, <4>2
    <3>6. F = M
      BY <2>4, <3>2, <3>4, <3>5, SeqEqual
    <3>7. QED
      BY <3>3, <3>6
  <2>8. E \in Seq(Candle) /\ F \in Seq(Candle) /\ bars \o E \in Seq(Candle)
    <3>1. PICK j \in Nat : j = k - 1
      BY <2>4
    <3>2. E \in Seq(Candle) /\ F \in Seq(Candle)
      BY <2>4, <2>6, <3>1, FlatsAre
    <3>3. QED
      BY <3>2, ConcatProperties
  <2>9. bars \o F = Append(bars \o E, b)
    <3>1. <<b>> \in Seq(Candle)
      OBVIOUS
    <3>2. F = E \o <<b>> /\ Append(bars \o E, b) = (bars \o E) \o <<b>>
      BY <2>7, <2>8, AppendIsConcat
    <3>3. QED
      BY <2>8, <3>1, <3>2, ConcatAssociative
  <2>10. b.synthetic
    BY <2>5 DEF FlatBar
  <2>11. Traded(bars \o F) = Traded(bars \o E)
    BY <2>8, <2>9, <2>10, TradedIs
  <2>12. Traded(bars \o E) = Traded(bars)
    BY <2>2, <2>4, <2>6
  <2>13. QED
    BY <2>6, <2>11, <2>12
<1>2. n \in 0..n
  OBVIOUS
<1>3. QED
  BY <1>1, <1>2

(* ------------------- the base, traded bars and flat bars ------------------- *)

\* Flat bars after flat bars are more flat bars after the same bar.
LEMMA FlatsOfFlats ==
  ASSUME NEW c \in Candle, NEW last \in Candle, NEW k \in Nat, NEW n \in Nat, NEW step \in {2, 4},
         last.time = c.time + k * step, last.close = c.close
  PROVE  FlatsAfter(c, k, step) \o FlatsAfter(last, n, step) = FlatsAfter(c, k + n, step)
<1>0. PICK F, G, H : F = FlatsAfter(c, k, step) /\ G = FlatsAfter(last, n, step) /\ H = FlatsAfter(c, k + n, step)
  OBVIOUS
<1>1. F \in Seq(Candle) /\ Len(F) = k /\ G \in Seq(Candle) /\ Len(G) = n
  <2>1. F \in Seq(Candle) /\ Len(F) = k
    <3>1. FlatsAfter(c, k, step) \in Seq(Candle) /\ Len(FlatsAfter(c, k, step)) = k
      BY FlatsAreBars
    <3>2. QED
      BY ONLY <1>0, <3>1
  <2>2. G \in Seq(Candle) /\ Len(G) = n
    BY <1>0, FlatsAreBars
  <2>3. QED
    BY <2>1, <2>2
<1>2. H \in Seq(Candle) /\ Len(H) = k + n
  <2>1. PICK m \in Nat : m = k + n
    OBVIOUS
  <2>2. QED
    BY <1>0, <2>1, FlatsAreBars
<1>3. PICK M : M = F \o G
  OBVIOUS
<1>4. M \in Seq(Candle) /\ Len(M) = k + n /\ \A i \in 1 .. k + n : M[i] = IF i <= k THEN F[i] ELSE G[i - k]
  BY <1>1, <1>3, ConcatProperties
<1>5. ASSUME NEW i \in 1 .. k + n PROVE M[i] = H[i]
  <2>1. H[i] = FlatBar(c.time + i * step, c.close)
    BY <1>0 DEF FlatsAfter
  <2>2. CASE i <= k
    <3>1. i \in 1..k
      BY <2>2
    <3>2. QED
      BY <1>0, <1>4, <2>1, <2>2, <3>1 DEF FlatsAfter
  <2>3. CASE ~(i <= k)
    <3>1. i - k \in 1..n
      BY <2>3
    <3>2. G[i - k] = FlatBar(last.time + (i - k) * step, last.close)
      BY <1>0, <3>1 DEF FlatsAfter
    <3>3. last.time + (i - k) * step = c.time + i * step
      <4>1. c.time \in Int
        BY DEF Candle
      <4>2. CASE step = 2
        BY <4>1, <4>2
      <4>3. CASE step = 4
        BY <4>1, <4>3
      <4>4. QED
        BY <4>2, <4>3
    <3>4. QED
      BY <1>4, <2>1, <2>3, <3>2, <3>3
  <2>4. QED
    BY <2>2, <2>3
<1>6. M = H
  BY <1>2, <1>4, <1>5, SeqEqual
<1>7. QED
  BY <1>0, <1>3, <1>6

LEMMA DerivedIs ==
  ASSUME NEW base \in Candle, NEW E \in Seq(Candle), NEW step \in {2, 4}
  PROVE  /\ Derived(base, E, step) \in Seq(Candle)
         /\ \A c \in Candle, n \in Nat : /\ E \o FlatsAfter(c, n, step) \in Seq(Candle)
                                         /\ Derived(base, E \o FlatsAfter(c, n, step), step) = Derived(base, E, step)
         /\ \A b \in Candle : ~b.synthetic =>
              Derived(base, Append(E, b), step) = WithGap(Derived(base, E, step), b, step)
<1>1. PICK R \in Seq(Candle) : R = Traded(E)
  BY TradedIs
<1>2. <<base>> \in Seq(Candle)
  OBVIOUS
<1>3. <<base>> \o R \in Seq(Candle)
  BY <1>2, ConcatProperties
<1>4. Derived(base, E, step) \in Seq(Candle)
  BY <1>1, <1>3, NormalIs DEF Derived
<1>5. ASSUME NEW c \in Candle, NEW n \in Nat
      PROVE  E \o FlatsAfter(c, n, step) \in Seq(Candle) /\ Derived(base, E \o FlatsAfter(c, n, step), step) = Derived(base, E, step)
  <2>1. PICK F \in Seq(Candle) : F = FlatsAfter(c, n, step)
    BY FlatsAre
  <2>2. E \o F \in Seq(Candle)
    BY ConcatProperties
  <2>3. Traded(E \o F) = R
    BY <1>1, <2>1, FlatsNotTraded
  <2>4. QED
    BY <1>1, <2>1, <2>2, <2>3 DEF Derived
<1>6. ASSUME NEW b \in Candle, ~b.synthetic
      PROVE  Derived(base, Append(E, b), step) = WithGap(Derived(base, E, step), b, step)
  <2>1. Traded(Append(E, b)) = Append(R, b)
    BY <1>1, <1>6, TradedIs
  <2>2. <<base>> \o Append(R, b) = Append(<<base>> \o R, b)
    <3>1. <<b>> \in Seq(Candle)
      OBVIOUS
    <3>2. Append(R, b) = R \o <<b>> /\ Append(<<base>> \o R, b) = (<<base>> \o R) \o <<b>>
      BY <1>3, AppendIsConcat
    <3>3. QED
      BY <1>2, <3>1, <3>2, ConcatAssociative
  <2>3. NormalizeCandles(Append(<<base>> \o R, b), step) = WithGap(NormalizeCandles(<<base>> \o R, step), b, step)
    BY <1>3, NormalIs
  <2>4. QED
    BY <1>1, <2>1, <2>2, <2>3 DEF Derived
<1>7. QED
  BY <1>4, <1>5, <1>6

LEMMA ChainedStart == ASSUME NEW base \in Candle, NEW step \in {2, 4} PROVE Chained(base, <<>>, base, 0, step)
<1>1. <<>> \in Seq(Candle) /\ <<base>> \in Seq(Candle) /\ <<base>> \o <<>> = <<base>> /\ Append(<<>>, base) = <<base>>
  OBVIOUS
<1>2. Traded(<<>>) = <<>> /\ NormalizeCandles(<<>>, step) = <<>>
  BY <1>1, TradedIs, NormalIs
<1>3. NormalizeCandles(<<base>>, step) = WithGap(<<>>, base, step)
  BY <1>1, <1>2, NormalIs, ZenonT(30)
<1>4. FlatsAfter(Last(<<>>), 0, step) = <<>> /\ FlatsAfter(base, 0, step) = <<>> /\ <<>> \o <<>> = <<>>
  <2>1. 1..0 = {}
    OBVIOUS
  <2>2. FlatsAfter(Last(<<>>), 0, step) = <<>> /\ FlatsAfter(base, 0, step) = <<>>
    BY <2>1 DEF FlatsAfter
  <2>3. <<>> \o <<>> = <<>>
    OBVIOUS
  <2>4. QED
    BY <2>2, <2>3
<1>5. WithGap(<<>>, base, step) = <<base>>
  BY <1>1, <1>4 DEF WithGap
<1>6. Derived(base, <<>>, step) = <<base>>
  BY <1>1, <1>2, <1>3, <1>5 DEF Derived
<1>7. Last(<<base>>) = base /\ Len(<<base>>) = 1 /\ <<base>> # <<>> /\ base.time \in Int
  BY DEF Last, Candle
<1>8. base.time = base.time + 0 * step
  BY <1>7
<1>9. PICK N : N = <<base>>
  OBVIOUS
<1>10. N = Derived(base, <<>>, step) /\ N # <<>> /\ Len(N) = 1 /\ Last(N) = base
       /\ <<base>> \o <<>> = N \o FlatsAfter(Last(N), 0, step)
  BY <1>1, <1>4, <1>6, <1>7, <1>9
<1>11. QED
  BY <1>8, <1>10 DEF Chained

LEMMA ChainedFlats ==
  ASSUME NEW base \in Candle, NEW E \in Seq(Candle), NEW last \in Candle, NEW k \in Nat, NEW step \in {2, 4},
         Chained(base, E, last, k, step), NEW n \in Nat, n # 0
  PROVE  Chained(base, E \o FlatsAfter(last, n, step), FlatsAfter(last, n, step)[n], k + n, step)
<1>1. PICK N : N = Derived(base, E, step)
  OBVIOUS
<1>2. PICK F : F = FlatsAfter(last, n, step)
  OBVIOUS
<1>3. N \in Seq(Candle) /\ N # <<>> /\ N = Derived(base, E \o F, step)
  BY <1>1, <1>2, DerivedIs DEF Chained
<1>4. PICK c \in Candle : c = Last(N)
  BY <1>3 DEF Last
<1>5. /\ <<base>> \o E = N \o FlatsAfter(c, k, step)
      /\ last.time = c.time + k * step /\ last.close = c.close /\ (Len(N) > 1 => ~Last(N).synthetic)
  BY <1>1, <1>4 DEF Chained
<1>6. <<base>> \o (E \o F) = N \o FlatsAfter(c, k + n, step)
  <2>1. <<base>> \in Seq(Candle) /\ F \in Seq(Candle)
    <3>1. FlatsAfter(last, n, step) \in Seq(Candle)
      BY FlatsAreBars
    <3>2. QED
      BY <1>2, <3>1
  <2>2. PICK G \in Seq(Candle) : G = FlatsAfter(c, k, step)
    BY FlatsAreBars
  <2>3. G \o F = FlatsAfter(c, k + n, step)
    <3>1. last.time = c.time + k * step
      BY ONLY <1>5
    <3>2. last.close = c.close
      BY ONLY <1>5
    <3>3. FlatsAfter(c, k, step) \o FlatsAfter(last, n, step) = FlatsAfter(c, k + n, step)
      BY <3>1, <3>2, FlatsOfFlats, ZenonT(120)
    <3>4. QED
      BY ONLY <1>2, <2>2, <3>3
  <2>4. <<base>> \o (E \o F) = (<<base>> \o E) \o F
    <3>1. PICK one \in Seq(Candle) : one = <<base>>
      BY <2>1
    <3>2. E \in Seq(Candle) /\ F \in Seq(Candle)
      BY <2>1
    <3>3. one \o (E \o F) = (one \o E) \o F
      BY ONLY <3>1, <3>2, ConcatAssociative
    <3>4. QED
      BY <3>1, <3>3
  <2>5. (N \o G) \o F = N \o (G \o F)
    BY <1>3, <2>1, <2>2, ConcatAssociative, SMTT(30)
  <2>6. QED
    BY <1>5, <2>2, <2>3, <2>4, <2>5
<1>7. F[n] = FlatBar(last.time + n * step, last.close)
  <2>1. n \in 1..n
    OBVIOUS
  <2>2. QED
    BY <1>2, <2>1 DEF FlatsAfter
<1>8. F[n].time = c.time + (k + n) * step /\ F[n].close = c.close
  <2>1. F[n].time = last.time + n * step /\ F[n].close = last.close
    BY <1>7 DEF FlatBar
  <2>2. last.time + n * step = c.time + (k + n) * step
    <3>1. c.time \in Int
      BY DEF Candle
    <3>2. CASE step = 2
      BY <1>5, <3>1, <3>2
    <3>3. CASE step = 4
      BY <1>5, <3>1, <3>3
    <3>4. QED
      BY <3>2, <3>3
  <2>3. QED
    BY <1>5, <2>1, <2>2
<1>9. QED
  BY <1>2, <1>3, <1>4, <1>5, <1>6, <1>8 DEF Chained

LEMMA ChainedBar ==
  ASSUME NEW base \in Candle, NEW E \in Seq(Candle), NEW last \in Candle, NEW k \in Nat, NEW step \in {2, 4},
         Chained(base, E, last, k, step), NEW b \in Candle, ~b.synthetic,
         b.time = last.time + step \/ (b.time = last.time /\ k = 0)
  PROVE  Chained(base, Append(E, b), b, 0, step)
<1>1. PICK N : N = Derived(base, E, step)
  OBVIOUS
<1>2. N \in Seq(Candle) /\ N # <<>>
  BY <1>1, DerivedIs DEF Chained
<1>3. PICK c \in Candle : c = Last(N)
  BY <1>2 DEF Last
<1>4. <<base>> \o E = N \o FlatsAfter(c, k, step) /\ last.time = c.time + k * step
  BY <1>1, <1>3 DEF Chained
<1>5. PICK M : M = WithGap(N, b, step)
  OBVIOUS
<1>6. M = Derived(base, Append(E, b), step)
  BY <1>1, <1>5, DerivedIs
<1>7. PICK n \in Nat : M = Append(N \o FlatsAfter(Last(N), n, step), b) /\ n = Max({0, (b.time - (Last(N).time + step)) \div step})
  BY <1>2, <1>5, WithGapIs, ZenonT(30)
<1>8. n = k
  <2>1. c.time \in Int /\ b.time \in Int /\ last.time \in Int
    BY DEF Candle
  <2>2. PICK x : x = (b.time - (c.time + step)) \div step
    OBVIOUS
  <2>3. x \in Int /\ (x = k \/ (x <= k /\ k = 0))
    <3>1. \/ b.time - (c.time + step) = k * step
          \/ k = 0 /\ b.time - (c.time + step) = - step
      BY <1>4, <2>1, SMTT(30)
    <3>2. CASE step = 2
      <4>1. x = (b.time - (c.time + 2)) \div 2 /\ (b.time - (c.time + 2) = k * 2 \/ (k = 0 /\ b.time - (c.time + 2) = -2))
        BY <2>2, <3>1, <3>2
      <4>2. QED
        BY <2>1, <4>1
    <3>3. CASE step = 4
      <4>1. x = (b.time - (c.time + 4)) \div 4 /\ (b.time - (c.time + 4) = k * 4 \/ (k = 0 /\ b.time - (c.time + 4) = -4))
        BY <2>2, <3>1, <3>3
      <4>2. QED
        BY <2>1, <4>1
    <3>4. QED
      BY <3>2, <3>3
  <2>4. n = Max({0, x})
    BY <1>3, <1>7, <2>2
  <2>5. Max({0, x}) = k
    <3>1. k \in {0, x} /\ \A y \in {0, x} : k >= y
      BY <2>3
    <3>2. \A z \in {0, x} : (\A y \in {0, x} : z >= y) => z = k
      BY <2>3
    <3>3. QED
      BY <3>1, <3>2 DEF Max
  <2>6. QED
    BY <2>4, <2>5
<1>9. M = <<base>> \o Append(E, b)
  <2>1. PICK G \in Seq(Candle) : G = FlatsAfter(c, k, step)
    BY FlatsAreBars
  <2>2. <<base>> \in Seq(Candle) /\ <<b>> \in Seq(Candle) /\ N \o G \in Seq(Candle) /\ <<base>> \o E \in Seq(Candle)
    BY <1>2, <2>1, ConcatProperties
  <2>3. M = (N \o G) \o <<b>>
    BY <1>3, <1>7, <1>8, <2>1, <2>2, AppendIsConcat
  <2>4. <<base>> \o Append(E, b) = (<<base>> \o E) \o <<b>>
    BY <2>2, AppendIsConcat, ConcatAssociative
  <2>5. QED
    BY <1>4, <2>1, <2>3, <2>4
<1>10. M \in Seq(Candle) /\ M # <<>> /\ Last(M) = b
  <2>1. PICK G \in Seq(Candle) : G = FlatsAfter(c, k, step)
    BY FlatsAreBars
  <2>2. N \o G \in Seq(Candle)
    BY <1>2, <2>1, ConcatProperties
  <2>3. M = Append(N \o G, b)
    BY <1>3, <1>7, <1>8, <2>1
  <2>4. PICK L \in Seq(Candle) : L = N \o G
    BY <2>2
  <2>5. M \in Seq(Candle) /\ M # <<>> /\ Len(M) = Len(L) + 1 /\ M[Len(L) + 1] = b
    <3>1. /\ Append(L, b) \in Seq(Candle) /\ Append(L, b) # <<>>
          /\ Len(Append(L, b)) = Len(L) + 1 /\ Append(L, b)[Len(L) + 1] = b
      BY AppendProperties
    <3>2. QED
      BY <2>3, <2>4, <3>1
  <2>6. QED
    BY <2>5 DEF Last
<1>11. M \o FlatsAfter(b, 0, step) = M /\ b.time = b.time + 0 * step
  <2>1. FlatsAfter(b, 0, step) = <<>> /\ b.time \in Int
    BY DEF FlatsAfter, Candle
  <2>2. QED
    BY <1>10, <2>1, ConcatEmptySeq
<1>12. QED
  BY <1>6, <1>9, <1>10, <1>11 DEF Chained

\* What is emitted up to the last traded bar is what a backtest derives.
LEMMA ChainedAgrees ==
  ASSUME NEW base \in Candle, NEW E \in Seq(Candle), NEW last, NEW k \in Nat, NEW step \in {2, 4},
         Chained(base, E, last, k, step)
  PROVE  SubSeq(E, 1, Max({0} \cup {i \in DOMAIN E : ~E[i].synthetic})) = Tail(Derived(base, E, step))
<1>1. PICK N : N = Derived(base, E, step)
  OBVIOUS
<1>2. N \in Seq(Candle) /\ N # <<>> /\ (Len(N) > 1 => ~Last(N).synthetic)
  BY <1>1, DerivedIs DEF Chained
<1>3. PICK c \in Candle : c = Last(N)
  BY <1>2 DEF Last
<1>4. PICK F \in Seq(Candle) : F = FlatsAfter(c, k, step) /\ Len(F) = k /\ \A i \in 1..k : F[i].synthetic
  <2>1. ASSUME NEW i \in 1..k PROVE FlatsAfter(c, k, step)[i].synthetic
    <3>1. FlatsAfter(c, k, step)[i] = FlatBar(c.time + i * step, c.close)
      BY DEF FlatsAfter
    <3>2. QED
      BY <3>1 DEF FlatBar
  <2>2. QED
    BY <2>1, FlatsAreBars
<1>5. <<base>> \o E = N \o F
  BY <1>1, <1>3, <1>4 DEF Chained
<1>6. PICK m \in Nat : m = Len(N) - 1
  BY <1>2
<1>7. PICK W : W = <<base>> \o E
  OBVIOUS
<1>8. Len(W) = 1 + Len(E) /\ \A i \in 1..Len(E) : W[i + 1] = E[i]
  <2>1. <<base>> \in Seq(Candle) /\ Len(<<base>>) = 1 /\ Len(E) \in Nat
    OBVIOUS
  <2>2. Len(W) = 1 + Len(E) /\ \A i \in 1 .. 1 + Len(E) : W[i] = IF i <= 1 THEN <<base>>[i] ELSE E[i - 1]
    BY <1>7, <2>1, ConcatProperties
  <2>3. ASSUME NEW i \in 1..Len(E) PROVE W[i + 1] = E[i]
    <3>1. i + 1 \in 1 .. 1 + Len(E) /\ ~(i + 1 <= 1) /\ (i + 1) - 1 = i
      BY <2>1
    <3>2. QED
      BY <2>2, <3>1
  <2>4. QED
    BY <2>2, <2>3
<1>9. Len(W) = m + 1 + k /\ \A i \in 1 .. m + 1 + k : W[i] = IF i <= m + 1 THEN N[i] ELSE F[i - (m + 1)]
  <2>1. Len(N) = m + 1
    BY <1>2, <1>6
  <2>2. W = N \o F /\ Len(N) + Len(F) = m + 1 + k
    BY <1>4, <1>5, <1>7, <2>1
  <2>3. Len(N \o F) = Len(N) + Len(F) /\ \A i \in 1 .. Len(N) + Len(F) : (N \o F)[i] = IF i <= Len(N) THEN N[i] ELSE F[i - Len(N)]
    BY <1>2, <1>4, ConcatProperties, ZenonT(30)
  <2>4. QED
    BY <2>1, <2>2, <2>3
<1>10. Len(E) = m + k
  BY <1>8, <1>9
<1>11. ASSUME NEW i \in 1 .. m + k PROVE E[i] = IF i <= m THEN N[i + 1] ELSE F[i - m]
  <2>1. i + 1 \in 1 .. m + 1 + k /\ (i + 1 <= m + 1 <=> i <= m) /\ (i + 1) - (m + 1) = i - m
    OBVIOUS
  <2>2. QED
    BY <1>8, <1>9, <1>10, <2>1
<1>12. Max({0} \cup {i \in DOMAIN E : ~E[i].synthetic}) = m
  <2>1. PICK S : S = {0} \cup {i \in DOMAIN E : ~E[i].synthetic}
    OBVIOUS
  <2>2. DOMAIN E = 1 .. m + k
    BY <1>10
  <2>3. m \in S
    <3>1. CASE m = 0
      BY <2>1, <3>1
    <3>2. CASE m # 0
      <4>1. m \in 1 .. m + k /\ m <= m /\ m + 1 = Len(N) /\ Len(N) > 1
        BY <1>2, <1>6, <3>2
      <4>2. E[m] = Last(N)
        BY <1>11, <4>1 DEF Last
      <4>3. QED
        BY <1>2, <2>1, <2>2, <4>1, <4>2
    <3>3. QED
      BY <3>1, <3>2
  <2>4. ASSUME NEW i \in S PROVE i \in Nat /\ m >= i
    <3>1. CASE i = 0
      BY <3>1
    <3>2. CASE i \in 1 .. m + k /\ ~E[i].synthetic
      <4>1. ASSUME ~(i <= m) PROVE FALSE
        <5>1. i - m \in 1..k
          BY <3>2, <4>1
        <5>2. E[i] = F[i - m]
          BY <1>11, <3>2, <4>1
        <5>3. QED
          BY <1>4, <3>2, <5>1, <5>2
      <4>2. QED
        BY <3>2, <4>1
    <3>3. QED
      BY <2>1, <2>2, <3>1, <3>2
  <2>5. \A z \in S : (\A y \in S : z >= y) => z = m
    BY <2>3, <2>4
  <2>6. Max(S) = m
    BY <2>3, <2>4, <2>5 DEF Max
  <2>7. QED
    BY <2>1, <2>6
<1>13. SubSeq(E, 1, m) = Tail(N)
  <2>1. PICK P, Q : P = SubSeq(E, 1, m) /\ Q = Tail(N)
    OBVIOUS
  <2>2. \A i \in 1..m : i \in 1 .. m + k /\ i <= m /\ E[i] \in Candle
    BY <1>10
  <2>3. P \in Seq(Candle) /\ Len(P) = m /\ \A i \in 1..m : P[i] = E[i]
    <3>1. /\ SubSeq(E, 1, m) \in Seq(Candle)
          /\ Len(SubSeq(E, 1, m)) = IF 1 <= m THEN m - 1 + 1 ELSE 0
          /\ \A i \in 1 .. m - 1 + 1 : SubSeq(E, 1, m)[i] = E[1 + i - 1]
      BY <2>2, SubSeqProperties
    <3>2. m - 1 + 1 = m /\ (1 <= m \/ m = 0) /\ \A i \in 1..m : 1 + i - 1 = i
      OBVIOUS
    <3>3. QED
      BY <2>1, <3>1, <3>2
  <2>4. Q \in Seq(Candle) /\ Len(Q) = m /\ \A i \in 1..m : Q[i] = N[i + 1]
    BY <1>2, <1>6, <2>1, HeadTailProperties
  <2>5. \A i \in 1..m : P[i] = Q[i]
    BY <1>11, <2>2, <2>3, <2>4
  <2>6. P = Q
    BY <2>3, <2>4, <2>5, SeqEqual
  <2>7. QED
    BY <2>1, <2>6
<1>14. QED
  BY <1>1, <1>12, <1>13

(* ------------------------- a bar and its trades ---------------------------- *)

LEMMA TradesTyped ==
  /\ \A t \in MarketTrades : t.id \in Nat /\ t.time \in Nat /\ t.price \in Nat /\ t.mcap \in Nat /\ t.vol \in Nat
  /\ \A t, u \in MarketTrades : t.id = u.id => t = u
  /\ \A t \in MarketTrades, s \in Streams : Value(t, s) \in Nat
  /\ \A s \in Streams : Step(s) \in {2, 4}
<1>1. MarketTrades \subseteq [id : Nat, time : Nat, price : Nat, mcap : Nat, vol : Nat]
  BY CandlesAssumption
<1>2. \A t \in MarketTrades : t.id \in Nat /\ t.time \in Nat /\ t.price \in Nat /\ t.mcap \in Nat /\ t.vol \in Nat
  BY <1>1
<1>3. QED
  BY <1>2, CandlesAssumption DEF Value, Streams, Step

\* Trades are ordered by time, then by id.
LEMMA TradesOrdered ==
  /\ \A t, u \in MarketTrades : t # u => Before(t, u) \/ Before(u, t)
  /\ \A t, u \in MarketTrades : ~(Before(t, u) /\ Before(u, t))
  /\ \A t, u, v \in MarketTrades : Before(t, u) /\ Before(u, v) => Before(t, v)
BY TradesTyped DEF Before

TradedVolume(S) == SumFunction([t \in S |-> t.vol])
LEMMA VolumeIs ==
  ASSUME NEW S \in SUBSET MarketTrades, IsFiniteSet(S)
  PROVE  /\ TradedVolume(S) \in Int
         /\ \A t \in MarketTrades \ S : TradedVolume(S \cup {t}) = TradedVolume(S) + t.vol
         /\ \A t \in MarketTrades : TradedVolume({t}) = t.vol
<1>1. ASSUME NEW T \in SUBSET MarketTrades, IsFiniteSet(T)
      PROVE  \E f, g : /\ f = [t \in T |-> t.vol] /\ f \in [T -> Int] /\ SumsUp(g, f, T)
                       /\ TradedVolume(T) = g[T] /\ TradedVolume(T) \in Int
  <2>1. PICK f : f = [t \in T |-> t.vol]
    OBVIOUS
  <2>2. DOMAIN f = T /\ f \in [T -> Int]
    BY <2>1, TradesTyped
  <2>3. /\ SumFunction(f) = SumBy(f, T)[T] /\ SumsUp(SumBy(f, T), f, T) /\ SumFunction(f) \in Int
    BY <1>1, <2>2, SumFunctionIs
  <2>4. QED
    BY <2>1, <2>2, <2>3 DEF TradedVolume
<1>2. ASSUME NEW T \in SUBSET MarketTrades, IsFiniteSet(T), NEW t \in MarketTrades \ T
      PROVE  TradedVolume(T \cup {t}) = TradedVolume(T) + t.vol
  <2>1. PICK U : U = T \cup {t}
    OBVIOUS
  <2>2. U \in SUBSET MarketTrades /\ IsFiniteSet(U)
    BY <1>2, <2>1, FS_AddElement
  <2>3. PICK f, g : f = [x \in T |-> x.vol] /\ f \in [T -> Int] /\ SumsUp(g, f, T) /\ TradedVolume(T) = g[T] /\ TradedVolume(T) \in Int
    BY <1>1, <1>2
  <2>4. PICK e, h : e = [x \in U |-> x.vol] /\ e \in [U -> Int] /\ SumsUp(h, e, U) /\ TradedVolume(U) = h[U] /\ TradedVolume(U) \in Int
    BY <1>1, <2>2
  <2>5. h[U] = e[t] + h[U \ {t}]
    <3>1. U \in SUBSET U /\ t \in U
      BY <2>1
    <3>2. QED
      BY <2>2, <2>4, <3>1, AnyFirst
  <2>6. g[T] = h[T]
    <3>1. T \in (SUBSET T) \cap (SUBSET U) /\ \A x \in T : f[x] = e[x]
      BY <2>1, <2>3, <2>4
    <3>2. QED
      BY <1>2, <2>3, <2>4, <3>1, SameSum
  <2>7. U \ {t} = T /\ e[t] = t.vol /\ t.vol \in Int
    BY <2>1, <2>4, TradesTyped
  <2>8. h[U] = t.vol + h[T]
    BY <2>5, <2>7
  <2>9. TradedVolume(U) = t.vol + TradedVolume(T)
    BY <2>3, <2>4, <2>6, <2>8
  <2>10. QED
    BY <2>1, <2>3, <2>7, <2>9
<1>3. TradedVolume({}) = 0
  <2>1. {} \in SUBSET MarketTrades /\ IsFiniteSet({})
    BY FS_EmptySet
  <2>2. PICK f, g : SumsUp(g, f, {}) /\ TradedVolume({}) = g[{}]
    BY <1>1, <2>1
  <2>3. QED
    BY <2>2 DEF SumsUp
<1>4. ASSUME NEW t \in MarketTrades PROVE TradedVolume({t}) = t.vol
  <2>1. TradedVolume({} \cup {t}) = TradedVolume({}) + t.vol
    BY <1>2, FS_EmptySet
  <2>2. {} \cup {t} = {t} /\ t.vol \in Nat
    BY TradesTyped
  <2>3. QED
    BY <1>3, <2>1, <2>2
<1>5. QED
  BY <1>1, <1>2, <1>4

LEMMA OpenedIs ==
  ASSUME NEW t \in MarketTrades, NEW s \in Streams
  PROVE  /\ Opened(t, s) \in OpenBar /\ MadeOf(Opened(t, s), {t}, s)
         /\ Opened(t, s).time = Floor(t.time, Step(s))
<1>1. PICK v \in Nat : v = Value(t, s)
  BY TradesTyped
<1>2. PICK start \in Int : start = Floor(t.time, Step(s))
  BY TradesTyped DEF Floor
<1>3. PICK b : b = Opened(t, s)
  OBVIOUS
<1>4. b = [time |-> start, open |-> v, high |-> v, low |-> v, close |-> v, vol |-> t.vol, first |-> t, final |-> t]
  BY <1>1, <1>2, <1>3 DEF Opened
<1>5. /\ b.time = start /\ b.open = v /\ b.high = v /\ b.low = v /\ b.close = v /\ b.vol = t.vol /\ b.first = t /\ b.final = t
      /\ t.vol \in Int
  BY <1>4, TradesTyped
<1>6. b \in OpenBar
  BY <1>4, <1>5 DEF OpenBar
<1>7. TradedVolume({t}) = t.vol
  BY VolumeIs, FS_EmptySet
<1>8. MadeOf(b, {t}, s)
  BY <1>1, <1>5, <1>7 DEF MadeOf, TradedVolume
<1>9. QED
  BY <1>2, <1>3, <1>5, <1>6, <1>8

LEMMA AddedIs ==
  ASSUME NEW b \in OpenBar, NEW S \in SUBSET MarketTrades, IsFiniteSet(S), NEW s \in Streams, MadeOf(b, S, s),
         NEW t \in MarketTrades \ S
  PROVE  Added(b, t, s) \in OpenBar /\ MadeOf(Added(b, t, s), S \cup {t}, s) /\ Added(b, t, s).time = b.time
<1>1. PICK v \in Nat : v = Value(t, s)
  BY TradesTyped
<1>2. PICK a : a = Added(b, t, s)
  OBVIOUS
<1>3. /\ b.time \in Int /\ b.open \in Int /\ b.high \in Int /\ b.low \in Int /\ b.close \in Int /\ b.vol \in Int
      /\ b.first \in MarketTrades /\ b.final \in MarketTrades /\ t.vol \in Int
  BY TradesTyped DEF OpenBar
<1>4. /\ a.time = b.time /\ a.high = Max({b.high, v}) /\ a.low = Min({b.low, v}) /\ a.vol = b.vol + t.vol
      /\ a.first = (IF Before(t, b.first) THEN t ELSE b.first) /\ a.open = (IF Before(t, b.first) THEN v ELSE b.open)
      /\ a.final = (IF Before(b.final, t) THEN t ELSE b.final) /\ a.close = (IF Before(b.final, t) THEN v ELSE b.close)
      /\ a = [time |-> a.time, open |-> a.open, high |-> a.high, low |-> a.low, close |-> a.close, vol |-> a.vol,
              first |-> a.first, final |-> a.final]
  BY <1>1, <1>2 DEF Added, OpenBar
<1>5. a.high \in {b.high, v} /\ a.high >= b.high /\ a.high >= v
  <2>1. \E x \in {b.high, v} : \A y \in {b.high, v} : x >= y
    BY <1>3
  <2>2. QED
    BY <1>4, <2>1 DEF Max
<1>6. a.low \in {b.low, v} /\ a.low <= b.low /\ a.low <= v
  <2>1. \E x \in {b.low, v} : \A y \in {b.low, v} : x <= y
    BY <1>3
  <2>2. QED
    BY <1>4, <2>1 DEF Min
<1>7. a \in OpenBar
  <2>1. /\ a.time \in Int /\ a.high \in Int /\ a.low \in Int /\ a.vol \in Int /\ a.open \in Int /\ a.close \in Int
        /\ a.first \in MarketTrades /\ a.final \in MarketTrades
    BY <1>3, <1>4, <1>5, <1>6
  <2>2. QED
    BY <1>4, <2>1 DEF OpenBar
<1> DEFINE U == S \cup {t}
<1>8. a.first \in U /\ (\A u \in U \ {a.first} : Before(a.first, u)) /\ a.open = Value(a.first, s)
  <2>1. b.first \in S /\ (\A u \in S \ {b.first} : Before(b.first, u)) /\ b.open = Value(b.first, s)
    BY DEF MadeOf
  <2>2. CASE Before(t, b.first)
    <3>1. a.first = t /\ a.open = v
      BY <1>4, <2>2
    <3>2. \A u \in S : Before(t, u)
      BY <2>1, <2>2, TradesOrdered
    <3>3. QED
      BY <1>1, <3>1, <3>2
  <2>3. CASE ~Before(t, b.first)
    <3>1. a.first = b.first /\ a.open = b.open
      BY <1>4, <2>3
    <3>2. Before(b.first, t)
      BY <2>1, <2>3, TradesOrdered
    <3>3. QED
      BY <2>1, <3>1, <3>2
  <2>4. QED
    BY <2>2, <2>3
<1>9. a.final \in U /\ (\A u \in U \ {a.final} : Before(u, a.final)) /\ a.close = Value(a.final, s)
  <2>1. b.final \in S /\ (\A u \in S \ {b.final} : Before(u, b.final)) /\ b.close = Value(b.final, s)
    BY DEF MadeOf
  <2>2. CASE Before(b.final, t)
    <3>1. a.final = t /\ a.close = v
      BY <1>4, <2>2
    <3>2. \A u \in S : Before(u, t)
      BY <2>1, <2>2, TradesOrdered
    <3>3. QED
      BY <1>1, <3>1, <3>2
  <2>3. CASE ~Before(b.final, t)
    <3>1. a.final = b.final /\ a.close = b.close
      BY <1>4, <2>3
    <3>2. Before(t, b.final)
      BY <2>1, <2>3, TradesOrdered
    <3>3. QED
      BY <2>1, <3>1, <3>2
  <2>4. QED
    BY <2>2, <2>3
<1>10. (\E u \in U : a.high = Value(u, s)) /\ (\E u \in U : a.low = Value(u, s))
  BY <1>1, <1>5, <1>6 DEF MadeOf
<1>11. \A u \in U : a.low <= Value(u, s) /\ Value(u, s) <= a.high
  <2>1. \A u \in S : b.low <= Value(u, s) /\ Value(u, s) <= b.high /\ Value(u, s) \in Nat
    BY TradesTyped DEF MadeOf
  <2>2. QED
    BY <1>1, <1>3, <1>5, <1>6, <2>1
<1>12. a.vol = TradedVolume(U)
  BY <1>4, VolumeIs DEF MadeOf, TradedVolume
<1>13. MadeOf(a, U, s)
  BY <1>8, <1>9, <1>10, <1>11, <1>12 DEF MadeOf, TradedVolume
<1>14. QED
  BY <1>2, <1>4, <1>7, <1>13

\* A bar that is made of trades is their summary.
LEMMA MadeIsSummary ==
  ASSUME NEW b \in OpenBar, NEW S \in SUBSET MarketTrades, NEW s \in Streams, MadeOf(b, S, s)
  PROVE  Closed(b) = Summary(S, s, b.time)
<1>1. /\ b.first \in S /\ (\A u \in S \ {b.first} : Before(b.first, u)) /\ b.open = Value(b.first, s)
      /\ b.final \in S /\ (\A u \in S \ {b.final} : Before(u, b.final)) /\ b.close = Value(b.final, s)
  BY DEF MadeOf
<1>2. (CHOOSE t \in S : \A u \in S \ {t} : Before(t, u)) = b.first
  <2>1. \A t \in S : (\A u \in S \ {t} : Before(t, u)) => t = b.first
    BY <1>1, TradesOrdered
  <2>2. QED
    BY <1>1, <2>1
<1>3. (CHOOSE t \in S : \A u \in S \ {t} : Before(u, t)) = b.final
  <2>1. \A t \in S : (\A u \in S \ {t} : Before(u, t)) => t = b.final
    BY <1>1, TradesOrdered
  <2>2. QED
    BY <1>1, <2>1
<1> DEFINE values == {Value(t, s) : t \in S}
<1>4. values \in SUBSET Nat /\ b.high \in values /\ b.low \in values /\ \A x \in values : b.low <= x /\ x <= b.high
  BY TradesTyped DEF MadeOf
<1>5. Max(values) = b.high /\ Min(values) = b.low
  <2> HIDE DEF values
  <2>1. ASSUME NEW x \in values, \A y \in values : x >= y PROVE x = b.high
    <3>1. x >= b.high /\ x <= b.high /\ x \in Nat /\ b.high \in Nat
      BY <1>4, <2>1
    <3>2. QED
      BY <3>1
  <2>2. ASSUME NEW x \in values, \A y \in values : x <= y PROVE x = b.low
    <3>1. x <= b.low /\ b.low <= x /\ x \in Nat /\ b.low \in Nat
      BY <1>4, <2>2
    <3>2. QED
      BY <3>1
  <2>3. b.high \in values /\ (\A y \in values : b.high >= y) /\ b.low \in values /\ \A y \in values : b.low <= y
    BY <1>4
  <2>4. QED
    BY <2>1, <2>2, <2>3 DEF Max, Min
<1>6. QED
  BY <1>1, <1>2, <1>3, <1>5 DEF Closed, Summary, MadeOf

(* ------------------------- what closes and what is filled ------------------ *)

LEMMA NoneIsNoBar == None \notin Candle /\ None \notin OpenBar /\ None.time = -1
BY DEF None, Candle, OpenBar

LEMMA ClosedIs ==
  ASSUME NEW b \in OpenBar
  PROVE  /\ Closed(b) \in Candle /\ Closed(b).time = b.time /\ Closed(b).close = b.close /\ ~Closed(b).synthetic
         /\ b.time \in Int
BY DEF Closed, Candle, OpenBar

LEMMA PartIs ==
  ASSUME NEW out \in Seq(Candle), NEW m \in 0..Len(out)
  PROVE  /\ SubSeq(out, m + 1, Len(out)) \in Seq(Candle) /\ Len(SubSeq(out, m + 1, Len(out))) = Len(out) - m
         /\ \A i \in 1 .. Len(out) - m : SubSeq(out, m + 1, Len(out))[i] = out[m + i]
<1>1. PICK k \in Nat : k = Len(out) /\ m \in Nat /\ m <= k
  OBVIOUS
<1>2. PICK E : E = SubSeq(out, m + 1, k)
  OBVIOUS
<1>3. /\ E \in Seq(Candle) /\ Len(E) = (IF m + 1 <= k THEN k - (m + 1) + 1 ELSE 0)
      /\ \A i \in 1 .. k - (m + 1) + 1 : E[i] = out[m + 1 + i - 1]
  <2>1. \A i \in m + 1 .. k : out[i] \in Candle
    BY <1>1
  <2>2. m + 1 \in Int /\ k \in Int
    BY <1>1
  <2>3. QED
    BY <1>2, <2>1, <2>2, SubSeqProperties
<1>4. Len(E) = k - m
  BY <1>1, <1>3
<1>5. ASSUME NEW i \in 1 .. k - m PROVE E[i] = out[m + i]
  <2>1. i \in 1 .. k - (m + 1) + 1 /\ m + 1 + i - 1 = m + i
    BY <1>1
  <2>2. QED
    BY <1>3, <2>1
<1>6. QED
  BY <1>1, <1>2, <1>3, <1>4, <1>5

\* A part of a sequence that reaches to its end grows as the sequence does.
LEMMA EndGrows ==
  ASSUME NEW out \in Seq(Candle), NEW X \in Seq(Candle), NEW m \in 0..Len(out)
  PROVE  /\ SubSeq(out, m + 1, Len(out)) \in Seq(Candle) /\ Len(SubSeq(out, m + 1, Len(out))) = Len(out) - m
         /\ SubSeq(out \o X, m + 1, Len(out \o X)) = SubSeq(out, m + 1, Len(out)) \o X
<1>1. PICK k, n \in Nat : k = Len(out) /\ n = Len(X) /\ m \in Nat /\ m <= k
  OBVIOUS
<1>2. PICK W \in Seq(Candle) : /\ W = out \o X /\ Len(W) = k + n
                               /\ \A i \in 1 .. k + n : W[i] = IF i <= k THEN out[i] ELSE X[i - k]
  <2>1. /\ out \o X \in Seq(Candle) /\ Len(out \o X) = Len(out) + Len(X)
        /\ \A i \in 1 .. Len(out) + Len(X) : (out \o X)[i] = IF i <= Len(out) THEN out[i] ELSE X[i - Len(out)]
    BY ConcatProperties
  <2>2. QED
    BY <1>1, <2>1
<1>3. PICK E : E = SubSeq(out, m + 1, k)
  OBVIOUS
<1>4. E \in Seq(Candle) /\ Len(E) = k - m /\ \A i \in 1 .. k - m : E[i] = out[m + i]
  BY <1>1, <1>3, PartIs
<1>5. PICK F : F = SubSeq(W, m + 1, k + n)
  OBVIOUS
<1>6. F \in Seq(Candle) /\ Len(F) = k + n - m /\ \A i \in 1 .. k + n - m : F[i] = W[m + i]
  <2>1. W \in Seq(Candle) /\ m \in 0..Len(W) /\ Len(W) = k + n
    BY <1>1, <1>2
  <2>2. /\ SubSeq(W, m + 1, Len(W)) \in Seq(Candle) /\ Len(SubSeq(W, m + 1, Len(W))) = Len(W) - m
        /\ \A i \in 1 .. Len(W) - m : SubSeq(W, m + 1, Len(W))[i] = W[m + i]
    BY ONLY <2>1, PartIs
  <2>3. F = SubSeq(W, m + 1, Len(W)) /\ Len(W) - m = k + n - m
    BY <1>5, <2>1
  <2>4. QED
    BY <2>2, <2>3
<1>7. PICK M : M = E \o X
  OBVIOUS
<1>8. M \in Seq(Candle) /\ Len(M) = k - m + n /\ \A i \in 1 .. k - m + n : M[i] = IF i <= k - m THEN E[i] ELSE X[i - (k - m)]
  <2>1. /\ E \o X \in Seq(Candle) /\ Len(E \o X) = Len(E) + Len(X)
        /\ \A i \in 1 .. Len(E) + Len(X) : (E \o X)[i] = IF i <= Len(E) THEN E[i] ELSE X[i - Len(E)]
    BY <1>4, ConcatProperties
  <2>2. Len(E) = k - m /\ Len(X) = n
    BY <1>1, <1>4
  <2>3. QED
    BY <1>7, <2>1, <2>2
<1>9. ASSUME NEW i \in 1 .. k - m + n PROVE F[i] = M[i]
  <2>1. i \in 1 .. k + n - m /\ m + i \in 1 .. k + n /\ (m + i <= k <=> i <= k - m) /\ (m + i) - k = i - (k - m)
    BY <1>1
  <2>2. i <= k - m => i \in 1 .. k - m
    BY <1>1
  <2>3. QED
    BY <1>2, <1>4, <1>6, <1>8, <2>1, <2>2
<1>10. k + n - m = k - m + n
  BY <1>1
<1>11. F = M
  BY <1>6, <1>8, <1>9, <1>10, SeqEqual
<1>12. QED
  BY <1>1, <1>2, <1>3, <1>4, <1>5, <1>7, <1>11

\* Bars X that are emitted after all earlier ones keep the order.
LEMMA OutGrows ==
  ASSUME NEW r, NEW q, StreamTyped(r), OutIsPast(r),
         NEW X \in Seq(Candle), X # <<>>,
         q.out = r.out \o X, q.last \in Candle,
         \A i \in 1 .. Len(r.out) : r.out[i].time < X[1].time,
         \A i \in 1 .. Len(X) - 1 : X[i].time < X[i + 1].time,
         q.final \in Int,
         \A i \in 1 .. Len(X) : X[i].time <= q.final /\ X[i].time <= q.last.time
  PROVE  OutIsPast(q) /\ q.out \in Seq(Candle)
<1>1. PICK k, n \in Nat : k = Len(r.out) /\ n = Len(X) /\ n # 0
  <2>1. r.out \in Seq(Candle)
    BY DEF StreamTyped
  <2>2. Len(r.out) \in Nat /\ Len(X) \in Nat /\ Len(X) # 0
    BY <2>1
  <2>3. QED
    BY <2>2
<1>2. /\ q.out \in Seq(Candle) /\ Len(q.out) = k + n
      /\ \A i \in 1 .. k + n : q.out[i] = IF i <= k THEN r.out[i] ELSE X[i - k]
  <2>1. r.out \in Seq(Candle)
    BY DEF StreamTyped
  <2>2. PICK Z \in Seq(Candle) : Z = r.out
    BY <2>1
  <2>3. /\ Z \o X \in Seq(Candle) /\ Len(Z \o X) = Len(Z) + Len(X)
        /\ \A i \in 1 .. Len(Z) + Len(X) : (Z \o X)[i] = IF i <= Len(Z) THEN Z[i] ELSE X[i - Len(Z)]
    BY ConcatProperties
  <2>4. q.out = Z \o X /\ Len(Z) = k /\ Len(X) = n
    BY <1>1, <2>2
  <2>5. QED
    BY <2>2, <2>3, <2>4
<1>4. /\ \A i \in 1..k : q.out[i] = r.out[i] /\ q.out[i].time \in Int /\ q.out[i] \in Candle
      /\ \A i \in 1..n : q.out[k + i] = X[i] /\ X[i].time \in Int
  <2>1. ASSUME NEW i \in 1..k
        PROVE q.out[i] = r.out[i] /\ q.out[i].time \in Int /\ q.out[i] \in Candle
    <3>1. i \in 1 .. k + n /\ i <= k
      BY <1>1
    <3>2. q.out[i] \in Candle
      BY <1>2, <3>1
    <3>3. QED
      BY <1>2, <3>1, <3>2 DEF Candle
  <2>2. ASSUME NEW i \in 1..n PROVE q.out[k + i] = X[i] /\ X[i].time \in Int
    <3>1. k + i \in 1 .. k + n /\ ~(k + i <= k) /\ (k + i) - k = i
      BY <1>1
    <3>2. X[i] \in Candle
      BY <1>1
    <3>3. QED
      BY <1>2, <3>1, <3>2 DEF Candle
  <2>3. QED
    BY <2>1, <2>2
<1>5. ASSUME NEW i \in 1 .. k + n - 1 PROVE q.out[i].time < q.out[i + 1].time
  <2>1. CASE i < k
    <3>1. i \in 1..k /\ i + 1 \in 1..k /\ i \in 1 .. Len(r.out) - 1
      BY <1>1, <2>1
    <3>2. QED
      BY <1>4, <3>1 DEF OutIsPast
  <2>2. CASE i = k
    <3>1. i \in 1..k /\ 1 \in 1..n /\ i + 1 = k + 1
      BY <1>1, <2>2
    <3>2. QED
      BY <1>1, <1>4, <3>1
  <2>3. CASE i > k
    <3>1. PICK j \in 1 .. n - 1 : i = k + j /\ j \in 1..n /\ j + 1 \in 1..n /\ i + 1 = k + (j + 1)
      <4>1. PICK j : j = i - k
        OBVIOUS
      <4>2. j \in 1 .. n - 1 /\ i = k + j /\ j \in 1..n /\ j + 1 \in 1..n /\ i + 1 = k + (j + 1)
        BY <1>1, <2>3, <4>1
      <4>3. QED
        BY <4>2
    <3>2. q.out[i] = X[j] /\ q.out[i + 1] = X[j + 1]
      BY <1>4, <3>1
    <3>3. QED
      BY <1>1, <3>2
  <2>4. i \in Int /\ k \in Int
    BY <1>1
  <2>5. QED
    BY ONLY <2>1, <2>2, <2>3, <2>4
<1>6. ASSUME NEW i \in 1 .. k + n
      PROVE  q.out[i].time <= q.final /\ q.out[i].time <= q.last.time
  <2>1. CASE i <= k
    <3>1. i \in 1..k /\ 1 \in 1..n
      BY <1>1, <2>1
    <3>2. q.out[i].time < X[1].time /\ X[1].time <= q.final /\ X[1].time <= q.last.time
      BY <1>1, <1>4, <3>1
    <3>3. q.last.time \in Int /\ X[1].time \in Int /\ q.out[i].time \in Int /\ q.final \in Int
      <4>1. q.last.time \in Int
        BY DEF Candle
      <4>2. QED
        BY <1>4, <3>1, <4>1
    <3>4. QED
      BY ONLY <3>2, <3>3
  <2>2. CASE ~(i <= k)
    <3>1. PICK j \in 1..n : i = k + j
      <4>1. i - k \in 1..n /\ i = k + (i - k)
        BY <1>1, <2>2
      <4>2. QED
        BY <4>1
    <3>2. QED
      BY <1>1, <1>4, <3>1
  <2>3. QED
    BY <2>1, <2>2
<1>7. Len(q.out) = k + n
  BY <1>2
<1>8. OutIsPast(q)
  BY ONLY <1>5, <1>6, <1>7 DEF OutIsPast
<1>9. QED
  BY <1>2, <1>8

\* Multiples of the step from a on.
LEMMA Multiples ==
  ASSUME NEW a \in Int, NEW n \in Nat, NEW step \in {2, 4}
  PROVE  /\ a % step = 0 => (a + n * step) % step = 0
         /\ \A i \in 1..n : a < a + i * step /\ a + i * step <= a + n * step
         /\ \A i \in 1..n : a + i * step < a + (i + 1) * step
         /\ \A until \in Int : n = (until - (a + step)) \div step => a + n * step <= until - step
         /\ \A until \in Int : (until - (a + step)) \div step <= n => until < a + n * step + 2 * step
<1>1. CASE step = 2
  BY <1>1
<1>2. CASE step = 4
  BY <1>2
<1>3. QED
  BY <1>1, <1>2

LEMMA Aligned ==
  ASSUME NEW a \in Int, NEW b \in Int, NEW step \in {2, 4}, a % step = 0, b % step = 0
  PROVE  /\ a > b - step => a >= b
         /\ b >= a /\ b <= a + step => b = a \/ b = a + step
         /\ b < a + 2 * step => b <= a + step
<1>1. CASE step = 2
  BY <1>1
<1>2. CASE step = 4
  BY <1>2
<1>3. QED
  BY <1>1, <1>2

LEMMA FloorIs ==
  ASSUME NEW t \in Int, NEW step \in {2, 4}
  PROVE  Floor(t, step) \in Int /\ Floor(t, step) % step = 0 /\ Floor(t, step) <= t /\ t < Floor(t, step) + step
<1>1. CASE step = 2
  BY <1>1 DEF Floor
<1>2. CASE step = 4
  BY <1>2 DEF Floor
<1>3. QED
  BY <1>1, <1>2

LEMMA StreamFacts ==
  ASSUME NEW r, StreamTyped(r)
  PROVE  /\ r.final \in Int /\ r.mark \in Int /\ r.out \in Seq(Candle)
         /\ r.took \in SUBSET MarketTrades /\ IsFiniteSet(r.took)
         /\ r.open # None => r.open \in OpenBar /\ r.open.time \in Int
         /\ r.last # None => r.last \in Candle /\ r.last.time \in Int /\ r.last.close \in Int
         /\ \A i \in 1 .. Len(r.out) : r.out[i].time \in Int
<1>1. r.open # None => r.open \in OpenBar /\ r.open.time \in Int
  BY DEF StreamTyped, OpenBar
<1>2. r.last # None => r.last \in Candle /\ r.last.time \in Int /\ r.last.close \in Int
  BY DEF StreamTyped, Candle
<1>3. ASSUME NEW i \in 1 .. Len(r.out) PROVE r.out[i].time \in Int
  <2>1. r.out[i] \in Candle
    BY DEF StreamTyped
  <2>2. QED
    BY <2>1 DEF Candle
<1>4. QED
  BY <1>1, <1>2, <1>3 DEF StreamTyped

\* A finished bar is appended to what was emitted.
LEMMA FinishOk ==
  ASSUME Feeding, NEW s \in Streams, NEW r, NEW ids, StreamOk(r, s, feed, clock, ids),
         r.open # None, r.open.time + Step(s) <= clock, AfterMark(r, s) => r.last.time + Step(s) >= r.open.time
  PROVE  /\ StreamOk(Finish(r), s, feed, clock, ids)
         /\ Finish(r).open = None /\ Finish(r).took = r.took /\ Finish(r).mark = r.mark /\ Finish(r).final = r.open.time
<1>1. PICK step \in {2, 4} : step = Step(s)
  BY TradesTyped
<1>2. PICK b \in OpenBar : b = r.open
  BY StreamFacts DEF StreamOk
<1>3. PICK c \in Candle : c = Closed(b) /\ c.time = b.time /\ ~c.synthetic /\ b.time \in Int
  BY ClosedIs
<1>4. PICK q : q = Finish(r)
  OBVIOUS
<1>5. DOMAIN r = StreamFields
  BY DEF StreamOk, StreamTyped
<1>6. /\ DOMAIN q = StreamFields /\ q.open = None /\ q.final = b.time /\ q.last = c /\ q.out = Append(r.out, c)
      /\ q.took = r.took /\ q.mark = r.mark /\ q.base = r.base
  BY <1>2, <1>3, <1>4, <1>5 DEF Finish, StreamFields
<1>7. /\ r.final \in Int /\ r.mark \in Int /\ r.out \in Seq(Candle)
      /\ r.took \in SUBSET MarketTrades /\ IsFiniteSet(r.took) /\ (r.last # None => r.last \in Candle /\ r.last.time \in Int)
      /\ \A i \in 1 .. Len(r.out) : r.out[i].time \in Int
  BY StreamFacts DEF StreamOk
<1>8. /\ b.time % step = 0 /\ b.time > r.final /\ b.time <= clock /\ (~feed.on => r.mark = -1)
      /\ r.last # None => r.last.time <= b.time
  BY <1>1, <1>2 DEF StreamOk, OpenIsMade, LastIsClosed
<1>9. feed.epoch \in Nat /\ feed.bound \in Nat /\ clock \in Nat
  BY DEF Feeding
<1>10. PICK X : X = <<c>>
  OBVIOUS
<1>11. X \in Seq(Candle) /\ Len(X) = 1 /\ X # <<>> /\ X[1] = c
  BY <1>9, <1>10
<1>12. q.out = r.out \o X
  BY <1>6, <1>7, <1>9, <1>10, AppendIsConcat
<1>13. OutIsPast(q) /\ q.out \in Seq(Candle)
  <2>1. StreamTyped(r) /\ OutIsPast(r)
    BY DEF StreamOk
  <2>2. ASSUME NEW i \in 1 .. Len(r.out) PROVE r.out[i].time < X[1].time
    <3>1. r.out[i].time <= r.final
      BY <2>1 DEF OutIsPast
    <3>2. X[1].time = b.time /\ b.time > r.final
      BY ONLY <1>3, <1>8, <1>11
    <3>3. r.out[i].time \in Int /\ r.final \in Int /\ b.time \in Int
      BY ONLY <1>3, <1>7
    <3>4. PICK x, y, z : x = r.out[i].time /\ y = r.final /\ z = b.time
      OBVIOUS
    <3>5. x \in Int /\ y \in Int /\ z \in Int /\ x <= y /\ z > y
      BY ONLY <3>1, <3>2, <3>3, <3>4
    <3>6. x < z
      BY ONLY <3>5
    <3>7. QED
      BY ONLY <3>2, <3>4, <3>6
  <2>3. \A i \in 1 .. Len(X) - 1 : X[i].time < X[i + 1].time
    BY <1>11
  <2>4. \A i \in 1 .. Len(X) : X[i].time <= q.final /\ X[i].time <= q.last.time
    BY <1>3, <1>6, <1>8, <1>11
  <2>5. q.last \in Candle /\ q.final \in Int
    BY <1>3, <1>6
  <2>6. QED
    BY <1>11, <1>12, <2>1, <2>2, <2>3, <2>4, <2>5, OutGrows
<1>14. StreamTyped(q)
  BY <1>3, <1>6, <1>7, <1>13 DEF StreamTyped
<1>15. OpenIsMade(q, s, feed)
  BY <1>6 DEF OpenIsMade
<1>16. TookIsPast(q, s, ids)
  <2>1. ASSUME NEW t \in r.took PROVE t.id \in ids /\ Floor(t.time, Step(s)) <= b.time
    <3>1. t.id \in ids /\ (Floor(t.time, step) <= r.final \/ Floor(t.time, step) = b.time)
      BY <1>1, <1>2 DEF StreamOk, TookIsPast
    <3>2. t.time \in Int
      BY <1>7, TradesTyped
    <3>3. Floor(t.time, step) \in Int
      BY <3>2, FloorIs
    <3>4. QED
      BY <1>1, <1>3, <1>7, <1>8, <3>1, <3>3
  <2>2. QED
    BY <1>6, <2>1 DEF TookIsPast
<1>17. LastIsClosed(q, s, feed, clock)
  <2>1. b.time + step <= clock /\ b.time - step <= b.time /\ b.time <= b.time
    BY <1>1, <1>2, <1>3, <1>9
  <2>2. QED
    BY <1>1, <1>3, <1>6, <1>8, <2>1 DEF LastIsClosed
<1>18. FlatsFollow(q, s, feed)
  <2>1. r.mark \in -1 .. Len(r.out) /\ Len(q.out) = Len(r.out) + 1
    BY <1>6, <1>7, AppendProperties DEF StreamOk, FlatsFollow
  <2>2. ASSUME AfterMark(r, s)
        PROVE  /\ r.base \in Candle /\ c.time + step >= feed.bound
               /\ \E k \in 0 .. Len(q.out) : Chained(r.base, Emitted(q), c, k, step) /\ (k > 0 => c.time <= q.final)
    <3>1. r.base \in Candle /\ r.last # None /\ r.last.time + step >= feed.bound
      BY <1>1, <2>2 DEF StreamOk, FlatsFollow
    <3>2. PICK k \in 0 .. Len(r.out) : Chained(r.base, Emitted(r), r.last, k, step) /\ (k > 0 => r.last.time <= r.final)
      BY <1>1, <2>2 DEF StreamOk, FlatsFollow
    <3>3. r.mark \in 0 .. Len(r.out)
      BY <2>1, <2>2 DEF AfterMark
    <3>4. PICK E \in Seq(Candle) : E = Emitted(r) /\ Emitted(q) = E \o X
      <4>1. PICK R \in Seq(Candle) : R = r.out
        BY <1>7
      <4>2. SubSeq(R, r.mark + 1, Len(R)) \in Seq(Candle)
            /\ SubSeq(R \o X, r.mark + 1, Len(R \o X)) = SubSeq(R, r.mark + 1, Len(R)) \o X
        BY <1>11, <3>3, <4>1, EndGrows
      <4>3. QED
        BY <1>6, <1>12, <4>1, <4>2 DEF Emitted
    <3>5. Emitted(q) = Append(E, c)
      BY <1>10, <3>4, AppendIsConcat
    <3>6. c.time = r.last.time + step \/ (c.time = r.last.time /\ k = 0)
      <4>1. r.last.time \in Int /\ r.last.time % step = 0 /\ r.last.time <= b.time /\ b.time <= r.last.time + step
        BY <1>1, <1>2, <1>3, <1>7, <1>8, <2>2, <3>1 DEF StreamOk, LastIsClosed
      <4>2. b.time = r.last.time \/ b.time = r.last.time + step
        <5>1. PICK x \in Int : x = r.last.time
          BY <4>1
        <5>2. PICK y \in Int : y = b.time
          BY <1>3
        <5>3. x % step = 0 /\ y % step = 0 /\ y >= x /\ y <= x + step
          BY <1>8, <4>1, <5>1, <5>2
        <5>4. y = x \/ y = x + step
          BY ONLY <5>1, <5>2, <5>3, step \in {2, 4}, Aligned
        <5>5. QED
          BY <5>1, <5>2, <5>4
      <4>3. b.time = r.last.time => ~(k > 0)
        BY <1>3, <1>7, <1>8, <3>2, <4>1
      <4>4. k \in Nat
        BY <3>2
      <4>5. QED
        BY <1>3, <4>2, <4>3, <4>4
    <3>7. Chained(r.base, Append(E, c), c, 0, step)
      <4>1. PICK base, last \in Candle : base = r.base /\ last = r.last
        BY <1>7, <3>1
      <4>2. PICK n \in Nat : n = k
        OBVIOUS
      <4>3. Chained(base, E, last, n, step) /\ (c.time = last.time + step \/ (c.time = last.time /\ n = 0))
        BY <3>2, <3>4, <3>6, <4>1, <4>2
      <4>4. Chained(base, Append(E, c), c, 0, step)
        BY <1>3, <4>3, ChainedBar
      <4>5. QED
        BY <4>1, <4>4
    <3>8. c.time + step >= feed.bound
      BY <1>3, <1>7, <1>8, <1>9, <3>1, SMTT(30)
    <3>9. 0 \in 0 .. Len(q.out)
      BY <2>1
    <3>10. QED
      BY <3>1, <3>5, <3>7, <3>8, <3>9
  <2>3. c # None
    BY <1>3, NoneIsNoBar
  <2>4. r.mark \in -1 .. Len(q.out)
    BY <2>1
  <2>5. AfterMark(q, s) <=> AfterMark(r, s)
    BY <1>6 DEF AfterMark
  <2>6. QED
    BY <1>1, <1>6, <2>2, <2>3, <2>4, <2>5 DEF FlatsFollow
<1>19. QED
  BY <1>2, <1>4, <1>6, <1>13, <1>14, <1>15, <1>16, <1>17, <1>18 DEF StreamOk

\* How many flat bars there are to fill up to a time.
FillCount(r, s, until) ==
  LET from == r.last.time + Step(s)
  IN IF r.last = None \/ ~feed.on \/ ~feed.confirmed \/ from < feed.bound THEN 0
     ELSE Max({0, (until - from) \div Step(s)})

LEMMA FillCountIs ==
  ASSUME NEW s \in Streams, NEW r, r.last = None \/ (r.last \in Candle /\ r.last.time \in Int), NEW until \in Int,
         feed.on \in BOOLEAN, feed.confirmed \in BOOLEAN, feed.bound \in Nat
  PROVE  /\ FillCount(r, s, until) \in Nat
         /\ FillCount(r, s, until) # 0 =>
              /\ r.last # None /\ feed.on /\ feed.confirmed /\ r.last.time + Step(s) >= feed.bound
              /\ r.last.time + FillCount(r, s, until) * Step(s) + Step(s) <= until
         /\ r.last # None /\ feed.on /\ feed.confirmed /\ r.last.time + Step(s) >= feed.bound =>
              until < r.last.time + FillCount(r, s, until) * Step(s) + 2 * Step(s)
<1>1. PICK step \in {2, 4} : step = Step(s)
  BY TradesTyped
<1>2. PICK n : n = FillCount(r, s, until)
  OBVIOUS
<1>3. CASE r.last # None /\ feed.on /\ feed.confirmed /\ r.last.time + step >= feed.bound
  <2>1. PICK a \in Int : a = r.last.time
    BY <1>3
  <2>2. PICK x : x = (until - (a + step)) \div step
    OBVIOUS
  <2>3. x \in Int
    <3>1. CASE step = 2
      BY <2>2, <3>1
    <3>2. CASE step = 4
      BY <2>2, <3>2
    <3>3. QED
      BY <3>1, <3>2
  <2>4. n = Max({0, x})
    BY <1>1, <1>2, <1>3, <2>1, <2>2 DEF FillCount
  <2>5. n \in Nat /\ (n = 0 \/ n = x) /\ x <= n
    <3>1. PICK m \in {0, x} : m >= 0 /\ m >= x
      BY <2>3
    <3>2. \E z \in {0, x} : \A y \in {0, x} : z >= y
      BY <2>3, <3>1
    <3>3. Max({0, x}) \in {0, x} /\ \A y \in {0, x} : Max({0, x}) >= y
      BY <3>2 DEF Max
    <3>4. QED
      BY <2>3, <2>4, <3>3
  <2>6. until < a + n * step + 2 * step /\ (n # 0 => a + n * step <= until - step)
    BY <2>2, <2>5, Multiples
  <2>7. a + n * step + step <= until <=> a + n * step <= until - step
    <3>1. n * step \in Int
      BY <2>5
    <3>2. QED
      BY <3>1
  <2>8. QED
    BY <1>1, <1>2, <1>3, <2>1, <2>5, <2>6, <2>7
<1>4. CASE ~(r.last # None /\ feed.on /\ feed.confirmed /\ r.last.time + step >= feed.bound)
  <2>1. n = 0
    <3>1. r.last # None => (r.last.time + step < feed.bound <=> ~(r.last.time + step >= feed.bound))
      OBVIOUS
    <3>2. QED
      BY <1>1, <1>2, <1>4, <3>1 DEF FillCount
  <2>2. QED
    BY <1>1, <1>2, <1>4, <2>1
<1>5. QED
  BY <1>3, <1>4

\* Flat bars up to a time, but not into the open bar.
LEMMA FillOk ==
  ASSUME Feeding, NEW s \in Streams, NEW r, NEW ids, StreamOk(r, s, feed, clock, ids),
         NEW until \in Int, until <= clock, r.open # None => until < r.open.time + Step(s)
  PROVE  /\ StreamOk(FillUntil(r, s, until), s, feed, clock, ids)
         /\ FillUntil(r, s, until).open = r.open /\ FillUntil(r, s, until).took = r.took
         /\ AfterMark(r, s) /\ feed.on /\ feed.confirmed => until < FillUntil(r, s, until).last.time + 2 * Step(s)
         /\ FillUntil(r, s, until).mark = r.mark /\ r.final <= FillUntil(r, s, until).final
<1>1. PICK step \in {2, 4} : step = Step(s)
  BY TradesTyped
<1>2. PICK n : n = FillCount(r, s, until)
  OBVIOUS
<1>3. PICK q : q = FillUntil(r, s, until)
  OBVIOUS
<1>4. feed.on \in BOOLEAN /\ feed.confirmed \in BOOLEAN /\ feed.epoch \in Nat /\ feed.bound \in Nat /\ clock \in Nat
  BY DEF Feeding
<1>5. /\ r.final \in Int /\ r.mark \in Int /\ r.out \in Seq(Candle)
      /\ r.took \in SUBSET MarketTrades /\ IsFiniteSet(r.took)
      /\ r.open # None => r.open \in OpenBar /\ r.open.time \in Int
      /\ r.last # None => r.last \in Candle /\ r.last.time \in Int /\ r.last.close \in Int
      /\ \A i \in 1 .. Len(r.out) : r.out[i].time \in Int
  BY StreamFacts DEF StreamOk
<1>6. r.last = None \/ (r.last \in Candle /\ r.last.time \in Int)
  BY <1>5
<1>7. /\ n \in Nat
      /\ n # 0 => /\ r.last # None /\ feed.on /\ feed.confirmed /\ r.last.time + step >= feed.bound
                  /\ r.last.time + n * step + step <= until
      /\ r.last # None /\ feed.on /\ feed.confirmed /\ r.last.time + step >= feed.bound =>
           until < r.last.time + n * step + 2 * step
  BY <1>1, <1>2, <1>4, <1>6, FillCountIs
<1>8. q = IF n = 0 THEN r
          ELSE [r EXCEPT !.last = FlatsAfter(r.last, n, step)[n], !.final = FlatsAfter(r.last, n, step)[n].time,
                         !.out = @ \o FlatsAfter(r.last, n, step)]
  BY <1>1, <1>2, <1>3 DEF FillUntil, FillCount
<1>9. AfterMark(r, s) => r.last # None /\ r.last.time + step >= feed.bound
  BY <1>1 DEF StreamOk, FlatsFollow
<1>10. CASE n = 0
  <2>1. q = r
    BY <1>8, <1>10
  <2>2. AfterMark(r, s) /\ feed.on /\ feed.confirmed => until < r.last.time + 2 * step
    BY <1>5, <1>7, <1>9, <1>10
  <2>3. QED
    BY <1>1, <1>3, <1>5, <2>1, <2>2
<1>11. CASE n # 0
  <2>1. PICK last \in Candle : last = r.last /\ last.time \in Int /\ last # None
    BY <1>5, <1>7, <1>11
  <2>2. feed.on /\ feed.confirmed /\ last.time + step >= feed.bound /\ last.time + n * step + step <= until
    BY <1>7, <1>11, <2>1
  <2>3. PICK X : X = FlatsAfter(last, n, step)
    OBVIOUS
  <2>4. /\ X \in Seq(Candle) /\ Len(X) = n
        /\ \A i \in 1..n : X[i] = FlatBar(last.time + i * step, last.close) /\ X[i] \in Candle
    <3>1. PICK m \in Nat : m = n
      BY <1>7
    <3>2. /\ FlatsAfter(last, m, step) \in Seq(Candle) /\ Len(FlatsAfter(last, m, step)) = m
          /\ \A i \in 1..m : /\ FlatsAfter(last, m, step)[i] = FlatBar(last.time + i * step, last.close)
                             /\ FlatBar(last.time + i * step, last.close) \in Candle
      BY FlatsAre
    <3>3. QED
      BY <2>3, <3>1, <3>2
  <2>5. \A i \in 1..n : X[i].time = last.time + i * step /\ X[i].synthetic = TRUE
    BY <2>4 DEF FlatBar
  <2>8. DOMAIN r = StreamFields
    BY DEF StreamOk, StreamTyped
  <2>9. /\ DOMAIN q = StreamFields /\ q.open = r.open /\ q.final = X[n].time /\ q.last = X[n] /\ q.out = r.out \o X
        /\ q.took = r.took /\ q.mark = r.mark /\ q.base = r.base
    BY <1>8, <1>11, <2>1, <2>3, <2>8 DEF StreamFields
  <2>10. PICK e \in Int : e = last.time + n * step
    <3>1. n * step \in Int
      BY <1>7
    <3>2. QED
      BY <2>1, <3>1
  <2>11. n \in 1..n
    BY <1>7, <1>11
  <2>12. q.last \in Candle /\ q.last.time = e /\ q.final = e /\ q.last # None
    BY <2>4, <2>5, <2>9, <2>10, <2>11, NoneIsNoBar
  <2>13. e + step <= until /\ last.time + step <= e
    <3>1. CASE step = 2
      BY <1>7, <1>11, <2>1, <2>2, <2>10, <3>1
    <3>2. CASE step = 4
      BY <1>7, <1>11, <2>1, <2>2, <2>10, <3>2
    <3>3. QED
      BY <3>1, <3>2
  <2>14. e >= feed.bound /\ e > r.final /\ e + step <= clock /\ (r.open # None => e < r.open.time)
    <3>1. r.final <= last.time \/ r.final < feed.bound
      BY <2>1 DEF StreamOk, LastIsClosed
    <3>2. e >= feed.bound
      BY <1>4, <2>1, <2>2, <2>13
    <3>3. e > r.final
      <4>1. r.final \in Int /\ feed.bound \in Int /\ last.time \in Int /\ last.time < e
        BY <1>4, <1>5, <2>1, <2>13
      <4>2. QED
        BY <4>1, <3>1, <3>2
    <3>4. r.open # None => e < r.open.time
      <4>1. SUFFICES ASSUME r.open # None PROVE e < r.open.time
        OBVIOUS
      <4>2. PICK o \in Int : o = r.open.time /\ until < o + step
        BY <1>1, <1>5, <4>1
      <4>3. e < o
        BY <2>13, <4>2
      <4>4. QED
        BY <4>2, <4>3
    <3>5. e + step <= clock
      BY <1>4, <2>13
    <3>6. QED
      BY <3>2, <3>3, <3>4, <3>5
  <2>15. OutIsPast(q) /\ q.out \in Seq(Candle)
    <3>1. StreamTyped(r) /\ OutIsPast(r)
      BY DEF StreamOk
    <3>2. X[1].time = last.time + step
      BY <1>7, <1>11, <2>1, <2>5
    <3>3. ASSUME NEW i \in 1 .. Len(r.out) PROVE r.out[i].time < X[1].time
      <4>1. r.out[i].time <= last.time
        BY <2>1, <3>1 DEF OutIsPast
      <4>2. QED
        BY <1>5, <2>1, <3>2, <4>1, SMTT(30)
    <3>4. ASSUME NEW i \in 1 .. Len(X) - 1 PROVE X[i].time < X[i + 1].time
      <4>1. i \in 1..n /\ i + 1 \in 1..n
        BY <1>7, <2>4
      <4>2. last.time + i * step < last.time + (i + 1) * step
        BY <1>7, <2>1, <4>1, Multiples
      <4>3. QED
        BY <2>5, <4>1, <4>2
    <3>5. ASSUME NEW i \in 1 .. Len(X) PROVE X[i].time <= q.final /\ X[i].time <= q.last.time
      <4>1. i \in 1..n
        BY <2>4
      <4>2. last.time + i * step <= last.time + n * step
        BY <1>7, <2>1, <4>1, Multiples
      <4>3. QED
        BY <2>5, <2>10, <2>12, <4>1, <4>2
    <3>6. X # <<>> /\ q.final \in Int
      BY <1>11, <2>4, <2>10, <2>12
    <3>7. QED
      BY <2>4, <2>9, <2>12, <3>1, <3>3, <3>4, <3>5, <3>6, OutGrows
  <2>16. StreamTyped(q)
    <3>1. r.open = None \/ r.open \in OpenBar
      BY <1>5
    <3>2. QED
      BY <1>5, <2>9, <2>10, <2>12, <2>15, <3>1 DEF StreamTyped
  <2>17. OpenIsMade(q, s, feed)
    <3>1. r.open # None =>
            /\ r.open.time % Step(s) = 0
            /\ MadeOf(r.open, InBucket(r.took, s, r.open.time), s)
      BY DEF StreamOk, OpenIsMade
    <3>2. r.open # None => r.open.time > e /\ e <= r.open.time
      BY <1>5, <2>10, <2>14
    <3>3. QED
      BY <2>2, <2>9, <2>12, <3>1, <3>2 DEF OpenIsMade
  <2>18. TookIsPast(q, s, ids)
    <3>1. ASSUME NEW t \in r.took
          PROVE  t.id \in ids /\ (Floor(t.time, Step(s)) <= e \/ (r.open # None /\ Floor(t.time, Step(s)) = r.open.time))
      <4>1. t.id \in ids /\ (Floor(t.time, Step(s)) <= r.final \/ (r.open # None /\ Floor(t.time, Step(s)) = r.open.time))
        BY DEF StreamOk, TookIsPast
      <4>2. t.time \in Int
        BY <1>5, TradesTyped
      <4>3. Floor(t.time, Step(s)) \in Int
        BY <1>1, <4>2, FloorIs
      <4>4. QED
        BY <1>5, <2>10, <2>14, <4>1, <4>3
    <3>2. QED
      BY <2>9, <2>12, <3>1 DEF TookIsPast
  <2>19. LastIsClosed(q, s, feed, clock)
    <3>1. last.time % step = 0
      BY <1>1, <2>1 DEF StreamOk, LastIsClosed
    <3>2. e % step = 0
      <4>1. PICK a \in Int, m \in Nat : a = last.time /\ m = n
        BY <1>7, <2>1
      <4>2. (a + m * step) % step = 0
        BY <3>1, <4>1, Multiples
      <4>3. QED
        BY <2>10, <4>1, <4>2
    <3>3. e - step <= e /\ e <= e
      BY <2>10
    <3>4. r.open # None => r.open.time <= clock
      BY DEF StreamOk, LastIsClosed
    <3>5. QED
      BY <1>1, <2>2, <2>9, <2>12, <2>14, <3>2, <3>3, <3>4 DEF LastIsClosed
  <2>20. FlatsFollow(q, s, feed)
    <3>1. r.mark \in -1 .. Len(r.out) /\ Len(q.out) = Len(r.out) + n
      <4>1. r.mark \in -1 .. Len(r.out)
        BY DEF StreamOk, FlatsFollow
      <4>2. PICK R \in Seq(Candle) : R = r.out
        BY <1>5
      <4>3. Len(R \o X) = Len(R) + Len(X)
        BY <2>4, ConcatProperties
      <4>4. QED
        BY <2>4, <2>9, <4>1, <4>2, <4>3
    <3>2. ASSUME AfterMark(r, s)
          PROVE  r.base \in Candle /\ \E k \in 0 .. Len(q.out) : Chained(r.base, Emitted(q), q.last, k, step)
      <4>1. PICK base \in Candle : base = r.base
        BY <3>2 DEF StreamOk, FlatsFollow
      <4>2. PICK k \in 0 .. Len(r.out) : Chained(base, Emitted(r), last, k, step)
        BY <1>1, <2>1, <3>2, <4>1 DEF StreamOk, FlatsFollow
      <4>3. r.mark \in 0 .. Len(r.out)
        BY <3>1, <3>2 DEF AfterMark
      <4>4. PICK E \in Seq(Candle) : E = Emitted(r) /\ Emitted(q) = E \o X
        <5>1. PICK R \in Seq(Candle) : R = r.out
          BY <1>5
        <5>2. SubSeq(R, r.mark + 1, Len(R)) \in Seq(Candle)
              /\ SubSeq(R \o X, r.mark + 1, Len(R \o X)) = SubSeq(R, r.mark + 1, Len(R)) \o X
          BY <2>4, <4>3, <5>1, EndGrows
        <5>3. QED
          BY <2>9, <5>1, <5>2 DEF Emitted
      <4>5. PICK m \in Nat : m = k
        OBVIOUS
      <4>6. Chained(base, E, last, m, step)
        BY <4>2, <4>4, <4>5
      <4>7. Chained(base, E \o X, X[n], m + n, step)
        BY <1>7, <1>11, <2>3, <4>6, ChainedFlats
      <4>8. m + n \in 0 .. Len(q.out)
        BY <1>5, <1>7, <3>1, <4>5
      <4>9. QED
        BY <2>9, <4>1, <4>4, <4>7, <4>8
    <3>3. e + step >= feed.bound /\ e <= e
      BY <1>4, <2>10, <2>14
    <3>4. r.mark \in -1 .. Len(q.out)
      BY <1>5, <1>7, <3>1
    <3>5. AfterMark(q, s) <=> AfterMark(r, s)
      BY <2>9 DEF AfterMark
    <3>6. QED
      BY <1>1, <2>9, <2>12, <3>2, <3>3, <3>4, <3>5 DEF FlatsFollow
  <2>21. until < e + 2 * step
    BY <1>7, <2>1, <2>2, <2>10
  <2>22. r.final <= e
    BY <1>5, <2>10, <2>14
  <2>23. QED
    BY <1>1, <1>3, <2>9, <2>12, <2>22, <2>15, <2>16, <2>17, <2>18, <2>19, <2>20, <2>21 DEF StreamOk
<1>12. QED
  BY <1>10, <1>11

\* From r to q no trade was taken, time may have closed the open bar.
ClosedFurther(r, q) ==
  /\ q.took = r.took /\ r.final <= q.final
  /\ q.open = r.open \/ (q.open = None /\ (r.open # None => r.open.time <= q.final))

\* What closes the open bar once it is over, with flat bars before and after it.
LEMMA FlushOk ==
  ASSUME Feeding, NEW s \in Streams, NEW r, NEW ids, StreamOk(r, s, feed, clock, ids), NEW now \in Int, now <= clock
  PROVE  /\ StreamOk(Flush(r, s, now), s, feed, clock, ids)
         /\ Flush(r, s, now).open = None \/ Flush(r, s, now).open.time + Step(s) > now
         /\ ClosedFurther(r, Flush(r, s, now))
<1>1. PICK step \in {2, 4} : step = Step(s)
  BY TradesTyped
<1>2. clock \in Nat
  BY DEF Feeding
<1>3. PICK until : until = IF r.open = None THEN now ELSE Min({now, r.open.time})
  OBVIOUS
<1>4. r.open # None => r.open.time \in Int
  BY StreamFacts DEF StreamOk
<1>5. /\ until \in Int /\ until <= now
      /\ r.open # None => until <= r.open.time /\ (r.open.time <= now => until = r.open.time)
  <2>1. CASE r.open = None
    BY <1>3, <2>1
  <2>2. CASE r.open # None
    <3>1. PICK o \in Int : o = r.open.time
      BY <1>4, <2>2
    <3>2. until = Min({now, o})
      BY <1>3, <2>2, <3>1
    <3>3. \E z \in {now, o} : \A y \in {now, o} : z <= y
      <4>1. CASE now <= o
        BY <3>1, <4>1
      <4>2. CASE o <= now
        BY <3>1, <4>2
      <4>3. QED
        BY <3>1, <4>1, <4>2
    <3>4. until \in {now, o} /\ \A y \in {now, o} : until <= y
      BY <3>2, <3>3 DEF Min
    <3>5. QED
      BY <2>2, <3>1, <3>4
  <2>3. QED
    BY <2>1, <2>2
<1>6. PICK q : q = FillUntil(r, s, until)
  OBVIOUS
<1>7. until <= clock /\ (r.open # None => until < r.open.time + Step(s))
  BY <1>1, <1>2, <1>4, <1>5
<1>8. /\ StreamOk(q, s, feed, clock, ids) /\ q.open = r.open /\ q.mark = r.mark /\ q.took = r.took /\ r.final <= q.final
      /\ AfterMark(r, s) /\ feed.on /\ feed.confirmed => until < q.last.time + 2 * step
  BY <1>1, <1>5, <1>6, <1>7, FillOk
<1>9. PICK p : p = IF q.open # None /\ q.open.time + Step(s) <= now THEN Finish(q) ELSE q
  OBVIOUS
<1>10. Flush(r, s, now) = FillUntil(p, s, now)
  BY <1>3, <1>6, <1>9 DEF Flush
<1>11. /\ StreamOk(p, s, feed, clock, ids) /\ (p.open # None => now < p.open.time + Step(s))
       /\ p.took = q.took
       /\ p.open = q.open \/ (p.open = None /\ q.open.time <= p.final)
       /\ q.final <= p.final
  <2>1. CASE q.open # None /\ q.open.time + Step(s) <= now
    <3>1. PICK o \in Int : o = q.open.time
      BY <1>4, <1>8, <2>1
    <3>2. o + step <= now /\ o <= now /\ o + step <= clock
      BY <1>1, <1>2, <2>1, <3>1
    <3>3. ASSUME AfterMark(q, s) PROVE q.last.time + step >= o
      <4>1. q.last # None /\ AfterMark(r, s)
        BY <1>8, <3>3 DEF AfterMark, StreamOk, FlatsFollow
      <4>2. PICK l \in Int : l = q.last.time
        BY <1>8, <4>1, StreamFacts DEF StreamOk
      <4>3. /\ (feed.on /\ feed.confirmed) \/ l + step >= o
            /\ o % step = 0 /\ l % step = 0 /\ l <= o
        BY <1>1, <1>8, <2>1, <3>1, <3>3, <4>1, <4>2 DEF StreamOk, OpenIsMade, LastIsClosed
      <4>4. CASE l + step >= o
        BY <4>2, <4>4
      <4>5. CASE feed.on /\ feed.confirmed
        <5>1. o < l + 2 * step
          BY <1>5, <1>8, <2>1, <3>1, <3>2, <4>1, <4>2, <4>5
        <5>2. o <= l + step
          BY ONLY <4>2, <4>3, <5>1, <3>1, step \in {2, 4}, Aligned
        <5>3. QED
          BY <4>2, <5>2
      <4>6. QED
        BY <4>3, <4>4, <4>5
    <3>4. q.open.time + Step(s) <= clock /\ (AfterMark(q, s) => q.last.time + Step(s) >= q.open.time)
      BY <1>1, <3>1, <3>2, <3>3
    <3>5. StreamOk(Finish(q), s, feed, clock, ids) /\ Finish(q).open = None /\ Finish(q).took = q.took /\ Finish(q).final = o
      BY <1>8, <2>1, <3>1, <3>4, FinishOk
    <3>6. o > q.final
      BY <1>8, <2>1, <3>1 DEF StreamOk, OpenIsMade
    <3>7. q.final \in Int
      BY <1>8, StreamFacts DEF StreamOk
    <3>8. q.final <= o /\ o <= o
      BY <3>1, <3>6, <3>7
    <3>9. QED
      BY <1>9, <2>1, <3>1, <3>5, <3>8
  <2>2. CASE ~(q.open # None /\ q.open.time + Step(s) <= now)
    <3>1. q.open # None => q.open.time \in Int
      BY <1>4, <1>8
    <3>2. q.open # None => now < q.open.time + Step(s)
      BY <1>1, <2>2, <3>1
    <3>3. q.final \in Int
      BY <1>8, StreamFacts DEF StreamOk
    <3>4. q.final <= q.final
      BY <3>3
    <3>5. QED
      BY <1>8, <1>9, <2>2, <3>2, <3>4
  <2>3. QED
    BY <2>1, <2>2
<1>12. PICK z : z = FillUntil(p, s, now)
  OBVIOUS
<1>16. StreamOk(z, s, feed, clock, ids) /\ z.open = p.open /\ z.took = p.took /\ p.final <= z.final
  BY <1>11, <1>12, FillOk
<1>17. ClosedFurther(r, z)
  <2>1. r.final \in Int /\ q.final \in Int /\ p.final \in Int /\ z.final \in Int
    BY <1>8, <1>11, <1>16, StreamFacts DEF StreamOk
  <2>2. r.final <= z.final
    BY <1>8, <1>11, <1>16, <2>1
  <2>3. p.open # q.open => p.open = None /\ (r.open # None => r.open.time <= z.final)
    BY <1>4, <1>8, <1>11, <1>16, <2>1
  <2>4. QED
    BY <1>8, <1>11, <1>16, <2>2, <2>3 DEF ClosedFurther
<1>13. p.open # None => p.open.time \in Int
  BY <1>11, StreamFacts DEF StreamOk
<1>14. p.open = None \/ p.open.time + Step(s) > now
  BY <1>1, <1>11, <1>13
<1>15. QED
  BY <1>10, <1>12, <1>14, <1>16, <1>17

\* Time goes on, and trades arrive, on the same subscription.
LEMMA StreamStays ==
  ASSUME NEW s \in Streams, NEW r, NEW f, NEW c \in Int, NEW ids, StreamOk(r, s, f, c, ids),
         NEW g, NEW d \in Int, NEW jds, c <= d, ids \subseteq jds,
         g.on = f.on, g.bound = f.bound, f.confirmed => g.confirmed
  PROVE  StreamOk(r, s, g, d, jds)
<1>1. StreamTyped(r) /\ OutIsPast(r)
  BY DEF StreamOk
<1>2. OpenIsMade(r, s, g)
  BY DEF StreamOk, OpenIsMade
<1>3. TookIsPast(r, s, jds)
  BY DEF StreamOk, TookIsPast
<1>4. LastIsClosed(r, s, g, d)
  <2>1. PICK step \in {2, 4} : step = Step(s)
    BY TradesTyped
  <2>2. r.final \in Int /\ (r.final = -1 \/ r.final + step <= c)
    BY <1>1, <2>1 DEF StreamOk, LastIsClosed, StreamTyped
  <2>3. r.final = -1 \/ r.final + Step(s) <= d
    BY <2>1, <2>2
  <2>4. r.open # None => r.open.time <= d
    <3>1. r.open # None => r.open.time \in Int /\ r.open.time <= c
      BY <1>1, StreamFacts DEF StreamOk, LastIsClosed
    <3>2. QED
      BY <3>1
  <2>5. QED
    BY <2>3, <2>4 DEF StreamOk, LastIsClosed
<1>5. FlatsFollow(r, s, g)
  BY DEF StreamOk, FlatsFollow
<1>6. QED
  BY <1>1, <1>2, <1>3, <1>4, <1>5 DEF StreamOk

\* The start of the first whole minute is a bucket boundary for both intervals.
LEMMA StartsOnBucket ==
  ASSUME NEW epoch \in Nat, NEW t \in Int, t >= Ceil(epoch, 4), NEW step \in {2, 4}
  PROVE  Floor(t, step) >= Ceil(epoch, 4) /\ Ceil(epoch, 4) \in Int /\ Ceil(epoch, 4) >= epoch
<1>1. PICK x \in Int : x = (epoch + 3) \div 4
  OBVIOUS
<1>2. Ceil(epoch, 4) = x * 4
  BY <1>1 DEF Ceil
<1>3. t >= x * 4 /\ x * 4 >= epoch
  BY <1>1, <1>2
<1>4. CASE step = 2
  BY <1>2, <1>3, <1>4 DEF Floor
<1>5. CASE step = 4
  BY <1>2, <1>3, <1>5 DEF Floor
<1>6. QED
  BY <1>2, <1>3, <1>4, <1>5

\* A new trade, after the bars that were over when it happened have been closed.
LEMMA AcceptOk ==
  ASSUME Feeding, NEW s \in Streams, NEW r, NEW ids, StreamOk(r, s, feed, clock, ids),
         NEW t \in MarketTrades, t.id \notin ids, t.time <= clock, r.open = None \/ r.open.time + Step(s) > t.time,
         NEW f, f.on = feed.on, f.bound = feed.bound, feed.confirmed => f.confirmed,
         Takes(r, t, s) /\ f.on => f.confirmed
  PROVE  StreamOk(AcceptIn(r, t, s), s, f, clock, ids \cup {t.id})
<1>1. PICK step \in {2, 4} : step = Step(s)
  BY TradesTyped
<1>2. feed.epoch \in Nat /\ feed.bound \in Nat /\ clock \in Nat
  BY DEF Feeding
<1>3. StreamOk(r, s, f, clock, ids \cup {t.id})
  <2>1. PICK c \in Int : c = clock
    BY <1>2
  <2>2. PICK g : g = feed
    OBVIOUS
  <2>3. PICK jds : jds = ids \cup {t.id}
    OBVIOUS
  <2>4. StreamOk(r, s, g, c, ids) /\ c <= c /\ ids \subseteq jds
    BY <2>1, <2>2, <2>3
  <2>5. f.on = g.on /\ f.bound = g.bound /\ (g.confirmed => f.confirmed)
    BY <2>2
  <2>6. StreamOk(r, s, f, c, jds)
    BY ONLY s \in Streams, <2>1, <2>4, <2>5, StreamStays
  <2>7. QED
    BY <2>1, <2>3, <2>6
<1>4. CASE ~Takes(r, t, s)
  BY <1>3, <1>4 DEF AcceptIn
<1>5. CASE Takes(r, t, s)
  <2>1. t.time \in Int /\ t.time \in Nat
    BY TradesTyped
  <2>2. PICK b \in Int : b = Floor(t.time, step) /\ b % step = 0 /\ b <= t.time
    BY <2>1, FloorIs
  <2>3. b <= clock
    BY <1>2, <2>1, <2>2
  <2>4. /\ r.final \in Int /\ r.took \in SUBSET MarketTrades /\ IsFiniteSet(r.took)
        /\ r.open # None => r.open \in OpenBar /\ r.open.time \in Int
        /\ r.last # None => r.last.time \in Int
    BY StreamFacts DEF StreamOk
  <2>5. b > r.final /\ (r.open # None => r.open.time <= b)
    BY <1>1, <1>5, <2>2 DEF Takes
  <2>6. r.open # None => r.open.time = b
    <3>1. SUFFICES ASSUME r.open # None PROVE r.open.time = b
      OBVIOUS
    <3>2. PICK o \in Int : o = r.open.time
      BY <2>4, <3>1
    <3>3. o % step = 0 /\ o + step > t.time
      BY <1>1, <3>1, <3>2 DEF StreamOk, OpenIsMade
    <3>4. o > b - step
      BY <2>1, <2>2, <3>2, <3>3
    <3>5. o >= b
      BY ONLY <2>2, <3>2, <3>3, <3>4, step \in {2, 4}, Aligned
    <3>6. QED
      BY <2>2, <2>5, <3>1, <3>2, <3>5
  <2>7. PICK made : made = IF r.open = None THEN Opened(t, s) ELSE Added(r.open, t, s)
    OBVIOUS
  <2>8. PICK p : p = AcceptIn(r, t, s)
    OBVIOUS
  <2>9. DOMAIN r = StreamFields
    BY DEF StreamOk, StreamTyped
  <2>10. p = [r EXCEPT !.open = made, !.took = r.took \cup {t}]
    <3>1. ~(r.open # None /\ r.open.time < b)
      BY <2>2, <2>6
    <3>2. QED
      BY <1>1, <1>5, <2>2, <2>7, <2>8, <3>1 DEF AcceptIn
  <2>11. /\ DOMAIN p = StreamFields /\ p.open = made /\ p.took = r.took \cup {t} /\ p.final = r.final /\ p.last = r.last
         /\ p.out = r.out /\ p.mark = r.mark /\ p.base = r.base
    BY <2>9, <2>10 DEF StreamFields
  <2>12. ASSUME NEW u \in r.took
         PROVE  /\ u \in MarketTrades /\ u # t /\ u.id \in ids
                /\ Floor(u.time, step) \in Int
                /\ Floor(u.time, step) <= r.final \/ (r.open # None /\ Floor(u.time, step) = b)
    <3>1. u.id \in ids /\ (Floor(u.time, step) <= r.final \/ (r.open # None /\ Floor(u.time, step) = r.open.time))
      BY <1>1 DEF StreamOk, TookIsPast
    <3>2. u \in MarketTrades /\ u.time \in Int
      BY <2>4, TradesTyped
    <3>3. QED
      BY <2>6, <3>1, <3>2, FloorIs
  <2>13. made \in OpenBar /\ made.time = b /\ MadeOf(made, InBucket(r.took \cup {t}, s, b), s)
    <3>1. CASE r.open = None
      <4>1. InBucket(r.took \cup {t}, s, b) = {t}
        <5>1. \A u \in r.took : Floor(u.time, step) # b
          BY <2>2, <2>4, <2>5, <2>12, <3>1
        <5>2. QED
          BY <1>1, <2>2, <5>1 DEF InBucket
      <4>2. QED
        BY <1>1, <2>2, <2>7, <3>1, <4>1, OpenedIs
    <3>2. CASE r.open # None
      <4>1. PICK S : S = InBucket(r.took, s, b)
        OBVIOUS
      <4>2. S \subseteq r.took /\ t \notin r.took
        BY <2>12, <4>1 DEF InBucket
      <4>3. S \in SUBSET MarketTrades /\ IsFiniteSet(S) /\ t \in MarketTrades \ S
        BY <2>4, <4>2, FS_Subset
      <4>4. InBucket(r.took \cup {t}, s, b) = S \cup {t}
        BY <1>1, <2>2, <4>1 DEF InBucket
      <4>5. PICK o \in OpenBar : o = r.open /\ o.time = b
        BY <2>4, <2>6, <3>2
      <4>6. MadeOf(o, S, s)
        BY <3>2, <4>1, <4>5 DEF StreamOk, OpenIsMade
      <4>7. Added(o, t, s) \in OpenBar /\ MadeOf(Added(o, t, s), S \cup {t}, s) /\ Added(o, t, s).time = o.time
        BY <4>3, <4>6, AddedIs
      <4>8. QED
        BY <2>7, <3>2, <4>4, <4>5, <4>7
    <3>3. QED
      BY <3>1, <3>2
  <2>14. made # None
    BY <2>13, NoneIsNoBar
  <2>15. StreamTyped(p)
    <3>1. IsFiniteSet(r.took \cup {t}) /\ r.took \cup {t} \in SUBSET MarketTrades
      BY <2>4, FS_AddElement
    <3>2. QED
      BY <1>3, <2>11, <2>13, <3>1 DEF StreamOk, StreamTyped
  <2>16. OpenIsMade(p, s, f)
    <3>1. r.last # None => r.last.time <= b
      <4>1. SUFFICES ASSUME r.last # None PROVE r.last.time <= b
        OBVIOUS
      <4>2. PICK l \in Int : l = r.last.time
        BY <2>4, <4>1
      <4>3. l % step = 0 /\ l - step <= r.final
        BY <1>1, <4>1, <4>2 DEF StreamOk, LastIsClosed
      <4>4. b > l - step
        BY <2>2, <2>4, <2>5, <4>2, <4>3
      <4>5. b >= l
        BY ONLY <2>2, <4>2, <4>3, <4>4, step \in {2, 4}, Aligned
      <4>6. QED
        BY <2>2, <4>2, <4>5
    <3>2. AfterMark(r, s) => f.on /\ f.confirmed
      BY <1>3, <1>5 DEF StreamOk, LastIsClosed, AfterMark
    <3>3. QED
      BY <1>1, <1>5, <2>2, <2>3, <2>5, <2>11, <2>13, <3>1, <3>2 DEF OpenIsMade, AfterMark
  <2>17. TookIsPast(p, s, ids \cup {t.id})
    <3>1. ASSUME NEW u \in r.took \cup {t}
          PROVE  u.id \in ids \cup {t.id} /\ (Floor(u.time, step) <= r.final \/ Floor(u.time, step) = b)
      BY <2>2, <2>12
    <3>2. QED
      BY <1>1, <2>11, <2>13, <2>14, <3>1 DEF TookIsPast
  <2>18. OutIsPast(p)
    BY <1>3, <2>11 DEF StreamOk, OutIsPast
  <2>19. LastIsClosed(p, s, f, clock)
    BY <1>3, <2>3, <2>11, <2>13 DEF StreamOk, LastIsClosed
  <2>20. FlatsFollow(p, s, f)
    BY <1>3, <2>11 DEF StreamOk, FlatsFollow, AfterMark, Emitted
  <2>21. QED
    BY <2>8, <2>15, <2>16, <2>17, <2>18, <2>19, <2>20 DEF StreamOk
<1>6. QED
  BY <1>4, <1>5

\* What the stream is after that, apart from the bar itself.
LEMMA AcceptDoes ==
  ASSUME Feeding, NEW s \in Streams, NEW r, NEW ids, StreamOk(r, s, feed, clock, ids),
         NEW t \in MarketTrades, r.open = None \/ r.open.time + Step(s) > t.time,
         NEW p, p = AcceptIn(r, t, s)
  PROVE  /\ p.final = r.final /\ r.took \subseteq p.took
         /\ ~Takes(r, t, s) => p = r
         /\ Takes(r, t, s) =>
              /\ t \in p.took /\ p.open # None /\ p.open.time = Floor(t.time, Step(s))
              /\ r.open # None => r.open.time = Floor(t.time, Step(s))
<1>1. CASE ~Takes(r, t, s)
  BY <1>1 DEF AcceptIn
<1>2. CASE Takes(r, t, s)
  <2>1. PICK step \in {2, 4} : step = Step(s)
    BY TradesTyped
  <2>2. t.time \in Int /\ t.time \in Nat
    BY TradesTyped
  <2>3. PICK b \in Int : b = Floor(t.time, step) /\ b % step = 0 /\ b <= t.time
    BY <2>2, FloorIs
  <2>4. b >= 0
    <3>1. CASE step = 2
      BY <2>2, <2>3, <3>1 DEF Floor
    <3>2. CASE step = 4
      BY <2>2, <2>3, <3>2 DEF Floor
    <3>3. QED
      BY <3>1, <3>2
  <2>5. r.open # None => r.open.time = b
    <3>1. SUFFICES ASSUME r.open # None PROVE r.open.time = b
      OBVIOUS
    <3>2. PICK o \in Int : o = r.open.time
      BY <3>1, StreamFacts DEF StreamOk
    <3>3. o % step = 0 /\ o + step > t.time
      BY <2>1, <3>1, <3>2 DEF StreamOk, OpenIsMade
    <3>4. o > b - step
      BY <2>2, <2>3, <3>2, <3>3
    <3>5. o >= b
      BY ONLY <2>3, <3>2, <3>3, <3>4, step \in {2, 4}, Aligned
    <3>6. o <= b
      BY <1>2, <2>1, <2>3, <3>2 DEF Takes
    <3>7. QED
      BY <2>3, <3>2, <3>5, <3>6
  <2>6. PICK made : made = IF r.open = None THEN Opened(t, s) ELSE Added(r.open, t, s)
    OBVIOUS
  <2>7. DOMAIN r = StreamFields
    BY DEF StreamOk, StreamTyped
  <2>8. p = [r EXCEPT !.open = made, !.took = r.took \cup {t}]
    <3>1. ~(r.open # None /\ r.open.time < b)
      BY <2>3, <2>5
    <3>2. QED
      BY <1>2, <2>1, <2>3, <2>6, <3>1 DEF AcceptIn
  <2>9. p.open = made /\ p.took = r.took \cup {t} /\ p.final = r.final
    BY <2>7, <2>8 DEF StreamFields
  <2>10. made.time = b
    <3>1. CASE r.open = None
      BY <2>1, <2>3, <2>6, <3>1 DEF Opened
    <3>2. CASE r.open # None
      <4>1. PICK o \in OpenBar : o = r.open /\ o.time = b
        BY <2>5, <3>2, StreamFacts DEF StreamOk
      <4>2. Added(o, t, s).time = o.time
        BY <4>1 DEF Added, OpenBar
      <4>3. QED
        BY <2>6, <3>2, <4>1, <4>2
    <3>3. QED
      BY <3>1, <3>2
  <2>11. made # None
    <3>1. made.time # -1
      BY <2>3, <2>4, <2>10
    <3>2. QED
      BY <3>1 DEF None
  <2>12. QED
    BY <1>2, <2>1, <2>3, <2>5, <2>9, <2>10, <2>11
<1>3. QED
  BY <1>1, <1>2

\* An interrupted subscription leaves no open bar and nothing to fill from.
LEMMA DiscardOk ==
  ASSUME NEW s \in Streams, NEW r, NEW f, NEW c \in Int, NEW ids, StreamOk(r, s, f, c, ids), NEW g, ~g.on
  PROVE  StreamOk([Discard(r) EXCEPT !.mark = -1], s, g, c, ids)
<1>1. PICK p : p = [Discard(r) EXCEPT !.mark = -1]
  OBVIOUS
<1>2. DOMAIN r = StreamFields
  BY DEF StreamOk, StreamTyped
<1>3. /\ DOMAIN p = StreamFields /\ p.open = None /\ p.last = None /\ p.took = {} /\ p.mark = -1 /\ p.final = r.final
      /\ p.out = r.out
  BY <1>1, <1>2 DEF Discard, StreamFields
<1>4. StreamTyped(p)
  BY <1>3, FS_EmptySet DEF StreamOk, StreamTyped
<1>5. OpenIsMade(p, s, g) /\ TookIsPast(p, s, ids)
  BY <1>3 DEF OpenIsMade, TookIsPast
<1>6. OutIsPast(p)
  BY <1>3 DEF StreamOk, OutIsPast
<1>7. LastIsClosed(p, s, g, c)
  BY <1>3 DEF StreamOk, LastIsClosed
<1>8. FlatsFollow(p, s, g)
  <2>1. Len(r.out) \in Nat
    BY DEF StreamOk, StreamTyped
  <2>2. QED
    BY <1>3, <2>1 DEF FlatsFollow, AfterMark
<1>9. QED
  BY <1>1, <1>4, <1>5, <1>6, <1>7, <1>8 DEF StreamOk

\* What an interrupted subscription left behind does not go on with the next one.
LEMMA ConnectOk ==
  ASSUME NEW s \in Streams, NEW r, NEW f, NEW c \in Int, NEW ids, StreamOk(r, s, f, c, ids), ~f.on,
         NEW g, f.bound \in Int, g.bound \in Int, f.bound <= g.bound
  PROVE  StreamOk(r, s, g, c, ids)
<1>1. r.mark = -1
  BY DEF StreamOk, LastIsClosed
<1>2. OpenIsMade(r, s, g)
  BY <1>1 DEF StreamOk, OpenIsMade, AfterMark
<1>3. r.final \in Int
  BY StreamFacts DEF StreamOk
<1>4. LastIsClosed(r, s, g, c)
  <2>1. r.final < f.bound => r.final < g.bound
    BY <1>3
  <2>2. QED
    BY <1>1, <2>1 DEF StreamOk, LastIsClosed
<1>5. FlatsFollow(r, s, g)
  BY <1>1 DEF StreamOk, FlatsFollow, AfterMark
<1>6. QED
  BY <1>2, <1>4, <1>5 DEF StreamOk

LEMMA CeilIs ==
  ASSUME NEW t \in Nat \ {0}, NEW step \in {2, 4}
  PROVE  /\ Ceil(t, step) \in Int /\ Ceil(t, step) >= t /\ Ceil(t, step) >= step
         /\ (Ceil(t, step) - step) % step = 0 /\ Ceil(t, step) - step <= Floor(t, step)
<1>1. CASE step = 2
  BY <1>1 DEF Ceil, Floor
<1>2. CASE step = 4
  BY <1>2 DEF Ceil, Floor
<1>3. QED
  BY <1>1, <1>2

\* What a recovery has covered is closed, and the strategy's interval goes on from its baseline.
LEMMA RecoveredOk ==
  ASSUME Feeding, NEW s \in Streams, NEW r, NEW ids, StreamOk(r, s, feed, clock, ids), r.mark = -1, HistoryClose \in Nat,
         NEW m, m = MarkClosed(Seeded(r, s), s, clock), NEW p, p = [m EXCEPT !.mark = Len(m.out), !.base = m.last],
         NEW f, feed.on, f.on, feed.confirmed => f.confirmed, f.bound = clock
  PROVE  StreamOk(p, s, f, clock, ids) /\ ClosedFurther(r, p)
<1>1. PICK step \in {2, 4} : step = Step(s)
  BY TradesTyped
<1>2. feed.epoch \in Nat /\ feed.bound \in Nat /\ clock \in Nat \ {0}
  BY DEF Feeding
<1>3. /\ r.final \in Int /\ r.out \in Seq(Candle)
      /\ r.took \in SUBSET MarketTrades /\ IsFiniteSet(r.took)
      /\ r.open # None => r.open \in OpenBar /\ r.open.time \in Int
      /\ r.last # None => r.last \in Candle /\ r.last.time \in Int
      /\ \A i \in 1 .. Len(r.out) : r.out[i].time \in Int
  BY StreamFacts DEF StreamOk
<1>4. PICK fl \in Int : fl = Floor(clock, step) /\ fl % step = 0 /\ fl <= clock
  BY <1>2, FloorIs
<1>5. PICK bt \in Int : bt = Ceil(clock, step) - step /\ bt + step >= clock /\ bt >= 0 /\ bt % step = 0 /\ bt <= fl
  <2>1. PICK ce \in Int : ce = Ceil(clock, step) /\ ce >= clock /\ ce >= step /\ (ce - step) % step = 0 /\ ce - step <= fl
    BY <1>2, <1>4, CeilIs
  <2>2. ce - step \in Int /\ (ce - step) + step >= clock /\ ce - step >= 0
    BY <1>2, <2>1
  <2>3. QED
    BY <2>1, <2>2
<1>6. PICK base \in Candle : base = FlatBar(bt, HistoryClose) /\ base.time = bt
  <2>1. PICK h \in Int : h = HistoryClose
    OBVIOUS
  <2>2. FlatBar(bt, h) \in Candle /\ FlatBar(bt, h).time = bt
    BY DEF FlatBar, Candle
  <2>3. QED
    BY <2>1, <2>2
<1>7. PICK last : last = IF step = RunInterval /\ r.last.time < bt THEN base ELSE r.last
  OBVIOUS
<1>8. PICK open : open = IF r.open.time <= fl - step THEN None ELSE r.open
  OBVIOUS
<1>9. PICK final : final = Max({r.final, fl - step})
  OBVIOUS
<1>10. DOMAIN r = StreamFields
  BY DEF StreamOk, StreamTyped
<1>11. PICK q : q = Seeded(r, s)
  OBVIOUS
<1>12. /\ DOMAIN q = StreamFields /\ q.open = r.open /\ q.final = r.final /\ q.last = last /\ q.out = r.out
       /\ q.took = r.took /\ q.mark = r.mark /\ q.base = r.base
  <2>1. CASE step = RunInterval /\ r.last.time < bt
    <3>1. q = [r EXCEPT !.last = base] /\ last = base
      BY <1>1, <1>5, <1>6, <1>7, <1>11, <2>1 DEF Seeded
    <3>2. QED
      BY <1>10, <3>1 DEF StreamFields
  <2>2. CASE ~(step = RunInterval /\ r.last.time < bt)
    <3>1. q = r /\ last = r.last
      BY <1>1, <1>5, <1>6, <1>7, <1>11, <2>2 DEF Seeded
    <3>2. QED
      BY <1>10, <3>1
  <2>3. QED
    BY <2>1, <2>2
<1>13. m = [q EXCEPT !.final = final, !.open = open]
  <2>1. m = [q EXCEPT !.final = Max({q.final, fl - step}), !.open = IF q.open.time <= fl - step THEN None ELSE q.open]
    BY <1>1, <1>4, <1>11 DEF MarkClosed
  <2>2. QED
    BY <1>8, <1>9, <1>12, <2>1
<1>14. /\ DOMAIN p = StreamFields /\ p.open = open /\ p.final = final /\ p.last = last /\ p.out = r.out
       /\ p.took = r.took /\ p.mark = Len(r.out) /\ p.base = last
  <2>1. DOMAIN m = StreamFields /\ m.open = open /\ m.final = final /\ m.last = last /\ m.out = r.out
        /\ m.took = r.took
    BY <1>12, <1>13 DEF StreamFields
  <2>2. QED
    BY <2>1 DEF StreamFields
<1>15. final \in Int /\ final >= r.final /\ final >= fl - step /\ (final = r.final \/ final = fl - step)
  <2>1. PICK x, y \in Int : x = r.final /\ y = fl - step
    BY <1>3
  <2>2. \E z \in {x, y} : \A w \in {x, y} : z >= w
    <3>1. CASE x <= y
      BY <2>1, <3>1
    <3>2. CASE y <= x
      BY <2>1, <3>2
    <3>3. QED
      BY <2>1, <3>1, <3>2
  <2>3. final \in {x, y} /\ \A w \in {x, y} : final >= w
    BY <1>9, <2>1, <2>2 DEF Max
  <2>4. QED
    BY <2>1, <2>3
<1>16. final = -1 \/ final + step <= clock
  <2>1. r.final = -1 \/ r.final + step <= clock
    BY <1>1 DEF StreamOk, LastIsClosed
  <2>2. fl - step + step <= clock
    BY <1>2, <1>4
  <2>3. QED
    BY <1>15, <2>1, <2>2
<1>17. /\ last = None \/ (last \in Candle /\ last # None /\ last.time \in Int /\ last.time % step = 0 /\ last.time - step <= final)
       /\ step = RunInterval => last # None /\ last.time >= bt
       /\ r.last # None => last # None /\ last.time >= r.last.time
       /\ last # r.last => last = base
  <2>1. r.last # None => r.last.time % step = 0 /\ r.last.time - step <= r.final
    BY <1>1 DEF StreamOk, LastIsClosed
  <2>2. base # None
    BY <1>6, NoneIsNoBar
  <2>3. CASE step = RunInterval /\ r.last.time < bt
    <3>1. last = base
      BY <1>7, <2>3
    <3>2. bt - step <= final
      BY <1>5, <1>15
    <3>3. QED
      BY <1>3, <1>5, <1>6, <2>2, <2>3, <3>1, <3>2
  <2>4. CASE ~(step = RunInterval /\ r.last.time < bt)
    <3>1. last = r.last
      BY <1>7, <2>4
    <3>2. r.last # None => r.last.time - step <= final
      BY <1>3, <1>15, <2>1, SMTT(30)
    <3>3. step = RunInterval => r.last # None /\ r.last.time >= bt
      <4>1. step = RunInterval => r.last # None
        <5>1. -1 < bt
          BY <1>5
        <5>2. QED
          BY <2>4, <5>1, NoneIsNoBar
      <4>2. QED
        BY <1>3, <2>4, <4>1
    <3>4. QED
      BY <1>3, <2>1, <3>1, <3>2, <3>3
  <2>5. QED
    BY <2>3, <2>4
<1>18. open # None => open = r.open /\ r.open # None /\ r.open.time > fl - step
  <2>1. r.open # None => (r.open.time > fl - step <=> ~(r.open.time <= fl - step))
    BY <1>3
  <2>2. QED
    BY <1>8, <2>1
<1>19. StreamTyped(p)
  <2>1. open = None \/ open \in OpenBar
    BY <1>3, <1>18
  <2>2. last = None \/ last \in Candle
    BY <1>17
  <2>3. Len(r.out) \in Int
    BY <1>3
  <2>4. QED
    BY <1>3, <1>14, <1>15, <2>1, <2>2, <2>3 DEF StreamTyped
<1>20. OpenIsMade(p, s, f)
  <2>1. SUFFICES ASSUME open # None PROVE OpenIsMade(p, s, f)
    BY <1>14 DEF OpenIsMade
  <2>2. PICK o \in Int : o = r.open.time /\ o > fl - step
    BY <1>3, <1>18, <2>1
  <2>3. /\ o % step = 0 /\ o > r.final /\ o <= clock /\ (r.last # None => r.last.time <= o)
        /\ MadeOf(r.open, InBucket(r.took, s, o), s)
    BY <1>1, <1>18, <2>1, <2>2 DEF StreamOk, OpenIsMade, LastIsClosed
  <2>4. o > final
    BY <1>15, <2>2, <2>3
  <2>5. o >= fl
    BY ONLY <1>4, <2>2, <2>3, step \in {2, 4}, Aligned
  <2>6. last # None => last.time <= o
    <3>1. bt <= o
      BY <1>4, <1>5, <2>2, <2>5
    <3>2. QED
      BY <1>6, <1>17, <2>3, <3>1
  <2>7. AfterMark(p, s) => last.time + step >= o
    <3>1. step = RunInterval => last.time \in Int /\ last.time >= bt
      BY <1>17
    <3>2. QED
      BY <1>1, <1>2, <1>5, <2>2, <2>3, <3>1 DEF AfterMark
  <2>8. QED
    BY <1>1, <1>14, <1>18, <2>1, <2>2, <2>3, <2>4, <2>6, <2>7 DEF OpenIsMade
<1>21. TookIsPast(p, s, ids)
  <2>1. ASSUME NEW t \in r.took
        PROVE  t.id \in ids /\ (Floor(t.time, Step(s)) <= final \/ (open # None /\ Floor(t.time, Step(s)) = open.time))
    <3>1. t.id \in ids /\ (Floor(t.time, Step(s)) <= r.final \/ (r.open # None /\ Floor(t.time, Step(s)) = r.open.time))
      BY DEF StreamOk, TookIsPast
    <3>2. t.time \in Int
      BY <1>3, TradesTyped
    <3>3. Floor(t.time, Step(s)) \in Int
      BY <1>1, <3>2, FloorIs
    <3>4. CASE Floor(t.time, Step(s)) <= r.final
      BY <1>3, <1>15, <3>1, <3>3, <3>4
    <3>5. CASE r.open # None /\ Floor(t.time, Step(s)) = r.open.time
      <4>1. CASE r.open.time <= fl - step
        BY <1>3, <1>15, <3>1, <3>3, <3>5, <4>1
      <4>2. CASE ~(r.open.time <= fl - step)
        BY <1>8, <3>1, <3>5, <4>2
      <4>3. QED
        BY <4>1, <4>2
    <3>6. QED
      BY <3>1, <3>4, <3>5
  <2>2. QED
    BY <1>14, <2>1 DEF TookIsPast
<1>22. OutIsPast(p)
  <2>1. OutIsPast(r)
    BY DEF StreamOk
  <2>2. ASSUME NEW i \in 1 .. Len(r.out)
        PROVE  r.out[i].time <= final /\ (last # None => r.out[i].time <= last.time)
    <3>1. PICK x \in Int : x = r.out[i].time
      BY <1>3
    <3>2. x <= r.final /\ (r.last # None => x <= r.last.time)
      BY <2>1, <3>1 DEF OutIsPast
    <3>3. x <= final
      BY <1>3, <1>15, <3>2
    <3>4. x <= bt
      <4>1. r.final = -1 \/ r.final + step <= clock
        BY <1>1 DEF StreamOk, LastIsClosed
      <4>2. QED
        <5>1. step = 2 \/ step = 4
          OBVIOUS
        <5>2. PICK z \in Int : z = r.final /\ (z = -1 \/ z + step <= clock) /\ x <= z
          BY <1>3, <3>2, <4>1
        <5>3. QED
          BY ONLY <1>2, <1>5, <3>1, <5>1, <5>2, SMTT(30)
    <3>5. last # None => x <= last.time
      <4>1. CASE last = r.last
        BY <3>2, <4>1
      <4>2. CASE last # r.last
        BY <1>6, <1>17, <3>4, <4>2
      <4>3. QED
        BY <4>1, <4>2
    <3>6. QED
      BY <3>1, <3>3, <3>5
  <2>3. QED
    BY <1>14, <2>1, <2>2 DEF OutIsPast
<1>23. LastIsClosed(p, s, f, clock)
  <2>1. final < clock
    BY <1>2, <1>15, <1>16
  <2>2. open # None => open.time <= clock
    BY <1>18 DEF StreamOk, LastIsClosed
  <2>3. QED
    BY <1>1, <1>14, <1>16, <1>17, <2>1, <2>2 DEF LastIsClosed
<1>24. FlatsFollow(p, s, f)
  <2>1. Len(r.out) \in Nat /\ Len(r.out) \in -1 .. Len(r.out) /\ 0 \in 0 .. Len(r.out)
    BY <1>3
  <2>2. Emitted(p) = <<>>
    <3>1. PICK R \in Seq(Candle) : R = r.out
      BY <1>3
    <3>2. SubSeq(R, Len(R) + 1, Len(R)) = <<>>
      <4>1. Len(R) \in 0 .. Len(R)
        OBVIOUS
      <4>2. SubSeq(R, Len(R) + 1, Len(R)) \in Seq(Candle) /\ Len(SubSeq(R, Len(R) + 1, Len(R))) = Len(R) - Len(R)
        BY <4>1, PartIs
      <4>3. PICK Z \in Seq(Candle) : Z = SubSeq(R, Len(R) + 1, Len(R))
        BY <4>2
      <4>4. Len(Z) = 0
        BY <4>2, <4>3
      <4>5. QED
        BY <4>3, <4>4, EmptySeq
    <3>3. QED
      BY <1>14, <3>1, <3>2 DEF Emitted
  <2>3. ASSUME AfterMark(p, s)
        PROVE  last \in Candle /\ last # None /\ last.time + step >= clock /\ Chained(last, <<>>, last, 0, step)
    <3>1. last # None /\ last.time >= bt /\ last \in Candle /\ last.time \in Int
      BY <1>1, <1>17, <2>3 DEF AfterMark
    <3>2. last.time + step >= clock
      BY <1>2, <1>5, <3>1
    <3>3. QED
      BY <3>1, <3>2, ChainedStart
  <2>4. QED
    BY <1>1, <1>14, <2>1, <2>2, <2>3 DEF FlatsFollow
<1>25. ClosedFurther(r, p)
  <2>1. r.open # None /\ open # r.open => r.open.time <= final
    <3>1. SUFFICES ASSUME r.open # None, open # r.open PROVE r.open.time <= final
      OBVIOUS
    <3>2. PICK o \in Int : o = r.open.time /\ o <= fl - step
      BY <1>3, <1>8, <3>1
    <3>3. QED
      BY <1>15, <3>2
  <2>2. QED
    BY <1>8, <1>14, <1>15, <2>1 DEF ClosedFurther
<1>26. QED
  BY <1>19, <1>20, <1>21, <1>22, <1>23, <1>24, <1>25 DEF StreamOk

(* What is fresh stays so.                                                     *)
LEMMA FreshStays ==
  ASSUME NEW s \in Streams, NEW r, NEW f, NEW told \in SUBSET MarketTrades, StreamFresh(r, s, f, told),
         StreamTyped(r), NEW q, StreamTyped(q), ClosedFurther(r, q),
         NEW g, g.epoch = f.epoch, f.on => g.on
  PROVE  StreamFresh(q, s, g, told)
<1>1. OpenIsFresh(q, g)
  BY DEF StreamFresh, OpenIsFresh, ClosedFurther
<1>2. ASSUME NEW t \in told, Value(t, s) > 0
      PROVE  t \in q.took \/ Floor(t.time, Step(s)) <= q.final \/ (q.open # None /\ Floor(t.time, Step(s)) < q.open.time)
  <2>1. PICK b \in Int : b = Floor(t.time, Step(s))
    BY TradesTyped, FloorIs
  <2>2. r.final \in Int /\ q.final \in Int /\ (r.open # None => r.open.time \in Int)
    BY StreamFacts
  <2>3. t \in r.took \/ b <= r.final \/ (r.open # None /\ b < r.open.time)
    BY <1>2, <2>1 DEF StreamFresh, HeardIsTaken
  <2>4. QED
    BY <2>1, <2>2, <2>3 DEF ClosedFurther
<1>3. QED
  BY <1>1, <1>2 DEF StreamFresh, HeardIsTaken

LEMMA CandlesInvInit == CandlesInit => CandlesInv
<1> SUFFICES ASSUME CandlesInit PROVE CandlesInv
  OBVIOUS
<1>1. handling = NoTrade /\ sent.heard = {}
  BY DEF CandlesInit
<1>2. Feeding /\ Handled
  <2>1. Feeding
    BY CandlesAssumption DEF CandlesInit, Feeding
  <2>2. QED
    BY <1>1, <2>1 DEF Handled
<1>3. ASSUME NEW s \in Streams PROVE StreamOk(stream[s], s, feed, clock, agg.seen) /\ StreamFresh(stream[s], s, feed, sent.heard)
  <2>1. PICK r : r = stream[s]
    OBVIOUS
  <2>2. r = [open |-> None, final |-> -1, last |-> None, out |-> <<>>, took |-> {}, mark |-> -1, base |-> None]
    BY <2>1 DEF CandlesInit
  <2>3. StreamTyped(r)
    <3>1. <<>> \in Seq(Candle)
      OBVIOUS
    <3>2. DOMAIN r = StreamFields
      BY <2>2 DEF StreamFields
    <3>3. QED
      BY <2>2, <3>1, <3>2, FS_EmptySet DEF StreamTyped
  <2>4. OpenIsMade(r, s, feed) /\ TookIsPast(r, s, agg.seen)
    BY <2>2 DEF OpenIsMade, TookIsPast
  <2>5. OutIsPast(r)
    BY <2>2 DEF OutIsPast
  <2>6. LastIsClosed(r, s, feed, clock)
    BY <2>2 DEF LastIsClosed
  <2>7. FlatsFollow(r, s, feed)
    BY <2>2 DEF FlatsFollow, AfterMark
  <2>8. StreamFresh(r, s, feed, sent.heard)
    BY <1>1, <2>2 DEF StreamFresh, OpenIsFresh, HeardIsTaken
  <2>9. QED
    BY <2>1, <2>3, <2>4, <2>5, <2>6, <2>7, <2>8 DEF StreamOk
<1>4. QED
  BY <1>2, <1>3 DEF CandlesInv

\* Closing what is over up to now, in all streams.
LEMMA FlushKeeps ==
  ASSUME CandlesInv, NEW now \in Int, now <= clock, NEW s \in Streams, NEW q, q = Flush(stream[s], s, now)
  PROVE  /\ StreamOk(q, s, feed, clock, agg.seen) /\ StreamFresh(q, s, feed, sent.heard)
         /\ q.open = None \/ q.open.time + Step(s) > now
<1>1. PICK r, f, told : r = stream[s] /\ f = feed /\ told = sent.heard
  OBVIOUS
<1>2. Feeding /\ StreamOk(r, s, feed, clock, agg.seen) /\ StreamFresh(r, s, f, told) /\ told \in SUBSET MarketTrades
  BY <1>1 DEF CandlesInv, Feeding
<1>3. StreamOk(q, s, feed, clock, agg.seen) /\ (q.open = None \/ q.open.time + Step(s) > now) /\ ClosedFurther(r, q)
  BY <1>1, <1>2, FlushOk
<1>4. StreamTyped(r) /\ StreamTyped(q)
  BY <1>2, <1>3 DEF StreamOk
<1>5. f.epoch = f.epoch /\ (f.on => f.on)
  OBVIOUS
<1>6. StreamFresh(q, s, f, told)
  BY ONLY s \in Streams, <1>2, <1>3, <1>4, <1>5, FreshStays
<1>7. QED
  BY <1>1, <1>3, <1>6

LEMMA OnTradeKeeps ==
  ASSUME CandlesInv, NEW t \in MarketTrades, OnTrade(t)
  PROVE  CandlesInv'
<1>1. /\ feed.on \in BOOLEAN /\ feed.epoch \in Nat /\ clock \in Nat /\ DOMAIN stream = Streams
      /\ DOMAIN sent = {"once", "repeats", "heard"}
  BY DEF CandlesInv, Feeding
<1>2. feed.on /\ t.time <= clock /\ handling = NoTrade /\ UNCHANGED <<clock, feed, agg>>
  BY DEF OnTrade
<1>3. DOMAIN sent' = DOMAIN sent /\ sent'.heard = sent.heard
  <2>1. sent' = [sent EXCEPT !.once = @ \cup {t}, !.repeats = @ + (IF t \in sent.once THEN 1 ELSE 0)]
    BY DEF OnTrade
  <2>2. QED
    BY <1>1, <2>1
<1>4. CASE t.time < StartsAt
  <2>1. UNCHANGED <<handling, stream>>
    BY <1>4 DEF OnTrade
  <2>2. Handled' /\ Feeding'
    BY <1>2, <1>3, <2>1 DEF CandlesInv, Feeding, Handled
  <2>3. QED
    BY <1>2, <1>3, <2>1, <2>2 DEF CandlesInv
<1>5. CASE ~(t.time < StartsAt)
  <2>1. /\ handling' = [trade |-> t, conn |-> feed.breaks]
        /\ stream' = [s \in Streams |-> Flush(stream[s], s, t.time)]
    BY <1>5 DEF OnTrade
  <2>2. t.time \in Int /\ t.time >= StartsAt
    <3>1. t.time \in Int
      BY TradesTyped
    <3>2. StartsAt \in Int
      <4>1. PICK x \in Int : x = (feed.epoch + 3) \div 4
        BY <1>1
      <4>2. StartsAt = x * 4
        BY <4>1 DEF StartsAt, Ceil
      <4>3. QED
        BY <4>1, <4>2
    <3>3. QED
      BY <1>5, <3>1, <3>2
  <2>3. ASSUME NEW s \in Streams
        PROVE  /\ StreamOk(stream'[s], s, feed, clock, agg.seen) /\ StreamFresh(stream'[s], s, feed, sent.heard)
               /\ stream'[s].open = None \/ stream'[s].open.time + Step(s) > t.time
    <3>1. stream'[s] = Flush(stream[s], s, t.time)
      BY <2>1
    <3>2. QED
      BY <1>2, <2>2, <3>1, FlushKeeps
  <2>4. Feeding'
    BY <1>2, <1>3, <2>1 DEF CandlesInv, Feeding
  <2>5. Handled'
    <3>1. handling'.trade = t /\ StartsAt' = StartsAt
      BY <1>2, <2>1 DEF StartsAt
    <3>2. QED
      BY <1>2, <2>2, <2>3, <3>1 DEF Handled
  <2>6. QED
    BY <1>2, <1>3, <2>3, <2>4, <2>5 DEF CandlesInv
<1>6. QED
  BY <1>4, <1>5

\* The trade that was handled is accepted, whatever happened to its subscription meanwhile.
LEMMA AcceptKeeps ==
  ASSUME CandlesInv, AcceptTrade
  PROVE  CandlesInv'
<1>1. /\ Feeding /\ feed.on \in BOOLEAN /\ feed.confirmed \in BOOLEAN /\ feed.epoch \in Nat /\ clock \in Nat
      /\ DOMAIN feed = {"session", "on", "confirmed", "epoch", "bound", "breaks"} /\ DOMAIN stream = Streams
      /\ DOMAIN sent = {"once", "repeats", "heard"} /\ sent.heard \in SUBSET MarketTrades
  BY DEF CandlesInv, Feeding
<1>2. PICK t \in MarketTrades : t = handling.trade /\ t.time <= clock
  BY DEF CandlesInv, Handled, AcceptTrade
<1>3. /\ t.time <= feed.epoch \/ (feed.on /\ t.time >= StartsAt)
      /\ \A s \in Streams : stream[s].open = None \/ stream[s].open.time + Step(s) > t.time
  BY <1>2 DEF CandlesInv, Handled, AcceptTrade
<1>4. PICK novel : novel = (t.id \notin agg.seen /\ ~TooOld(t))
  OBVIOUS
<1>5. PICK taken : taken = (novel /\ \E s \in Streams : Takes(stream[s], t, s))
  OBVIOUS
<1>6. /\ stream' = IF novel THEN [s \in Streams |-> AcceptIn(stream[s], t, s)] ELSE stream
      /\ agg' = IF novel THEN [seen |-> agg.seen \cup {t.id}, latest |-> Max({agg.latest, t.time})] ELSE agg
      /\ feed' = [feed EXCEPT !.confirmed = @ \/ (taken /\ feed.on)]
      /\ sent' = [sent EXCEPT !.heard = IF novel /\ handling.conn = feed.breaks THEN @ \cup {t} ELSE @]
      /\ handling' = NoTrade /\ clock' = clock
  BY <1>2, <1>4, <1>5 DEF AcceptTrade
<1>7. /\ feed'.on = feed.on /\ feed'.epoch = feed.epoch /\ feed'.bound = feed.bound /\ feed'.session = feed.session
      /\ feed'.confirmed = (feed.confirmed \/ (taken /\ feed.on)) /\ DOMAIN feed' = DOMAIN feed /\ feed'.confirmed \in BOOLEAN
  BY <1>1, <1>5, <1>6
<1>8. PICK told \in SUBSET MarketTrades : told = sent'.heard /\ DOMAIN sent' = DOMAIN sent
                                            /\ sent.heard \subseteq told /\ told \subseteq sent.heard \cup {t}
                                            /\ (~novel => told = sent.heard)
  BY <1>1, <1>6
<1>9. Feeding' /\ Handled'
  <2>1. Feeding'
    BY <1>1, <1>6, <1>7, <1>8 DEF Feeding
  <2>2. QED
    BY <1>6, <2>1 DEF Handled
<1>10. ASSUME NEW s \in Streams PROVE StreamOk(stream'[s], s, feed', clock, agg'.seen) /\ StreamFresh(stream'[s], s, feed', told)
  <2>1. PICK r : r = stream[s]
    OBVIOUS
  <2>2. PICK ids : ids = agg.seen
    OBVIOUS
  <2>3. StreamOk(r, s, feed, clock, ids) /\ StreamFresh(r, s, feed, sent.heard) /\ (r.open = None \/ r.open.time + Step(s) > t.time)
    BY <1>3, <2>1, <2>2 DEF CandlesInv
  <2>4. PICK f : f = feed'
    OBVIOUS
  <2>5. f.on = feed.on /\ f.epoch = feed.epoch /\ f.bound = feed.bound /\ (feed.confirmed => f.confirmed)
    BY <1>7, <2>4
  <2>6. CASE novel
    <3>1. t.id \notin ids /\ (Takes(r, t, s) /\ f.on => f.confirmed)
      BY <1>4, <1>5, <1>7, <2>1, <2>2, <2>4, <2>6
    <3>2. PICK p : p = AcceptIn(r, t, s)
      OBVIOUS
    <3>3. StreamOk(p, s, f, clock, ids \cup {t.id})
      BY <1>1, <1>2, <2>3, <2>5, <3>1, <3>2, AcceptOk
    <3>4. stream'[s] = p /\ agg'.seen = ids \cup {t.id}
      BY <1>6, <2>1, <2>2, <2>6, <3>2
    <3>5. /\ p.final = r.final /\ r.took \subseteq p.took
          /\ ~Takes(r, t, s) => p = r
          /\ Takes(r, t, s) =>
               /\ t \in p.took /\ p.open # None /\ p.open.time = Floor(t.time, Step(s))
               /\ r.open # None => r.open.time = Floor(t.time, Step(s))
      BY <1>1, <2>3, <3>2, AcceptDoes
    <3>6. PICK step \in {2, 4} : step = Step(s)
      BY TradesTyped
    <3>7. PICK b \in Int : b = Floor(t.time, step) /\ b <= t.time /\ b >= 0
      <4>1. t.time \in Int /\ t.time \in Nat
        BY TradesTyped
      <4>2. Floor(t.time, step) >= 0
        <5>1. CASE step = 2
          BY <4>1, <5>1 DEF Floor
        <5>2. CASE step = 4
          BY <4>1, <5>2 DEF Floor
        <5>3. QED
          BY <5>1, <5>2
      <4>3. QED
        BY <4>1, <4>2, FloorIs
    <3>8. OpenIsFresh(p, f)
      <4>1. CASE ~Takes(r, t, s)
        BY <2>3, <2>5, <3>5, <4>1 DEF StreamFresh, OpenIsFresh
      <4>2. CASE Takes(r, t, s)
        <5>1. p.open.time = b
          BY <3>5, <3>6, <3>7, <4>2
        <5>2. t.time <= feed.epoch => b <= feed.epoch
          <6>1. t.time \in Int
            BY TradesTyped
          <6>2. QED
            BY <1>1, <3>7, <6>1
        <5>3. t.time >= StartsAt => b >= Ceil(feed.epoch, 4)
          <6>1. t.time \in Int
            BY TradesTyped
          <6>2. QED
            BY <1>1, <3>7, <6>1, StartsOnBucket DEF StartsAt
        <5>4. QED
          BY <1>3, <2>5, <5>1, <5>2, <5>3 DEF OpenIsFresh
      <4>3. QED
        BY <4>1, <4>2
    <3>9. HeardIsTaken(p, s, told)
      <4>1. ASSUME NEW u \in told, Value(u, s) > 0
            PROVE  \/ u \in p.took \/ Floor(u.time, Step(s)) <= p.final
                   \/ p.open # None /\ Floor(u.time, Step(s)) < p.open.time
        <5>1. CASE u \in sent.heard
          <6>1. \/ u \in r.took \/ Floor(u.time, Step(s)) <= r.final
                \/ r.open # None /\ Floor(u.time, Step(s)) < r.open.time
            BY <2>3, <4>1, <5>1 DEF StreamFresh, HeardIsTaken
          <6>2. r.open # None => p.open # None /\ p.open.time = r.open.time
            BY <3>5
          <6>3. QED
            BY <3>5, <6>1, <6>2
        <5>2. CASE u = t /\ Takes(r, t, s)
          BY <3>5, <5>2
        <5>3. CASE u = t /\ ~Takes(r, t, s)
          <6>1. ~(b > r.final) \/ ~(r.open.time <= b)
            BY <3>6, <3>7, <4>1, <5>3 DEF Takes
          <6>2. r.final \in Int /\ (r.open # None => r.open.time \in Int)
            BY <2>3, StreamFacts DEF StreamOk
          <6>3. ~(r.open.time <= b) => r.open # None
            BY <3>7 DEF None
          <6>4. b <= r.final \/ (r.open # None /\ b < r.open.time)
            BY <3>7, <6>1, <6>2, <6>3
          <6>5. QED
            BY <3>5, <3>6, <3>7, <5>3, <6>4
        <5>4. QED
          BY <1>8, <4>1, <5>1, <5>2, <5>3
      <4>2. QED
        BY <4>1 DEF HeardIsTaken
    <3>10. QED
      BY <2>4, <3>3, <3>4, <3>8, <3>9 DEF StreamFresh
  <2>7. CASE ~novel
    <3>1. stream'[s] = r /\ agg'.seen = ids /\ told = sent.heard
      BY <1>6, <1>8, <2>1, <2>2, <2>7
    <3>2. PICK c \in Int : c = clock
      BY <1>1
    <3>3. StreamOk(r, s, f, c, ids)
      <4>1. PICK g : g = feed
        OBVIOUS
      <4>2. StreamOk(r, s, g, c, ids) /\ c <= c /\ ids \subseteq ids
        BY <2>3, <3>2, <4>1
      <4>3. f.on = g.on /\ f.bound = g.bound /\ (g.confirmed => f.confirmed)
        BY <2>5, <4>1
      <4>4. QED
        BY ONLY s \in Streams, <3>2, <4>2, <4>3, StreamStays
    <3>4. StreamFresh(r, s, f, told)
      BY <2>3, <2>5, <3>1 DEF StreamFresh, OpenIsFresh, HeardIsTaken
    <3>5. QED
      BY <2>4, <3>1, <3>2, <3>3, <3>4
  <2>8. QED
    BY <2>6, <2>7
<1>11. QED
  BY <1>6, <1>8, <1>9, <1>10 DEF CandlesInv

LEMMA CandlesInvStep == CandlesInv /\ [CandlesNext]_cvars => CandlesInv'
<1> SUFFICES ASSUME CandlesInv, [CandlesNext]_cvars PROVE CandlesInv'
  OBVIOUS
<1>2. /\ Feeding /\ Handled
      /\ \A s \in Streams : StreamOk(stream[s], s, feed, clock, agg.seen) /\ StreamFresh(stream[s], s, feed, sent.heard)
  BY DEF CandlesInv
<1>3. /\ feed.on \in BOOLEAN /\ feed.confirmed \in BOOLEAN /\ feed.epoch \in Nat /\ feed.bound \in Nat /\ clock \in Nat \ {0}
      /\ DOMAIN feed = {"session", "on", "confirmed", "epoch", "bound", "breaks"} /\ DOMAIN stream = Streams
      /\ feed.epoch <= clock /\ feed.bound <= clock /\ DOMAIN agg = {"seen", "latest"}
      /\ DOMAIN sent = {"once", "repeats", "heard"} /\ sent.heard \in SUBSET MarketTrades
      /\ (feed.on => feed.session)
  BY <1>2 DEF Feeding
<1>12. handling # NoTrade => handling.trade.time \in Int /\ handling.trade.time <= clock
  BY <1>2, TradesTyped DEF Handled
<1>4. CASE TimePasses
  <2>1. clock' = clock + 1 /\ UNCHANGED <<sent, handling, feed, agg, stream>>
    BY <1>4 DEF TimePasses
  <2>2. Feeding' /\ Handled'
    <3>1. Feeding'
      BY <1>2, <1>3, <2>1 DEF Feeding
    <3>2. handling # NoTrade => handling.trade.time <= clock + 1
      BY <1>3, <1>12
    <3>3. StartsAt' = StartsAt
      BY <2>1 DEF StartsAt
    <3>4. QED
      BY <1>2, <2>1, <3>1, <3>2, <3>3 DEF Handled
  <2>3. ASSUME NEW s \in Streams PROVE StreamOk(stream[s], s, feed, clock + 1, agg.seen)
    <3>1. PICK c \in Int, d \in Int : c = clock /\ d = clock + 1
      BY <1>3
    <3>2. PICK f, ids, r : f = feed /\ ids = agg.seen /\ r = stream[s]
      OBVIOUS
    <3>3. StreamOk(r, s, f, c, ids) /\ c <= d
      BY <1>2, <1>3, <3>1, <3>2
    <3>4. f.on = f.on /\ f.bound = f.bound /\ (f.confirmed => f.confirmed) /\ ids \subseteq ids
      OBVIOUS
    <3>5. StreamOk(r, s, f, d, ids)
      BY ONLY s \in Streams, <3>1, <3>3, <3>4, StreamStays
    <3>6. QED
      BY <3>1, <3>2, <3>5
  <2>4. QED
    BY <1>2, <2>1, <2>2, <2>3 DEF CandlesInv
<1>5. CASE FlushTimer
  <2>1. /\ stream' = [s \in Streams |-> Flush(stream[s], s, clock)] /\ handling = NoTrade
        /\ UNCHANGED <<clock, sent, handling, feed, agg>>
    BY <1>5 DEF FlushTimer
  <2>2. Feeding' /\ Handled'
    BY <1>2, <2>1 DEF Feeding, Handled
  <2>3. ASSUME NEW s \in Streams
        PROVE  StreamOk(stream'[s], s, feed, clock, agg.seen) /\ StreamFresh(stream'[s], s, feed, sent.heard)
    <3>1. clock \in Int /\ clock <= clock /\ stream'[s] = Flush(stream[s], s, clock)
      BY <1>3, <2>1
    <3>2. QED
      BY <3>1, FlushKeeps
  <2>4. QED
    BY <2>1, <2>2, <2>3 DEF CandlesInv
<1>6. ASSUME NEW t \in MarketTrades, OnTrade(t) PROVE CandlesInv'
  BY <1>6, OnTradeKeeps
<1>13. CASE AcceptTrade
  BY <1>13, AcceptKeeps
<1>14. CASE FlushThrows
  <2>1. handling' = NoTrade /\ UNCHANGED <<clock, sent, feed, agg, stream>>
    BY <1>14 DEF FlushThrows
  <2>2. Feeding' /\ Handled'
    BY <1>2, <2>1 DEF Feeding, Handled
  <2>3. QED
    BY <1>2, <2>1, <2>2 DEF CandlesInv
<1>7. CASE Interrupt
  <2>1. /\ feed' = [session |-> FALSE, on |-> FALSE, confirmed |-> FALSE, epoch |-> clock, bound |-> clock,
                    breaks |-> feed.breaks + 1]
        /\ stream' = [s \in Streams |-> [Discard(stream[s]) EXCEPT !.mark = -1]]
        /\ sent' = [sent EXCEPT !.heard = {}]
        /\ UNCHANGED <<clock, handling, agg>>
    BY <1>7 DEF Interrupt
  <2>2. DOMAIN sent' = DOMAIN sent /\ sent'.heard = {}
    BY <1>3, <2>1
  <2>3. ASSUME NEW s \in Streams PROVE StreamOk(stream'[s], s, feed', clock, agg.seen) /\ stream'[s].open = None
    <3>1. PICK g : g = feed' /\ ~g.on
      BY <2>1
    <3>2. PICK c \in Int : c = clock
      BY <1>3
    <3>3. PICK r, f, ids : r = stream[s] /\ f = feed /\ ids = agg.seen
      OBVIOUS
    <3>4. StreamOk(r, s, f, c, ids)
      BY <1>2, <3>2, <3>3
    <3>5. StreamOk([Discard(r) EXCEPT !.mark = -1], s, g, c, ids)
      BY ONLY s \in Streams, <3>1, <3>2, <3>4, DiscardOk
    <3>6. [Discard(r) EXCEPT !.mark = -1].open = None
      <4>1. DOMAIN r = StreamFields
        BY <3>4 DEF StreamOk, StreamTyped
      <4>2. QED
        BY <4>1 DEF Discard, StreamFields
    <3>7. QED
      BY <2>1, <3>1, <3>2, <3>3, <3>5, <3>6
  <2>4. Feeding' /\ Handled'
    <3>1. Feeding'
      BY <1>2, <1>3, <2>1, <2>2 DEF Feeding
    <3>2. QED
      BY <1>2, <2>1, <2>3, <3>1 DEF Handled
  <2>5. ASSUME NEW s \in Streams PROVE StreamFresh(stream'[s], s, feed', sent'.heard)
    BY <2>2, <2>3 DEF StreamFresh, OpenIsFresh, HeardIsTaken
  <2>6. QED
    BY <2>1, <2>3, <2>4, <2>5 DEF CandlesInv
<1>8. CASE Ready
  <2>1. /\ ~feed.session /\ feed' = [feed EXCEPT !.session = TRUE, !.epoch = clock]
        /\ UNCHANGED <<clock, sent, handling, agg, stream>>
    BY <1>8 DEF Ready
  <2>2. /\ ~feed.on /\ feed'.on = feed.on /\ feed'.bound = feed.bound /\ feed'.confirmed = feed.confirmed
        /\ feed'.epoch = clock /\ feed'.session = TRUE /\ DOMAIN feed' = DOMAIN feed
    BY <1>3, <2>1
  <2>3. Feeding' /\ Handled'
    <3>1. Feeding'
      BY <1>2, <1>3, <2>1, <2>2 DEF Feeding
    <3>2. QED
      BY <1>2, <2>1, <2>2, <3>1 DEF Handled
  <2>4. ASSUME NEW s \in Streams PROVE StreamOk(stream[s], s, feed', clock, agg.seen) /\ StreamFresh(stream[s], s, feed', sent.heard)
    <3>1. PICK g : g = feed'
      OBVIOUS
    <3>2. PICK c \in Int : c = clock
      BY <1>3
    <3>3. PICK r, f, ids : r = stream[s] /\ f = feed /\ ids = agg.seen
      OBVIOUS
    <3>4. StreamOk(r, s, f, c, ids) /\ c <= c /\ ids \subseteq ids
      BY <1>2, <3>2, <3>3
    <3>5. g.on = f.on /\ g.bound = f.bound /\ (f.confirmed => g.confirmed)
      BY <2>2, <3>1, <3>3
    <3>6. StreamOk(r, s, g, c, ids)
      BY ONLY s \in Streams, <3>2, <3>4, <3>5, StreamStays
    <3>7. r.open # None => r.open.time <= c
      BY <3>4 DEF StreamOk, LastIsClosed
    <3>8. StreamFresh(r, s, g, sent.heard)
      BY <1>2, <2>2, <3>1, <3>2, <3>3, <3>7 DEF StreamFresh, OpenIsFresh, HeardIsTaken
    <3>9. QED
      BY <3>1, <3>2, <3>3, <3>6, <3>8
  <2>5. QED
    BY <2>1, <2>3, <2>4 DEF CandlesInv
<1>15. CASE Connect
  <2>1. /\ handling = NoTrade /\ feed.session /\ ~feed.on /\ feed' = [feed EXCEPT !.on = TRUE, !.bound = clock]
        /\ UNCHANGED <<clock, sent, handling, agg, stream>>
    BY <1>15 DEF Connect
  <2>2. /\ feed'.on = TRUE /\ feed'.bound = clock /\ feed'.confirmed = feed.confirmed
        /\ feed'.epoch = feed.epoch /\ feed'.session = feed.session /\ DOMAIN feed' = DOMAIN feed
    BY <1>3, <2>1
  <2>3. Feeding' /\ Handled'
    <3>1. Feeding'
      BY <1>2, <1>3, <2>1, <2>2 DEF Feeding
    <3>2. QED
      BY <2>1, <3>1 DEF Handled
  <2>4. ASSUME NEW s \in Streams PROVE StreamOk(stream[s], s, feed', clock, agg.seen) /\ StreamFresh(stream[s], s, feed', sent.heard)
    <3>1. PICK g : g = feed'
      OBVIOUS
    <3>2. PICK c \in Int : c = clock
      BY <1>3
    <3>3. PICK r, f, ids : r = stream[s] /\ f = feed /\ ids = agg.seen
      OBVIOUS
    <3>4. StreamOk(r, s, f, c, ids) /\ ~f.on /\ f.bound \in Int /\ g.bound \in Int /\ f.bound <= g.bound
      BY <1>2, <1>3, <2>1, <2>2, <3>1, <3>2, <3>3
    <3>5. StreamOk(r, s, g, c, ids)
      BY ONLY s \in Streams, <3>2, <3>4, ConnectOk
    <3>6. StreamFresh(r, s, g, sent.heard)
      BY <1>2, <2>1, <2>2, <3>1, <3>3 DEF StreamFresh, OpenIsFresh, HeardIsTaken
    <3>7. QED
      BY <3>1, <3>2, <3>3, <3>5, <3>6
  <2>5. QED
    BY <2>1, <2>3, <2>4 DEF CandlesInv
<1>9. CASE Recovered
  <2>1. /\ handling = NoTrade /\ feed.on /\ \A s \in Streams : stream[s].mark = -1
        /\ stream' = [s \in Streams |->
             LET r == MarkClosed(Seeded(stream[s], s), s, clock)
             IN [r EXCEPT !.mark = Len(r.out), !.base = r.last]]
        /\ feed' = [feed EXCEPT !.bound = clock] /\ UNCHANGED <<clock, sent, handling, agg>>
    BY <1>9 DEF Recovered
  <2>2. /\ feed'.on = feed.on /\ feed'.confirmed = feed.confirmed /\ feed'.epoch = feed.epoch /\ feed'.bound = clock
        /\ feed'.session = feed.session /\ DOMAIN feed' = DOMAIN feed
    BY <1>3, <2>1
  <2>3. Feeding' /\ Handled'
    <3>1. DOMAIN stream' = Streams /\ clock' = clock /\ sent' = sent /\ agg' = agg
      BY <2>1
    <3>2. Feeding'
      BY ONLY <1>2, <1>3, <2>2, <3>1 DEF Feeding
    <3>3. QED
      BY <2>1, <3>2 DEF Handled
  <2>4. ASSUME NEW s \in Streams
        PROVE  StreamOk(stream'[s], s, feed', clock, agg.seen) /\ StreamFresh(stream'[s], s, feed', sent.heard)
    <3>1. PICK f, g, told : f = feed' /\ g = feed /\ told = sent.heard
      OBVIOUS
    <3>2. f.on /\ (feed.confirmed => f.confirmed) /\ f.epoch = g.epoch /\ f.bound = clock
      BY <1>3, <2>1, <2>2, <3>1
    <3>3. PICK r : r = stream[s] /\ r.mark = -1
      BY <2>1
    <3>4. PICK m : m = MarkClosed(Seeded(r, s), s, clock)
      OBVIOUS
    <3>5. PICK p : p = [m EXCEPT !.mark = Len(m.out), !.base = m.last]
      OBVIOUS
    <3>6. stream'[s] = p
      BY <2>1, <3>3, <3>4, <3>5
    <3>7. HistoryClose \in Nat
      BY CandlesAssumption
    <3>8. StreamOk(r, s, feed, clock, agg.seen) /\ StreamFresh(r, s, g, told) /\ told \in SUBSET MarketTrades
      BY <1>2, <1>3, <3>1, <3>3
    <3>9. StreamOk(p, s, f, clock, agg.seen) /\ ClosedFurther(r, p)
      BY <1>2, <2>1, <3>2, <3>3, <3>4, <3>5, <3>7, <3>8, RecoveredOk
    <3>10. StreamTyped(r) /\ StreamTyped(p) /\ (g.on => f.on)
      BY <3>2, <3>8, <3>9 DEF StreamOk
    <3>11. StreamFresh(p, s, f, told)
      BY ONLY s \in Streams, <3>2, <3>8, <3>9, <3>10, FreshStays
    <3>12. QED
      BY <3>1, <3>6, <3>9, <3>11
  <2>5. QED
    BY <2>1, <2>3, <2>4 DEF CandlesInv
<1>10. CASE UNCHANGED cvars
  <2>1. UNCHANGED <<clock, sent, handling, feed, agg, stream>>
    BY <1>10 DEF cvars
  <2>2. Feeding' /\ Handled'
    BY <1>2, <2>1 DEF Feeding, Handled, StartsAt
  <2>3. QED
    BY <1>2, <2>1, <2>2 DEF CandlesInv
<1>11. QED
  BY <1>4, <1>5, <1>6, <1>7, <1>8, <1>9, <1>10, <1>13, <1>14, <1>15 DEF CandlesNext

LEMMA CandlesInvAgrees == CandlesInv => BarsAgree
<1> SUFFICES ASSUME CandlesInv PROVE BarsAgree
  OBVIOUS
<1>2. \A s \in Streams : StreamOk(stream[s], s, feed, clock, agg.seen)
  BY DEF CandlesInv
<1>3. BarsInOrder
  BY <1>2 DEF StreamOk, OutIsPast, BarsInOrder
<1>4. WholeBuckets
  <2>1. ASSUME NEW s \in Streams, stream[s].open # None, stream[s].open.time > feed.epoch
        PROVE  /\ stream[s].open.time >= StartsAt
               /\ {t \in sent.heard : Value(t, s) > 0 /\ Floor(t.time, Step(s)) = stream[s].open.time} \subseteq stream[s].took
    <3>1. PICK r : r = stream[s]
      OBVIOUS
    <3>2. StreamOk(r, s, feed, clock, agg.seen) /\ StreamFresh(r, s, feed, sent.heard) /\ feed.epoch \in Nat
      BY <3>1 DEF CandlesInv, Feeding
    <3>3. PICK o \in Int : o = r.open.time /\ o > r.final /\ o > feed.epoch
      BY <2>1, <3>1, <3>2, StreamFacts DEF StreamOk, OpenIsMade
    <3>4. o >= StartsAt
      BY <2>1, <3>1, <3>2, <3>3 DEF StreamFresh, OpenIsFresh, StartsAt
    <3>5. r.final \in Int
      BY <3>2, StreamFacts DEF StreamOk
    <3>6. ASSUME NEW t \in sent.heard, Value(t, s) > 0, Floor(t.time, Step(s)) = o PROVE t \in r.took
      BY <3>2, <3>3, <3>5, <3>6 DEF StreamFresh, HeardIsTaken
    <3>7. QED
      BY <3>1, <3>3, <3>4, <3>6
  <2>2. QED
    BY <2>1 DEF WholeBuckets
<1>5. BarsAreTheirTrades
  <2>1. ASSUME NEW s \in Streams, stream[s].open # None
        PROVE  Closed(stream[s].open) = Summary({t \in stream[s].took : Floor(t.time, Step(s)) = stream[s].open.time}, s, stream[s].open.time)
    <3>1. PICK r : r = stream[s]
      OBVIOUS
    <3>2. StreamOk(r, s, feed, clock, agg.seen) /\ r.open # None
      BY <1>2, <2>1, <3>1
    <3>3. PICK b \in OpenBar : b = r.open
      BY <3>2 DEF StreamOk, StreamTyped
    <3>4. PICK S : S = {t \in r.took : Floor(t.time, Step(s)) = b.time}
      OBVIOUS
    <3>5. S \in SUBSET MarketTrades
      BY <3>2, <3>4 DEF StreamOk, StreamTyped
    <3>6. MadeOf(b, S, s)
      BY <3>2, <3>3, <3>4 DEF StreamOk, OpenIsMade, InBucket
    <3>7. Closed(b) = Summary(S, s, b.time)
      BY <3>5, <3>6, MadeIsSummary
    <3>8. QED
      BY <3>1, <3>3, <3>4, <3>7
  <2>2. QED
    BY <2>1 DEF BarsAreTheirTrades
<1>6. FillsAgree
  <2>1. ASSUME NEW s \in Streams, stream[s].mark >= 0, Step(s) = RunInterval, NEW E, E = Emitted(stream[s])
        PROVE  SubSeq(E, 1, Max({0} \cup {i \in DOMAIN E : ~E[i].synthetic}))
                 = Tail(NormalizeCandles(<<stream[s].base>> \o Traded(E), Step(s)))
    <3>1. PICK step \in {2, 4} : step = Step(s)
      BY TradesTyped
    <3>2. PICK r : r = stream[s]
      OBVIOUS
    <3>3. StreamOk(r, s, feed, clock, agg.seen)
      BY <1>2, <3>2
    <3>4. r.mark \in 0 .. Len(r.out) /\ r.out \in Seq(Candle)
      BY <2>1, <3>2, <3>3 DEF StreamOk, FlatsFollow, StreamTyped
    <3>5. AfterMark(r, s)
      BY <2>1, <3>2, <3>4 DEF AfterMark
    <3>6. PICK base \in Candle : base = r.base
      BY <3>3, <3>5 DEF StreamOk, FlatsFollow
    <3>7. PICK k \in 0 .. Len(r.out) : Chained(base, E, r.last, k, step)
      BY <2>1, <3>1, <3>2, <3>3, <3>5, <3>6 DEF StreamOk, FlatsFollow
    <3>8. PICK n \in Nat : n = k
      OBVIOUS
    <3>9. PICK D \in Seq(Candle) : D = E
      <4>1. PICK R \in Seq(Candle) : R = r.out
        BY <3>4
      <4>2. SubSeq(R, r.mark + 1, Len(R)) \in Seq(Candle)
        BY <3>4, <4>1, PartIs
      <4>3. QED
        BY <2>1, <3>2, <4>1, <4>2 DEF Emitted
    <3>10. Chained(base, D, r.last, n, step)
      BY <3>7, <3>8, <3>9
    <3>11. SubSeq(D, 1, Max({0} \cup {i \in DOMAIN D : ~D[i].synthetic})) = Tail(Derived(base, D, step))
      BY <3>10, ChainedAgrees
    <3>12. QED
      BY <3>1, <3>2, <3>6, <3>9, <3>11 DEF Derived
  <2>2. QED
    BY <2>1 DEF FillsAgree, Emitted
<1>7. QED
  BY <1>3, <1>4, <1>5, <1>6 DEF BarsAgree

\* The inductive invariant of the candle aggregation: what a stream has closed, filled and emitted,
\* and what may happen to the feed while onTrade, its epoch check behind it, waits for flushBars.
THEOREM CandlesInductive == CandlesSpec => []CandlesInv
  BY CandlesInvInit, CandlesInvStep, PTL DEF CandlesSpec

\* Closed bars come in order and once, each is the summary of the trades it took; one that begins after
\* the subscription was confirmed misses no trade of its bucket that the aggregator heard of on it, also
\* when an interruption falls between the check of a trade and its acceptance; and the live flat bars are
\* those a backtest derives.
THEOREM BarsAlwaysAgree == CandlesSpec => []BarsAgree
  BY CandlesInductive, CandlesInvAgrees, PTL
=============================================================================
