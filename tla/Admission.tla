------------------------------ MODULE Admission ------------------------------
(* How a live run admits tokens that signals bring, watches a bounded number   *)
(* of them, and lets them go when their market cap falls.  A signal waits for  *)
(* a lookup before it joins the worker's queue of jobs; the HTTP API changes   *)
(* the run at any time; market caps arrive as trades and as rechecks.  One run *)
(* is modelled: the code does the same for each.  The age and KOL conditions   *)
(* of a source are one fact of the signal, `fit`.                              *)
EXTENDS Integers, FiniteSets, FiniteSetsExt

CONSTANTS
  Scenes,           \* bounds: [signals, changes], the signals that may arise and how
                    \* often users change the run or the worker dies
  FirstRules,       \* what the run starts with: provider -> [enabled, min, exit]
  RuleSets,         \* what a user may set
  Caps,             \* market caps
  Limit,            \* LIVE_CA_LIMIT, 20 in the code
  Modes, Times,     \* "paper" or "live"; when a source may be switched on
  MaxAdmitted       \* bound: the admissions

AllSignals == UNION {x.signals : x \in Scenes}
Providers == DOMAIN FirstRules
RuleTables == [Providers -> [enabled : BOOLEAN, min : Nat, exit : Nat \ {0}]]

(* What normalizeProjectSources lets pass, and no token is called as the marks *)
(* below are.  Market caps are only compared.                                  *)
ASSUME RulesAssumption == RuleSets \cup {FirstRules} \subseteq RuleTables
ASSUME SignalsAssumption == \A s \in AllSignals : s.provider \in Providers /\ s.ca \notin {"none", "all"}
ASSUME AdmissionAssumption == Limit \in Nat /\ Caps \subseteq Nat /\ Times \subseteq Nat

VARIABLES
  run,      \* the row of live_runs: [status, started, rules, activated]
  mode,     \* of Modes
  watch,    \* the rows of live_watches, per token
  orders,   \* per token: the order that is outstanding, or "none"
  held,     \* tokens of which the strategy holds a position
  view,     \* sourceRuns: the run as the last refresh read it
  ctx,      \* the contexts in memory, per token
  latest,   \* latestCaps: the cap of the last trade, and whether it is recent
  flight,   \* per signal that arises: where its delivery stands
  job,      \* the signal that onSignal is working on, Refreshing or NoSignal
  check,    \* a recheck of a market cap that waits in the queue
  changes,  \* how many changes are still to come
  heard     \* history: the newest cap of the token, by trade, recheck or admission
avars == <<run, mode, watch, orders, held, view, ctx, latest, flight, job, check, changes, heard>>

CAs == {s.ca : s \in AllSignals}
Signals == DOMAIN flight
NoSignal == [ca |-> "none"]
Refreshing == [ca |-> "all"]     \* onSignal has committed and refreshes
NoWatch == [status |-> "none", gen |-> 0, key |-> NoSignal, matched |-> {}, exit |-> 0, exitOnly |-> FALSE]
NoCtx == [exit |-> 0, exitOnly |-> FALSE]
Nowhere == [at |-> "none", cap |-> 0]
NoCheck == [ca |-> "none", cap |-> 0, overtaken |-> FALSE, same |-> TRUE]
\* Mutant: a watch that waits for its position to close takes no place.
Active_Monitoring == {"monitoring"}
Active == {"monitoring", "pending_eviction"}   \* recovering counts as monitoring here
Later(x, y) == IF x < y THEN y ELSE x

(* acceptsDiscovery: the source is on, and was when the signal arose.          *)
Accepts(r, s) ==
  /\ r.rules[s.provider].enabled
  /\ s.time > Later(r.started, r.activated[s.provider])
(* qualifiesSource                                                             *)
Qualifies(rule, s, cap) ==
  /\ rule.enabled /\ cap > 0
  /\ IF s.provider = "memeinfo" THEN cap >= rule.min ELSE cap > rule.min /\ s.fit
EffectiveExit(rules, matched) == Min({rules[p].exit : p \in matched})

Watched == {t \in CAs : watch[t].status \in Active}
CanMonitor(active, existing) == existing \/ active < Limit
Room(t) == CanMonitor(Cardinality(Watched), t \in Watched)

AdmissionInit ==
  /\ run = [status |-> "running", started |-> 1, rules |-> FirstRules, activated |-> [p \in DOMAIN FirstRules |-> 0]]
  /\ mode \in Modes /\ view = run
  /\ watch = [t \in CAs |-> NoWatch] /\ orders = [t \in CAs |-> "none"] /\ held = {}
  /\ ctx = [t \in CAs |-> NoCtx] /\ latest = [t \in CAs |-> [cap |-> 0, recent |-> FALSE]]
  /\ \E x \in Scenes : flight = [s \in x.signals |-> Nowhere] /\ changes = x.changes
  /\ job = NoSignal /\ check = NoCheck
  /\ heard = [t \in CAs |-> 0]

(* -------------------------------- the API --------------------------------- *)
API ==
  /\ changes > 0 /\ changes' = changes - 1
  /\ UNCHANGED <<mode, watch, orders, held, view, ctx, latest, flight, job, check, heard>>
StartRun == run.status = "paused" /\ run' = [run EXCEPT !.status = "running"] /\ API
PauseRun == run.status = "running" /\ run' = [run EXCEPT !.status = "paused"] /\ API
StopRun == run.status # "stopped" /\ run' = [run EXCEPT !.status = "stopped"] /\ API
SetRules ==
  /\ run.status \in {"running", "paused"}
  /\ \E rs \in RuleSets, at \in Times :
       run' = [run EXCEPT !.rules = rs,
                 !.activated = [p \in DOMAIN rs |-> IF rs[p].enabled /\ ~run.rules[p].enabled THEN at ELSE @[p]]]
  /\ API

(* ------------------------------ a delivery -------------------------------- *)
Move(s, place) == flight' = [flight EXCEPT ![s] = place]
(* receiveDiscovery, before its lookup: by the runs as the worker knows them.  *)
Deliver(s) ==
  /\ flight[s] = Nowhere
  /\ view.status = "running" /\ Accepts(view, s) /\ Room(s.ca)
  /\ Move(s, [at |-> "lookup", cap |-> 0])
  /\ UNCHANGED <<run, mode, watch, orders, held, view, ctx, latest, job, check, heard, changes>>
(* The lookup answers with a cap of now or of the last minute, or fails; the   *)
(* cap of a recent trade goes before it.                                       *)
LookedUp(s) ==
  /\ flight[s].at = "lookup"
  /\ \/ \E c \in Caps : LET cap == IF latest[s.ca].recent THEN latest[s.ca].cap ELSE c IN
          /\ Move(s, [at |-> "queued", cap |-> cap])
          /\ heard' = IF ctx[s.ca] = NoCtx THEN [heard EXCEPT ![s.ca] = cap] ELSE heard
     \/ Move(s, Nowhere) /\ UNCHANGED heard
  /\ UNCHANGED <<run, mode, watch, orders, held, view, ctx, latest, job, check, changes>>
(* onSignal, up to its transaction.                                            *)
Begin(s) ==
  /\ job = NoSignal /\ flight[s].at = "queued"
  /\ IF run.status = "running" /\ Accepts(run, s) /\ Room(s.ca)
     THEN job' = s /\ UNCHANGED flight ELSE Move(s, Nowhere) /\ UNCHANGED job
  /\ UNCHANGED <<run, mode, watch, orders, held, view, ctx, latest, check, heard, changes>>

(* Its transaction, the run's row locked: accept again, join the watch there   *)
(* is, or admit the token if there is room and the signal is new to it.        *)
Taken(s) == run.status = "running" /\ Accepts(run, s) /\ Qualifies(run.rules[s.provider], s, flight[s].cap)
Seen(s) == s.provider = "xxyy" /\ watch[s.ca].status \in Active /\ "xxyy" \in watch[s.ca].matched
Joined(w, s) ==
  LET all == w.matched \cup {s.provider} IN [w EXCEPT !.matched = all, !.exit = EffectiveExit(run.rules, all)]
Admitted(w, s) ==
  [status |-> "monitoring", gen |-> w.gen + 1, key |-> s, matched |-> {s.provider},
   exit |-> EffectiveExit(run.rules, {s.provider}), exitOnly |-> FALSE]
Admits(s) == watch[s.ca].status \notin Active /\ CanMonitor(Cardinality(Watched), FALSE) /\ watch[s.ca].key # s
Admit ==
  /\ job \in Signals /\ MapThenSumSet(LAMBDA t : watch[t].gen, CAs) < MaxAdmitted
  /\ LET s == job t == job.ca IN
     IF ~Taken(s) \/ Seen(s) THEN UNCHANGED <<watch, held>>
     ELSE IF watch[t].status \in Active
     THEN watch' = [watch EXCEPT ![t] = Joined(@, s)] /\ UNCHANGED held
     ELSE IF Admits(s)
     THEN watch' = [watch EXCEPT ![t] = Admitted(@, s)] /\ held' = held \ {t}
     ELSE UNCHANGED <<watch, held>>
  /\ job' = IF Taken(job) /\ ~Seen(job) THEN Refreshing ELSE NoSignal
  /\ Move(job, Nowhere)
  /\ UNCHANGED <<run, mode, orders, view, ctx, latest, check, heard, changes>>
(* The transaction fails, or the refresh after it.                             *)
AdmitFails ==
  /\ job # NoSignal /\ job' = NoSignal
  /\ flight' = [s \in Signals |-> IF s = job THEN Nowhere ELSE flight[s]]
  /\ UNCHANGED <<run, mode, watch, orders, held, view, ctx, latest, check, heard, changes>>

(* ------------------------------ letting go -------------------------------- *)
(* evictOrRetain, of a set of tokens: what is held or ordered stays, only to   *)
(* be sold; a paper run takes back its buys first.                             *)
Kept(S) == [t \in CAs |-> IF t \in S /\ mode = "paper" /\ orders[t] = "buy" THEN "none" ELSE orders[t]]
\* Mutant: an outstanding order does not keep a token.
Retained_Position(t, os) == t \in held
Retained(t, os) == t \in held \/ os[t] # "none"
LetGo(ws, cs, S) ==
  /\ orders' = Kept(S)
  /\ watch' = [t \in CAs |-> IF t \notin S THEN ws[t] ELSE
       [ws[t] EXCEPT !.exitOnly = TRUE, !.status = IF Retained(t, Kept(S)) THEN "pending_eviction" ELSE "evicted_low_mcap"]]
  /\ ctx' = [t \in CAs |-> IF t \notin S THEN cs[t] ELSE IF Retained(t, Kept(S)) THEN [cs[t] EXCEPT !.exitOnly = TRUE] ELSE NoCtx]

(* A recheck belongs to the context it was started for, not to its successor.  *)
Followed(k) == IF k # NoCheck /\ ctx'[k.ca] = NoCtx THEN [k EXCEPT !.same = FALSE] ELSE k

(* onTrade, for the cap it brings                                              *)
Tick(t) ==
  /\ job = NoSignal /\ ctx[t] # NoCtx /\ view.status = "running"
  /\ \E c \in Caps :
       /\ latest' = [latest EXCEPT ![t] = [cap |-> c, recent |-> TRUE]]
       /\ heard' = [heard EXCEPT ![t] = c]
       /\ LetGo(watch, ctx, IF c < ctx[t].exit THEN {t} ELSE {})
  /\ check' = Followed(IF check.ca = t THEN [check EXCEPT !.overtaken = TRUE] ELSE check)
  /\ UNCHANGED <<run, mode, held, view, flight, job, changes>>
CapAges(t) ==
  /\ latest[t].recent /\ latest' = [latest EXCEPT ![t].recent = FALSE]
  /\ UNCHANGED <<run, mode, watch, orders, held, view, ctx, flight, job, check, heard, changes>>

(* recheckMarketCaps: the lookup, outside the queue, and its job.              *)
StartCheck(t) ==
  /\ check = NoCheck /\ ctx[t] # NoCtx
  /\ \E c \in Caps : LET cap == IF latest[t].recent THEN latest[t].cap ELSE c IN
       /\ check' = [ca |-> t, cap |-> cap, overtaken |-> FALSE, same |-> TRUE]
       /\ heard' = [heard EXCEPT ![t] = cap]
  /\ UNCHANGED <<run, mode, watch, orders, held, view, ctx, latest, flight, job, changes>>
\* Mutant: any context of the token will do.
Current_ByToken(k) == ctx[k.ca] # NoCtx
Current(k) == k.same
Newest(k) == IF k.overtaken THEN latest[k.ca].cap ELSE k.cap
ApplyCheck ==
  /\ job = NoSignal /\ check # NoCheck
  /\ LetGo(watch, ctx, IF Current(check) /\ Newest(check) < ctx[check.ca].exit THEN {check.ca} ELSE {})
  /\ check' = NoCheck
  /\ UNCHANGED <<run, mode, held, view, latest, flight, job, heard, changes>>

(* refresh: the contexts follow the rows and the rows the rules.               *)
Refresh ==
  /\ job \in {NoSignal, Refreshing} /\ job' = NoSignal
  /\ view' = run
  /\ LET on == run.status = "running"
         exits == [t \in CAs |-> IF on /\ t \in Watched THEN EffectiveExit(run.rules, watch[t].matched) ELSE watch[t].exit]
         rows == [t \in CAs |-> [watch[t] EXCEPT !.exit = exits[t]]]
         cs == [t \in CAs |-> IF on /\ t \in Watched THEN [exit |-> exits[t], exitOnly |-> watch[t].exitOnly] ELSE NoCtx]
         low == {t \in Watched : on /\ exits[t] # watch[t].exit /\ latest[t].recent /\ latest[t].cap < exits[t]}
         settled == {t \in Watched : on /\ watch[t].exitOnly /\ ~Retained(t, orders)}
     IN LetGo(rows, cs, low \cup settled)
  /\ check' = Followed(check)
  /\ UNCHANGED <<run, mode, held, latest, flight, heard, changes>>

(* --------------------- the strategy, as far as it matters ------------------ *)
TradeStep(t, o, o2, gain, loss) ==
  /\ job = NoSignal /\ ctx[t] # NoCtx /\ view.status = "running" /\ orders[t] = o /\ orders' = [orders EXCEPT ![t] = o2]
  /\ held' = (held \cup gain) \ loss
  /\ UNCHANGED <<run, mode, watch, view, ctx, latest, flight, job, check, heard, changes>>
Buy(t) == t \notin held /\ ~ctx[t].exitOnly /\ TradeStep(t, "none", "buy", {}, {})
Sell(t) == t \in held /\ TradeStep(t, "none", "sell", {}, {})
Filled(t) == TradeStep(t, "buy", "none", {t}, {})
Sold(t) == TradeStep(t, "sell", "none", {}, {t})
Unfilled(t) == orders[t] # "none" /\ TradeStep(t, orders[t], "none", {}, {})

(* The worker dies and starts again with what the database holds.              *)
RestartWorker ==
  /\ changes > 0 /\ changes' = changes - 1
  /\ view' = [view EXCEPT !.status = "paused"] /\ ctx' = [t \in CAs |-> NoCtx]
  /\ latest' = [t \in CAs |-> [cap |-> 0, recent |-> FALSE]]
  /\ flight' = [s \in Signals |-> Nowhere] /\ job' = NoSignal /\ check' = NoCheck
  /\ UNCHANGED <<run, mode, watch, orders, held, heard>>
AdmissionNext ==
  \/ StartRun \/ PauseRun \/ StopRun \/ SetRules \/ Admit \/ AdmitFails \/ ApplyCheck \/ Refresh \/ RestartWorker
  \/ \E s \in Signals : Deliver(s) \/ LookedUp(s) \/ Begin(s)
  \/ \E t \in CAs : Tick(t) \/ CapAges(t) \/ StartCheck(t)
  \/ \E t \in CAs : Buy(t) \/ Sell(t) \/ Filled(t) \/ Sold(t) \/ Unfilled(t)

(* However many deliveries wait for their lookups at once, the run never       *)
(* watches more tokens than the limit, those it only sells off included.       *)
CapacityHeld == Cardinality({t \in CAs : watch[t].status \notin {"none", "evicted_low_mcap"}}) <= Limit
(* A token with a position or an outstanding order is watched until both are   *)
(* settled, so that its exit is still looked after.                            *)
HeldIsWatched == \A t \in CAs : t \in held \/ orders[t] # "none" => t \in Watched
(* A token is let go only if the newest cap heard of it since its admission is *)
(* under its threshold (as it is, or as the worker last read it): no answer to *)
(* an older question does it.                                                  *)
EvictedOnLowCap ==
  [][\A t \in CAs : watch'[t].exitOnly /\ ~watch[t].exitOnly => heard'[t] < Later(ctx[t].exit, watch'[t].exit)]_avars
=============================================================================
