------------------------------ MODULE Datasets ------------------------------
(* What a backtest is made of: the tokens a user asked for, the pools that have *)
(* data, and for each token the time of its first signal, before which nothing  *)
(* is bought.  The user looks at a preview and submits later; the signals are   *)
(* read in two queries while the worker goes on recording new ones.             *)
EXTENDS Integers, FiniteSets, FiniteSetsExt

CONSTANTS
  Mints,       \* tokens (chain and CA)
  PoolsOf,     \* token -> its pools in meme_kline: [pair, from, to], to = 0 without a valid candle in range
  SignalTimes, \* of signals that arrive
  Recorded,    \* initial [events, info] of the database
  MaxSignals,  \* bound: signals that arrive
  MaxAsked     \* bound: previews and submissions
ASSUME TokensTyped ==
  /\ PoolsOf \in [Mints -> SUBSET [pair : STRING, from : Nat, to : Nat]]
  /\ SignalTimes \subseteq Nat \ {0}
(* The worker and the backfill write the events and the summary of a token in   *)
(* one transaction: a token with events has a summary, as early as any of them. *)
ASSUME RecordedIsSummarised ==
  \A r \in Recorded :
    /\ r.events \subseteq [ca : Mints, time : Nat] /\ r.info \in [Mints -> Nat]
    /\ \A e \in r.events : r.info[e.ca] # 0 /\ r.info[e.ca] <= e.time

VARIABLES
  signals,  \* token_signal_events: [ca, time]
  info,     \* token_info: token -> least signal_time, 0 for null
  preview,  \* what the user saw: the gates that the client sends back, or none
  request,  \* the submission under way
  backtests,\* runs: [asked, enabled, symbols, gates, external, excluded, late, status]
  arrived, asks
tvars == <<signals, info, preview, request, backtests, arrived, asks>>

Gate(ca, t) == [ca |-> ca, time |-> t]
NotAsked == [at |-> "none"]
SignalsOf(evs, ca) == {e.time : e \in {x \in evs : x.ca = ca}}
DatasetsInit ==
  /\ \E r \in Recorded : signals = r.events /\ info = r.info
  /\ preview = {} /\ request = NotAsked /\ backtests = {} /\ arrived = 0 /\ asks = 0

(* The worker admits a signal: event and summary in one transaction.            *)
RecordSignal ==
  /\ arrived < MaxSignals /\ arrived' = arrived + 1
  /\ \E ca \in Mints, t \in SignalTimes :
       /\ signals' = signals \cup {Gate(ca, t)}
       /\ info' = [info EXCEPT ![ca] = IF @ = 0 THEN t ELSE Min({@, t})]
  /\ UNCHANGED <<preview, request, backtests, asks>>

(* The earliest signal of a token by its events, or what token_info has.        *)
Earliest(cas, evs, summary) ==
  {Gate(ca, IF summary[ca] # 0 THEN summary[ca] ELSE Min(SignalsOf(evs, ca))) :
     ca \in {x \in cas : summary[x] # 0 \/ SignalsOf(evs, x) # {}}}
(* resolveSignalDataset up to resolveDataset: "rejected", or what is selected.  *)
Checked(cas, enabled, client, first) ==
  LET known == {g.ca : g \in first} IN
  IF ~(client \subseteq first) \/ (enabled /\ cas \cap known = {}) THEN {}
  ELSE {[cas |-> IF enabled THEN cas \cap known ELSE cas, excluded |-> IF enabled THEN cas \ known ELSE {},
         gates |-> IF enabled THEN {g \in first : g.ca \in cas} ELSE {}]}
(* resolveDataset: every token selected has a pool with data, and the gates are  *)
(* those of the tokens selected; pools without data are listed too.             *)
GatesOf(gates, cas) == gates = {} \/ {g.ca : g \in gates} = cas
WithData(ca) == {p \in PoolsOf[ca] : p.to # 0}
Resolved(s) ==
  IF (\E ca \in s.cas : WithData(ca) = {}) \/ ~GatesOf(s.gates, s.cas) THEN {}
  ELSE {[symbols |-> UNION {{[ca |-> ca, pool |-> p] : p \in PoolsOf[ca]} : ca \in s.cas}]}
NoOpportunity(symbols, gates) ==
  {s \in symbols : s.pool.to # 0 /\ \E g \in gates : g.ca = s.ca /\ g.time >= s.pool.to}

(* The preview; the user may submit other tokens than he looked at.             *)
Preview ==
  /\ request = NotAsked /\ asks < MaxAsked /\ asks' = asks + 1
  /\ \E cas \in (SUBSET Mints) \ {{}} : \E s \in Checked(cas, TRUE, {}, Earliest(cas, signals, info)) :
       Resolved(s) # {} /\ preview' = s.gates
  /\ UNCHANGED <<signals, info, request, backtests, arrived>>
(* createBacktest: the version, then the events, the summary, the pools.        *)
Submit ==
  /\ request = NotAsked /\ asks < MaxAsked /\ asks' = asks + 1
  /\ \E cas \in (SUBSET Mints) \ {{}}, enabled \in BOOLEAN, client \in {{}, preview} :
       request' = [at |-> "version", cas |-> cas, enabled |-> enabled, client |-> client]
  /\ UNCHANGED <<signals, info, preview, backtests, arrived>>
(* Mutant: the summary is read before the events.                               *)
ReadSignals_SummaryFirst ==
  /\ \/ /\ request.at = "version"
        /\ request' = [at |-> "events", cas |-> request.cas, enabled |-> request.enabled, client |-> request.client,
                       events |-> {}, summary |-> info]
     \/ /\ request.at = "events"
        /\ request' = [request EXCEPT !.at = "summary", !.events = {e \in signals : e.ca \in request.cas}]
  /\ UNCHANGED <<signals, info, preview, backtests, arrived, asks>>
ReadSignals ==
  /\ \/ /\ request.at = "version"
        /\ request' = [at |-> "events", cas |-> request.cas, enabled |-> request.enabled, client |-> request.client,
                       events |-> {e \in signals : e.ca \in request.cas}, summary |-> info]
     \/ /\ request.at = "events"
        /\ request' = [request EXCEPT !.at = "summary", !.summary = info]
  /\ UNCHANGED <<signals, info, preview, backtests, arrived, asks>>
Reject == request' = NotAsked /\ UNCHANGED backtests
(* The run is stored and handed to the queue, `failed` if that does not take it.*)
Store(s, d, status) ==
  /\ request' = NotAsked
  /\ backtests' = backtests \cup
       {[asked |-> request.cas, enabled |-> request.enabled, symbols |-> d.symbols, gates |-> s.gates, excluded |-> s.excluded,
         external |-> {e \in request.events : e.ca \in {x.ca : x \in d.symbols}},
         late |-> NoOpportunity(d.symbols, s.gates), status |-> status]}
CreateRun ==
  LET checked == Checked(request.cas, request.enabled, request.client, Earliest(request.cas, request.events, request.summary)) IN
  /\ request.at = "summary"
  /\ IF \E s \in checked : Resolved(s) # {}
     THEN \E s \in checked : \E d \in Resolved(s), status \in {"pending", "failed"} : Store(s, d, status)
     ELSE Reject
  /\ UNCHANGED <<signals, info, preview, arrived, asks>>

DatasetsNext == RecordSignal \/ Preview \/ Submit \/ ReadSignals \/ CreateRun

(* externalSignalsForRun: the signals shown with a run, the first one marked.   *)
FirstShown(run, ca) == Min(SignalsOf(run.external, ca))

(* A run that only buys after a signal has for every token one gate and a pool  *)
(* with data, no signal it shows is before the gate, and every token that was   *)
(* asked for is in the run or named as excluded; whatever signals arrive        *)
(* between the preview and the submission, and between its queries.             *)
GatesHold ==
  \A run \in backtests :
    LET cas == {s.ca : s \in run.symbols} IN
    /\ run.asked = cas \cup run.excluded /\ cas \cap run.excluded = {}
    /\ \A ca \in cas : \E s \in run.symbols : s.ca = ca /\ s.pool.to # 0
    /\ IF run.enabled
       THEN /\ \A ca \in cas : Cardinality({g \in run.gates : g.ca = ca}) = 1
            /\ \A g \in run.gates : SignalsOf(run.external, g.ca) # {} => g.time <= FirstShown(run, g.ca)
            /\ \A s \in run.symbols : (\E g \in run.gates : g.ca = s.ca /\ g.time < s.pool.to) => s \notin run.late
       ELSE run.gates = {}
=============================================================================
