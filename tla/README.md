# Verification of the meme-backtesting platform in TLA+

TLA+ modules, TLC configurations and machine-checked proofs for the parts of this repository
that are hard to get right and hard to test: protocols whose outcome depends on the order in
which processes, transactions, messages and failures happen (the durable execution of backtests,
the rolling batch, the live service with its orders, feed and recovery, admission, discovery,
lookups, versions, datasets, two components of the web client), and computations that the code
does twice or three times in different ways and that must agree (the engines, candles, the
ledger of fills, results and their evidence). `PROJECT.json` lists the runs, the source lines
every definition stands for, the hazards, the findings and the theorems.

    tlc -workers 2 -config BacktestRun_failover.cfg MCBacktestRun    # any run of PROJECT.json
    tlapm BacktestRunProofs.tla                                      # the proofs of any module *Proofs

## 1. Inventory

PostgreSQL is the only durable authority. Redis carries the job queue (BullMQ) and the project
cache. Two Node processes matter: the API (`apps/api`) and the worker (`apps/worker`); the
batch CLI is started by a systemd timer. There may be several workers; an advisory lock leaves
one of them the live service.

| Component | State | Operations | What is hard | What makes it correct |
|---|---|---|---|---|
| Durable backtest execution (`packages/runtime`, `apps/worker/src/main.ts`) | a row of `backtest_runs` (status, epoch, lease, dispatch number, failure streak), frozen input, batches, checkpoint, report; per executor the engine and its flags | claim, freeze, step, save, release, fail, heartbeat, reconcile, stop, retry, rerun, deliver | takeover by another worker, stalls, lost answers, duplicate jobs, stop against the last save | stored rows are those of one uninterrupted execution, once each; only the owner writes; a stop is honoured and settled; recovery is bounded |
| Rolling batch (`apps/api/src/rolling-batch.ts`, `batch-cli.ts`) | control row, ledger of items, the runs and reports | start, pause, advance = settle, rank, prune, admit, enqueue | a crash or a pause between two transactions, two advancers, runs changed behind its back | no leader is deleted, evidence outlives results, no run twice, one wave at a time, it ends or pauses |
| Real orders (`live-service.ts` 402-446, 685-813; API start/pause/stop) | `live_orders`, `execution_hold_reason`, run status; contexts and the job queue in memory | decide, submit, reconcile, refresh, interrupt, close | the exchange has no client order id: an answer lost can be neither repeated nor looked up; two statements where one is meant | an order is sent at most once; nothing that may have cost money is forgotten; a hold freezes sending and is lifted again |
| Market feed (`meme-market.ts`) | per connection wanted and confirmed membership, unanswered request, revision, sequence, buffer; the connections and their capacity; `marketSessions` of the live service | connect, hello, pump, ack, error, trade, fail, update; assign, reset | trades overtake acknowledgements, the wanted set changes under way, best-effort delivery | a ready project was given every trade, in order, once; client and server agree; it converges; a project has one place, and a session if that place carries it |
| Closed-bar execution and recovery (`live-service.ts` 84-145, 225-295, 385-684) | contexts, evaluators, epochs, recovery tokens, job queue; `live_watches`, `live_candles` | close bars, decide in one transaction, interrupt, refresh, warm up, recover | history requests are awaited while session, boundary or run change; rollback of memory with the transaction | a bar is decided once and in order, never on a gap, never by a stale recovery; memory is what is stored; a token becomes ready |
| Candle aggregation (`packages/engine/src/live.ts`, `onTrade`, `flushBars`) | buckets, seen trades, closed-through marks | accept, flush, fill, discard, seed | late and repeated trades at a bucket's boundary, gaps filled in several places | a closed bar never reopens, no bar twice, every bar is its trades |
| Backtest and live engines (`packages/engine/src`) | candidates, positions, locks, cash | step, exit, decide, confirm, skip, finish | the same strategy in three programs: a reference, an incremental one for backtests, a windowed one for the live service | all three select, decide and trade alike on one account |
| Admission and eviction (`live-service.ts` 296-383, 633-678, `live-input.ts`) | `live_watches`, capacity per run, rules of sources | admit a signal, retain or evict by market cap, recheck | several sources wait for their lookups at once; a market cap arrives late | never more than the limit; no token with a position or an order is dropped; only a low cap evicts |
| Project discovery (`project-discovery.ts`) | cursors, inbox, generations of scans, failures | tick, page, accept, commit, fail, deliver | a scan cut off between inbox and cursor, a write of the old scan that lands in the new one | no acquisition of a watched wallet is passed over |
| History client, project cache (`history-client.ts`, `project-cache.ts`) | limiter of two, attempts, waiting trades | get, retry, close, load, fresh | errors and cancellation while waiting; one bound for two queues | slots are kept, budgets are kept, trades go on in order |
| Paper orders and portfolio (`live-service.ts` 714-772, `live-portfolio.ts`, `live-capital.ts`) | fills, positions, cash | fill inside the closing transaction; rebuild cycles and results | older rows lack columns | the API tells the worker's positions from the rows |
| Templates and versions (`apps/api/src/main.ts`) | templates, numbered versions | create, clone, patch, add a version | two requests, a rollback at any statement | versions are numbered without gap or repetition and belong together |
| Datasets (`main.ts`, `token-signals.ts`, `datasets.ts`) | pools, first signals, preview | preview, create a backtest | signals arrive between preview, event and summary query | every token has the gate its signals imply; every pool is one of a requested token |
| Results and evidence (`results.ts`, `datasets.ts`, `invalidation.ts`) | signals, trades, reports, frozen chunks | number, associate, filter, sum; restore the reasons of an exit | rows of older releases without numbers; chunks read out of context | signals find their trade; sums agree; restored reasons are the engine's |
| Web client: selection, chart (`useCaSelection.ts`, `TradingViewChart.vue`) | form, lists, epochs; widget, layers, loaded bars | select, search, load, retry; mount, load, draw, remove | several requests in flight while the user goes on | a selected chain is whole; what is on the chart is what should be |
| Other views of the web client, lookup queries, domain schemas, operations sampler, migrations, scripts | — | read, render, sample, migrate | no protocol of their own | not modelled (section 7) |

How they interact: the API inserts a run and enqueues it; the worker claims it and is driven by
the row from then on; the rolling batch is a client of that protocol. In the live service every
change of state runs on one promise chain (`enqueue`), except the synchronous callbacks of the
feed (`ready`, `removed`, `interrupted`, `trade`), which may come at any `await` of a job of
that chain. Discovery and the XXYY feed bring signals, admission turns them into watches, the
set of watches is what the feed is to subscribe to, a confirmed subscription starts a recovery,
and a recovered token's closed bars lead to orders, real or on paper. The feed tells the live
service which projects have a session; orders are only sent for contexts that are ready and
connected.

## 2. Modules

| Module | Models | Correspondence |
|---|---|---|
| `RunContract` | what a user of the backtest API may rely on, without executors, leases or queues | abstract specification |
| `BacktestRun` | one row of `backtest_runs`, from the request that inserts it on, and everything that drives it | one action per statement or transaction of `executeRun`, `freeze`, `save`, `heartbeat`, `reconcile`, `stopRun`, `retryRun` and of the end of `createBacktest`; `pc` is the place in `executeRun`, `creating` that in `createBacktest` |
| `BacktestRunProofs`, `LiveOrdersProofs`, `MemeMarketProofs` | theorems about the module they are named after, for all constants | section 5 |
| `LiveBarsProofs` | theorems about `LiveBars`: recovery and memory; on top of them, the order of the decided bars | section 5 |
| `AgreementProofs` | theorems about `Results`, `Ledger` and `Impulse`: what is derived twice comes out the same | section 5 |
| `IntakeProofs` | theorems about `Admission`, `Discovery`, `Lookups`, `Shards` and `Candles` | section 5 |
| `ClientProofs` | theorems about `RollingBatch`, `Versions`, `Datasets`, `CaSelection`, `ChartDrawing` and `Evidence` | section 5 |
| `CommonTheorems` | lemmas several of them use: least numbers, functions defined step by step, finite sums | no code |
| `RollingBatch` | `initializeRolling`, `advanceRolling` and what the CLI does around them | one action per transaction; `pc` is the place of an advancer between them |
| `LiveOrders` | the life of a real order, from the decision to its reconciliation | one action per statement or request of `submitLive` and `reconcileOrders`; `pc` is the place of the worker's job chain |
| `MemeMarket` | one `MemeMarketConnection`, its hooks into the live service, and the server as the client sees it | one action per handler; `pump` is part of the handlers that call it |
| `LiveBars` | one pool of the live service: the serial queue of jobs, what runs between the awaits of a job, the deciding transaction, the stored candles | one action per step of a job up to its next await, one per callback; `interruptMarket` is part of every action that calls it |
| `Shards` | `MemeMarketFeed`: several connections, capacities, projects that come, go and move | one action per call of `setProjects`/`resetProjects` and per message; a request may leave at any time, as `pump` runs in every handler and on a timer |
| `Candles` | `LiveCandleAggregator` and the service's calls around it | operators `AcceptIn`, `Flush`, `FillUntil`… on the aggregator's state, one action per call; `onTrade` is two, before and after its await of `flushBars` |
| `Impulse` | `detectImpulse`, the incremental impulse and conditions of `ResumableEngine`, the window of `LiveEvaluator` | three computations over one feed of candles |
| `Portfolio` | `backtestSteps`, `ResumableEngine.step`, the live evaluator with `createDecision` and `paperFill` | three accounts served with the same batches of candles |
| `Discovery` | `walletBuys`, the scans, cursors and inbox of one wallet | one action per transaction and timer |
| `Admission` | `receiveDiscovery`, `onSignal`, `evictOrRetain`, `recheckMarketCaps`, `refresh`, the API that changes the run | one action per transaction; lookups are separate steps |
| `Lookups` | `HistoryClient.get`, the reading of an answer, `ProjectCache.load`/`fresh` with the Redis calls that fail, trades waiting for a supply | one action per await; a call to Redis belongs to the step before or after it |
| `Ledger` | what `paperFill` writes and what `buildLivePortfolio`, `realizedCapital` and the markers read | one action per fill and one for a token that is admitted again; the API's view is a function of the rows |
| `Versions` | create, clone, patch, `createVersion` | one action per statement between `BEGIN` and `COMMIT` |
| `Datasets` | preview and creation of a backtest | one action per query |
| `Results` | `associate`, filters and sums of the results API | the engine's writes are actions, the API's views functions of the rows |
| `Evidence` | `FrozenReader`, condition groups at an exit, the two restorations of the reasons | one action per candle the engine gets, one per request of the API; the restoration is a function of the frozen chunks |
| `CaSelection`, `ChartDrawing` | the two components of the web client that keep requests in flight | one action per deed of the user and per answer |
| `MCParts` | the fourteen modules from `Shards` on, and the sample data for TLC | `part` selects the one that runs |
| other `MC…` | instances for TLC: values of the constants, symmetry | |

The fourteen modules of `MCParts` share no variables and need no fairness. Its run explores one
at a time: the variable `part` says which one, all others keep one initial state. It is the
disjoint union of their state spaces, not a product, and a property of a part is evaluated where
its part runs.

An operator `X_Y` beside `X` is `X` with a plausible mistake. No specification uses it; the
`mutants` of `PROJECT.json` put it in the place of `X` to show that a property depends on it.

Abstractions that matter:

* **BacktestRun.** The input is a sequence of time steps with one result row each; row
  `Ticks + 1` is what `finalizeOpenPositions` adds. The clock is a three-valued lease (live,
  expired, NULL). `fenced` compares the lease with the start of its transaction, as
  PostgreSQL's `now()` does, so a transaction that began in time may commit late: `eng.early`.
  `createBacktest` (`main.ts` 207-209) inserts the row, which `reconcile` may hand to a worker at
  once, and adds the first job. If the add throws, it sets the status to `failed` by id, whatever
  the run has come to by then. A run inserted by `rerun` or by the rolling batch has an add that may
  fail too, but nothing that is done about it: `CreatorDies`.
* **RollingBatch.** A report is one rank. The inner life of a run is `BacktestRun`; here it is
  open, ended, completed or absent, and it changes at any moment between two transactions.
* **LiveOrders.** Every order is a buy of one unit: fills of live orders are never recorded, so
  a live run has no position, never sells and has no realised loss. A context is off, recovering
  or ready; how it recovers is `LiveBars`. `fate` is what the exchange made of an order, also
  after the client stopped waiting.
* **MemeMarket.** The server is written down as the client's checks expect it (one request at a
  time, revisions and sequence numbers per connection), and loses and repeats trades. Timers are
  actions that may happen at any time. How projects are spread over connections, and what a
  project's move between them does to its session, is `Shards`, where a connection is reduced to
  requests and their answers. What the server sent a project is remembered as a set of numbers,
  what was handed on as a sequence, which `NoSilentGap` requires to enumerate that set in order.
* **LiveBars.** `onTrade` is one step here, with the job's `flushBars` after the trade was taken; in the
  code the trade is accepted after that await, and lost if it throws. What an interruption in that
  await does to a bar is the subject of `Candles`. `seedAggregation` (`live-service.ts` 620-627) may
  return without a baseline; here it always finds one. The strategy is one on prices, whose last
  bar of history is always stored, or one on market caps whose price row is there too. Without
  the baseline no flat bars precede the first trade, and the first decided bar need not be the
  first one after the boundary, as `DecidedInOrder` says. The clock counts half bars, an evaluator is the set of bars it has consumed,
  each real or flat, and a decision is the bar it was made on. One strategy interval per pool.
  After a recovery the bucket that straddles the boundary is never decided; the code does the
  same.
* **Candles.** A unit of time is 15 seconds; prices, caps and volumes are small numbers. Trades come
  with a time that is over (the code takes them up to 5 s from the future). `Recovered` always has a
  baseline, as in LiveBars.
* **Impulse, Portfolio.** Whole numbers, ratios compared by cross-multiplication. `Impulse`
  shows what is selected and met on each candle, `Portfolio` takes that as given. EMA and candle
  patterns are arithmetic on reals and stay out. The live window keeps fewer candles than the
  reference sees, and its volume baseline may be cut off if `leftBars` exceeds `rightBars + 8`
  and the look-back all but fills the window: `LiveSelectsAsReference` is about the other
  configurations (`MaxWindow >= lookbackBars + Back`), that of the run among them. The paper account is compared under the
  pullback rule, and not on the last bar of a dataset, which the live service does not have.
* **Admission.** One run; a recovering watch counts as monitoring; the wait of one minute without
  a trade before a recheck is left out (a recheck may happen at any time). A token admitted by
  signal A, evicted, admitted by B and evicted is admitted again if A is delivered again.
* **Discovery.** Signatures are numbered by their place in the ledger, so a page is an interval and
  the pending list, which the code keeps newest first, is a set of which the largest comes next.
* **Lookups.** Redis answers or a call of it fails (`ReadRecord`, `SaveRecord`); what is saved is in
  memory in any case. The trades that waited are sorted by `trade_time` and `event_id`, here the place
  of a trade in the market (`TradeTimes`). A back-off is over at any time, but the one another process
  wrote is refused at once.
* **Ledger.** The row of a watch starts anew when its token is admitted again (`state_json='{}'`,
  `live-service.ts` 348), the worker's `tradeNo` with it; `earlier` remembers what it had. Old `add` rows without a position id are labelled by the API by their order alone
  (`live.ts` 235); the property speaks of rows it can tell apart. The two queries of the endpoint
  are read as one.
* **Datasets.** The database holds, for every token with events, a summary as early as any of them
  (`RecordedIsSummarised`): the worker's transaction and the backfill script write both.
* **Datasets, Results.** Case normalisation of addresses is left out; returns in percent and the
  draw-down curve are arithmetic on the sums that are modelled.
* **CaSelection.** A retry clears the error of the selection that was changed after its list was
  requested (`useCaSelection.ts` 101); `muted` keeps such a state apart, since the form then only
  lacks a message.
* **ChartDrawing.** Left out are the watcher of the filters (`TradingViewChart.vue` 231-235: a reset, one
  awaited request and a mount like any other), the ticks of `subscribeBars` on a live run (190-202: a
  bar more and a scheduled refresh of the markers, as in `BarsLoad`), and a `createShape` that fails: the
  rest of its drawing is then missing, and for some layers an error is shown. The second load of the
  markers, which the code starts when `setVisibleRange` has answered, is part of `ChartReady`.

## 3. Runs

| Run | Question | Bounds | Why they are enough |
|---|---|---|---|
| `backtest_failover` | Do takeovers, stalls, lost answers, stops and retries keep the results those of one execution? `BacktestRun` implements `RunContract` | 2 executors, 1 pool, 1 step and the closing row, 2 disturbances | a stale executor, its successor and one more fault cover every pair of overlapping transactions; the theorems remove the bound |
| `backtest_live` | One input, whatever is resumed; stops settle, pending runs are taken, runs come to rest | 1 executor, 2 pools, 1 step and the closing row, 2 disturbances, fairness | two pools allow a partly frozen input; every wait of the protocol is for a timer, a delivery or a restart |
| `batch_waves` | Ranking, pruning, admission over all waves; the batch ends or pauses | 5 tasks on 2 chains, waves of 2, keep 1, 2 advancers, 3 disturbances, fairness | three waves, with winners displaced by later waves and a pilot that was there before |
| `orders_faults` | Is every order sent once, remembered and frozen by a hold? | 3 intents, 2 tokens, 1 pause or stop, 1 cut of the feed, 1 crash, 1 failed statement | two orders in one bar, a third one later, total exposure reached |
| `orders_settle` | Do intents settle, is a hold lifted? | 2 intents, 1 pause, 1 crash, 1 failed statement, fairness | one order that is settled while another is sent or doubtful |
| `market_feed` | Is the feed of a ready project complete, and does the connection converge? | 2 projects, 2 changes, 2 trades, 1 lost or repeated, 1 rejection, 1 failure, buffer of 1, fairness | a retained project beside one that comes and goes; the buffer overflows; a lost trade between two received ones |
| `bars_recovery` | Are bars decided once, in order, on a gapless history; does a token become ready? | 1 strategy, warm-up of 2 bars, times 4 to 8 (two bars close), one fault: an interruption, a crash, a failed request or a failed statement; fairness | the fault falls between any two steps of warm-up, recovery, commit and decision, with answers that lack the latest candle and flat bars besides, and bars close after it |
| `parts` | The fourteen parts, one at a time | see `Parts_all.cfg`; the sample data are in `MCParts` | per part below |
| `orders_twobuys`, `orders_stuck`, `market_stale`, `bars_stored` | the findings of section 6 | as small as shows them | |

Bounds of `parts`: *impulse* — feeds of 16 candles: one of two openings (`MCScripts`,
10 and 11 candles) that bring an impulse up to its confirmation, then every sequence of 4 shapes,
so that it is confirmed, replaced, rebased and invalidated, under both rules. *portfolio* — 2
pools, 5 batches out of 9, 4 plans: buys, adds, exits by stop, target, lock, holding time and invalidation, two pools that compete
for the cash of one, skipped buckets. *candles* — 4 trades in and across buckets in any order,
one repetition, one interruption, which may fall into the handling of a trade. *discovery* — 4 transactions, pages of 2, commits of 1, one
fault. *admission* — two tokens that compete for one place, one token from two sources, one
token with two changes. *lookups* — 4 requests on 2 slots, 2 attempts, 2 waiting; answers of 4
items; 3 trades at 2 times before a supply, a queue of 2, one call to Redis that fails. *ledger* — 2 coins, 4 fills, any re-admissions between them, one
price (`LedgerAlwaysTells` is proved for all of them). *selection*, *chart* — 3 and 2
deeds, each at any point of what is in flight. *versions* — 2 requests, 2 templates, one failure.
*evidence* — 3 series with gaps and chunks of 2, 5 groups up to two levels deep, one of which looks back further than is restored. *datasets* — 3
tokens, 4 pools, 2 signals before all others between 2 previews and submissions. *shards* — 3 projects on at
most 2 connections of 2 or 1, 3 changes or faults. *results* — one token with two
pools, 3 bars, an add, trades that are still open.

`CHECK_DEADLOCK FALSE` is used everywhere: each of these systems really may stop — a completed
run, a finished batch, a stopped live run, a connection that gave up, an exhausted budget of
disturbances, a feed of candles that ends.

Every bound limits the environment or the size of the data; no bound limits a step of the
program, except `MaxOrders`, `MaxFills` and `MaxAdmitted` (number of decisions) and `MaxQueue` of `LiveBars`,
which lets one job of the feed or a timer wait beside the one that runs.

### Fairness

* `BacktestRun`: a process that is up takes its next step; the timers of 2 s (heartbeat) and
  5 s (`reconcile`) fire; a job that was added is delivered; an unrenewed lease runs out; a
  worker that died is started again (service manager). No fairness for disturbances, users and
  writers of the source table.
* `RollingBatch`: the systemd timer starts an advance every minute and a started one goes on;
  an open run comes to an end, which is part of `RunSettles` of `BacktestRun`. Nobody has to
  resume a paused batch.
* `LiveOrders`: the promise chain and the 5 s refresh go on, a dead worker is restarted, and the
  exchange, asked again and again about a reverted transaction, at some time says so (strong
  fairness of `QueryFinal` and of picking each order: the query orders by the time of the last
  check). Nobody has to start a paused run and no feed has to recover.
* `MemeMarket`: the timer fires, messages are delivered, the server answers. Nothing is assumed
  about changes, trades, rejections and failures, whose number is bounded.
* `LiveBars`: the job chain goes on (weak), the refresh timer gets its turn in the queue (strong:
  `setInterval` fires every 5 s whatever the queue holds), a lost subscription is made again
  (weak: `MemeMarketConnection` reconnects), a history request that is open is answered (weak)
  and, asked again and again, is answered completely (strong: an answer may lack the latest
  candle any number of times, but not for ever). Trades, the flush timer, interruptions, crashes
  and failures have no fairness.

## 4. Properties

What each one says is written above its definition. Several are conjunctions of named parts,
checked together because they concern one hazard. The ones that carry most weight:

* `ExactlyOnce`, `OneExecution` (one frozen input, batches without hole or overlap),
  `ReportIsFinal`, `StopHonoured`, `ImplementsContract`: a backtest executed by any number of
  workers in turn looks to its user like one that was never interrupted. `RunSettles`: it also
  gets there. A completed run is final unless the request that created it is still out: it may
  declare the run failed, report or not (`Disown` of `RunContract`), and a retry then executes a
  run that has its report. `ReportIsFinal` names that as the only way, and the primary key of
  `backtest_reports` keeps a second report out (`SaveRefused`).
* `LeadersKept`, `WavesInOrder`, `CommitsOnFreshReads`: results are deleted for good, so a pruned
  run must really be beaten, by runs that are still there, and the deletion and the admission
  must hold for what is true at their commit.
* `OnRecord`, `BuysApart`, `SendsAllowed`: what may have cost money is sent once, stays visible
  as open, and freezes further sending.
* `NoSilentGap`, `MembershipAgrees`, `Retained`: bars without trades are filled in as flat, so a
  trade that was lost without an interruption would become a wrong price.
* `DecidedInOrder`, `ReadyIsCurrent`, `MemoryIsStored`, `EventuallyReady`: a strategy decides on
  every bar once, on the history that is stored, and only under the subscription its recovery
  was made for.
* `BarsAgree`: among other things, a bar that begins after the subscription was confirmed is whole. A
  trade that `onTrade` let pass before an interruption is accepted after it and reopens the bucket
  that was just thrown away; that bar is a part, but it began before the new subscription, so no
  strategy decides on it (`noOrdersBefore`), although it is stored (section 6).
* `LookupsRight`: one process asks three times for a supply at most, whatever Redis does; over
  restarts it is three as well while Redis answers, a failed write costs one more at most, a failed
  read a new budget. `HandedOnInOrder`: trades go on as they came, those that waited together as the
  market had them, and none gets between.
* `LedgerTells`: the API's cycles are the worker's positions; the API numbers them over all
  admissions of a token, the worker from its last one.
* `ImpulseAgrees`, `EnginesAgree`, `BarsAgree`, `LedgerTells`, `ReasonsAreTheEngines`,
  `ResultsAgree`: what the code computes in two ways comes out the same.
* `NoBuyLost`, `CapacityHeld`, `HeldIsWatched`, `EvictedOnLowCap`, `LookupsRight`, `SessionsRight`,
  `HandedOnInOrder`, `VersionsInOrder`, `GatesHold`, `ChainsWhole`, `ChartComplete`: one hazard
  each, see `hazards` in `PROJECT.json`.

`BuysApart` and `OrdersSettle` contain the conditional forms of two properties that the code does
not keep in general (section 6): with every statement stored there is one purchase at a time, and
without a crash or a failed statement a hold is lifted. The first also needs that the run is
paused at most once: after a crash, two pauses placed inside two refreshes hide the interrupted
order from `switchExecution` as a failed statement does. `EventuallyReady` excludes, in the same
way, the state behind finding 4.

The types of the modules (`TypeOK`, or the first part of an inductive invariant) are stated for the
proofs and proved there; the runs spend their time on the properties above.

## 5. Proofs

Each theorem holds for every value of the constants that satisfies the named assumptions of its
module: any number of executors, advancers, tasks, orders, projects, connections, strategies, requests, signals
and transactions, and any number of disturbances. The assumptions are the typing of the constants
(`TicksAssumption`, `SizesNat`, `BoundsNat`, `PageAssumption`, `ResultsAssumption`: a run has finitely
many pools and a row at most one net result, `CandlesAssumption`: trades with equal ids are equal,
`LedgerAssumption`: finitely many tokens, prices above 0,
`ImpulseAssumption`: bar counts are natural numbers and the period is not 0,
`ShardsAssumption`: no project
occurs twice among the keys, and a server offers to carry at least one…), marks that are no members of the
set they mark (`NoneAssumption`, `NoneProc`, `FreeIsNobody`, `SignalsAssumption`,
`DrawingsAssumption`: the timestamp 0 stands for no selection), one about the shape of the input
(`EvidenceAssumption`: a frozen series is in the order of time, and a condition group holds conditions
and groups of conditions, no deeper, as in the model), and two about
data, each enforced by the code: source rules are those `normalizeProjectSources` lets pass
(`RulesAssumption`), and a token with events has a summary as early as any of them
(`RecordedIsSummarised`). TLC evaluates all of them.

| Module | Theorems | Stated property of a run |
|---|---|---|
| `BacktestRunProofs` | `TypeCorrect`, `InductiveCorrect`, `ExactlyOnceCorrect`, `OneExecutionCorrect`, `SingleWriterCorrect`, `ReportIsFinalCorrect`, `OnlyOwnerWritesCorrect`, `InputImmutableCorrect`, `StopHonouredCorrect`, `BoundedRecoveryCorrect`, `StrandedCorrect`, `ContractImplemented` | `ExactlyOnce`, `OneExecution`, `ReportIsFinal`, `StopHonoured`, `ImplementsContract` |
| `LiveOrdersProofs` | `OrdersInductive`, `OrdersTypes`, `OrdersOnRecord`, `BuysStayApart`, `SendsStayAllowed` | `OnRecord`, `BuysApart`, `SendsAllowed` |
| `MemeMarketProofs` | `FeedInductive`, `FeedTypes`, `NoTradeMissing`, `MembersAgree`, `MembersRetained` | `NoSilentGap`, `MembershipAgrees`, `Retained` |
| `LiveBarsProofs` | `RecoveryInductive`, `ReadyStaysCurrent`, `MemoryStaysStored`; `OrderInductive`, `BarsDecidedInOrder` | `ReadyIsCurrent`, `MemoryIsStored`, `DecidedInOrder` |
| `AgreementProofs` | `ResultsInductive`, `ResultsAlwaysAgree`; `LedgerInductive`, `LedgerAlwaysTells`; `ImpulseInductive`, `ImpulseAlwaysAgrees` | `ResultsAgree`, `LedgerTells`, `ImpulseAgrees` |
| `IntakeProofs` | `AdmissionInductive`, `CapacityAlwaysHeld`, `HeldStaysWatched`, `EvictedOnlyOnLowCap`; `DiscoveryInductive`, `NoBuyIsLost`; `LookupsInductive`, `LookupsStayRight`, `TradesHandedOnInOrder`; `ShardsInductive`, `SessionsStayRight`; `CandlesInductive`, `BarsAlwaysAgree` | `CapacityHeld`, `HeldIsWatched`, `EvictedOnLowCap`, `NoBuyLost`, `LookupsRight`, `HandedOnInOrder`, `SessionsRight`, `BarsAgree` |
| `ClientProofs` | `RollingInductive`, `RollingTypes`, `AdvancersExclude`, `LeadersAreKept`, `WavesAreInOrder`, `CommitsAreFresh`; `VersionsInductive`, `VersionsStayInOrder`; `DatasetsInductive`, `GatesAlwaysHold`; `SelectionInductive`, `ChainsStayWhole`; `ChartInductive`, `ChartStaysComplete`; `EvidenceInductive`, `ReasonsStayTheEngines` | `LeadersKept`, `WavesInOrder`, `CommitsOnFreshReads`, `VersionsInOrder`, `GatesHold`, `ChainsWhole`, `ChartComplete`, `ReasonsAreTheEngines` |

So every safety property of the runs `backtest_failover`, `backtest_live`, `batch_waves`,
`orders_faults`, `orders_settle`, `market_feed` and `bars_recovery` is a theorem, and sixteen of
those of `parts`. None of them is inductive as it stands. What each proof adds, and why the code keeps it:

**A run** (`Inductive`). `ExactlyOnce` is not inductive: a save adds the rows from the executor's own
position on, so one has to know that this position is that of the checkpoint.

1. *Ownership*: at most one executor holds the current epoch, since only a claim gives it out
   and every way back to "pending" raises it.
2. *LockHeld*: from the fence to the end of the transaction the row keeps naming its owner with
   the status it read, since every other writer of the row needs the row lock.
3. *AtCheckpoint*: an executor the row names, and that has an engine, continues exactly at the
   checkpoint: it loaded it after the claim, and no other executor could save since.
4. *CompletedFree* and *OpenEnded*: no lease covers a completed run, and the checkpoint is past the input
   only if there is a report; a second report is refused. So a run that `createBacktest` declared
   failed and that is executed again adds no row.
5. Hence `ExactlyOnce` and `ReportIsFinal`, kept by a save because of 2, 3 and 4; the batches stay
   consecutive and of one input for the same reason (`OneExecution`).

The refinement maps a save to `Extend` or `Publish`, a stop to `RequestStop`, the end of the request
that created the run to `Answer` or, if it declares the run failed, to `Disown`, and the rest to
`Close`, `Reopen` or a stutter.

**The rolling batch** (`IInv`). Whoever is past `pg_try_advisory_lock` holds the lock, so the ledger
stands still between two steps of a cycle. A settlement ranks old and new runs alike by the scores
the ledger keeps after the results are gone, so the first `Keep` of a chain stay ahead of all that
was ever deleted: the first n of a finite set in a strict order stay first when losers leave it.
Only a planned task, whose run was never inserted, is admitted.

**Orders** (`IInv`). Orders are numbered without gaps, so a decision overwrites none. `submitLive`
works on distinct intents of which only the first may have been sent, so nothing that was sent is
cancelled. An order that may have cost money keeps the run from sending: by the stored hold, by the
submission at work that is about to store it, or, after a crash, because no context is ready before
a refresh of the running run has seen the order. That third case is the one the conditions of
`BuysApart` come from.

**The feed** (`IInv`). The proof follows one control request through its stations. Until the server
applies it, client and server are level; from then on the server is ahead by the request, the trades
it sends carry the next revision, and the client has buffered all of them it took; the answer is the
only one on its way. A trade that is not repeated tells by its revision on which side of the change
it was sent, so a member misses none.

**Recovery** (`RecoveryInv`). Subscriptions are numbered and a recovery belongs to one of them; no
recovery job is about a strategy that is ready, and its last step finds the subscription it was made
for (`ReadyIsCurrent`). Memory and database differ only inside a transaction over a bar, which keeps
a backup equal to the database, or for a strategy whose memory does not suffice to become ready:
that is why a recovery cut off between its two writes (finding 4) does not break `MemoryIsStored`.

**The order of bars** (`Order`, on top of it). From the boundary of a ready strategy on the aggregator
closes bar after bar. The closed bars that wait are exactly those from the next expected one on; the
bar of a transaction is the expected one of every strategy in it; and a new boundary lies behind
every bar decided before.

**Versions** (`VersionsInv`). The row lock of a template belongs to the request between
`SELECT .. FOR UPDATE` and `COMMIT` or `ROLLBACK`. So the number read under it is still the next one
at the insert, which therefore never meets the unique constraint, and ids are drawn once.

**Gates** (`DatasetsInv`). The events are read before the summary and every signal is recorded in
both, so whatever a request has read of the events its summary covers; the gate, the least of the
two, is at or before every event of the run.

**Results** (`ResultsInv`). What a reader of the rows has to find out is put beside them: the positions
there are, open ones included, each with its entry, its purchases and its number, and of every signal
the position it belongs to. An engine that takes over, one that is older and one that writes no numbers
all tell the same story of a pool: positions one after the other, the events of each in its own span of
time. So one trade at most has a span that a signal of its pool and type falls into, and the rank of a
trade by its entry and of a signal by its time are the numbers a newer release writes. The sums agree
because the trades of a run are the disjoint union of those of its tokens, and these of their pools
(`SumOfParts`): a sum over a finite set depends neither on the order nor on the grouping, and one of
which a part is missing is missing at every level. That a sum over a function exists as the library
defines it is proved by the least set for which it would not.

**Bars of trades** (`CandlesInv`). Of every stream: the open bar is made of the trades of its bucket that
were taken, each of which falls into it or behind what is closed (`MadeOf`, `TookIsPast`); buckets are
multiples of the interval, so a bucket that is not closed is the open one or a later one, and closing
at the time of the next trade finds the open bar over or the trade in it. Flat bars stop in front of
the open bar, and what has been closed never reaches past the last bar by more than the start of the
subscription allows (`LastIsClosed`). After a recovery, the baseline followed by all that was emitted
is the series a backtest derives from the traded bars, and k flat bars after it (`Chained`); k more
flat bars keep that, and a traded bar does because it comes when the flat bars before it have all been
filled, so the backtest fills just as many. That a bar is whole (`OpenIsFresh`, `HeardIsTaken`) rests on
what is known of the trade being handled (`Handled`): it is past the first whole minute of the present
subscription or not later than its confirmation, whatever happened while `flushBars` was awaited. Both loops over bars are recursions of which the next value
depends on the last one only; that each appended bar is one more step is proved by the least length
for which two runs of the same steps would differ.

**The ledger** (`LedgerInv`). What the rows are about is put beside them: the deals, each with the number
it has of its token, the row of its entry and, as far as they are there, those of its addition and its
exit (`Deals`). Deals of a token follow one another, and the position that is held is the one deal that
has no exit (`LeftOpen`). The numbers of deals go on over the admissions of a token: `Whole` is a
position with those of its earlier admissions added, and an admission leaves it as it is. The API reads the rows by time and then by id, across all tokens, and what it
has after any first part of them is, for every deal that has begun, the cycle of that deal as far as it
has been read (`Fits`). So a row finds the cycle it belongs to active, or none if it is an entry; no row
is foreign to the active cycle, with or without the id of a position; and an exit sells all that was
bought, so that its share of the cost is the whole cost. The markers need less (`Marked`): an entry opens
a number of its own whether or not it names a position, and a later row finds that number by the
position's id, which is why the addition of an old row has to be set apart. The sums agree because each
closed cycle is a deal that is over (`SumReordered`). The deals are not history variables: in every
state there are some that fit, and each step shows which fit next.

**The impulse** (`ImpulseInv`). The pool of the engine is stated as a function of the whole history
(`Held`): its window is the end of the history, cut only when it is full; its pivots are those the
reference would find confirmed within the look-back; its sums are those of the last period, and of the
one before; and any two of its on-balance volumes differ by the flows between them, although the first
one that is left is no longer 0. A pivot is decided when it is confirmed, from a window that has
all its neighbours by then, and nothing that comes later changes it. So the pairs of the engine and of the
reference are the same set under two numberings, and so is the choice of the latest (`Latest`). The
window is long enough for every candle that is read from it, which is what `Capacity` is for. The sums of a stretch do not depend on how its candles are numbered (`StretchMoved`), and
a running sum is the sum of one more candle less one (`SumOfOneMore`), so recomputing it every `Rebase`
bars changes nothing. The live evaluator holds the candidate of the reference, renumbered by what its
window has lost (`Follows`). A pending candidate has only closes inside its range since its high
(`Unleft`): one that stands is checked against the new close, one that is selected against all of them.

**Admission** (`AdmissionInv`). A context in memory belongs to an active watch; the number of active
watches is compared with the limit under the run's row lock and only there grows; what the worker
keeps of a market cap — a recent one, or that of a recheck whose context is still the one it was
started for — is the newest it has heard.

**Discovery** (`DiscoveryInv`). Every cursor there is, saved, in a scan or on its late way, is sound:
a finished walk went down to the head or the start, and every buy it has behind it is in the inbox.
The inbox only fills, so a sound cursor stays sound, and it does not matter which one is written
last.

**Lookups** (`LookupsInv`). The slots taken are those of the requests that run: a slot is handed to
the next in line without becoming free in between, so none is lost and nobody waits beside a free
one. Every lookup of `ProjectCache.load` is accounted for (`BudgetInv`): by the record in memory, for
the present process; by the one in Redis and by the calls to Redis that failed, for all of them.
`fresh` has its own budget of time. A trade waits only behind the queue, and while one waits all
later ones do, until they are handed on together, sorted, or thrown away together: those that
waited carry the number of the first of them (`group`), so the queue is in the order of arrival
but for the inside of a group. What is kept of an answer is a function of the set of its rows: the reading
of the first n rows keeps exactly the bars all n agree on, by induction on n.

**Connections of the feed** (`ShardsInv`). A connection holds what the server has confirmed and what
an unanswered request will add. A project that is not astray is held by one connection at most, by
the one that is to carry it while it is wanted, and has the session of the one that has it. The
handlers of one connection ask only for what it is to carry, which no other one carries. When the
projects are dealt out again (`AssignDoes`), those kept stay where they are, and the rest goes where
there is room: the slices of the rest are disjoint, because the bounds between them only grow
(`UptoDoes`, `FillDoes`). A connection that is closed takes the sessions of its projects with it, and
what it still had besides is astray; so is a project whose old connection still holds it when
another one gets it. Here every history variable is needed: without `astray` the claim is false (6).

**The selection** (`SelectionInv`). Epochs are numbered upwards, so of each kind at most one request
that is out still counts, and it asks for the form as it is now: whatever changes the dimension or
the chains starts a new epoch. Between an answer and the next change the user may only tick and
untick rows while nothing is loading, which moves a token between `selected` and `excluded`. So a
chain is selected whole, or its answer is still due, or an error is shown.

**The chart** (`ChartInv`). Every shape on the canvas is known to its layer, so a wipe removes it, and
at most one drawing of a layer is of the current epoch. What a layer shows, together with what its
current drawing still has to put there, is what it should show; where it is not, rows that are under
way, or the timer, will start a new drawing. `StillCurrent` is the check the code makes after
each await, and it is needed after every one of them.

**The reason of an exit** (`EvidenceInv`). Reader and API are both compared with a third thing, the set
of candles a run plays (`Played`): the raw ones, and after each its close again, a step apart, until the
next one comes. The reader plays it in order: its cursor stands at the first raw candle after the last
one played (`ReaderFits`), the candle it hands out is the next of the set (`PeekedIsNext`), so what the
engine has seen is the part of the set up to there (`SeenFits`). The chunks that overlap an interval,
with one before and one after, have every raw candle of the interval and both neighbours of each gap
that reaches into it, without a hole (`BlocksTell`); from such rows the restored history has exactly
what is played in the interval (`HistoryTells`): this is where the two ways to fill a gap, one candle
after the other and by rounding to the first step inside, are shown to be one. Two sequences in the
order of time with the same elements are equal (`SameSequence`), so the restored history is a tail of
what the engine saw. Either it is all of it, or, since no two candles played are more than a step apart,
it is longer than any condition looks back (`ToldIsSeen`). Conditions read the last candle and that many
before it only, so they are met alike and for the same reasons (`VisitSame`); and a group that is met
always has some (`VisitTells`), although the code decides one in `evaluateConditionGroup` and collects
the other in `describeInvalidation`.

Each inductive invariant was checked by TLC before it was proved, on the instance of the run, a larger or a
smaller one (for instance 81 588 states of `RollingBatch`, 9.3 million of `LiveOrders`, 506 173 of
`MemeMarket`, 667 386 of `LiveBars`, 437 329 of `Admission`, 1 074 256 of `Discovery`, 616 668 of `ChartDrawing`,
47 011 of `Shards`, 253 036 of `Candles`, 199 492 of the supply in `Lookups`, 2 562 320 of `BacktestRun`,
21 169 of `Results`, 2 443 of `Evidence`); the theorems
remove the bounds. The step lemmas first say which actions touch which variables, then prove one
part of the invariant per lemma or one action per lemma, whichever is shorter. Lemmas about the
operators they need (first elements of finite sets, enumerations, sequences without their head, the
least of a set of numbers) stand before them, or in `CommonTheorems`.

Only model-checked:

* every liveness property (`RunSettles`, `BatchEnds`, `OrdersSettle`, `Converges`,
  `EventuallyReady`): ENABLED and fairness are outside the prover;
* `EnginesAgree`: `Portfolio` sums accounts with folds, and the theorems of the library about folds
  take an operator, which the provers cannot instantiate. The modules that are proved about go
  round it: a recursion over a sequence is written as a recursive function, and the least length for
  which the claim fails is refuted (`Lookups`; `Shards` with the functions that deal out projects,
  `Candles` with the loops over bars, `Ledger` with those over rows, `Evidence` with the joining of
  rows); a sum over a set is one of a function (`Results`, `Ledger`, `Impulse`).

## 6. Findings

Met while modelling; each is the counterexample of a run.

1. **A second order after a lost answer** (`orders_twobuys`). `submitLive` answers a lost reply
   by storing `unknown` and then the hold, two statements in its catch block. If the first
   fails, the order stays `pending`, no hold is stored, and until the next refresh a bar of
   another token sends another order; `pending` is not counted in the exposure either.
2. **A hold for ever** (`orders_stuck`). `reconcileOrders` stores `failed` and then clears the
   hold. A crash in between leaves no open order to reconcile, so the clearing statement is
   never reached again.
3. **A session without a connection** (`market_stale`). `fail` interrupts the wanted projects
   only. One whose unsubscription is unanswered keeps its session; wanted again before the next
   acknowledgement, it counts as connected.
4. **Stored bars replaced by flat ones** (`bars_stored`). `applyHistory` commits candles and
   `last_candle_time`, then moves the memory to them only if the recovery is still valid. An
   interruption during the commit leaves the evaluator behind the row; the refresh takes over the
   row's time, so the next recovery asks for history after it and fills what the evaluator lacks
   with flat bars, although the real ones are stored.

Finding 3 has relatives once there are several connections, which `SessionsRight` sets apart
(`astray` in `Shards`). A project left over on a connection that is closed for want of projects
keeps its session. And a project that returns while its old connection has not yet given it up,
and is placed on another because the old one is full, gets its session from the new one and loses
it when the old one is answered: it stays subscribed, but its trades are thrown away until the
connection fails. The second needs more than 100 projects, or a server that offers less.

Seen while reading, not the subject of a run:

* `ProjectCache` says "Never expire successful supply", yet a `get` that fails while `fresh` is
  saving a ready record overwrites it with `failed` (`project-cache.ts` 91). And when `fresh`
  makes a supply known, the live service does not clear the block that its waiting trades set:
  `prepareProject` returns at once, since the supply is known (`live-service.ts` 118).
* The live window (`live.ts` 90) has `rightBars + 8` candles besides the look-back and one `leftBars`,
  and the mean volume before an impulse reads twice `leftBars` of them. With `leftBars` above
  `rightBars + 8` and a look-back that leaves the 512 candles too few, the live service may miss a
  candidate that a backtest selects. This came up in the proof of `ImpulseAlwaysAgrees`.
* After an error of `enqueue`, `createBacktest` sets the run to failed whatever its status is by
  then (`main.ts` 209): `DeclareFailed`. `reconcile` may have had it executed meanwhile, so a completed
  run with a report can become failed, may be retried and is executed again, to end as failed on the
  key of its report; `docs/portfolio-backtests.md` 43 says that completed runs are not executed again.
* An interruption while `onTrade` waits for `flushBars` leaves a bar made of the rest of its bucket. It is
  closed and stored like any other, although the comment above (`live-service.ts` 359) says such a bar is
  never persisted; strategies do not decide on it live (`BarsAgree`), but `meme_kline` has it as valid.
* "Restart cannot reset the three-attempt budget" (`project-cache.ts`, `load`) holds while Redis answers;
  `read` and `save` pass over its failures, as the tests want (`project-cache.test.ts` 60), and the
  attempts of that time are forgotten with the process (`BudgetKept`).
* The worker's `tradeNo` starts again at 1 when a token is admitted again (`live-service.ts` 348, 752), the
  API's numbers of the same positions go on (`RowsTellPositions`).
* `RunDetail.vue`: a click on a token while a periodic refresh starts is lost, and closing the
  token's panel during a refresh is undone.

## 7. Not modelled, and the plan

Not modelled, because nothing in them depends on an order of events that TLC could vary: the
other views of the web client (forms and tables; their requests are actions of the API modules),
single queries of the API (`fib`, project lookup, locator, batch grid), domain schemas and
wording, the operations sampler, migrations and deployment scripts, and the research and download
scripts that are run by hand. Of modelled parts: the idempotency table of `rerun`, the polling of the XXYY feed, the sampling of the capital curve, paging. Indicators
and money as floating-point numbers are outside TLC and TLAPS; the models keep the order of
events and let values be ranks, units or small whole numbers.

What is left to prove is the property that compares the accounts of the three engines
(`EnginesAgree`); it stays with TLC, as section 5 says.
