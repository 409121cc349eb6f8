SPECIFICATION Spec
CONSTANTS
  Cfg <- MCCfg
  Bars <- MCBars
  Scripts <- MCScripts
  MaxBars = 16
  WindowFloor = 1
  Rebase = 5
  Order <- MCOrder
  Plans <- MCPlans
  Batches <- MCBatches
  MaxSteps = 5
  Capital = 6000
  Stake = 2400
  CostPct = 25
  StopPct = 50
  TargetPct = 200
  MaxHolding = 2
  Tiers <- MCTiers
  SignalTime = 1
  MarketTrades <- MCTrades
  RunInterval = 2
  Start = 8
  MaxClock = 12
  MaxRepeats = 1
  MaxBreaks = 1
  HistoryClose = 3
  Ledgers <- MCLedgers
  PageSize = 2
  Batch = 1
  MaxFaults = 1
  Scenes <- MCScenes
  FirstRules <- MCFirstRules
  RuleSets <- MCRuleSets
  Caps = {2, 3}
  Limit = 1
  Modes = {"live"}
  Times = {1, 3}
  MaxAdmitted = 2
  Ranges = {r1, r2, r3, r4}
  Slots = 2
  MaxTries = 2
  Items <- MCItems
  MaxItems = 4
  MaxWaiting = 2
  MaxQueue = 2
  MaxTrades = 3
  TradeTimes = {1, 2}
  MaxOutages = 1
  Coins = {t1, t2}
  OrderAmount = 12
  Funds = 30
  Prices = {3}
  CostRate = 25
  MaxFills = 4
  Market <- MCMarket
  Terms = {"all", "a"}
  MaxDeeds = 3
  Symbols = {"x", "y"}
  Drawings <- MCDrawings
  FirstBars <- MCFirst
  MoreBars <- MCMore
  MaxActs = 2
  Callers = {"p", "q"}
  Contents = {"s"}
  MaxTemplates = 2
  MaxVersions = 3
  MaxBroken = 1
  Series <- MCSeries
  Groups <- MCGroups
  Swing <- MCSwing
  BarStep = 2
  ChunkSize = 2
  MaxPeriod = 3
  Mints = {"a", "b", "c"}
  PoolsOf <- MCPoolsOf
  SignalTimes = {1}
  Recorded <- MCRecorded
  MaxSignals = 2
  MaxAsked = 2
  RunPools <- MCRunPools
  Outcomes = {{}, {2}}
  Filters = {{}, {"add"}, {"timeout", "entry"}}
  LastTime = 3
  MaxBuys = 2
  ByKey <- MCByKey
  MaxConns = 2
  Offers = {1, 2}
  MaxMoves = 3
CHECK_DEADLOCK FALSE
INVARIANTS
  ImpulseAgrees
  EnginesAgree
  BarsAgree
  NoBuyLost
  CapacityHeld
  HeldIsWatched
  LookupsRight
  SessionsRight
  HandedOnInOrder
  LedgerTells
  ChainsWhole
  ChartComplete
  VersionsInOrder
  ReasonsAreTheEngines
  GatesHold
  ResultsAgree
PROPERTIES
  EvictedOnLowCap
