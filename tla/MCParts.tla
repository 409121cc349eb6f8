------------------------------- MODULE MCParts -------------------------------
(* The components of the system that need no fairness, checked one at a time:   *)
(* `part` selects the one that runs, the others keep one initial state, so      *)
(* that every part is explored in full and none multiplies another.             *)
EXTENDS Impulse, Portfolio, Candles, Discovery, Admission, Lookups, Ledger, CaSelection, ChartDrawing,
  Versions, Evidence, Datasets, Results, Shards

VARIABLE part

(* ------------------------------- Impulse ---------------------------------- *)
Bar(o, h, l, c, v) == [open |-> o, high |-> h, low |-> l, close |-> c, vol |-> v]
MCCfg == [leftBars |-> 1, rightBars |-> 1, lookbackBars |-> 5, maxDurationBars |-> 4, minGainPercent |-> 20,
  volumeExpansionRatio |-> 110, period |-> 3, obvBars |-> 3, oversold |-> 45, recovery |-> 55,
  maxRatio |-> 80, minRatio |-> 120, minBodyPercent |-> 5, zoneLow |-> 30, zoneHigh |-> 80,
  minPercent |-> 10, maxPercent |-> 40, minChangePercent |-> 20, ratio |-> 79]
Low  == Bar(11, 12, 10, 10, 1)
Mid  == Bar(11, 14, 11, 13, 2)
Top  == Bar(13, 17, 12, 16, 5)
MCBars == {Low, Mid, Top, Bar(14, 15, 12, 12, 3)}
MCScripts == {<<Mid, Low, Mid, Low, Low, Top, Mid, Low, Mid, Top>>, <<Mid, Mid, Mid, Mid, Low, Top, Low, Mid, Mid, Low, Mid>>}

(* ------------------------------ Portfolio --------------------------------- *)
On(px, met, invalid, keep, new) ==
  [bar |-> px, met |-> met, invalid |-> invalid, keep |-> keep, fresh |-> new, last |-> FALSE]
Px(o, h, l, c) == [open |-> o, high |-> h, low |-> l, close |-> c]
Still == Px(8, 8, 8, 8)
Rally == On(Px(8, 12, 8, 12), TRUE, FALSE, TRUE, 1)
Enters == On(Still, TRUE, FALSE, TRUE, 1)
Wait == On(Still, FALSE, FALSE, TRUE, 0)
Dip == Px(12, 12, 9, 9)
Both(x, y) == [a |-> x, b |-> y]
MCBatches == {
  Both(Enters, Enters), Both(Wait, Wait), Both(Rally, Rally),
  Both(On(Still, TRUE, FALSE, FALSE, 2), Wait),
  Both(On(Px(8, 8, 3, 6), TRUE, FALSE, TRUE, 1), Enters),
  Both(On(Dip, TRUE, FALSE, TRUE, 2), On(Dip, FALSE, FALSE, FALSE, 0)),
  Both(Wait, On(Px(12, 16, 12, 16), TRUE, FALSE, TRUE, 1)),
  [a |-> On(Still, TRUE, TRUE, TRUE, 1)],
  [a |-> [Enters EXCEPT !.last = TRUE]]}
Plan(r, l, re, mp, me, ce) ==
  [rule |-> r, lock |-> l, reentry |-> re, maxPos |-> mp, maxEntries |-> me, closeAtEnd |-> ce]
MCPlans == {Plan("pullback", TRUE, TRUE, 1, 2, FALSE), Plan("pullback", FALSE, TRUE, 2, 2, TRUE),
  Plan("legacy", FALSE, TRUE, 1, 1, TRUE), Plan("legacy", TRUE, FALSE, 2, 2, FALSE)}
MCOrder == <<"a", "b">>
MCTiers == <<[act |-> 25, floor |-> 0], [act |-> 50, floor |-> 25]>>

(* ------------------------------- Candles ---------------------------------- *)
T(i, t, p, m, v) == [id |-> i, time |-> t, price |-> p, mcap |-> m, vol |-> v]
MCTrades == {T(1, 9, 3, 5, 1), T(2, 9, 2, 6, 2), T(3, 11, 4, 0, 1), T(4, 12, 1, 7, 1)}

(* ------------------------------ Discovery --------------------------------- *)
Tx(failed, swap, d) ==
  [err |-> failed, signer |-> TRUE, swap |-> swap, paid |-> swap, delta |-> [t |-> d], passed |-> {"t"}, quotes |-> {}]
Acquired == Tx(FALSE, TRUE, 1)
MCLedgers == {<<Acquired, Acquired, Tx(FALSE, FALSE, 1), Acquired>>,
  <<Acquired, Tx(TRUE, TRUE, 1), Acquired, Tx(TRUE, TRUE, 1)>>}

(* ------------------------------ Admission --------------------------------- *)
Rule(on, min, exit) == [enabled |-> on, min |-> min, exit |-> exit]
Rules(x, y) == [memeinfo |-> x, xxyy |-> y]
MCFirstRules == Rules(Rule(TRUE, 3, 3), Rule(FALSE, 2, 2))
MCRuleSets == {Rules(Rule(TRUE, 4, 4), Rule(TRUE, 2, 2))}
Sig(t, p) == [ca |-> t, provider |-> p, time |-> 2, fit |-> TRUE]
Scene(S, n) == [signals |-> S, changes |-> n]
MCScenes == {Scene({Sig("a", "memeinfo"), Sig("b", "memeinfo")}, 0),
  Scene({Sig("a", "memeinfo"), Sig("a", "xxyy")}, 1), Scene({Sig("a", "memeinfo")}, 2)}

(* ------------------------------- Lookups ---------------------------------- *)
Item(t, v, bad) == [time |-> t, value |-> v, bad |-> bad]
MCItems == {Item(1, 1, FALSE), Item(1, 2, FALSE), Item(1, 3, TRUE), Item(2, 1, FALSE)}

(* ------------------------------ web client -------------------------------- *)
Ref(chain, ca) == [chain |-> chain, ca |-> ca]
MCMarket == <<{Ref("sol", "a"), Ref("sol", "b"), Ref("bsc", "a")}, {Ref("sol", "b")}>>
Charts(x, y) == [x |-> x, y |-> y]
MCDrawings == [marks |-> Charts({2}, {3}), external |-> Charts({2}, {}),
  fib |-> Charts({1}, {}), reference |-> Charts({}, {})]
MCFirst == Charts({1}, {3})
MCMore == Charts({2}, {})

(* ------------------------------- Evidence --------------------------------- *)
K(t, o, c, v) == [time |-> t, open |-> o, close |-> c, vol |-> v]
MCSeries == {
  <<K(0, 9, 9, 4), K(2, 9, 8, 1), K(8, 8, 7, 2), K(10, 7, 3, 2), K(12, 3, 5, 1)>>,
  <<K(0, 9, 9, 9), K(10, 9, 4, 3), K(12, 4, 3, 3), K(20, 3, 8, 1)>>,
  <<K(0, 9, 5, 1), K(5, 5, 4, 3), K(6, 4, 4, 1), K(13, 4, 3, 1)>>}
Leaf(t, p) == [type |-> t, on |-> TRUE, period |-> p]
Grp(m, n, ns) == [mode |-> m, min |-> n, on |-> TRUE, items |-> ns]
MCGroups == {
  Grp("any", 0, <<Leaf("fib", 0), Leaf("volume", 3)>>),
  Grp("all", 0, <<Leaf("volume", 2), Grp("any", 0, <<Leaf("swing", 0), Leaf("fib", 0)>>)>>),
  Grp("threshold", 2, <<Leaf("swing", 0), [Leaf("rsi", 0) EXCEPT !.on = FALSE],
                        Grp("all", 0, <<Leaf("fib", 0)>>), Leaf("volume", 1)>>),
  Grp("any", 0, <<Leaf("rsi", 0), Grp("threshold", 0, <<Leaf("swing", 0)>>)>>),
  Grp("any", 0, <<Leaf("volume", 4)>>)}
MCSwing == [low |-> 4, high |-> 8]

(* ------------------------------- Shards ----------------------------------- *)
MCByKey == <<"a", "b", "c">>

(* -------------------------- datasets and results -------------------------- *)
PoolOf(pair, from, to) == [pair |-> pair, from |-> from, to |-> to]
MCPoolsOf == [a |-> {PoolOf("p", 3, 6), PoolOf("q", 0, 0)}, b |-> {PoolOf("r", 1, 3)}, c |-> {PoolOf("s", 0, 0)}]
MCRecorded == {[events |-> {Gate("a", 4)}, info |-> [a |-> 4, b |-> 0, c |-> 0]],
  [events |-> {Gate("b", 3), Gate("c", 2)}, info |-> [a |-> 2, b |-> 3, c |-> 2]]}
MCRunPools == {[ca |-> "a", pair |-> "p"], [ca |-> "a", pair |-> "q"]}

(* ------------------------------ one at a time ------------------------------ *)
Rest(p, selected) == part = p \/ selected
Init ==
  /\ part \in {"impulse", "portfolio", "candles", "discovery", "admission", "history", "items", "supply",
               "ledger", "selection", "chart", "versions", "evidence", "datasets", "results", "shards"}
  /\ ImpulseInit /\ Rest("impulse", rule = "legacy" /\ opening = CHOOSE s \in Scripts : TRUE)
  /\ PortfolioInit /\ Rest("portfolio", plan = CHOOSE p \in Plans : TRUE)
  /\ CandlesInit
  /\ DiscoveryInit /\ Rest("discovery", ledger = CHOOSE l \in Ledgers : TRUE)
  /\ AdmissionInit /\ Rest("admission", changes = 2)
  /\ HistoryInit /\ items = <<>> /\ SupplyInit
  /\ LedgerInit /\ Rest("ledger", identified)
  /\ SelectionInit /\ Rest("selection", form.dim = 1)
  /\ ChartInit /\ Rest("chart", chart.symbol = "x")
  /\ VersionsInit
  /\ EvidenceInit
  /\ Rest("evidence", version = "old" /\ group = (CHOOSE g \in Groups : TRUE) /\ frozen = Chunked(CHOOSE s \in Series : TRUE))
  /\ DatasetsInit /\ Rest("datasets", signals = (CHOOSE r \in Recorded : TRUE).events)
  /\ ResultsInit /\ Rest("results", numbered)
  /\ ShardsInit
Next ==
  /\ UNCHANGED part
  /\ \/ part = "impulse" /\ UNCHANGED <<pvars, cvars, dvars, avars, hvars, items, svars, wvars, uvars, kvars, vvars, evars, tvars, rvars, fvars>>
        /\ ImpulseNext
     \/ part = "portfolio" /\ UNCHANGED <<ivars, cvars, dvars, avars, hvars, items, svars, wvars, uvars, kvars, vvars, evars, tvars, rvars, fvars>>
        /\ PortfolioNext
     \/ part = "candles" /\ UNCHANGED <<ivars, pvars, dvars, avars, hvars, items, svars, wvars, uvars, kvars, vvars, evars, tvars, rvars, fvars>>
        /\ CandlesNext
     \/ part = "discovery" /\ UNCHANGED <<ivars, pvars, cvars, avars, hvars, items, svars, wvars, uvars, kvars, vvars, evars, tvars, rvars, fvars>>
        /\ DiscoveryNext
     \/ part = "admission" /\ UNCHANGED <<ivars, pvars, cvars, dvars, hvars, items, svars, wvars, uvars, kvars, vvars, evars, tvars, rvars, fvars>>
        /\ AdmissionNext
     \/ part = "history" /\ UNCHANGED <<ivars, pvars, cvars, dvars, avars, items, svars, wvars, uvars, kvars, vvars, evars, tvars, rvars, fvars>>
        /\ HistoryNext
     \/ part = "items" /\ UNCHANGED <<ivars, pvars, cvars, dvars, avars, hvars, svars, wvars, uvars, kvars, vvars, evars, tvars, rvars, fvars>>
        /\ NextItem
     \/ part = "supply" /\ UNCHANGED <<ivars, pvars, cvars, dvars, avars, hvars, items, wvars, uvars, kvars, vvars, evars, tvars, rvars, fvars>>
        /\ SupplyNext
     \/ part = "ledger" /\ UNCHANGED <<ivars, pvars, cvars, dvars, avars, hvars, items, svars, uvars, kvars, vvars, evars, tvars, rvars, fvars>>
        /\ LedgerNext
     \/ part = "selection" /\ UNCHANGED <<ivars, pvars, cvars, dvars, avars, hvars, items, svars, wvars, kvars, vvars, evars, tvars, rvars, fvars>>
        /\ SelectionNext
     \/ part = "chart" /\ UNCHANGED <<ivars, pvars, cvars, dvars, avars, hvars, items, svars, wvars, uvars, vvars, evars, tvars, rvars, fvars>>
        /\ ChartNext
     \/ part = "versions" /\ UNCHANGED <<ivars, pvars, cvars, dvars, avars, hvars, items, svars, wvars, uvars, kvars, evars, tvars, rvars, fvars>>
        /\ VersionsNext
     \/ part = "evidence" /\ UNCHANGED <<ivars, pvars, cvars, dvars, avars, hvars, items, svars, wvars, uvars, kvars, vvars, tvars, rvars, fvars>>
        /\ EvidenceNext
     \/ part = "datasets" /\ UNCHANGED <<ivars, pvars, cvars, dvars, avars, hvars, items, svars, wvars, uvars, kvars, vvars, evars, rvars, fvars>>
        /\ DatasetsNext
     \/ part = "shards" /\ UNCHANGED <<ivars, pvars, cvars, dvars, avars, hvars, items, svars, wvars, uvars, kvars, vvars, evars, tvars, rvars>>
        /\ ShardsNext
     \/ part = "results" /\ UNCHANGED <<ivars, pvars, cvars, dvars, avars, hvars, items, svars, wvars, uvars, kvars, vvars, evars, tvars, fvars>>
        /\ ResultsNext
Spec == Init /\ [][Next]_<<part, ivars, pvars, cvars, dvars, avars, hvars, items, svars, wvars, uvars, kvars, vvars, evars, tvars, rvars, fvars>>

(* ------------------------- properties of a part --------------------------- *)
(* Another part's variables keep their initial values, so a property need only  *)
(* be evaluated where its part runs.                                            *)

(* The resumable backtest makes the trades of the reference backtest, and the   *)
(* paper account those of both; no program spends more than the one account     *)
(* holds, or buys again on the candle that sold.                                *)
EnginesAgree ==
  part = "portfolio" => ReferenceAgrees /\ PaperAgrees /\ SharedAccount /\ NoReentryOnSale
=============================================================================
