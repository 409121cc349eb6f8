---------------------------- MODULE ChartDrawing ----------------------------
(* TradingViewChart: what is drawn on a chart whose bars, events and shapes    *)
(* all arrive later.  Each mount is a version with a widget of its own; each   *)
(* layer of drawings has an epoch, so that a drawing overtaken by a newer one  *)
(* takes back what it has put on the chart.  A drawing is a time here: it is   *)
(* drawn only if the bar of that time is loaded.  The visible range is left    *)
(* out: everything is in it; and requests of an older version are aborted.     *)
EXTENDS Integers, FiniteSets, FiniteSetsExt

CONSTANTS
  Symbols,
  Drawings,    \* layer -> symbol -> the times of its events
  FirstBars, MoreBars,  \* symbol -> times, in the history of the mount and loaded later
  MaxActs      \* bound: what users, timers and failures do

VARIABLES
  chart,    \* [version, symbol, widget, ready, external, showExternal, showFib, selected, error]
  loadedTimes,  \* the times of the bars that are loaded
  epoch, tracked,   \* per layer: the epoch; the shapes known: shapeMap, externalIds, fibIds, referenceId
  canvas,   \* the shapes that are on the widget
  jobs,     \* awaits: [kind, v, epoch, todo]
  timer,    \* whether the refresh of the markers is scheduled
  acts
kvars == <<chart, loadedTimes, epoch, tracked, canvas, jobs, timer, acts>>

Layers == {"marks", "external", "fib", "reference"}
Nothing == 0
Moments == Nat \ {Nothing}
ASSUME DrawingsAssumption ==
  /\ Drawings \in [Layers -> [Symbols -> SUBSET Moments]] /\ \A l \in Layers, x \in Symbols : IsFiniteSet(Drawings[l][x])
  /\ FirstBars \in [Symbols -> SUBSET Moments] /\ MoreBars \in [Symbols -> SUBSET Moments]
Picture == [c |-> chart, b |-> loadedTimes, e |-> epoch, k |-> tracked, s |-> canvas, j |-> jobs, t |-> timer]
Shows(p) ==
  /\ chart' = p.c /\ loadedTimes' = p.b /\ epoch' = p.e /\ tracked' = p.k
  /\ canvas' = p.s /\ jobs' = p.j /\ timer' = p.t

Await(p, kind, todo) ==
  [p EXCEPT !.j = @ \cup {[kind |-> kind, v |-> p.c.version, epoch |-> IF kind \in Layers THEN p.e[kind] ELSE 0, todo |-> todo]}]
(* The drawings of a layer go: clearMarkers, clearExternal and the like.       *)
Wipe(p, layer) == [p EXCEPT !.e[layer] = @ + 1, !.s = @ \ p.k[layer], !.k[layer] = {}]
Loaded(p, layer) == {t \in Drawings[layer][p.c.symbol] : t \in p.b}
Draw(p, layer, items) == IF items = {} THEN p ELSE Await(p, layer, items)
Draws(p, layer, items) == Draw(Wipe(p, layer), layer, items)
DrawExternal(p) ==
  Draws(p, "external", IF p.c.showExternal /\ p.c.external THEN Loaded(p, "external") ELSE {})
DrawFib(p) == Draws(p, "fib", IF p.c.showFib THEN Loaded(p, "fib") ELSE {})
DrawReference(p) ==
  IF p.c.ready /\ p.c.selected # Nothing /\ p.c.selected \in p.b THEN Draws(p, "reference", {p.c.selected}) ELSE p
(* loadMarkers: the rows first, under a new epoch of the markers.              *)
LoadMarkers(p) ==
  LET q == [p EXCEPT !.e["marks"] = @ + 1] IN
  [q EXCEPT !.j = @ \cup {[kind |-> "rows", v |-> q.c.version, epoch |-> q.e["marks"], todo |-> {}]}]
RefreshMarkers(p) == DrawExternal(LoadMarkers(Wipe(p, "marks")))
ScheduleMarkers(p) ==
  IF ~p.c.ready THEN p ELSE [Wipe(Wipe(p, "marks"), "external") EXCEPT !.t = TRUE]

(* clearSelection, reset: a new version, the widget and all its shapes go.     *)
NoSelection(p) == [p EXCEPT !.c.selected = Nothing, !.e["reference"] = @ + 1, !.s = @ \ p.k["reference"], !.k["reference"] = {}]
ResetChart(p) ==
  LET q == NoSelection(p) IN
  [q EXCEPT !.c.version = @ + 1, !.c.ready = FALSE, !.c.widget = 0, !.b = {}, !.t = FALSE, !.s = {},
            !.e["fib"] = @ + 1, !.e["marks"] = @ + 1, !.k["fib"] = {}, !.k["marks"] = {},
            !.j = {j \in @ : j.kind \in Layers}]
(* mountChart, up to its history; the requests of the old version are aborted. *)
MountChart(p, focus) ==
  LET q == ResetChart(Wipe(p, "external"))
      r == [q EXCEPT !.c.external = FALSE, !.c.error = FALSE]
  IN Await(Await(r, "externalRows", {}), "history", focus)

ChartInit ==
  /\ \E s \in Symbols :
       LET p == MountChart([c |-> [version |-> 0, symbol |-> s, widget |-> 0, ready |-> FALSE, external |-> FALSE,
                   showExternal |-> TRUE, showFib |-> TRUE, selected |-> Nothing, error |-> FALSE],
                 b |-> {}, e |-> [l \in Layers |-> 0], k |-> [l \in Layers |-> {}], s |-> {}, j |-> {}, t |-> FALSE], {})
       IN chart = p.c /\ loadedTimes = p.b /\ epoch = p.e /\ tracked = p.k /\ canvas = p.s /\ jobs = p.j /\ timer = p.t
  /\ acts = 0

Acts(p) == acts < MaxActs /\ acts' = acts + 1 /\ Shows(p)
Settles(j, p) == Shows([p EXCEPT !.j = @ \ {j}]) /\ UNCHANGED acts
Of(j) == j.v = chart.version

(* The history, and with it the widget; focusEvent then selects its event.     *)
HistoryLoads(j) ==
  /\ j.kind = "history"
  /\ LET p == [Picture EXCEPT !.b = FirstBars[chart.symbol] \cup {t \in j.todo : t \in MoreBars[chart.symbol]}, !.c.widget = j.v]
         q == IF j.todo = {} THEN p ELSE [p EXCEPT !.c.selected = CHOOSE t \in j.todo : TRUE]
     IN Settles(j, IF Of(j) THEN q ELSE Picture)
ExternalLoads(j) ==
  /\ j.kind = "externalRows"
  /\ LET p == [Picture EXCEPT !.c.external = TRUE] IN
     Settles(j, IF ~Of(j) THEN Picture ELSE IF chart.ready THEN DrawExternal(p) ELSE p)
ChartReady ==
  /\ chart.widget # 0 /\ ~chart.ready
  /\ LET p == [Picture EXCEPT !.c.ready = TRUE] IN Shows(LoadMarkers(DrawFib(RefreshMarkers(DrawReference(p)))))
  /\ UNCHANGED acts
(* The rows of the markers have come: those whose bars are loaded are drawn.   *)
RowsLoad(j) ==
  /\ j.kind = "rows"
  /\ LET p == [Picture EXCEPT !.s = @ \ tracked["marks"], !.k["marks"] = {}] IN
     Settles(j, IF Of(j) /\ j.epoch = epoch["marks"] THEN Draw(p, "marks", Loaded(p, "marks")) ELSE Picture)

(* createShape has answered: whoever is overtaken removes the shape again.     *)
(* Mutant: only another mount overtakes a drawing.                             *)
StillCurrent_VersionOnly(j) == Of(j)
StillCurrent(j) == j.epoch = epoch[j.kind] /\ (Of(j) \/ j.kind = "reference")
Made(j) ==
  /\ j.kind \in Layers
  /\ LET t == Min(j.todo)
         shape == [layer |-> j.kind, time |-> t, epoch |-> j.epoch, v |-> j.v]
         p == [Picture EXCEPT !.s = IF chart.widget = j.v THEN @ \cup {shape} ELSE @, !.k[j.kind] = @ \cup {shape},
                 !.j = IF j.todo = {t} THEN @ ELSE @ \cup {[j EXCEPT !.todo = j.todo \ {t}]}]
     IN Settles(j, IF StillCurrent(j) THEN p ELSE Picture)
CallFails(j) ==
  /\ j.kind \in {"rows", "history", "externalRows"} /\ acts < MaxActs /\ acts' = acts + 1
  /\ Shows([Picture EXCEPT !.j = @ \ {j}, !.c.error = @ \/ Of(j)])

TimerFires == timer /\ Shows(RefreshMarkers([Picture EXCEPT !.t = FALSE])) /\ UNCHANGED acts
(* getBars has loaded more of the history.                                     *)
BarsLoad ==
  /\ chart.widget # 0
  /\ LET p == ScheduleMarkers([Picture EXCEPT !.b = @ \cup MoreBars[chart.symbol]]) IN Acts(IF chart.ready THEN DrawFib(p) ELSE p)
RangeMoves == chart.ready /\ Acts(ScheduleMarkers(Picture))
ShowSymbol == \E s \in Symbols : Acts(MountChart([Picture EXCEPT !.c.symbol = s], {}))
Focus == \E t \in Drawings["marks"][chart.symbol] : Acts(MountChart(Picture, {t}))
Select == chart.ready /\ \E s \in tracked["marks"] : Acts(DrawReference([Picture EXCEPT !.c.selected = s.time]))
ToggleExternal ==
  LET p == [Picture EXCEPT !.c.showExternal = ~@] IN Acts(IF chart.ready THEN DrawExternal(p) ELSE p)
ToggleFib == LET p == [Picture EXCEPT !.c.showFib = ~@] IN Acts(IF chart.ready THEN DrawFib(p) ELSE p)

ChartNext ==
  \/ ChartReady \/ TimerFires \/ BarsLoad \/ RangeMoves \/ ShowSymbol \/ Focus \/ Select \/ ToggleExternal \/ ToggleFib
  \/ \E j \in jobs : HistoryLoads(j) \/ ExternalLoads(j) \/ RowsLoad(j) \/ Made(j) \/ CallFails(j)

(* Once nothing is under way and nothing has failed, the chart shows of each   *)
(* layer the drawings of its symbol whose bars are loaded, each of them once,  *)
(* whatever was overtaken on the way.                                          *)
Wanted(layer) ==
  CASE layer = "marks" -> Loaded(Picture, layer)
    [] layer = "external" -> IF chart.showExternal THEN Loaded(Picture, layer) ELSE {}
    [] layer = "fib" -> IF chart.showFib THEN Loaded(Picture, layer) ELSE {}
    [] layer = "reference" -> {chart.selected} \cap loadedTimes
ChartComplete ==
  jobs = {} /\ ~timer /\ chart.ready /\ ~chart.error =>
    \A l \in Layers : LET drawn == {s \in canvas : s.layer = l} IN
      {s.time : s \in drawn} = Wanted(l) /\ Cardinality(drawn) = Cardinality(Wanted(l)) /\ drawn = tracked[l]
=============================================================================
