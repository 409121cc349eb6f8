------------------------------- MODULE Lookups -------------------------------
(* What the live worker looks up elsewhere: HistoryClient asks for past bars,  *)
(* two requests at a time; ProjectCache asks for a project's supply, with a    *)
(* ledger of attempts kept in memory and, when Redis answers, across restarts; *)
(* and trades without a market cap wait for the supply.  One project is        *)
(* modelled, one step per await.                                               *)
EXTENDS Integers, Sequences, FiniteSets, SequencesExt

CONSTANTS
  Ranges,            \* history requests that differ
  Slots,             \* 2 in the code
  MaxTries,          \* 3 in the code, of a history request and of a supply
  Items, MaxItems,    \* [time, value, bad]: items of an answer; bound on their number
  MaxWaiting, MaxQueue,   \* 256 and 2000 in the code
  TradeTimes, MaxTrades,  \* places of a trade in the market; bound on their number
  MaxOutages         \* bound on the calls to Redis that fail

VARIABLES
  req,      \* HistoryClient: per range [at, tries], in flight or at rest
  active, line,  \* slots taken; requests that wait for one, in order
  closed,   \* close() was called
  items,    \* the answer that parseHistory reads
  mem, store,    \* ProjectCache: the record in memory and in Redis
  get, fresh,    \* the two lookups: where they stand
  asked,    \* history: lookups get has sent, [life, ever]: since the start of the
            \* process and in all
  unread, unsaved,  \* history: reads and writes of Redis that failed
  pipe      \* trades of the project: see PipeInit
hvars == <<req, active, line, closed>>
redis == <<store, unread, unsaved>>
svars == <<mem, redis, get, fresh, asked, pipe>>
ASSUME LookupsAssumption == Slots \in Nat /\ MaxTries \in Nat /\ TradeTimes \subseteq Nat

(* ------------------------------ HistoryClient ----------------------------- *)
Idle == [at |-> "rest", tries |-> 0]
HistoryInit == req = [r \in Ranges |-> Idle] /\ active = 0 /\ line = <<>> /\ closed = FALSE

(* limited: take a slot or wait for one; whoever leaves hands its slot over.   *)
Enter(r, tries) ==
  IF active >= Slots
  THEN req' = [req EXCEPT ![r] = [at |-> "waiting", tries |-> tries]] /\ line' = Append(line, r) /\ UNCHANGED active
  ELSE req' = [req EXCEPT ![r] = [at |-> "entered", tries |-> tries]] /\ active' = active + 1 /\ UNCHANGED line
\* Mutant: a slot that is handed on is given back as well.
Leave_BeforeHandOver(r, place) ==
  /\ active' = active - 1 /\ line' = IF line = <<>> THEN line ELSE Tail(line)
  /\ req' = IF line = <<>> THEN [req EXCEPT ![r] = place] ELSE [req EXCEPT ![r] = place, ![Head(line)].at = "entered"]
Leave(r, place) ==
  IF line = <<>>
  THEN active' = active - 1 /\ req' = [req EXCEPT ![r] = place] /\ UNCHANGED line
  ELSE req' = [req EXCEPT ![r] = place, ![Head(line)].at = "entered"] /\ line' = Tail(line) /\ UNCHANGED active

(* get: whoever asks for a range that is in flight shares its answer.          *)
Ask(r) == req[r] = Idle /\ Enter(r, 0) /\ UNCHANGED closed
Send(r) ==
  /\ req[r].at = "entered"
  /\ IF closed THEN Leave(r, Idle) ELSE req' = [req EXCEPT ![r].at = "sent"] /\ UNCHANGED <<active, line>>
  /\ UNCHANGED closed
(* The answer, an error that may be tried again, or one that may not; close    *)
(* aborts what is sent.                                                        *)
Answer(r) ==
  /\ req[r].at = "sent"
  /\ \/ Leave(r, Idle)
     \/ ~closed /\ req[r].tries < MaxTries - 1 /\ Leave(r, [at |-> "delay", tries |-> req[r].tries + 1])
  /\ UNCHANGED closed
Retry(r) == req[r].at = "delay" /\ Enter(r, req[r].tries) /\ UNCHANGED closed
Close == ~closed /\ closed' = TRUE /\ UNCHANGED <<req, active, line>>

(* parseHistory: one item after the other; a time with two different bars has  *)
(* none.  rows: time -> bar, conflicts: the times given up.                    *)
Without(rows, t) == [u \in DOMAIN rows \ {t} |-> rows[u]]
\* Mutant: a time that was given up is not remembered.
ReadItem_LastWins(acc, b) ==
  IF b.bad THEN acc
  ELSE IF b.time \in DOMAIN acc.rows /\ acc.rows[b.time] # b THEN [acc EXCEPT !.rows = Without(@, b.time)]
  ELSE [acc EXCEPT !.rows = [u \in DOMAIN @ \cup {b.time} |-> IF u = b.time THEN b ELSE @[u]]]
ReadItem(acc, b) ==
  IF b.bad \/ b.time \in acc.conflicts THEN acc
  ELSE IF b.time \in DOMAIN acc.rows /\ acc.rows[b.time] # b
  THEN [rows |-> Without(acc.rows, b.time), conflicts |-> acc.conflicts \cup {b.time}]
  ELSE [acc EXCEPT !.rows = [u \in DOMAIN @ \cup {b.time} |-> IF u = b.time THEN b ELSE @[u]]]
Parsed(s) ==
  LET read[i \in 0..Len(s)] == IF i = 0 THEN [rows |-> <<>>, conflicts |-> {}] ELSE ReadItem(read[i - 1], s[i])
  IN ToSet(read[Len(s)].rows)
NextItem == Len(items) < MaxItems /\ \E b \in Items : items' = Append(items, b)

HistoryNext ==
  \/ \E r \in Ranges : Ask(r) \/ Send(r) \/ Answer(r) \/ Retry(r)
  \/ Close

(* ------------------------------ ProjectCache ------------------------------ *)
NoRecord == [status |-> "none", attempts |-> 0]
Failed(n) == [status |-> "failed", attempts |-> n]
Supplied(n) == [status |-> "ready", attempts |-> n]
NoLookup == [at |-> "rest", n |-> 0]
PipeInit ==   \* trades so far; waiting for the supply; handed to the queue; blocked
  pipe = [n |-> 0, waiting |-> <<>>, queue |-> <<>>, blocked |-> FALSE]
SupplyInit ==
  /\ mem = NoRecord /\ store = NoRecord /\ unread = 0 /\ unsaved = 0
  /\ get = NoLookup /\ fresh = NoLookup /\ asked = [life |-> 0, ever |-> 0] /\ PipeInit

(* read and save: what memory does not hold comes from Redis, and what is      *)
(* saved goes to both; a call to Redis that fails is passed over.              *)
RedisFails == unread + unsaved < MaxOutages
ReadRecord(r) ==
  \/ r = (IF mem # NoRecord THEN mem ELSE store) /\ UNCHANGED unread
  \/ mem = NoRecord /\ r = NoRecord /\ RedisFails /\ unread' = unread + 1
SaveRecord(r) ==
  /\ mem' = r
  /\ \/ store' = r /\ UNCHANGED unsaved
     \/ RedisFails /\ unsaved' = unsaved + 1 /\ UNCHANGED store

(* get, when none is pending: it is known, no attempt is left or the back-off   *)
(* another process wrote is not over, or the attempt is saved before the        *)
(* request.                                                                     *)
MayGet == get = NoLookup /\ mem.status # "ready" /\ mem.attempts < MaxTries
BeginGet == get' = [at |-> "asked", n |-> 0]
StartGet ==
  /\ get.at = "asked"
  /\ \E r \in {mem, store, NoRecord} :
       /\ ReadRecord(r)
       /\ \/ /\ r.status = "ready" /\ get' = [at |-> "answered", n |-> 0]
             /\ mem' = r /\ UNCHANGED <<store, unsaved>>
          \/ /\ r.status # "ready" /\ (r.attempts >= MaxTries \/ (mem = NoRecord /\ r # NoRecord))
             /\ get' = [at |-> "refused", n |-> 0]
             /\ mem' = r /\ UNCHANGED <<store, unsaved>>
          \/ /\ r.status # "ready" /\ r.attempts < MaxTries /\ SaveRecord(Failed(r.attempts + 1))
             /\ get' = [at |-> "sent", n |-> r.attempts + 1]
  /\ UNCHANGED <<fresh, asked, pipe>>
SendGet ==
  /\ get.at = "sent" /\ get' = [get EXCEPT !.at = "lookup"]
  /\ asked' = [life |-> asked.life + 1, ever |-> asked.ever + 1]
  /\ UNCHANGED <<mem, redis, fresh, pipe>>
GetAnswered ==
  /\ get.at = "lookup"
  /\ \/ SaveRecord(Supplied(get.n)) /\ get' = [get EXCEPT !.at = "answered"]
     \/ SaveRecord(Failed(get.n)) /\ get' = [get EXCEPT !.at = "refused"]
  /\ UNCHANGED <<unread, fresh, asked, pipe>>

(* fresh: what is known for less than a minute, or a new lookup.               *)
StartFresh ==
  /\ fresh = NoLookup /\ fresh' = [at |-> "lookup", n |-> 0]
  /\ \E r \in {mem, store, NoRecord} : ReadRecord(r) /\ mem' = r
  /\ UNCHANGED <<store, unsaved, get, asked, pipe>>
FreshAnswered ==
  /\ fresh.at = "lookup" /\ fresh' = NoLookup
  /\ SaveRecord(Supplied(0)) \/ UNCHANGED <<mem, store, unsaved>>
  /\ UNCHANGED <<unread, get, asked, pipe>>

(* ----------------------- trades that wait for the supply ------------------- *)
(* A trade is [n, time, group]: the n-th to come; its place in the market,      *)
(* which stands for trade_time and event_id; and the first of those it waited   *)
(* with, itself if it did not wait.                                             *)
Reset == [pipe EXCEPT !.waiting = <<>>, !.queue = <<>>, !.blocked = FALSE]
\* Mutant: only the trade itself decides whether it waits.
Passes_ByOwnCap(f, ws) == ws \/ mem.status = "ready"
Passes(f, ws) == (ws \/ mem.status = "ready") /\ ~f.blocked
(* receiveTrade, of a strategy on market caps; ws: the trade brings its own.   *)
\* An overflow interrupts the token: what comes after it is of an old session.
HandOn(f, ks) ==
  IF Len(f.queue) + Len(ks) > MaxQueue THEN [Reset EXCEPT !.n = f.n] ELSE [f EXCEPT !.queue = @ \o ks]
Group(f) == IF f.waiting = <<>> THEN f.n ELSE f.waiting[1].group
ReceiveTrade ==
  /\ pipe.n < MaxTrades
  /\ \E ws \in BOOLEAN, at \in TradeTimes :
       LET f == [pipe EXCEPT !.n = @ + 1] IN
       IF Passes(f, ws) THEN pipe' = HandOn(f, <<[n |-> f.n, time |-> at, group |-> f.n]>>) /\ UNCHANGED get
       ELSE IF get = NoLookup /\ mem = Failed(MaxTries) THEN pipe' = [f EXCEPT !.blocked = TRUE] /\ UNCHANGED get
       ELSE IF Len(f.waiting) >= MaxWaiting THEN pipe' = [Reset EXCEPT !.n = f.n] /\ UNCHANGED get
       ELSE /\ pipe' = [f EXCEPT !.waiting = Append(@, [n |-> f.n, time |-> at, group |-> Group(f)]), !.blocked = TRUE]
            /\ IF MayGet THEN BeginGet \/ UNCHANGED get ELSE UNCHANGED get
  /\ UNCHANGED <<mem, redis, fresh, asked>>
(* prepareProject, again at each refresh and after the back-off                *)
Prepare == MayGet /\ BeginGet /\ UNCHANGED <<mem, redis, fresh, asked, pipe>>
(* The promise of get settles: what waits is sorted as the market had it and    *)
(* received again, is given up with the last attempt, or waits on.              *)
BeforeIn(a, b) == a.time < b.time \/ (a.time = b.time /\ a.n < b.n)
Sorted(ks) ==
  {s \in [1..Len(ks) -> ToSet(ks)] : ToSet(s) = ToSet(ks) /\ \A i, j \in 1..Len(ks) : i < j => BeforeIn(s[i], s[j])}
GetSettles ==
  /\ get.at \in {"answered", "refused"} /\ get' = NoLookup
  /\ \/ /\ get.at = "answered"
        /\ \E s \in Sorted(pipe.waiting) : pipe' = HandOn([pipe EXCEPT !.waiting = <<>>, !.blocked = FALSE], s)
     \/ /\ get.at = "refused"
        /\ pipe' = IF mem.attempts >= MaxTries THEN [pipe EXCEPT !.waiting = <<>>] ELSE pipe
  /\ UNCHANGED <<mem, redis, fresh, asked>>
HandleTrade == pipe.queue # <<>> /\ pipe' = [pipe EXCEPT !.queue = Tail(@)] /\ UNCHANGED <<mem, redis, get, fresh, asked>>
Interrupted == pipe # Reset /\ pipe' = Reset /\ UNCHANGED <<mem, redis, get, fresh, asked>>

RestartCache ==
  /\ mem # NoRecord /\ mem' = NoRecord /\ get' = NoLookup /\ fresh' = NoLookup /\ pipe' = Reset
  /\ asked' = [asked EXCEPT !.life = 0]
  /\ UNCHANGED redis

SupplyNext ==
  \/ StartGet \/ SendGet \/ GetAnswered \/ StartFresh \/ FreshAnswered \/ ReceiveTrade \/ Prepare
  \/ GetSettles \/ HandleTrade \/ Interrupted \/ RestartCache

(* No slot is lost and none is shared: the slots taken are those of the        *)
(* requests that run, and nobody waits while one is free.                      *)
SlotsKept ==
  /\ active = Cardinality({r \in Ranges : req[r].at \in {"entered", "sent"}}) /\ active <= Slots
  /\ line # <<>> => active = Slots
(* Whatever the order of the items, the bars read are those of the times for   *)
(* which all valid items agree.                                                *)
ReadAlike ==
  Parsed(items) = {b \in ToSet(items) : ~b.bad /\ \A c \in ToSet(items) : ~c.bad /\ c.time = b.time => c = b}
(* A supply is asked for three times at most by one process, whatever Redis    *)
(* does, and by all of them together as well while Redis answers: a write that *)
(* fails buys one lookup more at most, a read that fails a new budget.         *)
BudgetKept == asked.life <= MaxTries /\ asked.ever <= MaxTries * (1 + unread) + unsaved
(* A slot taken is given back or handed on, a supply is looked up at most as    *)
(* often as its budget allows, whatever fails in between; and what is kept of   *)
(* an answer does not depend on the order of its rows.                          *)
LookupsRight == SlotsKept /\ BudgetKept /\ ReadAlike
(* Trades reach the queue in the order they came, whether they waited for the   *)
(* supply or brought a cap of their own; only those that waited together come   *)
(* in the order of the market, and nothing gets between them.                   *)
HandedOnInOrder ==
  \A i, j \in 1..Len(pipe.queue) : LET a == pipe.queue[i] b == pipe.queue[j] IN
    i < j => IF a.group = b.group THEN BeforeIn(a, b) ELSE a.n < b.n
=============================================================================
