-------------------------------- MODULE Shards --------------------------------
(* MemeMarketFeed: the projects the live service wants are spread over several *)
(* connections.  A connection keeps its projects when others come and go; it   *)
(* gives a project up only when the server confirms it, while the project may  *)
(* already be wanted again, elsewhere.  LiveService knows of a project only    *)
(* whether it has a session.  How one connection works is module MemeMarket:   *)
(* here its requests are confirmed, rejected or cut off, and it sends the next *)
(* one at any time (pump runs in every handler and on a timer).                *)
EXTENDS Integers, Sequences, FiniteSets, SequencesExt

CONSTANTS
  ByKey,        \* the projects, in the order of their keys
  MaxConns,     \* 10 in the code
  Offers,       \* what a server's hello may say of its capacity
  MaxMoves      \* bound: what the live service, the server and the network do

VARIABLES
  desired,      \* the projects wanted now
  capacity,     \* projects of a connection
  conns,        \* connections, oldest first: [id, projects, has, after, state]
  sessions,     \* project -> connection whose ready counts, 0 for none (marketSessions)
  newId,
  moves,
  astray,       \* history: projects whose connection had not let them go when it failed,
                \* was closed, or another one got them
  shifted       \* history: projects that changed a connection which went on
ASSUME ShardsAssumption ==
  /\ ByKey \in Seq(ToSet(ByKey)) /\ IsInjective(ByKey) /\ "none" \notin ToSet(ByKey)
  /\ MaxConns \in Nat /\ Offers \subseteq Nat \ {0}
fvars == <<desired, capacity, conns, sessions, newId, moves, astray, shifted>>

Unasked == {"none"}   \* no request is unanswered
Unheard(ps) == [p \in DOMAIN sessions |-> IF p \in ps THEN 0 ELSE sessions[p]]
Conn(id, ps) == [id |-> id, projects |-> ps, has |-> {}, after |-> Unasked, state |-> "hello"]
Wants(c) == ToSet(c.projects)
(* What a connection no longer wants and the server still has, or will have.   *)
Unwanted(c) == c.has \ Wants(c)
Pending(c) == (c.has \cup (c.after \ Unasked)) \ Wants(c)
At(cs, p) == {c.id : c \in {d \in ToSet(cs) : p \in Wants(d)}}
Ids(cs) == {c.id : c \in ToSet(cs)}

(* ------------------------------ setProjects ------------------------------- *)
Less(m, n) == IF m < n THEN m ELSE n
\* What of a sequence is in a set, in its order.
Only(s, set) ==
  LET only[i \in 0..Len(s)] ==
        IF i = 0 THEN <<>> ELSE IF s[i] \in set THEN Append(only[i - 1], s[i]) ELSE only[i - 1]
  IN only[Len(s)]
Carrying(cs) == Only(cs, {c \in ToSet(cs) : c.projects # <<>>})
KeptBy(c, want, cap) == LET ps == Only(c.projects, want) IN SubSeq(ps, 1, Less(Len(ps), cap))
SpareRoom(c, cap) == IF cap > Len(c.projects) THEN cap - Len(c.projects) ELSE 0
(* Fill the connections, oldest first; upto: how many are dealt out by then.   *)
Upto(cs, n, cap) ==
  LET upto[i \in 0..Len(cs)] == IF i = 0 THEN 0 ELSE Less(n, upto[i - 1] + SpareRoom(cs[i], cap)) IN upto
Fill(cs, rest, cap) ==
  LET upto == Upto(cs, Len(rest), cap) IN
  [cs |-> [i \in DOMAIN cs |-> [cs[i] EXCEPT !.projects = @ \o SubSeq(rest, upto[i - 1] + 1, upto[i])]],
   rest |-> SubSeq(rest, upto[Len(cs)] + 1, Len(rest))]
(* The connections that may be opened besides: only those that are to carry    *)
(* something are.                                                              *)
Spare(n) == [k \in 1..n |-> Conn(newId + k - 1, <<>>)]
\* Mutant: nobody is told that an emptied connection was closed.
Told_NotClosed(gone, rest) == ToSet(rest)
(* removed and interrupted: closed without a project left, or without a place. *)
Told(gone, rest) == ToSet(rest) \cup UNION {Wants(c) : c \in gone}
Assign(want, cs, cap) ==
  LET kept  == [i \in DOMAIN cs |-> [cs[i] EXCEPT !.projects = KeptBy(cs[i], want, cap)]]
      alive == Carrying(kept)
      held  == UNION {Wants(c) : c \in ToSet(alive)}
      dealt == Fill(alive \o Spare(MaxConns - Len(alive)), Only(ByKey, want \ held), cap)
      all   == Carrying(dealt.cs)
      gone  == {c \in ToSet(cs) : c.id \notin Ids(alive)}
  IN /\ conns' = all /\ newId' = newId + (IF Ids(all) \subseteq Ids(alive) THEN 0 ELSE MaxConns)
     /\ sessions' = Unheard(Told(gone, dealt.rest))
     /\ astray' = astray \cup (UNION {Unwanted(c) : c \in gone})
                    \cup {p \in want : \E c \in ToSet(kept) : p \in Pending(c) /\ At(all, p) # {c.id}}
     /\ shifted' = shifted \cup {p \in want : cap = capacity /\ At(cs, p) \notin {{}, At(all, p)}}
SetProjects ==
  /\ moves < MaxMoves /\ moves' = moves + 1
  /\ \E want \in SUBSET ToSet(ByKey) : want # desired /\ desired' = want /\ Assign(want, conns, capacity)
  /\ UNCHANGED capacity
(* The next refresh asks for the same projects again: it opens what            *)
(* resetProjects has closed.                                                   *)
Reassign == Assign(desired, conns, capacity) /\ UNCHANGED <<desired, capacity, moves>>

(* ------------------------------- handlers --------------------------------- *)
Dropped(c) == Only(conns, ToSet(conns) \ {c})
Put(c) == conns' = [i \in DOMAIN conns |-> IF conns[i].id = c.id THEN c ELSE conns[i]]
(* A connection that is to carry more than the server allows is closed, and    *)
(* the projects are dealt out with the new capacity (a microtask).             *)
Hello(c) ==
  /\ c.state = "hello"
  /\ \E n \in Offers :
       IF Len(c.projects) <= n
       THEN Put([c EXCEPT !.state = "open"]) /\ UNCHANGED <<desired, capacity, sessions, newId, moves, astray, shifted>>
       ELSE /\ capacity' = n /\ Assign(desired, Dropped(c), n)
            /\ UNCHANGED <<desired, moves>>
(* pump: unsubscribe first, then subscribe; the first request sets all.        *)
Request(c) ==
  /\ c.state \in {"open", "set"} /\ c.after = Unasked
  /\ LET out == c.has \ Wants(c) IN
       \/ c.state = "open" /\ Put([c EXCEPT !.after = Wants(c)])
       \/ c.state = "set" /\ out # {} /\ Put([c EXCEPT !.after = c.has \ out])
       \/ c.state = "set" /\ out = {} /\ Wants(c) # c.has /\ Put([c EXCEPT !.after = c.has \cup Wants(c)])
  /\ UNCHANGED <<desired, capacity, sessions, newId, moves, astray, shifted>>
Ack(c) ==
  /\ c.after # Unasked
  /\ Put([c EXCEPT !.has = c.after, !.after = Unasked, !.state = "set"])
  /\ sessions' = [p \in DOMAIN sessions |->
       IF p \in c.after \ c.has THEN c.id ELSE IF p \in c.has \ c.after THEN 0 ELSE sessions[p]]
  /\ UNCHANGED <<desired, capacity, newId, moves, astray, shifted>>
Rejected(c) ==
  /\ moves < MaxMoves /\ moves' = moves + 1 /\ c.state = "set" /\ c.after # Unasked
  /\ Put([c EXCEPT !.after = Unasked]) /\ sessions' = Unheard(c.after \ c.has)
  /\ UNCHANGED <<desired, capacity, newId, astray, shifted>>
(* fail: connect again, or after a fatal error never.                          *)
Fail(c) ==
  /\ moves < MaxMoves /\ moves' = moves + 1 /\ c.state # "dead"
  /\ \E s \in {"hello", "dead"} : Put([c EXCEPT !.state = s, !.has = {}, !.after = Unasked])
  /\ sessions' = Unheard(Wants(c)) /\ astray' = astray \cup Unwanted(c)
  /\ UNCHANGED <<desired, capacity, newId, shifted>>
(* A bad trade closes the connection of its project until the next refresh.    *)
ResetProjects(c) ==
  /\ moves < MaxMoves /\ moves' = moves + 1
  /\ conns' = Dropped(c) /\ sessions' = Unheard(Wants(c)) /\ astray' = astray \cup Unwanted(c)
  /\ UNCHANGED <<desired, capacity, newId, shifted>>

ShardsInit ==
  /\ desired = {} /\ capacity \in Offers /\ (\A n \in Offers : n <= capacity)
  /\ conns = <<>> /\ sessions = [p \in ToSet(ByKey) |-> 0]
  /\ newId = 1 /\ moves = 0 /\ astray = {} /\ shifted = {}
ShardsNext ==
  \/ SetProjects \/ Reassign
  \/ \E c \in ToSet(conns) : Hello(c) \/ Request(c) \/ Ack(c) \/ Rejected(c) \/ Fail(c) \/ ResetProjects(c)

(* ------------------------------- properties ------------------------------- *)
(* Every wanted project has one place and keeps it when others come and go     *)
(* ("existing projects never move when another project is added/removed"), and *)
(* no connection carries more than it may.                                     *)
OnePlace ==
  /\ \A c \in ToSet(conns) : Len(c.projects) <= capacity /\ Wants(c) \subseteq desired /\ c.projects # <<>>
  /\ \A c, d \in ToSet(conns) : c # d => Wants(c) \cap Wants(d) = {}
  /\ shifted = {}
(* A wanted project has a session exactly when its connection has confirmed    *)
(* it, however requests and moves overlap - unless its old connection had not  *)
(* let it go when it failed, was closed or another one got the project: then   *)
(* the session may be left over, or be taken away by the old one's answer.     *)
SessionsAreOwned ==
  \A p \in desired \ astray : LET of == {c.id : c \in {d \in ToSet(conns) : p \in Wants(d) \cap d.has}}
    IN of = IF sessions[p] = 0 THEN {} ELSE {sessions[p]}
(* Every wanted project has one place on the feed's connections and keeps it,  *)
(* and has a session exactly when its connection has confirmed it, unless its  *)
(* old connection still held it when it failed, was closed or was replaced.    *)
SessionsRight == OnePlace /\ SessionsAreOwned
=============================================================================
