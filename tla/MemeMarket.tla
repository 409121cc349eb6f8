------------------------------- MODULE MemeMarket -------------------------------
(***************************************************************************)
(* One connection of the market feed (MemeMarketConnection in              *)
(* apps/worker/src/meme-market.ts): the set of subscribed projects is      *)
(* changed one acknowledged control request at a time while trades keep    *)
(* coming; every trade carries a sequence number of the connection and the *)
(* revision of the subscription it was sent under.  The hooks tell         *)
(* LiveService which projects have a session: the feed of these is taken   *)
(* to be complete, bars without a trade are filled in as flat.             *)
(*                                                                         *)
(* The server is external.  As the client expects, it applies one request  *)
(* at a time, counts revisions and trades, and may send trades under the   *)
(* new revision before its acknowledgement.  Delivery is best effort: it   *)
(* loses and repeats trades.  The socket keeps the order of messages.      *)
(*                                                                         *)
(* Abstractions.  Timers are actions that are allowed at any time: the     *)
(* 60 s of silence, the 10 s deadline, the retry after a failure; cooling  *)
(* stands for nextControlAt.  Request ids are left out: with one request   *)
(* at a time and a new socket after every failure, an answer matches.      *)
(* left bounds changes of the wanted set, trades, lost and repeated ones,  *)
(* rejected requests and failures of the connection.                       *)
(***************************************************************************)
EXTENDS Integers, FiniteSets, Sequences, SequencesExt

CONSTANTS
  Projects,
  Buffer,      \* trades kept while a request is unanswered (64)
  MaxChanges, MaxTrades, MaxLost, MaxRejects, MaxFails

ASSUME BoundsNat ==
  IsFiniteSet(Projects) /\ {Buffer, MaxChanges, MaxTrades, MaxLost, MaxRejects, MaxFails} \subseteq Nat

VARIABLES
  phase,       \* no socket, socket without a hello, session, given up (fatal)
  desired,     \* the projects LiveService wants here
  confirmed,   \* the acknowledged membership
  pending,     \* the unanswered control request
  revision, sequence, buffered, cooling,
  session,     \* LiveService.marketSessions: ready was called, then neither removed nor interrupted
  subs, srev, sseq,  \* the server's membership, revision and sequence
  inbox, owed, \* the request on its way to the server; an acknowledgement not yet sent
  wire,        \* messages on their way to the client
  emitted,     \* history: numbers of the trades of a project since it was subscribed
  given,       \* history: numbers of those handed to LiveService since it became ready
  skipped,     \* history: projects that missed a trade while they were not wanted
  left

client  == <<phase, desired, confirmed, pending, revision, sequence, buffered, cooling>>
server  == <<subs, srev, sseq, inbox, owed>>
history == <<emitted, given, skipped>>
vars    == <<client, session, server, wire, history, left>>

Spend(what) == left[what] > 0 /\ left' = [left EXCEPT ![what] = @ - 1]
NoControl == [kind |-> "none", set |-> {}]
NoProject == "none"
Message(type, p, rev, seq) == [type |-> type, project |-> p, rev |-> rev, seq |-> seq]

\* An operator X_Y next to X is X with one plausible mistake: a variant against which the
\* properties below are tried; no definition uses it.

-----------------------------------------------------------------------------
(* Control requests: pump.                                                 *)

Kind(want, conf, rev) == IF rev < 0               THEN "set"
                         ELSE IF conf \ want # {} THEN "unsubscribe"
                         ELSE IF want \ conf # {} THEN "subscribe"
                         ELSE "none"

\* The membership after the request.
After(kind, want, conf) == CASE kind = "set"         -> want
                             [] kind = "unsubscribe" -> conf \cap want
                             [] kind = "subscribe"   -> conf \cup want
                             [] OTHER                -> conf

\* pump, as the last thing a handler does with the state it leaves.
Pump(ph, want, conf, rev, pend, cool) ==
  LET kind == Kind(want, conf, rev)
      ask  == [kind |-> kind, set |-> After(kind, want, conf)]
  IN IF ph = "open" /\ pend = NoControl /\ ~cool /\ kind # "none"
     THEN pending' = ask /\ inbox' = [ask EXCEPT !.set = IF kind = "unsubscribe" THEN conf \ want
                                                     ELSE IF kind = "subscribe" THEN want \ conf ELSE want]
          /\ cooling' = TRUE
     ELSE pending' = pend /\ cooling' = cool /\ UNCHANGED inbox

\* updateProjects: LiveService wants another set.
UpdateProjects(want) ==
  /\ want # desired /\ want # {} /\ Spend("change")
  /\ desired' = want
  /\ Pump(phase, want, confirmed, revision, pending, cooling)
  /\ UNCHANGED <<phase, confirmed, revision, sequence, buffered, session, subs, srev, sseq, owed, wire,
                 history>>

\* The one-second timer, when nextControlAt has passed.
\* Mutant: the timer only ends the pause.
Tick_NoPump == cooling' = FALSE /\ UNCHANGED <<pending, inbox>>
Tick == Pump(phase, desired, confirmed, revision, pending, FALSE)
Timer ==
  /\ phase = "open" /\ cooling /\ Tick
  /\ UNCHANGED <<phase, desired, confirmed, revision, sequence, buffered, session, subs, srev, sseq, owed, wire,
                 history, left>>

-----------------------------------------------------------------------------
(* The connection: connect, fail.                                          *)

Connect ==
  /\ phase = "wait" /\ phase' = "hello"
  /\ confirmed' = {} /\ pending' = NoControl /\ revision' = -1 /\ sequence' = 0 /\ buffered' = <<>> /\ cooling' = FALSE
  /\ subs' = {} /\ srev' = 0 /\ sseq' = 0 /\ inbox' = NoControl /\ owed' = FALSE
  /\ wire' = <<Message("hello", NoProject, 0, 0)>>
  /\ emitted' = [p \in Projects |-> {}] /\ given' = [p \in Projects |-> <<>>]
  /\ UNCHANGED <<desired, session, skipped, left>>

\* fail: the projects wanted here are interrupted; the socket is dropped.
Fail(next) ==
  /\ phase' = next /\ session' = session \ desired
  /\ wire' = <<>> /\ inbox' = NoControl /\ owed' = FALSE
  /\ UNCHANGED <<desired, confirmed, pending, revision, sequence, buffered, cooling, subs, srev, sseq, history>>

\* close, error, silence, an unanswered hello or request, a malformed or mismatched message.
ConnectionFails ==
  /\ phase \in {"hello", "open"} /\ Spend("fail") /\ Fail("wait")

-----------------------------------------------------------------------------
(* Messages: the handler of ws.on('message').                              *)

Msg == Head(wire)
Taken == wire' = Tail(wire)

Hello ==
  /\ phase = "hello" /\ wire # <<>> /\ Msg.type = "hello"
  /\ Taken /\ phase' = "open"
  /\ Pump("open", desired, confirmed, revision, pending, cooling)
  /\ UNCHANGED <<desired, confirmed, revision, sequence, buffered, session, subs, srev, sseq, owed, history, left>>

\* Another protocol, no capacity: the connection gives up.
HelloRefused ==
  /\ phase = "hello" /\ wire # <<>> /\ Msg.type = "hello" /\ Spend("reject") /\ Fail("dead")

\* A rejected change: the projects it would have added are interrupted, the others go on; the
\* next request waits.  A rejected first request fails the connection, for good unless retryable.
\* Mutant: every wanted project is interrupted.
Rejected_All == desired
Rejected == pending.set \ confirmed
ControlError ==
  /\ phase = "open" /\ wire # <<>> /\ Msg.type = "error"
  /\ IF revision >= 0
     THEN /\ session' = session \ Rejected
          /\ pending' = NoControl /\ buffered' = <<>> /\ cooling' = TRUE
          /\ Taken
          /\ UNCHANGED <<phase, desired, confirmed, revision, sequence, server, history>>
     ELSE \E next \in {"wait", "dead"} : Fail(next)
  /\ UNCHANGED left

\* deliver, for the trade t under membership conf and revision rev.
Deliverable(t, conf, rev) == t.rev = rev /\ t.project \in conf /\ t.project \in desired
Missed(t, conf, rev) == t.rev = rev /\ t.project \in conf /\ t.project \notin desired

\* The numbers of the buffered trades at the places I, in the order of the buffer.
Enumerates(q, S) == /\ \A i, j \in DOMAIN q : i < j => q[i] < q[j]
                    /\ {q[i] : i \in DOMAIN q} = S
InOrder(I) == CHOOSE q \in [1..Cardinality(I) -> I] : Enumerates(q, I)
NumbersAt(I) == [k \in 1..Cardinality(I) |-> buffered[InOrder(I)[k]].seq]

\* Mutant: projects that were connected are announced again.
Gained_All == pending.set
Gained == pending.set \ confirmed
Gone   == confirmed \ pending.set
Ack ==
  /\ phase = "open" /\ wire # <<>> /\ Msg.type = "ack" /\ pending # NoControl
  /\ LET conf == pending.set
         Pass(t) == Deliverable(t, conf, Msg.rev)
     IN /\ confirmed' = conf /\ revision' = Msg.rev /\ buffered' = <<>>
        /\ session' = (session \ Gone) \cup Gained
        /\ given' = [p \in Projects |->
                      (IF p \in Gained THEN <<>> ELSE given[p])
                      \o NumbersAt({i \in DOMAIN buffered : Pass(buffered[i]) /\ buffered[i].project = p})]
        /\ skipped' = (skipped \ Gained) \cup {t.project : t \in {u \in ToSet(buffered) : Missed(u, conf, Msg.rev)}}
        /\ Pump(phase, desired, conf, Msg.rev, NoControl, cooling)
  /\ Taken
  /\ UNCHANGED <<phase, desired, sequence, subs, srev, sseq, owed, emitted, left>>

Repeated(t) == t.seq <= sequence
\* Mutant: sequence numbers are not compared.
Gap_Ignored(t) == FALSE
Gap(t) == t.seq # sequence + 1
Future(t) == t.rev > revision
Full == Len(buffered) >= Buffer
Trade ==
  /\ phase = "open" /\ wire # <<>> /\ Msg.type = "trade" /\ UNCHANGED left
  /\ IF Repeated(Msg)
     THEN Taken /\ UNCHANGED <<client, session, server, history>>
     ELSE IF Gap(Msg) \/ (Future(Msg) /\ (pending = NoControl \/ Full))
     THEN Fail("wait")
     ELSE /\ Taken /\ sequence' = Msg.seq
          /\ buffered' = IF Future(Msg) THEN Append(buffered, Msg) ELSE buffered
          /\ given' = IF Deliverable(Msg, confirmed, revision)
                       THEN [given EXCEPT ![Msg.project] = Append(@, Msg.seq)] ELSE given
          /\ skipped' = IF Missed(Msg, confirmed, revision) THEN skipped \cup {Msg.project} ELSE skipped
          /\ UNCHANGED <<phase, desired, confirmed, pending, revision, cooling, session, server, emitted>>

-----------------------------------------------------------------------------
(* The server, external.                                                   *)

Applied == CASE inbox.kind = "unsubscribe" -> subs \ inbox.set
             [] inbox.kind = "subscribe"   -> subs \cup inbox.set
             [] OTHER                      -> inbox.set

ServerApplies ==
  /\ inbox # NoControl /\ inbox' = NoControl
  /\ subs' = Applied /\ srev' = srev + 1 /\ owed' = TRUE
  /\ emitted' = [p \in Projects |-> IF p \in subs THEN emitted[p] ELSE {}]
  /\ UNCHANGED <<client, session, sseq, wire, given, skipped, left>>

ServerRejects ==
  /\ inbox # NoControl /\ inbox' = NoControl /\ Spend("reject")
  /\ wire' = Append(wire, Message("error", NoProject, 0, 0))
  /\ UNCHANGED <<client, session, subs, srev, sseq, owed, history>>

ServerAcks ==
  /\ owed /\ owed' = FALSE
  /\ wire' = Append(wire, Message("ack", NoProject, srev, 0))
  /\ UNCHANGED <<client, session, subs, srev, sseq, inbox, history, left>>

\* A trade happens; it is sent, or lost.
ServerTrade(p) ==
  /\ p \in subs
  /\ sseq' = sseq + 1 /\ emitted' = [emitted EXCEPT ![p] = @ \cup {sseq + 1}]
  /\ \/ Spend("trade") /\ wire' = Append(wire, Message("trade", p, srev, sseq + 1))
     \/ Spend("lost") /\ UNCHANGED wire
  /\ UNCHANGED <<client, session, subs, srev, inbox, owed, given, skipped>>

\* A trade that is still on its way is sent again.
ServerRepeats ==
  /\ Spend("lost")
  /\ \E t \in ToSet(wire) : t.type = "trade" /\ wire' = Append(wire, t)
  /\ UNCHANGED <<client, session, server, history>>

-----------------------------------------------------------------------------
Init ==
  /\ phase = "wait" /\ desired \in (SUBSET Projects) \ {{}}
  /\ confirmed = {} /\ pending = NoControl /\ revision = -1 /\ sequence = 0 /\ buffered = <<>> /\ cooling = FALSE
  /\ session = {}
  /\ subs = {} /\ srev = 0 /\ sseq = 0 /\ inbox = NoControl /\ owed = FALSE /\ wire = <<>>
  /\ emitted = [p \in Projects |-> {}] /\ given = [p \in Projects |-> <<>>] /\ skipped = {}
  /\ left = [change |-> MaxChanges, trade |-> MaxTrades, lost |-> MaxLost, reject |-> MaxRejects, fail |-> MaxFails]

Receive == Hello \/ ControlError \/ Ack \/ Trade
Serve   == ServerApplies \/ ServerAcks

Next ==
  \/ \E want \in SUBSET Projects : UpdateProjects(want)
  \/ Timer \/ Connect \/ ConnectionFails \/ HelloRefused
  \/ Receive \/ Serve \/ ServerRejects \/ ServerRepeats
  \/ \E p \in Projects : ServerTrade(p)

Spec == Init /\ [][Next]_vars

\* Timers fire, messages are delivered, the server answers.
Fairness == WF_vars(Timer) /\ WF_vars(Connect) /\ WF_vars(Receive) /\ WF_vars(Serve)
FairSpec == Spec /\ Fairness

-----------------------------------------------------------------------------
(* Properties.                                                             *)

Kinds == {"none", "set", "subscribe", "unsubscribe"}
Numbers == 1..(MaxTrades + MaxLost)
Messages == [type : {"hello", "ack", "error", "trade"}, project : Projects \cup {NoProject}, rev : Nat, seq : Nat]

\* Types; a request is under way only in a session, trades are buffered only behind a request.
TypeOK ==
  /\ phase \in {"wait", "hello", "open", "dead"}
  /\ desired \in (SUBSET Projects) \ {{}} /\ confirmed \subseteq Projects /\ session \subseteq Projects
  /\ pending \in [kind : Kinds, set : SUBSET Projects] /\ inbox \in [kind : Kinds, set : SUBSET Projects]
  /\ revision \in Int /\ revision >= -1 /\ sequence \in Nat /\ cooling \in BOOLEAN
  /\ buffered \in Seq(Messages) /\ Len(buffered) <= Buffer /\ wire \in Seq(Messages)
  /\ (buffered # <<>> => pending # NoControl)
  /\ subs \subseteq Projects /\ srev \in Nat /\ sseq \in Nat /\ owed \in BOOLEAN
  /\ emitted \in [Projects -> SUBSET Numbers] /\ given \in [Projects -> Seq(Numbers)] /\ skipped \subseteq Projects

\* A project with a session that has been wanted since it became ready has been given every
\* trade the connection has passed by, in order and once.
Waiting == {t.seq : t \in ToSet(buffered)}
NoSilentGap ==
  phase = "open" => \A p \in (session \cap confirmed \cap desired) \ skipped :
    Enumerates(given[p], {n \in emitted[p] : n <= sequence /\ n \notin Waiting})

\* With no request under way client and server agree on membership and revision.
Quiet == inbox = NoControl /\ ~owed /\ \A i \in DOMAIN wire : wire[i].type \in {"hello", "trade"}
Agreement == (phase = "open" /\ Quiet /\ revision >= 0) => confirmed = subs /\ revision = srev /\ pending = NoControl

\* An acknowledged project has a session, so that its trades are not thrown away.
Heard == phase = "open" => confirmed \subseteq session

\* Client, server and service agree on the members of a connection, however requests,
\* answers and changes of the wanted set cross.
MembershipAgrees == Agreement /\ Heard

\* Without a connection no wanted project has a session ("a known disconnection suspends judgement").
NoStaleSession == (phase = "wait" \/ phase = "dead") => session \cap desired = {}

\* "changing membership never resets a retained project's epoch"
Retained ==
  [][phase = "open" /\ phase' = "open" =>
       \A p \in session \cap confirmed \cap confirmed' : p \in session' /\ IsPrefix(given[p], given'[p])]_vars

\* In the end the connection carries exactly the wanted projects, or has given up.
Converges == <>[](phase = "dead" \/ (phase = "open" /\ confirmed = desired /\ desired \subseteq session))

=============================================================================
