---------------------------- MODULE MemeMarketProofs ----------------------------
(***************************************************************************)
(* Theorems about MemeMarket for any projects, any buffer and any number   *)
(* of changes, trades, lost and repeated messages, rejections and          *)
(* failures.  The argument follows one control request (Trip): until the   *)
(* server applies it client and server are Level; from then on the server  *)
(* is Ahead by the request, the trades it sends are of the next revision   *)
(* and the client has buffered all of them it took; the answer is the only *)
(* one on its way.  A trade that is not repeated (Fresh) then tells by its *)
(* revision on which side of the change it was sent, and a member misses   *)
(* none (Complete).                                                        *)
(***************************************************************************)
EXTENDS MemeMarket, FiniteSetTheorems, SequenceTheorems, WellFoundedInduction, TLAPS

-----------------------------------------------------------------------------
(* Enumerations: the order in which deliver hands on what was buffered.    *)

Enumerable(A) == \E q \in [1..Cardinality(A) -> A] : Enumerates(q, A)

\* One more place, behind all the others, keeps a set enumerable.
LEMMA EnumerableGrows ==
  ASSUME NEW A, A \subseteq Nat, IsFiniteSet(A), Enumerable(A),
         NEW n \in Nat, \A a \in A : a < n
  PROVE  Enumerable(A \cup {n})
<1>1. PICK q \in [1..Cardinality(A) -> A] : Enumerates(q, A)
  BY DEF Enumerable
<1> DEFINE c == Cardinality(A)
           r == [k \in 1..(c + 1) |-> IF k = c + 1 THEN n ELSE q[k]]
<1>2. c \in Nat /\ Cardinality(A \cup {n}) = c + 1
  <2>1. n \notin A
    OBVIOUS
  <2>2. QED
    BY <2>1, FS_CardinalityType, FS_AddElement
<1>3. r \in [1..Cardinality(A \cup {n}) -> A \cup {n}]
  <2> HIDE DEF c
  <2>1. \A k \in 1..(c + 1) : k # c + 1 => k \in 1..c
    BY <1>2
  <2>2. DOMAIN r = 1..(c + 1) /\ \A k \in 1..(c + 1) : r[k] \in A \cup {n}
    BY <1>1, <2>1 DEF c
  <2>3. QED
    BY <1>2, <2>2
<1>4. \A i, j \in DOMAIN r : i < j => r[i] < r[j]
  <2> SUFFICES ASSUME NEW i \in 1..(c + 1), NEW j \in 1..(c + 1), i < j PROVE r[i] < r[j]
    OBVIOUS
  <2>1. i \in 1..c /\ i \in DOMAIN q /\ r[i] = q[i] /\ q[i] \in A
    BY <1>1, <1>2
  <2>2. CASE j = c + 1
    BY <2>1, <2>2
  <2>3. CASE j # c + 1
    <3>1. j \in DOMAIN q /\ r[j] = q[j]
      BY <1>1, <1>2, <2>3
    <3>2. QED
      BY <1>1, <2>1, <3>1 DEF Enumerates
  <2>4. QED
    BY <2>2, <2>3
<1>5. {r[i] : i \in DOMAIN r} = A \cup {n}
  <2>1. ASSUME NEW a \in A PROVE \E i \in DOMAIN r : r[i] = a
    BY <1>1, <1>2 DEF Enumerates
  <2>2. r[c + 1] = n /\ c + 1 \in DOMAIN r
    BY <1>2
  <2>3. \A i \in DOMAIN r : r[i] \in A \cup {n}
    BY <1>1, <1>2
  <2> HIDE DEF r
  <2>4. QED
    BY <2>1, <2>2, <2>3
<1> HIDE DEF r
<1>6. QED
  BY <1>3, <1>4, <1>5 DEF Enumerable, Enumerates

\* Any set of places of a queue can be put in order.
LEMMA PlacesEnumerable ==
  ASSUME NEW n \in Nat, NEW A, A \subseteq 1..n
  PROVE  Enumerable(A)
<1> DEFINE Bad == {m \in Nat : \E B \in SUBSET (1..m) : ~Enumerable(B)}
           T   == {1..m : m \in Bad}
<1> SUFFICES ASSUME Bad # {} PROVE FALSE
  OBVIOUS
<1>1. IsWellFoundedOn(StrictSubsetOrdering(Nat), FiniteSubsetsOf(Nat))
  BY FS_StrictSubsetOrderingWellFounded
<1>2. T \subseteq FiniteSubsetsOf(Nat)
  <2>1. \A m \in Nat : IsFiniteSet(1..m) /\ 1..m \in SUBSET Nat
    BY FS_Interval
  <2>2. QED
    BY <2>1 DEF FiniteSubsetsOf
<1>3. T # {}
  OBVIOUS
<1> HIDE DEF T
<1>4. PICK C \in T : \A D \in T : <<D, C>> \notin StrictSubsetOrdering(Nat)
  BY <1>1, <1>2, <1>3, WFMin
<1>5. PICK m \in Bad : C = 1..m
  BY <1>4 DEF T
<1>6. PICK B \in SUBSET (1..m) : ~Enumerable(B)
  BY <1>5
<1>7. IsFiniteSet(B)
  <2>1. m \in Int /\ IsFiniteSet(1..m)
    BY <1>5, FS_Interval
  <2>2. QED
    BY <2>1, FS_Subset
<1>8. CASE m \in B
  <2>1. m > 0 /\ m - 1 \in Nat
    BY <1>5, <1>8
  <2>2. B \ {m} \subseteq 1..(m - 1)
    BY <1>5, <2>1
  <2>3. ~Enumerable(B \ {m})
    <3>1. IsFiniteSet(B \ {m})
      BY <1>7, FS_Subset
    <3>2. \A a \in B \ {m} : a < m
      BY <1>5, <2>1, <2>2
    <3>3. B = (B \ {m}) \cup {m} /\ B \ {m} \subseteq Nat
      BY <1>5, <1>8
    <3>4. QED
      BY <1>5, <1>6, <3>1, <3>2, <3>3, EnumerableGrows
  <2>4. m - 1 \in Bad
    BY <2>1, <2>2, <2>3
  <2>5. 1..(m - 1) \in T
    BY <2>4 DEF T
  <2>6. <<1..(m - 1), C>> \in StrictSubsetOrdering(Nat)
    BY <1>5, <2>1 DEF StrictSubsetOrdering
  <2>7. QED
    BY <1>4, <2>5, <2>6
<1>9. CASE m \notin B /\ m > 0
  <2>1. m - 1 \in Nat /\ B \subseteq 1..(m - 1)
    BY <1>5, <1>9
  <2>2. m - 1 \in Bad
    BY <1>6, <2>1
  <2>3. 1..(m - 1) \in T
    BY <2>2 DEF T
  <2>4. <<1..(m - 1), C>> \in StrictSubsetOrdering(Nat)
    BY <1>5, <1>9, <2>1 DEF StrictSubsetOrdering
  <2>5. QED
    BY <1>4, <2>3, <2>4
<1>10. CASE m = 0
  <2>1. B = {} /\ Cardinality(B) = 0
    <3>1. B = {}
      BY <1>10
    <3>2. QED
      BY <3>1, FS_EmptySet
  <2>2. <<>> \in [1..0 -> B] /\ DOMAIN <<>> = {}
    OBVIOUS
  <2>3. Enumerates(<<>>, {})
    BY <2>2 DEF Enumerates
  <2>4. QED
    BY <1>6, <2>1, <2>2, <2>3 DEF Enumerable
<1>11. QED
  BY <1>5, <1>8, <1>9, <1>10

\* InOrder is such an order.
LEMMA InOrderCorrect ==
  ASSUME NEW n \in Nat, NEW A, A \subseteq 1..n
  PROVE  /\ Cardinality(A) \in Nat
         /\ InOrder(A) \in [1..Cardinality(A) -> A]
         /\ Enumerates(InOrder(A), A)
<1>1. n \in Int /\ IsFiniteSet(1..n)
  BY FS_Interval
<1>2. IsFiniteSet(A) /\ Cardinality(A) \in Nat
  BY <1>1, FS_Subset, FS_CardinalityType
<1>3. Enumerable(A)
  BY PlacesEnumerable
<1>4. QED
  BY <1>2, <1>3 DEF Enumerable, InOrder

\* Behind an enumeration of small numbers an enumeration of larger ones goes on with it.
LEMMA EnumeratesConcat ==
  ASSUME NEW q \in Seq(Nat), NEW r \in Seq(Nat), NEW S, NEW T,
         Enumerates(q, S), Enumerates(r, T), \A s \in S, t \in T : s < t
  PROVE  Enumerates(q \o r, S \cup T)
<1> DEFINE w == q \o r
<1>1. w \in Seq(Nat) /\ Len(w) = Len(q) + Len(r) /\ DOMAIN w = 1..Len(w)
  BY ConcatProperties, LenProperties
<1>2. DOMAIN q = 1..Len(q) /\ DOMAIN r = 1..Len(r) /\ Len(q) \in Nat /\ Len(r) \in Nat
  BY LenProperties
<1>3. \A i \in 1..Len(w) : w[i] = IF i <= Len(q) THEN q[i] ELSE r[i - Len(q)]
  BY <1>1, ConcatProperties
<1> HIDE DEF w
<1>4. \A i \in DOMAIN q : q[i] \in S
  BY DEF Enumerates
<1>5. \A i \in DOMAIN r : r[i] \in T
  BY DEF Enumerates
<1>6. ASSUME NEW i \in DOMAIN w, NEW j \in DOMAIN w, i < j PROVE w[i] < w[j]
  <2>1. CASE j <= Len(q)
    <3>1. i \in DOMAIN q /\ j \in DOMAIN q /\ w[i] = q[i] /\ w[j] = q[j]
      BY <1>1, <1>2, <1>3, <1>6, <2>1
    <3>2. QED
      BY <1>6, <3>1 DEF Enumerates
  <2>2. CASE i > Len(q)
    <3> DEFINE m == Len(q) n == Len(r)
    <3>a. i \in 1..(m + n) /\ j \in 1..(m + n) /\ m \in Nat /\ n \in Nat /\ i < j /\ i > m
      BY <1>1, <1>2, <1>6, <2>2
    <3>b. DOMAIN r = 1..n /\ \A k \in 1..(m + n) : w[k] = IF k <= m THEN q[k] ELSE r[k - m]
      BY <1>1, <1>2, <1>3
    <3> HIDE DEF m, n
    <3>c. i - m \in 1..n /\ j - m \in 1..n /\ i - m < j - m /\ ~(i <= m) /\ ~(j <= m)
      BY <3>a
    <3>d. w[i] = r[i - m] /\ w[j] = r[j - m]
      BY <3>a, <3>b, <3>c
    <3>1. i - Len(q) \in DOMAIN r /\ j - Len(q) \in DOMAIN r /\ i - Len(q) < j - Len(q)
      BY <3>b, <3>c DEF m
    <3>2. w[i] = r[i - Len(q)] /\ w[j] = r[j - Len(q)]
      BY <3>d DEF m
    <3>3. QED
      BY <3>1, <3>2 DEF Enumerates
  <2>3. CASE i <= Len(q) /\ j > Len(q)
    <3>1. i \in DOMAIN q /\ j - Len(q) \in DOMAIN r /\ w[i] = q[i] /\ w[j] = r[j - Len(q)]
      BY <1>1, <1>2, <1>3, <1>6, <2>3
    <3>2. QED
      BY <1>4, <1>5, <3>1
  <2>4. QED
    BY <1>1, <1>2, <1>6, <2>1, <2>2, <2>3
<1>7. \A i \in DOMAIN w : w[i] \in S \cup T
  <2> TAKE i \in DOMAIN w
  <2>1. CASE i <= Len(q)
    <3>1. i \in DOMAIN q /\ w[i] = q[i]
      BY <1>1, <1>2, <1>3, <2>1
    <3>2. QED
      BY <1>4, <3>1
  <2>2. CASE i > Len(q)
    <3>1. i - Len(q) \in DOMAIN r /\ w[i] = r[i - Len(q)]
      BY <1>1, <1>2, <1>3, <2>2
    <3>2. QED
      BY <1>5, <3>1
  <2>3. QED
    BY <1>1, <1>2, <2>1, <2>2
<1>8. ASSUME NEW s \in S PROVE \E i \in DOMAIN w : w[i] = s
  <2>1. PICK i \in DOMAIN q : q[i] = s
    BY DEF Enumerates
  <2>2. i \in DOMAIN w /\ w[i] = s
    BY <1>1, <1>2, <1>3, <2>1
  <2>3. QED
    BY <2>2
<1>9. ASSUME NEW t \in T PROVE \E i \in DOMAIN w : w[i] = t
  <2>1. PICK i \in DOMAIN r : r[i] = t
    BY DEF Enumerates
  <2>2. i + Len(q) \in DOMAIN w /\ ~(i + Len(q) <= Len(q)) /\ (i + Len(q)) - Len(q) = i
    BY <1>1, <1>2, <2>1
  <2>3. w[i + Len(q)] = t
    BY <1>1, <1>3, <2>1, <2>2
  <2>4. QED
    BY <2>2, <2>3
<1>10. {w[i] : i \in DOMAIN w} = S \cup T
  BY <1>7, <1>8, <1>9
<1>11. QED
  BY <1>6, <1>10 DEF Enumerates, w

-----------------------------------------------------------------------------
(* The inductive invariant.                                                *)

\* Trades behind place k of a queue w that the client will not take for repeated: their
\* numbers are above s, the last one it took, and above all numbers in front of them.
Trades(w) == {i \in DOMAIN w : w[i].type = "trade"}
Fresh(w, s, i) == i \in Trades(w) /\ w[i].seq > s /\ \A j \in Trades(w) : j < i => w[j].seq < w[i].seq
FreshAfter(w, s, k) == {w[i] : i \in {j \in DOMAIN w : j > k /\ Fresh(w, s, j)}}
Answers(w) == {i \in DOMAIN w : w[i].type \in {"ack", "error"}}

\* Types of what TypeOK leaves open, and where the numbers of trades come from.
Budgets == [change : Nat, trade : Nat, lost : Nat, reject : Nat, fail : Nat]
Types ==
  /\ left \in Budgets
  /\ sseq + left.trade + left.lost <= MaxTrades + MaxLost
  /\ sequence <= sseq
  /\ \A i \in Trades(wire) : wire[i].project \in Projects /\ wire[i].seq \in 1..sseq
  /\ \A i \in DOMAIN buffered : buffered[i].project \in Projects /\ buffered[i].seq \in 1..sequence

\* Client and server have the same membership; trades on their way are of this revision.
Level ==
  /\ buffered = <<>> /\ subs = confirmed
  /\ revision = srev \/ (revision = -1 /\ srev = 0 /\ subs = {})
  /\ \A t \in FreshAfter(wire, sequence, 0) :
       t.rev = srev /\ t.project \in subs /\ t.seq \in emitted[t.project]

\* What was buffered after b trades: all of them, in order, of the server's revision.
Held(b) ==
  /\ \A i \in DOMAIN buffered :
       /\ buffered[i].rev = srev /\ buffered[i].project \in subs
       /\ buffered[i].seq \in emitted[buffered[i].project] /\ buffered[i].seq > b
  /\ \A i, j \in DOMAIN buffered : i < j => buffered[i].seq < buffered[j].seq
  /\ \A n \in (b + 1)..sequence : n \in Waiting

\* The server has applied the unanswered request after b trades: trades up to b are of the
\* client's revision, later ones of the next.
Ahead(b) ==
  /\ subs = pending.set /\ revision < srev /\ Held(b)
  /\ \A t \in FreshAfter(wire, sequence, 0) :
       /\ t.seq \in emitted[t.project]
       /\ t.seq > b => t.rev = srev /\ t.project \in subs
       /\ t.seq <= b => t.rev = revision /\ t.project \in confirmed
  /\ \A p \in subs \ confirmed : \A n \in emitted[p] : n > b

\* The stations of a control request.
Idle    == pending = NoControl /\ inbox = NoControl /\ ~owed /\ Answers(wire) = {} /\ Level
Under   == phase = "open" /\ pending # NoControl
Asked   == Under /\ inbox # NoControl /\ ~owed /\ Answers(wire) = {} /\ Level /\ Applied = pending.set
Served  == Under /\ inbox = NoControl /\ owed /\ Answers(wire) = {} /\ \E b \in 0..sseq : Ahead(b)
Acked   == Under /\ inbox = NoControl /\ ~owed
           /\ \E k \in DOMAIN wire, b \in 0..sseq :
                /\ Answers(wire) = {k} /\ wire[k].type = "ack" /\ wire[k].rev = srev
                /\ Ahead(b) /\ \A t \in FreshAfter(wire, sequence, k) : t.seq > b
Refused == Under /\ inbox = NoControl /\ ~owed /\ Level
           /\ \E k \in DOMAIN wire : Answers(wire) = {k} /\ wire[k].type = "error"
Trip == Idle \/ Asked \/ Served \/ Acked \/ Refused

\* A number belongs to one project.
Counting == /\ \A p \in Projects : emitted[p] \subseteq 1..sseq
            /\ \A p, q \in Projects : p # q => emitted[p] \cap emitted[q] = {}

\* NoSilentGap for every member, wanted or not.
PassedBy(p) == {n \in emitted[p] : n <= sequence /\ n \notin Waiting}
Complete == \A p \in confirmed \ skipped : Enumerates(given[p], PassedBy(p))

Connected == phase \in {"hello", "open"} => Trip /\ Counting /\ Complete
Fresher == phase = "hello" => pending = NoControl /\ revision = -1 /\ confirmed = {}

IInv == TypeOK /\ Types /\ Connected /\ Fresher /\ Heard

-----------------------------------------------------------------------------
(* The queue of messages, as it is taken from and appended to.             *)

LEMMA TailOf ==
  ASSUME NEW w \in Seq(Messages), w # <<>>
  PROVE  /\ Head(w) = w[1] /\ w[1] \in Messages /\ 1 \in DOMAIN w
         /\ Tail(w) \in Seq(Messages)
         /\ DOMAIN Tail(w) = 1..(Len(w) - 1) /\ DOMAIN w = 1..Len(w) /\ Len(w) \in Nat /\ Len(w) > 0
         /\ \A i \in DOMAIN Tail(w) : Tail(w)[i] = w[i + 1]
<1>1. Len(w) \in Nat /\ Len(w) > 0 /\ DOMAIN w = 1..Len(w)
  BY EmptySeq, LenProperties
<1>2. Tail(w) \in Seq(Messages) /\ Len(Tail(w)) = Len(w) - 1 /\ Head(w) \in Messages
  BY HeadTailProperties
<1>3. DOMAIN Tail(w) = 1..(Len(w) - 1)
  BY <1>2, LenProperties
<1> QED
  BY <1>1, <1>2, <1>3

LEMMA AppendOf ==
  ASSUME NEW w \in Seq(Messages), NEW m \in Messages
  PROVE  /\ Append(w, m) \in Seq(Messages) /\ Len(w) \in Nat
         /\ DOMAIN Append(w, m) = 1..(Len(w) + 1) /\ DOMAIN w = 1..Len(w)
         /\ \A i \in 1..Len(w) : Append(w, m)[i] = w[i]
         /\ Append(w, m)[Len(w) + 1] = m
OBVIOUS

LEMMA FreshTail ==
  ASSUME NEW w \in Seq(Messages), w # <<>>, NEW s \in Nat, NEW s2 \in Nat, s <= s2,
         1 \in Trades(w) => w[1].seq <= s2, NEW k \in Nat,
         NEW t \in FreshAfter(Tail(w), s2, k)
  PROVE  t \in FreshAfter(w, s, k + 1) /\ t \in FreshAfter(w, s, 0) /\ t.seq > s2
<1>1. PICK i \in DOMAIN Tail(w) : i > k /\ Fresh(Tail(w), s2, i) /\ t = Tail(w)[i]
  BY DEF FreshAfter
<1>2. i + 1 \in DOMAIN w /\ w[i + 1] = t /\ i + 1 > k + 1 /\ i + 1 > 0 /\ i \in Nat
  BY <1>1, TailOf
<1>3. t.seq > s2 /\ t.seq \in Nat /\ t.type = "trade"
  <2>1. t \in Messages
    BY <1>2
  <2>2. QED
    BY <1>1, <2>1 DEF Fresh, Trades, Messages
<1>4. ASSUME NEW j \in Trades(w), j < i + 1 PROVE w[j].seq < t.seq
  <2>1. CASE j = 1
    <3>1. w[j].seq \in Nat
      BY <2>1, TailOf DEF Messages
    <3>2. QED
      BY <1>3, <1>4, <2>1, <3>1
  <2>2. CASE j # 1
    <3>1. j \in 1..Len(w) /\ Len(w) \in Nat /\ i \in 1..(Len(w) - 1)
      BY <1>1, <1>4, TailOf DEF Trades
    <3>2. j - 1 \in DOMAIN Tail(w) /\ j - 1 < i /\ (j - 1) + 1 = j
      BY <1>4, <2>2, <3>1, TailOf
    <3>3. Tail(w)[j - 1] = w[j]
      BY <3>2, TailOf
    <3>4. j - 1 \in Trades(Tail(w))
      BY <1>4, <3>2, <3>3 DEF Trades
    <3>5. QED
      BY <1>1, <3>2, <3>3, <3>4 DEF Fresh
  <2>3. QED
    BY <2>1, <2>2
<1>5. Fresh(w, s, i + 1)
  BY <1>2, <1>3, <1>4 DEF Fresh, Trades
<1>6. QED
  BY <1>2, <1>3, <1>5 DEF FreshAfter

LEMMA FreshAppend ==
  ASSUME NEW w \in Seq(Messages), NEW m \in Messages, NEW s \in Nat, NEW k \in Nat,
         NEW t \in FreshAfter(Append(w, m), s, k)
  PROVE  \/ t \in FreshAfter(w, s, k)
         \/ t = m /\ m.type = "trade" /\ k < Len(w) + 1 /\ \A j \in Trades(w) : w[j].seq < m.seq
<1>1. PICK i \in DOMAIN Append(w, m) : i > k /\ Fresh(Append(w, m), s, i) /\ t = Append(w, m)[i]
  BY DEF FreshAfter
<1>2. \A j \in Trades(w) : j \in Trades(Append(w, m)) /\ Append(w, m)[j] = w[j]
  BY AppendOf DEF Trades
<1>3. CASE i = Len(w) + 1
  <2>1. t = m /\ m.type = "trade" /\ k < Len(w) + 1
    BY <1>1, <1>3, AppendOf DEF Fresh, Trades
  <2>2. \A j \in Trades(w) : j < i
    BY <1>3, AppendOf DEF Trades
  <2>3. QED
    BY <1>1, <1>2, <2>1, <2>2 DEF Fresh
<1>4. CASE i # Len(w) + 1
  <2>1. i \in DOMAIN w /\ Append(w, m)[i] = w[i]
    BY <1>1, <1>4, AppendOf
  <2>2. Fresh(w, s, i)
    BY <1>1, <1>2, <2>1 DEF Fresh, Trades
  <2>3. QED
    BY <1>1, <2>1, <2>2 DEF FreshAfter
<1>5. QED
  BY <1>3, <1>4

\* The head of the queue is fresh when it is not repeated.
LEMMA FreshHead ==
  ASSUME NEW w \in Seq(Messages), w # <<>>, NEW s \in Nat, w[1].type = "trade", w[1].seq > s
  PROVE  w[1] \in FreshAfter(w, s, 0)
<1>1. 1 \in DOMAIN w /\ 1 > 0
  BY TailOf
<1>2. Fresh(w, s, 1)
  BY <1>1, TailOf DEF Fresh, Trades
<1>3. QED
  BY <1>1, <1>2 DEF FreshAfter

LEMMA FreshLater ==
  ASSUME NEW w, NEW s, NEW k \in Nat, NEW t \in FreshAfter(w, s, k), DOMAIN w \subseteq Nat
  PROVE  t \in FreshAfter(w, s, 0)
BY DEF FreshAfter

LEMMA AnswersTail ==
  ASSUME NEW w \in Seq(Messages), w # <<>>
  PROVE  /\ Answers(w) = {} => Answers(Tail(w)) = {}
         /\ \A k \in DOMAIN w : Answers(w) = {k} =>
              IF 1 \in Answers(w) THEN k = 1 /\ Answers(Tail(w)) = {}
              ELSE k - 1 \in DOMAIN Tail(w) /\ Answers(Tail(w)) = {k - 1} /\ Tail(w)[k - 1] = w[k]
<1>1. \A i \in DOMAIN Tail(w) : i \in Answers(Tail(w)) <=> i + 1 \in Answers(w)
  BY TailOf DEF Answers
<1>2. Answers(w) = {} => Answers(Tail(w)) = {}
  BY <1>1 DEF Answers
<1>3. ASSUME NEW k \in DOMAIN w, Answers(w) = {k}, 1 \in Answers(w)
      PROVE  k = 1 /\ Answers(Tail(w)) = {}
  <2>1. k = 1
    BY <1>3
  <2>2. \A i \in DOMAIN Tail(w) : i + 1 # 1
    BY TailOf
  <2>3. QED
    BY <1>1, <1>3, <2>1, <2>2 DEF Answers
<1>4. ASSUME NEW k \in DOMAIN w, Answers(w) = {k}, 1 \notin Answers(w)
      PROVE  k - 1 \in DOMAIN Tail(w) /\ Answers(Tail(w)) = {k - 1} /\ Tail(w)[k - 1] = w[k]
  <2>1. k \in 1..Len(w) /\ k # 1
    BY <1>4, TailOf
  <2>2. k - 1 \in DOMAIN Tail(w) /\ (k - 1) + 1 = k
    BY <2>1, TailOf
  <2>3. \A i \in DOMAIN Tail(w) : i + 1 = k => i = k - 1
    BY <2>1, TailOf
  <2>4. Tail(w)[k - 1] = w[k]
    BY <2>2, TailOf
  <2>5. \A i \in DOMAIN Tail(w) : i \in Answers(Tail(w)) <=> i = k - 1
    BY <1>1, <1>4, <2>2, <2>3
  <2>6. QED
    BY <2>2, <2>4, <2>5 DEF Answers
<1>5. QED
  BY <1>2, <1>3, <1>4

LEMMA AnswersAppend ==
  ASSUME NEW w \in Seq(Messages), NEW m \in Messages
  PROVE  /\ m.type \notin {"ack", "error"} => Answers(Append(w, m)) = Answers(w)
         /\ m.type \in {"ack", "error"} /\ Answers(w) = {} => Answers(Append(w, m)) = {Len(w) + 1}
BY AppendOf DEF Answers

-----------------------------------------------------------------------------
(* What pump does, and the steps that do little else.                      *)

Controls == [kind : Kinds, set : SUBSET Projects]

LEMMA PumpEffect ==
  ASSUME NEW ph, NEW want \in SUBSET Projects, NEW conf \in SUBSET Projects, NEW rev \in Int,
         NEW pend \in Controls, NEW cool \in BOOLEAN, inbox \in Controls,
         Pump(ph, want, conf, rev, pend, cool)
  PROVE  /\ pending' \in Controls /\ inbox' \in Controls /\ cooling' \in BOOLEAN
         /\ \/ pending' = pend /\ inbox' = inbox
            \/ /\ ph = "open" /\ pend = NoControl /\ pending' # NoControl /\ inbox' # NoControl
               /\ subs' = conf => Applied' = pending'.set
<1> DEFINE kind == Kind(want, conf, rev)
           ask  == [kind |-> kind, set |-> After(kind, want, conf)]
           sent == IF kind = "unsubscribe" THEN conf \ want ELSE IF kind = "subscribe" THEN want \ conf ELSE want
<1>1. CASE ~(ph = "open" /\ pend = NoControl /\ ~cool /\ kind # "none")
  <2>1. pending' = pend /\ cooling' = cool /\ inbox' = inbox
    BY <1>1 DEF Pump
  <2>2. QED
    BY <2>1
<1>2. CASE ph = "open" /\ pend = NoControl /\ ~cool /\ kind # "none"
  <2>1. pending' = ask /\ inbox' = [ask EXCEPT !.set = sent] /\ cooling' = TRUE
    BY <1>2 DEF Pump
  <2>2. kind \in {"set", "subscribe", "unsubscribe"}
    BY <1>2 DEF Kind
  <2> HIDE DEF kind
  <2>3. After(kind, want, conf) \in SUBSET Projects
    BY <2>2 DEF After
  <2>4. inbox' = [kind |-> kind, set |-> sent] /\ pending' = [kind |-> kind, set |-> After(kind, want, conf)]
    BY <2>1
  <2>5. pending' \in Controls /\ inbox' \in Controls
    BY <2>2, <2>3, <2>4 DEF Controls, Kinds
  <2>6. pending' # NoControl /\ inbox' # NoControl
    BY <1>2, <2>4 DEF NoControl
  <2>7. ASSUME subs' = conf PROVE Applied' = pending'.set
    <3>1. pending'.set = After(kind, want, conf) /\ inbox'.set = sent /\ inbox'.kind = kind
      BY <2>4
    <3>2. CASE kind = "set"
      BY <2>7, <3>1, <3>2 DEF Applied, After
    <3>3. CASE kind = "unsubscribe"
      <4>1. Applied' = conf \ (conf \ want) /\ pending'.set = conf \cap want
        BY <2>7, <3>1, <3>3 DEF Applied, After
      <4>2. QED
        BY <4>1
    <3>4. CASE kind = "subscribe"
      <4>1. Applied' = conf \cup (want \ conf) /\ pending'.set = conf \cup want
        BY <2>7, <3>1, <3>4 DEF Applied, After
      <4>2. QED
        BY <4>1
    <3>5. QED
      BY <2>2, <3>2, <3>3, <3>4
  <2>8. QED
    BY <1>2, <2>1, <2>5, <2>6, <2>7
<1>3. QED
  BY <1>1, <1>2

\* With no request under way pump leaves the connection idle, or sends one.
LEMMA PumpTrip ==
  ASSUME NEW ph, NEW want \in SUBSET Projects, NEW conf \in SUBSET Projects, NEW rev \in Int,
         NEW cool \in BOOLEAN, Pump(ph, want, conf, rev, NoControl, cool),
         inbox = NoControl, confirmed' = conf, phase' = ph, Level', ~owed', Answers(wire') = {}
  PROVE  Trip'
<1>1. NoControl \in Controls
  BY DEF NoControl, Controls, Kinds
<1>2. \/ pending' = NoControl /\ inbox' = inbox
      \/ ph = "open" /\ pending' # NoControl /\ inbox' # NoControl /\ (subs' = conf => Applied' = pending'.set)
  BY <1>1, PumpEffect
<1>3. subs' = conf
  BY DEF Level
<1>4. Idle' \/ Asked'
  BY <1>2, <1>3 DEF Idle, Asked, Under
<1>5. QED
  BY <1>4 DEF Trip

\* A trip depends on nothing but these variables.
LEMMA SameTrip ==
  ASSUME Trip, UNCHANGED <<phase, confirmed, pending, revision, sequence, buffered, wire, emitted, subs, srev, sseq,
                           inbox, owed>>
  PROVE  Trip'
<1>1. Level = Level'
  BY DEF Level
<1>2. \A b \in 0..sseq : Ahead(b) = Ahead(b)'
  BY DEF Ahead, Held, Waiting
<1>3. Idle => Idle'
  BY <1>1 DEF Idle
<1>4. Asked => Asked'
  BY <1>1 DEF Asked, Under, Applied
<1>5. Served => Served'
  BY <1>2 DEF Served, Under
<1>6. Acked => Acked'
  BY <1>2 DEF Acked, Under
<1>7. Refused => Refused'
  BY <1>1 DEF Refused, Under
<1>8. QED
  BY <1>3, <1>4, <1>5, <1>6, <1>7 DEF Trip

LEMMA SameCounts ==
  ASSUME Counting, Complete, UNCHANGED <<confirmed, sequence, buffered, emitted, sseq, given, skipped>>
  PROVE  Counting' /\ Complete'
BY DEF Counting, Complete, PassedBy, Waiting

\* updateProjects and the timer.
LEMMA PumpStep ==
  ASSUME IInv, NEW want \in SUBSET Projects, NEW cool \in BOOLEAN,
         Pump(phase, want, confirmed, revision, pending, cool),
         UNCHANGED <<phase, confirmed, revision, sequence, buffered, session, subs, srev, sseq, owed, wire,
                     emitted, given, skipped>>
  PROVE  Connected' /\ Fresher' /\ Heard'
<1>1. confirmed \in SUBSET Projects /\ revision \in Int /\ pending \in Controls /\ inbox \in Controls
  BY DEF IInv, TypeOK, Controls
<1>2. \/ pending' = pending /\ inbox' = inbox
      \/ phase = "open" /\ pending = NoControl
  BY <1>1, PumpEffect
<1>3. ASSUME phase \in {"hello", "open"} PROVE Trip'
  <2>1. Trip
    BY <1>3 DEF IInv, Connected
  <2>2. CASE pending = NoControl
    <3>1. Idle
      BY <2>1, <2>2 DEF Trip, Asked, Served, Acked, Refused, Under
    <3>2. Level' /\ inbox = NoControl /\ ~owed' /\ Answers(wire') = {}
      BY <3>1 DEF Idle, Level
    <3>3. QED
      BY <1>1, <2>2, <3>2, PumpTrip
  <2>3. CASE pending # NoControl
    BY <1>2, <2>1, <2>3, SameTrip
  <2>4. QED
    BY <2>2, <2>3
<1>4. phase \in {"hello", "open"} => Counting' /\ Complete'
  BY SameCounts DEF IInv, Connected
<1>5. Connected'
  BY <1>3, <1>4 DEF Connected
<1>6. Fresher' /\ Heard'
  BY <1>2 DEF IInv, Fresher, Heard
<1>7. QED
  BY <1>5, <1>6

LEMMA Bounds == MaxTrades \in Nat /\ MaxLost \in Nat /\ Buffer \in Nat /\ MaxTrades + MaxLost \in Nat
BY BoundsNat

LEMMA SpendEffect ==
  ASSUME left \in Budgets, NEW what \in {"change", "trade", "lost", "reject", "fail"}, Spend(what)
  PROVE  /\ left' \in Budgets
         /\ left'.trade <= left.trade /\ left'.lost <= left.lost
         /\ what \in {"trade", "lost"} => left'.trade + left'.lost + 1 = left.trade + left.lost
<1>1. left' = [left EXCEPT ![what] = @ - 1] /\ left[what] > 0
  BY DEF Spend
<1>2. CASE what = "change"
  BY <1>1, <1>2 DEF Budgets
<1>3. CASE what = "trade"
  BY <1>1, <1>3 DEF Budgets
<1>4. CASE what = "lost"
  BY <1>1, <1>4 DEF Budgets
<1>5. CASE what = "reject"
  BY <1>1, <1>5 DEF Budgets
<1>6. CASE what = "fail"
  BY <1>1, <1>6 DEF Budgets
<1>7. QED
  BY <1>2, <1>3, <1>4, <1>5, <1>6

LEMMA BudgetKept ==
  ASSUME IInv, left' \in Budgets, left'.trade <= left.trade, left'.lost <= left.lost
  PROVE  sseq + left'.trade + left'.lost <= MaxTrades + MaxLost
<1>1. sseq \in Nat /\ left \in Budgets /\ sseq + left.trade + left.lost <= MaxTrades + MaxLost
  BY DEF IInv, Types, TypeOK
<1>2. QED
  BY <1>1, Bounds DEF Budgets

LEMMA UpdateStep ==
  ASSUME IInv, NEW want \in SUBSET Projects, UpdateProjects(want)
  PROVE  IInv'
<1>1. Pump(phase, want, confirmed, revision, pending, cooling) /\ Spend("change") /\ desired' = want /\ want # {}
      /\ UNCHANGED <<phase, confirmed, revision, sequence, buffered, session, subs, srev, sseq, owed, wire,
                     emitted, given, skipped>>
  BY DEF UpdateProjects, history
<1>2. cooling \in BOOLEAN /\ confirmed \in SUBSET Projects /\ revision \in Int
      /\ pending \in Controls /\ inbox \in Controls /\ left \in Budgets
  BY DEF IInv, TypeOK, Controls, Types, Budgets
<1>3. pending' \in Controls /\ inbox' \in Controls /\ cooling' \in BOOLEAN
      /\ (pending # NoControl => pending' = pending)
  <2>1. Pump(phase, want, confirmed, revision, pending, cooling)
    BY <1>1
  <2> HIDE <1>1
  <2>2. QED
    BY <1>2, <2>1, PumpEffect
<1>4. TypeOK'
  <2>1. buffered' # <<>> => pending' # NoControl
    BY <1>1, <1>3 DEF IInv, TypeOK
  <2>2. desired' \in (SUBSET Projects) \ {{}}
    BY <1>1
  <2>3. QED
    BY <1>1, <1>3, <2>1, <2>2 DEF IInv, TypeOK, Controls
<1>5. Types'
  <2>1. left' \in Budgets /\ left'.trade <= left.trade /\ left'.lost <= left.lost
    BY <1>1, <1>2, SpendEffect
  <2>2. sseq + left'.trade + left'.lost <= MaxTrades + MaxLost
    BY <2>1, BudgetKept
  <2>3. QED
    BY <1>1, <2>1, <2>2 DEF IInv, Types, Trades, Budgets
<1>6. Connected' /\ Fresher' /\ Heard'
  BY <1>1, <1>2, PumpStep
<1>7. QED
  BY <1>4, <1>5, <1>6 DEF IInv

LEMMA TimerStep ==
  ASSUME IInv, Timer
  PROVE  IInv'
<1>1. Pump(phase, desired, confirmed, revision, pending, FALSE)
      /\ UNCHANGED <<phase, confirmed, revision, sequence, buffered, session, subs, srev, sseq, owed, wire,
                     emitted, given, skipped>>
      /\ UNCHANGED <<desired, left>>
  BY DEF Timer, Tick, history
<1>2. confirmed \in SUBSET Projects /\ revision \in Int /\ desired \in SUBSET Projects
      /\ pending \in Controls /\ inbox \in Controls
  BY DEF IInv, TypeOK, Controls
<1>3. pending' \in Controls /\ inbox' \in Controls /\ cooling' \in BOOLEAN
      /\ (pending # NoControl => pending' = pending)
  <2>1. Pump(phase, desired, confirmed, revision, pending, FALSE)
    BY <1>1
  <2> HIDE <1>1
  <2>2. QED
    BY <1>2, <2>1, PumpEffect
<1>4. TypeOK'
  <2>1. buffered' # <<>> => pending' # NoControl
    BY <1>1, <1>3 DEF IInv, TypeOK
  <2>2. QED
    BY <1>1, <1>3, <2>1 DEF IInv, TypeOK, Controls
<1>5. Types'
  BY <1>1 DEF IInv, Types, Trades
<1>6. Connected' /\ Fresher' /\ Heard'
  BY <1>1, <1>2, PumpStep
<1>7. QED
  BY <1>4, <1>5, <1>6 DEF IInv

\* A failure drops the socket; nothing is promised without one.
LEMMA FailStep ==
  ASSUME IInv, NEW next \in {"wait", "dead"}, Fail(next), left' \in Budgets,
         left'.trade <= left.trade, left'.lost <= left.lost
  PROVE  IInv'
<1>1. /\ phase' = next /\ session' = session \ desired /\ wire' = <<>> /\ inbox' = NoControl /\ owed' = FALSE
      /\ UNCHANGED <<desired, confirmed, pending, revision, sequence, buffered, cooling, subs, srev, sseq,
                     emitted, given, skipped>>
  BY DEF Fail, history
<1>2. NoControl \in Controls /\ <<>> \in Seq(Messages)
  BY DEF NoControl, Controls, Kinds
<1>3. TypeOK'
  BY <1>1, <1>2 DEF IInv, TypeOK, Controls
<1>4. Types'
  <2>1. sseq + left'.trade + left'.lost <= MaxTrades + MaxLost
    BY BudgetKept
  <2>2. Trades(wire') = {}
    BY <1>1 DEF Trades
  <2>3. QED
    BY <1>1, <2>1, <2>2 DEF IInv, Types, Budgets
<1>5. phase' \notin {"hello", "open"}
  BY <1>1
<1>6. QED
  BY <1>3, <1>4, <1>5 DEF IInv, Connected, Fresher, Heard

LEMMA EnumeratesNothing == Enumerates(<<>>, {})
BY DEF Enumerates

LEMMA ConnectStep ==
  ASSUME IInv, Connect
  PROVE  IInv'
<1> DEFINE hello == Message("hello", NoProject, 0, 0)
<1>1. /\ phase' = "hello" /\ confirmed' = {} /\ pending' = NoControl /\ revision' = -1 /\ sequence' = 0
      /\ buffered' = <<>> /\ cooling' = FALSE /\ subs' = {} /\ srev' = 0 /\ sseq' = 0
      /\ inbox' = NoControl /\ owed' = FALSE /\ wire' = <<hello>>
      /\ emitted' = [p \in Projects |-> {}] /\ given' = [p \in Projects |-> <<>>]
      /\ UNCHANGED <<desired, session, skipped, left>>
  BY DEF Connect
<1>2. NoControl \in Controls /\ hello \in Messages /\ hello.type = "hello"
  BY DEF NoControl, Controls, Kinds, Message, Messages
<1> HIDE DEF hello
<1>3. wire' \in Seq(Messages) /\ DOMAIN wire' = {1} /\ wire'[1] = hello
  BY <1>1, <1>2
<1>4. Trades(wire') = {} /\ Answers(wire') = {} /\ FreshAfter(wire', 0, 0) = {}
  BY <1>2, <1>3 DEF Trades, Answers, FreshAfter, Fresh
<1>5. TypeOK'
  <2>1. emitted' \in [Projects -> SUBSET Numbers] /\ given' \in [Projects -> Seq(Numbers)]
    BY <1>1
  <2>2. buffered' \in Seq(Messages) /\ Len(buffered') = 0 /\ Buffer \in Nat
    BY <1>1, Bounds
  <2>3. desired' \in (SUBSET Projects) \ {{}} /\ session' \subseteq Projects /\ skipped' \subseteq Projects
    BY <1>1 DEF IInv, TypeOK
  <2>4. phase' \in {"wait", "hello", "open", "dead"} /\ confirmed' \subseteq Projects /\ subs' \subseteq Projects
        /\ cooling' \in BOOLEAN /\ owed' \in BOOLEAN
    BY <1>1
  <2>5. revision' \in Int /\ revision' >= -1 /\ sequence' \in Nat /\ srev' \in Nat /\ sseq' \in Nat
    BY <1>1
  <2>6. pending' \in Controls /\ inbox' \in Controls /\ (buffered' # <<>> => pending' # NoControl)
    BY <1>1, <1>2
  <2>7. Len(buffered') <= Buffer
    BY <2>2
  <2>8. QED
    BY <1>3, <2>1, <2>2, <2>3, <2>4, <2>5, <2>6, <2>7 DEF TypeOK, Controls
<1>6. Types'
  <2>1. sseq \in Nat /\ left \in Budgets /\ sseq + left.trade + left.lost <= MaxTrades + MaxLost
    BY DEF IInv, Types, TypeOK
  <2>2. sseq' + left'.trade + left'.lost <= MaxTrades + MaxLost
    BY <1>1, <2>1, Bounds DEF Budgets
  <2>3. QED
    BY <1>1, <1>4, <2>1, <2>2 DEF Types
<1>7. Level'
  BY <1>1, <1>4 DEF Level
<1>8. Trip'
  BY <1>1, <1>4, <1>7 DEF Trip, Idle
<1>9. Counting' /\ Complete'
  BY <1>1 DEF Counting, Complete
<1>10. Fresher' /\ Heard'
  BY <1>1 DEF Fresher, Heard
<1>11. QED
  BY <1>5, <1>6, <1>8, <1>9, <1>10 DEF IInv, Connected

-----------------------------------------------------------------------------
(* Steps that take a message from the queue.                               *)

LEMMA FreshTyped ==
  ASSUME TypeOK, Types, NEW k \in Nat, NEW t \in FreshAfter(wire, sequence, k)
  PROVE  t \in Messages /\ t.type = "trade" /\ t.project \in Projects /\ t.seq \in 1..sseq /\ t.seq > sequence
<1>1. PICK i \in DOMAIN wire : Fresh(wire, sequence, i) /\ t = wire[i]
  BY DEF FreshAfter
<1>2. wire \in Seq(Messages) /\ i \in Trades(wire)
  BY <1>1 DEF TypeOK, Fresh
<1>3. QED
  BY <1>1, <1>2 DEF Types, Fresh, Trades

LEMMA TakeTypes ==
  ASSUME TypeOK, Types, wire # <<>>, Taken, sseq' = sseq
  PROVE  /\ wire \in Seq(Messages) /\ wire' = Tail(wire) /\ wire' \in Seq(Messages)
         /\ Msg = wire[1] /\ Msg \in Messages
         /\ \A i \in Trades(wire') : wire'[i].project \in Projects /\ wire'[i].seq \in 1..sseq'
<1>1. wire \in Seq(Messages) /\ wire' = Tail(wire)
  BY DEF TypeOK, Taken
<1>2. ASSUME NEW i \in Trades(wire') PROVE wire'[i].project \in Projects /\ wire'[i].seq \in 1..sseq'
  <2>1. i \in DOMAIN Tail(wire) /\ Tail(wire)[i].type = "trade"
    BY <1>1, <1>2 DEF Trades
  <2>2. i + 1 \in Trades(wire) /\ wire'[i] = wire[i + 1]
    BY <1>1, <2>1, TailOf DEF Trades
  <2>3. QED
    BY <2>2 DEF Types
<1>3. QED
  BY <1>1, <1>2, TailOf DEF Msg

\* A message that is not a fresh trade leaves the fresh ones as they are.
LEMMA TakeLevel ==
  ASSUME TypeOK, Level, wire # <<>>, wire' = Tail(wire), 1 \in Trades(wire) => wire[1].seq <= sequence,
         buffered' = <<>>, UNCHANGED <<subs, confirmed, revision, srev, emitted, sequence>>
  PROVE  Level'
<1>1. wire \in Seq(Messages) /\ sequence \in Nat
  BY DEF TypeOK
<1>2. \A t \in FreshAfter(Tail(wire), sequence, 0) : t \in FreshAfter(wire, sequence, 0)
  BY <1>1, FreshTail
<1>3. QED
  BY <1>2 DEF Level

LEMMA HelloStep ==
  ASSUME IInv, Hello
  PROVE  IInv'
<1>1. /\ phase = "hello" /\ wire # <<>> /\ Msg.type = "hello" /\ Taken /\ phase' = "open"
      /\ UNCHANGED <<desired, confirmed, revision, sequence, buffered, session, subs, srev, sseq, owed,
                     emitted, given, skipped, left>>
  BY DEF Hello, history
<1>2. Pump("open", desired, confirmed, revision, pending, cooling)
  BY DEF Hello
<1>3. confirmed \in SUBSET Projects /\ revision \in Int /\ desired \in SUBSET Projects /\ cooling \in BOOLEAN
      /\ pending \in Controls /\ inbox \in Controls
  BY DEF IInv, TypeOK, Controls
<1>4. pending' \in Controls /\ inbox' \in Controls /\ cooling' \in BOOLEAN
      /\ (pending # NoControl => pending' = pending)
  BY <1>2, <1>3, PumpEffect
<1>5. wire' = Tail(wire) /\ wire' \in Seq(Messages) /\ wire \in Seq(Messages) /\ Msg = wire[1]
      /\ \A i \in Trades(wire') : wire'[i].project \in Projects /\ wire'[i].seq \in 1..sseq'
  BY <1>1, TakeTypes DEF IInv
<1>6. TypeOK'
  <2>1. buffered' # <<>> => pending' # NoControl
    BY <1>1, <1>4 DEF IInv, TypeOK
  <2>2. QED
    BY <1>1, <1>4, <1>5, <2>1 DEF IInv, TypeOK, Controls
<1>7. Types'
  BY <1>1, <1>5 DEF IInv, Types
<1>8. Idle
  BY <1>1 DEF IInv, Connected, Trip, Asked, Served, Acked, Refused, Under
<1>9. 1 \notin Trades(wire) /\ Answers(wire') = {}
  <2>1. Answers(wire) = {}
    BY <1>8 DEF Idle
  <2>2. QED
    BY <1>1, <1>5, <2>1, AnswersTail DEF Trades
<1>10. Level'
  <2>1. Level /\ buffered' = <<>>
    BY <1>1, <1>8 DEF Idle, Level
  <2>2. QED
    BY <1>1, <1>5, <1>9, <2>1, TakeLevel DEF IInv
<1>11. Trip'
  <2>1. pending = NoControl /\ inbox = NoControl /\ ~owed'
    BY <1>1, <1>8 DEF Idle
  <2>2. QED
    BY <1>1, <1>2, <1>3, <1>9, <1>10, <2>1, PumpTrip
<1>12. Counting' /\ Complete' /\ Heard' /\ Fresher'
  <2>1. Counting /\ Complete
    BY <1>1 DEF IInv, Connected
  <2>2. Counting' /\ Complete'
    BY <1>1, <2>1, SameCounts
  <2>3. Heard' /\ Fresher'
    BY <1>1 DEF IInv, Heard, Fresher
  <2>4. QED
    BY <2>2, <2>3
<1>13. QED
  BY <1>6, <1>7, <1>11, <1>12 DEF IInv, Connected

\* The error that answers the request under way: both sides stay where they were.
LEMMA ErrorStep ==
  ASSUME IInv, ControlError
  PROVE  IInv'
<1>1. phase = "open" /\ wire # <<>> /\ Msg.type = "error" /\ left' = left
  BY DEF ControlError
<1>2. CASE revision < 0
  <2>1. PICK next \in {"wait", "dead"} : Fail(next)
    BY <1>2 DEF ControlError, IInv, TypeOK
  <2>2. left' \in Budgets /\ left'.trade <= left.trade /\ left'.lost <= left.lost
    BY <1>1 DEF IInv, Types, Budgets
  <2>3. QED
    BY <2>1, <2>2, FailStep
<1>3. CASE revision >= 0
  <2>1. /\ session' = session \ Rejected /\ pending' = NoControl /\ buffered' = <<>> /\ cooling' = TRUE /\ Taken
        /\ UNCHANGED <<phase, desired, confirmed, revision, sequence, subs, srev, sseq, inbox, owed,
                       emitted, given, skipped>>
    BY <1>3 DEF ControlError, server, history
  <2>2. wire' = Tail(wire) /\ wire' \in Seq(Messages) /\ wire \in Seq(Messages) /\ Msg = wire[1]
        /\ \A i \in Trades(wire') : wire'[i].project \in Projects /\ wire'[i].seq \in 1..sseq'
    BY <1>1, <2>1, TakeTypes DEF IInv
  <2>3. 1 \in Answers(wire) /\ 1 \notin Trades(wire) /\ wire[1].type = "error"
    BY <1>1, <2>2, TailOf DEF Answers, Trades
  <2>4. Refused
    <3>1. ~Idle /\ ~Asked /\ ~Served
      BY <2>3 DEF Idle, Asked, Served
    <3>2. ~Acked
      BY <2>3 DEF Acked
    <3>3. QED
      BY <1>1, <3>1, <3>2 DEF IInv, Connected, Trip
  <2>5. Answers(wire') = {}
    BY <1>1, <2>2, <2>3, <2>4, AnswersTail DEF Refused
  <2>6. Level'
    BY <1>1, <2>1, <2>2, <2>3, <2>4, TakeLevel DEF IInv, Refused
  <2>7. Trip'
    BY <2>1, <2>4, <2>5, <2>6 DEF Trip, Idle, Refused
  <2>8. Counting' /\ Complete'
    <3>1. buffered' = buffered
      BY <2>1, <2>4 DEF Refused, Level
    <3>2. Counting /\ Complete
      BY <1>1 DEF IInv, Connected
    <3>3. QED
      BY <2>1, <3>1, <3>2, SameCounts
  <2>9. Heard' /\ Fresher'
    BY <1>1, <2>1 DEF IInv, Heard, Rejected, Fresher
  <2>10. TypeOK'
    <3>1. NoControl \in Controls /\ <<>> \in Seq(Messages) /\ Len(<<>>) = 0 /\ Buffer \in Nat
      BY Bounds DEF NoControl, Controls, Kinds
    <3>2. QED
      BY <2>1, <2>2, <3>1 DEF IInv, TypeOK, Controls
  <2>11. Types'
    <3>1. buffered' = buffered
      BY <2>1, <2>4 DEF Refused, Level
    <3>2. QED
      BY <1>1, <2>1, <2>2, <3>1 DEF IInv, Types
  <2>12. QED
    BY <2>7, <2>8, <2>9, <2>10, <2>11 DEF IInv, Connected
<1>4. QED
  BY <1>2, <1>3 DEF IInv, TypeOK

-----------------------------------------------------------------------------
(* Steps of the server.                                                    *)

LEMMA AppendTypes ==
  ASSUME TypeOK, Types, NEW m \in Messages, wire' = Append(wire, m),
         m.type = "trade" => m.project \in Projects /\ m.seq \in 1..sseq', sseq' \in Nat, sseq <= sseq'
  PROVE  /\ wire \in Seq(Messages) /\ wire' \in Seq(Messages)
         /\ \A i \in Trades(wire') : wire'[i].project \in Projects /\ wire'[i].seq \in 1..sseq'
<1>1. wire \in Seq(Messages) /\ sseq \in Nat
  BY DEF TypeOK
<1>2. ASSUME NEW i \in Trades(wire') PROVE wire'[i].project \in Projects /\ wire'[i].seq \in 1..sseq'
  <2>1. i \in 1..(Len(wire) + 1) /\ wire'[i].type = "trade" /\ Len(wire) \in Nat
    BY <1>1, <1>2, AppendOf DEF Trades
  <2>2. CASE i = Len(wire) + 1
    BY <1>1, <2>1, <2>2, AppendOf
  <2>3. CASE i # Len(wire) + 1
    <3>1. i \in Trades(wire) /\ wire'[i] = wire[i]
      BY <1>1, <2>1, <2>3, AppendOf DEF Trades
    <3>2. QED
      BY <1>1, <3>1 DEF Types
  <2>4. QED
    BY <2>2, <2>3
<1>3. QED
  BY <1>1, <1>2, AppendOf

\* Nothing has come yet of a request on its way.
LEMMA AskedFirst ==
  ASSUME IInv, inbox # NoControl, phase \in {"hello", "open"}
  PROVE  Asked
BY DEF IInv, Connected, Trip, Idle, Served, Acked, Refused

LEMMA AppliesStep ==
  ASSUME IInv, ServerApplies
  PROVE  IInv'
<1>1. /\ inbox # NoControl /\ inbox' = NoControl /\ subs' = Applied /\ srev' = srev + 1 /\ owed' = TRUE
      /\ emitted' = [p \in Projects |-> IF p \in subs THEN emitted[p] ELSE {}]
      /\ UNCHANGED <<phase, desired, confirmed, pending, revision, sequence, buffered, cooling, session, sseq, wire,
                     given, skipped, left>>
  BY DEF ServerApplies, client
<1>2. Applied \in SUBSET Projects
  BY DEF Applied, IInv, TypeOK
<1>3. TypeOK'
  <2>1. NoControl \in Controls
    BY DEF NoControl, Controls, Kinds
  <2>2. emitted' \in [Projects -> SUBSET Numbers]
    BY <1>1 DEF IInv, TypeOK
  <2>3. QED
    BY <1>1, <1>2, <2>1, <2>2 DEF IInv, TypeOK, Controls
<1>4. Types'
  BY <1>1 DEF IInv, Types, Trades
<1>5. ASSUME phase \in {"hello", "open"} PROVE Trip' /\ Counting' /\ Complete'
  <2>1. Asked
    BY <1>1, <1>5, AskedFirst
  <2>2. Level /\ subs = confirmed /\ buffered = <<>> /\ subs' = pending.set
    BY <1>1, <2>1 DEF Asked, Level
  <2>3. Counting /\ Complete
    BY <1>5 DEF IInv, Connected
  <2>4. \A p \in Projects : emitted'[p] = IF p \in subs THEN emitted[p] ELSE {}
    BY <1>1
  <2>5. confirmed \subseteq Projects /\ sseq \in Nat /\ sequence \in Nat /\ sequence <= sseq /\ srev \in Nat /\ revision \in Int
        /\ pending.set \subseteq Projects
    BY DEF IInv, TypeOK, Types
  <2>6. Counting'
    <3>1. ASSUME NEW p \in Projects PROVE emitted'[p] \subseteq 1..sseq'
      BY <1>1, <2>3, <2>4 DEF Counting
    <3>2. ASSUME NEW p \in Projects, NEW q \in Projects, p # q PROVE emitted'[p] \cap emitted'[q] = {}
      BY <2>3, <2>4, <3>2 DEF Counting
    <3>3. QED
      BY <3>1, <3>2 DEF Counting
  <2>7. Complete'
    <3>1. ASSUME NEW p \in confirmed \ skipped PROVE Enumerates(given[p], PassedBy(p)')
      <4>1. emitted'[p] = emitted[p]
        BY <2>2, <2>4, <2>5
      <4>2. PassedBy(p)' = PassedBy(p)
        BY <1>1, <4>1 DEF PassedBy, Waiting
      <4>3. QED
        BY <2>3, <4>2 DEF Complete
    <3>2. QED
      BY <1>1, <3>1 DEF Complete
  <2>8. Ahead(sseq)'
    <3>1. revision < srev'
      BY <1>1, <2>2, <2>5 DEF Level
    <3>2. ASSUME NEW t \in FreshAfter(wire, sequence, 0)
          PROVE  t.seq \in emitted'[t.project] /\ ~(t.seq > sseq) /\ t.rev = revision /\ t.project \in confirmed
      <4>1. t.rev = srev /\ t.project \in subs /\ t.seq \in emitted[t.project]
        BY <2>2, <3>2 DEF Level
      <4>2. t.seq \in emitted'[t.project]
        BY <2>2, <2>4, <2>5, <4>1
      <4>3. t.seq \in 1..sseq
        BY <3>2, FreshTyped DEF IInv
      <4>4. revision = srev
        BY <2>2, <4>1 DEF Level
      <4>5. QED
        BY <2>2, <2>5, <4>1, <4>2, <4>3, <4>4
    <3>3. \A p \in subs' \ confirmed' : emitted'[p] = {}
      BY <1>1, <2>2, <2>4, <2>5
    <3>4. DOMAIN buffered' = {}
      BY <1>1, <2>2
    <3>5. \A n \in (sseq + 1)..sequence : FALSE
      BY <2>5
    <3>6. QED
      BY <1>1, <2>2, <3>1, <3>2, <3>3, <3>4, <3>5 DEF Ahead, Held
  <2>9. Served'
    <3>1. Answers(wire) = {} /\ Under
      BY <2>1 DEF Asked
    <3>2. sseq' \in 0..sseq' /\ sseq' = sseq
      BY <1>1, <2>5
    <3>3. QED
      BY <1>1, <2>8, <3>1, <3>2 DEF Served, Under
  <2>10. QED
    BY <2>6, <2>7, <2>9 DEF Trip
<1>6. Fresher' /\ Heard'
  BY <1>1 DEF IInv, Fresher, Heard
<1>7. QED
  BY <1>1, <1>3, <1>4, <1>5, <1>6 DEF IInv, Connected

LEMMA RejectsStep ==
  ASSUME IInv, ServerRejects
  PROVE  IInv'
<1> DEFINE m == Message("error", NoProject, 0, 0)
<1>1. /\ inbox # NoControl /\ inbox' = NoControl /\ Spend("reject") /\ wire' = Append(wire, m)
      /\ UNCHANGED <<phase, desired, confirmed, pending, revision, sequence, buffered, cooling, session, subs, srev,
                     sseq, owed, emitted, given, skipped>>
  BY DEF ServerRejects, client, history
<1>2. m \in Messages /\ m.type = "error"
  BY DEF Message, Messages
<1> HIDE DEF m
<1>3. wire \in Seq(Messages) /\ wire' \in Seq(Messages)
      /\ \A i \in Trades(wire') : wire'[i].project \in Projects /\ wire'[i].seq \in 1..sseq'
  <2>1. sseq' \in Nat /\ sseq <= sseq'
    BY <1>1 DEF IInv, TypeOK
  <2>2. QED
    BY <1>1, <1>2, <2>1, AppendTypes DEF IInv
<1>4. TypeOK'
  <2>1. NoControl \in Controls
    BY DEF NoControl, Controls, Kinds
  <2>2. QED
    BY <1>1, <1>3, <2>1 DEF IInv, TypeOK, Controls
<1>5. Types'
  <2>1. left' \in Budgets /\ left'.trade <= left.trade /\ left'.lost <= left.lost
    BY <1>1, SpendEffect DEF IInv, Types
  <2>2. sseq + left'.trade + left'.lost <= MaxTrades + MaxLost
    BY <2>1, BudgetKept
  <2>3. QED
    BY <1>1, <1>3, <2>1, <2>2 DEF IInv, Types
<1>6. ASSUME phase \in {"hello", "open"} PROVE Trip' /\ Counting' /\ Complete'
  <2>1. Asked
    BY <1>1, <1>6, AskedFirst
  <2>2. Answers(wire') = {Len(wire) + 1} /\ Len(wire) + 1 \in DOMAIN wire' /\ wire'[Len(wire) + 1].type = "error"
    BY <1>1, <1>2, <1>3, <2>1, AnswersAppend, AppendOf DEF Asked
  <2>3. Level'
    <3>1. \A t \in FreshAfter(wire', sequence, 0) : t \in FreshAfter(wire, sequence, 0)
      <4>1. sequence \in Nat
        BY DEF IInv, TypeOK
      <4>2. QED
        BY <1>1, <1>2, <1>3, <4>1, FreshAppend
    <3>2. QED
      BY <1>1, <2>1, <3>1 DEF Asked, Level
  <2>4. Refused'
    BY <1>1, <2>1, <2>2, <2>3 DEF Refused, Asked, Under
  <2>5. QED
    BY <1>1, <1>6, <2>4, SameCounts DEF Trip, IInv, Connected
<1>7. Fresher' /\ Heard'
  BY <1>1 DEF IInv, Fresher, Heard
<1>8. QED
  BY <1>1, <1>4, <1>5, <1>6, <1>7 DEF IInv, Connected

LEMMA AcksStep ==
  ASSUME IInv, ServerAcks
  PROVE  IInv'
<1> DEFINE m == Message("ack", NoProject, srev, 0)
<1>1. /\ owed /\ owed' = FALSE /\ wire' = Append(wire, m)
      /\ UNCHANGED <<phase, desired, confirmed, pending, revision, sequence, buffered, cooling, session, subs, srev,
                     sseq, inbox, emitted, given, skipped, left>>
  BY DEF ServerAcks, client, history
<1>2. m \in Messages /\ m.type = "ack" /\ m.rev = srev
  BY DEF Message, Messages, IInv, TypeOK
<1> HIDE DEF m
<1>3. wire \in Seq(Messages) /\ wire' \in Seq(Messages)
      /\ \A i \in Trades(wire') : wire'[i].project \in Projects /\ wire'[i].seq \in 1..sseq'
  <2>1. sseq' \in Nat /\ sseq <= sseq'
    BY <1>1 DEF IInv, TypeOK
  <2>2. QED
    BY <1>1, <1>2, <2>1, AppendTypes DEF IInv
<1>4. TypeOK'
  BY <1>1, <1>3 DEF IInv, TypeOK
<1>5. Types'
  BY <1>1, <1>3 DEF IInv, Types
<1>6. ASSUME phase \in {"hello", "open"} PROVE Trip' /\ Counting' /\ Complete'
  <2>1. Served
    BY <1>1, <1>6 DEF IInv, Connected, Trip, Idle, Asked, Acked, Refused
  <2>2. PICK b \in 0..sseq : Ahead(b)
    BY <2>1 DEF Served
  <2> DEFINE k == Len(wire) + 1
  <2>3. Answers(wire') = {k} /\ k \in DOMAIN wire' /\ wire'[k].type = "ack" /\ wire'[k].rev = srev'
        /\ DOMAIN wire' = 1..k /\ k \in Nat
    BY <1>1, <1>2, <1>3, <2>1, AnswersAppend, AppendOf DEF Served
  <2> HIDE DEF k
  <2>4. Ahead(b)'
    <3>1. \A t \in FreshAfter(wire', sequence, 0) : t \in FreshAfter(wire, sequence, 0)
      <4>1. sequence \in Nat
        BY DEF IInv, TypeOK
      <4>2. QED
        BY <1>1, <1>2, <1>3, <4>1, FreshAppend
    <3>2. QED
      BY <1>1, <2>2, <3>1 DEF Ahead, Held, Waiting
  <2>5. FreshAfter(wire', sequence', k) = {}
    BY <2>3 DEF FreshAfter
  <2>6. Acked'
    BY <1>1, <2>1, <2>3, <2>4, <2>5 DEF Acked, Served, Under
  <2>7. QED
    BY <1>1, <1>6, <2>6, SameCounts DEF Trip, IInv, Connected
<1>7. Fresher' /\ Heard'
  BY <1>1 DEF IInv, Fresher, Heard
<1>8. QED
  BY <1>1, <1>4, <1>5, <1>6, <1>7 DEF IInv, Connected

\* More messages behind, the fresh ones in M: trades that have just happened.
LEMMA GrowTrip ==
  ASSUME IInv, phase \in {"hello", "open"}, NEW M,
         UNCHANGED <<phase, confirmed, pending, revision, sequence, buffered, subs, srev, inbox, owed>>,
         sseq' \in Nat, sseq <= sseq', Answers(wire') = Answers(wire),
         \A i \in DOMAIN wire : i \in DOMAIN wire' /\ wire'[i] = wire[i],
         \A k \in Nat : \A t \in FreshAfter(wire', sequence, k) : t \in FreshAfter(wire, sequence, k) \/ t \in M,
         \A t \in M : t.rev = srev /\ t.project \in subs /\ t.seq \in Nat /\ t.seq > sseq /\ t.seq \in emitted'[t.project],
         \A p \in Projects : emitted[p] \subseteq emitted'[p] /\ \A n \in emitted'[p] : n \in emitted[p] \/ (n \in Nat /\ n > sseq)
  PROVE  Trip'
<1>1. Trip /\ TypeOK /\ Types
  BY DEF IInv, Connected
<1>2. sseq \in Nat /\ subs \subseteq Projects /\ confirmed \subseteq Projects /\ wire \in Seq(Messages)
  BY <1>1 DEF TypeOK
<1>3. DOMAIN wire \subseteq Nat /\ 0 \in Nat
  BY <1>2, LenProperties
<1>4. \A p \in Projects : \A n \in emitted[p] : n \in emitted'[p]
  OBVIOUS
<1>5. \A t \in FreshAfter(wire, sequence, 0) : t.project \in Projects /\ t.seq \in 1..sseq
  BY <1>1, FreshTyped
<1>6. \A t \in FreshAfter(wire', sequence', 0) : t \in FreshAfter(wire, sequence, 0) \/ t \in M
  BY <1>3
<1>7. Level => Level'
  BY <1>2, <1>4, <1>5, <1>6 DEF Level
<1>8. ASSUME NEW b \in 0..sseq, Ahead(b) PROVE Ahead(b)'
  <2>1. subs' = pending'.set /\ revision' < srev'
    BY <1>8 DEF Ahead
  <2>2. ASSUME NEW t \in FreshAfter(wire', sequence', 0)
        PROVE  /\ t.seq \in emitted'[t.project]
               /\ t.seq > b => t.rev = srev' /\ t.project \in subs'
               /\ t.seq <= b => t.rev = revision' /\ t.project \in confirmed'
    <3>1. CASE t \in M
      BY <1>2, <3>1
    <3>2. CASE t \in FreshAfter(wire, sequence, 0)
      BY <1>4, <1>5, <1>8, <3>2 DEF Ahead
    <3>3. QED
      BY <1>6, <2>2, <3>1, <3>2
  <2>3. \A p \in subs' \ confirmed' : \A n \in emitted'[p] : n > b
    <3>1. ASSUME NEW p \in subs \ confirmed, NEW n \in emitted'[p] PROVE n > b
      <4>1. p \in Projects
        BY <1>2
      <4>2. CASE n \in emitted[p]
        BY <1>8, <4>2 DEF Ahead
      <4>3. CASE n \notin emitted[p]
        <5>1. n > sseq /\ n \in Nat
          BY <4>1, <4>3
        <5>2. QED
          BY <1>2, <5>1
      <4>4. QED
        BY <4>2, <4>3
    <3>2. QED
      BY <3>1
  <2>4. \A i \in DOMAIN buffered : buffered[i].seq \in emitted'[buffered[i].project]
    BY <1>1, <1>4, <1>8 DEF Ahead, Held, Types
  <2>5. QED
    BY <1>8, <2>1, <2>2, <2>3, <2>4 DEF Ahead, Held, Waiting
<1>9. \A b \in 0..sseq : b \in 0..sseq'
  BY <1>2
<1>10. Idle => Idle'
  BY <1>7 DEF Idle
<1>11. Asked => Asked'
  BY <1>7 DEF Asked, Under, Applied
<1>12. Served => Served'
  BY <1>8, <1>9 DEF Served, Under
<1>13. Refused => Refused'
  BY <1>7 DEF Refused, Under
<1>14. Acked => Acked'
  <2> SUFFICES ASSUME Acked PROVE Acked'
    OBVIOUS
  <2>1. PICK k \in DOMAIN wire, b \in 0..sseq :
          /\ Answers(wire) = {k} /\ wire[k].type = "ack" /\ wire[k].rev = srev
          /\ Ahead(b) /\ \A t \in FreshAfter(wire, sequence, k) : t.seq > b
    BY DEF Acked
  <2>2. \A t \in FreshAfter(wire', sequence', k) : t.seq > b
    <3> TAKE t \in FreshAfter(wire', sequence', k)
    <3>1. CASE t \in FreshAfter(wire, sequence, k)
      BY <2>1, <3>1
    <3>2. CASE t \in M
      BY <1>2, <3>2
    <3>3. k \in Nat
      BY <1>3
    <3>4. QED
      BY <3>1, <3>2, <3>3
  <2>3. k \in DOMAIN wire' /\ wire'[k] = wire[k]
    OBVIOUS
  <2>4. Ahead(b)'
    BY <1>8, <2>1
  <2>5. QED
    BY <1>9, <2>1, <2>2, <2>3, <2>4 DEF Acked, Under
<1>15. QED
  BY <1>1, <1>10, <1>11, <1>12, <1>13, <1>14 DEF Trip

LEMMA RepeatsStep ==
  ASSUME IInv, ServerRepeats
  PROVE  IInv'
<1>1. PICK t \in ToSet(wire) : t.type = "trade" /\ wire' = Append(wire, t)
  BY DEF ServerRepeats
<1>2. /\ Spend("lost")
      /\ UNCHANGED <<phase, desired, confirmed, pending, revision, sequence, buffered, cooling, session, subs, srev,
                     sseq, inbox, owed, emitted, given, skipped>>
  BY DEF ServerRepeats, client, server, history
<1>3. wire \in Seq(Messages) /\ sequence \in Nat /\ sseq \in Nat
  BY DEF IInv, TypeOK
<1>4. PICK j \in Trades(wire) : t = wire[j]
  BY <1>1 DEF ToSet, Trades
<1>5. t \in Messages /\ t.project \in Projects /\ t.seq \in 1..sseq
  BY <1>3, <1>4 DEF IInv, Types, Trades
<1>6. wire' \in Seq(Messages)
      /\ \A i \in Trades(wire') : wire'[i].project \in Projects /\ wire'[i].seq \in 1..sseq'
  <2>1. sseq' \in Nat /\ sseq <= sseq' /\ (t.type = "trade" => t.project \in Projects /\ t.seq \in 1..sseq')
    BY <1>2, <1>3, <1>5
  <2>2. QED
    BY <1>1, <1>5, <2>1, AppendTypes DEF IInv
<1>7. TypeOK'
  BY <1>2, <1>6 DEF IInv, TypeOK
<1>8. Types'
  <2>1. left' \in Budgets /\ left'.trade <= left.trade /\ left'.lost <= left.lost
    BY <1>2, SpendEffect DEF IInv, Types
  <2>2. sseq + left'.trade + left'.lost <= MaxTrades + MaxLost
    BY <2>1, BudgetKept
  <2>3. QED
    BY <1>2, <1>6, <2>1, <2>2 DEF IInv, Types
<1>9. ASSUME phase \in {"hello", "open"} PROVE Trip' /\ Counting' /\ Complete'
  <2>1. Answers(wire') = Answers(wire)
    BY <1>1, <1>3, <1>5, AnswersAppend
  <2>2. \A i \in DOMAIN wire : i \in DOMAIN wire' /\ wire'[i] = wire[i]
    BY <1>1, <1>3, <1>5, AppendOf
  <2>3. ASSUME NEW k \in Nat, NEW u \in FreshAfter(wire', sequence, k)
        PROVE  u \in FreshAfter(wire, sequence, k) \/ u \in {}
    <3>1. ~(t.seq < t.seq)
      BY <1>5
    <3>2. QED
      BY <1>1, <1>3, <1>4, <1>5, <3>1, FreshAppend
  <2>4. Trip'
    <3>1. \A q \in Projects : emitted[q] \subseteq emitted'[q] /\ \A n \in emitted'[q] : n \in emitted[q]
      BY <1>2
    <3>2. sseq' \in Nat /\ sseq <= sseq'
      BY <1>2, <1>3
    <3> DEFINE none == {}
    <3>3. \A k \in Nat : \A u \in FreshAfter(wire', sequence, k) : u \in FreshAfter(wire, sequence, k) \/ u \in none
      BY <2>3
    <3>5. \A u \in none : /\ u.rev = srev /\ u.project \in subs /\ u.seq \in Nat /\ u.seq > sseq
                          /\ u.seq \in emitted'[u.project]
      OBVIOUS
    <3> HIDE DEF none
    <3>4. UNCHANGED <<phase, confirmed, pending, revision, sequence, buffered, subs, srev, inbox, owed>>
      BY <1>2
    <3>6. QED
      BY <1>9, <2>1, <2>2, <3>1, <3>2, <3>3, <3>4, <3>5, GrowTrip
  <2>5. QED
    BY <1>2, <1>9, <2>4, SameCounts DEF IInv, Connected
<1>10. Fresher' /\ Heard'
  BY <1>2 DEF IInv, Fresher, Heard
<1>11. QED
  BY <1>2, <1>7, <1>8, <1>9, <1>10 DEF IInv, Connected

LEMMA HappensStep ==
  ASSUME IInv, NEW p \in Projects, ServerTrade(p)
  PROVE  IInv'
<1> DEFINE m == Message("trade", p, srev, sseq + 1)
<1>1. /\ p \in subs /\ sseq' = sseq + 1 /\ emitted' = [emitted EXCEPT ![p] = @ \cup {sseq + 1}]
      /\ \/ Spend("trade") /\ wire' = Append(wire, m)
         \/ Spend("lost") /\ wire' = wire
      /\ UNCHANGED <<phase, desired, confirmed, pending, revision, sequence, buffered, cooling, session, subs, srev,
                     inbox, owed, given, skipped>>
  BY DEF ServerTrade, client
<1>2. wire \in Seq(Messages) /\ sequence \in Nat /\ sseq \in Nat /\ srev \in Nat /\ sequence <= sseq
      /\ emitted \in [Projects -> SUBSET Numbers]
  BY DEF IInv, TypeOK, Types
<1>3. m \in Messages /\ m.type = "trade" /\ m.rev = srev /\ m.project = p /\ m.seq = sseq + 1
  BY <1>2 DEF Message, Messages
<1> HIDE DEF m
<1>4. wire' \in Seq(Messages)
      /\ \A i \in Trades(wire') : wire'[i].project \in Projects /\ wire'[i].seq \in 1..sseq'
  <2>1. sseq' \in Nat /\ sseq <= sseq' /\ m.seq \in 1..sseq'
    BY <1>1, <1>2, <1>3
  <2>2. CASE wire' = Append(wire, m)
    BY <1>3, <2>1, <2>2, AppendTypes DEF IInv
  <2>3. CASE wire' = wire
    BY <1>2, <2>1, <2>3 DEF IInv, Types
  <2>4. QED
    BY <1>1, <2>2, <2>3
<1>5. left' \in Budgets /\ sseq' + left'.trade + left'.lost <= MaxTrades + MaxLost
  <2>1. left \in Budgets /\ sseq + left.trade + left.lost <= MaxTrades + MaxLost
    BY DEF IInv, Types
  <2>2. left' \in Budgets /\ left'.trade + left'.lost + 1 = left.trade + left.lost
    BY <1>1, <2>1, SpendEffect
  <2>3. QED
    <3>1. left.trade \in Nat /\ left.lost \in Nat /\ left'.trade \in Nat /\ left'.lost \in Nat
      BY <2>1, <2>2 DEF Budgets
    <3>2. sseq' = sseq + 1
      BY <1>1
    <3>3. QED
      BY <1>2, <2>1, <2>2, <3>1, <3>2, Bounds
<1>6. emitted' \in [Projects -> SUBSET Numbers]
  <2>1. sseq + 1 \in Numbers
    BY <1>1, <1>2, <1>5, Bounds DEF Budgets, Numbers
  <2>2. QED
    BY <1>1, <1>2, <2>1
<1>7. TypeOK'
  BY <1>1, <1>2, <1>4, <1>6 DEF IInv, TypeOK
<1>8. Types'
  BY <1>1, <1>2, <1>4, <1>5 DEF IInv, Types
<1>9. \A q \in Projects : emitted'[q] = IF q = p THEN emitted[p] \cup {sseq + 1} ELSE emitted[q]
  BY <1>1, <1>2
<1>10. ASSUME phase \in {"hello", "open"} PROVE Trip' /\ Counting' /\ Complete'
  <2>1. Answers(wire') = Answers(wire)
    BY <1>1, <1>2, <1>3, AnswersAppend
  <2>2. \A i \in DOMAIN wire : i \in DOMAIN wire' /\ wire'[i] = wire[i]
    BY <1>1, <1>2, <1>3, AppendOf
  <2>3. \A k \in Nat : \A t \in FreshAfter(wire', sequence, k) : t \in FreshAfter(wire, sequence, k) \/ t \in {m}
    BY <1>1, <1>2, <1>3, FreshAppend
  <2>4. \A t \in {m} : t.rev = srev /\ t.project \in subs /\ t.seq \in Nat /\ t.seq > sseq /\ t.seq \in emitted'[t.project]
    BY <1>1, <1>2, <1>3, <1>9
  <2>5. \A q \in Projects : emitted[q] \subseteq emitted'[q] /\ \A n \in emitted'[q] : n \in emitted[q] \/ (n \in Nat /\ n > sseq)
    BY <1>2, <1>9
  <2>6. sseq' \in Nat /\ sseq <= sseq'
    BY <1>1, <1>2
  <2>7. Trip'
    BY <1>1, <1>10, <2>1, <2>2, <2>3, <2>4, <2>5, <2>6, GrowTrip
  <2>8. Counting /\ Complete
    BY <1>10 DEF IInv, Connected
  <2>9. Counting'
    <3>1. \A q \in Projects : emitted'[q] \subseteq 1..sseq'
      BY <1>1, <1>2, <1>9, <2>8 DEF Counting
    <3>2. ASSUME NEW q \in Projects, NEW r \in Projects, q # r PROVE emitted'[q] \cap emitted'[r] = {}
      <4>1. emitted[q] \cap emitted[r] = {} /\ sseq + 1 \notin emitted[q] /\ sseq + 1 \notin emitted[r]
        BY <1>2, <2>8, <3>2 DEF Counting
      <4>2. QED
        BY <1>9, <3>2, <4>1
    <3>3. QED
      BY <3>1, <3>2 DEF Counting
  <2>10. Complete'
    <3>1. ASSUME NEW q \in confirmed \ skipped PROVE Enumerates(given[q], PassedBy(q)')
      <4>1. q \in Projects /\ sequence < sseq + 1
        BY <1>2 DEF IInv, TypeOK
      <4>2. PassedBy(q)' = PassedBy(q)
        BY <1>1, <1>2, <1>9, <4>1 DEF PassedBy, Waiting
      <4>3. QED
        BY <2>8, <4>2 DEF Complete
    <3>2. QED
      BY <1>1, <3>1 DEF Complete
  <2>11. QED
    BY <2>7, <2>9, <2>10
<1>11. Fresher' /\ Heard'
  BY <1>1 DEF IInv, Fresher, Heard
<1>12. QED
  BY <1>1, <1>7, <1>8, <1>10, <1>11 DEF IInv, Connected

-----------------------------------------------------------------------------
(* A trade arrives.                                                        *)

LEMMA EnumeratesAppend ==
  ASSUME NEW q \in Seq(Nat), NEW S, Enumerates(q, S), NEW n \in Nat, \A s \in S : s < n
  PROVE  Enumerates(Append(q, n), S \cup {n})
<1> DEFINE w == Append(q, n)
<1>1. /\ Len(q) \in Nat /\ DOMAIN q = 1..Len(q) /\ DOMAIN w = 1..(Len(q) + 1)
      /\ \A i \in 1..Len(q) : w[i] = q[i]
      /\ w[Len(q) + 1] = n
  OBVIOUS
<1> HIDE DEF w
<1>2. \A i \in 1..Len(q) : q[i] \in S
  BY <1>1 DEF Enumerates
<1>3. \A i, j \in DOMAIN w : i < j => w[i] < w[j]
  <2> SUFFICES ASSUME NEW i \in DOMAIN w, NEW j \in DOMAIN w, i < j PROVE w[i] < w[j]
    OBVIOUS
  <2>1. i \in 1..Len(q)
    BY <1>1
  <2>2. CASE j = Len(q) + 1
    BY <1>1, <1>2, <2>1, <2>2
  <2>3. CASE j # Len(q) + 1
    <3>1. j \in 1..Len(q)
      BY <1>1, <2>3
    <3>2. QED
      BY <1>1, <2>1, <3>1 DEF Enumerates
  <2>4. QED
    BY <2>2, <2>3
<1>4. {w[i] : i \in DOMAIN w} = S \cup {n}
  <2>1. \A i \in DOMAIN w : w[i] \in S \cup {n}
    BY <1>1, <1>2
  <2>2. ASSUME NEW s \in S PROVE \E i \in DOMAIN w : w[i] = s
    <3>1. PICK i \in DOMAIN q : q[i] = s
      BY DEF Enumerates
    <3>2. i \in DOMAIN w /\ w[i] = s
      BY <1>1, <3>1
    <3>3. QED
      BY <3>2
  <2>3. Len(q) + 1 \in DOMAIN w
    BY <1>1
  <2>4. QED
    BY <1>1, <2>1, <2>2, <2>3
<1>5. QED
  BY <1>3, <1>4 DEF Enumerates, w

\* A fresh trade is one of its project, and either of a later revision or of the client's.
LEMMA FreshMeaning ==
  ASSUME IInv, phase \in {"hello", "open"}, NEW t \in FreshAfter(wire, sequence, 0)
  PROVE  /\ t.seq \in emitted[t.project] /\ t.project \in Projects /\ t.rev \in Nat /\ t.seq \in 1..sseq
         /\ t.rev > revision \/ (t.rev = revision /\ t.project \in confirmed)
<1>1. t \in Messages /\ t.project \in Projects /\ t.seq \in 1..sseq
  BY FreshTyped DEF IInv
<1>2. t.rev \in Nat /\ t.seq \in Int /\ sseq \in Int /\ srev \in Int /\ revision \in Int
  BY <1>1 DEF Messages, IInv, TypeOK
<1>3. CASE Level
  BY <1>1, <1>2, <1>3 DEF Level
<1>4. ASSUME NEW b \in 0..sseq, Ahead(b)
      PROVE  t.seq \in emitted[t.project] /\ (t.rev > revision \/ (t.rev = revision /\ t.project \in confirmed))
  <2>1. t.seq > b \/ t.seq <= b
    BY <1>2
  <2>2. QED
    BY <1>2, <1>4, <2>1 DEF Ahead
<1>5. Level \/ \E b \in 0..sseq : Ahead(b)
  BY DEF IInv, Connected, Trip, Idle, Asked, Served, Acked, Refused
<1>6. QED
  BY <1>1, <1>2, <1>3, <1>4, <1>5

\* Taking a trade does not move the request under way.
LEMMA TakeTrip ==
  ASSUME IInv, phase = "open", wire # <<>>, Msg.type = "trade", Taken,
         sequence' \in Nat, sequence <= sequence', Msg.seq <= sequence',
         UNCHANGED <<phase, confirmed, pending, revision, subs, srev, sseq, inbox, owed, emitted>>,
         Level => buffered' = <<>>,
         \A b \in 0..sseq : Ahead(b) => Held(b)'
  PROVE  Trip'
<1>1. Trip /\ wire \in Seq(Messages) /\ wire' = Tail(wire) /\ Msg = wire[1] /\ sequence \in Nat /\ sseq \in Nat
  BY TailOf DEF IInv, Connected, TypeOK, Taken, Msg
<1>2. \A k \in Nat : \A t \in FreshAfter(wire', sequence', k) :
        t \in FreshAfter(wire, sequence, k + 1) /\ t \in FreshAfter(wire, sequence, 0)
  BY <1>1, FreshTail
<1>3. 1 \in DOMAIN wire /\ 1 \notin Answers(wire)
  BY <1>1, TailOf DEF Answers
<1>4. 0 \in Nat
  OBVIOUS
<1>5. \A t \in FreshAfter(wire', sequence', 0) : t \in FreshAfter(wire, sequence, 0)
  BY <1>2, <1>4
<1>6. Level => Level'
  BY <1>5 DEF Level
<1>7. \A b \in 0..sseq : Ahead(b) => Ahead(b)'
  BY <1>5 DEF Ahead
<1>8. Answers(wire) = {} => Answers(wire') = {}
  BY <1>1, AnswersTail
<1>9. ASSUME NEW k \in DOMAIN wire, Answers(wire) = {k}
      PROVE  k - 1 \in DOMAIN wire' /\ Answers(wire') = {k - 1} /\ wire'[k - 1] = wire[k] /\ k - 1 \in Nat /\ (k - 1) + 1 = k
  <2>1. k - 1 \in DOMAIN wire' /\ Answers(wire') = {k - 1} /\ wire'[k - 1] = wire[k]
    BY <1>1, <1>3, <1>9, AnswersTail
  <2>2. k \in 1..Len(wire) /\ Len(wire) \in Nat
    BY <1>1, LenProperties
  <2>3. QED
    BY <2>1, <2>2
<1>10. Idle => Idle'
  BY <1>6, <1>8 DEF Idle
<1>11. Asked => Asked'
  BY <1>6, <1>8 DEF Asked, Under, Applied
<1>12. Served => Served'
  BY <1>7, <1>8 DEF Served, Under
<1>13. Refused => Refused'
  <2> SUFFICES ASSUME Refused PROVE Refused'
    OBVIOUS
  <2>1. PICK k \in DOMAIN wire : Answers(wire) = {k} /\ wire[k].type = "error"
    BY DEF Refused
  <2>2. QED
    BY <1>6, <1>9, <2>1 DEF Refused, Under
<1>14. Acked => Acked'
  <2> SUFFICES ASSUME Acked PROVE Acked'
    OBVIOUS
  <2>1. PICK k \in DOMAIN wire, b \in 0..sseq :
          /\ Answers(wire) = {k} /\ wire[k].type = "ack" /\ wire[k].rev = srev
          /\ Ahead(b) /\ \A t \in FreshAfter(wire, sequence, k) : t.seq > b
    BY DEF Acked
  <2> DEFINE i == k - 1
  <2>2. i \in DOMAIN wire' /\ Answers(wire') = {i} /\ wire'[i] = wire[k] /\ i \in Nat /\ i + 1 = k
    BY <1>9, <2>1
  <2> HIDE DEF i
  <2>3. \A t \in FreshAfter(wire', sequence', i) : t.seq > b
    BY <1>2, <2>1, <2>2
  <2>4. Ahead(b)'
    BY <1>7, <2>1
  <2>5. QED
    BY <2>1, <2>2, <2>3, <2>4 DEF Acked, Under
<1>15. QED
  BY <1>1, <1>10, <1>11, <1>12, <1>13, <1>14 DEF Trip

\* A repeated trade is dropped.
LEMMA RepeatedStep ==
  ASSUME IInv, Trade, Repeated(Msg)
  PROVE  IInv'
<1>1. /\ phase = "open" /\ wire # <<>> /\ Msg.type = "trade" /\ Taken
      /\ UNCHANGED <<phase, desired, confirmed, pending, revision, sequence, buffered, cooling, session, subs, srev,
                     sseq, inbox, owed, emitted, given, skipped, left>>
  BY DEF Trade, client, server, history
<1>2. wire' \in Seq(Messages) /\ \A i \in Trades(wire') : wire'[i].project \in Projects /\ wire'[i].seq \in 1..sseq'
  BY <1>1, TakeTypes DEF IInv
<1>3. TypeOK' /\ Types'
  BY <1>1, <1>2 DEF IInv, TypeOK, Types
<1>4. Trip'
  <2>1. sequence' \in Nat /\ sequence <= sequence' /\ Msg.seq <= sequence'
    BY <1>1 DEF IInv, TypeOK, Repeated
  <2>2. Level => buffered' = <<>>
    BY <1>1 DEF Level
  <2>3. \A b \in 0..sseq : Ahead(b) => Held(b)'
    BY <1>1 DEF Ahead, Held, Waiting
  <2>4. QED
    BY <1>1, <2>1, <2>2, <2>3, TakeTrip
<1>5. Counting' /\ Complete' /\ Fresher' /\ Heard'
  BY <1>1, SameCounts DEF IInv, Connected, Fresher, Heard
<1>6. QED
  BY <1>1, <1>3, <1>4, <1>5 DEF IInv, Connected

\* The next trade is handed on, skipped, or buffered behind the request.
LEMMA NextTradeStep ==
  ASSUME IInv, Trade, ~Repeated(Msg), ~(Gap(Msg) \/ (Future(Msg) /\ (pending = NoControl \/ Full)))
  PROVE  IInv'
<1> DEFINE m == Msg
<1>1. /\ phase = "open" /\ wire # <<>> /\ m.type = "trade" /\ Taken /\ sequence' = m.seq
      /\ buffered' = IF Future(m) THEN Append(buffered, m) ELSE buffered
      /\ given' = IF Deliverable(m, confirmed, revision) THEN [given EXCEPT ![m.project] = Append(@, m.seq)] ELSE given
      /\ skipped' = IF Missed(m, confirmed, revision) THEN skipped \cup {m.project} ELSE skipped
      /\ UNCHANGED <<phase, desired, confirmed, pending, revision, cooling, session, subs, srev, sseq, inbox, owed,
                     emitted, left>>
  BY DEF Trade, server
<1>2. wire \in Seq(Messages) /\ m = wire[1] /\ m \in Messages /\ wire' \in Seq(Messages)
      /\ \A i \in Trades(wire') : wire'[i].project \in Projects /\ wire'[i].seq \in 1..sseq'
  BY <1>1, TakeTypes DEF IInv
<1>3. sequence \in Nat /\ sseq \in Nat /\ srev \in Nat /\ revision \in Int /\ buffered \in Seq(Messages)
      /\ subs \subseteq Projects /\ confirmed \subseteq Projects /\ given \in [Projects -> Seq(Numbers)]
      /\ skipped \subseteq Projects /\ Len(buffered) <= Buffer /\ Buffer \in Nat
  BY Bounds DEF IInv, TypeOK
<1>4. m.seq = sequence + 1 /\ (Future(m) => pending # NoControl /\ Len(buffered) < Buffer)
  BY <1>3 DEF Gap, Full
<1> HIDE DEF m
<1>5. m \in FreshAfter(wire, sequence, 0)
  BY <1>1, <1>2, <1>3, <1>4, FreshHead
<1>6. m.seq \in emitted[m.project] /\ m.project \in Projects /\ m.rev \in Nat /\ m.seq \in 1..sseq
      /\ (Future(m) \/ (m.rev = revision /\ m.project \in confirmed))
  BY <1>1, <1>5, FreshMeaning DEF Future
<1>7. buffered' \in Seq(Messages) /\ Len(buffered') <= Buffer /\ (buffered' # <<>> => pending' # NoControl)
  <2>1. CASE Future(m)
    BY <1>1, <1>2, <1>3, <1>4, <2>1
  <2>2. CASE ~Future(m)
    BY <1>1, <1>3, <2>2 DEF IInv, TypeOK
  <2>3. QED
    BY <2>1, <2>2
<1>8. given' \in [Projects -> Seq(Numbers)] /\ skipped' \subseteq Projects
  <2>1. m.seq \in Numbers
    <3>1. sseq <= MaxTrades + MaxLost
      BY Bounds DEF IInv, Types, TypeOK, Budgets
    <3>2. QED
      BY <1>3, <1>6, <3>1, Bounds DEF Numbers
  <2>2. QED
    BY <1>1, <1>3, <1>6, <2>1
<1>9. TypeOK'
  BY <1>1, <1>2, <1>4, <1>7, <1>8 DEF IInv, TypeOK
<1>10. Types'
  <2>1. sequence' <= sseq'
    BY <1>1, <1>3, <1>6
  <2>2. ASSUME NEW i \in DOMAIN buffered' PROVE buffered'[i].project \in Projects /\ buffered'[i].seq \in 1..sequence'
    <3>1. CASE i \in DOMAIN buffered /\ buffered'[i] = buffered[i]
      BY <1>1, <1>3, <1>4, <3>1 DEF IInv, Types
    <3>2. CASE buffered'[i] = m
      BY <1>1, <1>3, <1>4, <1>6, <3>2
    <3>3. QED
      BY <1>1, <1>2, <1>3, <2>2, <3>1, <3>2, AppendOf
  <2>3. QED
    BY <1>1, <1>2, <2>1, <2>2 DEF IInv, Types
<1>11. Trip'
  <2>1. Level => buffered' = <<>>
    <3>1. ASSUME Level PROVE ~Future(m) /\ buffered = <<>>
      BY <1>3, <1>5, <1>6, <3>1 DEF Level, Future
    <3>2. QED
      BY <1>1, <3>1
  <2>2. ASSUME NEW b \in 0..sseq, Ahead(b) PROVE Held(b)'
    <3>1. CASE m.seq <= b
      <4>1. ~Future(m)
        BY <1>3, <1>5, <2>2, <3>1 DEF Ahead, Future
      <4>2. buffered' = buffered /\ \A n \in (b + 1)..sequence' : FALSE
        BY <1>1, <1>3, <1>4, <3>1, <4>1
      <4>3. QED
        BY <1>1, <2>2, <4>2 DEF Ahead, Held
    <3>2. CASE m.seq > b
      <4>1. m.rev = srev /\ m.project \in subs /\ Future(m)
        BY <1>3, <1>5, <1>6, <2>2, <3>2 DEF Ahead, Future
      <4>2. /\ buffered' = Append(buffered, m) /\ Len(buffered) \in Nat
            /\ DOMAIN buffered' = 1..(Len(buffered) + 1) /\ DOMAIN buffered = 1..Len(buffered)
            /\ \A i \in 1..Len(buffered) : buffered'[i] = buffered[i]
            /\ buffered'[Len(buffered) + 1] = m
        BY <1>1, <1>2, <1>3, <4>1, AppendOf
      <4>3. \A i \in DOMAIN buffered' : i = Len(buffered) + 1 \/ i \in DOMAIN buffered
        BY <4>2
      <4>4. ASSUME NEW i \in DOMAIN buffered'
            PROVE  /\ buffered'[i].rev = srev' /\ buffered'[i].project \in subs'
                   /\ buffered'[i].seq \in emitted'[buffered'[i].project] /\ buffered'[i].seq > b
        <5>1. CASE i = Len(buffered) + 1
          BY <1>1, <1>6, <3>2, <4>1, <4>2, <5>1
        <5>2. CASE i \in DOMAIN buffered
          BY <1>1, <2>2, <4>2, <5>2 DEF Ahead, Held
        <5>3. QED
          BY <4>3, <5>1, <5>2
      <4>5. ASSUME NEW i \in DOMAIN buffered', NEW j \in DOMAIN buffered', i < j
            PROVE  buffered'[i].seq < buffered'[j].seq
        <5>1. i \in DOMAIN buffered /\ buffered'[i] = buffered[i]
          BY <4>2, <4>5
        <5>2. CASE j = Len(buffered) + 1
          <6>1. buffered[i].seq \in 1..sequence
            BY <5>1 DEF IInv, Types
          <6>2. QED
            BY <1>3, <1>4, <4>2, <5>1, <5>2, <6>1
        <5>3. CASE j \in DOMAIN buffered
          BY <2>2, <4>2, <4>5, <5>1, <5>3 DEF Ahead, Held
        <5>4. QED
          BY <4>3, <5>2, <5>3
      <4>6. ASSUME NEW n \in (b + 1)..sequence' PROVE \E i \in DOMAIN buffered' : buffered'[i].seq = n
        <5>1. CASE n = m.seq
          BY <4>2, <5>1
        <5>2. CASE n # m.seq
          <6>1. n \in (b + 1)..sequence
            BY <1>1, <1>3, <1>4, <5>2
          <6>2. n \in Waiting
            BY <2>2, <6>1 DEF Ahead, Held
          <6>3. PICK i \in DOMAIN buffered : buffered[i].seq = n
            BY <6>2 DEF Waiting, ToSet
          <6>4. QED
            BY <4>2, <6>3
        <5>3. QED
          BY <5>1, <5>2
      <4>7. \A n \in (b + 1)..sequence' : n \in Waiting'
        BY <4>6 DEF Waiting, ToSet
      <4>8. QED
        BY <4>4, <4>5, <4>7 DEF Held
    <3>3. QED
      BY <1>3, <1>6, <3>1, <3>2
  <2>3. sequence' \in Nat /\ sequence <= sequence' /\ Msg.seq <= sequence'
    BY <1>1, <1>3, <1>4 DEF m
  <2>4. QED
    BY <1>1, <2>1, <2>2, <2>3, TakeTrip DEF m
<1>12. Counting'
  BY <1>1 DEF IInv, Connected, Counting
<1>13. Complete'
  <2>1. Complete /\ Counting
    BY <1>1 DEF IInv, Connected
  <2>2. \A n \in Waiting : n \in 1..sequence
    BY DEF Waiting, ToSet, IInv, Types
  <2>3. Waiting' = IF Future(m) THEN Waiting \cup {m.seq} ELSE Waiting
    <3>1. CASE Future(m)
      <4>1. /\ buffered' = Append(buffered, m) /\ Len(buffered) \in Nat
            /\ DOMAIN buffered' = 1..(Len(buffered) + 1) /\ DOMAIN buffered = 1..Len(buffered)
            /\ \A i \in 1..Len(buffered) : buffered'[i] = buffered[i]
            /\ buffered'[Len(buffered) + 1] = m
        BY <1>1, <1>2, <1>3, <3>1, AppendOf
      <4>2. \A n : n \in Waiting' <=> \E i \in DOMAIN buffered' : n = buffered'[i].seq
        BY DEF Waiting, ToSet
      <4>3. \A n : n \in Waiting <=> \E i \in DOMAIN buffered : n = buffered[i].seq
        BY DEF Waiting, ToSet
      <4>4. \A i \in DOMAIN buffered' : i = Len(buffered) + 1 \/ i \in DOMAIN buffered
        BY <4>1
      <4>5. \A n : n \in Waiting' <=> n \in Waiting \/ n = m.seq
        BY <4>1, <4>2, <4>3, <4>4
      <4>6. QED
        BY <3>1, <4>5
    <3>2. CASE ~Future(m)
      BY <1>1, <3>2 DEF Waiting
    <3>3. QED
      BY <3>1, <3>2
  <2>4. \A p \in Projects : emitted[p] \subseteq 1..sseq
    BY <2>1 DEF Counting
  <2>5. ASSUME NEW p \in Projects, p # m.project \/ Future(m) PROVE PassedBy(p)' = PassedBy(p)
    <3>1. p # m.project => m.seq \notin emitted[p]
      BY <1>6, <2>1 DEF Counting
    <3>2. \A n \in emitted[p] : (n <= sequence' /\ n \notin Waiting') <=> (n <= sequence /\ n \notin Waiting)
      <4> TAKE n \in emitted[p]
      <4>1. n \in Nat
        BY <1>3, <2>4
      <4>2. CASE n = m.seq
        BY <1>3, <1>4, <2>3, <2>5, <3>1, <4>2
      <4>3. CASE n # m.seq
        BY <1>1, <1>3, <1>4, <2>3, <4>1, <4>3
      <4>4. QED
        BY <4>2, <4>3
    <3>3. QED
      BY <1>1, <3>2 DEF PassedBy
  <2>6. ASSUME NEW p \in Projects, p = m.project, ~Future(m) PROVE PassedBy(p)' = PassedBy(p) \cup {m.seq}
    <3>1. m.seq \notin Waiting'
      BY <1>3, <1>4, <2>2, <2>3, <2>6
    <3>2. \A n \in emitted[p] : (n <= sequence' /\ n \notin Waiting') <=> ((n <= sequence /\ n \notin Waiting) \/ n = m.seq)
      <4> TAKE n \in emitted[p]
      <4>1. n \in Nat
        BY <1>3, <2>4
      <4>2. CASE n = m.seq
        BY <1>1, <1>3, <1>4, <3>1, <4>2
      <4>3. CASE n # m.seq
        BY <1>1, <1>3, <1>4, <2>3, <2>6, <4>1, <4>3
      <4>4. QED
        BY <4>2, <4>3
    <3>3. QED
      BY <1>1, <1>6, <2>6, <3>2 DEF PassedBy
  <2>7. ASSUME NEW p \in confirmed \ skipped' PROVE Enumerates(given'[p], PassedBy(p)')
    <3>1. p \in Projects /\ p \in confirmed \ skipped /\ Enumerates(given[p], PassedBy(p))
      BY <1>1, <1>3, <2>1, <2>7 DEF Complete
    <3>2. CASE p # m.project \/ Future(m)
      <4>1. given'[p] = given[p]
        <5>1. Future(m) => ~Deliverable(m, confirmed, revision)
          BY <1>3, <1>6 DEF Future, Deliverable
        <5>2. QED
          BY <1>1, <1>3, <1>6, <3>1, <3>2, <5>1
      <4>2. QED
        BY <2>5, <3>1, <3>2, <4>1
    <3>3. CASE p = m.project /\ ~Future(m)
      <4>1. Deliverable(m, confirmed, revision)
        BY <1>1, <1>6, <2>7, <3>3 DEF Deliverable, Missed
      <4>2. given'[p] = Append(given[p], m.seq)
        BY <1>1, <1>3, <1>6, <3>3, <4>1
      <4>3. \A n \in PassedBy(p) : n < m.seq
        BY <1>3, <1>4, <2>4, <3>1 DEF PassedBy
      <4>4. given[p] \in Seq(Nat)
        <5>1. given[p] \in Seq(Numbers) /\ Numbers \subseteq Nat
          BY <1>3, <3>1, Bounds DEF Numbers
        <5>2. QED
          BY <5>1, SeqMonotonic
      <4>5. m.seq \in Nat
        BY <1>3, <1>4
      <4>6. Enumerates(Append(given[p], m.seq), PassedBy(p) \cup {m.seq})
        BY <3>1, <4>3, <4>4, <4>5, EnumeratesAppend
      <4>7. PassedBy(p)' = PassedBy(p) \cup {m.seq}
        BY <2>6, <3>1, <3>3
      <4>8. QED
        BY <4>2, <4>6, <4>7
    <3>4. QED
      BY <3>2, <3>3
  <2>8. QED
    BY <1>1, <2>7 DEF Complete
<1>14. Fresher' /\ Heard'
  BY <1>1 DEF IInv, Fresher, Heard
<1>15. QED
  BY <1>1, <1>9, <1>10, <1>11, <1>12, <1>13, <1>14 DEF IInv, Connected

LEMMA TradeStep ==
  ASSUME IInv, Trade
  PROVE  IInv'
<1>1. CASE Repeated(Msg)
  BY <1>1, RepeatedStep
<1>2. CASE ~Repeated(Msg) /\ ~(Gap(Msg) \/ (Future(Msg) /\ (pending = NoControl \/ Full)))
  BY <1>2, NextTradeStep
<1>3. CASE ~Repeated(Msg) /\ (Gap(Msg) \/ (Future(Msg) /\ (pending = NoControl \/ Full)))
  <2>1. Fail("wait") /\ left' = left
    BY <1>3 DEF Trade
  <2>2. left' \in Budgets /\ left'.trade <= left.trade /\ left'.lost <= left.lost
    BY <2>1 DEF IInv, Types, Budgets
  <2>3. QED
    BY <2>1, <2>2, FailStep
<1>4. QED
  BY <1>1, <1>2, <1>3

-----------------------------------------------------------------------------
(* The acknowledgement: the client catches up with the server.             *)

\* deliver hands on what was buffered at the places I in its order.
LEMMA NumbersOf ==
  ASSUME NEW S, S \subseteq Nat, buffered \in Seq(Messages), NEW I, I \subseteq DOMAIN buffered,
         \A i \in I : buffered[i].seq \in S,
         \A i, j \in DOMAIN buffered : i < j => buffered[i].seq < buffered[j].seq
  PROVE  NumbersAt(I) \in Seq(S) /\ Enumerates(NumbersAt(I), {buffered[i].seq : i \in I})
<1>1. Len(buffered) \in Nat /\ I \subseteq 1..Len(buffered) /\ DOMAIN buffered = 1..Len(buffered)
  BY LenProperties
<1> DEFINE q == InOrder(I)
           c == Cardinality(I)
           w == NumbersAt(I)
<1>2. c \in Nat /\ q \in [1..c -> I] /\ Enumerates(q, I)
  BY <1>1, InOrderCorrect
<1>3. w = [k \in 1..c |-> buffered[q[k]].seq]
  BY DEF NumbersAt
<1> HIDE DEF q, c, w
<1>4. DOMAIN w = 1..c /\ \A k \in 1..c : w[k] = buffered[q[k]].seq /\ q[k] \in I
  BY <1>2, <1>3
<1>5. w \in Seq(S)
  BY <1>2, <1>3, <1>4
<1>6. \A i, j \in DOMAIN w : i < j => w[i] < w[j]
  BY <1>2, <1>4 DEF Enumerates
<1>7. {w[k] : k \in DOMAIN w} = {buffered[i].seq : i \in I}
  <2>1. \A k \in DOMAIN w : w[k] \in {buffered[i].seq : i \in I}
    BY <1>4
  <2>2. ASSUME NEW i \in I PROVE \E k \in DOMAIN w : w[k] = buffered[i].seq
    <3>1. PICK k \in DOMAIN q : q[k] = i
      BY <1>2 DEF Enumerates
    <3>2. QED
      BY <1>2, <1>4, <3>1
  <2>3. QED
    BY <2>1, <2>2
<1>8. QED
  BY <1>5, <1>6, <1>7 DEF Enumerates, w

LEMMA PrefixConcat ==
  ASSUME NEW S, NEW s \in Seq(S), NEW t \in Seq(S)
  PROVE  IsPrefix(s, s \o t)
BY ConcatProperties, SubSeqProperties DEF IsPrefix

LEMMA AckStep ==
  ASSUME IInv, Ack
  PROVE  IInv' /\ \A p \in confirmed \cap confirmed' : IsPrefix(given[p], given'[p])
<1> DEFINE conf == pending.set
           I(p) == {i \in DOMAIN buffered : Deliverable(buffered[i], conf, Msg.rev) /\ buffered[i].project = p}
           T == {t.project : t \in {u \in ToSet(buffered) : Missed(u, conf, Msg.rev)}}
<1>1. /\ phase = "open" /\ wire # <<>> /\ Msg.type = "ack" /\ pending # NoControl /\ Taken
      /\ confirmed' = conf /\ revision' = Msg.rev /\ buffered' = <<>>
      /\ session' = (session \ Gone) \cup Gained
      /\ given' = [p \in Projects |-> (IF p \in Gained THEN <<>> ELSE given[p]) \o NumbersAt(I(p))]
      /\ skipped' = (skipped \ Gained) \cup T
      /\ UNCHANGED <<phase, desired, sequence, subs, srev, sseq, owed, emitted, left>>
  BY DEF Ack
<1>2. Pump(phase, desired, conf, Msg.rev, NoControl, cooling)
  BY DEF Ack
<1> HIDE DEF T
<1>3. wire \in Seq(Messages) /\ Msg = wire[1] /\ Msg \in Messages /\ wire' \in Seq(Messages) /\ wire' = Tail(wire)
      /\ \A i \in Trades(wire') : wire'[i].project \in Projects /\ wire'[i].seq \in 1..sseq'
  BY <1>1, TakeTypes DEF IInv
<1>4. sequence \in Nat /\ sseq \in Nat /\ srev \in Nat /\ revision \in Int /\ buffered \in Seq(Messages)
      /\ subs \subseteq Projects /\ confirmed \subseteq Projects /\ given \in [Projects -> Seq(Numbers)]
      /\ skipped \subseteq Projects /\ session \subseteq Projects /\ desired \subseteq Projects /\ cooling \in BOOLEAN
      /\ pending \in Controls /\ inbox \in Controls /\ conf \in SUBSET Projects /\ Msg.rev \in Nat /\ sequence <= sseq
  BY <1>3 DEF IInv, TypeOK, Types, Controls, Messages
<1>5. 1 \in Answers(wire) /\ 1 \notin Trades(wire) /\ wire[1].type = "ack"
  BY <1>1, <1>3, TailOf DEF Answers, Trades
<1>6. Acked
  <2>1. ~Idle /\ ~Asked /\ ~Served
    BY <1>5 DEF Idle, Asked, Served
  <2>2. ~Refused
    BY <1>5 DEF Refused
  <2>3. QED
    BY <1>1, <2>1, <2>2 DEF IInv, Connected, Trip
<1>7. PICK k \in DOMAIN wire, b \in 0..sseq :
        /\ Answers(wire) = {k} /\ wire[k].type = "ack" /\ wire[k].rev = srev
        /\ Ahead(b) /\ \A t \in FreshAfter(wire, sequence, k) : t.seq > b
  BY <1>6 DEF Acked
<1>8. k = 1 /\ Msg.rev = srev /\ Answers(wire') = {} /\ inbox = NoControl /\ ~owed /\ subs = conf
  <2>1. k = 1 /\ Answers(Tail(wire)) = {}
    BY <1>1, <1>3, <1>5, <1>7, AnswersTail
  <2>2. inbox = NoControl /\ ~owed /\ subs = conf
    BY <1>6, <1>7 DEF Acked, Ahead
  <2>3. QED
    BY <1>3, <1>7, <2>1, <2>2
<1>9. Held(b) /\ Counting /\ Complete
  BY <1>1, <1>7 DEF Ahead, IInv, Connected
<1>10. \A i, j \in DOMAIN buffered : i < j => buffered[i].seq < buffered[j].seq
  BY <1>9 DEF Held
<1>11. \A i \in DOMAIN buffered : buffered[i].seq \in 1..sequence /\ buffered[i].project \in Projects
  BY DEF IInv, Types
<1>12. Numbers \subseteq Nat /\ \A i \in DOMAIN buffered : buffered[i].seq \in Numbers
  <2>1. sseq <= MaxTrades + MaxLost
    BY Bounds DEF IInv, Types, TypeOK, Budgets
  <2>2. QED
    BY <1>4, <1>11, <2>1, Bounds DEF Numbers
<1>13. \A p : NumbersAt(I(p)) \in Seq(Numbers) /\ Enumerates(NumbersAt(I(p)), {buffered[i].seq : i \in I(p)})
  <2> TAKE p
  <2> DEFINE J == I(p)
  <2>1. J \subseteq DOMAIN buffered
    OBVIOUS
  <2> HIDE DEF J
  <2>2. NumbersAt(J) \in Seq(Numbers) /\ Enumerates(NumbersAt(J), {buffered[i].seq : i \in J})
    BY <1>4, <1>10, <1>12, <2>1, NumbersOf
  <2>3. QED
    BY <2>2 DEF J
<1> HIDE DEF I
<1>14. pending' \in Controls /\ inbox' \in Controls /\ cooling' \in BOOLEAN
  <2>1. NoControl \in Controls
    BY DEF NoControl, Controls, Kinds
  <2>2. QED
    BY <1>2, <1>4, <2>1, PumpEffect
<1>15. given' \in [Projects -> Seq(Numbers)]
  <2>1. ASSUME NEW p \in Projects PROVE (IF p \in Gained THEN <<>> ELSE given[p]) \o NumbersAt(I(p)) \in Seq(Numbers)
    <3>1. (IF p \in Gained THEN <<>> ELSE given[p]) \in Seq(Numbers)
      BY <1>4
    <3>2. QED
      BY <1>13, <3>1, ConcatProperties
  <2>2. QED
    BY <1>1, <2>1
<1>16. TypeOK'
  <2>1. session' \subseteq Projects
    BY <1>1, <1>4 DEF Gained
  <2>2. skipped' \subseteq Projects
    <3>1. T \subseteq Projects
      BY <1>11 DEF T, ToSet
    <3>2. QED
      BY <1>1, <1>4, <3>1
  <2>3. buffered' \in Seq(Messages) /\ Len(buffered') <= Buffer /\ (buffered' # <<>> => pending' # NoControl)
    <3>1. Len(<<>>) = 0 /\ <<>> \in Seq(Messages)
      OBVIOUS
    <3>2. QED
      BY <1>1, <3>1, Bounds
  <2>4. confirmed' \subseteq Projects /\ revision' \in Int /\ revision' >= -1
    BY <1>1, <1>4
  <2>5. QED
    BY <1>1, <1>3, <1>14, <1>15, <2>1, <2>2, <2>3, <2>4 DEF IInv, TypeOK, Controls
<1>17. Types'
  <2>1. DOMAIN buffered' = {}
    BY <1>1
  <2>2. QED
    BY <1>1, <1>3, <2>1 DEF IInv, Types
<1>18. Level'
  <2>1. ASSUME NEW t \in FreshAfter(wire', sequence, 0)
        PROVE  t.rev = srev /\ t.project \in subs /\ t.seq \in emitted[t.project]
    <3>1. t \in FreshAfter(wire, sequence, 0 + 1) /\ t \in FreshAfter(wire, sequence, 0)
      BY <1>1, <1>3, <1>4, <1>5, <2>1, FreshTail
    <3>2. t.seq > b
      BY <1>7, <1>8, <3>1
    <3>3. QED
      BY <1>7, <3>1, <3>2 DEF Ahead
  <2>2. QED
    BY <1>1, <1>8, <2>1 DEF Level
<1>19. Trip'
  <2>1. Msg.rev \in Int /\ desired \in SUBSET Projects /\ ~owed'
    BY <1>1, <1>4, <1>8
  <2>2. QED
    BY <1>1, <1>2, <1>4, <1>8, <1>18, <2>1, PumpTrip
<1>20. Counting'
  BY <1>1, <1>9 DEF Counting
<1>21. ASSUME NEW p \in confirmed' \ skipped' PROVE Enumerates(given'[p], PassedBy(p)')
  <2> DEFINE W == {buffered[i].seq : i \in I(p)}
             N == NumbersAt(I(p))
  <2>1. p \in Projects /\ p \in subs
    BY <1>1, <1>4, <1>8, <1>21
  <2>2. N \in Seq(Numbers) /\ Enumerates(N, W)
    BY <1>13
  <2>3. \A i \in DOMAIN buffered : buffered[i].project = p => i \in I(p)
    <3> SUFFICES ASSUME NEW i \in DOMAIN buffered, buffered[i].project = p PROVE i \in I(p)
      OBVIOUS
    <3>1. buffered[i].rev = Msg.rev /\ p \in conf
      BY <1>8, <1>9, <2>1 DEF Held
    <3>2. p \notin T
      BY <1>1, <1>21
    <3>3. ~Missed(buffered[i], conf, Msg.rev)
      BY <3>2 DEF T, ToSet
    <3>4. QED
      BY <3>1, <3>3 DEF I, Deliverable, Missed
  <2>4. \A n : n \in W <=> n \in emitted[p] /\ n \in Waiting
    <3>1. ASSUME NEW n \in W PROVE n \in emitted[p] /\ n \in Waiting
      <4>1. PICK i \in DOMAIN buffered : n = buffered[i].seq /\ buffered[i].project = p
        BY <3>1 DEF I
      <4>2. QED
        BY <1>9, <4>1 DEF Held, Waiting, ToSet
    <3>2. ASSUME NEW n \in emitted[p], n \in Waiting PROVE n \in W
      <4>1. PICK i \in DOMAIN buffered : n = buffered[i].seq
        BY <3>2 DEF Waiting, ToSet
      <4>2. n \in emitted[buffered[i].project] /\ buffered[i].project \in Projects
        BY <1>9, <1>11, <4>1 DEF Held
      <4>3. buffered[i].project = p
        BY <1>9, <2>1, <3>2, <4>2 DEF Counting
      <4>4. i \in I(p)
        BY <2>3, <4>3
      <4>5. QED
        BY <4>1, <4>4
    <3> HIDE DEF W
    <3>3. QED
      BY <3>1, <3>2
  <2>5. \A n \in emitted[p] : n \in Nat
    BY <1>9, <2>1 DEF Counting
  <2>6. \A n : n \in PassedBy(p)' <=> n \in emitted[p] /\ n <= sequence
    <3>1. Waiting' = {}
      BY <1>1 DEF Waiting, ToSet
    <3>2. QED
      BY <1>1, <3>1 DEF PassedBy
  <2>7. \A n \in Nat : n <= sequence /\ n \notin Waiting => n <= b
    BY <1>4, <1>9 DEF Held
  <2>8. \A n \in W : n > b /\ n <= sequence /\ n \in Nat
    <3>1. \A i \in DOMAIN buffered : buffered[i].seq > b /\ buffered[i].seq <= sequence /\ buffered[i].seq \in Nat
      BY <1>4, <1>9, <1>11 DEF Held
    <3>2. QED
      BY <3>1 DEF I
  <2>9. N \in Seq(Nat)
    BY <1>12, <2>2, SeqMonotonic
  <2> HIDE DEF W, N
  <2>10. CASE p \notin confirmed
    <3>1. \A n \in emitted[p] : n > b
      BY <1>7, <2>1, <2>10 DEF Ahead
    <3>2. PassedBy(p)' = W
      <4>1. \A n \in emitted[p] : n <= sequence => n \in Waiting
        BY <1>4, <2>5, <2>7, <3>1
      <4>2. \A n : n \in PassedBy(p)' <=> n \in W
        BY <2>4, <2>6, <2>8, <4>1
      <4>3. QED
        BY <4>2
    <3>3. given'[p] = <<>> \o N
      BY <1>1, <1>8, <2>1, <2>10 DEF N, Gained
    <3>4. given'[p] = N
      BY <2>9, <3>3, ConcatEmptySeq
    <3>5. QED
      BY <2>2, <3>2, <3>4
  <2>11. CASE p \in confirmed
    <3>1. p \notin skipped /\ p \notin Gained
      BY <1>1, <1>21, <2>11 DEF Gained
    <3>2. Enumerates(given[p], PassedBy(p))
      BY <1>9, <2>11, <3>1 DEF Complete
    <3>3. given'[p] = given[p] \o N
      BY <1>1, <2>1, <3>1 DEF N
    <3>4. \A n : n \in PassedBy(p) <=> n \in emitted[p] /\ n <= sequence /\ n \notin Waiting
      BY DEF PassedBy
    <3>5. PassedBy(p)' = PassedBy(p) \cup W
      <4>1. \A n : n \in PassedBy(p)' <=> n \in PassedBy(p) \/ n \in W
        BY <2>4, <2>6, <2>8, <3>4
      <4>2. QED
        BY <4>1
    <3>6. \A s \in PassedBy(p), t \in W : s < t
      BY <1>4, <2>5, <2>7, <2>8, <3>4
    <3>7. given[p] \in Seq(Nat)
      BY <1>4, <1>12, <2>1, SeqMonotonic
    <3>8. Enumerates(given[p] \o N, PassedBy(p) \cup W)
      BY <2>2, <2>9, <3>2, <3>6, <3>7, EnumeratesConcat
    <3>9. QED
      BY <3>3, <3>5, <3>8
  <2>12. QED
    BY <2>10, <2>11
<1>22. Complete' /\ Fresher' /\ Heard'
  <2>1. Complete'
    BY <1>21 DEF Complete
  <2>2. confirmed \subseteq session
    BY <1>1 DEF IInv, Heard
  <2>3. QED
    BY <1>1, <2>1, <2>2 DEF Fresher, Heard, Gone, Gained
<1>23. ASSUME NEW p \in confirmed \cap confirmed' PROVE IsPrefix(given[p], given'[p])
  <2>1. p \in Projects /\ given'[p] = given[p] \o NumbersAt(I(p))
    BY <1>1, <1>4, <1>23 DEF Gained
  <2>2. given[p] \in Seq(Numbers) /\ NumbersAt(I(p)) \in Seq(Numbers)
    BY <1>4, <1>13, <2>1
  <2>3. QED
    BY <2>1, <2>2, PrefixConcat
<1>24. QED
  BY <1>1, <1>16, <1>17, <1>19, <1>20, <1>22, <1>23 DEF IInv, Connected

-----------------------------------------------------------------------------
(* Theorems.                                                               *)

LEMMA InitHolds ==
  ASSUME Init
  PROVE  IInv
<1>1. TypeOK
  <2>1. NoControl \in [kind : Kinds, set : SUBSET Projects]
    BY DEF NoControl, Kinds
  <2>2. emitted \in [Projects -> SUBSET Numbers] /\ given \in [Projects -> Seq(Numbers)]
    BY DEF Init
  <2>3. buffered \in Seq(Messages) /\ wire \in Seq(Messages) /\ Len(buffered) <= Buffer /\ buffered = <<>>
    BY Bounds DEF Init
  <2>4. desired \in (SUBSET Projects) \ {{}} /\ confirmed \subseteq Projects /\ session \subseteq Projects
        /\ subs \subseteq Projects /\ skipped \subseteq Projects /\ cooling \in BOOLEAN /\ owed \in BOOLEAN
    BY DEF Init
  <2>5. pending \in [kind : Kinds, set : SUBSET Projects] /\ inbox \in [kind : Kinds, set : SUBSET Projects]
        /\ revision \in Int /\ revision >= -1 /\ sequence \in Nat /\ srev \in Nat /\ sseq \in Nat
    BY <2>1 DEF Init
  <2>6. phase \in {"wait", "hello", "open", "dead"}
    BY DEF Init
  <2>7. QED
    BY <2>2, <2>3, <2>4, <2>5, <2>6 DEF TypeOK
<1>2. Types
  <2>1. Trades(wire) = {} /\ DOMAIN buffered = {}
    BY DEF Init, Trades
  <2>2. {MaxChanges, MaxTrades, MaxLost, MaxRejects, MaxFails} \subseteq Nat
    BY BoundsNat
  <2>3. left \in Budgets /\ left.trade = MaxTrades /\ left.lost = MaxLost
    BY <2>2 DEF Init, Budgets
  <2>4. sseq + left.trade + left.lost <= MaxTrades + MaxLost /\ sequence <= sseq
    BY <2>3, Bounds DEF Init
  <2>5. QED
    BY <2>1, <2>3, <2>4 DEF Types
<1>3. phase \notin {"hello", "open"}
  BY DEF Init
<1>4. QED
  BY <1>1, <1>2, <1>3 DEF IInv, Connected, Fresher, Heard

LEMMA StepKeeps ==
  ASSUME IInv, [Next]_vars
  PROVE  IInv'
<1>1. CASE UNCHANGED vars
  <2>1. UNCHANGED <<phase, desired, confirmed, pending, revision, sequence, buffered, cooling, session, subs, srev,
                    sseq, inbox, owed, wire, emitted, given, skipped, left>>
    BY <1>1 DEF vars, client, server, history
  <2>2. TypeOK'
    BY <2>1 DEF IInv, TypeOK
  <2>3. Types'
    BY <2>1 DEF IInv, Types
  <2>4. Connected'
    BY <2>1, SameTrip, SameCounts DEF IInv, Connected
  <2>5. Fresher' /\ Heard'
    BY <2>1 DEF IInv, Fresher, Heard
  <2>6. QED
    BY <2>2, <2>3, <2>4, <2>5 DEF IInv
<1>2. CASE \E want \in SUBSET Projects : UpdateProjects(want)
  BY <1>2, UpdateStep
<1>3. CASE Timer
  BY <1>3, TimerStep
<1>4. CASE Connect
  BY <1>4, ConnectStep
<1>5. CASE ConnectionFails
  <2>1. Spend("fail") /\ Fail("wait")
    BY <1>5 DEF ConnectionFails
  <2>2. left' \in Budgets /\ left'.trade <= left.trade /\ left'.lost <= left.lost
    BY <2>1, SpendEffect DEF IInv, Types
  <2>3. QED
    BY <2>1, <2>2, FailStep
<1>6. CASE HelloRefused
  <2>1. Spend("reject") /\ Fail("dead")
    BY <1>6 DEF HelloRefused
  <2>2. left' \in Budgets /\ left'.trade <= left.trade /\ left'.lost <= left.lost
    BY <2>1, SpendEffect DEF IInv, Types
  <2>3. QED
    BY <2>1, <2>2, FailStep
<1>7. CASE Receive
  BY <1>7, HelloStep, ErrorStep, AckStep, TradeStep DEF Receive
<1>8. CASE Serve
  BY <1>8, AppliesStep, AcksStep DEF Serve
<1>9. CASE ServerRejects
  BY <1>9, RejectsStep
<1>10. CASE ServerRepeats
  BY <1>10, RepeatsStep
<1>11. CASE \E p \in Projects : ServerTrade(p)
  BY <1>11, HappensStep
<1>12. QED
  BY <1>1, <1>2, <1>3, <1>4, <1>5, <1>6, <1>7, <1>8, <1>9, <1>10, <1>11 DEF Next

\* The invariant the rest follows from, for any projects, buffer and numbers of disturbances.
THEOREM FeedInductive == Spec => []IInv
<1>1. Init => IInv
  BY InitHolds
<1>2. IInv /\ [Next]_vars => IInv'
  BY StepKeeps
<1>3. QED
  BY <1>1, <1>2, PTL DEF Spec

\* Types; the buffer never holds more than it may, and nothing without a request (onMessage of
\* MemeMarketConnection).
THEOREM FeedTypes == Spec => []TypeOK
<1>1. IInv => TypeOK
  BY DEF IInv
<1>2. QED
  BY <1>1, FeedInductive, PTL

\* A member LiveService has wanted since it became ready has been given every trade up to the
\* sequence number the connection is at, but for those still buffered, once and in order: through
\* a change of the membership, and whatever is lost or repeated (deliver, the comparison of
\* sequence numbers).
THEOREM NoTradeMissing == Spec => []NoSilentGap
<1>1. IInv => NoSilentGap
  BY DEF IInv, Connected, Complete, NoSilentGap, PassedBy
<1>2. QED
  BY <1>1, FeedInductive, PTL

\* Without a request under way the client has the membership and the revision of the server,
\* and what it has acknowledged has a session (pump, the acknowledgement, the rejection).
THEOREM MembersAgree == Spec => []MembershipAgrees
<1>1. IInv => Agreement
  <2> SUFFICES ASSUME IInv, phase = "open", Quiet, revision >= 0
               PROVE  confirmed = subs /\ revision = srev /\ pending = NoControl
    BY DEF Agreement
  <2>1. Answers(wire) = {}
    BY DEF Quiet, Answers
  <2>2. Idle
    BY <2>1 DEF Quiet, IInv, Connected, Trip, Asked, Served, Acked, Refused
  <2>3. QED
    BY <2>2 DEF Idle, Level, IInv, TypeOK
<1>2. IInv => Heard
  BY DEF IInv
<1>3. QED
  BY <1>1, <1>2, FeedInductive, PTL DEF MembershipAgrees

\* A member that stays keeps its session and what it was given through every step of the
\* connection ("changing membership never resets a retained project's epoch").
THEOREM MembersRetained == Spec => Retained
<1> DEFINE Keeps == phase = "open" /\ phase' = "open" =>
                      \A p \in session \cap confirmed \cap confirmed' : p \in session' /\ IsPrefix(given[p], given'[p])
<1>1. ASSUME IInv, [Next]_vars PROVE Keeps
  <2> SUFFICES ASSUME phase = "open", phase' = "open", NEW p \in session \cap confirmed \cap confirmed'
               PROVE  p \in session' /\ IsPrefix(given[p], given'[p])
    OBVIOUS
  <2>1. p \in session'
    BY <1>1, StepKeeps DEF IInv, Heard
  <2> SUFFICES IsPrefix(given[p], given'[p])
    BY <2>1
  <2>2. given[p] \in Seq(Numbers) /\ given \in [Projects -> Seq(Numbers)]
    BY <1>1 DEF IInv, TypeOK
  <2>3. CASE Ack
    BY <1>1, <2>3, AckStep
  <2>4. CASE given' = given
    <3>1. IsPrefix(given[p], given[p])
      BY <2>2, SubSeqFull, LenProperties DEF IsPrefix
    <3>2. QED
      BY <2>4, <3>1
  <2>5. CASE Trade
    <3>1. \/ given' = given
          \/ Deliverable(Msg, confirmed, revision) /\ given' = [given EXCEPT ![Msg.project] = Append(@, Msg.seq)] /\ IInv'
      <4>1. IInv'
        BY <1>1, StepKeeps
      <4>2. QED
        BY <2>5, <4>1 DEF Trade, Fail, history
    <3>2. CASE Deliverable(Msg, confirmed, revision) /\ given' = [given EXCEPT ![Msg.project] = Append(@, Msg.seq)] /\ IInv'
      <4>1. CASE p # Msg.project
        <5>1. given'[p] = given[p]
          BY <2>2, <3>2, <4>1
        <5>2. QED
          BY <2>2, <5>1, SubSeqFull, LenProperties DEF IsPrefix
      <4>2. CASE p = Msg.project
        <5>1. p \in Projects
          BY <1>1 DEF IInv, TypeOK
        <5>2. given'[p] = Append(given[p], Msg.seq)
          BY <2>2, <3>2, <4>2, <5>1
        <5>3. Append(given[p], Msg.seq) = given[p] \o <<Msg.seq>> /\ <<Msg.seq>> \in Seq({Msg.seq})
          BY <2>2
        <5>4. given[p] \in Seq(Numbers \cup {Msg.seq}) /\ <<Msg.seq>> \in Seq(Numbers \cup {Msg.seq})
          BY <2>2, <5>3, SeqMonotonic
        <5>5. QED
          BY <5>2, <5>3, <5>4, PrefixConcat
      <4>3. QED
        BY <4>1, <4>2
    <3>3. QED
      BY <2>4, <3>1, <3>2
  <2>6. CASE ~Ack /\ ~Trade
    <3>1. ~Connect
      BY DEF Connect
    <3>2. given' = given
      BY <1>1, <2>6, <3>1 DEF Next, vars, history, UpdateProjects, Timer, ConnectionFails, HelloRefused, Fail,
         Receive, Hello, ControlError, Serve, ServerApplies, ServerAcks, ServerRejects, ServerRepeats, ServerTrade
    <3>3. QED
      BY <2>4, <3>2
  <2>7. QED
    BY <2>3, <2>5, <2>6
<1>2. IInv /\ [Next]_vars => [Keeps]_vars
  BY <1>1
<1>3. QED
  BY <1>2, FeedInductive, PTL DEF Spec, Retained

=============================================================================
