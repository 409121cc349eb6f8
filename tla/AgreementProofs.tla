--------------------------- MODULE AgreementProofs ---------------------------
(* Theorems about data that is derived twice and must come out the same: what   *)
(* is shown of the results, from rows that different releases and several       *)
(* executors wrote (Results), the paper positions, kept by the worker and       *)
(* rebuilt from its rows (Ledger), and the impulse with its conditions, from    *)
(* the whole history and from bounded windows (Impulse).                        *)
EXTENDS Results, Ledger, Impulse, CommonTheorems, SequenceTheorems

(* ------------------- sums of which a part may be missing ------------------- *)
\* A result of a trade is a number, or missing.
Possible == {r \in SUBSET Int : \A x, y \in r : x = y}
LEMMA MaxOfOne == /\ \A n \in Int : Max({n}) = n /\ {n} \in Possible
                  /\ \A r \in Possible : r # {} => Max(r) \in Int /\ r = {Max(r)}
<1>1. ASSUME NEW n \in Int PROVE Max({n}) = n
  <2>1. \E x \in {n} : \A y \in {n} : x >= y
    OBVIOUS
  <2>2. QED
    BY <2>1 DEF Max
<1>2. ASSUME NEW r \in Possible, r # {} PROVE Max(r) \in Int /\ r = {Max(r)}
  <2>1. PICK n \in Int : r = {n}
    BY <1>2 DEF Possible
  <2>2. QED
    BY <1>1, <2>1
<1>3. QED
  BY <1>1, <1>2 DEF Possible

Missing(f, S) == \E x \in S : f[x] = {}
Summed(f, S, r) == \E e \in [S -> Int] : (\A x \in S : e[x] = Max(f[x])) /\ r = {SumFunction(e)}
LEMMA SumOfIs ==
  ASSUME NEW S, IsFiniteSet(S), NEW f \in [S -> Possible]
  PROVE  SumOf(f) \in Possible /\ (SumOf(f) = {} <=> Missing(f, S)) /\ (~Missing(f, S) => Summed(f, S, SumOf(f)))
<1>1. DOMAIN f = S
  OBVIOUS
<1>2. CASE Missing(f, S)
  <2>1. SumOf(f) = {}
    BY <1>1, <1>2 DEF SumOf, Missing
  <2>2. QED
    BY <1>2, <2>1 DEF Possible
<1>3. CASE ~Missing(f, S)
  <2>1. PICK e : e = [x \in S |-> Max(f[x])]
    OBVIOUS
  <2>2. e \in [S -> Int] /\ \A x \in S : e[x] = Max(f[x])
    BY <1>3, <2>1, MaxOfOne DEF Missing
  <2>3. SumOf(f) = {SumFunction(e)}
    BY <1>1, <1>3, <2>1 DEF SumOf, Missing
  <2>4. SumFunction(e) \in Int
    <3>1. DOMAIN e = S
      BY <2>2
    <3>2. QED
      BY <2>2, <3>1, SumFunctionIs
  <2>5. SumOf(f) \in Possible /\ SumOf(f) # {}
    BY <2>3, <2>4, MaxOfOne
  <2>6. Summed(f, S, SumOf(f))
    BY <2>2, <2>3 DEF Summed
  <2>7. QED
    BY <1>3, <2>5, <2>6
<1>4. QED
  BY <1>2, <1>3

\* Results may be summed up group by group, missing ones included.
LEMMA SumOfParts ==
  ASSUME NEW S, IsFiniteSet(S), NEW f \in [S -> Possible], NEW K, IsFiniteSet(K), NEW key \in [S -> K],
         NEW F, F = [k \in K |-> SumOf(PartOf(f, key, k))]
  PROVE  F \in [K -> Possible] /\ SumOf(F) = SumOf(f)
<1> DEFINE Block(k) == {x \in S : key[x] = k}
<1>1. ASSUME NEW k \in K
      PROVE  /\ IsFiniteSet(Block(k)) /\ PartOf(f, key, k) \in [Block(k) -> Possible]
             /\ \A x \in Block(k) : PartOf(f, key, k)[x] = f[x]
  <2>1. Block(k) \in SUBSET S
    OBVIOUS
  <2>2. PartOf(f, key, k) = [x \in Block(k) |-> f[x]]
    BY DEF PartOf
  <2>3. QED
    BY <2>1, <2>2, FS_Subset
<1>2. ASSUME NEW k \in K PROVE SumOf(PartOf(f, key, k)) \in Possible /\ (SumOf(PartOf(f, key, k)) = {} <=> \E x \in Block(k) : f[x] = {})
  <2>1. PICK p : p = PartOf(f, key, k)
    OBVIOUS
  <2>2. PICK B : B = Block(k)
    OBVIOUS
  <2>3. IsFiniteSet(B) /\ p \in [B -> Possible] /\ \A x \in B : p[x] = f[x]
    BY <1>1, <2>1, <2>2
  <2>4. SumOf(p) \in Possible /\ (SumOf(p) = {} <=> Missing(p, B))
    BY <2>3, SumOfIs
  <2>5. QED
    BY <2>1, <2>2, <2>3, <2>4 DEF Missing
<1>3. F \in [K -> Possible] /\ \A k \in K : F[k] = {} <=> \E x \in Block(k) : f[x] = {}
  BY <1>2
<1>4. SumOf(F) = {} <=> Missing(F, K)
  BY <1>3, SumOfIs
<1>5. SumOf(f) = {} <=> Missing(f, S)
  BY SumOfIs
<1>6. CASE \E x \in S : f[x] = {}
  BY <1>3, <1>4, <1>5, <1>6 DEF Missing
<1>7. CASE \A x \in S : f[x] # {}
  <2>1. PICK e \in [S -> Int] : (\A x \in S : e[x] = Max(f[x])) /\ SumOf(f) = {SumFunction(e)}
    <3>1. ~Missing(f, S)
      BY <1>7 DEF Missing
    <3>2. QED
      BY <3>1, SumOfIs DEF Summed
  <2>2. PICK E \in [K -> Int] : (\A k \in K : E[k] = Max(F[k])) /\ SumOf(F) = {SumFunction(E)}
    <3>1. ~Missing(F, K)
      BY <1>3, <1>7 DEF Missing
    <3>2. QED
      BY <1>3, <3>1, SumOfIs DEF Summed
  <2>3. PICK G : G = [k \in K |-> SumFunction(PartOf(e, key, k))]
    OBVIOUS
  <2>4. G \in [K -> Int] /\ SumFunction(G) = SumFunction(e)
    BY <2>3, SumOfGroups
  <2>5. ASSUME NEW k \in K PROVE G[k] = E[k]
    <3>1. PICK p : p = PartOf(f, key, k)
      OBVIOUS
    <3>2. PICK B : B = Block(k)
      OBVIOUS
    <3>3. IsFiniteSet(B) /\ p \in [B -> Possible] /\ B \subseteq S /\ \A x \in B : p[x] = f[x]
      BY <1>1, <3>1, <3>2
    <3>4. PICK d \in [B -> Int] : (\A x \in B : d[x] = Max(p[x])) /\ SumOf(p) = {SumFunction(d)}
      <4>1. ~Missing(p, B)
        BY <1>7, <3>3 DEF Missing
      <4>2. QED
        BY <3>3, <4>1, SumOfIs DEF Summed
    <3>5. PartOf(e, key, k) = [x \in B |-> e[x]]
      BY <3>2 DEF PartOf
    <3>6. d = PartOf(e, key, k)
      <4>1. \A x \in B : d[x] = e[x]
        BY <2>1, <3>3, <3>4
      <4>2. d = [x \in B |-> d[x]]
        BY <3>4
      <4>3. QED
        BY <3>5, <4>1, <4>2
    <3>7. SumFunction(d) \in Int
      <4>1. DOMAIN d = B
        BY <3>4
      <4>2. QED
        BY <3>3, <3>4, <4>1, SumFunctionIs
    <3>8. E[k] = Max({SumFunction(d)})
      BY <2>2, <3>1, <3>4
    <3>9. QED
      BY <2>3, <3>6, <3>7, <3>8, MaxOfOne
  <2>6. G = E
    BY <2>2, <2>4, <2>5
  <2>7. QED
    BY <1>3, <2>1, <2>2, <2>4, <2>6
<1>8. QED
  BY <1>6, <1>7

(* -------------------------------- ranks ----------------------------------- *)

Below(S, x) == Cardinality({y \in S : y <= x})
\* The members of a finite set of numbers have the ranks 1, 2, .. in their order.
LEMMA Ranked ==
  ASSUME NEW S \in SUBSET Nat, IsFiniteSet(S)
  PROVE  /\ Cardinality(S) \in Nat
         /\ \A x \in S : Below(S, x) \in 1..Cardinality(S)
         /\ \A x, y \in S : x < y => Below(S, x) < Below(S, y)
         /\ {Below(S, x) : x \in S} = 1..Cardinality(S)
<1> PICK n : n = Cardinality(S)
  OBVIOUS
<1> DEFINE Low(x) == {y \in S : y <= x}
<1>1. n \in Nat
  BY FS_CardinalityType
<1>2. ASSUME NEW x \in S PROVE IsFiniteSet(Low(x)) /\ Below(S, x) = Cardinality(Low(x)) /\ Below(S, x) \in 1..n
  <2>1. Low(x) \in SUBSET S /\ x \in Low(x)
    OBVIOUS
  <2>2. PICK L : L = Low(x)
    OBVIOUS
  <2>3. IsFiniteSet(L) /\ Cardinality(L) <= n /\ Cardinality(L) \in Nat /\ Cardinality(L) # 0
    BY <2>1, <2>2, FS_Subset, FS_CardinalityType, FS_EmptySet
  <2>4. QED
    BY <1>1, <2>2, <2>3 DEF Below
<1>3. ASSUME NEW x \in S, NEW y \in S, x < y PROVE Below(S, x) < Below(S, y)
  <2>1. PICK L, M : L = Low(x) /\ M = Low(y)
    OBVIOUS
  <2>2. L \in SUBSET M /\ y \in M /\ y \notin L
    <3>1. x \in Nat /\ y \in Nat /\ \A z \in S : z \in Nat
      OBVIOUS
    <3>2. \A z \in S : z <= x => z <= y
      BY <1>3, <3>1
    <3>3. ~(y <= x) /\ y <= y
      BY <1>3, <3>1
    <3>4. QED
      BY <2>1, <3>2, <3>3
  <2>3. Cardinality(L) <= Cardinality(M) /\ Cardinality(L) # Cardinality(M)
    BY <1>2, <2>1, <2>2, FS_Subset
  <2>4. Cardinality(L) \in Nat /\ Cardinality(M) \in Nat
    BY <1>2, <2>1, FS_CardinalityType
  <2>5. Below(S, x) = Cardinality(L) /\ Below(S, y) = Cardinality(M)
    BY <1>2, <2>1
  <2>6. QED
    BY <2>3, <2>4, <2>5
<1>4. PICK f : f = [x \in S |-> Below(S, x)]
  OBVIOUS
<1>5. f \in Injection(S, 1..n)
  <2>1. f \in [S -> 1..n]
    BY <1>2, <1>4
  <2>2. ASSUME NEW x \in S, NEW y \in S, f[x] = f[y] PROVE x = y
    <3>1. Below(S, x) = Below(S, y)
      BY <1>4, <2>2
    <3>5. Below(S, x) \in Nat /\ x \in Nat /\ y \in Nat
      <4>1. Below(S, x) \in 1..n
        BY <1>2
      <4>2. QED
        BY <1>1, <4>1
    <3>2. ~(x < y) /\ ~(y < x)
      BY <1>3, <3>1, <3>5
    <3>3. QED
      BY <3>2, <3>5
  <2>3. QED
    BY <2>1, <2>2 DEF Injection, IsInjective
<1>6. IsFiniteSet(1..n) /\ Cardinality(1..n) = n
  BY <1>1, FS_Interval
<1>7. f \in Surjection(S, 1..n)
  <2> PICK R : R = 1..n
    OBVIOUS
  <2>1. f \in Injection(S, R) /\ IsFiniteSet(R) /\ Cardinality(S) = Cardinality(R)
    BY <1>5, <1>6
  <2>2. f \in Surjection(S, R)
    BY <2>1, FS_Injection
  <2>3. QED
    BY <2>2
<1>8. \A r \in 1..n : \E x \in S : Below(S, x) = r
  BY <1>4, <1>7 DEF Surjection
<1>9. {Below(S, x) : x \in S} = 1..n
  BY <1>2, <1>8
<1>10. QED
  BY <1>1, <1>2, <1>3, <1>9

\* A number above all the others comes last.
LEMMA RankOfNew ==
  ASSUME NEW S \in SUBSET Nat, IsFiniteSet(S), NEW n \in Nat, \A x \in S : x < n
  PROVE  /\ IsFiniteSet(S \cup {n}) /\ Below(S \cup {n}, n) = Cardinality(S) + 1
         /\ \A x \in S : Below(S \cup {n}, x) = Below(S, x)
<1>1. {y \in S \cup {n} : y <= n} = S \cup {n} /\ n \notin S
  <2>1. n <= n /\ ~(n < n) /\ \A y \in S : y \in Nat /\ y <= n
    OBVIOUS
  <2>2. QED
    BY <2>1
<1>2. ASSUME NEW x \in S PROVE {y \in S \cup {n} : y <= x} = {y \in S : y <= x}
  <2>1. x < n /\ x \in Nat
    OBVIOUS
  <2>2. ~(n <= x)
    BY <2>1
  <2>3. QED
    BY <2>2
<1>3. IsFiniteSet(S \cup {n}) /\ Cardinality(S \cup {n}) = Cardinality(S) + 1
  BY <1>1, FS_AddElement
<1>4. QED
  BY <1>1, <1>2, <1>3 DEF Below

(* -------------------------------- Results --------------------------------- *)

ResultsSpec == ResultsInit /\ [][ResultsNext]_rvars

Kept == [pool : RunPools, entry : Nat, adds : SUBSET Nat, exit : Nat, reason : Exits \cup {"none"},
         pnl : Possible, no : Nat]
Shown == [pool : RunPools, time : Nat, type : {"entry", "add", "risk_event"} \cup Exits, no : Nat,
          order : Nat, trade : Nat]
(* The positions of a run: the trades T written and those that are held.        *)
OpenRow(p, h) ==
  [pool |-> p, entry |-> h.entry, adds |-> h.adds, exit |-> 0, reason |-> "none", pnl |-> {}, no |-> h.no]
PositionsOf(T, held) == T \cup {OpenRow(p, held[p]) : p \in {q \in RunPools : held[q] # NotHeld}}
Positions == PositionsOf(tradeRows, holdings)
Holding == [entry : Nat, adds : SUBSET Nat, no : Nat]

(* What positions P and signals S tell of a run up to now.  A position has its  *)
(* place among those of its pool, which follow one another; its number, if any, *)
(* is that place.                                                               *)
Entries(P, p) == {t.entry : t \in {u \in P : u.pool = p}}
Place(P, t) == Below(Entries(P, t.pool), t.entry)
After(t, u) == t.exit # 0 /\ t.exit < u.entry
Follow(P) == \A t, u \in P : t.pool = u.pool => t = u \/ After(t, u) \/ After(u, t)
Lived(P, t, now) ==
  /\ t.entry \in 1..now /\ t.no \in {0, Place(P, t)}
  /\ \A a \in t.adds : t.entry < a /\ a <= now /\ (t.exit # 0 => a <= t.exit)
  /\ t.exit # 0 => t.entry <= t.exit /\ t.exit <= now /\ t.reason \in Exits
(* A signal tells of a position when it has its pool, its entry, the position's *)
(* number if any, and the time and the order of one of its events.              *)
Turn(t, time) == Below(t.adds, time) + 1
Tells(P, s, t) ==
  /\ s.pool = t.pool /\ s.trade = t.entry /\ s.no \in {0, Place(P, t)}
  /\ \/ s.type = "entry" /\ s.time = t.entry /\ s.order \in {0, 1}
     \/ s.type = "add" /\ s.time \in t.adds /\ s.order \in {0, Turn(t, s.time)}
     \/ s.type \in Exits /\ s.type = t.reason /\ s.time = t.exit /\ t.exit # 0
        /\ s.order \in {0, Cardinality(t.adds) + 2}
Aside(s) == s.type = "risk_event" /\ s.no = 0 /\ s.trade = 0
Told(P, S, t) ==
  /\ \E s \in S : Tells(P, s, t) /\ s.type = "entry"
  /\ \A a \in t.adds : \E s \in S : Tells(P, s, t) /\ s.type = "add" /\ s.time = a
  /\ t.exit # 0 => \E s \in S : Tells(P, s, t) /\ s.type \in Exits
Once(S) == \A r, s \in S : r.type # "risk_event" /\ r.pool = s.pool /\ r.type = s.type /\ r.time = s.time => r = s
Story(P, S, now) ==
  /\ P \subseteq Kept /\ IsFiniteSet(P) /\ S \subseteq Shown /\ now \in Nat \ {0}
  /\ Follow(P) /\ Once(S)
  /\ \A t \in P : Lived(P, t, now) /\ Told(P, S, t)
  /\ \A s \in S : s.time <= now /\ (Aside(s) \/ \E t \in P : Tells(P, s, t))

ResultsInv ==
  /\ holdings \in [RunPools -> Holding]
  /\ numbered \in BOOLEAN /\ finished \in BOOLEAN
  /\ Story(Positions, signalRows, barNo)
  /\ ~finished => \A t \in tradeRows : t.exit # 0
  /\ finished => Positions = tradeRows

\* Positions of a pool differ in their entries.
LEMMA EntryTells ==
  ASSUME NEW P, NEW S, NEW now, Story(P, S, now)
  PROVE  /\ \A t \in P : t.entry \in Nat \ {0} /\ t.exit \in Nat /\ t.pool \in RunPools /\ t.adds \in SUBSET Nat
         /\ \A t, u \in P : t.pool = u.pool /\ t.entry = u.entry => t = u
         /\ \A t, u \in P : t.pool = u.pool /\ t.entry < u.entry => After(t, u)
<1>1. ASSUME NEW t \in P PROVE t.entry \in Nat \ {0} /\ t.exit \in Nat /\ t.pool \in RunPools /\ t.adds \in SUBSET Nat /\ Lived(P, t, now)
  BY DEF Story, Kept, Lived
<1>2. ASSUME NEW t \in P, NEW u \in P, t.pool = u.pool PROVE t = u \/ After(t, u) \/ After(u, t)
  BY <1>2 DEF Story, Follow
<1>3. ASSUME NEW t \in P, NEW u \in P, After(t, u) PROVE t.entry < u.entry
  BY <1>1, <1>3 DEF After, Lived
<1>4. QED
  BY <1>1, <1>2, <1>3

\* As many positions of a pool as there are entries among them.
LEMMA CountByEntry ==
  ASSUME NEW P, NEW S, NEW now, Story(P, S, now), NEW p, NEW A \in SUBSET P, \A t \in A : t.pool = p
  PROVE  /\ IsFiniteSet(A) /\ IsFiniteSet({t.entry : t \in A})
         /\ Cardinality(A) = Cardinality({t.entry : t \in A})
         /\ Cardinality(A) \in Nat
<1>1. PICK B : B = {t.entry : t \in A}
  OBVIOUS
<1>2. PICK f : f = [t \in A |-> t.entry]
  OBVIOUS
<1>3. IsFiniteSet(A) /\ Cardinality(A) \in Nat
  BY FS_Subset, FS_CardinalityType DEF Story
<1>4. f \in Bijection(A, B)
  <2>1. f \in [A -> B] /\ \A b \in B : \E t \in A : f[t] = b
    BY <1>1, <1>2
  <2>2. ASSUME NEW t \in A, NEW u \in A, f[t] = f[u] PROVE t = u
    <3>1. t.entry = u.entry /\ t.pool = u.pool
      BY <1>2, <2>2
    <3>2. QED
      BY <3>1, EntryTells
  <2>3. QED
    BY <2>1, <2>2 DEF Bijection, Injection, Surjection, IsInjective
<1>5. ExistsBijection(A, B)
  BY <1>4 DEF ExistsBijection
<1>6. IsFiniteSet(B) /\ Cardinality(B) = Cardinality(A)
  BY <1>3, <1>5, FS_Bijection
<1>7. QED
  BY <1>1, <1>3, <1>6

LEMMA EntriesFinite ==
  ASSUME NEW P, NEW S, NEW now, Story(P, S, now), NEW p
  PROVE  /\ Entries(P, p) \in SUBSET Nat /\ IsFiniteSet(Entries(P, p)) /\ Cardinality(Entries(P, p)) \in Nat
         /\ Cardinality({t \in P : t.pool = p}) = Cardinality(Entries(P, p))
<1>1. PICK A : A = {t \in P : t.pool = p}
  OBVIOUS
<1>2. A \in SUBSET P /\ \A t \in A : t.pool = p
  BY <1>1
<1>3. Entries(P, p) = {t.entry : t \in A}
  BY <1>1 DEF Entries
<1>4. \A t \in P : t.entry \in Nat
  BY EntryTells
<1>5. IsFiniteSet({t.entry : t \in A}) /\ Cardinality(A) = Cardinality({t.entry : t \in A}) /\ Cardinality(A) \in Nat
  BY <1>2, CountByEntry
<1>6. QED
  BY <1>1, <1>2, <1>3, <1>4, <1>5

\* Time passes, and what is aside from any position is signalled.
LEMMA StoryGoesOn ==
  ASSUME NEW P, NEW S, NEW now, Story(P, S, now), NEW later \in Nat, now <= later,
         NEW A \in SUBSET Shown, \A s \in A : Aside(s) /\ s.time <= later
  PROVE  Story(P, S \cup A, later)
<1>1. \A t \in P : Lived(P, t, later)
  BY EntryTells DEF Story, Lived, Kept
<1>2. Once(S \cup A)
  BY DEF Story, Once, Aside
<1>3. \A t \in P : Told(P, S \cup A, t)
  BY DEF Story, Told
<1>4. \A s \in S \cup A : s.time <= later /\ (Aside(s) \/ \E t \in P : Tells(P, s, t))
  BY DEF Story, Shown
<1>5. later \in Nat \ {0} /\ S \cup A \subseteq Shown
  BY DEF Story
<1>6. QED
  BY <1>1, <1>2, <1>3, <1>4, <1>5 DEF Story

\* A signal now, at which its pool was quiet, is the only one of its kind.
LEMMA OnceMore ==
  ASSUME NEW S, Once(S), NEW s, \A r \in S : r.pool = s.pool /\ r.type = s.type => r.time # s.time
  PROVE  Once(S \cup {s})
BY DEF Once

\* A position is opened in a quiet pool that holds none.
LEMMA StoryOpens ==
  ASSUME NEW P, NEW S, NEW now, Story(P, S, now), NEW p \in RunPools,
         \A t \in P : t.pool = p => t.exit # 0,
         \A s \in S : s.pool = p => s.time < now,
         NEW d \in Kept, d.pool = p, d.entry = now, d.adds = {}, d.exit = 0,
         d.no \in {0, Cardinality(Entries(P, p)) + 1},
         NEW s \in Shown, s.pool = p, s.time = now, s.type = "entry", s.no = d.no, s.order \in {0, 1}, s.trade = now
  PROVE  Story(P \cup {d}, S \cup {s}, now)
<1> PICK Q, R : Q = P \cup {d} /\ R = S \cup {s}
  OBVIOUS
<1>1. ASSUME NEW t \in P, t.pool = p PROVE After(t, d) /\ t.entry < now
  <2>1. t.exit # 0
    BY <1>1
  <2>2. PICK r \in S : Tells(P, r, t) /\ r.type \in Exits
    BY <1>1, <2>1 DEF Story, Told
  <2>3. r.pool = p /\ r.time = t.exit
    BY <1>1, <2>2 DEF Tells, Exits, NormalExits
  <2>4. t.exit < now
    BY <2>2, <2>3
  <2>5. t.entry <= t.exit /\ t.entry \in Nat /\ t.exit \in Nat /\ now \in Nat
    <3>1. Story(P, S, now)
      OBVIOUS
    <3>2. t.entry \in Nat /\ t.exit \in Nat
      BY ONLY <1>1, <3>1, EntryTells
    <3>3. t.entry <= t.exit /\ now \in Nat
      BY <1>1, <2>1, <3>1 DEF Story, Lived
    <3>4. QED
      BY <3>2, <3>3
  <2>6. d.entry = now /\ t.entry < now
    <3>1. PICK i, o, n \in Nat : i = t.entry /\ o = t.exit /\ n = now
      BY <2>5
    <3>2. i <= o /\ o < n
      BY <2>4, <2>5, <3>1
    <3>3. QED
      BY <3>1, <3>2
  <2>7. QED
    BY <2>1, <2>4, <2>6 DEF After
<1>2. /\ Entries(Q, p) = Entries(P, p) \cup {now}
      /\ \A q : q # p => Entries(Q, q) = Entries(P, q)
  BY DEF Entries
<1>3. \A e \in Entries(P, p) : e < now
  BY <1>1 DEF Entries
<1>4. /\ Below(Entries(Q, p), now) = Cardinality(Entries(P, p)) + 1
      /\ \A e \in Entries(P, p) : Below(Entries(Q, p), e) = Below(Entries(P, p), e)
  <2>1. PICK E : E = Entries(P, p)
    OBVIOUS
  <2>2. E \in SUBSET Nat /\ IsFiniteSet(E) /\ now \in Nat /\ \A e \in E : e < now
    BY <1>3, <2>1, EntriesFinite DEF Story
  <2>3. Below(E \cup {now}, now) = Cardinality(E) + 1 /\ \A e \in E : Below(E \cup {now}, e) = Below(E, e)
    BY <2>2, RankOfNew
  <2>4. QED
    BY <1>2, <2>1, <2>3
<1>5. Place(Q, d) = Cardinality(Entries(P, p)) + 1
  BY <1>4 DEF Place
<1>6. ASSUME NEW t \in P PROVE Place(Q, t) = Place(P, t)
  <2>1. t.entry \in Entries(P, t.pool)
    BY DEF Entries
  <2>2. QED
    BY <1>2, <1>4, <2>1 DEF Place
<1>7. Follow(Q)
  BY <1>1 DEF Story, Follow
<1>8. ASSUME NEW t \in P PROVE Lived(Q, t, now) /\ \A r : Tells(Q, r, t) <=> Tells(P, r, t)
  BY <1>6 DEF Story, Lived, Tells
<1>9. Lived(Q, d, now)
  BY <1>5 DEF Lived, Story
<1>10. Tells(Q, s, d)
  BY <1>5 DEF Tells
<1>11. Once(R)
  BY OnceMore DEF Story
<1>12. ASSUME NEW t \in Q PROVE Told(Q, R, t)
  <2>1. CASE t = d
    BY <1>10, <2>1 DEF Told
  <2>2. CASE t \in P
    <3>1. Told(P, S, t)
      BY <2>2 DEF Story
    <3>2. QED
      BY <1>8, <2>2, <3>1 DEF Told
  <2>3. QED
    BY <2>1, <2>2
<1>13. ASSUME NEW r \in R PROVE r.time <= now /\ (Aside(r) \/ \E t \in Q : Tells(Q, r, t))
  <2>1. CASE r = s
    BY <1>10, <2>1 DEF Story
  <2>2. CASE r \in S
    BY <1>8, <2>2 DEF Story
  <2>3. QED
    BY <2>1, <2>2
<1>14. IsFiniteSet(Q) /\ Q \subseteq Kept /\ R \subseteq Shown
  BY FS_AddElement DEF Story
<1>15. QED
  BY <1>7, <1>8, <1>9, <1>11, <1>12, <1>13, <1>14 DEF Story

\* Positions that change but keep their pools and their entries keep their places.
Moves(f, P) == f \in [P -> Kept] /\ \A t \in P : f[t].pool = t.pool /\ f[t].entry = t.entry
LEMMA PlacesKept ==
  ASSUME NEW P, NEW S, NEW now, Story(P, S, now), NEW f, Moves(f, P), NEW Q, Q = {f[t] : t \in P}
  PROVE  /\ Q \subseteq Kept /\ IsFiniteSet(Q)
         /\ \A q : Entries(Q, q) = Entries(P, q)
         /\ \A t \in P : Place(Q, f[t]) = Place(P, t)
<1>1. f \in Surjection(P, Q) /\ Q \subseteq Kept
  BY DEF Moves, Surjection
<1>2. IsFiniteSet(Q)
  BY <1>1, FS_Surjection DEF Story
<1>3. ASSUME NEW q PROVE Entries(Q, q) = Entries(P, q)
  <2>1. ASSUME NEW e \in Entries(Q, q) PROVE e \in Entries(P, q)
    <3>1. PICK u \in Q : u.pool = q /\ u.entry = e
      BY DEF Entries
    <3>2. PICK t \in P : u = f[t]
      OBVIOUS
    <3>3. QED
      BY <3>1, <3>2 DEF Entries, Moves
  <2>2. ASSUME NEW e \in Entries(P, q) PROVE e \in Entries(Q, q)
    <3>1. PICK t \in P : t.pool = q /\ t.entry = e
      BY DEF Entries
    <3>2. f[t] \in Q /\ f[t].pool = q /\ f[t].entry = e
      BY <3>1 DEF Moves
    <3>3. QED
      BY <3>2 DEF Entries
  <2>3. QED
    BY <2>1, <2>2
<1>4. ASSUME NEW t \in P PROVE Place(Q, f[t]) = Place(P, t)
  BY <1>3 DEF Place, Moves
<1>5. QED
  BY <1>1, <1>2, <1>3, <1>4

\* One position changes: its pool's events so far are all before now.
LEMMA ChangeOfOne ==
  ASSUME NEW P, NEW S, NEW now, Story(P, S, now), NEW d \in P, NEW e \in Kept, e.pool = d.pool, e.entry = d.entry,
         NEW Q, Q = (P \ {d}) \cup {e}
  PROVE  /\ Q \subseteq Kept /\ IsFiniteSet(Q) /\ Place(Q, e) = Place(P, d)
         /\ \A t \in P \ {d} : Place(Q, t) = Place(P, t)
<1>1. PICK f : f = [t \in P |-> IF t = d THEN e ELSE t]
  OBVIOUS
<1>2. Moves(f, P)
  BY <1>1 DEF Moves, Story
<1>3. Q = {f[t] : t \in P} /\ f[d] = e /\ \A t \in P \ {d} : f[t] = t
  BY <1>1
<1>4. Q \subseteq Kept /\ IsFiniteSet(Q) /\ \A t \in P : Place(Q, f[t]) = Place(P, t)
  BY <1>2, <1>3, PlacesKept
<1>5. QED
  BY <1>3, <1>4

\* Another buy in a quiet pool is added to the open position.
LEMMA StoryAdds ==
  ASSUME NEW P, NEW S, NEW now, Story(P, S, now), NEW d \in P, d.exit = 0,
         \A s \in S : s.pool = d.pool => s.time < now,
         NEW e \in Kept, e.pool = d.pool, e.entry = d.entry, e.adds = d.adds \cup {now}, e.exit = 0, e.no = d.no,
         NEW s \in Shown, s.pool = d.pool, s.time = now, s.type = "add", s.no \in {0, d.no},
         s.order \in {0, Cardinality(d.adds) + 2}, s.trade = d.entry
  PROVE  Story((P \ {d}) \cup {e}, S \cup {s}, now)
<1> PICK Q, R : Q = (P \ {d}) \cup {e} /\ R = S \cup {s}
  OBVIOUS
<1>1. /\ Q \subseteq Kept /\ IsFiniteSet(Q) /\ Place(Q, e) = Place(P, d)
      /\ \A t \in P \ {d} : Place(Q, t) = Place(P, t)
  BY ChangeOfOne
<1>2. ASSUME NEW t \in P \ {d} PROVE Lived(Q, t, now) /\ \A r : Tells(Q, r, t) <=> Tells(P, r, t)
  BY <1>1 DEF Story, Lived, Tells
<1>3. now \in Nat /\ d.adds \in SUBSET Nat /\ d.entry < now /\ \A a \in d.adds : a < now
  <2>1. PICK r \in S : Tells(P, r, d) /\ r.type = "entry"
    BY DEF Story, Told
  <2>2. r.pool = d.pool /\ r.time = d.entry
    BY <2>1 DEF Tells, Exits, NormalExits
  <2>3. ASSUME NEW a \in d.adds PROVE a < now
    <3>1. PICK q \in S : Tells(P, q, d) /\ q.time = a
      BY DEF Story, Told
    <3>2. QED
      BY <3>1 DEF Tells
  <2>4. QED
    BY <2>1, <2>2, <2>3, EntryTells DEF Story
<1>4. IsFiniteSet(d.adds)
  <2>1. \A a \in d.adds : a <= now
    BY <1>3
  <2>2. QED
    BY <1>3, <2>1, FS_BoundedSetOfNaturals
<1>5. Turn(e, now) = Cardinality(d.adds) + 2 /\ \A a \in d.adds : Turn(e, a) = Turn(d, a)
  <2>1. PICK A : A = d.adds
    OBVIOUS
  <2>2. Below(A \cup {now}, now) = Cardinality(A) + 1 /\ \A a \in A : Below(A \cup {now}, a) = Below(A, a)
    BY <1>3, <1>4, <2>1, RankOfNew
  <2>3. Cardinality(A) \in Nat
    BY <1>4, <2>1, FS_CardinalityType
  <2>4. QED
    BY <2>1, <2>2, <2>3 DEF Turn
<1>6. Lived(Q, e, now)
  <2>1. Lived(P, d, now)
    BY DEF Story
  <2>2. QED
    BY <1>1, <1>3, <2>1 DEF Lived
<1>7. ASSUME NEW r, Tells(P, r, d) PROVE Tells(Q, r, e)
  <2>1. r.type = "add" => r.time \in d.adds
    BY <1>7 DEF Tells, Exits, NormalExits
  <2>2. ~(r.type \in Exits)
    BY <1>7 DEF Tells, Exits, NormalExits
  <2>3. QED
    BY <1>1, <1>5, <1>7, <2>1, <2>2 DEF Tells
<1>8. Tells(Q, s, e)
  <2>1. s.no \in {0, Place(P, d)}
    BY DEF Story, Lived
  <2>2. QED
    BY <1>1, <1>5, <2>1 DEF Tells
<1>9. Follow(Q)
  <2>1. Follow(P)
    BY DEF Story
  <2>2. ASSUME NEW t \in P \ {d}, t.pool = d.pool PROVE After(t, e)
    BY <2>1, <2>2 DEF Follow, After
  <2>3. QED
    BY <2>1, <2>2 DEF Follow
<1>10. Once(R)
  BY OnceMore DEF Story
<1>11. ASSUME NEW t \in Q PROVE Told(Q, R, t)
  <2>1. CASE t = e
    <3>1. Told(P, S, d)
      BY DEF Story
    <3>2. QED
      BY <1>7, <1>8, <2>1, <3>1 DEF Told
  <2>2. CASE t \in P \ {d}
    <3>1. Told(P, S, t)
      BY <2>2 DEF Story
    <3>2. QED
      BY <1>2, <2>2, <3>1 DEF Told
  <2>3. QED
    BY <2>1, <2>2
<1>12. ASSUME NEW r \in R PROVE r.time <= now /\ (Aside(r) \/ \E t \in Q : Tells(Q, r, t))
  <2>1. CASE r = s
    BY <1>3, <1>8, <2>1
  <2>2. CASE r \in S
    <3>1. r.time <= now /\ (Aside(r) \/ \E t \in P : Tells(P, r, t))
      BY <2>2 DEF Story
    <3>2. QED
      BY <1>2, <1>7, <3>1
  <2>3. QED
    BY <2>1, <2>2
<1>13. QED
  BY <1>1, <1>2, <1>6, <1>9, <1>10, <1>11, <1>12 DEF Story

\* The open position of a pool is closed, at the end of the data on any bar.
LEMMA StoryCloses ==
  ASSUME NEW P, NEW S, NEW now, Story(P, S, now), NEW d \in P, d.exit = 0,
         NEW e \in Kept, e.pool = d.pool, e.entry = d.entry, e.adds = d.adds, e.exit = now, e.reason \in Exits, e.no = d.no,
         NEW s \in Shown, s.pool = d.pool, s.time = now, s.type = e.reason, s.no \in {0, d.no},
         s.order \in {0, Cardinality(d.adds) + 2}, s.trade = d.entry
  PROVE  Story((P \ {d}) \cup {e}, S \cup {s}, now)
<1> PICK Q, R : Q = (P \ {d}) \cup {e} /\ R = S \cup {s}
  OBVIOUS
<1>1. /\ Q \subseteq Kept /\ IsFiniteSet(Q) /\ Place(Q, e) = Place(P, d)
      /\ \A t \in P \ {d} : Place(Q, t) = Place(P, t)
  <2>1. Story(P, S, now) /\ d \in P /\ e \in Kept /\ e.pool = d.pool /\ e.entry = d.entry /\ Q = (P \ {d}) \cup {e}
    OBVIOUS
  <2>2. QED
    BY ONLY <2>1, ChangeOfOne, SMTT(60)
<1>2. ASSUME NEW t \in P \ {d} PROVE Lived(Q, t, now) /\ \A r : Tells(Q, r, t) <=> Tells(P, r, t)
  BY <1>1 DEF Story, Lived, Tells
<1>3. now \in Nat \ {0} /\ Lived(P, d, now) /\ Follow(P)
  BY DEF Story
<1>4. Lived(Q, e, now)
  BY <1>1, <1>3 DEF Lived
<1>5. ASSUME NEW r, Tells(P, r, d) PROVE Tells(Q, r, e)
  BY <1>1, <1>5 DEF Tells, Turn
<1>6. Tells(Q, s, e)
  BY <1>1, <1>3 DEF Tells, Lived
<1>7. ASSUME NEW t \in P \ {d}, t.pool = d.pool PROVE After(t, e) /\ t.exit < now
  <2>1. After(t, d)
    BY <1>3, <1>7 DEF Follow, After
  <2>2. t.exit \in Nat /\ d.entry \in Nat /\ d.entry <= now
    BY <1>3, EntryTells DEF Lived
  <2>3. QED
    BY <1>3, <2>1, <2>2 DEF After
<1>8. Follow(Q)
  BY <1>3, <1>7 DEF Follow
<1>9. ASSUME NEW r \in S, r.pool = s.pool, r.type = s.type PROVE r.time # s.time
  <2>1. PICK t \in P : Tells(P, r, t)
    BY <1>9 DEF Story, Aside, Exits, NormalExits
  <2>2. t.pool = d.pool /\ t.exit # 0 /\ r.time = t.exit
    BY <1>9, <2>1 DEF Tells, Exits, NormalExits
  <2>3. t.exit < now /\ t.exit \in Nat
    BY <1>7, <2>2, EntryTells
  <2>4. QED
    BY <1>3, <2>2, <2>3
<1>10. Once(R)
  BY <1>9, OnceMore DEF Story
<1>11. ASSUME NEW t \in Q PROVE Told(Q, R, t)
  <2>1. CASE t = e
    <3>1. Told(P, S, d)
      BY DEF Story
    <3>2. QED
      BY <1>5, <1>6, <2>1, <3>1 DEF Told
  <2>2. CASE t \in P \ {d}
    <3>1. Told(P, S, t)
      BY <2>2 DEF Story
    <3>2. QED
      BY <1>2, <2>2, <3>1 DEF Told
  <2>3. QED
    BY <2>1, <2>2
<1>12. ASSUME NEW r \in R PROVE r.time <= now /\ (Aside(r) \/ \E t \in Q : Tells(Q, r, t))
  <2>1. CASE r = s
    BY <1>3, <1>6, <2>1
  <2>2. CASE r \in S
    <3>1. r.time <= now /\ (Aside(r) \/ \E t \in P : Tells(P, r, t))
      BY <2>2 DEF Story
    <3>2. QED
      BY <1>2, <1>5, <3>1
  <2>3. QED
    BY <2>1, <2>2
<1>13. QED
  BY <1>1, <1>2, <1>3, <1>4, <1>8, <1>10, <1>11, <1>12 DEF Story

\* Positions may be numbered by their places at any time.
LEMMA StoryNumbered ==
  ASSUME NEW P, NEW S, NEW now, Story(P, S, now), NEW f, Moves(f, P),
         \A t \in P : f[t].adds = t.adds /\ f[t].exit = t.exit /\ f[t].reason = t.reason /\ f[t].no \in {0, Place(P, t)}
  PROVE  Story({f[t] : t \in P}, S, now)
<1> PICK Q : Q = {f[t] : t \in P}
  OBVIOUS
<1>1. Q \subseteq Kept /\ IsFiniteSet(Q) /\ \A t \in P : Place(Q, f[t]) = Place(P, t)
  BY PlacesKept
<1>2. ASSUME NEW t \in P PROVE /\ f[t] \in Q /\ Lived(Q, f[t], now)
                               /\ \A r : Tells(Q, r, f[t]) <=> Tells(P, r, t)
  BY <1>1 DEF Story, Moves, Lived, Tells, Turn
<1>3. Follow(Q)
  <2>1. ASSUME NEW t \in P, NEW u \in P, f[t].pool = f[u].pool PROVE f[t] = f[u] \/ After(f[t], f[u]) \/ After(f[u], f[t])
    <3>1. t = u \/ After(t, u) \/ After(u, t)
      BY <2>1 DEF Moves, Story, Follow
    <3>2. QED
      BY <3>1 DEF After, Moves
  <2>2. QED
    BY <2>1 DEF Follow
<1>4. ASSUME NEW t \in P PROVE Told(Q, S, f[t])
  <2>1. Told(P, S, t)
    BY DEF Story
  <2>2. QED
    BY <1>2, <2>1 DEF Told
<1>5. ASSUME NEW r \in S PROVE r.time <= now /\ (Aside(r) \/ \E t \in Q : Tells(Q, r, t))
  <2>1. r.time <= now /\ (Aside(r) \/ \E t \in P : Tells(P, r, t))
    BY DEF Story
  <2>2. QED
    BY <1>2, <2>1
<1>6. QED
  BY <1>1, <1>2, <1>3, <1>4, <1>5 DEF Story

SetTo(g, h, p, x) == g[p] = x /\ \A q \in RunPools \ {p} : g[q] = h[q]
LEMMA RowOpened ==
  ASSUME NEW T, NEW h \in [RunPools -> Holding], NEW p \in RunPools, NEW x \in Holding, h[p] = NotHeld, x # NotHeld,
         NEW g, SetTo(g, h, p, x)
  PROVE  PositionsOf(T, g) = PositionsOf(T, h) \cup {OpenRow(p, x)}
<1>1. g[p] = x /\ \A q \in RunPools \ {p} : g[q] = h[q]
  BY DEF SetTo
<1>2. {q \in RunPools : g[q] # NotHeld} = {q \in RunPools : h[q] # NotHeld} \cup {p} /\ p \notin {q \in RunPools : h[q] # NotHeld}
  BY <1>1
<1>3. QED
  BY <1>1, <1>2 DEF PositionsOf

LEMMA RowPool == \A p, h : OpenRow(p, h).pool = p
BY DEF OpenRow

LEMMA RowsBut ==
  ASSUME NEW T, NEW h, NEW p \in RunPools, NEW d, h[p] # NotHeld, d = OpenRow(p, h[p]), d \notin T,
         NEW g, NEW x, SetTo(g, h, p, x)
  PROVE  \E Rest : /\ PositionsOf(T, h) \ {d} = T \cup Rest
                   /\ x # NotHeld => PositionsOf(T, g) = (T \cup Rest) \cup {OpenRow(p, x)}
                   /\ x = NotHeld => \A U : PositionsOf(U, g) = U \cup Rest
<1>1. g[p] = x /\ \A q \in RunPools \ {p} : g[q] = h[q]
  BY DEF SetTo
<1>2. PICK Rest : Rest = {OpenRow(q, h[q]) : q \in {q \in RunPools \ {p} : h[q] # NotHeld}}
  OBVIOUS
<1>3. d \notin Rest
  BY <1>2, RowPool
<1>4. PositionsOf(T, h) = T \cup (Rest \cup {d})
  BY <1>2 DEF PositionsOf
<1>5. PositionsOf(T, h) \ {d} = T \cup Rest
  BY <1>3, <1>4
<1>6. x # NotHeld => PositionsOf(T, g) = (T \cup Rest) \cup {OpenRow(p, x)}
  BY <1>1, <1>2 DEF PositionsOf
<1>7. x = NotHeld => \A U : PositionsOf(U, g) = U \cup Rest
  BY <1>1, <1>2 DEF PositionsOf
<1>8. QED
  BY <1>5, <1>6, <1>7

LEMMA RowChanged ==
  ASSUME NEW T, NEW h, NEW p \in RunPools, NEW d, h[p] # NotHeld, d = OpenRow(p, h[p]), d \notin T,
         NEW g, NEW x, x # NotHeld, SetTo(g, h, p, x)
  PROVE  PositionsOf(T, g) = (PositionsOf(T, h) \ {d}) \cup {OpenRow(p, x)}
BY RowsBut

\* What TakeOver and a new position count.
LEMMA ClosedCount ==
  ASSUME ResultsInv, ~finished, NEW p \in RunPools
  PROVE  /\ holdings[p] = NotHeld => ClosedIn(p) = Cardinality(Entries(Positions, p))
         /\ holdings[p] # NotHeld =>
              /\ OpenRow(p, holdings[p]) \in Positions /\ OpenRow(p, holdings[p]) \notin tradeRows
              /\ Place(Positions, OpenRow(p, holdings[p])) = ClosedIn(p) + 1
<1>1. PICK P : P = Positions
  OBVIOUS
<1>2. Story(P, signalRows, barNo) /\ \A t \in tradeRows : t.exit # 0
  BY <1>1 DEF ResultsInv
<1>3. PICK C : C = {t \in tradeRows : t.pool = p}
  OBVIOUS
<1>4. C \in SUBSET P /\ \A t \in C : t.pool = p
  BY <1>1, <1>3 DEF Positions, PositionsOf
<1>5. IsFiniteSet(C) /\ Cardinality(C) \in Nat
  BY <1>2, <1>4, CountByEntry
<1>6. ClosedIn(p) = Cardinality(C)
  BY <1>3 DEF ClosedIn
<1>7. PICK A : A = {t \in P : t.pool = p}
  OBVIOUS
<1>8. Cardinality(A) = Cardinality(Entries(P, p))
  BY <1>2, <1>7, EntriesFinite
<1>9. CASE holdings[p] = NotHeld
  <2>1. A = C
    BY <1>1, <1>3, <1>7, <1>9, RowPool DEF Positions, PositionsOf
  <2>2. QED
    BY <1>1, <1>6, <1>8, <1>9, <2>1
<1>10. CASE holdings[p] # NotHeld
  <2>1. PICK d : d = OpenRow(p, holdings[p])
    OBVIOUS
  <2>2. d.exit = 0 /\ d.pool = p /\ d \in P /\ d \notin tradeRows
    BY <1>1, <1>2, <1>10, <2>1 DEF OpenRow, Positions, PositionsOf
  <2>3. A = C \cup {d} /\ d \notin C
    BY <1>1, <1>3, <1>7, <2>1, <2>2, RowPool DEF Positions, PositionsOf
  <2>4. Cardinality(A) = Cardinality(C) + 1
    BY <1>5, <2>3, FS_AddElement
  <2>5. ASSUME NEW e \in Entries(P, p) PROVE e <= d.entry
    <3>1. PICK t \in P : t.pool = p /\ t.entry = e
      BY DEF Entries
    <3>2. ~After(d, t)
      BY <2>2 DEF After
    <3>3. t.entry \in Nat /\ d.entry \in Nat
      BY <1>2, <2>2, EntryTells
    <3>4. ~(d.entry < t.entry)
      BY <1>2, <2>2, <3>1, <3>2, EntryTells
    <3>5. QED
      BY <3>1, <3>3, <3>4
  <2>6. {e \in Entries(P, p) : e <= d.entry} = Entries(P, p)
    BY <2>5
  <2>7. Place(P, d) = Cardinality(Entries(P, p))
    BY <2>2, <2>6 DEF Place, Below
  <2>8. QED
    BY <1>1, <1>6, <1>8, <1>10, <2>1, <2>2, <2>4, <2>7
<1>11. QED
  BY <1>9, <1>10

LEMMA ResultsInvInit == ResultsInit => ResultsInv
<1> SUFFICES ASSUME ResultsInit PROVE ResultsInv
  OBVIOUS
<1>1. holdings \in [RunPools -> Holding] /\ \A q \in RunPools : holdings[q] = NotHeld
  BY DEF ResultsInit, NotHeld, Holding
<1>2. Positions = {} /\ tradeRows = {} /\ signalRows = {} /\ barNo = 1
  BY <1>1 DEF Positions, PositionsOf, ResultsInit
<1>3. IsFiniteSet({})
  BY FS_EmptySet
<1>4. Story(Positions, signalRows, barNo)
  BY <1>2, <1>3 DEF Story, Follow, Once
<1>5. QED
  BY <1>1, <1>2, <1>4 DEF ResultsInit, ResultsInv

LEMMA OpenTradeStep == ASSUME ResultsInv, NEW p \in RunPools, OpenTrade(p) PROVE ResultsInv'
<1>1. PICK x : x = OpenedNow(p)
  OBVIOUS
<1>2. PICK d : d = OpenRow(p, x)
  OBVIOUS
<1>3. PICK s : s = Signalled(p, "entry", OpenedNow(p), 1)
  OBVIOUS
<1>4. /\ ~finished /\ holdings[p] = NotHeld /\ Quieted(p) /\ holdings' = [holdings EXCEPT ![p] = x]
      /\ signalRows' = signalRows \cup {s} /\ tradeRows' = tradeRows /\ numbered' = numbered
      /\ barNo' = barNo /\ finished' = finished
  BY <1>1, <1>3 DEF OpenTrade
<1>5. Story(Positions, signalRows, barNo) /\ barNo \in Nat \ {0}
  BY DEF ResultsInv, Story
<1>6. PICK n : n = Cardinality(Entries(Positions, p))
  OBVIOUS
<1>7. n \in Nat /\ ClosedIn(p) = n
  BY <1>4, <1>5, <1>6, ClosedCount, EntriesFinite
<1>8. x = [entry |-> barNo, adds |-> {}, no |-> IF numbered THEN n + 1 ELSE 0]
  BY <1>1, <1>7 DEF OpenedNow
<1>9. x \in Holding /\ x # NotHeld /\ x.entry = barNo /\ x.adds = {} /\ x.no \in {0, n + 1}
  BY <1>5, <1>7, <1>8 DEF Holding, NotHeld
<1>10. {} \in Possible
  BY DEF Possible
<1>11. d \in Kept /\ d.pool = p /\ d.entry = barNo /\ d.adds = {} /\ d.exit = 0 /\ d.no = x.no
  BY <1>2, <1>9, <1>10, <1>5 DEF OpenRow, Kept, Holding
<1>12. s = [pool |-> p, time |-> barNo, type |-> "entry", no |-> IF numbered THEN x.no ELSE 0,
            order |-> IF numbered THEN 1 ELSE 0, trade |-> x.entry]
  BY <1>1, <1>3 DEF Signalled
<1>13. x.no = (IF numbered THEN n + 1 ELSE 0)
  BY <1>8
<1>14. /\ s \in Shown /\ s.pool = p /\ s.time = barNo /\ s.type = "entry" /\ s.no = d.no /\ s.order \in {0, 1}
       /\ s.trade = barNo
  BY <1>5, <1>7, <1>9, <1>11, <1>12, <1>13 DEF Shown
<1>15. \A t \in Positions : t.pool = p => t.exit # 0
  <2>1. ASSUME NEW t \in Positions, t.pool = p PROVE t \in tradeRows
    BY <1>4, <2>1, RowPool DEF Positions, PositionsOf
  <2>2. QED
    BY <1>4, <2>1 DEF ResultsInv
<1>16. \A r \in signalRows : r.pool = p => r.time < barNo
  BY <1>4 DEF Quieted
<1>17. PICK P, S : P = Positions /\ S = signalRows
  OBVIOUS
<1>18. Story(P \cup {d}, S \cup {s}, barNo)
  BY <1>5, <1>6, <1>9, <1>11, <1>14, <1>15, <1>16, <1>17, StoryOpens
<1>19. Positions' = P \cup {d}
  <2>1. PICK T, H, G : T = tradeRows /\ H = holdings /\ G = holdings'
    OBVIOUS
  <2>2. H \in [RunPools -> Holding] /\ H[p] = NotHeld /\ SetTo(G, H, p, x)
    BY <1>4, <2>1 DEF ResultsInv, SetTo
  <2>3. PositionsOf(T, G) = PositionsOf(T, H) \cup {OpenRow(p, x)}
    BY <1>9, <2>2, RowOpened
  <2>4. P = PositionsOf(T, H) /\ Positions' = PositionsOf(T, G)
    BY <1>4, <1>17, <2>1 DEF Positions
  <2>5. QED
    BY <1>2, <2>3, <2>4
<1>20. holdings' \in [RunPools -> Holding]
  BY <1>4, <1>9 DEF ResultsInv
<1>21. QED
  BY <1>4, <1>17, <1>18, <1>19, <1>20 DEF ResultsInv

\* What is common to the actions on a position that is held.
LEMMA HeldRow ==
  ASSUME ResultsInv, ~finished, NEW p \in RunPools, holdings[p] # NotHeld,
         NEW d, d = OpenRow(p, holdings[p])
  PROVE  /\ d \in Positions /\ d \notin tradeRows /\ d \in Kept /\ d.exit = 0 /\ d.pool = p
         /\ d.entry = holdings[p].entry /\ d.adds = holdings[p].adds /\ d.no = holdings[p].no
         /\ d.pnl = {} /\ d.reason = "none"
         /\ Cardinality(d.adds) \in Nat
         /\ Story(Positions, signalRows, barNo) /\ barNo \in Nat \ {0}
<1>1. d \in Positions /\ d \notin tradeRows
  BY ClosedCount
<1>2. Story(Positions, signalRows, barNo) /\ barNo \in Nat \ {0}
  BY DEF ResultsInv, Story
<1>3. d \in Kept /\ Lived(Positions, d, barNo)
  BY <1>1, <1>2 DEF Story
<1>4. d.adds \in SUBSET Nat /\ \A a \in d.adds : a <= barNo
  BY <1>3 DEF Kept, Lived
<1>5. Cardinality(d.adds) \in Nat
  <2>1. PICK A : A = d.adds
    OBVIOUS
  <2>2. IsFiniteSet(A)
    BY <1>2, <1>4, <2>1, FS_BoundedSetOfNaturals
  <2>3. QED
    BY <2>1, <2>2, FS_CardinalityType
<1>6. QED
  BY <1>1, <1>2, <1>3, <1>5 DEF OpenRow

LEMMA AddToStep == ASSUME ResultsInv, NEW p \in RunPools, AddTo(p) PROVE ResultsInv'
<1>1. PICK h : h = holdings[p]
  OBVIOUS
<1>2. PICK x : x = [h EXCEPT !.adds = @ \cup {barNo}]
  OBVIOUS
<1>3. PICK s : s = Signalled(p, "add", holdings[p], Cardinality(holdings[p].adds) + 2)
  OBVIOUS
<1>4. /\ ~finished /\ h # NotHeld /\ Quieted(p)
      /\ signalRows' = signalRows \cup {s} /\ tradeRows' = tradeRows /\ numbered' = numbered
      /\ barNo' = barNo /\ finished' = finished
  BY <1>1, <1>3 DEF AddTo
<1>5. h \in Holding /\ holdings \in [RunPools -> Holding]
  BY <1>1 DEF ResultsInv
<1>6. PICK d : d = OpenRow(p, h)
  OBVIOUS
<1>7. /\ d \in Positions /\ d \notin tradeRows /\ d \in Kept /\ d.exit = 0 /\ d.pool = p
      /\ d.entry = h.entry /\ d.adds = h.adds /\ d.no = h.no /\ Cardinality(d.adds) \in Nat
      /\ Story(Positions, signalRows, barNo) /\ barNo \in Nat \ {0}
  BY <1>1, <1>4, <1>6, HeldRow
<1>8. x \in Holding /\ x.entry = h.entry /\ x.adds = h.adds \cup {barNo} /\ x.no = h.no
  BY <1>2, <1>5, <1>7 DEF Holding
<1>9. x # NotHeld
  BY <1>7, <1>8 DEF NotHeld
<1>10. holdings' = [holdings EXCEPT ![p] = x]
  <2>1. holdings' = [holdings EXCEPT ![p].adds = @ \cup {barNo}]
    BY DEF AddTo
  <2>2. QED
    BY <1>1, <1>2, <1>5, <2>1
<1>11. PICK e : e = OpenRow(p, x)
  OBVIOUS
<1>12. {} \in Possible
  BY DEF Possible
<1>13. e \in Kept /\ e.pool = d.pool /\ e.entry = d.entry /\ e.adds = d.adds \cup {barNo} /\ e.exit = 0 /\ e.no = d.no
  BY <1>7, <1>8, <1>11, <1>12 DEF OpenRow, Kept, Holding
<1>14. s = [pool |-> p, time |-> barNo, type |-> "add", no |-> IF numbered THEN h.no ELSE 0,
            order |-> IF numbered THEN Cardinality(h.adds) + 2 ELSE 0, trade |-> h.entry]
  BY <1>1, <1>3 DEF Signalled
<1>15. /\ s \in Shown /\ s.pool = d.pool /\ s.time = barNo /\ s.type = "add" /\ s.no \in {0, d.no}
       /\ s.order \in {0, Cardinality(d.adds) + 2} /\ s.trade = d.entry
  BY <1>5, <1>7, <1>14 DEF Shown, Holding
<1>16. \A r \in signalRows : r.pool = d.pool => r.time < barNo
  BY <1>4, <1>7 DEF Quieted
<1>17. PICK P, S : P = Positions /\ S = signalRows
  OBVIOUS
<1>18. Story((P \ {d}) \cup {e}, S \cup {s}, barNo)
  BY <1>7, <1>13, <1>15, <1>16, <1>17, StoryAdds
<1>19. Positions' = (P \ {d}) \cup {e}
  <2>1. PICK T, H, G : T = tradeRows /\ H = holdings /\ G = holdings'
    OBVIOUS
  <2>2. /\ H \in [RunPools -> Holding] /\ H[p] # NotHeld /\ SetTo(G, H, p, x)
        /\ d = OpenRow(p, H[p]) /\ d \notin T
    BY <1>1, <1>4, <1>5, <1>6, <1>7, <1>10, <2>1 DEF SetTo
  <2>3. PositionsOf(T, G) = (PositionsOf(T, H) \ {d}) \cup {OpenRow(p, x)}
    BY <1>9, <2>2, RowChanged
  <2>4. P = PositionsOf(T, H) /\ Positions' = PositionsOf(T, G)
    BY <1>4, <1>17, <2>1 DEF Positions
  <2>5. QED
    BY <1>11, <2>3, <2>4
<1>20. holdings' \in [RunPools -> Holding]
  BY <1>5, <1>8, <1>10
<1>21. QED
  BY <1>4, <1>17, <1>18, <1>19, <1>20 DEF ResultsInv

LEMMA CloseTradeStep ==
  ASSUME ResultsInv, NEW p \in RunPools, NEW reason \in Exits, NEW pnl \in Outcomes, CloseTrade(p, reason, pnl)
  PROVE  ResultsInv'
<1>1. PICK h : h = holdings[p]
  OBVIOUS
<1>2. PICK e : e = Written(p, barNo, reason, pnl)
  OBVIOUS
<1>3. PICK s : s = Signalled(p, reason, holdings[p], Cardinality(holdings[p].adds) + 2)
  OBVIOUS
<1>4. /\ ~finished /\ h # NotHeld /\ holdings' = [holdings EXCEPT ![p] = NotHeld]
      /\ signalRows' = signalRows \cup {s} /\ tradeRows' = tradeRows \cup {e} /\ numbered' = numbered
      /\ barNo' = barNo /\ finished' = finished
  BY <1>1, <1>2, <1>3 DEF CloseTrade
<1>5. h \in Holding /\ holdings \in [RunPools -> Holding]
  BY <1>1 DEF ResultsInv
<1>6. PICK d : d = OpenRow(p, h)
  OBVIOUS
<1>7. /\ d \in Positions /\ d \notin tradeRows /\ d \in Kept /\ d.exit = 0 /\ d.pool = p
      /\ d.entry = h.entry /\ d.adds = h.adds /\ d.no = h.no /\ Cardinality(d.adds) \in Nat
      /\ Story(Positions, signalRows, barNo) /\ barNo \in Nat \ {0}
  BY <1>1, <1>4, <1>6, HeldRow
<1>8. pnl \in Possible
  BY ResultsAssumption DEF Possible
<1>9. e = [pool |-> p, entry |-> h.entry, adds |-> h.adds, exit |-> barNo, reason |-> reason, pnl |-> pnl, no |-> h.no]
  BY <1>1, <1>2 DEF Written
<1>10. /\ e \in Kept /\ e.pool = d.pool /\ e.entry = d.entry /\ e.adds = d.adds /\ e.exit = barNo /\ e.reason \in Exits
       /\ e.no = d.no /\ e.reason = reason
  BY <1>5, <1>7, <1>8, <1>9 DEF Kept, Holding
<1>11. s = [pool |-> p, time |-> barNo, type |-> reason, no |-> IF numbered THEN h.no ELSE 0,
            order |-> IF numbered THEN Cardinality(h.adds) + 2 ELSE 0, trade |-> h.entry]
  BY <1>1, <1>3 DEF Signalled
<1>12. /\ s \in Shown /\ s.pool = d.pool /\ s.time = barNo /\ s.type = e.reason /\ s.no \in {0, d.no}
       /\ s.order \in {0, Cardinality(d.adds) + 2} /\ s.trade = d.entry
  BY <1>5, <1>7, <1>10, <1>11 DEF Shown, Holding
<1>13. PICK P, S : P = Positions /\ S = signalRows
  OBVIOUS
<1>14. Story((P \ {d}) \cup {e}, S \cup {s}, barNo)
  BY <1>7, <1>10, <1>12, <1>13, StoryCloses
<1>15. Positions' = (P \ {d}) \cup {e}
  <2>1. PICK T, H, G : T = tradeRows /\ H = holdings /\ G = holdings'
    OBVIOUS
  <2>2. /\ H \in [RunPools -> Holding] /\ H[p] # NotHeld /\ SetTo(G, H, p, NotHeld)
        /\ d = OpenRow(p, H[p]) /\ d \notin T
    BY <1>1, <1>4, <1>5, <1>6, <1>7, <2>1 DEF SetTo
  <2>3. PICK x : x = NotHeld /\ SetTo(G, H, p, x)
    BY <2>2
  <2>31. p \in RunPools
    OBVIOUS
  <2>32. H[p] # NotHeld /\ d = OpenRow(p, H[p]) /\ d \notin T /\ SetTo(G, H, p, x)
    BY <2>2, <2>3
  <2>4. PICK Rest : PositionsOf(T, H) \ {d} = T \cup Rest /\ (x = NotHeld => \A U : PositionsOf(U, G) = U \cup Rest)
    BY ONLY <2>31, <2>32, RowsBut, SMTT(30)
  <2>5. PositionsOf(T \cup {e}, G) = (PositionsOf(T, H) \ {d}) \cup {e}
    <3>1. PositionsOf(T \cup {e}, G) = (T \cup {e}) \cup Rest
      BY <2>3, <2>4
    <3>2. QED
      BY <2>4, <3>1
  <2>6. P = PositionsOf(T, H) /\ Positions' = PositionsOf(T \cup {e}, G)
    BY <1>4, <1>13, <2>1 DEF Positions
  <2>7. QED
    BY <2>5, <2>6
<1>16. holdings' \in [RunPools -> Holding]
  BY <1>4, <1>5 DEF NotHeld, Holding
<1>17. \A t \in tradeRows' : t.exit # 0
  BY <1>4, <1>7, <1>10 DEF ResultsInv
<1>18. QED
  BY <1>4, <1>13, <1>14, <1>15, <1>16, <1>17 DEF ResultsInv

LEMMA TakeOverStep == ASSUME ResultsInv, TakeOver PROVE ResultsInv'
<1>1. /\ ~finished /\ numbered' = TRUE /\ tradeRows' = tradeRows /\ signalRows' = signalRows
      /\ barNo' = barNo /\ finished' = finished
      /\ holdings' = [p \in RunPools |-> IF holdings[p] = NotHeld THEN NotHeld ELSE [holdings[p] EXCEPT !.no = ClosedIn(p) + 1]]
  BY DEF TakeOver
<1>2. holdings \in [RunPools -> Holding] /\ Story(Positions, signalRows, barNo)
  BY DEF ResultsInv
<1>3. ASSUME NEW p \in RunPools
      PROVE  /\ holdings'[p] \in Holding /\ (holdings'[p] = NotHeld <=> holdings[p] = NotHeld)
             /\ holdings[p] # NotHeld => /\ holdings'[p].entry = holdings[p].entry /\ holdings'[p].adds = holdings[p].adds
                                         /\ holdings'[p].no = ClosedIn(p) + 1
  <2>1. CASE holdings[p] = NotHeld
    BY <1>1, <2>1 DEF NotHeld, Holding
  <2>2. CASE holdings[p] # NotHeld
    <3>1. PICK h : h = holdings[p]
      OBVIOUS
    <3>2. PICK x : x = [h EXCEPT !.no = ClosedIn(p) + 1]
      OBVIOUS
    <3>3. ClosedIn(p) \in Nat
      <4>1. PICK C : C = {t \in tradeRows : t.pool = p}
        OBVIOUS
      <4>2. C \in SUBSET Positions /\ \A t \in C : t.pool = p
        BY <4>1 DEF Positions, PositionsOf
      <4>3. Cardinality(C) \in Nat
        BY <1>2, <4>2, CountByEntry
      <4>4. QED
        BY <4>1, <4>3 DEF ClosedIn
    <3>4. h \in Holding
      BY <1>2, <3>1
    <3>5. x \in Holding /\ x.entry = h.entry /\ x.adds = h.adds /\ x.no = ClosedIn(p) + 1
      BY <3>2, <3>3, <3>4 DEF Holding
    <3>6. holdings'[p] = x
      BY <1>1, <2>2, <3>1, <3>2
    <3>7. h.entry # 0
      <4>1. PICK d : d = OpenRow(p, h)
        OBVIOUS
      <4>2. d \in Positions /\ d.entry = h.entry
        BY <1>1, <2>2, <3>1, <4>1, HeldRow
      <4>3. QED
        BY <1>2, <4>2, EntryTells
    <3>8. x # NotHeld
      BY <3>5, <3>7 DEF NotHeld
    <3>9. QED
      BY <2>2, <3>1, <3>5, <3>6, <3>8
  <2>3. QED
    BY <2>1, <2>2
<1>4. PICK P : P = Positions
  OBVIOUS
<1>5. PICK f : f = [t \in P |-> IF t \in tradeRows THEN t ELSE OpenRow(t.pool, holdings'[t.pool])]
  OBVIOUS
<1>6. ASSUME NEW t \in P
      PROVE  /\ t \in Kept /\ f[t] \in Kept /\ f[t].pool = t.pool /\ f[t].entry = t.entry
             /\ f[t].adds = t.adds /\ f[t].exit = t.exit /\ f[t].reason = t.reason /\ f[t].no \in {0, Place(P, t)}
  <2>1. t \in Kept /\ Lived(P, t, barNo)
    BY <1>2, <1>4 DEF Story
  <2>2. CASE t \in tradeRows
    <3>1. f[t] = t
      BY <1>5, <2>2
    <3>2. QED
      BY <2>1, <3>1 DEF Lived
  <2>3. CASE t \notin tradeRows
    <3>1. PICK p \in RunPools : holdings[p] # NotHeld /\ t = OpenRow(p, holdings[p])
      BY <1>4, <2>3 DEF Positions, PositionsOf
    <3>2. t.pool = p
      BY <3>1, RowPool
    <3>3. f[t] = OpenRow(p, holdings'[p])
      BY <1>5, <2>3, <3>2
    <3>4. Place(P, t) = ClosedIn(p) + 1
      BY <1>1, <1>4, <3>1, ClosedCount
    <3>5. PICK h, x : h = holdings[p] /\ x = holdings'[p]
      OBVIOUS
    <3>6. x \in Holding /\ x.entry = h.entry /\ x.adds = h.adds /\ x.no = Place(P, t)
      BY <1>3, <3>1, <3>4, <3>5
    <3>7. {} \in Possible
      BY DEF Possible
    <3>8. OpenRow(p, x) \in Kept
      BY <3>6, <3>7 DEF OpenRow, Kept, Holding
    <3>9. t = OpenRow(p, h) /\ f[t] = OpenRow(p, x)
      BY <3>1, <3>3, <3>5
    <3>10. QED
      BY <2>1, <3>6, <3>8, <3>9 DEF OpenRow
  <2>4. QED
    BY <2>2, <2>3
<1>7. Moves(f, P)
  BY <1>5, <1>6 DEF Moves
<1>8. Story({f[t] : t \in P}, signalRows, barNo)
  BY <1>2, <1>4, <1>6, <1>7, StoryNumbered
<1>9. Positions' = {f[t] : t \in P}
  <2>1. Positions' = PositionsOf(tradeRows, holdings')
    BY <1>1 DEF Positions
  <2>2. ASSUME NEW u \in PositionsOf(tradeRows, holdings') PROVE \E t \in P : u = f[t]
    <3>1. CASE u \in tradeRows
      <4>1. u \in P /\ f[u] = u
        BY <1>4, <1>5, <3>1 DEF Positions, PositionsOf
      <4>2. QED
        BY <4>1
    <3>2. CASE u \notin tradeRows
      <4>1. PICK p \in RunPools : holdings'[p] # NotHeld /\ u = OpenRow(p, holdings'[p])
        BY <2>2, <3>2 DEF PositionsOf
      <4>2. PICK t : t = OpenRow(p, holdings[p])
        OBVIOUS
      <4>3. t \in P /\ t \notin tradeRows /\ t.pool = p
        BY <1>1, <1>3, <1>4, <4>1, <4>2, HeldRow
      <4>4. f[t] = u
        BY <1>5, <4>1, <4>3
      <4>5. QED
        BY <4>3, <4>4
    <3>3. QED
      BY <3>1, <3>2
  <2>3. ASSUME NEW t \in P PROVE f[t] \in PositionsOf(tradeRows, holdings')
    <3>1. CASE t \in tradeRows
      BY <1>5, <3>1 DEF PositionsOf
    <3>2. CASE t \notin tradeRows
      <4>1. PICK p \in RunPools : holdings[p] # NotHeld /\ t = OpenRow(p, holdings[p])
        BY <1>4, <3>2 DEF Positions, PositionsOf
      <4>2. f[t] = OpenRow(p, holdings'[p]) /\ holdings'[p] # NotHeld
        BY <1>3, <1>5, <3>2, <4>1, RowPool
      <4>3. QED
        BY <4>2 DEF PositionsOf
    <3>3. QED
      BY <3>1, <3>2
  <2>4. QED
    BY <2>1, <2>2, <2>3
<1>10. holdings' \in [RunPools -> Holding]
  <2>1. PICK g : g = holdings'
    OBVIOUS
  <2>2. DOMAIN g = RunPools /\ g = [p \in RunPools |-> g[p]]
    BY <1>1, <2>1
  <2>3. \A p \in RunPools : g[p] \in Holding
    BY <1>3, <2>1
  <2>4. g \in [RunPools -> Holding]
    BY <2>2, <2>3
  <2>5. QED
    BY <2>1, <2>4
<1>11. QED
  BY <1>1, <1>8, <1>9, <1>10 DEF ResultsInv

LEMMA FinalizeStep == ASSUME ResultsInv, Finalize PROVE ResultsInv'
<1>1. PICK A : A = {[pool |-> p, time |-> barNo, type |-> "risk_event", no |-> 0, order |-> 0, trade |-> 0] :
                     p \in {p \in RunPools : holdings[p] # NotHeld}}
  OBVIOUS
<1>2. /\ signalRows' = signalRows \cup A /\ finished' = TRUE /\ holdings' = holdings /\ numbered' = numbered /\ barNo' = barNo
      /\ tradeRows' = tradeRows \cup {Written(p, 0, "none", {}) : p \in {p \in RunPools : holdings[p] # NotHeld}}
  BY <1>1 DEF Finalize
<1>3. tradeRows' = Positions
  BY <1>2 DEF Positions, PositionsOf, OpenRow, Written
<1>4. Positions' = Positions
  BY <1>2, <1>3 DEF Positions, PositionsOf
<1>5. barNo \in Nat /\ Story(Positions, signalRows, barNo)
  BY DEF ResultsInv, Story
<1>6. A \in SUBSET Shown /\ \A s \in A : Aside(s) /\ s.time <= barNo
  BY <1>1, <1>5 DEF Shown, Aside
<1>7. Story(Positions, signalRows \cup A, barNo)
  BY <1>5, <1>6, StoryGoesOn
<1>8. QED
  BY <1>2, <1>3, <1>4, <1>7 DEF ResultsInv

LEMMA ResultsInvStep == ResultsInv /\ [ResultsNext]_rvars => ResultsInv'
<1> SUFFICES ASSUME ResultsInv, [ResultsNext]_rvars PROVE ResultsInv'
  OBVIOUS
<1>1. CASE NextTime
  <2>1. Story(Positions, signalRows \cup {}, barNo + 1)
    <3>1. PICK P, S, now, A : P = Positions /\ S = signalRows /\ now = barNo /\ A = {}
      OBVIOUS
    <3>2. Story(P, S, now) /\ now \in Nat /\ A \in SUBSET Shown /\ \A s \in A : Aside(s) /\ s.time <= now + 1
      BY <3>1 DEF ResultsInv, Story
    <3>3. now + 1 \in Nat /\ now <= now + 1
      BY <3>2
    <3>4. Story(P, S \cup A, now + 1)
      BY <3>2, <3>3, StoryGoesOn
    <3>5. QED
      BY <3>1, <3>4
  <2>2. /\ Positions' = Positions /\ barNo' = barNo + 1 /\ signalRows' = signalRows \cup {} /\ holdings' = holdings
        /\ numbered' = numbered /\ finished' = finished /\ tradeRows' = tradeRows
    BY <1>1 DEF NextTime, Positions
  <2>3. QED
    BY <2>1, <2>2 DEF ResultsInv
<1>2. CASE UNCHANGED rvars
  BY <1>2 DEF rvars, ResultsInv, Positions
<1>3. QED
  BY <1>1, <1>2, OpenTradeStep, AddToStep, CloseTradeStep, TakeOverStep, FinalizeStep DEF ResultsNext

\* Whichever release wrote its rows, and whenever it is taken over, a run's positions of a pool
\* follow one another, and every signal tells of an event of one of them.
THEOREM ResultsInductive == ResultsSpec => []ResultsInv
<1>1. QED
  BY ResultsInvInit, ResultsInvStep, PTL DEF ResultsSpec

\* The API numbers a trade by its place, whether its row has the number or not.
LEMMA RankIs ==
  ASSUME ResultsInv, NEW t \in tradeRows, NEW C, C = {u \in tradeRows : u.pool = t.pool}
  PROVE  /\ TradeNo(t) = Place(Positions, t) /\ TradeNo(t) = Rank(t)
         /\ Rank(t) = Below({u.entry : u \in C}, t.entry) /\ t \in C
<1>1. PICK P : P = Positions
  OBVIOUS
<1>2. Story(P, signalRows, barNo) /\ tradeRows \subseteq P
  BY <1>1 DEF ResultsInv, Positions, PositionsOf
<1>3. PICK A : A = {u \in tradeRows : u.pool = t.pool /\ u.entry <= t.entry}
  OBVIOUS
<1>4. A \in SUBSET P /\ \A u \in A : u.pool = t.pool
  BY <1>2, <1>3
<1>5. Rank(t) = Cardinality({u.entry : u \in A})
  BY <1>2, <1>3, <1>4, CountByEntry DEF Rank
<1>6. ASSUME NEW u \in P, u.pool = t.pool, u.entry <= t.entry PROVE u \in tradeRows
  <2>1. ASSUME u \notin tradeRows PROVE FALSE
    <3>1. ~finished
      BY <1>1, <2>1 DEF ResultsInv
    <3>2. t.exit # 0
      BY <3>1 DEF ResultsInv
    <3>3. u.exit = 0
      BY <1>1, <2>1 DEF Positions, PositionsOf, OpenRow
    <3>4. After(t, u)
      BY <1>2, <1>6, <3>2, <3>3 DEF Story, Follow, After
    <3>5. t \in P /\ t.entry \in Nat /\ t.exit \in Nat /\ u.entry \in Nat /\ t.entry <= t.exit
      BY <1>2, <3>2, EntryTells DEF Story, Lived
    <3>6. QED
      BY <1>6, <3>4, <3>5 DEF After
  <2>2. QED
    BY <2>1
<1>7. {u.entry : u \in A} = {e \in Entries(P, t.pool) : e <= t.entry}
  BY <1>2, <1>3, <1>6 DEF Entries
<1>8. {u.entry : u \in A} = {e \in {u.entry : u \in C} : e <= t.entry}
  BY <1>3
<1>9. Rank(t) = Place(P, t) /\ Rank(t) = Below({u.entry : u \in C}, t.entry)
  BY <1>5, <1>7, <1>8 DEF Place, Below
<1>10. Lived(P, t, barNo)
  BY <1>2 DEF Story
<1>11. ~ \E u \in tradeRows \ {t} : u.pool = t.pool /\ u.entry = t.entry
  BY <1>2, EntryTells
<1>12. TradeNo(t) = Place(P, t)
  BY <1>9, <1>10, <1>11 DEF TradeNo, Lived
<1>13. QED
  BY <1>1, <1>9, <1>12

\* Places of a pool are in the order of the entries.
LEMMA PlacesInOrder ==
  ASSUME NEW P, NEW S, NEW now, Story(P, S, now), NEW t \in P, NEW u \in P, t.pool = u.pool
  PROVE  (t.entry < u.entry <=> Place(P, t) < Place(P, u)) /\ (Place(P, t) = Place(P, u) => t = u)
<1>1. PICK E : E = Entries(P, t.pool)
  OBVIOUS
<1>2. E \in SUBSET Nat /\ IsFiniteSet(E)
  BY <1>1, EntriesFinite
<1>3. PICK x, y : x = t.entry /\ y = u.entry
  OBVIOUS
<1>4. x \in E /\ y \in E /\ Place(P, t) = Below(E, x) /\ Place(P, u) = Below(E, y)
  BY <1>1, <1>3 DEF Entries, Place
<1>5. /\ Cardinality(E) \in Nat /\ Below(E, x) \in 1..Cardinality(E) /\ Below(E, y) \in 1..Cardinality(E)
      /\ (x < y => Below(E, x) < Below(E, y)) /\ (y < x => Below(E, y) < Below(E, x))
  BY <1>2, <1>4, Ranked
<1>6. x \in Nat /\ y \in Nat /\ Below(E, x) \in Nat /\ Below(E, y) \in Nat
  BY <1>2, <1>4, <1>5
<1>7. x = y => t = u
  BY <1>3, EntryTells
<1>8. (x < y <=> Below(E, x) < Below(E, y)) /\ (Below(E, x) = Below(E, y) => x = y)
  BY <1>5, <1>6
<1>9. QED
  BY <1>3, <1>4, <1>7, <1>8

Own(s) == {t \in tradeRows : t.pool = s.pool /\ t.entry = s.trade}
LEMMA CandidateIs ==
  ASSUME ResultsInv, NEW s \in signalRows, NEW t \in tradeRows, t.pool = s.pool
  PROVE  (IF s.no # 0 THEN TradeNo(t) = s.no
          ELSE CASE s.type = "entry" -> t.entry = s.time
                 [] s.type = "add" -> s.time \in t.adds
                 [] s.type \in Exits -> t.reason = s.type /\ t.exit = s.time
                 [] OTHER -> FALSE) <=> t.entry = s.trade
<1>1. PICK P : P = Positions
  OBVIOUS
<1>2. Story(P, signalRows, barNo) /\ t \in P /\ TradeNo(t) = Place(P, t)
  BY <1>1, RankIs DEF ResultsInv, Positions, PositionsOf
<1>3. CASE Aside(s)
  <2>1. t.entry # 0
    BY <1>2, EntryTells
  <2>2. QED
    BY <1>3, <2>1 DEF Aside, Exits, NormalExits
<1>4. CASE \E u \in P : Tells(P, s, u)
  <2>1. PICK u \in P : Tells(P, s, u)
    BY <1>4
  <2>2. u.pool = t.pool /\ (t.entry = s.trade <=> t = u)
    BY <1>2, <2>1, EntryTells DEF Tells
  <2>3. CASE s.no # 0
    <3>1. s.no = Place(P, u)
      BY <2>1, <2>3 DEF Tells
    <3>2. TradeNo(t) = s.no <=> t = u
      BY <1>2, <2>2, <3>1, PlacesInOrder
    <3>3. QED
      BY <2>2, <2>3, <3>2
  <2>4. CASE s.no = 0
    <3>1. /\ Lived(P, t, barNo) /\ Lived(P, u, barNo) /\ (t = u \/ After(t, u) \/ After(u, t))
          /\ t.entry \in Nat /\ t.exit \in Nat /\ u.entry \in Nat /\ u.exit \in Nat
          /\ t.adds \in SUBSET Nat /\ u.adds \in SUBSET Nat
      BY <1>2, <2>2, EntryTells DEF Story, Follow
    <3>2. CASE s.type = "entry"
      BY <2>1, <2>4, <3>2 DEF Tells, Exits, NormalExits
    <3>3. CASE s.type = "add"
      <4>1. s.time \in u.adds
        BY <2>1, <3>3 DEF Tells, Exits, NormalExits
      <4>2. ASSUME s.time \in t.adds, t # u PROVE FALSE
        <5>1. s.time \in Nat /\ t.entry < s.time /\ u.entry < s.time
              /\ (t.exit # 0 => s.time <= t.exit) /\ (u.exit # 0 => s.time <= u.exit)
          BY <3>1, <4>1, <4>2 DEF Lived
        <5>2. QED
          BY <3>1, <4>2, <5>1 DEF After
      <4>3. s.time \in t.adds <=> t.entry = s.trade
        BY <2>2, <4>1, <4>2
      <4>4. ~(s.no # 0) /\ s.type = "add" /\ s.type # "entry"
        BY <2>4, <3>3
      <4>5. QED
        BY <2>4, <3>3, <4>3 DEF Exits, NormalExits
    <3>4. CASE s.type \in Exits
      <4>1. s.type = u.reason /\ s.time = u.exit /\ u.exit # 0 /\ u.entry <= u.exit
        BY <2>1, <3>1, <3>4 DEF Tells, Lived, Exits, NormalExits
      <4>2. ASSUME t.exit = s.time, t # u PROVE FALSE
        <5>1. t.entry <= t.exit
          BY <3>1, <4>1, <4>2 DEF Lived
        <5>2. QED
          BY <3>1, <4>1, <4>2, <5>1 DEF After
      <4>3. t.reason = s.type /\ t.exit = s.time <=> t = u
        BY <4>1, <4>2
      <4>4. s.type # "entry" /\ s.type # "add"
        BY <3>4 DEF Exits, NormalExits
      <4>5. QED
        BY <2>2, <2>4, <3>4, <4>3, <4>4
    <3>5. QED
      BY <2>1, <3>2, <3>3, <3>4 DEF Tells
  <2>5. QED
    BY <2>3, <2>4
<1>5. QED
  BY <1>2, <1>3, <1>4 DEF Story

LEMMA TradeOfIs == ASSUME ResultsInv, NEW s \in signalRows PROVE TradeOf(s) = Own(s) /\ \A t, u \in Own(s) : t = u
<1>1. Candidates(s) = Own(s)
  BY CandidateIs DEF Candidates, Own
<1>2. \A t, u \in Own(s) : t = u
  BY EntryTells DEF Own, ResultsInv, Positions, PositionsOf
<1>3. PICK O : O = Own(s)
  OBVIOUS
<1>4. CASE O = {}
  <2>1. Cardinality(O) = 0
    BY <1>4, FS_EmptySet
  <2>2. QED
    BY <1>1, <1>2, <1>3, <1>4, <2>1 DEF TradeOf
<1>5. CASE O # {}
  <2>1. PICK t : O = {t}
    BY <1>2, <1>3, <1>5
  <2>2. Cardinality(O) = 1
    BY <2>1, FS_Singleton
  <2>3. QED
    BY <1>1, <1>2, <1>3, <2>2 DEF TradeOf
<1>6. QED
  BY <1>4, <1>5

\* The events of a trade are counted 1, 2, .. by the signals that tell of it.
LEMMA EventsCounted ==
  ASSUME ResultsInv, NEW t \in tradeRows, NEW O, O = {s \in signalRows : TradeOf(s) = {t}}
  PROVE  {EventOrder(s, t) : s \in O} = 1..Cardinality(O)
<1>1. PICK P : P = Positions
  OBVIOUS
<1>2. Story(P, signalRows, barNo) /\ t \in P
  BY <1>1 DEF ResultsInv, Positions, PositionsOf
<1>3. PICK A : A = t.adds
  OBVIOUS
<1>4. PICK k : k = Cardinality(A)
  OBVIOUS
<1>5. Lived(P, t, barNo) /\ Told(P, signalRows, t) /\ Once(signalRows) /\ A \in SUBSET Nat /\ barNo \in Nat
  BY <1>2, <1>3, EntryTells DEF Story
<1>6. IsFiniteSet(A)
  <2>1. \A a \in A : a <= barNo
    BY <1>3, <1>5 DEF Lived
  <2>2. QED
    BY <1>5, <2>1, FS_BoundedSetOfNaturals
<1>7. /\ k \in Nat /\ (\A a \in A : Below(A, a) \in 1..k) /\ {Below(A, a) : a \in A} = 1..k
      /\ \A a, b \in A : a < b => Below(A, a) < Below(A, b)
  BY <1>4, <1>5, <1>6, Ranked
<1>8. ASSUME NEW s \in signalRows PROVE s \in O <=> Tells(P, s, t)
  <2>1. TradeOf(s) = {t} <=> s.pool = t.pool /\ s.trade = t.entry
    BY TradeOfIs DEF Own
  <2>2. Tells(P, s, t) => s.pool = t.pool /\ s.trade = t.entry
    BY DEF Tells
  <2>3. ASSUME s.pool = t.pool, s.trade = t.entry PROVE Tells(P, s, t)
    <3>1. ~Aside(s)
      BY <1>2, <2>3, EntryTells DEF Aside
    <3>2. PICK u \in P : Tells(P, s, u)
      BY <1>2, <3>1 DEF Story
    <3>3. u = t
      <4>1. u.pool = t.pool /\ u.entry = t.entry
        BY <2>3, <3>2 DEF Tells
      <4>2. QED
        BY <1>2, <4>1, EntryTells
    <3>4. QED
      BY <3>2, <3>3
  <2>4. QED
    BY <2>1, <2>2, <2>3
<1>9. ASSUME NEW s \in O
      PROVE  \/ s.type = "entry" /\ s.time = t.entry /\ EventOrder(s, t) = 1
             \/ s.type = "add" /\ s.time \in A /\ EventOrder(s, t) = Below(A, s.time) + 1
             \/ s.type \in Exits /\ s.type = t.reason /\ s.time = t.exit /\ t.exit # 0 /\ EventOrder(s, t) = k + 2
  <2>1. Tells(P, s, t)
    BY <1>8
  <2>2. CASE s.type = "entry"
    <3>1. s.time = t.entry /\ s.order \in {0, 1}
      BY <2>1, <2>2 DEF Tells, Exits, NormalExits
    <3>2. QED
      BY <2>2, <3>1 DEF EventOrder
  <2>3. CASE s.type = "add"
    <3>1. s.time \in A /\ s.order \in {0, Turn(t, s.time)}
      BY <1>3, <2>1, <2>3 DEF Tells, Exits, NormalExits
    <3>2. Turn(t, s.time) = Below(A, s.time) + 1 /\ Below(A, s.time) = Cardinality({a \in t.adds : a <= s.time})
      BY <1>3 DEF Turn, Below
    <3>3. QED
      BY <2>3, <3>1, <3>2 DEF EventOrder
  <2>4. CASE s.type \in Exits
    <3>1. s.type = t.reason /\ s.time = t.exit /\ t.exit # 0 /\ s.order \in {0, k + 2} /\ s.type # "entry" /\ s.type # "add"
      BY <1>3, <1>4, <2>1, <2>4 DEF Tells, Exits, NormalExits
    <3>2. k = Cardinality(t.adds)
      BY <1>3, <1>4
    <3>3. QED
      BY <2>4, <3>1, <3>2 DEF EventOrder
  <2>5. QED
    BY <2>1, <2>2, <2>3, <2>4 DEF Tells
<1>10. PICK n \in Nat : n = (IF t.exit = 0 THEN k + 1 ELSE k + 2)
  BY <1>7
<1>11. ASSUME NEW s \in O PROVE EventOrder(s, t) \in 1..n
  <2>1. CASE s.type = "entry"
    BY <1>7, <1>9, <1>10, <2>1 DEF Exits, NormalExits
  <2>2. CASE s.type = "add"
    <3>1. Below(A, s.time) \in 1..k /\ EventOrder(s, t) = Below(A, s.time) + 1
      BY <1>7, <1>9, <2>2 DEF Exits, NormalExits
    <3>2. QED
      BY <1>7, <1>10, <3>1
  <2>3. CASE s.type \in Exits
    BY <1>7, <1>9, <1>10, <2>3 DEF Exits, NormalExits
  <2>4. QED
    BY <1>9, <2>1, <2>2, <2>3
<1>12. ASSUME NEW m \in 1..n PROVE \E s \in O : EventOrder(s, t) = m
  <2>1. CASE m = 1
    <3>1. PICK s \in signalRows : Tells(P, s, t) /\ s.type = "entry"
      BY <1>5 DEF Told
    <3>2. s \in O /\ EventOrder(s, t) = 1
      BY <1>8, <1>9, <3>1 DEF Exits, NormalExits
    <3>3. QED
      BY <2>1, <3>2
  <2>2. CASE m - 1 \in 1..k
    <3>1. PICK a \in A : Below(A, a) = m - 1
      BY <1>7, <2>2
    <3>2. PICK s \in signalRows : Tells(P, s, t) /\ s.type = "add" /\ s.time = a
      BY <1>3, <1>5 DEF Told
    <3>3. s \in O /\ EventOrder(s, t) = Below(A, a) + 1
      BY <1>8, <1>9, <3>2 DEF Exits, NormalExits
    <3>4. QED
      BY <3>1, <3>3
  <2>3. CASE m = k + 2
    <3>1. t.exit # 0
      BY <1>7, <1>10, <2>3
    <3>2. PICK s \in signalRows : Tells(P, s, t) /\ s.type \in Exits
      BY <1>5, <3>1 DEF Told
    <3>3. s \in O /\ EventOrder(s, t) = k + 2
      BY <1>8, <1>9, <3>2 DEF Exits, NormalExits
    <3>4. QED
      BY <2>3, <3>3
  <2>4. QED
    BY <1>7, <1>10, <2>1, <2>2, <2>3
<1>13. ASSUME NEW r \in O, NEW s \in O, EventOrder(r, t) = EventOrder(s, t) PROVE r = s
  <2>1. r \in signalRows /\ s \in signalRows /\ r.pool = s.pool
    BY <1>8 DEF Tells
  <2>2. r.type = s.type /\ r.time = s.time /\ r.type # "risk_event"
    <3>1. CASE r.type = "entry"
      <4>1. EventOrder(s, t) = 1 /\ r.time = t.entry
        BY <1>9, <1>13, <3>1 DEF Exits, NormalExits
      <4>2. s.type # "add"
        <5>1. s.type = "add" => Below(A, s.time) \in 1..k /\ EventOrder(s, t) = Below(A, s.time) + 1
          BY <1>7, <1>9 DEF Exits, NormalExits
        <5>2. QED
          BY <1>7, <4>1, <5>1
      <4>3. s.type \notin Exits
        BY <1>7, <1>9, <4>1 DEF Exits, NormalExits
      <4>4. QED
        BY <1>9, <3>1, <4>1, <4>2, <4>3
    <3>2. CASE r.type = "add"
      <4>1. r.time \in A /\ Below(A, r.time) \in 1..k /\ EventOrder(s, t) = Below(A, r.time) + 1
        BY <1>7, <1>9, <1>13, <3>2 DEF Exits, NormalExits
      <4>2. EventOrder(s, t) # 1 /\ EventOrder(s, t) # k + 2
        BY <1>7, <4>1
      <4>3. s.type = "add" /\ s.time \in A /\ EventOrder(s, t) = Below(A, s.time) + 1
        BY <1>9, <4>2
      <4>4. Below(A, s.time) \in 1..k /\ Below(A, r.time) = Below(A, s.time)
        BY <1>7, <4>1, <4>3
      <4>5. ~(r.time < s.time) /\ ~(s.time < r.time)
        BY <1>7, <4>1, <4>3, <4>4
      <4>6. r.time \in Nat /\ s.time \in Nat
        BY <1>5, <4>1, <4>3
      <4>7. QED
        BY <3>2, <4>3, <4>5, <4>6
    <3>3. CASE r.type \in Exits
      <4>1. EventOrder(s, t) = k + 2 /\ r.type = t.reason /\ r.time = t.exit
        BY <1>9, <1>13, <3>3 DEF Exits, NormalExits
      <4>2. s.type # "add"
        <5>1. s.type = "add" => Below(A, s.time) \in 1..k /\ EventOrder(s, t) = Below(A, s.time) + 1
          BY <1>7, <1>9 DEF Exits, NormalExits
        <5>2. QED
          BY <1>7, <4>1, <5>1
      <4>3. s.type # "entry"
        BY <1>7, <1>9, <4>1 DEF Exits, NormalExits
      <4>4. QED
        BY <1>9, <3>3, <4>1, <4>2, <4>3 DEF Exits, NormalExits
    <3>4. QED
      BY <1>9, <3>1, <3>2, <3>3
  <2>3. QED
    BY <1>5, <2>1, <2>2 DEF Once
<1>14. Cardinality(O) = n
  <2>1. PICK f : f = [s \in O |-> EventOrder(s, t)]
    OBVIOUS
  <2>2. PICK N : N = 1..n
    OBVIOUS
  <2>3. f \in [O -> N] /\ (\A m \in N : \E s \in O : f[s] = m) /\ \A r, s \in O : f[r] = f[s] => r = s
    BY <1>11, <1>12, <1>13, <2>1, <2>2
  <2>4. f \in Injection(O, N) /\ f \in Surjection(O, N)
    BY <2>3 DEF Injection, Surjection, IsInjective
  <2>5. IsFiniteSet(N) /\ Cardinality(N) = n
    BY <1>10, <2>2, FS_Interval
  <2>6. Cardinality(O) = Cardinality(N)
    BY <2>4, <2>5, FS_Injection
  <2>7. QED
    BY <2>5, <2>6
<1>15. QED
  BY <1>11, <1>12, <1>14

LEMMA SignalsFind == ResultsInv => SignalsFindTheirTrade
<1> SUFFICES ASSUME ResultsInv PROVE SignalsFindTheirTrade
  OBVIOUS
<1> PICK of : of = [s \in signalRows |-> TradeOf(s)]
  OBVIOUS
<1> PICK own : own = [t \in tradeRows |-> {s \in signalRows : of[s] = {t}}]
  OBVIOUS
<1>1. \A s \in signalRows : of[s] = {t \in tradeRows : t.pool = s.pool /\ t.entry = s.trade}
  BY TradeOfIs DEF Own
<1>2. ASSUME NEW t \in tradeRows, NEW u \in tradeRows, t.pool = u.pool
      PROVE  t.entry < u.entry <=> TradeNo(t) < TradeNo(u)
  <2>1. TradeNo(t) = Place(Positions, t) /\ TradeNo(u) = Place(Positions, u)
    BY RankIs
  <2>2. PICK P : P = Positions
    OBVIOUS
  <2>3. Story(P, signalRows, barNo) /\ t \in P /\ u \in P
    BY <2>2 DEF ResultsInv, Positions, PositionsOf
  <2>4. t.entry < u.entry <=> Place(P, t) < Place(P, u)
    BY <1>2, <2>3, PlacesInOrder
  <2>5. QED
    BY <2>1, <2>2, <2>4
<1>3. ASSUME NEW p \in RunPools PROVE {TradeNo(t) : t \in {u \in tradeRows : u.pool = p}} = 1..ClosedIn(p)
  <2>1. PICK C : C = {u \in tradeRows : u.pool = p}
    OBVIOUS
  <2>2. PICK E : E = {u.entry : u \in C}
    OBVIOUS
  <2>3. PICK P : P = Positions
    OBVIOUS
  <2>4. Story(P, signalRows, barNo) /\ C \in SUBSET P /\ \A t \in C : t.pool = p
    BY <2>1, <2>3 DEF ResultsInv, Positions, PositionsOf
  <2>5. Cardinality(C) = Cardinality(E) /\ IsFiniteSet(E)
    BY <2>2, <2>4, CountByEntry
  <2>6. E \in SUBSET Nat
    BY <2>2, <2>4, EntryTells
  <2>7. {Below(E, x) : x \in E} = 1..Cardinality(E)
    BY <2>5, <2>6, Ranked
  <2>8. ASSUME NEW t \in C PROVE TradeNo(t) = Below(E, t.entry)
    <3>1. t \in tradeRows /\ C = {u \in tradeRows : u.pool = t.pool}
      BY <2>1
    <3>2. QED
      BY <2>2, <3>1, RankIs
  <2>9. {TradeNo(t) : t \in C} = {Below(E, x) : x \in E}
    BY <2>2, <2>8
  <2>10. ClosedIn(p) = Cardinality(C)
    BY <2>1 DEF ClosedIn
  <2>11. QED
    BY <2>1, <2>5, <2>7, <2>9, <2>10
<1>4. ASSUME NEW t \in tradeRows PROVE {EventOrder(s, t) : s \in own[t]} = 1..Cardinality(own[t])
  <2>1. own[t] = {s \in signalRows : TradeOf(s) = {t}}
    OBVIOUS
  <2>2. PICK O : O = own[t]
    OBVIOUS
  <2>3. {EventOrder(s, t) : s \in O} = 1..Cardinality(O)
    BY <2>1, <2>2, EventsCounted
  <2>4. QED
    BY <2>2, <2>3
<1>5. QED
  BY <1>1, <1>2, <1>3, <1>4 DEF SignalsFindTheirTrade

\* The results of the pools and of the tokens are groups of those of the trades.
LEMMA RunIsItsTrades ==
  ASSUME ResultsInv, NEW includeEnd \in BOOLEAN, NEW types
  PROVE  RunRealized(includeEnd, types) = Total({t \in SelectedTrades(includeEnd, types) : t.exit # 0})
<1> DEFINE PoolOfT(p) == PoolTrades(p, includeEnd, types)
           R(p) == Realized(p, includeEnd, types)
<1>1. PICK T : T = SelectedTrades(includeEnd, types)
  OBVIOUS
<1>2. PICK X : X = {t \in T : t.exit # 0}
  OBVIOUS
<1>3. T \subseteq tradeRows
  BY <1>1 DEF SelectedTrades
<1>4. ASSUME NEW p PROVE PoolOfT(p) = {t \in T : t.pool = p}
  <2>1. CASE types # {} \/ ~includeEnd
    BY <1>1, <2>1 DEF PoolTrades
  <2>2. CASE types = {} /\ includeEnd
    <3>1. T = tradeRows
      BY <1>1, <2>2 DEF SelectedTrades
    <3>2. QED
      BY <2>2, <3>1 DEF PoolTrades
  <2>3. QED
    BY <2>1, <2>2
<1>5. PICK P : P = Positions
  OBVIOUS
<1>6. P \subseteq Kept /\ IsFiniteSet(P) /\ X \in SUBSET P
  BY <1>2, <1>3, <1>5 DEF ResultsInv, Story, Positions, PositionsOf
<1>7. IsFiniteSet(X) /\ \A t \in X : t.pnl \in Possible /\ t.pool \in RunPools
  BY <1>6, FS_Subset DEF Kept
<1>8. PICK f : f = [t \in X |-> t.pnl]
  OBVIOUS
<1>9. f \in [X -> Possible] /\ Total(X) = SumOf(f)
  BY <1>7, <1>8 DEF Total
<1>10. PICK AllP : AllP = {p \in RunPools : types # {} => PoolOfT(p) # {}}
  OBVIOUS
<1>11. IsFiniteSet(AllP)
  <2>1. AllP \in SUBSET RunPools /\ IsFiniteSet(RunPools)
    BY <1>10, ResultsAssumption
  <2>2. QED
    BY <2>1, FS_Subset
<1>12. PICK key : key = [t \in X |-> t.pool]
  OBVIOUS
<1>13. key \in [X -> AllP]
  <2>1. ASSUME NEW t \in X PROVE t.pool \in AllP
    <3>1. t \in PoolOfT(t.pool)
      BY <1>2, <1>4
    <3>2. QED
      BY <1>7, <1>10, <3>1
  <2>2. QED
    BY <1>12, <2>1
<1>14. PICK g : g = [p \in AllP |-> R(p)]
  OBVIOUS
<1>15. ASSUME NEW p \in AllP PROVE R(p) = SumOf(PartOf(f, key, p))
  <2>1. PICK Y : Y = {t \in PoolOfT(p) : t.exit # 0}
    OBVIOUS
  <2>2. R(p) = SumOf([t \in Y |-> t.pnl])
    BY <2>1 DEF Realized, Total
  <2>3. Y = {t \in X : key[t] = p} /\ DOMAIN f = X
    BY <1>2, <1>4, <1>8, <1>12, <2>1
  <2>4. PartOf(f, key, p) = [t \in Y |-> f[t]]
    BY <2>3 DEF PartOf
  <2>5. \A t \in Y : f[t] = t.pnl
    BY <1>8, <2>3
  <2>6. [t \in Y |-> f[t]] = [t \in Y |-> t.pnl]
    BY <2>5
  <2>7. QED
    BY <2>2, <2>4, <2>6
<1>16. g = [p \in AllP |-> SumOf(PartOf(f, key, p))]
  BY <1>14, <1>15
<1>17. g \in [AllP -> Possible] /\ SumOf(g) = SumOf(f)
  BY <1>7, <1>9, <1>11, <1>13, <1>16, SumOfParts
<1>18. PICK Cas : Cas = {ca \in {p.ca : p \in RunPools} : CaPools(ca, includeEnd, types) # {}}
  OBVIOUS
<1>19. \A ca : CaPools(ca, includeEnd, types) = {p \in AllP : p.ca = ca}
  BY <1>10 DEF CaPools
<1>20. PICK token : token = [p \in AllP |-> p.ca]
  OBVIOUS
<1>21. token \in [AllP -> Cas] /\ \A ca \in Cas : \E p \in AllP : token[p] = ca
  <2>1. ASSUME NEW p \in AllP PROVE p.ca \in Cas
    <3>1. p \in CaPools(p.ca, includeEnd, types) /\ p \in RunPools
      BY <1>10, <1>19
    <3>2. QED
      BY <1>18, <3>1
  <2>2. ASSUME NEW ca \in Cas PROVE \E p \in AllP : token[p] = ca
    BY <1>18, <1>19, <1>20
  <2>3. QED
    BY <1>20, <2>1, <2>2
<1>22. IsFiniteSet(Cas)
  <2>1. token \in Surjection(AllP, Cas)
    BY <1>21 DEF Surjection
  <2>2. QED
    BY <1>11, <2>1, FS_Surjection
<1>23. PICK F : F = [ca \in Cas |-> CaRealized(ca, includeEnd, types)]
  OBVIOUS
<1>24. ASSUME NEW ca \in Cas PROVE CaRealized(ca, includeEnd, types) = SumOf(PartOf(g, token, ca))
  <2>1. PICK Y : Y = CaPools(ca, includeEnd, types)
    OBVIOUS
  <2>2. CaRealized(ca, includeEnd, types) = SumOf([p \in Y |-> R(p)])
    BY <2>1 DEF CaRealized
  <2>3. Y = {p \in AllP : token[p] = ca} /\ DOMAIN g = AllP
    BY <1>14, <1>19, <1>20, <2>1
  <2>4. PartOf(g, token, ca) = [p \in Y |-> g[p]]
    BY <2>3 DEF PartOf
  <2>5. \A p \in Y : g[p] = R(p)
    BY <1>14, <2>3
  <2>6. [p \in Y |-> g[p]] = [p \in Y |-> R(p)]
    BY <2>5
  <2>7. QED
    BY <2>2, <2>4, <2>6
<1>25. F = [ca \in Cas |-> SumOf(PartOf(g, token, ca))]
  BY <1>23, <1>24
<1>26. SumOf(F) = SumOf(g)
  BY <1>11, <1>17, <1>21, <1>22, <1>25, SumOfParts
<1>27. RunRealized(includeEnd, types) = SumOf(F)
  BY <1>18, <1>23 DEF RunRealized
<1>28. QED
  BY <1>1, <1>2, <1>9, <1>17, <1>26, <1>27

LEMMA SumsAreTheSame == ResultsInv => SumsAgree
<1> SUFFICES ASSUME ResultsInv, NEW includeEnd \in BOOLEAN, NEW types \in Filters
             PROVE  LET trades == SelectedTrades(includeEnd, types) shown == SelectedSignals(includeEnd, types) IN
                    /\ RunRealized(includeEnd, types) = Total({t \in trades : t.exit # 0})
                    /\ types = {} => RunRealized(includeEnd, types) = NetPnl(includeEnd)
                    /\ \A s \in signalRows : (\E t \in trades : s.pool = t.pool /\ s.trade = t.entry) => s \in shown
  BY DEF SumsAgree
<1>1. RunRealized(includeEnd, types) = Total({t \in SelectedTrades(includeEnd, types) : t.exit # 0})
  BY RunIsItsTrades
<1>2. types = {} => RunRealized(includeEnd, types) = NetPnl(includeEnd)
  BY <1>1 DEF NetPnl
<1>3. ASSUME NEW s \in signalRows, NEW t \in SelectedTrades(includeEnd, types), s.pool = t.pool, s.trade = t.entry
      PROVE  s \in SelectedSignals(includeEnd, types)
  <2>1. t \in tradeRows
    BY DEF SelectedTrades
  <2>2. TradeOf(s) = {t}
    BY <1>3, <2>1, TradeOfIs DEF Own
  <2>3. QED
    BY <2>2 DEF SelectedSignals
<1>4. QED
  BY <1>1, <1>2, <1>3

\* Every signal is shown with the trade it belongs to as soon as that is written, trades and
\* their events are numbered 1, 2, .. in the order they happened, whichever release wrote the
\* rows; and the results of the tokens add up to those of the run, missing ones included.
THEOREM ResultsAlwaysAgree == ResultsSpec => []ResultsAgree
<1>1. ResultsInv => ResultsAgree
  BY SignalsFind, SumsAreTheSame DEF ResultsAgree
<1>2. QED
  BY <1>1, ResultsInductive, PTL

(* ------------------------- Ledger: what was dealt ------------------------- *)
LedgerRow ==
  [id : 1..MaxFills, ca : Coins, position : Nat, side : {"buy", "sell"}, reason : {"entry", "add", "exit"},
   time : Nat, qty : Int, gross : Int, cost : Int]
LedgerPosition == [id : Nat, qty : Nat, cost : Int, trades : Nat, entries : Nat]
(* A deal is a position from its entry to its exit: the number of the deal of   *)
(* its token, and the rows of its entry, of its addition and of its exit, as    *)
(* far as they are there.                                                       *)
NoRow == [id |-> 0, time |-> 0, qty |-> 0, gross |-> 0, cost |-> 0]
Amount(d) == d.entry.qty + d.add.qty
Paid(d) == d.entry.gross + d.entry.cost + (d.add.gross + d.add.cost)
Won(d) == d.exit.gross - d.exit.cost - Paid(d)
Exited(D) == {d \in D : d.exit # NoRow}
DealOf(d, F) ==
  /\ d \in [ca : Coins, no : Nat \ {0}, entry : F, add : F \cup {NoRow}, exit : F \cup {NoRow}]
  /\ d.entry.ca = d.ca /\ d.entry.side = "buy" /\ d.entry.reason = "entry" /\ d.entry.position \in {0, d.entry.id}
  /\ d.add # NoRow =>
       /\ d.add.ca = d.ca /\ d.add.side = "buy" /\ d.add.reason = "add" /\ d.add.position = d.entry.position
       /\ d.entry.time < d.add.time
  /\ d.exit # NoRow =>
       /\ d.exit.ca = d.ca /\ d.exit.side = "sell" /\ d.exit.reason = "exit" /\ d.exit.position = d.entry.position
       /\ d.entry.time < d.exit.time /\ d.add.time < d.exit.time /\ d.exit.qty = Amount(d)
  /\ Amount(d) > 0 /\ d.entry.qty > 0
Earlier(d, e) == d.no < e.no /\ d.exit # NoRow /\ d.exit.time < e.entry.time
(* Every row of F belongs to a deal; those of a token are numbered from 1 on    *)
(* and one is over before the next begins.                                      *)
Deals(D, F) ==
  /\ IsFiniteSet(D) /\ \A d \in D : DealOf(d, F)
  /\ \A f \in F : \E d \in D : f \in {d.entry, d.add, d.exit}
  /\ \A d, e \in D : d.ca = e.ca => d = e \/ Earlier(d, e) \/ Earlier(e, d)
  /\ \A d \in D : \A n \in 1..d.no : \E e \in D : e.ca = d.ca /\ e.no = n
(* The position p of a token is its last deal, if that one is open.             *)
LeftOpen(D, t, p, d) ==
  /\ d \in D /\ d.ca = t /\ d.exit = NoRow /\ d.no = p.trades + 1 /\ p.id = d.entry.position
  /\ p.qty = Amount(d) /\ p.cost = Paid(d) /\ p.entries = IF d.add = NoRow THEN 1 ELSE 2
HeldAs(D, t, p) ==
  /\ p \in LedgerPosition
  /\ IF p.qty = 0 THEN p = Flat(p.trades) /\ \A d \in D : d.ca = t => d.exit # NoRow /\ d.no <= p.trades
     ELSE \E d \in D : LeftOpen(D, t, p, d)
  /\ p.trades > 0 => \E d \in D : d.ca = t /\ d.no = p.trades
DealsBooked(D, F, pos, acc) ==
  /\ Deals(D, F) /\ (\A t \in Coins : HeldAs(D, t, pos[t]))
  /\ acc.pnl = SumFunction([d \in Exited(D) |-> Won(d)])
RowsKept(F, last) ==
  /\ IsFiniteSet(F) /\ F \subseteq LedgerRow /\ last \in Nat \ {0}
  /\ \A f \in F : f.time \in 1..last
  /\ \A f, g \in F : f.id = g.id \/ (f.ca = g.ca /\ f.time = g.time) => f = g
(* The positions with the number of their token's trades over all admissions.   *)
Whole == [t \in Coins |-> [position[t] EXCEPT !.trades = earlier[t] + @]]
LedgerInv ==
  /\ RowsKept(fills, bar) /\ identified \in BOOLEAN /\ account \in [cash : Int, pnl : Int]
  /\ position \in [Coins -> LedgerPosition] /\ earlier \in [Coins -> Nat]
  /\ account.cash + SumFunction([t \in Coins |-> Whole[t].cost]) = Funds + account.pnl
  /\ \E D : DealsBooked(D, fills, Whole, account)

LEMMA WholeIs ==
  ASSUME position \in [Coins -> LedgerPosition], earlier \in [Coins -> Nat]
  PROVE  /\ Whole \in [Coins -> LedgerPosition]
         /\ \A t \in Coins : /\ Whole[t].id = position[t].id /\ Whole[t].qty = position[t].qty
                             /\ Whole[t].cost = position[t].cost /\ Whole[t].entries = position[t].entries
                             /\ Whole[t].trades = earlier[t] + position[t].trades
<1>1. ASSUME NEW t \in Coins
      PROVE  /\ Whole[t] \in LedgerPosition /\ Whole[t].id = position[t].id /\ Whole[t].qty = position[t].qty
             /\ Whole[t].cost = position[t].cost /\ Whole[t].entries = position[t].entries
             /\ Whole[t].trades = earlier[t] + position[t].trades
  <2>1. PICK p \in LedgerPosition, n \in Nat : p = position[t] /\ n = earlier[t]
    OBVIOUS
  <2>2. Whole[t] = [p EXCEPT !.trades = n + @]
    BY <2>1 DEF Whole
  <2>3. QED
    BY <2>1, <2>2 DEF LedgerPosition
<1>2. QED
  BY <1>1 DEF Whole

\* One position changes: so does the whole of it.
LEMMA WholeChanges ==
  ASSUME position \in [Coins -> LedgerPosition], earlier \in [Coins -> Nat], NEW t \in Coins, NEW q \in LedgerPosition,
         position' = [position EXCEPT ![t] = q], earlier' = earlier, NEW r, r = [q EXCEPT !.trades = earlier[t] + @]
  PROVE  /\ Whole' = [Whole EXCEPT ![t] = r]
         /\ position' \in [Coins -> LedgerPosition] /\ earlier' \in [Coins -> Nat]
<1>1. ASSUME NEW u \in Coins PROVE Whole'[u] = IF u = t THEN r ELSE Whole[u]
  <2>1. Whole'[u] = [position'[u] EXCEPT !.trades = earlier'[u] + @]
    BY DEF Whole
  <2>2. CASE u = t
    BY <2>1, <2>2
  <2>3. CASE u # t
    <3>1. position'[u] = position[u] /\ earlier'[u] = earlier[u]
      BY <2>3
    <3>2. QED
      BY <2>1, <2>3, <3>1 DEF Whole
  <2>4. QED
    BY <2>2, <2>3
<1>2. Whole' = [u \in Coins |-> Whole'[u]] /\ Whole = [u \in Coins |-> Whole[u]]
  BY DEF Whole
<1>3. QED
  BY <1>1, <1>2

(* ----------------------- rows in the order of a fold ---------------------- *)
LEMMA RowsInOrder ==
  ASSUME RowsKept(fills, bar), NEW f \in fills, NEW g \in fills
  PROVE  /\ f.id \in Nat \ {0} /\ f.time \in Nat /\ ~(TakenAfter(f, g) /\ TakenAfter(g, f))
         /\ f = g \/ TakenAfter(f, g) \/ TakenAfter(g, f)
         /\ \A h \in fills : TakenAfter(f, g) /\ TakenAfter(g, h) => TakenAfter(f, h)
<1>1. ASSUME NEW h \in fills PROVE h.id \in Nat \ {0} /\ h.time \in Nat
  BY LedgerAssumption DEF RowsKept, LedgerRow
<1>2. f.id = g.id => f = g
  BY DEF RowsKept
<1>3. QED
  BY <1>1, <1>2 DEF TakenAfter

LEMMA LastIs ==
  ASSUME RowsKept(fills, bar), NEW F \in SUBSET fills, F # {}
  PROVE  LastTaken(F) \in F /\ \A g \in F : g = LastTaken(F) \/ TakenAfter(LastTaken(F), g)
<1> DEFINE Is(T, f) == f \in T /\ \A g \in T \ {f} : TakenAfter(f, g)
           Bad == {T \in SUBSET fills : T # {} /\ ~\E f \in T : Is(T, f)}
<1>1. ASSUME Bad # {} PROVE FALSE
  <2>1. Bad \in SUBSET SUBSET fills /\ IsFiniteSet(fills)
    BY DEF RowsKept
  <2>2. PICK T \in Bad : \A x \in T : T \ {x} \notin Bad
    <3> HIDE DEF Bad
    <3>1. QED
      BY <1>1, <2>1, SmallestOf
  <2>3. PICK x : x \in T
    BY <2>2
  <2>4. CASE T \ {x} = {}
    <3>1. Is(T, x)
      BY <2>3, <2>4
    <3>2. QED
      BY <2>2, <2>3, <3>1
  <2>5. CASE T \ {x} # {}
    <3>1. PICK m \in T \ {x} : Is(T \ {x}, m)
      BY <2>2, <2>3, <2>5
    <3>2. m \in fills /\ x \in fills /\ m # x
      BY <2>2, <2>3, <3>1
    <3>3. CASE TakenAfter(m, x)
      <4>1. Is(T, m)
        BY <3>1, <3>2, <3>3
      <4>2. QED
        BY <2>2, <3>1, <4>1
    <3>4. CASE TakenAfter(x, m)
      <4>1. ASSUME NEW g \in T \ {x} PROVE TakenAfter(x, g)
        <5>1. g \in fills /\ (g = m \/ TakenAfter(m, g))
          BY <2>2, <3>1
        <5>2. QED
          BY <3>2, <3>4, <5>1, RowsInOrder
      <4>2. Is(T, x)
        BY <2>3, <4>1
      <4>3. QED
        BY <2>2, <2>3, <4>2
    <3>5. QED
      BY <3>2, <3>3, <3>4, RowsInOrder
  <2>6. QED
    BY <2>4, <2>5
<1>2. \E f \in F : Is(F, f)
  BY <1>1
<1>3. QED
  BY <1>2 DEF LastTaken

\* What the recursions over the rows compute.
LEMMA BooksIs ==
  ASSUME RowsKept(fills, bar)
  PROVE  \A F \in SUBSET fills :
           Books[F] = IF F = {} THEN NoCycles ELSE TakeFill(Books[F \ {LastTaken(F)}], LastTaken(F))
<1> DEFINE Upto(n) == {F \in SUBSET fills : Cardinality(F) <= n}
           Fold(g, n) == g = [F \in Upto(n) |-> IF F = {} THEN NoCycles ELSE TakeFill(g[F \ {LastTaken(F)}], LastTaken(F))]
           Bad == {n \in Nat : ~\E g : Fold(g, n)}
<1>1. ASSUME NEW F \in SUBSET fills
      PROVE  IsFiniteSet(F) /\ Cardinality(F) \in Nat /\ (Cardinality(F) = 0 <=> F = {})
  BY FS_Subset, FS_CardinalityType, FS_EmptySet DEF RowsKept
<1>2. \E g : Fold(g, 0)
  <2>1. \A F \in Upto(0) : F = {}
    BY <1>1
  <2>2. PICK g : g = [F \in Upto(0) |-> NoCycles]
    OBVIOUS
  <2>3. Fold(g, 0)
    BY <2>1, <2>2
  <2>4. QED
    BY <2>3
<1>3. ASSUME NEW n \in Nat \ {0}, \E g : Fold(g, n - 1) PROVE \E g : Fold(g, n)
  <2>1. PICK g : Fold(g, n - 1)
    BY <1>3
  <2>2. PICK h : h = [F \in Upto(n) |-> IF F = {} THEN NoCycles ELSE TakeFill(g[F \ {LastTaken(F)}], LastTaken(F))]
    OBVIOUS
  <2>3. ASSUME NEW F \in Upto(n), F # {} PROVE h[F \ {LastTaken(F)}] = g[F \ {LastTaken(F)}]
    <3>1. PICK E : E = F \ {LastTaken(F)}
      OBVIOUS
    <3>2. LastTaken(F) \in F
      BY <1>1, <2>3, LastIs
    <3>3. Cardinality(E) = Cardinality(F) - 1
      BY <1>1, <3>1, <3>2, FS_RemoveElement
    <3>4. E \in Upto(n - 1) /\ E \in Upto(n)
      BY <1>1, <3>1, <3>3
    <3>5. h[E] = IF E = {} THEN NoCycles ELSE TakeFill(g[E \ {LastTaken(E)}], LastTaken(E))
      BY <2>2, <3>4
    <3>6. g[E] = IF E = {} THEN NoCycles ELSE TakeFill(g[E \ {LastTaken(E)}], LastTaken(E))
      BY <2>1, <3>4
    <3>7. QED
      BY <3>1, <3>5, <3>6
  <2>4. Fold(h, n)
    BY <2>2, <2>3
  <2>5. QED
    BY <2>4
<1>4. Bad = {}
  <2>1. ASSUME Bad # {} PROVE FALSE
    <3>1. Bad \in SUBSET Nat
      OBVIOUS
    <3>2. PICK n \in Bad : \A m \in Bad : n <= m
      <4> HIDE DEF Bad
      <4>1. QED
        BY <2>1, <3>1, MinIsLeast
    <3>3. n # 0
      BY <1>2
    <3>4. n - 1 \in Nat /\ n - 1 \notin Bad
      <4> HIDE DEF Bad
      <4>1. QED
        BY <3>1, <3>2, <3>3
    <3>5. \E g : Fold(g, n - 1)
      BY <3>4
    <3>6. QED
      BY <1>3, <3>2, <3>3, <3>5
  <2>2. QED
    BY <2>1
<1>5. PICK k \in Nat : k = Cardinality(fills)
  BY <1>1
<1>6. Upto(k) = SUBSET fills
  <2>1. ASSUME NEW F \in SUBSET fills PROVE Cardinality(F) <= k
    BY <1>5, FS_Subset DEF RowsKept
  <2>2. QED
    BY <2>1
<1>7. PICK g : Fold(g, k)
  <2>1. k \notin Bad
    BY <1>4
  <2>2. QED
    BY <1>5, <2>1
<1>8. g = [F \in SUBSET fills |-> IF F = {} THEN NoCycles ELSE TakeFill(g[F \ {LastTaken(F)}], LastTaken(F))]
  BY <1>6, <1>7
<1>9. Books = [F \in SUBSET fills |-> IF F = {} THEN NoCycles ELSE TakeFill(Books[F \ {LastTaken(F)}], LastTaken(F))]
  BY <1>8 DEF Books
<1>10. QED
  BY <1>9

LEMMA MarkersIs ==
  ASSUME RowsKept(fills, bar)
  PROVE  \A F \in SUBSET fills :
           Markers[F] = IF F = {} THEN NoMarkers ELSE Numbered(Markers[F \ {LastTaken(F)}], LastTaken(F))
<1> DEFINE Upto(n) == {F \in SUBSET fills : Cardinality(F) <= n}
           Fold(g, n) == g = [F \in Upto(n) |-> IF F = {} THEN NoMarkers ELSE Numbered(g[F \ {LastTaken(F)}], LastTaken(F))]
           Bad == {n \in Nat : ~\E g : Fold(g, n)}
<1>1. ASSUME NEW F \in SUBSET fills
      PROVE  IsFiniteSet(F) /\ Cardinality(F) \in Nat /\ (Cardinality(F) = 0 <=> F = {})
  BY FS_Subset, FS_CardinalityType, FS_EmptySet DEF RowsKept
<1>2. \E g : Fold(g, 0)
  <2>1. \A F \in Upto(0) : F = {}
    BY <1>1
  <2>2. PICK g : g = [F \in Upto(0) |-> NoMarkers]
    OBVIOUS
  <2>3. Fold(g, 0)
    BY <2>1, <2>2
  <2>4. QED
    BY <2>3
<1>3. ASSUME NEW n \in Nat \ {0}, \E g : Fold(g, n - 1) PROVE \E g : Fold(g, n)
  <2>1. PICK g : Fold(g, n - 1)
    BY <1>3
  <2>2. PICK h : h = [F \in Upto(n) |-> IF F = {} THEN NoMarkers ELSE Numbered(g[F \ {LastTaken(F)}], LastTaken(F))]
    OBVIOUS
  <2>3. ASSUME NEW F \in Upto(n), F # {} PROVE h[F \ {LastTaken(F)}] = g[F \ {LastTaken(F)}]
    <3>1. PICK E : E = F \ {LastTaken(F)}
      OBVIOUS
    <3>2. LastTaken(F) \in F
      BY <1>1, <2>3, LastIs
    <3>3. Cardinality(E) = Cardinality(F) - 1
      BY <1>1, <3>1, <3>2, FS_RemoveElement
    <3>4. E \in Upto(n - 1) /\ E \in Upto(n)
      BY <1>1, <3>1, <3>3
    <3>5. h[E] = IF E = {} THEN NoMarkers ELSE Numbered(g[E \ {LastTaken(E)}], LastTaken(E))
      BY <2>2, <3>4
    <3>6. g[E] = IF E = {} THEN NoMarkers ELSE Numbered(g[E \ {LastTaken(E)}], LastTaken(E))
      BY <2>1, <3>4
    <3>7. QED
      BY <3>1, <3>5, <3>6
  <2>4. Fold(h, n)
    BY <2>2, <2>3
  <2>5. QED
    BY <2>4
<1>4. Bad = {}
  <2>1. ASSUME Bad # {} PROVE FALSE
    <3>1. Bad \in SUBSET Nat
      OBVIOUS
    <3>2. PICK n \in Bad : \A m \in Bad : n <= m
      <4> HIDE DEF Bad
      <4>1. QED
        BY <2>1, <3>1, MinIsLeast
    <3>3. n # 0
      BY <1>2
    <3>4. n - 1 \in Nat /\ n - 1 \notin Bad
      <4> HIDE DEF Bad
      <4>1. QED
        BY <3>1, <3>2, <3>3
    <3>5. \E g : Fold(g, n - 1)
      BY <3>4
    <3>6. QED
      BY <1>3, <3>2, <3>3, <3>5
  <2>2. QED
    BY <2>1
<1>5. PICK k \in Nat : k = Cardinality(fills)
  BY <1>1
<1>6. Upto(k) = SUBSET fills
  <2>1. ASSUME NEW F \in SUBSET fills PROVE Cardinality(F) <= k
    BY <1>5, FS_Subset DEF RowsKept
  <2>2. QED
    BY <2>1
<1>7. PICK g : Fold(g, k)
  <2>1. k \notin Bad
    BY <1>4
  <2>2. QED
    BY <1>5, <2>1
<1>8. g = [F \in SUBSET fills |-> IF F = {} THEN NoMarkers ELSE Numbered(g[F \ {LastTaken(F)}], LastTaken(F))]
  BY <1>6, <1>7
<1>9. Markers = [F \in SUBSET fills |-> IF F = {} THEN NoMarkers ELSE Numbered(Markers[F \ {LastTaken(F)}], LastTaken(F))]
  BY <1>8 DEF Markers
<1>10. QED
  BY <1>9

(* --------------------- Ledger: deals as the rows tell them ----------------- *)
Initial(F) == F \in SUBSET fills /\ \A f \in F, g \in fills : TakenAfter(f, g) => g \in F
(* The rows F are those up to f, the next to take, which is e's.                *)
AtRow(D, F, f, e) ==
  /\ RowsKept(fills, bar) /\ Deals(D, fills) /\ Initial(F)
  /\ f \in F /\ \A g \in F : g = f \/ TakenAfter(f, g)
  /\ e \in D /\ f \in {e.entry, e.add, e.exit}
CycleOf(d, F) ==
  [id |-> d.entry.id, ca |-> d.ca, orders |-> {r.id : r \in {d.entry, d.add, d.exit} \cap F}, no |-> d.no,
   qty |-> IF d.exit \in F THEN 0 ELSE d.entry.qty + (IF d.add \in F THEN d.add.qty ELSE 0),
   cost |-> IF d.exit \in F THEN 0
            ELSE d.entry.gross + d.entry.cost + (IF d.add \in F THEN d.add.gross + d.add.cost ELSE 0),
   pnl |-> IF d.exit \in F THEN Won(d) ELSE 0, sold |-> IF d.exit \in F THEN d.exit.time ELSE 0,
   status |-> IF d.exit \in F THEN "closed" ELSE "open"]
Entered(D, F) == {d \in D : d.entry \in F}
(* k deals of t have begun.                                                     *)
Begun(k, D, t, F) ==
  /\ k \in Nat /\ \A d \in D : d.ca = t => (d.entry \in F <=> d.no <= k)
  /\ k > 0 => \E d \in D : d.ca = t /\ d.no = k
(* i is the open one of t's, if not 0.                                          *)
ActiveIs(i, t, w, D, F) ==
  IF i = 0 THEN \A d \in Entered(D, F) : d.ca = t => d.exit \in F ELSE w[i].ca = t /\ w[i].exit \notin F
(* The books b have the deals w, n of them, as the rows F leave them.           *)
Fits(b, n, w, D, F) ==
  /\ DOMAIN b = {"cycles", "active", "count", "incomplete"} /\ b.incomplete = 0
  /\ n \in Nat /\ w \in [1..n -> Entered(D, F)] /\ b.cycles = [i \in 1..n |-> CycleOf(w[i], F)]
  /\ \A i, j \in 1..n : w[i] = w[j] => i = j
  /\ \A d \in Entered(D, F) : \E i \in 1..n : w[i] = d
  /\ b.active \in [Coins -> 0..n] /\ b.count \in [Coins -> Nat]
  /\ \A t \in Coins : ActiveIs(b.active[t], t, w, D, F)
  /\ \A t \in Coins : Begun(b.count[t], D, t, F)

LEMMA RowTyped ==
  ASSUME RowsKept(fills, bar), NEW f \in fills \cup {NoRow}
  PROVE  /\ f.qty \in Int /\ f.gross \in Int /\ f.cost \in Int /\ f.time \in Nat /\ f.id \in Nat
         /\ (f.id = 0 <=> f = NoRow) /\ (f \in fills <=> f # NoRow)
<1>1. CASE f \in fills
  <2>1. f \in LedgerRow /\ MaxFills \in Nat /\ f.time \in 1..bar /\ bar \in Nat
    BY <1>1, LedgerAssumption DEF RowsKept
  <2>2. NoRow.id = 0
    BY DEF NoRow
  <2>3. QED
    BY <1>1, <2>1, <2>2 DEF LedgerRow
<1>2. CASE f = NoRow
  <2>1. NoRow \notin fills
    BY LedgerAssumption DEF RowsKept, LedgerRow, NoRow
  <2>2. QED
    BY <1>2, <2>1 DEF NoRow
<1>3. QED
  BY <1>1, <1>2

\* The parts of a deal.
LEMMA DealIs ==
  ASSUME NEW D, RowsKept(fills, bar), Deals(D, fills), NEW d \in D
  PROVE  /\ DealOf(d, fills) /\ d.ca \in Coins /\ d.no \in Nat \ {0} /\ d.entry \in fills
         /\ d.add \in fills \cup {NoRow} /\ d.exit \in fills \cup {NoRow}
         /\ d.entry.ca = d.ca /\ (d.add \in fills => d.add.ca = d.ca) /\ (d.exit \in fills => d.exit.ca = d.ca)
         /\ (d.add \in fills => d.entry.time < d.add.time)
         /\ (d.exit \in fills => d.entry.time < d.exit.time /\ d.add.time < d.exit.time)
<1>1. DealOf(d, fills)
  BY DEF Deals
<1>2. d \in [ca : Coins, no : Nat \ {0}, entry : fills, add : fills \cup {NoRow}, exit : fills \cup {NoRow}]
  BY <1>1 DEF DealOf
<1>3. NoRow \notin fills
  BY RowTyped
<1>4. QED
  BY <1>1, <1>2, <1>3 DEF DealOf

LEMMA TwoDeals ==
  ASSUME NEW D, RowsKept(fills, bar), Deals(D, fills), NEW d \in D, NEW e \in D,
         NEW f \in fills, f \in {d.entry, d.add, d.exit}, f \in {e.entry, e.add, e.exit}
  PROVE  d = e
<1>1. f.ca = d.ca /\ f.ca = e.ca
  BY DealIs
<1>2. d = e \/ Earlier(d, e) \/ Earlier(e, d)
  BY <1>1 DEF Deals
<1>3. ASSUME NEW x \in D, NEW y \in D, Earlier(x, y), f \in {x.entry, x.add, x.exit}, f \in {y.entry, y.add, y.exit}
      PROVE  FALSE
  <2>1. x.exit \in fills /\ x.exit.time < y.entry.time
    BY <1>3, DealIs, RowTyped DEF Earlier
  <2>2. x.entry.time \in Nat /\ x.add.time \in Nat /\ x.exit.time \in Nat /\ y.entry.time \in Nat /\ y.add.time \in Nat
        /\ y.exit.time \in Nat
    BY DealIs, RowTyped
  <2>3. f.time <= x.exit.time
    BY <1>3, <2>1, <2>2, DealIs
  <2>4. y.entry.time <= f.time
    <3>1. f = y.add => y.entry.time < y.add.time
      BY DealIs
    <3>2. f = y.exit => y.entry.time < y.exit.time
      BY DealIs
    <3>3. QED
      BY <1>3, <2>2, <3>1, <3>2
  <2>5. QED
    BY <2>1, <2>2, <2>3, <2>4, RowTyped
<1>4. QED
  BY <1>2, <1>3

\* Where the row f, which is e's, finds e and the other deals of its token.
LEMMA AroundRow ==
  ASSUME NEW D, NEW F, NEW f, NEW e, AtRow(D, F, f, e), NEW F0, F0 = F \ {f}
  PROVE  /\ Initial(F0) /\ F0 \in SUBSET fills /\ F \in SUBSET fills /\ f \in fills /\ f \notin F0 /\ F = F0 \cup {f}
         /\ f.ca = e.ca
         /\ \A g \in fills : g.time < f.time => g \in F0
         /\ \A g \in fills : f.time < g.time => g \notin F
         /\ \A d \in D : d.ca = e.ca /\ d # e /\ d.entry \in F => d.entry \in F0 /\ Earlier(d, e) /\ d.exit \in F0
         /\ \A d \in D : d # e => f \notin {d.entry, d.add, d.exit}
<1>1. RowsKept(fills, bar) /\ Deals(D, fills) /\ F \in SUBSET fills /\ f \in F /\ f \in fills /\ e \in D
      /\ f \in {e.entry, e.add, e.exit}
  BY DEF AtRow, Initial
<1>2. f.ca = e.ca
  BY <1>1, DealIs
<1>3. ASSUME NEW g \in fills PROVE g.time \in Nat /\ (g.time < f.time => TakenAfter(f, g)) /\ (f.time < g.time => TakenAfter(g, f))
  BY <1>1, RowsInOrder DEF TakenAfter
<1>4. ASSUME NEW g \in fills, g.time < f.time PROVE g \in F0
  <2>1. g \in F
    BY <1>1, <1>3, <1>4 DEF AtRow, Initial
  <2>2. g # f
    BY <1>1, <1>3, <1>4
  <2>3. QED
    BY <2>1, <2>2
<1>5. ASSUME NEW g \in fills, f.time < g.time PROVE g \notin F
  <2>1. TakenAfter(g, f) /\ ~TakenAfter(f, g)
    BY <1>1, <1>3, <1>5, RowsInOrder
  <2>2. g # f
    BY <1>1, <1>3, <1>5
  <2>3. QED
    BY <2>1, <2>2 DEF AtRow
<1>6. Initial(F0)
  <2>1. ASSUME NEW h \in F0, NEW g \in fills, TakenAfter(h, g) PROVE g \in F0
    <3>1. g \in F
      BY <1>1, <2>1 DEF AtRow, Initial
    <3>2. TakenAfter(f, h)
      BY <2>1 DEF AtRow
    <3>3. g # f
      BY <1>1, <2>1, <3>2, RowsInOrder
    <3>4. QED
      BY <3>1, <3>3
  <2>2. QED
    BY <1>1, <2>1 DEF Initial
<1>7. ASSUME NEW d \in D, d # e PROVE f \notin {d.entry, d.add, d.exit}
  BY <1>1, <1>7, TwoDeals
<1>8. ASSUME NEW d \in D, d.ca = e.ca, d # e, d.entry \in F PROVE d.entry \in F0 /\ Earlier(d, e) /\ d.exit \in F0
  <2>1. d.entry \in F0
    BY <1>7, <1>8
  <2>2. d.entry.time \in Nat /\ d.exit.time \in Nat /\ e.entry.time \in Nat /\ e.add.time \in Nat /\ e.exit.time \in Nat /\ f.time \in Nat
    BY <1>1, DealIs, RowTyped
  <2>3. ~Earlier(e, d)
    <3>1. SUFFICES ASSUME Earlier(e, d) PROVE FALSE
      OBVIOUS
    <3>2. e.exit \in fills /\ e.exit.time < d.entry.time
      BY <1>1, <3>1, DealIs, RowTyped DEF Earlier
    <3>3. f.time <= e.exit.time
      BY <1>1, <2>2, <3>2, DealIs
    <3>4. f.time < d.entry.time /\ d.entry \in fills
      BY <1>1, <2>2, <3>2, <3>3, DealIs
    <3>5. QED
      BY <1>5, <1>8, <3>4
  <2>4. Earlier(d, e)
    BY <1>1, <1>8, <2>3 DEF Deals
  <2>5. d.exit \in fills /\ d.exit.time < e.entry.time
    BY <1>1, <2>4, DealIs, RowTyped DEF Earlier
  <2>6. e.entry.time <= f.time
    <3>1. f = e.add => e.entry.time < e.add.time
      BY <1>1, DealIs
    <3>2. f = e.exit => e.entry.time < e.exit.time
      BY <1>1, DealIs
    <3>3. QED
      BY <1>1, <2>2, <3>1, <3>2
  <2>7. d.exit \in F0
    BY <1>4, <2>2, <2>5, <2>6
  <2>8. QED
    BY <2>1, <2>4, <2>7
<1>9. QED
  BY <1>1, <1>2, <1>4, <1>5, <1>6, <1>7, <1>8

LEMMA CycleKept ==
  ASSUME NEW D, NEW F, NEW f, NEW e, AtRow(D, F, f, e), NEW d \in D, d # e
  PROVE  CycleOf(d, F) = CycleOf(d, F \ {f}) /\ (d.entry \in F <=> d.entry \in F \ {f})
         /\ (d.exit \in F <=> d.exit \in F \ {f})
<1>1. PICK F0 : F0 = F \ {f}
  OBVIOUS
<1>2. f \notin {d.entry, d.add, d.exit}
  BY <1>1, AroundRow
<1>3. (d.entry \in F <=> d.entry \in F0) /\ (d.exit \in F <=> d.exit \in F0) /\ (d.add \in F <=> d.add \in F0)
  BY <1>1, <1>2
<1>4. {d.entry, d.add, d.exit} \cap F = {d.entry, d.add, d.exit} \cap F0
  BY <1>3
<1>5. QED
  BY <1>1, <1>3, <1>4 DEF CycleOf

\* Which cycle of its token is active when the row f is taken.
LEMMA NoneActive ==
  ASSUME NEW D, NEW F, NEW e, AtRow(D, F, e.entry, e), NEW b, NEW n, NEW w, Fits(b, n, w, D, F \ {e.entry})
  PROVE  b.active[e.ca] = 0 /\ e.ca \in Coins
<1>1. PICK F0 : F0 = F \ {e.entry}
  OBVIOUS
<1>2. e.ca \in Coins /\ e \in D
  BY DealIs DEF AtRow
<1>3. ASSUME b.active[e.ca] # 0 PROVE FALSE
  <2>1. PICK i : i = b.active[e.ca]
    OBVIOUS
  <2>7. i \in 0..n /\ n \in Nat /\ w \in [1..n -> Entered(D, F0)] /\ ActiveIs(i, e.ca, w, D, F0)
    BY <1>1, <1>2, <2>1 DEF Fits
  <2>2. i \in 1..n /\ w[i].ca = e.ca /\ w[i].exit \notin F0 /\ w \in [1..n -> Entered(D, F0)]
    BY <1>3, <2>1, <2>7 DEF ActiveIs
  <2>3. w[i] \in D /\ w[i].entry \in F0
    BY <2>2 DEF Entered
  <2>4. w[i] # e
    BY <1>1, <2>3
  <2>5. w[i].exit \in F0
    BY <1>1, <2>2, <2>3, <2>4, AroundRow
  <2>6. QED
    BY <2>2, <2>5
<1>4. QED
  BY <1>2, <1>3

LEMMA ItsOwnActive ==
  ASSUME NEW D, NEW F, NEW f, NEW e, AtRow(D, F, f, e), f # e.entry, NEW F0, F0 = F \ {f},
         NEW b, NEW n, NEW w, Fits(b, n, w, D, F0)
  PROVE  /\ b.active[e.ca] \in 1..n /\ w[b.active[e.ca]] = e /\ e.ca \in Coins
         /\ e.entry \in F0 /\ e.exit \notin F0 /\ (f = e.exit => e.add \in F0 \cup {NoRow}) /\ (f = e.add => e.exit \notin F)
<1>1. e.ca \in Coins /\ e \in D /\ RowsKept(fills, bar) /\ Deals(D, fills) /\ f \in {e.add, e.exit} /\ f \in fills
  BY DealIs DEF AtRow, Initial
<1>2. e.entry \in F0
  <2>1. e.entry.time < f.time /\ e.entry \in fills
    BY <1>1, DealIs
  <2>2. QED
    BY <2>1, AroundRow
<1>3. f = e.exit => e.add \in F0 \cup {NoRow}
  <2>1. f = e.exit => e.add.time < f.time /\ e.add \in fills \cup {NoRow}
    BY <1>1, DealIs
  <2>2. QED
    BY <2>1, AroundRow
<1>4. f = e.add => e.exit \notin F
  <2>1. e.exit \notin fills => e.exit \notin F
    BY AroundRow
  <2>2. f = e.add /\ e.exit \in fills => f.time < e.exit.time
    BY <1>1, DealIs
  <2>3. QED
    BY <1>1, <2>1, <2>2, AroundRow
<1>5. e.exit \notin F0
  BY <1>1, <1>4
<1>6. b.active[e.ca] # 0
  <2>1. e \in Entered(D, F0)
    BY <1>1, <1>2 DEF Entered
  <2>2. ActiveIs(b.active[e.ca], e.ca, w, D, F0)
    BY <1>1 DEF Fits
  <2>3. QED
    BY <1>5, <2>1, <2>2 DEF ActiveIs
<1>7. PICK i : i = b.active[e.ca]
  OBVIOUS
<1>12. i \in 0..n /\ n \in Nat /\ w \in [1..n -> Entered(D, F0)] /\ ActiveIs(i, e.ca, w, D, F0)
  BY <1>1, <1>7 DEF Fits
<1>8. i \in 1..n /\ w[i].ca = e.ca /\ w[i].exit \notin F0 /\ w \in [1..n -> Entered(D, F0)]
  <2>1. i # 0
    BY <1>6, <1>7
  <2>2. w[i].ca = e.ca /\ w[i].exit \notin F0
    BY ONLY <1>12, <2>1 DEF ActiveIs
  <2>3. QED
    BY ONLY <1>12, <2>1, <2>2
<1>9. w[i] \in D /\ w[i].entry \in F0
  BY <1>8 DEF Entered
<1>10. w[i] = e
  <2>1. ASSUME w[i] # e PROVE FALSE
    <3>1. w[i].entry \in F
      BY <1>9
    <3>2. w[i].exit \in F0
      BY <1>8, <1>9, <2>1, <3>1, AroundRow
    <3>3. QED
      BY <1>8, <3>2
  <2>2. QED
    BY <2>1
<1>11. QED
  BY <1>1, <1>2, <1>3, <1>4, <1>5, <1>7, <1>8, <1>10

\* The next deal of a token has the number after those that have begun.
LEMMA NextNumber ==
  ASSUME NEW D, NEW F, NEW e, AtRow(D, F, e.entry, e), NEW k, Begun(k, D, e.ca, F \ {e.entry})
  PROVE  e.no = k + 1 /\ Begun(k + 1, D, e.ca, F)
<1>1. PICK F0 : F0 = F \ {e.entry}
  OBVIOUS
<1>2. e \in D /\ RowsKept(fills, bar) /\ Deals(D, fills) /\ e.entry \in F /\ k \in Nat /\ e.no \in Nat \ {0}
  BY DealIs DEF AtRow, Begun
<1>3. \A d \in D : d.ca = e.ca => d.no \in Nat /\ (d.entry \in F0 <=> d.no <= k)
  BY <1>1, <1>2, DealIs DEF Begun
<1>4. e.no > k
  BY <1>1, <1>2, <1>3
<1>5. ASSUME e.no > k + 1 PROVE FALSE
  <2>1. k + 1 \in 1..e.no
    BY <1>2, <1>5
  <2>2. PICK d \in D : d.ca = e.ca /\ d.no = k + 1
    BY <1>2, <2>1 DEF Deals
  <2>3. Earlier(d, e)
    BY <1>2, <1>5, <2>2 DEF Deals, Earlier
  <2>4. d.exit \in fills /\ d.exit.time < e.entry.time /\ d.entry \in fills /\ d.entry.time < d.exit.time
        /\ d.exit.time \in Nat /\ d.entry.time \in Nat /\ e.entry.time \in Nat
    BY <1>2, <2>3, DealIs, RowTyped DEF Earlier
  <2>5. d.entry \in F0
    BY <1>1, <2>4, AroundRow
  <2>6. QED
    BY <1>2, <1>3, <2>2, <2>5
<1>6. e.no = k + 1
  BY <1>2, <1>4, <1>5
<1>7. ASSUME NEW d \in D, d.ca = e.ca PROVE d.entry \in F <=> d.no <= k + 1
  <2>1. CASE d = e
    BY <1>2, <1>6, <2>1
  <2>2. CASE d # e
    <3>1. d.entry \in F <=> d.entry \in F0
      BY <1>1, <2>2, CycleKept
    <3>2. d.no # e.no
      BY <1>2, <1>7, <2>2, DealIs DEF Deals, Earlier
    <3>3. QED
      BY <1>2, <1>3, <1>6, <1>7, <3>1, <3>2
  <2>3. QED
    BY <2>1, <2>2
<1>8. QED
  BY <1>2, <1>6, <1>7 DEF Begun

LEMMA BegunKept ==
  ASSUME NEW D, NEW F, NEW f, NEW e, AtRow(D, F, f, e), NEW t, NEW k, Begun(k, D, t, F \ {f}),
         t # e.ca \/ f # e.entry
  PROVE  Begun(k, D, t, F)
<1>1. e \in D
  BY DEF AtRow
<1>2. ASSUME NEW d \in D, d.ca = t PROVE d.entry \in F <=> d.entry \in F \ {f}
  <2>1. CASE d = e
    BY <1>2, <2>1
  <2>2. CASE d # e
    BY <2>2, CycleKept
  <2>3. QED
    BY <2>1, <2>2
<1>3. QED
  BY <1>2 DEF Begun

\* The books when a row changes the cycle of a deal that has begun.
LEMMA CycleGoesOn ==
  ASSUME NEW D, NEW F, NEW f, NEW e, AtRow(D, F, f, e), f # e.entry, NEW F0, F0 = F \ {f},
         NEW b, NEW n, NEW w, Fits(b, n, w, D, F0), NEW i, i = b.active[e.ca],
         NEW c, DOMAIN c = {"cycles", "active", "count", "incomplete"}, c.incomplete = 0, c.count = b.count,
         DOMAIN c.cycles = DOMAIN b.cycles, c.cycles \in [DOMAIN b.cycles -> {c.cycles[j] : j \in DOMAIN b.cycles}],
         \A j \in DOMAIN b.cycles : c.cycles[j] = IF j = i THEN CycleOf(e, F) ELSE b.cycles[j],
         c.active = [b.active EXCEPT ![e.ca] = IF f = e.exit THEN 0 ELSE i]
  PROVE  Fits(c, n, w, D, F)
<1>0. i \in 1..n /\ w[i] = e /\ e.ca \in Coins /\ e.entry \in F0 /\ e.exit \notin F0 /\ (f = e.add => e.exit \notin F)
  BY ItsOwnActive
<1>1. i \in 1..n /\ w[i] = e /\ e.ca \in Coins /\ e.entry \in F0 /\ e.exit \notin F0 /\ (f = e.add => e.exit \notin F)
      /\ e \in D /\ f \in {e.add, e.exit} /\ f \in F
  BY <1>0 DEF AtRow
<1>2. /\ n \in Nat /\ w \in [1..n -> Entered(D, F0)] /\ b.cycles = [j \in 1..n |-> CycleOf(w[j], F0)]
      /\ (\A j, k \in 1..n : w[j] = w[k] => j = k) /\ (\A d \in Entered(D, F0) : \E j \in 1..n : w[j] = d)
  BY DEF Fits
<1>3. ASSUME NEW d \in D PROVE d.entry \in F <=> d.entry \in F0
  <2>1. CASE d = e
    BY <1>1, <2>1
  <2>2. CASE d # e
    BY <2>2, CycleKept
  <2>3. QED
    BY <2>1, <2>2
<1>4. Entered(D, F) = Entered(D, F0)
  BY <1>3 DEF Entered
<1>5. ASSUME NEW j \in 1..n, j # i PROVE w[j] \in D /\ w[j] # e /\ CycleOf(w[j], F) = CycleOf(w[j], F0)
                                         /\ (w[j].exit \in F <=> w[j].exit \in F0)
  <2>1. w[j] \in D /\ w[j] # e
    BY <1>1, <1>2, <1>5 DEF Entered
  <2>2. QED
    BY <2>1, CycleKept
<1>6. c.cycles = [j \in 1..n |-> CycleOf(w[j], F)]
  <2>1. DOMAIN b.cycles = 1..n
    BY <1>2
  <2>2. ASSUME NEW j \in 1..n PROVE c.cycles[j] = CycleOf(w[j], F)
    <3>1. CASE j = i
      BY <1>1, <2>1, <3>1
    <3>2. CASE j # i
      <4>1. b.cycles[j] = CycleOf(w[j], F0)
        BY <1>2
      <4>2. c.cycles[j] = b.cycles[j]
        BY <2>1, <3>2
      <4>3. QED
        BY <1>5, <3>2, <4>1, <4>2
    <3>3. QED
      BY <3>1, <3>2
  <2>3. QED
    BY <2>1, <2>2
<1>7. b.active \in [Coins -> 0..n] /\ b.count \in [Coins -> Nat]
  BY DEF Fits
<1>8. c.active \in [Coins -> 0..n]
  <2>1. PICK v : v = IF f = e.exit THEN 0 ELSE i
    OBVIOUS
  <2>2. v \in 0..n
    BY <1>1, <1>2, <2>1
  <2>3. c.active = [b.active EXCEPT ![e.ca] = v]
    BY <2>1
  <2>4. QED
    BY <1>7, <2>2, <2>3
<1>9. ASSUME NEW t \in Coins PROVE ActiveIs(c.active[t], t, w, D, F)
  <2>1. ActiveIs(b.active[t], t, w, D, F0)
    BY DEF Fits
  <2>2. CASE t = e.ca
    <3>1. CASE f = e.exit
      <4>1. c.active[t] = 0
        BY <1>7, <2>2, <3>1
      <4>2. ASSUME NEW d \in Entered(D, F), d.ca = t PROVE d.exit \in F
        <5>1. d \in D /\ d.entry \in F
          BY DEF Entered
        <5>2. d # e => d.exit \in F0
          BY <2>2, <4>2, <5>1, AroundRow
        <5>3. QED
          BY <1>1, <3>1, <5>2
      <4>3. QED
        BY <4>1, <4>2 DEF ActiveIs
    <3>2. CASE f # e.exit
      <4>1. c.active[t] = i
        BY <1>7, <2>2, <3>2
      <4>2. QED
        BY <1>1, <2>2, <3>2, <4>1 DEF ActiveIs
    <3>3. QED
      BY <3>1, <3>2
  <2>3. CASE t # e.ca
    <3>1. PICK j : j = b.active[t]
      OBVIOUS
    <3>2. c.active[t] = j /\ j \in 0..n
      BY <1>7, <2>3, <3>1
    <3>3. CASE j = 0
      <4>1. ASSUME NEW d \in Entered(D, F), d.ca = t PROVE d.exit \in F
        <5>1. d.exit \in F0
          BY <1>4, <2>1, <3>1, <3>3, <4>1 DEF ActiveIs
        <5>2. QED
          BY <5>1
      <4>2. QED
        BY <3>2, <3>3, <4>1 DEF ActiveIs
    <3>4. CASE j # 0
      <4>1. j \in 1..n /\ w[j].ca = t /\ w[j].exit \notin F0
        BY <1>2, <2>1, <3>1, <3>2, <3>4 DEF ActiveIs
      <4>2. j # i
        BY <1>1, <2>3, <4>1
      <4>3. QED
        BY <1>5, <3>2, <3>4, <4>1, <4>2 DEF ActiveIs
    <3>5. QED
      BY <3>3, <3>4
  <2>4. QED
    BY <2>2, <2>3
<1>10. ASSUME NEW t \in Coins PROVE Begun(c.count[t], D, t, F)
  <2>1. Begun(b.count[t], D, t, F0)
    BY DEF Fits
  <2>2. QED
    BY <2>1, BegunKept
<1>11. QED
  BY <1>2, <1>4, <1>6, <1>7, <1>8, <1>9, <1>10 DEF Fits

\* No row is of another cycle than the active one of its token.
FoundAt(i, b, n, F, f, e) ==
  /\ i \in 1..n /\ i # 0 /\ b.cycles[i] = CycleOf(e, F \ {f})
  /\ f.position \in {0, e.entry.id} /\ f.ca = e.ca /\ ~Foreign(b, f)
GoesOn(D, F, f, e, b, n, w) == AtRow(D, F, f, e) /\ f # e.entry /\ Fits(b, n, w, D, F \ {f})
LEMMA NotForeign ==
  ASSUME NEW D, NEW F, NEW f, NEW e, NEW b, NEW n, NEW w, GoesOn(D, F, f, e, b, n, w)
  PROVE  FoundAt(b.active[e.ca], b, n, F, f, e)
<1>9. PICK F0 : F0 = F \ {f}
  OBVIOUS
<1>8. AtRow(D, F, f, e) /\ f # e.entry /\ Fits(b, n, w, D, F0)
  BY <1>9 DEF GoesOn
<1>7. PICK i : i = b.active[e.ca]
  OBVIOUS
<1>0. i \in 1..n /\ w[i] = e
  BY <1>7, <1>8, <1>9, ItsOwnActive
<1>1. i \in 1..n /\ w[i] = e /\ e \in D /\ RowsKept(fills, bar) /\ Deals(D, fills) /\ f \in fills
  BY <1>0, <1>8 DEF AtRow, Initial
<1>2. b.cycles[i] = CycleOf(e, F0) /\ n \in Nat
  BY <1>1, <1>8 DEF Fits
<1>3. f.position \in {0, e.entry.id}
  <2>1. DealOf(e, fills) /\ NoRow \notin fills /\ f \in {e.add, e.exit}
    BY <1>1, <1>8, DealIs, RowTyped DEF AtRow
  <2>2. QED
    BY <1>1, <1>8, <2>1 DEF DealOf
<1>4. b.cycles[i].id = e.entry.id
  BY <1>2 DEF CycleOf
<1>5. f.ca = e.ca
  BY <1>8, <1>9, AroundRow
<1>6. QED
  BY <1>1, <1>2, <1>3, <1>4, <1>5, <1>7, <1>9 DEF Foreign, FoundAt

LEMMA BooksAtAdd ==
  ASSUME NEW D, NEW F, NEW f, NEW e, AtRow(D, F, f, e), f = e.add, f # e.entry,
         NEW b, NEW n, NEW w, Fits(b, n, w, D, F \ {f})
  PROVE  Fits(TakeFill(b, f), n, w, D, F)
<1>1. PICK i : i = b.active[e.ca]
  OBVIOUS
<1>2. PICK F0 : F0 = F \ {f}
  OBVIOUS
<1>3. /\ i \in 1..n /\ b.cycles[i] = CycleOf(e, F0) /\ ~Foreign(b, f) /\ f.ca = e.ca /\ i # 0
      /\ e.entry \in F0 /\ e.exit \notin F0 /\ e.exit \notin F /\ e \in D /\ e.ca \in Coins
  <2>1. i \in 1..n /\ b.cycles[i] = CycleOf(e, F0) /\ ~Foreign(b, f) /\ f.ca = e.ca /\ i # 0
    <3>1. AtRow(D, F, f, e) /\ f # e.entry /\ F0 = F \ {f} /\ Fits(b, n, w, D, F0) /\ i = b.active[e.ca]
      BY <1>1, <1>2
    <3>2. GoesOn(D, F, f, e, b, n, w)
      BY <1>2, <3>1 DEF GoesOn
    <3>3. FoundAt(i, b, n, F, f, e)
      BY <1>1, <3>2, NotForeign
    <3>4. QED
      BY <1>2, <3>3 DEF FoundAt
  <2>2. e.entry \in F0 /\ e.exit \notin F0 /\ e.exit \notin F /\ e.ca \in Coins
    BY <1>2, ItsOwnActive
  <2>3. QED
    BY <2>1, <2>2 DEF AtRow
<1>4. f \in fills /\ RowsKept(fills, bar) /\ Deals(D, fills) /\ f # NoRow /\ f \in F
  BY RowTyped DEF AtRow, Initial
<1>5. f.side = "buy" /\ f # e.exit
  BY <1>3, <1>4, DealIs DEF DealOf
<1>6. PICK c : c = TakeFill(b, f)
  OBVIOUS
<1>7. c = Grows(b, i, f)
  BY <1>1, <1>3, <1>5, <1>6 DEF TakeFill
<1>8. DOMAIN b = {"cycles", "active", "count", "incomplete"} /\ b.incomplete = 0 /\ b.active \in [Coins -> 0..n]
      /\ DOMAIN b.cycles = 1..n /\ b.cycles = [j \in 1..n |-> CycleOf(w[j], F0)]
  BY <1>2 DEF Fits
<1>9. PICK x : x = CycleOf(e, F0)
  OBVIOUS
<1>10. /\ DOMAIN c = DOMAIN b /\ c.incomplete = 0 /\ c.count = b.count /\ c.active = b.active
       /\ c.cycles = [b.cycles EXCEPT ![i] = [x EXCEPT !.orders = @ \cup {f.id}, !.qty = @ + f.qty,
                                                        !.cost = @ + f.gross + f.cost]]
  BY <1>3, <1>7, <1>8, <1>9 DEF Grows
<1>11. [x EXCEPT !.orders = @ \cup {f.id}, !.qty = @ + f.qty, !.cost = @ + f.gross + f.cost] = CycleOf(e, F)
  <2>1. f.qty \in Int /\ f.gross \in Int /\ f.cost \in Int /\ e.entry.qty \in Int /\ e.entry.gross \in Int /\ e.entry.cost \in Int
    BY <1>3, <1>4, RowTyped, DealIs
  <2>2. {e.entry, e.add, e.exit} \cap F = ({e.entry, e.add, e.exit} \cap F0) \cup {f}
    BY <1>2, <1>4
  <2>3. PICK old : old = {r.id : r \in {e.entry, e.add, e.exit} \cap F0}
    OBVIOUS
  <2>4. {r.id : r \in {e.entry, e.add, e.exit} \cap F} = old \cup {f.id}
    BY <2>2, <2>3
  <2>5. e.add \in F /\ e.add \notin F0
    BY <1>2, <1>4
  <2>6. x = [id |-> e.entry.id, ca |-> e.ca, orders |-> old, no |-> e.no, qty |-> e.entry.qty + 0,
             cost |-> e.entry.gross + e.entry.cost + 0, pnl |-> 0, sold |-> 0, status |-> "open"]
    BY <1>3, <1>9, <2>3, <2>5 DEF CycleOf
  <2>7. CycleOf(e, F) = [id |-> e.entry.id, ca |-> e.ca, orders |-> old \cup {f.id}, no |-> e.no, qty |-> e.entry.qty + f.qty,
             cost |-> e.entry.gross + e.entry.cost + (f.gross + f.cost), pnl |-> 0, sold |-> 0, status |-> "open"]
    BY <1>3, <2>4, <2>5 DEF CycleOf
  <2>8. x.qty + f.qty = e.entry.qty + f.qty
        /\ x.cost + f.gross + f.cost = e.entry.gross + e.entry.cost + (f.gross + f.cost)
    BY <2>1, <2>6
  <2>9. [x EXCEPT !.orders = @ \cup {f.id}, !.qty = @ + f.qty, !.cost = @ + f.gross + f.cost]
        = [id |-> e.entry.id, ca |-> e.ca, orders |-> old \cup {f.id}, no |-> e.no, qty |-> x.qty + f.qty,
           cost |-> x.cost + f.gross + f.cost, pnl |-> 0, sold |-> 0, status |-> "open"]
    <3>1. PICK o2 : o2 = x.orders \cup {f.id}
      OBVIOUS
    <3>2. PICK q2 : q2 = x.qty + f.qty
      OBVIOUS
    <3>3. PICK c2 : c2 = x.cost + f.gross + f.cost
      OBVIOUS
    <3>4. o2 = old \cup {f.id}
      BY <2>6, <3>1
    <3>5. PICK y : y = [x EXCEPT !.orders = o2, !.qty = q2, !.cost = c2]
      OBVIOUS
    <3>6. [x EXCEPT !.orders = @ \cup {f.id}, !.qty = @ + f.qty, !.cost = @ + f.gross + f.cost] = y
      BY ONLY <2>6, <3>1, <3>2, <3>3, <3>5
    <3>8. y = [id |-> e.entry.id, ca |-> e.ca, orders |-> o2, no |-> e.no, qty |-> q2, cost |-> c2,
               pnl |-> 0, sold |-> 0, status |-> "open"]
      BY ONLY <2>6, <3>5
    <3>7. QED
      BY <3>2, <3>3, <3>4, <3>6, <3>8
  <2>10. QED
    BY ONLY <2>7, <2>8, <2>9
<1>12. c.active = [b.active EXCEPT ![e.ca] = IF f = e.exit THEN 0 ELSE i]
  BY <1>1, <1>3, <1>5, <1>8, <1>10
<1>13. /\ DOMAIN c.cycles = DOMAIN b.cycles
       /\ \A j \in DOMAIN b.cycles : c.cycles[j] = IF j = i THEN CycleOf(e, F) ELSE b.cycles[j]
       /\ c.cycles \in [DOMAIN b.cycles -> {c.cycles[j] : j \in DOMAIN b.cycles}]
  BY <1>3, <1>8, <1>10, <1>11
<1>14. Fits(c, n, w, D, F)
  <2>1. DOMAIN c = {"cycles", "active", "count", "incomplete"} /\ c.incomplete = 0 /\ c.count = b.count
    BY <1>8, <1>10
  <2>2. AtRow(D, F, f, e) /\ f # e.entry /\ F0 = F \ {f} /\ Fits(b, n, w, D, F0) /\ i = b.active[e.ca]
    BY <1>1, <1>2
  <2>3. QED
    BY ONLY <1>12, <1>13, <2>1, <2>2, CycleGoesOn
<1>15. QED
  BY <1>6, <1>14

\* What a sale of everything that was bought costs.
LEMMA AllOfIt == ASSUME NEW c \in Int, NEW q \in Nat \ {0} PROVE (c * q) \div q = c
OBVIOUS

LEMMA BooksAtExit ==
  ASSUME NEW D, NEW F, NEW f, NEW e, AtRow(D, F, f, e), f = e.exit, f # e.entry, f # e.add,
         NEW b, NEW n, NEW w, Fits(b, n, w, D, F \ {f})
  PROVE  Fits(TakeFill(b, f), n, w, D, F)
<1>1. PICK i : i = b.active[e.ca]
  OBVIOUS
<1>2. PICK F0 : F0 = F \ {f}
  OBVIOUS
<1>3. /\ i \in 1..n /\ b.cycles[i] = CycleOf(e, F0) /\ ~Foreign(b, f) /\ f.ca = e.ca /\ i # 0
      /\ e.entry \in F0 /\ e.exit \notin F0 /\ e.add \in F0 \cup {NoRow} /\ e \in D /\ e.ca \in Coins
  <2>1. i \in 1..n /\ b.cycles[i] = CycleOf(e, F0) /\ ~Foreign(b, f) /\ f.ca = e.ca /\ i # 0
    <3>1. GoesOn(D, F, f, e, b, n, w)
      BY DEF GoesOn
    <3>2. FoundAt(i, b, n, F, f, e)
      BY <1>1, <3>1, NotForeign
    <3>3. QED
      BY <1>2, <3>2 DEF FoundAt
  <2>2. e.entry \in F0 /\ e.exit \notin F0 /\ e.add \in F0 \cup {NoRow} /\ e.ca \in Coins
    BY <1>2, ItsOwnActive
  <2>3. QED
    BY <2>1, <2>2 DEF AtRow
<1>4. f \in fills /\ RowsKept(fills, bar) /\ Deals(D, fills) /\ f # NoRow /\ f \in F
  BY RowTyped DEF AtRow, Initial
<1>5. DealOf(e, fills)
  BY <1>3, <1>4, DealIs
<1>6. f.side = "sell" /\ f.qty = Amount(e) /\ Amount(e) > 0
  BY <1>4, <1>5 DEF DealOf
<1>7. /\ f.qty \in Int /\ f.gross \in Int /\ f.cost \in Int
      /\ e.entry.qty \in Int /\ e.entry.gross \in Int /\ e.entry.cost \in Int
      /\ e.add.qty \in Int /\ e.add.gross \in Int /\ e.add.cost \in Int
  BY <1>3, <1>4, RowTyped, DealIs
<1>8. e.add \notin F0 => e.add.qty = 0 /\ e.add.gross + e.add.cost = 0
  BY <1>3 DEF NoRow
<1>9. PICK x : x = CycleOf(e, F0)
  OBVIOUS
<1>10. PICK old : old = {r.id : r \in {e.entry, e.add, e.exit} \cap F0}
  OBVIOUS
<1>11. x = [id |-> e.entry.id, ca |-> e.ca, orders |-> old, no |-> e.no, qty |-> f.qty,
            cost |-> Paid(e), pnl |-> 0, sold |-> 0, status |-> "open"]
  <2>1. e.entry.qty + (IF e.add \in F0 THEN e.add.qty ELSE 0) = f.qty
    BY <1>6, <1>7, <1>8 DEF Amount
  <2>2. e.entry.gross + e.entry.cost + (IF e.add \in F0 THEN e.add.gross + e.add.cost ELSE 0) = Paid(e)
    BY <1>7, <1>8 DEF Paid
  <2>3. QED
    BY <1>3, <1>9, <1>10, <2>1, <2>2 DEF CycleOf
<1>12. DOMAIN b = {"cycles", "active", "count", "incomplete"} /\ b.incomplete = 0 /\ b.active \in [Coins -> 0..n]
       /\ DOMAIN b.cycles = 1..n /\ b.cycles = [j \in 1..n |-> CycleOf(w[j], F0)]
  BY <1>2 DEF Fits
<1>13. PICK c : c = TakeFill(b, f)
  OBVIOUS
<1>14. c = Shrinks(b, i, f)
  <2>1. b.cycles[i].qty = f.qty
    BY <1>3, <1>9, <1>11
  <2>2. ~(f.qty > b.cycles[i].qty) /\ f.side # "buy"
    BY <1>6, <1>7, <2>1
  <2>3. QED
    BY <1>1, <1>3, <1>13, <2>2 DEF TakeFill
<1>15. PICK basis : basis = (x.cost * f.qty) \div x.qty
  OBVIOUS
<1>16. basis = Paid(e) /\ Paid(e) \in Int
  <2>1. Paid(e) \in Int
    BY <1>7 DEF Paid
  <2>2. x.cost = Paid(e) /\ x.qty = f.qty
    BY <1>11
  <2>3. f.qty \in Nat \ {0}
    BY <1>6, <1>7
  <2>4. (Paid(e) * f.qty) \div f.qty = Paid(e)
    BY <2>1, <2>3, AllOfIt
  <2>5. QED
    BY <1>15, <2>1, <2>2, <2>4
<1>17. PICK d : d = [x EXCEPT !.orders = @ \cup {f.id}, !.qty = @ - f.qty, !.cost = @ - basis,
                       !.pnl = @ + f.gross - f.cost - basis, !.sold = f.time, !.status = IF x.qty = f.qty THEN "closed" ELSE @]
  OBVIOUS
<1>18. d = CycleOf(e, F)
  <2>1. PICK qn : qn = x.qty - f.qty
    OBVIOUS
  <2>2. PICK cn : cn = x.cost - basis
    OBVIOUS
  <2>3. PICK pn : pn = x.pnl + f.gross - f.cost - basis
    OBVIOUS
  <2>4. PICK on : on = x.orders \cup {f.id}
    OBVIOUS
  <2>5. d = [x EXCEPT !.orders = on, !.qty = qn, !.cost = cn, !.pnl = pn, !.sold = f.time, !.status = "closed"]
    <3>1. x.qty = f.qty
      BY <1>11
    <3>2. QED
      BY ONLY <1>11, <1>17, <2>1, <2>2, <2>3, <2>4, <3>1
  <2>6. d = [id |-> e.entry.id, ca |-> e.ca, orders |-> on, no |-> e.no, qty |-> qn, cost |-> cn, pnl |-> pn,
             sold |-> f.time, status |-> "closed"]
    BY ONLY <1>11, <2>5
  <2>7. qn = 0 /\ cn = 0 /\ pn = Won(e) /\ on = old \cup {f.id}
    BY <1>7, <1>11, <1>16, <2>1, <2>2, <2>3, <2>4 DEF Won
  <2>8. {e.entry, e.add, e.exit} \cap F = ({e.entry, e.add, e.exit} \cap F0) \cup {f}
    BY <1>2, <1>4
  <2>9. {r.id : r \in {e.entry, e.add, e.exit} \cap F} = old \cup {f.id}
    BY <1>10, <2>8
  <2>10. QED
    BY <1>4, <2>6, <2>7, <2>9 DEF CycleOf
<1>19. c.cycles = [b.cycles EXCEPT ![i] = d] /\ DOMAIN c = DOMAIN b /\ c.incomplete = 0 /\ c.count = b.count
       /\ c.active = [b.active EXCEPT ![e.ca] = IF d.qty = 0 THEN 0 ELSE @]
  <2>1. x = b.cycles[i] /\ f.ca = e.ca
    BY <1>3, <1>9
  <2>2. Shrinks(b, i, f) = [b EXCEPT !.cycles[i] = d, !.active[f.ca] = IF d.qty = 0 THEN 0 ELSE @]
    BY ONLY <2>1, <1>15, <1>17 DEF Shrinks
  <2>3. c = [b EXCEPT !.cycles[i] = d, !.active[e.ca] = IF d.qty = 0 THEN 0 ELSE @]
    BY <1>14, <2>1, <2>2
  <2>4. QED
    BY <1>12, <2>3
<1>20. d.qty = 0
  BY <1>4, <1>18 DEF CycleOf
<1>21. c.active = [b.active EXCEPT ![e.ca] = IF f = e.exit THEN 0 ELSE i]
  BY <1>12, <1>19, <1>20
<1>22. /\ DOMAIN c.cycles = DOMAIN b.cycles
       /\ \A j \in DOMAIN b.cycles : c.cycles[j] = IF j = i THEN CycleOf(e, F) ELSE b.cycles[j]
       /\ c.cycles \in [DOMAIN b.cycles -> {c.cycles[j] : j \in DOMAIN b.cycles}]
  BY <1>3, <1>12, <1>18, <1>19
<1>23. Fits(c, n, w, D, F)
  <2>1. DOMAIN c = {"cycles", "active", "count", "incomplete"} /\ c.incomplete = 0 /\ c.count = b.count
    BY <1>12, <1>19
  <2>2. AtRow(D, F, f, e) /\ f # e.entry /\ F0 = F \ {f} /\ Fits(b, n, w, D, F0) /\ i = b.active[e.ca]
    BY <1>1, <1>2
  <2>3. QED
    BY ONLY <1>21, <1>22, <2>1, <2>2, CycleGoesOn
<1>24. QED
  BY <1>13, <1>23

LEMMA BooksAtEntry ==
  ASSUME NEW D, NEW F, NEW f, NEW e, AtRow(D, F, f, e), f = e.entry,
         NEW b, NEW n, NEW w, Fits(b, n, w, D, F \ {f})
  PROVE  \E m, v : Fits(TakeFill(b, f), m, v, D, F)
<1>1. PICK F0 : F0 = F \ {f}
  OBVIOUS
<1>2. AtRow(D, F, e.entry, e) /\ F0 = F \ {e.entry} /\ Fits(b, n, w, D, F \ {e.entry}) /\ Fits(b, n, w, D, F0)
  BY <1>1
<1>3. b.active[e.ca] = 0 /\ e.ca \in Coins
  BY <1>2, NoneActive
<1>4. e \in D /\ f \in fills /\ RowsKept(fills, bar) /\ Deals(D, fills) /\ f \in F /\ f.ca = e.ca
  <2>1. f.ca = e.ca
    BY <1>1, AroundRow
  <2>2. QED
    BY <2>1 DEF AtRow, Initial
<1>5. DealOf(e, fills)
  BY <1>4, DealIs
<1>6. f.side = "buy" /\ f.position \in {0, f.id}
  BY <1>5 DEF DealOf
<1>7. /\ n \in Nat /\ w \in [1..n -> Entered(D, F0)] /\ b.cycles = [j \in 1..n |-> CycleOf(w[j], F0)]
      /\ (\A j, k \in 1..n : w[j] = w[k] => j = k) /\ (\A d \in Entered(D, F0) : \E j \in 1..n : w[j] = d)
      /\ DOMAIN b = {"cycles", "active", "count", "incomplete"} /\ b.incomplete = 0
      /\ b.active \in [Coins -> 0..n] /\ b.count \in [Coins -> Nat]
  BY <1>2 DEF Fits
<1>8. /\ e.add \notin F /\ e.exit \notin F
  <2>1. (e.add \in fills => f.time < e.add.time) /\ (e.exit \in fills => f.time < e.exit.time)
    BY <1>4, DealIs
  <2>2. QED
    BY <1>4, <2>1, AroundRow
<1>9. PICK k : k = b.count[e.ca]
  OBVIOUS
<1>10. k \in Nat /\ e.no = k + 1 /\ Begun(k + 1, D, e.ca, F)
  <2>1. Begun(k, D, e.ca, F \ {e.entry}) /\ k \in Nat
    BY <1>2, <1>3, <1>7, <1>9 DEF Fits
  <2>2. QED
    BY <1>2, <2>1, NextNumber
<1>11. PICK x : x = CycleOf(e, F)
  OBVIOUS
<1>12. x = [id |-> f.id, ca |-> e.ca, orders |-> {f.id}, no |-> k + 1, qty |-> f.qty, cost |-> f.gross + f.cost,
            pnl |-> 0, sold |-> 0, status |-> "open"]
  <2>1. f.qty \in Int /\ f.gross \in Int /\ f.cost \in Int
    BY <1>4, RowTyped
  <2>2. {e.entry, e.add, e.exit} \cap F = {f}
    BY <1>4, <1>8
  <2>3. {r.id : r \in {e.entry, e.add, e.exit} \cap F} = {f.id}
    BY <2>2
  <2>4. QED
    <3>1. f.qty + 0 = f.qty /\ f.gross + f.cost + 0 = f.gross + f.cost
      BY <2>1
    <3>2. x = [id |-> f.id, ca |-> e.ca, orders |-> {f.id}, no |-> e.no, qty |-> f.qty + 0,
               cost |-> f.gross + f.cost + 0, pnl |-> 0, sold |-> 0, status |-> "open"]
      BY <1>8, <1>11, <2>3 DEF CycleOf
    <3>3. QED
      BY <1>10, <3>1, <3>2
<1>13. PICK c : c = TakeFill(b, f)
  OBVIOUS
<1>14. c = Opens(b, f)
  <2>1. b.active[f.ca] = 0
    BY <1>3, <1>4
  <2>2. ~Foreign(b, f)
    BY <2>1 DEF Foreign
  <2>3. QED
    BY <1>6, <1>13, <2>1, <2>2 DEF TakeFill
<1>15. PICK S : S = {CycleOf(d, F0) : d \in D} \cup {x}
  OBVIOUS
<1>16. b.cycles \in Seq(S) /\ Len(b.cycles) = n /\ x \in S
  <2>1. \A j \in 1..n : w[j] \in D
    BY <1>7 DEF Entered
  <2>2. b.cycles \in [1..n -> S]
    BY <1>7, <1>15, <2>1
  <2>3. QED
    BY <1>7, <1>15, <2>2
<1>17. /\ c.cycles = Append(b.cycles, x) /\ DOMAIN c = DOMAIN b /\ c.incomplete = 0
       /\ c.active = [b.active EXCEPT ![e.ca] = n + 1] /\ c.count = [b.count EXCEPT ![e.ca] = k + 1]
  <2>1. x = [id |-> IF f.position # 0 THEN f.position ELSE f.id, ca |-> f.ca, orders |-> {f.id},
             no |-> b.count[f.ca] + 1, qty |-> f.qty, cost |-> f.gross + f.cost, pnl |-> 0, sold |-> 0, status |-> "open"]
    BY <1>4, <1>6, <1>9, <1>12
  <2>2. c = [b EXCEPT !.cycles = Append(@, x), !.active[f.ca] = Len(b.cycles) + 1, !.count[f.ca] = @ + 1]
    BY <1>14, <2>1 DEF Opens
  <2>3. c = [b EXCEPT !.cycles = Append(@, x), !.active[e.ca] = n + 1, !.count[e.ca] = @ + 1]
    BY <1>4, <1>16, <2>2
  <2>4. QED
    BY <1>7, <1>9, <2>3
<1>18. PICK m : m = n + 1
  OBVIOUS
<1>19. PICK v : v = [j \in 1..m |-> IF j = m THEN e ELSE w[j]]
  OBVIOUS
<1>20. m \in Nat /\ m \in 1..m /\ v[m] = e /\ \A j \in 1..m : j # m => j \in 1..n /\ v[j] = w[j]
  BY <1>7, <1>18, <1>19
<1>21. ASSUME NEW d \in D PROVE d # e => (d.entry \in F <=> d.entry \in F0) /\ (d.exit \in F <=> d.exit \in F0)
                                         /\ CycleOf(d, F) = CycleOf(d, F0)
  BY <1>1, CycleKept
<1>22. Entered(D, F) = Entered(D, F0) \cup {e} /\ e \notin Entered(D, F0)
  <2>1. e.entry \in F /\ e.entry \notin F0
    BY <1>1, <1>4
  <2>2. QED
    BY <1>4, <1>21, <2>1 DEF Entered
<1>23. v \in [1..m -> Entered(D, F)]
  <2>1. ASSUME NEW j \in 1..m PROVE v[j] \in Entered(D, F)
    BY <1>7, <1>20, <1>22
  <2>2. QED
    BY <1>19, <2>1
<1>24. ASSUME NEW j \in 1..n PROVE w[j] \in D /\ w[j] # e /\ w[j] \in Entered(D, F0)
  BY <1>7, <1>22 DEF Entered
<1>25. \A j, l \in 1..m : v[j] = v[l] => j = l
  <2>1. SUFFICES ASSUME NEW j \in 1..m, NEW l \in 1..m, v[j] = v[l] PROVE j = l
    OBVIOUS
  <2>2. CASE j = m
    BY <1>20, <1>24, <2>1, <2>2
  <2>3. CASE l = m
    BY <1>20, <1>24, <2>1, <2>3
  <2>4. CASE j # m /\ l # m
    BY <1>7, <1>20, <2>1, <2>4
  <2>5. QED
    BY <2>2, <2>3, <2>4
<1>26. ASSUME NEW d \in Entered(D, F) PROVE \E j \in 1..m : v[j] = d
  <2>1. CASE d = e
    BY <1>20, <2>1
  <2>2. CASE d # e
    <3>1. PICK j \in 1..n : w[j] = d
      BY <1>7, <1>22, <2>2
    <3>2. j \in 1..m /\ j # m
      BY <1>7, <1>18
    <3>3. QED
      BY <1>20, <3>1, <3>2
  <2>3. QED
    BY <2>1, <2>2
<1>27. c.cycles = [j \in 1..m |-> CycleOf(v[j], F)]
  <2>1. /\ c.cycles \in Seq(S) /\ Len(c.cycles) = m /\ c.cycles[m] = x
        /\ \A j \in 1..n : c.cycles[j] = b.cycles[j]
    BY <1>16, <1>17, <1>18, AppendProperties
  <2>2. ASSUME NEW j \in 1..m PROVE c.cycles[j] = CycleOf(v[j], F)
    <3>1. CASE j = m
      BY <1>11, <1>20, <2>1, <3>1
    <3>2. CASE j # m
      <4>1. j \in 1..n /\ v[j] = w[j]
        BY <1>20, <3>2
      <4>2. c.cycles[j] = CycleOf(w[j], F0)
        BY <1>7, <2>1, <4>1
      <4>3. CycleOf(w[j], F) = CycleOf(w[j], F0)
        BY <1>21, <1>24, <4>1
      <4>4. QED
        BY <4>1, <4>2, <4>3
    <3>3. QED
      BY <3>1, <3>2
  <2>3. c.cycles \in [1..m -> S]
    BY <2>1
  <2>4. QED
    BY <2>2, <2>3
<1>28. c.active \in [Coins -> 0..m] /\ c.count \in [Coins -> Nat]
  BY <1>3, <1>7, <1>10, <1>17, <1>18
<1>29. ASSUME NEW t \in Coins PROVE ActiveIs(c.active[t], t, v, D, F)
  <2>1. CASE t = e.ca
    <3>1. c.active[t] = m
      BY <1>7, <1>17, <1>18, <2>1
    <3>2. m # 0
      BY <1>7, <1>18
    <3>3. QED
      BY <1>8, <1>20, <2>1, <3>1, <3>2 DEF ActiveIs
  <2>2. CASE t # e.ca
    <3>1. PICK j : j = b.active[t]
      OBVIOUS
    <3>2. c.active[t] = j /\ j \in 0..n /\ ActiveIs(j, t, w, D, F0)
      BY <1>2, <1>7, <1>17, <2>2, <3>1 DEF Fits
    <3>3. CASE j = 0
      <4>1. ASSUME NEW d \in Entered(D, F), d.ca = t PROVE d.exit \in F
        <5>1. d \in D /\ d # e /\ d \in Entered(D, F0)
          BY <1>22, <2>2, <4>1 DEF Entered
        <5>2. d.exit \in F0
          BY <3>2, <3>3, <4>1, <5>1 DEF ActiveIs
        <5>3. QED
          BY <1>1, <5>2
      <4>2. QED
        BY <3>2, <3>3, <4>1 DEF ActiveIs
    <3>4. CASE j # 0
      <4>1. j \in 1..n /\ w[j].ca = t /\ w[j].exit \notin F0
        BY <1>7, <3>2, <3>4 DEF ActiveIs
      <4>2. w[j].exit \notin F
        BY <1>21, <1>24, <4>1
      <4>3. v[j] = w[j]
        <5>1. j \in 1..m /\ j # m
          BY <1>7, <1>18, <4>1
        <5>2. QED
          BY <1>20, <5>1
      <4>4. QED
        BY <3>2, <3>4, <4>1, <4>2, <4>3 DEF ActiveIs
    <3>5. QED
      BY <3>3, <3>4
  <2>3. QED
    BY <2>1, <2>2
<1>30. ASSUME NEW t \in Coins PROVE Begun(c.count[t], D, t, F)
  <2>1. CASE t = e.ca
    <3>1. c.count[t] = k + 1
      BY <1>7, <1>17, <2>1
    <3>2. QED
      BY <1>10, <2>1, <3>1
  <2>2. CASE t # e.ca
    <3>1. c.count[t] = b.count[t] /\ Begun(b.count[t], D, t, F \ {f})
      BY <1>1, <1>2, <1>7, <1>17, <2>2 DEF Fits
    <3>2. QED
      BY <2>2, <3>1, BegunKept
  <2>3. QED
    BY <2>1, <2>2
<1>31. Fits(c, m, v, D, F)
  BY <1>7, <1>17, <1>20, <1>23, <1>25, <1>26, <1>27, <1>28, <1>29, <1>30 DEF Fits
<1>32. QED
  BY <1>13, <1>31

\* What the API makes of the first rows, however many.
LEMMA BooksFit ==
  ASSUME NEW D, RowsKept(fills, bar), Deals(D, fills), NEW F, Initial(F)
  PROVE  \E n, w : Fits(Books[F], n, w, D, F)
<1> DEFINE Wrong == {E \in SUBSET fills : Initial(E) /\ ~\E n, w : Fits(Books[E], n, w, D, E)}
<1>1. ASSUME Wrong # {} PROVE FALSE
  <2>1. PICK E \in Wrong : \A x \in E : E \ {x} \notin Wrong
    <3>1. Wrong \in SUBSET SUBSET fills /\ IsFiniteSet(fills)
      BY DEF RowsKept
    <3>2. QED
      <4> HIDE DEF Wrong
      <4>1. QED
        BY <1>1, <3>1, SmallestOf
  <2>2. E \in SUBSET fills /\ Initial(E) /\ ~\E n, w : Fits(Books[E], n, w, D, E)
    BY <2>1
  <2>3. CASE E = {}
    <3>1. Books[{}] = NoCycles
      BY <2>2, <2>3, BooksIs
    <3>2. PICK w : w = [i \in 1..0 |-> 0]
      OBVIOUS
    <3>3. Entered(D, {}) = {} /\ 1..0 = {}
      BY DEF Entered
    <3>4. \A t \in Coins : Begun(0, D, t, {})
      <4>1. \A d \in D : d.no \in Nat \ {0}
        BY DealIs
      <4>2. QED
        BY <4>1 DEF Begun
    <3>5. NoCycles.cycles = [i \in 1..0 |-> CycleOf(w[i], {})]
      BY <3>3 DEF NoCycles
    <3>6. NoCycles.active \in [Coins -> 0..0] /\ NoCycles.count \in [Coins -> Nat] /\ NoCycles.incomplete = 0
          /\ DOMAIN NoCycles = {"cycles", "active", "count", "incomplete"}
          /\ \A t \in Coins : NoCycles.active[t] = 0 /\ NoCycles.count[t] = 0
      BY DEF NoCycles
    <3>7. \A t \in Coins : ActiveIs(NoCycles.active[t], t, w, D, {})
      BY <3>3, <3>6 DEF ActiveIs
    <3>8. Fits(NoCycles, 0, w, D, {})
      BY <3>2, <3>3, <3>4, <3>5, <3>6, <3>7 DEF Fits
    <3>9. QED
      BY <2>2, <2>3, <3>1, <3>8
  <2>4. CASE E # {}
    <3>1. PICK f : f = LastTaken(E)
      OBVIOUS
    <3>2. f \in E /\ \A g \in E : g = f \/ TakenAfter(f, g)
      BY <2>2, <2>4, <3>1, LastIs
    <3>3. Books[E] = TakeFill(Books[E \ {f}], f)
      BY <2>2, <2>4, <3>1, BooksIs
    <3>4. PICK e \in D : f \in {e.entry, e.add, e.exit}
      BY <2>2, <3>2 DEF Deals
    <3>5. AtRow(D, E, f, e)
      BY <2>2, <3>2, <3>4 DEF AtRow
    <3>6. Initial(E \ {f}) /\ E \ {f} \in SUBSET fills
      BY <3>5, AroundRow
    <3>7. E \ {f} \notin Wrong
      BY <2>1, <3>2
    <3>8. PICK n, w : Fits(Books[E \ {f}], n, w, D, E \ {f})
      BY <3>6, <3>7
    <3>9. PICK b : b = Books[E \ {f}]
      OBVIOUS
    <3>10. Fits(b, n, w, D, E \ {f}) /\ Books[E] = TakeFill(b, f)
      BY <3>3, <3>8, <3>9
    <3>11. \E m, v : Fits(TakeFill(b, f), m, v, D, E)
      <4>1. CASE f = e.entry
        BY <3>5, <3>10, <4>1, BooksAtEntry
      <4>2. CASE f # e.entry /\ f = e.add
        BY <3>5, <3>10, <4>2, BooksAtAdd
      <4>3. CASE f # e.entry /\ f # e.add
        <5>1. f = e.exit
          BY <3>4, <4>3
        <5>2. QED
          BY <3>5, <3>10, <4>3, <5>1, BooksAtExit
      <4>4. QED
        BY <4>1, <4>2, <4>3
    <3>12. QED
      BY <2>2, <3>10, <3>11
  <2>5. QED
    BY <2>3, <2>4
<1>2. F \in SUBSET fills
  BY DEF Initial
<1>3. QED
  BY <1>1, <1>2

LEMMA WonIsInt ==
  ASSUME NEW D, RowsKept(fills, bar), Deals(D, fills), NEW d \in D
  PROVE  Won(d) \in Int /\ Paid(d) \in Int /\ Amount(d) \in Int
<1>1. d.entry \in fills \cup {NoRow} /\ d.add \in fills \cup {NoRow} /\ d.exit \in fills \cup {NoRow}
  BY DealIs
<1>2. Paid(d) \in Int /\ Amount(d) \in Int
  BY <1>1, RowTyped DEF Paid, Amount
<1>3. d.exit.gross \in Int /\ d.exit.cost \in Int
  BY <1>1, RowTyped
<1>4. QED
  BY <1>2, <1>3 DEF Won

\* The active cycle of a token, if any, is what is held of it.
LEMMA PositionTold ==
  ASSUME NEW D, RowsKept(fills, bar), Deals(D, fills), NEW t \in Coins, NEW p, HeldAs(D, t, p),
         NEW b, NEW n, NEW w, Fits(b, n, w, D, fills)
  PROVE  IF p.qty = 0 THEN b.active[t] = 0 /\ b.count[t] = p.trades
         ELSE /\ b.active[t] # 0 /\ b.count[t] = p.trades + 1
              /\ b.cycles[b.active[t]].qty = p.qty /\ b.cycles[b.active[t]].cost = p.cost
<1>1. PICK i : i = b.active[t]
  OBVIOUS
<1>2. i \in 0..n /\ n \in Nat /\ w \in [1..n -> Entered(D, fills)] /\ ActiveIs(i, t, w, D, fills)
  BY <1>1 DEF Fits
<1>3. ASSUME i # 0 PROVE i \in 1..n /\ w[i] \in D /\ w[i].ca = t /\ w[i].exit = NoRow
  <2>1. i \in 1..n /\ w[i].ca = t /\ w[i].exit \notin fills
    BY <1>2, <1>3 DEF ActiveIs
  <2>2. w[i] \in D
    BY <1>2, <2>1 DEF Entered
  <2>3. QED
    BY <2>1, <2>2, DealIs
<1>4. PICK k : k = b.count[t]
  OBVIOUS
<1>5. k \in Nat /\ Begun(k, D, t, fills)
  BY <1>4 DEF Fits
<1>6. p.trades \in Nat /\ (p.trades > 0 => \E d \in D : d.ca = t /\ d.no = p.trades)
  BY DEF HeldAs, LedgerPosition
<1>7. \A d \in D : d.ca = t => d.no \in Nat \ {0} /\ d.no <= k /\ d.entry \in fills
  BY <1>5, DealIs DEF Begun
<1>8. CASE p.qty = 0
  <2>1. \A d \in D : d.ca = t => d.exit # NoRow /\ d.no <= p.trades
    BY <1>8 DEF HeldAs
  <2>2. i = 0
    BY <1>3, <2>1
  <2>3. p.trades <= k
    BY <1>5, <1>6, <1>7
  <2>4. k <= p.trades
    <3>1. k > 0 => \E d \in D : d.ca = t /\ d.no = k
      BY <1>5 DEF Begun
    <3>2. QED
      BY <1>5, <1>6, <2>1, <3>1
  <2>5. k = p.trades
    BY <1>5, <1>6, <2>3, <2>4
  <2>6. QED
    BY <1>1, <1>4, <1>8, <2>2, <2>5
<1>9. CASE p.qty # 0
  <2>1. PICK d \in D : LeftOpen(D, t, p, d)
    BY <1>9 DEF HeldAs, LeftOpen
  <2>2. d.ca = t /\ d.exit = NoRow /\ d.no = p.trades + 1 /\ p.qty = Amount(d) /\ p.cost = Paid(d)
    BY <2>1 DEF LeftOpen
  <2>3. NoRow \notin fills
    BY RowTyped
  <2>4. i # 0
    <3>1. d \in Entered(D, fills)
      BY <1>7, <2>2 DEF Entered
    <3>2. QED
      BY <1>2, <2>2, <2>3, <3>1 DEF ActiveIs
  <2>5. \A e \in D : e.ca = t => e = d \/ Earlier(e, d)
    BY <2>2 DEF Deals, Earlier
  <2>6. w[i] = d
    BY <1>3, <2>4, <2>5 DEF Earlier
  <2>7. k = p.trades + 1
    <3>1. d.no <= k
      BY <1>7, <2>2
    <3>2. k > 0
      BY <1>5, <1>7, <2>2, <3>1
    <3>3. PICK e \in D : e.ca = t /\ e.no = k
      BY <1>5, <3>2 DEF Begun
    <3>4. e.no <= d.no
      BY <1>7, <2>2, <2>5, <3>3 DEF Earlier
    <3>5. QED
      BY <1>5, <1>7, <2>2, <3>1, <3>3, <3>4
  <2>8. b.cycles[i] = CycleOf(d, fills)
    BY <1>3, <2>4, <2>6 DEF Fits
  <2>9. d.add \in fills \cup {NoRow} /\ d.entry \in fills
    BY DealIs
  <2>10. /\ d.entry.qty \in Int /\ d.entry.gross \in Int /\ d.entry.cost \in Int
         /\ d.add.qty \in Int /\ d.add.gross \in Int /\ d.add.cost \in Int
    BY <2>9, RowTyped
  <2>11. d.add \notin fills => d.add.qty = 0 /\ d.add.gross + d.add.cost = 0
    BY <2>9 DEF NoRow
  <2>12. CycleOf(d, fills).qty = d.entry.qty + (IF d.add \in fills THEN d.add.qty ELSE 0)
         /\ CycleOf(d, fills).cost
            = d.entry.gross + d.entry.cost + (IF d.add \in fills THEN d.add.gross + d.add.cost ELSE 0)
    BY <2>2, <2>3 DEF CycleOf
  <2>13. CycleOf(d, fills).qty = Amount(d) /\ CycleOf(d, fills).cost = Paid(d)
    BY <2>10, <2>11, <2>12 DEF Amount, Paid
  <2>14. QED
    BY <1>1, <1>4, <1>9, <2>2, <2>4, <2>7, <2>8, <2>13
<1>10. QED
  BY <1>8, <1>9

\* What the closed cycles won is what the deals that are over won.
LEMMA BalanceTold ==
  ASSUME NEW D, RowsKept(fills, bar), Deals(D, fills), NEW b, NEW n, NEW w, Fits(b, n, w, D, fills)
  PROVE  Balance(b, bar) = Funds + SumFunction([d \in Exited(D) |-> Won(d)])
<1>1. PICK I : I = {j \in DOMAIN b.cycles : b.cycles[j].status = "closed" /\ b.cycles[j].sold <= bar}
  OBVIOUS
<1>2. /\ n \in Nat /\ w \in [1..n -> Entered(D, fills)] /\ b.cycles = [j \in 1..n |-> CycleOf(w[j], fills)]
      /\ (\A j, k \in 1..n : w[j] = w[k] => j = k) /\ (\A d \in Entered(D, fills) : \E j \in 1..n : w[j] = d)
  BY DEF Fits
<1>3. ASSUME NEW j \in 1..n
      PROVE  /\ w[j] \in D /\ b.cycles[j] = CycleOf(w[j], fills)
             /\ j \in I <=> w[j] \in Exited(D)
             /\ w[j] \in Exited(D) => b.cycles[j].pnl = Won(w[j])
  <2>1. w[j] \in D /\ b.cycles[j] = CycleOf(w[j], fills)
    BY <1>2 DEF Entered
  <2>2. PICK d \in D : d = w[j]
    BY <2>1
  <2>3. d.exit \in fills => d.exit.time \in 1..bar
    BY DEF RowsKept
  <2>4. d.exit \in fills <=> d \in Exited(D)
    BY DealIs, RowTyped DEF Exited
  <2>5. DOMAIN b.cycles = 1..n
    BY <1>2
  <2>6. /\ CycleOf(d, fills).status = IF d.exit \in fills THEN "closed" ELSE "open"
        /\ CycleOf(d, fills).sold = IF d.exit \in fills THEN d.exit.time ELSE 0
        /\ CycleOf(d, fills).pnl = IF d.exit \in fills THEN Won(d) ELSE 0
    BY DEF CycleOf
  <2>7. bar \in Nat
    BY DEF RowsKept
  <2>8. QED
    BY <1>1, <2>1, <2>2, <2>3, <2>4, <2>5, <2>6, <2>7
<1>4. I \in SUBSET (1..n) /\ IsFiniteSet(I)
  <2>1. I \in SUBSET (1..n)
    BY <1>1, <1>2
  <2>2. QED
    <3>1. IsFiniteSet(1..n)
      BY <1>2, FS_Interval
    <3>2. QED
      BY <2>1, <3>1, FS_Subset
<1>5. PICK T : T = Exited(D)
  OBVIOUS
<1>6. IsFiniteSet(T) /\ T \in SUBSET D
  BY <1>5, FS_Subset DEF Exited, Deals
<1>7. PICK f : f = [i \in I |-> b.cycles[i].pnl]
  OBVIOUS
<1>8. PICK e : e = [d \in T |-> Won(d)]
  OBVIOUS
<1>9. e \in [T -> Int]
  BY <1>6, <1>8, WonIsInt
<1>10. PICK g : g = [i \in I |-> w[i]]
  OBVIOUS
<1>11. g \in [I -> T] /\ (\A x, y \in I : g[x] = g[y] => x = y) /\ f \in [I -> Int] /\ \A x \in I : f[x] = e[g[x]]
  <2>1. ASSUME NEW x \in I PROVE g[x] = w[x] /\ w[x] \in T /\ f[x] = Won(w[x]) /\ e[w[x]] = Won(w[x]) /\ Won(w[x]) \in Int
    <3>1. x \in 1..n /\ w[x] \in T
      BY <1>3, <1>4, <1>5
    <3>2. f[x] = Won(w[x]) /\ Won(w[x]) \in Int
      BY <1>3, <1>5, <1>6, <1>7, <3>1, WonIsInt
    <3>3. QED
      BY <1>8, <1>10, <3>1, <3>2
  <2>2. g \in [I -> T]
    BY <1>10, <2>1
  <2>3. f \in [I -> Int]
    BY <1>7, <2>1
  <2>4. \A x, y \in I : g[x] = g[y] => x = y
    BY <1>2, <1>4, <2>1
  <2>5. \A x \in I : f[x] = e[g[x]]
    BY <2>1
  <2>6. QED
    BY <2>2, <2>3, <2>4, <2>5
<1>12. \A z \in T : \E x \in I : g[x] = z
  <2>1. SUFFICES ASSUME NEW z \in T PROVE \E x \in I : g[x] = z
    OBVIOUS
  <2>2. z \in Entered(D, fills)
    BY <1>6, DealIs DEF Entered
  <2>3. PICK x \in 1..n : w[x] = z
    BY <1>2, <2>2
  <2>4. x \in I
    BY <1>3, <1>5, <2>3
  <2>5. QED
    BY <1>10, <2>3, <2>4
<1>13. SumFunction(f) = SumFunction(e)
  <2>1. Reordered(f, I, e, T, g)
    BY <1>4, <1>6, <1>9, <1>11, <1>12 DEF Reordered
  <2>2. QED
    BY <2>1, SumReordered
<1>14. QED
  BY <1>1, <1>5, <1>7, <1>8, <1>13 DEF Balance

LEMMA RowsTell == LedgerInv => RowsTellPositions
<1> SUFFICES ASSUME LedgerInv PROVE RowsTellPositions
  OBVIOUS
<1>1. PICK D : DealsBooked(D, fills, Whole, account)
  BY DEF LedgerInv
<1>2. RowsKept(fills, bar) /\ Deals(D, fills)
  BY <1>1 DEF LedgerInv, DealsBooked
<1>3. Initial(fills)
  BY DEF Initial
<1>4. PICK n, w : Fits(Books[fills], n, w, D, fills)
  BY <1>2, <1>3, BooksFit
<1>5. PICK b : b = Portfolio
  OBVIOUS
<1>6. Fits(b, n, w, D, fills)
  BY <1>4, <1>5 DEF Portfolio
<1>7. b.incomplete = 0
  BY <1>6 DEF Fits
<1>8. ASSUME NEW t \in Coins
      PROVE  IF position[t].qty = 0 THEN b.active[t] = 0 /\ b.count[t] = earlier[t] + position[t].trades
             ELSE /\ b.active[t] # 0 /\ b.count[t] = earlier[t] + position[t].trades + 1
                  /\ b.cycles[b.active[t]].qty = position[t].qty /\ b.cycles[b.active[t]].cost = position[t].cost
  <2>1. PICK p : p = Whole[t]
    OBVIOUS
  <2>2. HeldAs(D, t, p)
    BY <1>1, <2>1 DEF DealsBooked
  <2>3. IF p.qty = 0 THEN b.active[t] = 0 /\ b.count[t] = p.trades
        ELSE /\ b.active[t] # 0 /\ b.count[t] = p.trades + 1
             /\ b.cycles[b.active[t]].qty = p.qty /\ b.cycles[b.active[t]].cost = p.cost
    BY <1>2, <1>6, <2>2, PositionTold
  <2>4. p.qty = position[t].qty /\ p.cost = position[t].cost /\ p.trades = earlier[t] + position[t].trades
    BY <2>1, WholeIs DEF LedgerInv
  <2>5. QED
    BY <2>3, <2>4
<1>9. Balance(b, bar) = Funds + account.pnl
  BY <1>1, <1>2, <1>6, BalanceTold DEF DealsBooked
<1>10. account.cash + SumFunction([t \in Coins |-> position[t].cost]) = Balance(b, bar)
  <2>1. [t \in Coins |-> position[t].cost] = [t \in Coins |-> Whole[t].cost]
    BY WholeIs DEF LedgerInv
  <2>2. QED
    BY <1>9, <2>1 DEF LedgerInv
<1>11. QED
  BY <1>5, <1>7, <1>8, <1>9, <1>10 DEF RowsTellPositions

(* ------------------------- Ledger: numbers on the chart -------------------- *)
LabelsOk(l, D, t) ==
  \A d \in D : d.ca = t => \A r \in {d.entry, d.add, d.exit} : r \in fills /\ r.id \in DOMAIN l => l[r.id] = d.no
NumbersOk(c, D, t, F) ==
  /\ \A k \in DOMAIN c : \E d \in D : d.ca = t /\ d.entry \in F /\ d.entry.id = k
  /\ \A d \in D : d.ca = t /\ d.entry \in F => d.entry.id \in DOMAIN c /\ c[d.entry.id] = d.no
Marked(m, D, t, F) ==
  /\ DOMAIN m = {"count", "cycles", "labels"} /\ Begun(m.count, D, t, F)
  /\ NumbersOk(m.cycles, D, t, F) /\ LabelsOk(m.labels, D, t)

LEMMA LabelPut ==
  ASSUME NEW D, RowsKept(fills, bar), Deals(D, fills), NEW e \in D, NEW f \in fills, f \in {e.entry, e.add, e.exit},
         NEW l, LabelsOk(l, D, e.ca),
         NEW h, h = [x \in DOMAIN l \cup {f.id} |-> IF x = f.id THEN e.no ELSE l[x]]
  PROVE  LabelsOk(h, D, e.ca)
<1>1. SUFFICES ASSUME NEW d \in D, d.ca = e.ca, NEW r \in {d.entry, d.add, d.exit}, r \in fills, r.id \in DOMAIN h
               PROVE  h[r.id] = d.no
  BY DEF LabelsOk
<1>2. CASE r.id = f.id
  <2>1. r = f
    BY <1>1, <1>2 DEF RowsKept
  <2>2. d = e
    BY <1>1, <2>1, TwoDeals
  <2>3. QED
    BY <1>1, <1>2, <2>2
<1>3. CASE r.id # f.id
  <2>1. r.id \in DOMAIN l /\ h[r.id] = l[r.id]
    BY <1>1, <1>3
  <2>2. QED
    BY <1>1, <2>1 DEF LabelsOk
<1>4. QED
  BY <1>2, <1>3

\* A row of another token leaves them as they are.
LEMMA MarksPast ==
  ASSUME NEW D, NEW F, NEW f, NEW e, AtRow(D, F, f, e), NEW t, t # e.ca, NEW m, Marked(m, D, t, F \ {f})
  PROVE  Marked(m, D, t, F)
<1>1. PICK F0 : F0 = F \ {f}
  OBVIOUS
<1>2. \A d \in D : d.ca = t => (d.entry \in F <=> d.entry \in F0)
  <2>1. SUFFICES ASSUME NEW d \in D, d.ca = t PROVE d.entry \in F <=> d.entry \in F0
    OBVIOUS
  <2>2. d # e
    BY <2>1
  <2>3. QED
    BY <1>1, <2>2, CycleKept
<1>3. Begun(m.count, D, t, F \ {f}) /\ NumbersOk(m.cycles, D, t, F0) /\ LabelsOk(m.labels, D, t)
      /\ DOMAIN m = {"count", "cycles", "labels"}
  BY <1>1 DEF Marked
<1>4. Begun(m.count, D, t, F)
  BY <1>3, BegunKept
<1>5. NumbersOk(m.cycles, D, t, F)
  BY <1>2, <1>3 DEF NumbersOk
<1>6. QED
  BY <1>3, <1>4, <1>5 DEF Marked

LEMMA MarksAtEntry ==
  ASSUME NEW D, NEW F, NEW f, NEW e, AtRow(D, F, f, e), f = e.entry, NEW m, Marked(m, D, e.ca, F \ {f})
  PROVE  Marked(Numbered(m, f), D, e.ca, F)
<1>1. PICK F0 : F0 = F \ {f}
  OBVIOUS
<1>2. e \in D /\ f \in fills /\ RowsKept(fills, bar) /\ Deals(D, fills) /\ f \in F
  BY DEF AtRow, Initial
<1>3. DealOf(e, fills) /\ f.id # 0
  BY <1>2, DealIs, RowsInOrder
<1>4. f.side = "buy" /\ f.position \in {0, f.id}
  BY <1>3 DEF DealOf
<1>5. /\ DOMAIN m = {"count", "cycles", "labels"} /\ Begun(m.count, D, e.ca, F0)
      /\ NumbersOk(m.cycles, D, e.ca, F0) /\ LabelsOk(m.labels, D, e.ca)
  BY <1>1 DEF Marked
<1>6. f.id \notin DOMAIN m.cycles
  <2>1. SUFFICES ASSUME f.id \in DOMAIN m.cycles PROVE FALSE
    OBVIOUS
  <2>2. PICK d \in D : d.ca = e.ca /\ d.entry \in F0 /\ d.entry.id = f.id
    BY <1>5, <2>1 DEF NumbersOk
  <2>3. d.entry = f
    BY <1>2, <2>2, DealIs DEF RowsKept
  <2>4. QED
    BY <1>1, <2>2, <2>3
<1>7. e.no = m.count + 1 /\ Begun(m.count + 1, D, e.ca, F)
  <2>1. AtRow(D, F, e.entry, e) /\ Begun(m.count, D, e.ca, F \ {e.entry})
    BY <1>1, <1>5
  <2>2. QED
    BY <2>1, NextNumber
<1>8. PICK c : c = [x \in DOMAIN m.cycles \cup {f.id} |-> IF x = f.id THEN e.no ELSE m.cycles[x]]
  OBVIOUS
<1>9. PICK h : h = [x \in DOMAIN m.labels \cup {f.id} |-> IF x = f.id THEN e.no ELSE m.labels[x]]
  OBVIOUS
<1>10. Numbered(m, f) = [count |-> e.no, cycles |-> c, labels |-> h]
  <2>1. (IF f.position # 0 THEN f.position ELSE f.id) = f.id
    BY <1>3, <1>4
  <2>2. f.id \in DOMAIN c /\ c[f.id] = e.no
    BY <1>8
  <2>3. QED
    BY <1>4, <1>6, <1>7, <1>8, <1>9, <2>1, <2>2 DEF Numbered
<1>11. NumbersOk(c, D, e.ca, F)
  <2>1. ASSUME NEW k \in DOMAIN c PROVE \E d \in D : d.ca = e.ca /\ d.entry \in F /\ d.entry.id = k
    <3>1. CASE k = f.id
      BY <1>2, <3>1
    <3>2. CASE k # f.id
      <4>1. k \in DOMAIN m.cycles
        BY <1>8, <3>2
      <4>2. QED
        BY <1>1, <1>5, <4>1 DEF NumbersOk
    <3>3. QED
      BY <3>1, <3>2
  <2>2. ASSUME NEW d \in D, d.ca = e.ca, d.entry \in F PROVE d.entry.id \in DOMAIN c /\ c[d.entry.id] = d.no
    <3>1. CASE d = e
      BY <1>8, <3>1
    <3>2. CASE d # e
      <4>1. d.entry \in F0
        <5>1. f \notin {d.entry, d.add, d.exit}
          BY <1>2, <3>2, TwoDeals
        <5>2. QED
          BY <1>1, <2>2, <5>1
      <4>2. d.entry.id \in DOMAIN m.cycles /\ m.cycles[d.entry.id] = d.no
        BY <1>5, <2>2, <4>1 DEF NumbersOk
      <4>3. d.entry.id # f.id
        BY <1>6, <4>2
      <4>4. QED
        BY <1>8, <4>2, <4>3
    <3>3. QED
      BY <3>1, <3>2
  <2>3. QED
    BY <2>1, <2>2 DEF NumbersOk
<1>12. LabelsOk(h, D, e.ca)
  BY <1>2, <1>5, <1>9, LabelPut
<1>13. Begun(e.no, D, e.ca, F)
  BY <1>7
<1>14. QED
  BY <1>10, <1>11, <1>12, <1>13 DEF Marked

LEMMA MarksAfter ==
  ASSUME NEW D, NEW F, NEW f, NEW e, AtRow(D, F, f, e), f # e.entry, f.reason = "add" => f.position # 0,
         NEW m, Marked(m, D, e.ca, F \ {f})
  PROVE  Marked(Numbered(m, f), D, e.ca, F)
<1>1. PICK F0 : F0 = F \ {f}
  OBVIOUS
<1>2. e \in D /\ f \in fills /\ RowsKept(fills, bar) /\ Deals(D, fills) /\ f \in F /\ f \in {e.add, e.exit}
  BY DEF AtRow, Initial
<1>3. DealOf(e, fills) /\ f.id # 0 /\ e.entry.id # 0 /\ f # NoRow /\ e.entry \in fills
  BY <1>2, DealIs, RowsInOrder, RowTyped
<1>4. /\ f.position \in {0, e.entry.id} /\ (f.side = "buy" => f.reason = "add")
  BY <1>2, <1>3 DEF DealOf
<1>5. /\ DOMAIN m = {"count", "cycles", "labels"} /\ Begun(m.count, D, e.ca, F0)
      /\ NumbersOk(m.cycles, D, e.ca, F0) /\ LabelsOk(m.labels, D, e.ca)
  BY <1>1 DEF Marked
<1>6. e.entry \in F0
  <2>1. e.entry.time < f.time
    BY <1>2, DealIs
  <2>2. QED
    BY <1>1, <1>3, <2>1, AroundRow
<1>7. e.entry.id \in DOMAIN m.cycles /\ m.cycles[e.entry.id] = e.no
  BY <1>2, <1>5, <1>6 DEF NumbersOk
<1>8. f.id \notin DOMAIN m.cycles
  <2>1. SUFFICES ASSUME f.id \in DOMAIN m.cycles PROVE FALSE
    OBVIOUS
  <2>2. PICK d \in D : d.ca = e.ca /\ d.entry \in F0 /\ d.entry.id = f.id
    BY <1>5, <2>1 DEF NumbersOk
  <2>3. d.entry = f
    BY <1>2, <2>2, DealIs DEF RowsKept
  <2>4. QED
    BY <1>1, <2>2, <2>3
<1>9. PICK h : h = [x \in DOMAIN m.labels \cup {f.id} |-> IF x = f.id THEN e.no ELSE m.labels[x]]
  OBVIOUS
<1>10. LabelsOk(h, D, e.ca)
  BY <1>2, <1>5, <1>9, LabelPut
<1>11. PICK k : k = IF f.position # 0 THEN f.position ELSE f.id
  OBVIOUS
<1>12. ~(f.side = "buy" /\ (k \notin DOMAIN m.cycles \/ (f.reason # "add" /\ f.position = 0)))
  BY <1>4, <1>7, <1>11
<1>13. Numbered(m, f) = [count |-> m.count, cycles |-> m.cycles,
                         labels |-> IF k \in DOMAIN m.cycles
                                    THEN [x \in DOMAIN m.labels \cup {f.id} |-> IF x = f.id THEN m.cycles[k] ELSE m.labels[x]]
                                    ELSE m.labels]
  BY <1>11, <1>12 DEF Numbered
<1>14. Numbered(m, f).count = m.count /\ Numbered(m, f).cycles = m.cycles /\ Numbered(m, f).labels \in {h, m.labels}
       /\ DOMAIN Numbered(m, f) = {"count", "cycles", "labels"}
  <2>1. CASE f.position # 0
    <3>1. k = e.entry.id
      BY <1>4, <1>11, <2>1
    <3>2. QED
      BY <1>7, <1>9, <1>13, <3>1
  <2>2. CASE f.position = 0
    <3>1. k \notin DOMAIN m.cycles
      BY <1>8, <1>11, <2>2
    <3>2. QED
      BY <1>13, <3>1
  <2>3. QED
    BY <2>1, <2>2
<1>15. NumbersOk(m.cycles, D, e.ca, F)
  <2>1. \A d \in D : d.ca = e.ca => (d.entry \in F <=> d.entry \in F0)
    <3>1. SUFFICES ASSUME NEW d \in D PROVE d.entry \in F <=> d.entry \in F0
      OBVIOUS
    <3>2. CASE d = e
      BY <1>1, <1>6, <3>2
    <3>3. CASE d # e
      BY <1>1, <3>3, CycleKept
    <3>4. QED
      BY <3>2, <3>3
  <2>2. QED
    BY <1>5, <2>1 DEF NumbersOk
<1>16. Begun(m.count, D, e.ca, F)
  <2>1. Begun(m.count, D, e.ca, F \ {f})
    BY <1>1, <1>5
  <2>2. QED
    BY <2>1, BegunKept
<1>17. QED
  BY <1>5, <1>10, <1>14, <1>15, <1>16 DEF Marked

\* What the chart has of a token after the first rows, however many.
OfToken(F, t) == {f \in F : f.ca = t}
LEMMA MarksFit ==
  ASSUME NEW D, RowsKept(fills, bar), Deals(D, fills), \A f \in fills : f.reason = "add" => f.position # 0,
         NEW t, NEW F, Initial(F)
  PROVE  Marked(Markers[OfToken(F, t)], D, t, F)
<1> DEFINE Wrong == {E \in SUBSET fills : Initial(E) /\ ~Marked(Markers[OfToken(E, t)], D, t, E)}
<1>1. ASSUME Wrong # {} PROVE FALSE
  <2>1. PICK E \in Wrong : \A x \in E : E \ {x} \notin Wrong
    <3>1. Wrong \in SUBSET SUBSET fills /\ IsFiniteSet(fills)
      BY DEF RowsKept
    <3>2. QED
      <4> HIDE DEF Wrong
      <4>1. QED
        BY <1>1, <3>1, SmallestOf
  <2>2. E \in SUBSET fills /\ Initial(E) /\ ~Marked(Markers[OfToken(E, t)], D, t, E)
    BY <2>1
  <2>3. CASE E = {}
    <3>1. OfToken({}, t) = {}
      BY DEF OfToken
    <3>2. Markers[{}] = NoMarkers
      BY <2>2, <2>3, MarkersIs
    <3>3. Begun(0, D, t, {})
      <4>1. \A d \in D : d.no \in Nat \ {0}
        BY DealIs
      <4>2. QED
        BY <4>1 DEF Begun
    <3>4. NoMarkers.count = 0 /\ NoMarkers.cycles = <<>> /\ NoMarkers.labels = <<>>
          /\ DOMAIN NoMarkers = {"count", "cycles", "labels"}
      BY DEF NoMarkers
    <3>5. PICK s : s = NoMarkers.cycles
      OBVIOUS
    <3>6. DOMAIN s = {}
      BY <3>4, <3>5
    <3>7. NumbersOk(s, D, t, {}) /\ LabelsOk(s, D, t)
      BY <3>6 DEF NumbersOk, LabelsOk
    <3>8. Marked(NoMarkers, D, t, {})
      BY <3>3, <3>4, <3>5, <3>7 DEF Marked
    <3>9. QED
      BY <2>2, <2>3, <3>1, <3>2, <3>8
  <2>4. CASE E # {}
    <3>1. PICK f : f = LastTaken(E)
      OBVIOUS
    <3>2. f \in E /\ \A g \in E : g = f \/ TakenAfter(f, g)
      BY <2>2, <2>4, <3>1, LastIs
    <3>3. PICK e \in D : f \in {e.entry, e.add, e.exit}
      BY <2>2, <3>2 DEF Deals
    <3>4. AtRow(D, E, f, e)
      BY <2>2, <3>2, <3>3 DEF AtRow
    <3>5. Initial(E \ {f}) /\ E \ {f} \in SUBSET fills /\ f.ca = e.ca /\ f \in fills
      BY <3>4, AroundRow
    <3>6. Marked(Markers[OfToken(E \ {f}, t)], D, t, E \ {f})
      <4>1. E \ {f} \notin Wrong
        BY <2>1, <3>2
      <4>2. QED
        BY <3>5, <4>1
    <3>7. PICK m : m = Markers[OfToken(E \ {f}, t)]
      OBVIOUS
    <3>8. Marked(m, D, t, E \ {f})
      BY <3>6, <3>7
    <3>9. CASE f.ca # t
      <4>1. OfToken(E, t) = OfToken(E \ {f}, t)
        BY <3>9 DEF OfToken
      <4>2. Marked(m, D, t, E)
        BY <3>4, <3>5, <3>8, <3>9, MarksPast
      <4>3. QED
        BY <2>2, <3>7, <4>1, <4>2
    <3>10. CASE f.ca = t
      <4>1. PICK R : R = OfToken(E, t)
        OBVIOUS
      <4>2. R \in SUBSET fills /\ f \in R /\ R \ {f} = OfToken(E \ {f}, t) /\ \A g \in R : g = f \/ TakenAfter(f, g)
        BY <2>2, <3>2, <3>10, <4>1 DEF OfToken
      <4>3. LastTaken(R) = f
        <5>1. R # {} /\ LastTaken(R) \in R /\ \A g \in R : g = LastTaken(R) \/ TakenAfter(LastTaken(R), g)
          BY <4>2, LastIs
        <5>2. QED
          BY <4>2, <5>1, RowsInOrder
      <4>4. Markers[R] = Numbered(m, f)
        <5>1. Markers[R] = Numbered(Markers[R \ {f}], f)
          BY <4>2, <4>3, MarkersIs
        <5>2. QED
          BY <3>7, <4>2, <5>1
      <4>5. Marked(Numbered(m, f), D, t, E)
        <5>1. Marked(m, D, e.ca, E \ {f}) /\ t = e.ca /\ (f.reason = "add" => f.position # 0)
          BY <3>5, <3>8, <3>10
        <5>2. CASE f = e.entry
          BY <3>4, <5>1, <5>2, MarksAtEntry
        <5>3. CASE f # e.entry
          BY <3>4, <5>1, <5>3, MarksAfter
        <5>4. QED
          BY <5>2, <5>3
      <4>6. QED
        BY <2>2, <4>1, <4>4, <4>5
    <3>11. QED
      BY <3>9, <3>10
  <2>5. QED
    BY <2>3, <2>4
<1>2. F \in SUBSET fills
  BY DEF Initial
<1>3. QED
  BY <1>1, <1>2

LEMMA LabelsTell == LedgerInv => LabelsAgree
<1>0. SUFFICES ASSUME LedgerInv, \A f \in fills : f.reason = "add" => f.position # 0,
                      NEW c \in ToSet(Portfolio.cycles), NEW x \in c.orders, x \in DOMAIN [t \in Coins |-> Labels(t)][c.ca]
               PROVE  [t \in Coins |-> Labels(t)][c.ca][x] = c.no
  BY DEF LabelsAgree
<1>1. PICK D : DealsBooked(D, fills, Whole, account)
  BY <1>0 DEF LedgerInv
<1>2. RowsKept(fills, bar) /\ Deals(D, fills)
  BY <1>0, <1>1 DEF LedgerInv, DealsBooked
<1>3. Initial(fills)
  BY DEF Initial
<1>4. PICK n, w : Fits(Books[fills], n, w, D, fills)
  BY <1>2, <1>3, BooksFit
<1>5. PICK b : b = Portfolio
  OBVIOUS
<1>6. Fits(b, n, w, D, fills)
  BY <1>4, <1>5 DEF Portfolio
<1>7. n \in Nat /\ w \in [1..n -> Entered(D, fills)] /\ b.cycles = [i \in 1..n |-> CycleOf(w[i], fills)]
  BY <1>6 DEF Fits
<1>8. PICK i \in 1..n : c = b.cycles[i]
  BY <1>0, <1>5, <1>7 DEF ToSet
<1>9. PICK d \in D : d = w[i]
  BY <1>7 DEF Entered
<1>10. c = CycleOf(d, fills)
  BY <1>7, <1>8, <1>9
<1>11. c.ca = d.ca /\ c.no = d.no /\ c.orders = {r.id : r \in {d.entry, d.add, d.exit} \cap fills} /\ d.ca \in Coins
  BY <1>2, <1>10, DealIs DEF CycleOf
<1>12. PICK r \in {d.entry, d.add, d.exit} \cap fills : x = r.id
  BY <1>0, <1>11
<1>13. PICK l : l = Labels(d.ca)
  OBVIOUS
<1>14. LabelsOk(l, D, d.ca)
  <2>1. Marked(Markers[OfToken(fills, d.ca)], D, d.ca, fills)
    BY <1>0, <1>2, <1>3, MarksFit
  <2>2. l = Markers[OfToken(fills, d.ca)].labels
    BY <1>13 DEF Labels, OfToken
  <2>3. QED
    BY <2>1, <2>2 DEF Marked
<1>15. [t \in Coins |-> Labels(t)][c.ca] = l
  BY <1>11, <1>13
<1>16. l[r.id] = d.no
  BY <1>0, <1>12, <1>14, <1>15 DEF LabelsOk
<1>17. QED
  BY <1>11, <1>12, <1>15, <1>16

(* ------------------------- Ledger: every step ----------------------------- *)
LEMMA SumOfZeros == ASSUME NEW S, IsFiniteSet(S), NEW f \in [S -> {0}] PROVE SumFunction(f) = 0
<1>1. DOMAIN f = S /\ f \in [S -> Int]
  OBVIOUS
<1>2. PICK g : g = SumBy(f, DOMAIN f)
  OBVIOUS
<1>3. SumFunction(f) = g[S] /\ SumsUp(g, f, S)
  BY <1>1, <1>2, SumFunctionIs
<1> DEFINE Wrong == {T \in SUBSET S : g[T] # 0}
<1>4. ASSUME Wrong # {} PROVE FALSE
  <2>1. PICK T \in Wrong : \A x \in T : T \ {x} \notin Wrong
    <3>1. Wrong \in SUBSET SUBSET S
      OBVIOUS
    <3>2. QED
      <4> HIDE DEF Wrong
      <4>1. QED
        BY <1>4, <3>1, SmallestOf
  <2>2. T \in SUBSET S /\ T # {} /\ g[T] # 0
    BY <1>3, <2>1 DEF SumsUp
  <2>3. Picked(T) \in T
    BY <2>2, PickedIn
  <2>4. g[T] = f[Picked(T)] + g[T \ {Picked(T)}]
    BY <1>3, <2>2 DEF SumsUp
  <2>5. g[T \ {Picked(T)}] = 0 /\ f[Picked(T)] = 0
    BY <2>1, <2>2, <2>3
  <2>6. QED
    BY <2>2, <2>4, <2>5
<1>5. QED
  BY <1>3, <1>4

LEMMA NewId ==
  ASSUME IsFiniteSet(fills), NEW id \in NewIds
  PROVE  id \in 1..MaxFills /\ \A f \in fills : f.id # id
<1>1. PICK free : free = (1..MaxFills) \ {f.id : f \in fills}
  OBVIOUS
<1>2. free # {} /\ id \in {Min(free), Max(free)}
  BY <1>1 DEF NewIds
<1>3. MaxFills \in Nat /\ free \in SUBSET Nat
  BY <1>1, LedgerAssumption
<1>4. Min(free) \in free
  BY <1>2, <1>3, MinIsLeast
<1>5. Max(free) \in free
  <2>1. PICK low : low = {MaxFills - x : x \in free}
    OBVIOUS
  <2>2. low \in SUBSET Nat /\ low # {}
    BY <1>1, <1>2, <1>3, <2>1
  <2>3. PICK m : m = Min(low)
    OBVIOUS
  <2>4. m \in low /\ \A y \in low : m <= y
    BY <2>2, <2>3, MinIsLeast
  <2>5. PICK x \in free : m = MaxFills - x
    BY <2>1, <2>4
  <2>6. \A y \in free : x >= y
    <3>1. SUFFICES ASSUME NEW y \in free PROVE x >= y
      OBVIOUS
    <3>2. MaxFills - y \in low
      BY <2>1
    <3>3. m <= MaxFills - y
      BY <2>4, <3>2
    <3>4. x \in Nat /\ y \in Nat
      BY <1>3
    <3>5. QED
      BY <1>3, <2>5, <3>3, <3>4
  <2>7. QED
    BY <2>6 DEF Max
<1>6. id \in free
  BY <1>2, <1>4, <1>5
<1>7. QED
  BY <1>1, <1>6

LEMMA ChargeIsInt == ASSUME NEW g \in Int PROVE Charge(g) \in Int
<1>1. CostRate \in Nat
  BY LedgerAssumption
<1>2. PICK m \in Int : m = g * CostRate
  BY <1>1
<1>3. m \div 100 \in Int
  OBVIOUS
<1>4. QED
  BY <1>2, <1>3 DEF Charge

\* The row of a fill joins the others.
LEMMA RowsKeptWith ==
  ASSUME RowsKept(fills, bar), NEW row \in LedgerRow, row.time = bar, Quiet(row.ca), \A f \in fills : f.id # row.id
  PROVE  RowsKept(fills \cup {row}, bar) /\ row \notin fills /\ row # NoRow
<1>1. IsFiniteSet(fills \cup {row})
  BY FS_AddElement DEF RowsKept
<1>2. row.time \in 1..bar
  BY DEF RowsKept
<1>3. ASSUME NEW f \in fills, f.id = row.id \/ (f.ca = row.ca /\ f.time = row.time) PROVE FALSE
  BY <1>3 DEF RowsKept, Quiet
<1>4. RowsKept(fills \cup {row}, bar)
  BY <1>1, <1>2, <1>3 DEF RowsKept
<1>5. row # NoRow
  BY LedgerAssumption DEF LedgerRow, NoRow
<1>6. QED
  BY <1>3, <1>4, <1>5

\* What is held of a token depends on its own deals only.
LEMMA HeldKept ==
  ASSUME NEW D, NEW E, NEW t, NEW p, HeldAs(D, t, p), \A d : d.ca = t => (d \in D <=> d \in E)
  PROVE  HeldAs(E, t, p)
<1>1. CASE p.qty = 0
  BY <1>1 DEF HeldAs
<1>2. CASE p.qty # 0
  <2>1. PICK d \in D : LeftOpen(D, t, p, d)
    BY <1>2 DEF HeldAs, LeftOpen
  <2>2. d \in E /\ LeftOpen(E, t, p, d)
    BY <2>1 DEF LeftOpen
  <2>3. QED
    BY <1>2, <2>2 DEF HeldAs
<1>3. QED
  BY <1>1, <1>2

LEMMA DealKept ==
  ASSUME NEW F, NEW row, NEW d, DealOf(d, F)
  PROVE  DealOf(d, F \cup {row})
<1>1. d \in [ca : Coins, no : Nat \ {0}, entry : F \cup {row}, add : F \cup {row} \cup {NoRow}, exit : F \cup {row} \cup {NoRow}]
  BY DEF DealOf
<1>2. QED
  BY <1>1 DEF DealOf

\* A new deal is the next of its token: k are over.
AllOver(k, D, t) ==
  k \in Nat /\ (\A d \in D : d.ca = t => d.exit # NoRow /\ d.no <= k) /\ (k > 0 => \E d \in D : d.ca = t /\ d.no = k)
LEMMA DealOpens ==
  ASSUME NEW D, RowsKept(fills, bar), Deals(D, fills), NEW t, NEW k, AllOver(k, D, t), NEW row, NEW n,
         n = [ca |-> t, no |-> k + 1, entry |-> row, add |-> NoRow, exit |-> NoRow],
         DealOf(n, fills \cup {row}), row.time = bar, Quiet(t)
  PROVE  Deals(D \cup {n}, fills \cup {row})
<1>0. /\ k \in Nat /\ (\A d \in D : d.ca = t => d.exit # NoRow /\ d.no <= k) /\ (k > 0 => \E d \in D : d.ca = t /\ d.no = k)
      /\ \A f \in fills : f.ca = t => f.time < row.time
  BY DEF AllOver, Quiet
<1>1. IsFiniteSet(D \cup {n})
  BY FS_AddElement DEF Deals
<1>2. \A d \in D \cup {n} : DealOf(d, fills \cup {row})
  BY DealKept DEF Deals
<1>3. \A f \in fills \cup {row} : \E d \in D \cup {n} : f \in {d.entry, d.add, d.exit}
  BY DEF Deals
<1>4. ASSUME NEW d \in D, d.ca = t PROVE Earlier(d, n)
  <2>1. d.exit \in fills /\ d.exit.ca = t /\ d.no <= k /\ d.no \in Nat
    BY <1>0, <1>4, DealIs
  <2>2. d.exit.time < row.time
    BY <1>0, <2>1
  <2>3. QED
    BY <1>0, <1>4, <2>1, <2>2 DEF Earlier
<1>5. \A d, e \in D \cup {n} : d.ca = e.ca => d = e \/ Earlier(d, e) \/ Earlier(e, d)
  <2>1. SUFFICES ASSUME NEW d \in D \cup {n}, NEW e \in D \cup {n}, d.ca = e.ca
                 PROVE  d = e \/ Earlier(d, e) \/ Earlier(e, d)
    OBVIOUS
  <2>2. CASE d \in D /\ e \in D
    BY <2>1, <2>2 DEF Deals
  <2>3. CASE d = n \/ e = n
    BY <1>4, <2>1, <2>3
  <2>4. QED
    BY <2>2, <2>3
<1>6. ASSUME NEW d \in D \cup {n}, NEW x \in 1..d.no PROVE \E e \in D \cup {n} : e.ca = d.ca /\ e.no = x
  <2>1. CASE d \in D
    BY <2>1 DEF Deals
  <2>2. CASE d = n
    <3>1. CASE x = k + 1
      BY <2>2, <3>1
    <3>2. CASE x # k + 1
      <4>1. x \in 1..k /\ k > 0
        BY <1>0, <2>2, <3>2
      <4>2. PICK e \in D : e.ca = t /\ e.no = k
        BY <1>0, <4>1
      <4>3. QED
        BY <2>2, <4>1, <4>2 DEF Deals
    <3>3. QED
      BY <3>1, <3>2
  <2>3. QED
    BY <2>1, <2>2
<1>7. QED
  BY <1>1, <1>2, <1>3, <1>5, <1>6 DEF Deals

\* The open deal of a token goes on with one more row.
LEMMA DealGoesOn ==
  ASSUME NEW D, RowsKept(fills, bar), Deals(D, fills), NEW row, NEW d \in D, d.exit = NoRow, NEW n,
         n.ca = d.ca, n.no = d.no, n.entry = d.entry, DealOf(n, fills \cup {row}),
         \A f \in fills \cup {row} : f \in {d.entry, d.add, row} => f \in {n.entry, n.add, n.exit}
  PROVE  Deals((D \ {d}) \cup {n}, fills \cup {row})
<1>1. PICK E : E = (D \ {d}) \cup {n}
  OBVIOUS
<1>2. IsFiniteSet(E)
  BY <1>1, FS_AddElement, FS_RemoveElement DEF Deals
<1>3. \A e \in E : DealOf(e, fills \cup {row})
  BY <1>1, DealKept DEF Deals
<1>4. ASSUME NEW f \in fills \cup {row} PROVE \E e \in E : f \in {e.entry, e.add, e.exit}
  <2>1. CASE f = row
    BY <1>1, <2>1
  <2>2. CASE f \in fills
    <3>1. PICK e \in D : f \in {e.entry, e.add, e.exit}
      BY <2>2 DEF Deals
    <3>2. CASE e = d
      <4>1. f # NoRow
        BY <2>2, RowTyped
      <4>2. QED
        BY <1>1, <3>1, <3>2, <4>1
    <3>3. CASE e # d
      BY <1>1, <3>1, <3>3
    <3>4. QED
      BY <3>2, <3>3
  <2>3. QED
    BY <2>1, <2>2
<1>5. ASSUME NEW e \in D, e # d, e.ca = d.ca PROVE Earlier(e, n)
  <2>1. Earlier(e, d)
    BY <1>5 DEF Deals, Earlier
  <2>2. QED
    BY <2>1 DEF Earlier
<1>6. \A x, y \in E : x.ca = y.ca => x = y \/ Earlier(x, y) \/ Earlier(y, x)
  <2>1. SUFFICES ASSUME NEW x \in E, NEW y \in E, x.ca = y.ca PROVE x = y \/ Earlier(x, y) \/ Earlier(y, x)
    OBVIOUS
  <2>2. CASE x = n \/ y = n
    BY <1>1, <1>5, <2>1, <2>2
  <2>3. CASE x # n /\ y # n
    BY <1>1, <2>1, <2>3 DEF Deals
  <2>4. QED
    BY <2>2, <2>3
<1>7. ASSUME NEW x \in E, NEW i \in 1..x.no PROVE \E e \in E : e.ca = x.ca /\ e.no = i
  <2>1. PICK y \in D : y.ca = x.ca /\ y.no = x.no
    BY <1>1
  <2>2. PICK e \in D : e.ca = y.ca /\ e.no = i
    BY <1>7, <2>1 DEF Deals
  <2>3. CASE e = d
    BY <1>1, <2>1, <2>2, <2>3
  <2>4. CASE e # d
    BY <1>1, <2>1, <2>2, <2>4
  <2>5. QED
    BY <2>3, <2>4
<1>8. QED
  BY <1>1, <1>2, <1>3, <1>4, <1>6, <1>7 DEF Deals

LEMMA RowsKeptNot == ASSUME NEW row \in LedgerRow PROVE row # NoRow
  BY LedgerAssumption DEF LedgerRow, NoRow

\* The rows of the other tokens are held as before.
LEMMA OthersHeld ==
  ASSUME NEW D, NEW E, NEW t, NEW r, NEW pos2, Whole \in [Coins -> LedgerPosition],
         pos2 = [Whole EXCEPT ![t] = r], \A u \in Coins : HeldAs(D, u, Whole[u]),
         \A d : d.ca # t => (d \in D <=> d \in E), t \in Coins => HeldAs(E, t, r)
  PROVE  \A u \in Coins : HeldAs(E, u, pos2[u])
<1>1. SUFFICES ASSUME NEW u \in Coins PROVE HeldAs(E, u, pos2[u])
  OBVIOUS
<1>2. CASE u = t
  BY <1>2
<1>3. CASE u # t
  <2>1. PICK p : p = Whole[u]
    OBVIOUS
  <2>2. HeldAs(D, u, p)
    BY <2>1
  <2>3. \A d : d.ca = u => (d \in D <=> d \in E)
    BY <1>3
  <2>4. HeldAs(E, u, p)
    BY ONLY <2>2, <2>3, HeldKept
  <2>5. pos2[u] = p
    BY <1>3, <2>1
  <2>6. QED
    BY <2>4, <2>5
<1>4. QED
  BY <1>2, <1>3

\* A first buy begins a deal.
LEMMA EntryBooked ==
  ASSUME LedgerInv, NEW D, DealsBooked(D, fills, Whole, account), NEW t \in Coins,
         NEW p, p = Whole[t], p.qty = 0, NEW row \in LedgerRow, row.ca = t, row.time = bar, Quiet(t),
         row.side = "buy", row.reason = "entry", row.position \in {0, row.id}, row.qty > 0,
         NEW r, r = [id |-> row.position, qty |-> row.qty, cost |-> row.gross + row.cost, trades |-> p.trades, entries |-> 1],
         NEW pos2, pos2 = [Whole EXCEPT ![t] = r], NEW a2, a2.pnl = account.pnl
  PROVE  \E E : DealsBooked(E, fills \cup {row}, pos2, a2)
<1>1. RowsKept(fills, bar) /\ Deals(D, fills) /\ HeldAs(D, t, p) /\ p \in LedgerPosition /\ Whole \in [Coins -> LedgerPosition]
       /\ \A u \in Coins : HeldAs(D, u, Whole[u])
  BY WholeIs DEF LedgerInv, DealsBooked
<1>2. PICK k \in Nat : k = p.trades
  BY <1>1 DEF LedgerPosition
<1>3. PICK n : n = [ca |-> t, no |-> k + 1, entry |-> row, add |-> NoRow, exit |-> NoRow]
  OBVIOUS
<1>4. row.qty \in Int /\ row.gross \in Int /\ row.cost \in Int /\ row.position \in Nat /\ bar \in Nat \ {0}
  BY <1>1 DEF LedgerRow, RowsKept
<1>5. Amount(n) = row.qty /\ Paid(n) = row.gross + row.cost
  BY <1>3, <1>4 DEF Amount, Paid, NoRow
<1>6. DealOf(n, fills \cup {row})
  <2>1. n \in [ca : Coins, no : Nat \ {0}, entry : fills \cup {row}, add : fills \cup {row} \cup {NoRow},
               exit : fills \cup {row} \cup {NoRow}]
    BY <1>2, <1>3
  <2>2. n.entry = row /\ n.add = NoRow /\ n.exit = NoRow /\ n.ca = t
    BY <1>3
  <2>3. QED
    BY <1>4, <1>5, <2>1, <2>2 DEF DealOf
<1>7. (\A d \in D : d.ca = t => d.exit # NoRow /\ d.no <= k) /\ (k > 0 => \E d \in D : d.ca = t /\ d.no = k)
  BY <1>1, <1>2 DEF HeldAs
<1>8. AllOver(k, D, t)
  BY <1>7 DEF AllOver
<1>9. PICK E : E = D \cup {n}
  OBVIOUS
<1>10. Deals(E, fills \cup {row})
  <2>1. row.time = bar /\ Quiet(t)
    OBVIOUS
  <2>2. Deals(D \cup {n}, fills \cup {row})
    BY ONLY <1>1, <1>3, <1>6, <1>8, <2>1, DealOpens
  <2>3. QED
    BY <1>9, <2>2
<1>11. HeldAs(E, t, r)
  <2>1. r \in LedgerPosition /\ r.qty # 0
    BY <1>2, <1>4 DEF LedgerPosition
  <2>2. n \in E /\ LeftOpen(E, t, r, n)
    BY <1>2, <1>3, <1>5, <1>9 DEF LeftOpen
  <2>3. r.trades > 0 => \E d \in E : d.ca = t /\ d.no = r.trades
    BY <1>2, <1>7, <1>9
  <2>4. QED
    BY <2>1, <2>2, <2>3 DEF HeldAs
<1>12. \A u \in Coins : HeldAs(E, u, pos2[u])
  <2>1. \A d : d.ca # t => (d \in D <=> d \in E)
    BY <1>3, <1>9
  <2>2. pos2 = [Whole EXCEPT ![t] = r]
    OBVIOUS
  <2>3. QED
    BY ONLY <1>1, <1>11, <2>1, <2>2, OthersHeld
<1>13. Exited(E) = Exited(D)
  BY <1>3, <1>9 DEF Exited
<1>14. account.pnl = SumFunction([d \in Exited(D) |-> Won(d)])
  BY DEF DealsBooked
<1>15. QED
  BY <1>10, <1>12, <1>13, <1>14 DEF DealsBooked

\* What is held of a token is its open deal.
LEMMA HeldIsOpen ==
  ASSUME LedgerInv, NEW D, DealsBooked(D, fills, Whole, account), NEW t \in Coins, NEW p, p = Whole[t], p.qty > 0
  PROVE  /\ RowsKept(fills, bar) /\ Deals(D, fills) /\ (\A u \in Coins : HeldAs(D, u, Whole[u]))
         /\ p \in LedgerPosition /\ Whole \in [Coins -> LedgerPosition]
         /\ \E d \in D : LeftOpen(D, t, p, d)
<1>1. HeldAs(D, t, p) /\ Whole \in [Coins -> LedgerPosition]
  BY WholeIs DEF LedgerInv, DealsBooked
<1>2. QED
  BY <1>1 DEF LedgerInv, DealsBooked, HeldAs

\* A second buy goes on with the deal.
LEMMA AddBooked ==
  ASSUME LedgerInv, NEW D, DealsBooked(D, fills, Whole, account), NEW t \in Coins,
         NEW p, p = Whole[t], p.qty > 0, p.entries < 2, NEW row \in LedgerRow, row.ca = t, row.time = bar, Quiet(t),
         row.side = "buy", row.reason = "add", row.position = p.id, row.qty > 0,
         NEW r, r = [id |-> p.id, qty |-> p.qty + row.qty, cost |-> p.cost + row.gross + row.cost,
                     trades |-> p.trades, entries |-> p.entries + 1],
         NEW pos2, pos2 = [Whole EXCEPT ![t] = r], NEW a2, a2.pnl = account.pnl
  PROVE  \E E : DealsBooked(E, fills \cup {row}, pos2, a2)
<1>1. RowsKept(fills, bar) /\ Deals(D, fills) /\ (\A u \in Coins : HeldAs(D, u, Whole[u]))
       /\ p \in LedgerPosition /\ Whole \in [Coins -> LedgerPosition]
  BY HeldIsOpen
<1>2. PICK d \in D : LeftOpen(D, t, p, d)
  BY HeldIsOpen
<1>3. d.add = NoRow /\ d.exit = NoRow /\ d.ca = t /\ d.no = p.trades + 1 /\ p.id = d.entry.position /\ p.entries = 1
       /\ p.qty = Amount(d) /\ p.cost = Paid(d)
  BY <1>2 DEF LeftOpen
<1>4. DealOf(d, fills) /\ d.ca \in Coins /\ d.no \in Nat \ {0} /\ d.entry \in fills /\ d.entry.ca = d.ca
  BY <1>1, DealIs
<1>5. PICK e \in fills : e = d.entry
  BY <1>4
<1>6. PICK n : n = [ca |-> t, no |-> d.no, entry |-> e, add |-> row, exit |-> NoRow]
  OBVIOUS
<1>7. /\ row.qty \in Int /\ row.gross \in Int /\ row.cost \in Int /\ row.position \in Nat /\ bar \in Nat \ {0}
      /\ p.qty \in Nat /\ p.cost \in Int /\ p.trades \in Nat /\ p.id \in Nat /\ e.qty \in Int /\ e.gross \in Int /\ e.cost \in Int
  BY <1>1 DEF LedgerRow, RowsKept, LedgerPosition
<1>8. p.qty = e.qty /\ p.cost = e.gross + e.cost
  BY <1>3, <1>5, <1>7 DEF Amount, Paid, NoRow
<1>9. Amount(n) = p.qty + row.qty /\ Paid(n) = p.cost + row.gross + row.cost
  BY <1>6, <1>7, <1>8 DEF Amount, Paid
<1>10. /\ n.entry = e /\ n.add = row /\ n.exit = NoRow /\ n.ca = t /\ n.no = d.no
  BY <1>6
<1>11. e.time < row.time
  BY <1>3, <1>4, <1>5 DEF Quiet
<1>12. DealOf(n, fills \cup {row})
  <2>1. n \in [ca : Coins, no : Nat \ {0}, entry : fills \cup {row}, add : fills \cup {row} \cup {NoRow},
               exit : fills \cup {row} \cup {NoRow}]
    BY <1>4, <1>6
  <2>2. e.ca = t /\ e.side = "buy" /\ e.reason = "entry" /\ e.position \in {0, e.id} /\ e.position = row.position
    BY <1>3, <1>4, <1>5 DEF DealOf
  <2>3. Amount(n) > 0 /\ e.qty > 0
    BY <1>7, <1>8, <1>9
  <2>4. QED
    BY <1>10, <1>11, <2>1, <2>2, <2>3 DEF DealOf
<1>13. PICK E : E = (D \ {d}) \cup {n}
  OBVIOUS
<1>14. Deals(E, fills \cup {row})
  <2>1. \A f \in fills \cup {row} : f \in {d.entry, d.add, row} => f \in {n.entry, n.add, n.exit}
    BY <1>3, <1>5, <1>10
  <2>2. n.ca = d.ca /\ n.no = d.no /\ n.entry = d.entry
    BY <1>3, <1>5, <1>10
  <2>3. Deals((D \ {d}) \cup {n}, fills \cup {row})
    BY ONLY <1>1, <1>2, <1>3, <1>12, <2>1, <2>2, DealGoesOn
  <2>4. QED
    BY <1>13, <2>3
<1>15. HeldAs(E, t, r)
  <2>1. r \in LedgerPosition /\ r.qty # 0
    BY <1>3, <1>7 DEF LedgerPosition
  <2>2. n \in E /\ LeftOpen(E, t, r, n)
    <3>1. n \in E /\ row # NoRow
      BY <1>13, <1>1, RowsKeptNot
    <3>2. row.position = e.position
      BY <1>3, <1>5
    <3>3. r.id = e.position /\ r.qty = Amount(n) /\ r.cost = Paid(n) /\ r.entries = 2 /\ r.trades = p.trades
      BY <1>3, <1>5, <1>9
    <3>4. QED
      BY <1>3, <1>10, <3>1, <3>3 DEF LeftOpen
  <2>3. ASSUME r.trades > 0 PROVE \E x \in E : x.ca = t /\ x.no = r.trades
    <3>1. HeldAs(D, t, p) /\ r.trades = p.trades
      BY <1>1
    <3>2. PICK x \in D : x.ca = t /\ x.no = p.trades
      BY <2>3, <3>1 DEF HeldAs
    <3>3. x # d
      BY <1>3, <1>7, <3>2
    <3>4. QED
      BY <1>13, <3>1, <3>2, <3>3
  <2>4. QED
    BY <2>1, <2>2, <2>3 DEF HeldAs
<1>16. \A u \in Coins : HeldAs(E, u, pos2[u])
  <2>1. \A x : x.ca # t => (x \in D <=> x \in E)
    BY <1>3, <1>10, <1>13
  <2>2. pos2 = [Whole EXCEPT ![t] = r]
    OBVIOUS
  <2>3. QED
    BY ONLY <1>1, <1>15, <2>1, <2>2, OthersHeld
<1>17. Exited(E) = Exited(D)
  BY <1>3, <1>10, <1>13 DEF Exited
<1>18. account.pnl = SumFunction([x \in Exited(D) |-> Won(x)])
  BY DEF DealsBooked
<1>19. QED
  BY <1>14, <1>16, <1>17, <1>18 DEF DealsBooked

\* A sell ends the deal, and its result is what the run gains.
LEMMA SellBooked ==
  ASSUME LedgerInv, NEW D, DealsBooked(D, fills, Whole, account), NEW t \in Coins,
         NEW p, p = Whole[t], p.qty > 0, NEW row \in LedgerRow, row.ca = t, row.time = bar, Quiet(t),
         row.side = "sell", row.reason = "exit", row.position = p.id, row.qty = p.qty,
         NEW r, r = Flat(p.trades + 1), NEW pos2, pos2 = [Whole EXCEPT ![t] = r],
         NEW a2, a2.pnl = account.pnl + row.gross - row.cost - p.cost
  PROVE  \E E : DealsBooked(E, fills \cup {row}, pos2, a2)
<1>1. RowsKept(fills, bar) /\ Deals(D, fills) /\ (\A u \in Coins : HeldAs(D, u, Whole[u]))
       /\ p \in LedgerPosition /\ Whole \in [Coins -> LedgerPosition]
  BY HeldIsOpen
<1>2. PICK d \in D : LeftOpen(D, t, p, d)
  BY HeldIsOpen
<1>3. d.exit = NoRow /\ d.ca = t /\ d.no = p.trades + 1 /\ p.id = d.entry.position
       /\ p.qty = Amount(d) /\ p.cost = Paid(d)
  BY <1>2 DEF LeftOpen
<1>4. DealOf(d, fills) /\ d.ca \in Coins /\ d.no \in Nat \ {0} /\ d.entry \in fills /\ d.entry.ca = d.ca
       /\ d.add \in fills \cup {NoRow} /\ (d.add \in fills => d.add.ca = d.ca)
  BY <1>1, DealIs
<1>5. PICK e \in fills : e = d.entry
  BY <1>4
<1>6. PICK o \in fills \cup {NoRow} : o = d.add
  BY <1>4
<1>7. PICK n : n = [ca |-> t, no |-> d.no, entry |-> e, add |-> o, exit |-> row]
  OBVIOUS
<1>8. /\ row.qty \in Int /\ row.gross \in Int /\ row.cost \in Int /\ bar \in Nat \ {0}
      /\ p.qty \in Nat /\ p.cost \in Int /\ p.trades \in Nat /\ p.id \in Nat
  BY <1>1 DEF LedgerRow, RowsKept, LedgerPosition
<1>9. n.entry = e /\ n.add = o /\ n.exit = row /\ n.ca = t /\ n.no = d.no
  BY <1>7
<1>10. Amount(n) = p.qty /\ Paid(n) = p.cost
  BY <1>3, <1>5, <1>6, <1>9 DEF Amount, Paid
<1>11. row # NoRow /\ row \notin fills
  BY <1>8, RowsKeptNot DEF Quiet
<1>12. e.time < row.time /\ o.time < row.time
  <2>1. e.time < row.time
    BY <1>3, <1>4, <1>5 DEF Quiet
  <2>2. CASE o \in fills
    BY <1>3, <1>4, <1>6, <2>1, <2>2 DEF Quiet
  <2>3. CASE o = NoRow
    BY <1>8, <2>1, <2>3 DEF NoRow
  <2>4. QED
    BY <2>1, <2>2, <2>3
<1>13. DealOf(n, fills \cup {row})
  <2>1. n \in [ca : Coins, no : Nat \ {0}, entry : fills \cup {row}, add : fills \cup {row} \cup {NoRow},
               exit : fills \cup {row} \cup {NoRow}]
    BY <1>4, <1>7
  <2>2. e.ca = t /\ e.side = "buy" /\ e.reason = "entry" /\ e.position \in {0, e.id} /\ e.position = row.position /\ e.qty > 0
    BY <1>3, <1>4, <1>5 DEF DealOf
  <2>3. o # NoRow => o.ca = t /\ o.side = "buy" /\ o.reason = "add" /\ o.position = e.position /\ e.time < o.time
    BY <1>3, <1>4, <1>5, <1>6 DEF DealOf
  <2>4. Amount(n) > 0 /\ row.qty = Amount(n)
    BY <1>8, <1>10
  <2>5. QED
    BY <1>9, <1>12, <2>1, <2>2, <2>3, <2>4 DEF DealOf
<1>14. PICK E : E = (D \ {d}) \cup {n}
  OBVIOUS
<1>15. Deals(E, fills \cup {row})
  <2>1. \A f \in fills \cup {row} : f \in {d.entry, d.add, row} => f \in {n.entry, n.add, n.exit}
    BY <1>5, <1>6, <1>9
  <2>2. n.ca = d.ca /\ n.no = d.no /\ n.entry = d.entry
    BY <1>3, <1>5, <1>9
  <2>3. Deals((D \ {d}) \cup {n}, fills \cup {row})
    BY ONLY <1>1, <1>2, <1>3, <1>13, <2>1, <2>2, DealGoesOn
  <2>4. QED
    BY <1>14, <2>3
<1>16. HeldAs(E, t, r)
  <2>1. r \in LedgerPosition /\ r.qty = 0 /\ r.trades = p.trades + 1 /\ r = Flat(r.trades)
    BY <1>8 DEF LedgerPosition, Flat
  <2>2. ASSUME NEW x \in E, x.ca = t PROVE x.exit # NoRow /\ x.no <= r.trades
    <3>1. CASE x = n
      BY <1>3, <1>8, <1>9, <1>11, <2>1, <3>1
    <3>2. CASE x # n
      <4>1. x \in D /\ x # d
        BY <1>14, <3>2
      <4>2. Earlier(x, d)
        BY <1>1, <1>3, <2>2, <4>1 DEF Deals, Earlier
      <4>3. x.no \in Nat
        BY <1>1, <4>1, DealIs
      <4>4. QED
        BY <1>3, <1>8, <2>1, <4>2, <4>3 DEF Earlier
    <3>3. QED
      BY <3>1, <3>2
  <2>3. n \in E /\ n.ca = t /\ n.no = r.trades
    BY <1>3, <1>9, <1>14, <2>1
  <2>4. QED
    BY <2>1, <2>2, <2>3 DEF HeldAs
<1>17. \A u \in Coins : HeldAs(E, u, pos2[u])
  <2>1. \A x : x.ca # t => (x \in D <=> x \in E)
    BY <1>3, <1>9, <1>14
  <2>2. pos2 = [Whole EXCEPT ![t] = r]
    OBVIOUS
  <2>3. QED
    BY ONLY <1>1, <1>16, <2>1, <2>2, OthersHeld
<1>18. PICK S : S = Exited(D)
  OBVIOUS
<1>19. Exited(E) = S \cup {n} /\ n \notin S /\ IsFiniteSet(S)
  <2>1. n \notin D
    BY <1>1, <1>9, <1>11, DealIs
  <2>2. IsFiniteSet(S)
    BY <1>1, <1>18, FS_Subset DEF Deals, Exited
  <2>3. QED
    BY <1>3, <1>9, <1>11, <1>14, <1>18, <2>1, <2>2 DEF Exited
<1>20. Won(n) = row.gross - row.cost - p.cost
  BY <1>9, <1>10 DEF Won
<1>21. \A x \in S : Won(x) \in Int
  BY <1>1, <1>18, WonIsInt DEF Exited
<1>22. PICK f : f = [x \in S |-> Won(x)]
  OBVIOUS
<1>23. PICK g : g = [x \in S \cup {n} |-> Won(x)]
  OBVIOUS
<1>24. SumFunction(g) = SumFunction(f) + g[n]
  <2>1. Won(n) \in Int
    BY <1>8, <1>20
  <2>2. f \in [S -> Int] /\ g \in [S \cup {n} -> Int] /\ \A x \in S : g[x] = f[x]
    BY <1>21, <1>22, <1>23, <2>1
  <2>3. QED
    BY ONLY <1>19, <2>2, SumGrows
<1>25. account.pnl = SumFunction(f) /\ account.pnl \in Int
  BY <1>18, <1>22 DEF DealsBooked, LedgerInv
<1>26. a2.pnl = SumFunction([x \in Exited(E) |-> Won(x)])
  BY <1>8, <1>19, <1>20, <1>23, <1>24, <1>25
<1>27. QED
  BY <1>15, <1>17, <1>26 DEF DealsBooked

\* Of what is held, one token costs something else.
Cost(pos) == SumFunction([u \in Coins |-> pos[u].cost])
LEMMA CostChanges ==
  ASSUME NEW pos \in [Coins -> LedgerPosition], NEW t \in Coins, NEW r \in LedgerPosition,
         NEW pos2, pos2 = [pos EXCEPT ![t] = r]
  PROVE  /\ pos2 \in [Coins -> LedgerPosition] /\ Cost(pos) \in Int
         /\ Cost(pos2) = Cost(pos) - pos[t].cost + r.cost
<1>1. PICK f : f = [u \in Coins |-> pos[u].cost]
  OBVIOUS
<1>2. PICK g : g = [u \in Coins |-> pos2[u].cost]
  OBVIOUS
<1>3. pos2 \in [Coins -> LedgerPosition]
  OBVIOUS
<1>4. IsFiniteSet(Coins)
  BY LedgerAssumption
<1>5. f \in [Coins -> Int] /\ g \in [Coins -> Int] /\ \A u \in Coins : u # t => g[u] = f[u]
  BY <1>1, <1>2, <1>3 DEF LedgerPosition
<1>6. SumFunction(g) = SumFunction(f) - f[t] + g[t]
  BY ONLY <1>4, <1>5, SumChanges, t \in Coins
<1>7. SumFunction(f) \in Int
  BY ONLY <1>4, <1>5, SumTyped
<1>8. g[t] = r.cost /\ f[t] = pos[t].cost
  BY <1>1, <1>2
<1>9. QED
  BY <1>1, <1>2, <1>3, <1>6, <1>7, <1>8 DEF Cost

LEMMA LedgerInvInit == LedgerInit => LedgerInv
<1> SUFFICES ASSUME LedgerInit PROVE LedgerInv
  OBVIOUS
<1>1. account = [cash |-> Funds, pnl |-> 0] /\ position = [t \in Coins |-> Flat(0)] /\ fills = {} /\ identified \in BOOLEAN /\ bar = 1
       /\ earlier = [t \in Coins |-> 0]
  BY DEF LedgerInit
<1>2. RowsKept(fills, bar)
  BY <1>1, FS_EmptySet DEF RowsKept
<1>3. Funds \in Nat /\ IsFiniteSet(Coins)
  BY LedgerAssumption
<1>4. Flat(0) \in LedgerPosition
  BY DEF Flat, LedgerPosition
<1>5. position \in [Coins -> LedgerPosition] /\ account \in [cash : Int, pnl : Int] /\ earlier \in [Coins -> Nat]
  BY <1>1, <1>3, <1>4
<1>a. Whole = position
  BY <1>1 DEF Whole, Flat
<1>6. SumFunction([t \in Coins |-> Whole[t].cost]) = 0
  <2>1. PICK f : f = [t \in Coins |-> 0]
    OBVIOUS
  <2>2. f \in [Coins -> {0}]
    BY <2>1
  <2>a. [t \in Coins |-> Whole[t].cost] = f
    <3>1. Flat(0).cost = 0
      BY DEF Flat
    <3>2. \A t \in Coins : Whole[t] = Flat(0)
      BY <1>1, <1>a
    <3>3. QED
      BY <2>1, <3>1, <3>2
  <2>3. SumFunction(f) = 0
    BY ONLY <1>3, <2>2, SumOfZeros
  <2>4. QED
    BY <2>3, <2>a
<1>7. DealsBooked({}, fills, Whole, account)
  <2>1. Deals({}, fills)
    BY <1>1, FS_EmptySet DEF Deals
  <2>2. \A t \in Coins : HeldAs({}, t, Whole[t])
    BY <1>1, <1>4, <1>a DEF HeldAs, Flat
  <2>3. PICK f : f = [d \in Exited({}) |-> Won(d)]
    OBVIOUS
  <2>4. f \in [{} -> Int]
    BY <2>3 DEF Exited
  <2>5. SumFunction(f) = 0
    BY ONLY <2>4, SumOfNone
  <2>6. QED
    BY <1>1, <2>1, <2>2, <2>3, <2>5 DEF DealsBooked
<1>8. QED
  BY <1>1, <1>2, <1>3, <1>5, <1>6, <1>7 DEF LedgerInv

\* A buy, whatever it costs: q tokens for g and a charge of c; what is known of the
\* positions stays typed.
Buys(t, id, q, g, c, p, row, r) ==
  /\ Quiet(t) /\ p = Whole[t] /\ p.entries < 2 /\ q \in Nat \ {0} /\ g \in Int /\ c \in Int
  /\ row.position = IF p.qty > 0 THEN p.id ELSE IF identified THEN id ELSE 0
  /\ row = [id |-> id, ca |-> t, position |-> row.position, side |-> "buy", reason |-> IF p.qty > 0 THEN "add" ELSE "entry",
            time |-> bar, qty |-> q, gross |-> g, cost |-> c]
  /\ r = [id |-> row.position, qty |-> p.qty + q, cost |-> p.cost + g + c, trades |-> p.trades, entries |-> p.entries + 1]
  /\ Whole' = [Whole EXCEPT ![t] = r] /\ account' = [cash |-> account.cash - g - c, pnl |-> account.pnl]
  /\ position' \in [Coins -> LedgerPosition] /\ earlier' \in [Coins -> Nat]
  /\ fills' = fills \cup {row} /\ identified' = identified /\ bar' = bar
LEMMA BuyIs ==
  ASSUME LedgerInv, NEW t \in Coins, NEW price \in Prices, NEW id \in NewIds, FillBuy(t, price, id)
  PROVE  \E q, g, c, p, row, r : Buys(t, id, q, g, c, p, row, r)
<1>1. PICK p \in LedgerPosition : p = position[t]
  BY DEF LedgerInv
<1>2. PICK a \in Int, m \in Int : account = [cash |-> a, pnl |-> m]
  BY DEF LedgerInv
<1>3. OrderAmount \in Nat /\ CostRate \in Nat /\ price \in Nat \ {0}
  BY LedgerAssumption
<1>4. PICK y \in Int : y = (a * 100) \div (100 + CostRate)
  <2>1. PICK k \in Nat \ {0} : k = 100 + CostRate
    BY <1>3
  <2>2. PICK x \in Int : x = a * 100
    OBVIOUS
  <2>3. x \div k \in Int
    OBVIOUS
  <2>4. QED
    BY <2>1, <2>2, <2>3
<1>5. PICK gr \in Int : gr = Min({OrderAmount, y})
  <2>1. PICK o \in Int : o = OrderAmount
    BY <1>3
  <2>2. \E x \in {o, y} : \A z \in {o, y} : x <= z
    OBVIOUS
  <2>3. Min({o, y}) \in {o, y}
    BY <2>2 DEF Min
  <2>4. QED
    BY <2>1, <2>3
<1>6. PICK q \in Int : q = gr \div price
  BY <1>3
<1>7. PICK g \in Int : g = q * price
  BY <1>3
<1>8. PICK c \in Int : c = Charge(g)
  BY <1>7, ChargeIsInt
<1>9. PICK of : of = IF p.qty > 0 THEN p.id ELSE IF identified THEN id ELSE 0
  OBVIOUS
<1>10. PICK row : row = [id |-> id, ca |-> t, position |-> of, side |-> "buy", reason |-> IF p.qty > 0 THEN "add" ELSE "entry",
            time |-> bar, qty |-> q, gross |-> g, cost |-> c]
  OBVIOUS
<1>11. PICK r : r = [p EXCEPT !.id = of, !.qty = @ + q, !.cost = @ + g + c, !.entries = @ + 1]
  OBVIOUS
<1>12. /\ Quiet(t) /\ p.entries < 2 /\ q > 0
       /\ position' = [position EXCEPT ![t] = r] /\ account' = [account EXCEPT !.cash = @ - g - c]
       /\ WriteRow(row)
  <2>1. account.cash = a
    BY <1>2
  <2>2. q = Min({OrderAmount, (account.cash * 100) \div (100 + CostRate)}) \div price
    BY ONLY <1>4, <1>5, <1>6, <2>1
  <2>3. /\ Quiet(t) /\ p.entries < 2 /\ q > 0
        /\ position' = [position EXCEPT ![t] = [p EXCEPT !.id = of, !.qty = @ + q, !.cost = @ + g + c, !.entries = @ + 1]]
        /\ account' = [account EXCEPT !.cash = @ - g - c]
        /\ WriteRow([id |-> id, ca |-> t, position |-> of, side |-> "buy", reason |-> IF p.qty > 0 THEN "add" ELSE "entry",
            time |-> bar, qty |-> q, gross |-> g, cost |-> c])
    BY ONLY FillBuy(t, price, id), <1>1, <1>7, <1>8, <1>9, <2>2 DEF FillBuy
  <2>4. QED
    BY <1>10, <1>11, <2>3
<1>13. r = [id |-> of, qty |-> p.qty + q, cost |-> p.cost + g + c, trades |-> p.trades, entries |-> p.entries + 1]
  BY ONLY <1>11, p \in LedgerPosition DEF LedgerPosition
<1>14. account' = [cash |-> account.cash - g - c, pnl |-> account.pnl]
  BY <1>2, <1>12
<1>15. row.position = of
  BY <1>10
<1>a. position \in [Coins -> LedgerPosition] /\ earlier \in [Coins -> Nat]
  BY DEF LedgerInv
<1>b. PICK w : w = Whole[t]
  OBVIOUS
<1>c. w \in LedgerPosition /\ w.id = p.id /\ w.qty = p.qty /\ w.cost = p.cost /\ w.entries = p.entries
      /\ w.trades = earlier[t] + p.trades
  BY <1>1, <1>a, <1>b, WholeIs
<1>d. PICK v : v = [id |-> of, qty |-> w.qty + q, cost |-> w.cost + g + c, trades |-> w.trades, entries |-> w.entries + 1]
  OBVIOUS
<1>e. r \in LedgerPosition /\ v = [r EXCEPT !.trades = earlier[t] + @]
  <2>1. of \in Nat
    <3>1. p.id \in Nat /\ id \in Nat
      <4>1. IsFiniteSet(fills)
        BY DEF LedgerInv, RowsKept
      <4>2. id \in 1..MaxFills
        BY <4>1, NewId
      <4>3. QED
        BY <1>1, <4>2 DEF LedgerPosition
    <3>2. QED
      BY <1>9, <3>1
  <2>2. p.qty + q \in Nat /\ p.cost + g + c \in Int /\ p.trades \in Nat /\ p.entries + 1 \in Nat
    BY <1>1, <1>12 DEF LedgerPosition
  <2>3. r \in LedgerPosition
    BY ONLY <1>13, <2>1, <2>2 DEF LedgerPosition
  <2>4. v = [r EXCEPT !.trades = earlier[t] + @]
    BY ONLY <1>13, <1>c, <1>d
  <2>5. QED
    BY <2>3, <2>4
<1>f. /\ Whole' = [Whole EXCEPT ![t] = v]
      /\ position' \in [Coins -> LedgerPosition] /\ earlier' \in [Coins -> Nat]
  <2>1. position' = [position EXCEPT ![t] = r] /\ earlier' = earlier /\ t \in Coins
    BY <1>12 DEF WriteRow
  <2>2. QED
    BY ONLY <1>a, <1>e, <2>1, WholeChanges
<1>16. Buys(t, id, q, g, c, w, row, v)
  <2>1. fills' = fills \cup {row} /\ identified' = identified /\ bar' = bar
    BY <1>12 DEF WriteRow
  <2>2. Quiet(t) /\ w = Whole[t] /\ w.entries < 2 /\ q \in Nat \ {0} /\ g \in Int /\ c \in Int
    BY <1>12, <1>b, <1>c
  <2>3. row.position = IF w.qty > 0 THEN w.id ELSE IF identified THEN id ELSE 0
    BY <1>9, <1>15, <1>c
  <2>4. row = [id |-> id, ca |-> t, position |-> row.position, side |-> "buy", reason |-> IF w.qty > 0 THEN "add" ELSE "entry",
               time |-> bar, qty |-> q, gross |-> g, cost |-> c]
    BY ONLY <1>10, <1>15, <1>c
  <2>5. v = [id |-> row.position, qty |-> w.qty + q, cost |-> w.cost + g + c, trades |-> w.trades, entries |-> w.entries + 1]
    BY <1>15, <1>d
  <2>6. QED
    BY ONLY <1>14, <1>f, <2>1, <2>2, <2>3, <2>4, <2>5 DEF Buys
<1>17. QED
  BY <1>16

LEMMA BuyStep ==
  ASSUME LedgerInv, NEW t \in Coins, NEW price \in Prices, NEW id \in NewIds, FillBuy(t, price, id)
  PROVE  LedgerInv'
<1>1. PICK q, g, c, p, row, r : Buys(t, id, q, g, c, p, row, r)
  BY BuyIs
<1>2. /\ Quiet(t) /\ p = Whole[t] /\ p.entries < 2 /\ q \in Nat \ {0} /\ g \in Int /\ c \in Int
      /\ row.position = IF p.qty > 0 THEN p.id ELSE IF identified THEN id ELSE 0
      /\ row = [id |-> id, ca |-> t, position |-> row.position, side |-> "buy", reason |-> IF p.qty > 0 THEN "add" ELSE "entry",
                time |-> bar, qty |-> q, gross |-> g, cost |-> c]
      /\ r = [id |-> row.position, qty |-> p.qty + q, cost |-> p.cost + g + c, trades |-> p.trades, entries |-> p.entries + 1]
      /\ Whole' = [Whole EXCEPT ![t] = r] /\ account' = [cash |-> account.cash - g - c, pnl |-> account.pnl]
      /\ position' \in [Coins -> LedgerPosition] /\ earlier' \in [Coins -> Nat]
      /\ fills' = fills \cup {row} /\ identified' = identified /\ bar' = bar
  BY <1>1 DEF Buys
<1>3. /\ RowsKept(fills, bar) /\ identified \in BOOLEAN /\ account \in [cash : Int, pnl : Int]
      /\ Whole \in [Coins -> LedgerPosition] /\ p \in LedgerPosition
      /\ account.cash + SumFunction([u \in Coins |-> Whole[u].cost]) = Funds + account.pnl
  BY <1>2, WholeIs DEF LedgerInv
<1>4. PICK D : DealsBooked(D, fills, Whole, account)
  BY DEF LedgerInv
<1>5. id \in 1..MaxFills /\ (\A f \in fills : f.id # id) /\ bar \in Nat \ {0}
  BY <1>3, NewId DEF RowsKept
<1>6. /\ row.id = id /\ row.ca = t /\ row.side = "buy" /\ row.reason = (IF p.qty > 0 THEN "add" ELSE "entry")
      /\ row.time = bar /\ row.qty = q /\ row.gross = g /\ row.cost = c
  BY <1>2
<1>7. p.id \in Nat /\ p.qty \in Nat /\ p.cost \in Int /\ p.trades \in Nat /\ p.entries \in Nat
  BY <1>3 DEF LedgerPosition
<1>8. row \in LedgerRow
  <2>1. row.position \in Nat
    BY <1>2, <1>5, <1>7
  <2>2. PICK of \in Nat : of = row.position
    BY <2>1
  <2>3. PICK why \in {"entry", "add", "exit"} : why = IF p.qty > 0 THEN "add" ELSE "entry"
    OBVIOUS
  <2>4. row = [id |-> id, ca |-> t, position |-> of, side |-> "buy", reason |-> why,
               time |-> bar, qty |-> q, gross |-> g, cost |-> c]
    BY ONLY <1>2, <2>2, <2>3
  <2>5. QED
    BY ONLY <1>2, <1>5, <2>4, t \in Coins DEF LedgerRow
<1>9. RowsKept(fills \cup {row}, bar)
  BY <1>2, <1>3, <1>5, <1>6, <1>8, RowsKeptWith
<1>10. r \in LedgerPosition
  BY <1>2, <1>5, <1>6, <1>7 DEF LedgerPosition
<1>11. PICK pos2 : pos2 = [Whole EXCEPT ![t] = r]
  OBVIOUS
<1>12. PICK a2 : a2 = [cash |-> account.cash - g - c, pnl |-> account.pnl]
  OBVIOUS
<1>13. /\ pos2 \in [Coins -> LedgerPosition]
       /\ SumFunction([u \in Coins |-> pos2[u].cost]) = SumFunction([u \in Coins |-> Whole[u].cost]) - p.cost + r.cost
       /\ SumFunction([u \in Coins |-> Whole[u].cost]) \in Int
  <2>1. Whole \in [Coins -> LedgerPosition] /\ t \in Coins /\ r \in LedgerPosition
    BY <1>3, <1>10
  <2>2. /\ pos2 \in [Coins -> LedgerPosition] /\ Cost(Whole) \in Int
        /\ Cost(pos2) = Cost(Whole) - Whole[t].cost + r.cost
    BY ONLY <2>1, <1>11, CostChanges
  <2>3. QED
    BY <1>2, <2>2 DEF Cost
<1>14. a2.cash + SumFunction([u \in Coins |-> pos2[u].cost]) = Funds + a2.pnl
  <2>1. r.cost = p.cost + g + c
    BY <1>2
  <2>2. PICK s \in Int : s = SumFunction([u \in Coins |-> Whole[u].cost])
    BY <1>13
  <2>3. SumFunction([u \in Coins |-> pos2[u].cost]) = s + g + c
    BY <1>2, <1>7, <1>13, <2>1, <2>2
  <2>4. account.cash \in Int /\ account.pnl \in Int /\ account.cash + s = Funds + account.pnl /\ Funds \in Nat
    BY <1>3, <2>2, LedgerAssumption
  <2>5. QED
    BY <1>2, <1>12, <2>3, <2>4
<1>15. a2 \in [cash : Int, pnl : Int] /\ a2.pnl = account.pnl
  BY <1>2, <1>3, <1>12
<1>16. PICK E : DealsBooked(E, fills \cup {row}, pos2, a2)
  <2>1. CASE p.qty > 0
    <3>1. row.reason = "add" /\ row.position = p.id /\ row.qty > 0
      BY <1>2, <1>6, <2>1
    <3>2. r = [id |-> p.id, qty |-> p.qty + row.qty, cost |-> p.cost + row.gross + row.cost,
               trades |-> p.trades, entries |-> p.entries + 1]
      BY <1>2, <1>6, <3>1
    <3>3. Quiet(t) /\ p = Whole[t] /\ p.entries < 2
      BY <1>2
    <3>4. LedgerInv /\ t \in Coins
      OBVIOUS
    <3>5. QED
      BY ONLY <1>4, <1>6, <1>8, <1>11, <1>15, <2>1, <3>1, <3>2, <3>3, <3>4, AddBooked
  <2>2. CASE ~ p.qty > 0
    <3>1. p.qty = 0
      BY <1>7, <2>2
    <3>2. row.reason = "entry" /\ row.position \in {0, row.id} /\ row.qty > 0
      BY <1>2, <1>3, <1>6, <2>2
    <3>3. p.cost = 0 /\ p.entries = 0
      <4>1. HeldAs(D, t, p)
        BY <1>2, <1>4 DEF DealsBooked
      <4>2. p = Flat(p.trades)
        BY <3>1, <4>1 DEF HeldAs
      <4>3. PICK k : k = p.trades
        OBVIOUS
      <4>4. p = [id |-> 0, qty |-> 0, cost |-> 0, trades |-> k, entries |-> 0]
        BY ONLY <4>2, <4>3 DEF Flat
      <4>5. QED
        BY ONLY <4>4
    <3>4. r = [id |-> row.position, qty |-> row.qty, cost |-> row.gross + row.cost, trades |-> p.trades, entries |-> 1]
      BY <1>2, <1>6, <3>1, <3>3
    <3>5. Quiet(t) /\ p = Whole[t] /\ LedgerInv /\ t \in Coins
      BY <1>2
    <3>6. QED
      BY ONLY <1>4, <1>6, <1>8, <1>11, <1>15, <3>1, <3>2, <3>4, <3>5, EntryBooked
  <2>3. QED
    BY <2>1, <2>2
<1>17. Whole' = pos2 /\ position' \in [Coins -> LedgerPosition] /\ earlier' \in [Coins -> Nat] /\ account' = a2 /\ fills' = fills \cup {row} /\ identified' = identified /\ bar' = bar
  BY <1>2, <1>11, <1>12
<1>18. QED
  BY <1>3, <1>9, <1>13, <1>14, <1>15, <1>16, <1>17 DEF LedgerInv

LEMMA SellStep ==
  ASSUME LedgerInv, NEW t \in Coins, NEW price \in Prices, NEW id \in NewIds, FillSell(t, price, id)
  PROVE  LedgerInv'
<1>1. /\ RowsKept(fills, bar) /\ identified \in BOOLEAN /\ account \in [cash : Int, pnl : Int]
      /\ Whole \in [Coins -> LedgerPosition]
      /\ account.cash + SumFunction([u \in Coins |-> Whole[u].cost]) = Funds + account.pnl
  BY WholeIs DEF LedgerInv
<1>2. PICK p \in LedgerPosition : p = Whole[t]
  BY <1>1
<1>3. p.id \in Nat /\ p.qty \in Nat /\ p.cost \in Int /\ p.trades \in Nat /\ price \in Nat
  BY LedgerAssumption DEF LedgerPosition
<1>4. PICK g \in Int : g = p.qty * price
  BY <1>3
<1>5. PICK c \in Int : c = Charge(g)
  BY ChargeIsInt
<1>6. PICK r : r = Flat(p.trades + 1)
  OBVIOUS
<1>7. PICK row : row = [id |-> id, ca |-> t, position |-> p.id, side |-> "sell", reason |-> "exit",
                        time |-> bar, qty |-> p.qty, gross |-> g, cost |-> c]
  OBVIOUS
<1>8. PICK a2 : a2 = [cash |-> account.cash + (g - c), pnl |-> account.pnl + (g - c) - p.cost]
  OBVIOUS
<1>9. PICK pos2 : pos2 = [Whole EXCEPT ![t] = r]
  OBVIOUS
<1>a. PICK q \in LedgerPosition : q = position[t]
  BY DEF LedgerInv
<1>b. q.id = p.id /\ q.qty = p.qty /\ q.cost = p.cost /\ p.trades = earlier[t] + q.trades /\ earlier[t] \in Nat
      /\ q.trades \in Nat
  BY <1>2, <1>a, WholeIs DEF LedgerInv, LedgerPosition
<1>c. PICK v : v = Flat(q.trades + 1)
  OBVIOUS
<1>d. /\ Quiet(t) /\ p.qty > 0 /\ position' = [position EXCEPT ![t] = v] /\ account' = a2 /\ WriteRow(row)
  BY <1>4, <1>5, <1>7, <1>8, <1>a, <1>b, <1>c DEF FillSell
<1>e. v \in LedgerPosition /\ r = [v EXCEPT !.trades = earlier[t] + @]
  BY <1>6, <1>b, <1>c DEF Flat, LedgerPosition
<1>f. /\ Whole' = [Whole EXCEPT ![t] = r]
      /\ position' \in [Coins -> LedgerPosition] /\ earlier' \in [Coins -> Nat]
  <2>1. position \in [Coins -> LedgerPosition] /\ earlier \in [Coins -> Nat] /\ t \in Coins
    BY DEF LedgerInv
  <2>2. position' = [position EXCEPT ![t] = v] /\ earlier' = earlier
    BY <1>d DEF WriteRow
  <2>3. QED
    BY ONLY <1>e, <2>1, <2>2, WholeChanges
<1>10. /\ Quiet(t) /\ p.qty > 0 /\ Whole' = pos2 /\ account' = a2 /\ fills' = fills \cup {row}
       /\ position' \in [Coins -> LedgerPosition] /\ earlier' \in [Coins -> Nat]
       /\ identified' = identified /\ bar' = bar
  BY <1>9, <1>d, <1>f DEF WriteRow
<1>11. PICK D : DealsBooked(D, fills, Whole, account)
  BY DEF LedgerInv
<1>12. id \in 1..MaxFills /\ (\A f \in fills : f.id # id) /\ bar \in Nat \ {0}
  BY <1>1, NewId DEF RowsKept
<1>13. /\ row.id = id /\ row.ca = t /\ row.side = "sell" /\ row.reason = "exit" /\ row.position = p.id
       /\ row.time = bar /\ row.qty = p.qty /\ row.gross = g /\ row.cost = c
  BY <1>7
<1>14. row \in LedgerRow
  BY <1>3, <1>7, <1>12 DEF LedgerRow
<1>15. RowsKept(fills \cup {row}, bar)
  BY <1>1, <1>10, <1>12, <1>13, <1>14, RowsKeptWith
<1>16. r \in LedgerPosition /\ r.cost = 0
  BY <1>3, <1>6 DEF LedgerPosition, Flat
<1>17. /\ pos2 \in [Coins -> LedgerPosition]
       /\ SumFunction([u \in Coins |-> pos2[u].cost]) = SumFunction([u \in Coins |-> Whole[u].cost]) - p.cost + r.cost
       /\ SumFunction([u \in Coins |-> Whole[u].cost]) \in Int
  <2>1. Whole \in [Coins -> LedgerPosition] /\ t \in Coins /\ r \in LedgerPosition
    BY <1>1, <1>16
  <2>2. /\ pos2 \in [Coins -> LedgerPosition] /\ Cost(Whole) \in Int
        /\ Cost(pos2) = Cost(Whole) - Whole[t].cost + r.cost
    BY ONLY <2>1, <1>9, CostChanges
  <2>3. QED
    BY <1>2, <2>2 DEF Cost
<1>18. account.cash \in Int /\ account.pnl \in Int /\ Funds \in Nat
  BY <1>1, LedgerAssumption
<1>19. a2.cash = account.cash + (g - c) /\ a2.pnl = account.pnl + (g - c) - p.cost
  BY <1>8
<1>20. a2.cash + SumFunction([u \in Coins |-> pos2[u].cost]) = Funds + a2.pnl
  <2>1. PICK s \in Int : s = SumFunction([u \in Coins |-> Whole[u].cost])
    BY <1>17
  <2>2. SumFunction([u \in Coins |-> pos2[u].cost]) = s - p.cost
    BY <1>3, <1>16, <1>17, <2>1
  <2>3. account.cash + s = Funds + account.pnl
    BY <1>1, <2>1
  <2>4. QED
    BY <1>3, <1>18, <1>19, <2>2, <2>3
<1>21. a2 \in [cash : Int, pnl : Int]
  BY <1>3, <1>8, <1>18
<1>22. PICK E : DealsBooked(E, fills \cup {row}, pos2, a2)
  <2>1. a2.pnl = account.pnl + row.gross - row.cost - p.cost
    BY <1>3, <1>13, <1>18, <1>19
  <2>2. LedgerInv /\ t \in Coins /\ Quiet(t) /\ p = Whole[t] /\ p.qty > 0
    BY <1>2, <1>10
  <2>3. QED
    BY ONLY <1>6, <1>9, <1>11, <1>13, <1>14, <2>1, <2>2, SellBooked
<1>23. QED
  BY <1>1, <1>10, <1>15, <1>17, <1>20, <1>21, <1>22 DEF LedgerInv

\* An admission only moves the number of trades from one place to the other.
LEMMA ReadmitStep == ASSUME LedgerInv, NEW t \in Coins, Readmit(t) PROVE LedgerInv'
<1>1. position \in [Coins -> LedgerPosition] /\ earlier \in [Coins -> Nat]
  BY DEF LedgerInv
<1>2. /\ position[t].qty = 0 /\ position' = [position EXCEPT ![t] = Flat(0)]
      /\ earlier' = [earlier EXCEPT ![t] = @ + position[t].trades]
      /\ account' = account /\ fills' = fills /\ identified' = identified /\ bar' = bar
  BY DEF Readmit
<1>3. PICK p \in LedgerPosition, n \in Nat : p = position[t] /\ n = earlier[t]
  BY <1>1
<1>4. PICK w : w = Whole[t]
  OBVIOUS
<1>5. w = Flat(n + p.trades)
  <2>1. PICK D : DealsBooked(D, fills, Whole, account)
    BY DEF LedgerInv
  <2>2. HeldAs(D, t, w)
    BY <1>4, <2>1 DEF DealsBooked
  <2>3. w.qty = 0 /\ w.trades = n + p.trades
    BY <1>1, <1>2, <1>3, <1>4, WholeIs
  <2>4. QED
    BY <2>2, <2>3 DEF HeldAs
<1>6. position' \in [Coins -> LedgerPosition] /\ earlier' \in [Coins -> Nat]
  <2>1. Flat(0) \in LedgerPosition /\ n + p.trades \in Nat
    BY <1>3 DEF Flat, LedgerPosition
  <2>2. QED
    BY <1>1, <1>2, <1>3, <2>1
<1>7. ASSUME NEW u \in Coins PROVE Whole'[u] = Whole[u]
  <2>1. Whole'[u] = [position'[u] EXCEPT !.trades = earlier'[u] + @]
    BY DEF Whole
  <2>2. CASE u = t
    <3>1. position'[u] = Flat(0) /\ earlier'[u] = n + p.trades /\ n + p.trades \in Nat
      BY <1>1, <1>2, <1>3, <2>2 DEF LedgerPosition
    <3>2. Whole'[u] = Flat(n + p.trades)
      BY <2>1, <3>1 DEF Flat
    <3>3. QED
      BY <1>4, <1>5, <2>2, <3>2
  <2>3. CASE u # t
    <3>1. position'[u] = position[u] /\ earlier'[u] = earlier[u]
      BY <1>1, <1>2, <2>3
    <3>2. QED
      BY <2>1, <3>1 DEF Whole
  <2>4. QED
    BY <2>2, <2>3
<1>8. Whole' = Whole
  <2>1. Whole' = [u \in Coins |-> Whole'[u]] /\ Whole = [u \in Coins |-> Whole[u]]
    BY DEF Whole
  <2>2. QED
    BY <1>7, <2>1
<1>9. QED
  BY <1>2, <1>6, <1>8 DEF LedgerInv

LEMMA LedgerInvStep == LedgerInv /\ [LedgerNext]_wvars => LedgerInv'
<1> SUFFICES ASSUME LedgerInv, [LedgerNext]_wvars PROVE LedgerInv'
  OBVIOUS
<1>1. CASE position' = position /\ earlier' = earlier /\ account' = account /\ fills' = fills
           /\ identified' \in BOOLEAN /\ bar' \in {bar, bar + 1}
  <2>1. RowsKept(fills, bar')
    BY <1>1 DEF LedgerInv, RowsKept
  <2>2. Whole' = Whole
    BY <1>1 DEF Whole
  <2>3. QED
    BY <1>1, <2>1, <2>2 DEF LedgerInv
<1>2. CASE Deploy \/ NextBar \/ UNCHANGED wvars
  BY <1>1, <1>2 DEF Deploy, NextBar, wvars, LedgerInv
<1>3. CASE \E t \in Coins, price \in Prices, id \in NewIds : FillBuy(t, price, id) \/ FillSell(t, price, id)
  BY <1>3, BuyStep, SellStep
<1>4. CASE \E t \in Coins : Readmit(t)
  BY <1>4, ReadmitStep
<1>5. QED
  BY <1>2, <1>3, <1>4 DEF LedgerNext

\* At every moment the rows of the paper orders are those of deals that follow
\* one another, over every admission of their token, of which the worker holds the
\* open one.
THEOREM LedgerInductive == LedgerSpec => []LedgerInv
  BY LedgerInvInit, LedgerInvStep, PTL DEF LedgerSpec

\* From the rows alone the API finds what the worker knows of every position and
\* of the run's result; it numbers the cycles of a token over all its admissions,
\* where the worker starts again, and the chart numbers the fills as that table.
THEOREM LedgerAlwaysTells == LedgerSpec => []LedgerTells
<1>1. LedgerInv => LedgerTells
  BY RowsTell, LabelsTell DEF LedgerTells
<1>2. QED
  BY <1>1, LedgerInductive, PTL

(* ------------------------------- the impulse ------------------------------ *)
\* Sums over a stretch of candles that are numbered differently.
LEMMA StretchMoved ==
  ASSUME NEW a \in Int, NEW b \in Int, NEW d \in Int, NEW f \in [a..b -> Int], NEW g \in [a - d..b - d -> Int],
         \A j \in a..b : g[j - d] = f[j]
  PROVE  SumFunction(g) = SumFunction(f)
<1>1. PICK w : w = [j \in a..b |-> j - d]
  OBVIOUS
<1>2. w \in [a..b -> a - d..b - d]
  BY <1>1
<1>3. \A x, y \in a..b : w[x] = w[y] => x = y
  BY <1>1
<1>4. ASSUME NEW z \in a - d..b - d PROVE \E x \in a..b : w[x] = z
  <2>1. z + d \in a..b /\ w[z + d] = z
    BY <1>1
  <2>2. QED
    BY <2>1
<1>5. IsFiniteSet(a..b) /\ IsFiniteSet(a - d..b - d)
  BY FS_Interval
<1>6. \A x \in a..b : f[x] = g[w[x]]
  BY <1>1
<1>7. Reordered(f, a..b, g, a - d..b - d, w)
  BY <1>2, <1>3, <1>4, <1>5, <1>6 DEF Reordered
<1>8. QED
  BY <1>7, SumReordered

OneMore(f, S, g, x) ==
  IsFiniteSet(S) /\ x \notin S /\ f \in [S -> Int] /\ g \in [S \cup {x} -> Int] /\ \A y \in S : g[y] = f[y]
LEMMA SumOfOneMore ==
  ASSUME NEW f, NEW S, NEW g, NEW x, OneMore(f, S, g, x)
  PROVE  SumFunction(g) = SumFunction(f) + g[x]
<1>1. IsFiniteSet(S) /\ x \notin S /\ f \in [S -> Int] /\ g \in [S \cup {x} -> Int] /\ \A y \in S : g[y] = f[y]
  BY DEF OneMore
<1>2. QED
  BY <1>1, SumGrows

\* Sums over a stretch of the column F of the candles.
Over(F, S) == SumFunction([j \in S |-> F[j]])
Column(F, n) == n \in Nat /\ F \in [1..n -> Int]

LEMMA OverTyped == ASSUME NEW F, NEW n, Column(F, n), NEW S \in SUBSET (1..n) PROVE Over(F, S) \in Int
<1>1. n \in Nat /\ F \in [1..n -> Int]
  BY DEF Column
<1>2. PICK f : f = [j \in S |-> F[j]]
  OBVIOUS
<1>3. f \in [S -> Int]
  BY <1>1, <1>2
<1>4. IsFiniteSet(S)
  <2>1. IsFiniteSet(1..n)
    BY <1>1, FS_Interval
  <2>2. QED
    BY <2>1, FS_Subset
<1>5. SumFunction(f) \in Int
  BY <1>3, <1>4, SumTyped
<1>6. QED
  BY <1>2, <1>5 DEF Over

\* The candle j of F is the candle j - d of G.
Shifted(F, n, G, m, a, b, d) ==
  /\ Column(F, n) /\ Column(G, m) /\ a \in Int /\ b \in Int /\ d \in Int
  /\ \A j \in a..b : j \in 1..n /\ j - d \in 1..m /\ G[j - d] = F[j]
LEMMA OverMoved ==
  ASSUME NEW F, NEW n, NEW G, NEW m, NEW a, NEW b, NEW d, Shifted(F, n, G, m, a, b, d)
  PROVE  Over(G, a - d..b - d) = Over(F, a..b)
<1>1. /\ n \in Nat /\ F \in [1..n -> Int] /\ m \in Nat /\ G \in [1..m -> Int]
      /\ a \in Int /\ b \in Int /\ d \in Int
      /\ \A j \in a..b : j \in 1..n /\ j - d \in 1..m /\ G[j - d] = F[j]
  BY DEF Column, Shifted
<1>2. PICK f, g : f = [j \in a..b |-> F[j]] /\ g = [j \in a - d..b - d |-> G[j]]
  OBVIOUS
<1>3. f \in [a..b -> Int]
  BY <1>1, <1>2
<1>4. g \in [a - d..b - d -> Int]
  <2>1. ASSUME NEW j \in a - d..b - d PROVE G[j] \in Int
    <3>1. j + d \in a..b /\ (j + d) - d = j
      BY <1>1
    <3>2. j \in 1..m
      BY <1>1, <3>1
    <3>3. QED
      BY <1>1, <3>2
  <2>2. QED
    BY <1>2, <2>1
<1>5. ASSUME NEW j \in a..b PROVE g[j - d] = f[j]
  <2>1. j - d \in a - d..b - d
    BY <1>1
  <2>2. QED
    BY <1>1, <1>2, <2>1
<1>6. SumFunction(g) = SumFunction(f)
  BY <1>1, <1>3, <1>4, <1>5, StretchMoved
<1>7. QED
  BY <1>2, <1>6 DEF Over

LEMMA OverGrows ==
  ASSUME NEW F, NEW n, Column(F, n), NEW S, S \subseteq 1..n, NEW x, x \in 1..n, x \notin S
  PROVE  Over(F, S \cup {x}) = Over(F, S) + F[x] /\ Over(F, S) \in Int /\ F[x] \in Int
<1>1. n \in Nat /\ F \in [1..n -> Int]
  BY DEF Column
<1>2. PICK f, g : f = [j \in S |-> F[j]] /\ g = [j \in S \cup {x} |-> F[j]]
  OBVIOUS
<1>3. f \in [S -> Int] /\ g \in [S \cup {x} -> Int] /\ (\A y \in S : g[y] = f[y]) /\ g[x] = F[x]
  BY <1>1, <1>2
<1>4. IsFiniteSet(S)
  <2>1. IsFiniteSet(1..n)
    BY <1>1, FS_Interval
  <2>2. QED
    BY <2>1, FS_Subset
<1>5. SumFunction(g) = SumFunction(f) + g[x]
  <2>1. OneMore(f, S, g, x)
    BY <1>3, <1>4 DEF OneMore
  <2>2. QED
    BY <2>1, SumOfOneMore
<1>6. Over(F, S) \in Int /\ F[x] \in Int
  BY <1>1, OverTyped
<1>7. QED
  BY <1>2, <1>3, <1>5, <1>6 DEF Over

\* The sum with the last candle, and without the first one.
LEMMA OverEnds ==
  ASSUME NEW F, NEW n, Column(F, n), NEW a \in Int, NEW b \in Int, 1 <= a, a <= b, b <= n
  PROVE  /\ Over(F, a..b) = Over(F, a..b - 1) + F[b] /\ Over(F, a + 1..b) = Over(F, a..b) - F[a]
         /\ Over(F, a..b) \in Int /\ Over(F, a..b - 1) \in Int /\ F[a] \in Int /\ F[b] \in Int
<1>0. n \in Nat
  BY DEF Column
<1>1. PICK S, T, R : S = a..b - 1 /\ T = a + 1..b /\ R = a..b
  OBVIOUS
<1>2. S \subseteq 1..n /\ b \in 1..n /\ b \notin S /\ R = S \cup {b}
  BY <1>0, <1>1
<1>3. T \subseteq 1..n /\ a \in 1..n /\ a \notin T /\ R = T \cup {a}
  BY <1>0, <1>1
<1>4. Over(F, R) = Over(F, S) + F[b] /\ Over(F, S) \in Int /\ F[b] \in Int
  BY <1>2, OverGrows
<1>5. Over(F, R) = Over(F, T) + F[a] /\ Over(F, T) \in Int /\ F[a] \in Int
  BY <1>3, OverGrows
<1>6. PICK s, t, r, u, v : s = Over(F, S) /\ t = Over(F, T) /\ r = Over(F, R) /\ u = F[a] /\ v = F[b]
  OBVIOUS
<1>7. s \in Int /\ t \in Int /\ u \in Int /\ v \in Int /\ r = s + v /\ r = t + u
  BY <1>4, <1>5, <1>6
<1>8. r \in Int /\ t = r - u
  BY ONLY <1>7
<1>9. QED
  BY <1>1, <1>6, <1>7, <1>8

LEMMA BiggerOf ==
  /\ \A x, y \in Int : Max({x, y}) \in {x, y} /\ Max({x, y}) >= x /\ Max({x, y}) >= y
  /\ \A x, y, z \in Int : Max({x, y, z}) \in {x, y, z} /\ \A u \in {x, y, z} : Max({x, y, z}) >= u
  /\ \A x, y \in Int : Min({x, y}) \in {x, y} /\ Min({x, y}) <= x /\ Min({x, y}) <= y
<1>1. ASSUME NEW x \in Int, NEW y \in Int PROVE Max({x, y}) \in {x, y} /\ Max({x, y}) >= x /\ Max({x, y}) >= y
  <2>1. \E m \in {x, y} : \A u \in {x, y} : m >= u
    OBVIOUS
  <2>2. QED
    BY <2>1 DEF Max
<1>2. ASSUME NEW x \in Int, NEW y \in Int, NEW z \in Int
      PROVE  Max({x, y, z}) \in {x, y, z} /\ \A u \in {x, y, z} : Max({x, y, z}) >= u
  <2>1. \E m \in {x, y, z} : \A u \in {x, y, z} : m >= u
    OBVIOUS
  <2>2. QED
    BY <2>1 DEF Max
<1>3. ASSUME NEW x \in Int, NEW y \in Int PROVE Min({x, y}) \in {x, y} /\ Min({x, y}) <= x /\ Min({x, y}) <= y
  <2>1. \E m \in {x, y} : \A u \in {x, y} : m <= u
    OBVIOUS
  <2>2. QED
    BY <2>1 DEF Min
<1>4. QED
  BY <1>1, <1>2, <1>3

LEMMA BiggestOfFour ==
  ASSUME NEW x \in Int, NEW y \in Int, NEW z \in Int, NEW w \in Int
  PROVE  Max({x, y, z, w}) \in {x, y, z, w} /\ \A u \in {x, y, z, w} : Max({x, y, z, w}) >= u
<1>1. \E m \in {x, y, z} : \A u \in {x, y, z} : m >= u
  OBVIOUS
<1>2. PICK m \in {x, y, z} : \A u \in {x, y, z} : m >= u
  BY <1>1
<1>3. \E k \in {x, y, z, w} : \A u \in {x, y, z, w} : k >= u
  <2>1. CASE m >= w
    BY <1>2, <2>1
  <2>2. CASE ~(m >= w)
    <3>1. \A u \in {x, y, z, w} : w >= u
      BY <1>2, <2>2
    <3>2. QED
      BY <3>1
  <2>3. QED
    BY <2>1, <2>2
<1>4. QED
  BY <1>3 DEF Max

\* The numbers of the configuration, and what follows from them.
LEMMA Numbers ==
  /\ Cfg.leftBars \in Nat /\ Cfg.rightBars \in Nat /\ Cfg.lookbackBars \in Nat /\ Cfg.obvBars \in Nat
  /\ Cfg.period \in Nat /\ Cfg.period > 0 /\ Rebase \in Nat /\ Rebase > 0 /\ WindowFloor \in Nat
  /\ Back \in Nat /\ Back >= Cfg.leftBars /\ Back > 0
  /\ Capacity \in Nat /\ Capacity >= Cfg.lookbackBars + Cfg.leftBars + Back + 3
  /\ Capacity >= Cfg.period + 3 /\ Capacity >= Cfg.obvBars + 3
  /\ MaxWindow \in Nat /\ MaxWindow >= 8
  /\ \A n \in Int : LET k == KeptFrom(n) IN
       /\ k \in Nat /\ k > Cfg.leftBars /\ k >= n - Cfg.lookbackBars + 1
       /\ k \in {Cfg.leftBars + 1, n - Cfg.lookbackBars + 1}
<1>1. /\ Cfg.leftBars \in Nat /\ Cfg.rightBars \in Nat /\ Cfg.lookbackBars \in Nat /\ Cfg.obvBars \in Nat
      /\ Cfg.period \in Nat /\ Cfg.period > 0 /\ Rebase \in Nat /\ Rebase > 0 /\ WindowFloor \in Nat
  <2>1. Cfg.leftBars \in Nat /\ Cfg.rightBars \in Nat /\ Cfg.lookbackBars \in Nat /\ Cfg.obvBars \in Nat
    BY ImpulseAssumption
  <2>2. Cfg.period \in Nat \ {0}
    BY ImpulseAssumption
  <2>3. Rebase \in Nat \ {0} /\ WindowFloor \in Nat
    BY ImpulseAssumption
  <2>4. QED
    BY <2>1, <2>2, <2>3
<1>2. Back \in Nat /\ Back >= Cfg.leftBars /\ Back > 0
  <2>1. 5 \in Int /\ 2 * Cfg.leftBars \in Int
    BY <1>1
  <2>2. Back \in {5, 2 * Cfg.leftBars} /\ Back >= 5 /\ Back >= 2 * Cfg.leftBars
    BY <2>1, BiggerOf DEF Back
  <2>3. QED
    BY <1>1, <2>2
<1>3. /\ Capacity \in Nat /\ Capacity >= Cfg.lookbackBars + Cfg.leftBars + Back + 3
      /\ Capacity >= Cfg.period + 3 /\ Capacity >= Cfg.obvBars + 3
  <2>1. PICK x, y, z : x = Cfg.lookbackBars + Cfg.leftBars + Back + 3 /\ y = Cfg.period + 3 /\ z = Cfg.obvBars + 3
    OBVIOUS
  <2>2. x \in Nat /\ y \in Nat /\ z \in Nat /\ 10 \in Nat
    BY <1>1, <1>2, <2>1
  <2>3. Max({x, y, z, 10}) \in {x, y, z, 10} /\ \A u \in {x, y, z, 10} : Max({x, y, z, 10}) >= u
    <3>1. x \in Int /\ y \in Int /\ z \in Int /\ 10 \in Int
      BY <2>2
    <3>2. QED
      BY <3>1, BiggestOfFour
  <2>4. Capacity = Max({x, y, z, 10})
    BY <2>1 DEF Capacity
  <2>5. QED
    BY <2>1, <2>2, <2>3, <2>4
<1>4. MaxWindow \in Nat /\ MaxWindow >= 8
  <2>1. PICK x : x = Cfg.lookbackBars + Cfg.leftBars + Cfg.rightBars + 8
    OBVIOUS
  <2>2. x \in Nat /\ x >= 8
    BY <1>1, <2>1
  <2>3. MaxWindow \in {WindowFloor, x} /\ MaxWindow >= x
    <3>1. x \in Int /\ WindowFloor \in Int
      BY <1>1, <2>2
    <3>2. Max({WindowFloor, x}) \in {WindowFloor, x} /\ Max({WindowFloor, x}) >= x
      BY <3>1, BiggerOf
    <3>3. QED
      BY <2>1, <3>2 DEF MaxWindow
  <2>4. QED
    BY <1>1, <2>2, <2>3
<1>5. ASSUME NEW n \in Int
      PROVE LET k == KeptFrom(n) IN
            /\ k \in Nat /\ k > Cfg.leftBars /\ k >= n - Cfg.lookbackBars + 1
            /\ k \in {Cfg.leftBars + 1, n - Cfg.lookbackBars + 1}
  <2>1. Cfg.leftBars + 1 \in Int /\ n - Cfg.lookbackBars + 1 \in Int
    BY <1>1
  <2>2. /\ KeptFrom(n) \in {Cfg.leftBars + 1, n - Cfg.lookbackBars + 1}
        /\ KeptFrom(n) >= Cfg.leftBars + 1 /\ KeptFrom(n) >= n - Cfg.lookbackBars + 1
    BY <2>1, BiggerOf DEF KeptFrom
  <2>3. QED
    BY <1>1, <2>1, <2>2
<1>6. QED
  BY <1>1, <1>2, <1>3, <1>4, <1>5

\* h is what is left of H after the first `off` candles.
Window(h, H, off) ==
  /\ h \in Seq(Quote) /\ H \in Seq(Quote) /\ off \in Nat /\ Len(H) = off + Len(h)
  /\ \A j \in 1..Len(h) : h[j] = H[j + off]
\* It reaches back past the look-back, as far as a mean volume before an impulse goes.
Wide(n, off) == off = 0 \/ off + Cfg.lookbackBars + Back <= n

LEMMA WindowIs ==
  ASSUME NEW h, NEW H, NEW off, Window(h, H, off)
  PROVE  /\ h \in Seq(Quote) /\ H \in Seq(Quote)
         /\ Len(h) \in Nat /\ Len(H) \in Nat /\ off \in Nat /\ Len(H) = off + Len(h)
         /\ \A j \in off + 1..Len(H) : h[j - off] = H[j]
<1>1. /\ h \in Seq(Quote) /\ H \in Seq(Quote)
      /\ Len(h) \in Nat /\ Len(H) \in Nat /\ off \in Nat /\ Len(H) = off + Len(h)
  BY DEF Window
<1>2. ASSUME NEW j \in off + 1..Len(H) PROVE h[j - off] = H[j]
  <2>1. j - off \in 1..Len(h) /\ (j - off) + off = j
    BY <1>1
  <2>2. QED
    BY <2>1 DEF Window
<1>3. QED
  BY <1>1, <1>2

LEMMA QuoteIs == \A b \in Quote : b.open \in Int /\ b.high \in Int /\ b.low \in Int /\ b.close \in Int /\ b.vol \in Int
BY DEF Quote

LEMMA ChangesTyped ==
  ASSUME NEW H \in Seq(Quote), NEW j \in 2..Len(H)
  PROVE  Rise(H, j) \in Int /\ Fall(H, j) \in Int /\ Flow(H, j) \in Int
<1>1. Len(H) \in Nat /\ j \in 1..Len(H) /\ j - 1 \in 1..Len(H)
  OBVIOUS
<1>2. H[j] \in Quote /\ H[j - 1] \in Quote
  BY <1>1, ElementOfSeq
<1>3. H[j].close \in Int /\ H[j - 1].close \in Int /\ H[j].vol \in Int
  BY <1>2, QuoteIs
<1>4. PICK x \in Int, y \in Int : x = H[j].close - H[j - 1].close /\ y = H[j - 1].close - H[j].close
  BY <1>3
<1>5. Max({0, x}) \in {0, x} /\ Max({0, y}) \in {0, y}
  <2>1. 0 \in Int
    OBVIOUS
  <2>2. QED
    BY <2>1, BiggerOf
<1>6. Rise(H, j) \in Int /\ Fall(H, j) \in Int
  BY <1>4, <1>5 DEF Rise, Fall
<1>7. QED
  BY <1>3, <1>6 DEF Flow

\* The columns that the indicators sum up. The first candle is no change.
Columns(H) ==
  [vol |-> [j \in 1..Len(H) |-> H[j].vol],
   rise |-> [j \in 1..Len(H) |-> IF j = 1 THEN 0 ELSE Rise(H, j)],
   fall |-> [j \in 1..Len(H) |-> IF j = 1 THEN 0 ELSE Fall(H, j)],
   flow |-> [j \in 1..Len(H) |-> IF j = 1 THEN 0 ELSE Flow(H, j)]]

LEMMA ColumnsAre ==
  ASSUME NEW H \in Seq(Quote)
  PROVE  /\ Column(Columns(H).vol, Len(H)) /\ Column(Columns(H).rise, Len(H))
         /\ Column(Columns(H).fall, Len(H)) /\ Column(Columns(H).flow, Len(H))
<1>1. Len(H) \in Nat
  OBVIOUS
<1>2. \A j \in 1..Len(H) : H[j].vol \in Int
  BY ElementOfSeq, QuoteIs
<1>3. \A j \in 1..Len(H) : j # 1 => j \in 2..Len(H)
  OBVIOUS
<1>4. \A j \in 1..Len(H) : j # 1 => Rise(H, j) \in Int /\ Fall(H, j) \in Int /\ Flow(H, j) \in Int
  BY <1>3, ChangesTyped
<1>5. QED
  BY <1>1, <1>2, <1>4 DEF Column, Columns

\* The sums are sums over columns.
LEMMA SumsAre ==
  ASSUME NEW H \in Seq(Quote), NEW a \in Int, NEW b \in Int, b <= Len(H)
  PROVE  /\ 1 <= a => Volume(H, a..b) = Over(Columns(H).vol, a..b)
         /\ 2 <= a => /\ Rises(H, a..b) = Over(Columns(H).rise, a..b)
                      /\ Falls(H, a..b) = Over(Columns(H).fall, a..b)
                      /\ Flows(H, a..b) = Over(Columns(H).flow, a..b)
<1>1. ASSUME 1 <= a PROVE Volume(H, a..b) = Over(Columns(H).vol, a..b)
  <2>1. \A j \in a..b : Columns(H).vol[j] = H[j].vol
    BY <1>1 DEF Columns
  <2>2. [j \in a..b |-> Columns(H).vol[j]] = [j \in a..b |-> H[j].vol]
    BY <2>1
  <2>3. QED
    BY <2>2 DEF Volume, Over
<1>2. ASSUME 2 <= a
      PROVE  /\ Rises(H, a..b) = Over(Columns(H).rise, a..b)
             /\ Falls(H, a..b) = Over(Columns(H).fall, a..b)
             /\ Flows(H, a..b) = Over(Columns(H).flow, a..b)
  <2>1. \A j \in a..b : j \in 1..Len(H) /\ j # 1
    BY <1>2
  <2>2. \A j \in a..b : /\ Columns(H).rise[j] = Rise(H, j) /\ Columns(H).fall[j] = Fall(H, j)
                         /\ Columns(H).flow[j] = Flow(H, j)
    BY <2>1 DEF Columns
  <2>3. /\ [j \in a..b |-> Columns(H).rise[j]] = [j \in a..b |-> Rise(H, j)]
        /\ [j \in a..b |-> Columns(H).fall[j]] = [j \in a..b |-> Fall(H, j)]
        /\ [j \in a..b |-> Columns(H).flow[j]] = [j \in a..b |-> Flow(H, j)]
    BY <2>2
  <2>4. QED
    BY <2>3 DEF Rises, Falls, Flows, Over
<1>3. QED
  BY <1>1, <1>2

\* What h says of the candles after the first `off` of H, up to the candle b.
Reads(h, H, off, b) ==
  /\ h \in Seq(Quote) /\ H \in Seq(Quote) /\ off \in Nat /\ b \in Int
  /\ \A j \in off + 1..b : j \in 1..Len(H) /\ j - off \in 1..Len(h) /\ h[j - off] = H[j]
LEMMA WindowReads == ASSUME NEW h, NEW H, NEW off, Window(h, H, off) PROVE Reads(h, H, off, Len(H))
<1>1. h \in Seq(Quote) /\ H \in Seq(Quote) /\ off \in Nat /\ Len(H) = off + Len(h) /\ Len(h) \in Nat
  BY DEF Window
<1>2. \A j \in off + 1..Len(H) : j \in 1..Len(H) /\ j - off \in 1..Len(h)
  BY <1>1
<1>3. QED
  BY <1>1, <1>2, WindowIs DEF Reads
LEMMA LongerReads ==
  ASSUME NEW H \in Seq(Quote), NEW q \in Quote
  PROVE  /\ Reads(H, Append(H, q), 0, Len(H)) /\ Append(H, q) \in Seq(Quote)
         /\ Len(Append(H, q)) = Len(H) + 1 /\ Append(H, q)[Len(H) + 1] = q
<1>1. /\ Append(H, q) \in Seq(Quote) /\ Len(Append(H, q)) = Len(H) + 1 /\ Append(H, q)[Len(H) + 1] = q
      /\ \A j \in 1..Len(H) : Append(H, q)[j] = H[j]
  BY AppendProperties
<1>2. \A j \in 0 + 1..Len(H) : j \in 1..Len(Append(H, q)) /\ j - 0 \in 1..Len(H) /\ H[j - 0] = Append(H, q)[j]
  BY <1>1
<1>3. QED
  BY <1>1, <1>2 DEF Reads

LEMMA SumsMoved ==
  ASSUME NEW h, NEW H, NEW off, NEW end, Reads(h, H, off, end), NEW a \in Int, NEW b \in Int, off < a, b <= end
  PROVE  /\ Volume(h, a - off..b - off) = Volume(H, a..b)
         /\ off + 1 < a => /\ Rises(h, a - off..b - off) = Rises(H, a..b)
                            /\ Falls(h, a - off..b - off) = Falls(H, a..b)
                            /\ Flows(h, a - off..b - off) = Flows(H, a..b)
<1>1. /\ h \in Seq(Quote) /\ H \in Seq(Quote) /\ off \in Nat /\ end \in Int
      /\ \A j \in off + 1..end : j \in 1..Len(H) /\ j - off \in 1..Len(h) /\ h[j - off] = H[j]
  BY DEF Reads
<1>2. CASE ~(a <= b)
  <2>1. a..b = {} /\ a - off..b - off = {}
    BY <1>1, <1>2
  <2>2. \A G : [j \in {} |-> G[j].vol] \in [{} -> Int]
    OBVIOUS
  <2>3. QED
    BY <2>1 DEF Volume, Rises, Falls, Flows
<1>3. CASE a <= b
  <2>1. b \in 1..Len(H) /\ b - off \in 1..Len(h) /\ a \in 1..Len(H) /\ a - off \in 1..Len(h)
    BY <1>1, <1>3
  <2>2. PICK n, m, x, y, v, w : /\ n = Len(H) /\ m = Len(h) /\ x = a - off /\ y = b - off
                               /\ v = Columns(H) /\ w = Columns(h)
    OBVIOUS
  <2>3. n \in Nat /\ m \in Nat /\ x \in Int /\ y \in Int /\ y <= m /\ b <= n /\ 1 <= x /\ 1 <= a /\ off \in Int
    BY <1>1, <2>1, <2>2
  <2>4. /\ Column(v.vol, n) /\ Column(v.rise, n) /\ Column(v.fall, n) /\ Column(v.flow, n)
        /\ Column(w.vol, m) /\ Column(w.rise, m) /\ Column(w.fall, m) /\ Column(w.flow, m)
    BY <1>1, <2>2, ColumnsAre
  <2>5. ASSUME NEW j \in a..b PROVE j \in 1..n /\ j - off \in 1..m /\ h[j - off] = H[j]
    BY <1>1, <2>2
  <2>6. Over(w.vol, x..y) = Over(v.vol, a..b)
    <3>1. \A j \in a..b : j \in 1..n /\ j - off \in 1..m /\ w.vol[j - off] = v.vol[j]
      BY <2>2, <2>5 DEF Columns
    <3>2. Shifted(v.vol, n, w.vol, m, a, b, off)
      BY <2>3, <2>4, <3>1 DEF Shifted
    <3>3. Over(w.vol, a - off..b - off) = Over(v.vol, a..b)
      BY <3>2, OverMoved
    <3>4. QED
      BY <2>2, <3>3
  <2>7. Volume(h, x..y) = Over(w.vol, x..y) /\ Volume(H, a..b) = Over(v.vol, a..b)
    <3>1. Volume(h, x..y) = Over(w.vol, x..y)
      BY <1>1, <2>2, <2>3, SumsAre
    <3>2. Volume(H, a..b) = Over(v.vol, a..b)
      BY <1>1, <2>2, <2>3, SumsAre
    <3>3. QED
      BY <3>1, <3>2
  <2>8. ASSUME off + 1 < a
        PROVE  /\ Rises(h, x..y) = Rises(H, a..b) /\ Falls(h, x..y) = Falls(H, a..b) /\ Flows(h, x..y) = Flows(H, a..b)
    <3>1. ASSUME NEW j \in a..b
          PROVE  /\ j \in 1..n /\ j - off \in 1..m /\ w.rise[j - off] = v.rise[j]
                 /\ w.fall[j - off] = v.fall[j] /\ w.flow[j - off] = v.flow[j]
      <4>1. j \in 1..n /\ j - off \in 1..m /\ j # 1 /\ j - off # 1 /\ h[j - off] = H[j]
        BY <1>1, <2>5, <2>8
      <4>2. h[j - off - 1] = H[j - 1]
        <5>1. j - 1 \in off + 1..end
          BY <1>1, <2>8
        <5>2. h[(j - 1) - off] = H[j - 1]
          BY <1>1, <5>1
        <5>3. (j - 1) - off = j - off - 1
          BY <1>1
        <5>4. QED
          BY <5>2, <5>3
      <4>3. /\ Rise(h, j - off) = Rise(H, j) /\ Fall(h, j - off) = Fall(H, j) /\ Flow(h, j - off) = Flow(H, j)
        BY <4>1, <4>2 DEF Rise, Fall, Flow
      <4>4. QED
        BY <2>2, <4>1, <4>3 DEF Columns
    <3>2. 2 <= a /\ 2 <= x
      BY <1>1, <2>2, <2>8
    <3>3. Over(w.rise, x..y) = Over(v.rise, a..b)
      <4>1. \A j \in a..b : j \in 1..n /\ j - off \in 1..m /\ w.rise[j - off] = v.rise[j]
        BY <3>1
      <4>2. Shifted(v.rise, n, w.rise, m, a, b, off)
        BY <2>3, <2>4, <4>1 DEF Shifted
      <4>3. Over(w.rise, a - off..b - off) = Over(v.rise, a..b)
        BY <4>2, OverMoved
      <4>4. QED
        BY <2>2, <4>3
    <3>4. Over(w.fall, x..y) = Over(v.fall, a..b)
      <4>1. \A j \in a..b : j \in 1..n /\ j - off \in 1..m /\ w.fall[j - off] = v.fall[j]
        BY <3>1
      <4>2. Shifted(v.fall, n, w.fall, m, a, b, off)
        BY <2>3, <2>4, <4>1 DEF Shifted
      <4>3. Over(w.fall, a - off..b - off) = Over(v.fall, a..b)
        BY <4>2, OverMoved
      <4>4. QED
        BY <2>2, <4>3
    <3>5. Over(w.flow, x..y) = Over(v.flow, a..b)
      <4>1. \A j \in a..b : j \in 1..n /\ j - off \in 1..m /\ w.flow[j - off] = v.flow[j]
        BY <3>1
      <4>2. Shifted(v.flow, n, w.flow, m, a, b, off)
        BY <2>3, <2>4, <4>1 DEF Shifted
      <4>3. Over(w.flow, a - off..b - off) = Over(v.flow, a..b)
        BY <4>2, OverMoved
      <4>4. QED
        BY <2>2, <4>3
    <3>6. /\ Rises(h, x..y) = Over(w.rise, x..y) /\ Rises(H, a..b) = Over(v.rise, a..b)
          /\ Falls(h, x..y) = Over(w.fall, x..y) /\ Falls(H, a..b) = Over(v.fall, a..b)
          /\ Flows(h, x..y) = Over(w.flow, x..y) /\ Flows(H, a..b) = Over(v.flow, a..b)
      BY <1>1, <2>2, <2>3, <3>2, SumsAre
    <3>7. QED
      BY <3>3, <3>4, <3>5, <3>6
  <2>9. QED
    BY <2>2, <2>6, <2>7, <2>8
<1>4. QED
  BY <1>2, <1>3

\* The sums with the last candle, and without the first one.
LEMMA SumsEnd ==
  ASSUME NEW H \in Seq(Quote), NEW a \in Int, NEW b \in Int, 1 <= a, a <= b, b <= Len(H)
  PROVE  /\ Volume(H, a..b) = Volume(H, a..b - 1) + H[b].vol /\ Volume(H, a + 1..b) = Volume(H, a..b) - H[a].vol
         /\ 2 <= a =>
              /\ Rises(H, a..b) = Rises(H, a..b - 1) + Rise(H, b) /\ Rises(H, a + 1..b) = Rises(H, a..b) - Rise(H, a)
              /\ Falls(H, a..b) = Falls(H, a..b - 1) + Fall(H, b) /\ Falls(H, a + 1..b) = Falls(H, a..b) - Fall(H, a)
              /\ Flows(H, a..b) = Flows(H, a..b - 1) + Flow(H, b)
<1>1. PICK n, v : n = Len(H) /\ v = Columns(H)
  OBVIOUS
<1>2. n \in Nat /\ Column(v.vol, n) /\ Column(v.rise, n) /\ Column(v.fall, n) /\ Column(v.flow, n) /\ b <= n
  BY <1>1, ColumnsAre
<1>3. a + 1 \in Int /\ b - 1 \in Int /\ b - 1 <= Len(H) /\ 1 <= a + 1 /\ a \in 1..Len(H) /\ b \in 1..Len(H)
  OBVIOUS
<1>4. /\ Volume(H, a..b) = Over(v.vol, a..b) /\ Volume(H, a..b - 1) = Over(v.vol, a..b - 1)
      /\ Volume(H, a + 1..b) = Over(v.vol, a + 1..b)
  BY <1>1, <1>3, SumsAre
<1>5. ASSUME NEW F, Column(F, n)
      PROVE  Over(F, a..b) = Over(F, a..b - 1) + F[b] /\ Over(F, a + 1..b) = Over(F, a..b) - F[a]
  <2>1. a \in Int /\ b \in Int /\ 1 <= a /\ a <= b /\ b <= n
    BY <1>2
  <2>2. QED
    BY ONLY <1>5, <2>1, OverEnds
<1>6. v.vol[a] = H[a].vol /\ v.vol[b] = H[b].vol
  BY <1>1, <1>3 DEF Columns
<1>7. Over(v.vol, a..b) = Over(v.vol, a..b - 1) + v.vol[b] /\ Over(v.vol, a + 1..b) = Over(v.vol, a..b) - v.vol[a]
  BY ONLY <1>2, <1>5
<1>8. Over(v.rise, a..b) = Over(v.rise, a..b - 1) + v.rise[b] /\ Over(v.rise, a + 1..b) = Over(v.rise, a..b) - v.rise[a]
  BY ONLY <1>2, <1>5
<1>9. /\ Over(v.fall, a..b) = Over(v.fall, a..b - 1) + v.fall[b] /\ Over(v.fall, a + 1..b) = Over(v.fall, a..b) - v.fall[a]
      /\ Over(v.flow, a..b) = Over(v.flow, a..b - 1) + v.flow[b]
  BY ONLY <1>2, <1>5
<1>10. ASSUME 2 <= a
      PROVE  /\ Rises(H, a..b) = Rises(H, a..b - 1) + Rise(H, b) /\ Rises(H, a + 1..b) = Rises(H, a..b) - Rise(H, a)
             /\ Falls(H, a..b) = Falls(H, a..b - 1) + Fall(H, b) /\ Falls(H, a + 1..b) = Falls(H, a..b) - Fall(H, a)
             /\ Flows(H, a..b) = Flows(H, a..b - 1) + Flow(H, b)
  <2>1. 2 <= a + 1 /\ a # 1 /\ b # 1
    BY <1>10
  <2>2. /\ Rises(H, a..b) = Over(v.rise, a..b) /\ Rises(H, a..b - 1) = Over(v.rise, a..b - 1)
        /\ Rises(H, a + 1..b) = Over(v.rise, a + 1..b)
        /\ Falls(H, a..b) = Over(v.fall, a..b) /\ Falls(H, a..b - 1) = Over(v.fall, a..b - 1)
        /\ Falls(H, a + 1..b) = Over(v.fall, a + 1..b)
        /\ Flows(H, a..b) = Over(v.flow, a..b) /\ Flows(H, a..b - 1) = Over(v.flow, a..b - 1)
    BY <1>1, <1>3, <1>10, <2>1, SumsAre
  <2>3. /\ v.rise[a] = Rise(H, a) /\ v.rise[b] = Rise(H, b) /\ v.fall[a] = Fall(H, a) /\ v.fall[b] = Fall(H, b)
        /\ v.flow[b] = Flow(H, b)
    BY <1>1, <1>3, <2>1 DEF Columns
  <2>4. QED
    BY <1>8, <1>9, <2>2, <2>3
<1>11. QED
  BY <1>4, <1>6, <1>7, <1>10

LEMMA SumsTyped ==
  ASSUME NEW H \in Seq(Quote), NEW a \in Int, NEW b \in Int, b <= Len(H)
  PROVE  /\ 1 <= a => Volume(H, a..b) \in Int
         /\ 2 <= a => Rises(H, a..b) \in Int /\ Falls(H, a..b) \in Int /\ Flows(H, a..b) \in Int
<1>1. PICK n, v, S : n = Len(H) /\ v = Columns(H) /\ S = a..b
  OBVIOUS
<1>2. n \in Nat /\ Column(v.vol, n) /\ Column(v.rise, n) /\ Column(v.fall, n) /\ Column(v.flow, n)
  BY <1>1, ColumnsAre
<1>3. ASSUME 1 <= a PROVE S \in SUBSET (1..n)
  BY <1>1, <1>3
<1>4. ASSUME 1 <= a PROVE /\ Over(v.vol, S) \in Int /\ Over(v.rise, S) \in Int
                          /\ Over(v.fall, S) \in Int /\ Over(v.flow, S) \in Int
  BY <1>2, <1>3, <1>4, OverTyped
<1>5. /\ 1 <= a => Volume(H, S) = Over(v.vol, S)
      /\ 2 <= a => Rises(H, S) = Over(v.rise, S) /\ Falls(H, S) = Over(v.fall, S) /\ Flows(H, S) = Over(v.flow, S)
  BY <1>1, SumsAre
<1>6. 2 <= a => 1 <= a
  OBVIOUS
<1>7. /\ 1 <= a => Volume(H, S) \in Int
      /\ 2 <= a => Rises(H, S) \in Int /\ Falls(H, S) \in Int /\ Flows(H, S) \in Int
  BY ONLY <1>4, <1>5, <1>6
<1>8. QED
  BY <1>1, <1>7

\* Which of two pairs of pivots the searches reach first.
Later(p, q) == p[2] > q[2] \/ (p[2] = q[2] /\ p[1] >= q[1])
LEMMA LatestPicks ==
  ASSUME NEW P, NEW n \in Nat, P \subseteq (1..n) \X (1..n), P # {}
  PROVE  \E p \in P : \A q \in P : Later(p, q)
<1>1. \A p \in P : p[1] \in 1..n /\ p[2] \in 1..n /\ p = <<p[1], p[2]>>
  OBVIOUS
<1>2. PICK T : T = {n - q[2] : q \in P}
  OBVIOUS
<1>3. T \in SUBSET Nat /\ T # {}
  BY <1>1, <1>2
<1>4. PICK m : m \in T /\ \A t \in T : m <= t
  BY <1>3, MinIsLeast
<1>5. PICK U : U = {n - q[1] : q \in {p \in P : n - p[2] = m}}
  OBVIOUS
<1>6. U \in SUBSET Nat /\ U # {}
  BY <1>1, <1>2, <1>4, <1>5
<1>7. PICK u : u \in U /\ \A t \in U : u <= t
  BY <1>6, MinIsLeast
<1>8. PICK p \in P : n - p[2] = m /\ u = n - p[1]
  BY <1>5, <1>7
<1>9. ASSUME NEW q \in P PROVE Later(p, q)
  <2>1. n - p[2] <= n - q[2]
    BY <1>2, <1>4, <1>8
  <2>2. n - q[2] = m => n - p[1] <= n - q[1]
    BY <1>5, <1>7, <1>8
  <2>3. p[1] \in Int /\ p[2] \in Int /\ q[1] \in Int /\ q[2] \in Int
    BY <1>1
  <2>4. QED
    BY <1>8, <2>1, <2>2, <2>3 DEF Later
<1>10. QED
  BY <1>9

\* The pairs of Q are those of P in the numbering that starts after d candles.
Renumbered(Q, P, d) ==
  /\ \A q \in Q : q \in Int \X Int /\ <<q[1] + d, q[2] + d>> \in P
  /\ \A p \in P : <<p[1] - d, p[2] - d>> \in Q
Within(P, off, n) == \A p \in P : p \in Int \X Int /\ off < p[1] /\ p[1] < p[2] /\ p[2] <= n
LEMMA LatestMoved ==
  ASSUME NEW h, NEW H, NEW off, Window(h, H, off), NEW d, d \in {0, off}, NEW P, NEW Q, Renumbered(Q, P, d),
         Within(P, off, Len(H))
  PROVE  Latest(h, off - d, Q) = Moved(Latest(H, 0, P), d)
<1>0. /\ Len(h) \in Nat /\ Len(H) \in Nat /\ off \in Nat /\ d \in Int /\ H \in Seq(Quote)
      /\ \A j \in off + 1..Len(H) : h[j - off] = H[j]
  BY WindowIs
<1>1. CASE P = {}
  <2>1. Q = {}
    BY <1>1 DEF Renumbered
  <2>2. QED
    BY <1>1, <2>1 DEF Latest, Moved
<1>2. CASE P # {}
  <2>1. Q # {}
    BY <1>2 DEF Renumbered
  <2>2. PICK n : n = Len(H)
    OBVIOUS
  <2>3. P \subseteq (1..n) \X (1..n) /\ n \in Nat
    BY <1>0, <2>2 DEF Within
  <2>4. \E p \in P : \A q \in P : Later(p, q)
    BY <1>2, <2>3, LatestPicks
  <2>5. PICK p : p = CHOOSE x \in P : \A y \in P : x[2] > y[2] \/ (x[2] = y[2] /\ x[1] >= y[1])
    OBVIOUS
  <2>6. p \in P /\ \A q \in P : Later(p, q)
    BY <2>4, <2>5 DEF Later
  <2>7. p \in Int \X Int /\ off < p[1] /\ p[1] < p[2] /\ p[2] <= Len(H)
    BY <2>6 DEF Within
  <2>8. PICK r : r = <<p[1] - d, p[2] - d>>
    OBVIOUS
  <2>9. r \in Q /\ r[1] = p[1] - d /\ r[2] = p[2] - d
    BY <2>6, <2>8 DEF Renumbered
  <2>10. ASSUME NEW q \in Q PROVE Later(r, q) /\ (Later(q, r) => q = r)
    <3>1. q \in Int \X Int /\ <<q[1] + d, q[2] + d>> \in P
      BY DEF Renumbered
    <3>2. PICK x \in Int, y \in Int : q = <<x, y>> /\ q[1] = x /\ q[2] = y
      BY <3>1
    <3>3. PICK z \in P : z[1] = x + d /\ z[2] = y + d
      BY <3>1, <3>2
    <3>4. Later(p, z)
      BY <2>6
    <3>5. PICK u \in Int, v \in Int : p[1] = u /\ p[2] = v
      BY <2>7
    <3>6. r[1] = u - d /\ r[2] = v - d /\ r = <<u - d, v - d>>
      BY <2>8, <2>9, <3>5
    <3>7. v > y + d \/ (v = y + d /\ u >= x + d)
      BY <3>3, <3>4, <3>5 DEF Later
    <3>8. v - d > y \/ (v - d = y /\ u - d >= x)
      BY <1>0, <3>7
    <3>9. Later(r, q)
      BY <3>2, <3>6, <3>8 DEF Later
    <3>10. ASSUME Later(q, r) PROVE q = r
      <4>1. y > v - d \/ (y = v - d /\ x >= u - d)
        BY <3>2, <3>6, <3>10 DEF Later
      <4>2. y = v - d /\ x = u - d
        BY <1>0, <3>8, <4>1
      <4>3. QED
        BY <3>2, <3>6, <4>2
    <3>11. QED
      BY <3>9, <3>10
  <2>11. PICK q : q = CHOOSE x \in Q : \A y \in Q : x[2] > y[2] \/ (x[2] = y[2] /\ x[1] >= y[1])
    OBVIOUS
  <2>12. q \in Q /\ \A t \in Q : Later(q, t)
    <3>1. r \in Q /\ \A t \in Q : Later(r, t)
      BY <2>9, <2>10
    <3>2. QED
      BY <2>11, <3>1 DEF Later
  <2>13. q = r
    BY <2>9, <2>10, <2>12
  <2>14. Latest(h, off - d, Q) = Candidate(h, off - d, r) /\ Latest(H, 0, P) = Candidate(H, 0, p)
    BY <1>2, <2>1, <2>5, <2>11, <2>13 DEF Latest
  <2>15. Candidate(h, off - d, r) = Moved(Candidate(H, 0, p), d)
    <3>1. PICK u \in Int, v \in Int : p[1] = u /\ p[2] = v /\ off < u /\ u < v /\ v <= Len(H)
      BY <2>7
    <3>2. r[1] - (off - d) = u - off /\ r[2] - (off - d) = v - off
      BY <1>0, <2>9, <3>1
    <3>3. h[u - off] = H[u] /\ h[v - off] = H[v] /\ u - 0 = u /\ v - 0 = v
      <4>1. u \in off + 1..Len(H) /\ v \in off + 1..Len(H) /\ u - 0 = u /\ v - 0 = v
        BY <1>0, <3>1
      <4>2. QED
        BY <1>0, <4>1
    <3>4. Volume(h, u - off..v - off) = Volume(H, u..v)
      <4>1. Reads(h, H, off, Len(H))
        BY WindowReads
      <4>2. QED
        BY <3>1, <4>1, SumsMoved
    <3>5. Candidate(h, off - d, r) = [lo |-> u - d, hi |-> v - d, low |-> H[u].low, high |-> H[v].high, vol |-> Volume(H, u..v)]
      BY <2>9, <3>1, <3>2, <3>3, <3>4 DEF Candidate
    <3>6. Candidate(H, 0, p) = [lo |-> u, hi |-> v, low |-> H[u].low, high |-> H[v].high, vol |-> Volume(H, u..v)]
      BY <3>1, <3>3 DEF Candidate
    <3>7. Candidate(H, 0, p) # NoImpulse
      <4>1. u # 0
        BY <1>0, <3>1
      <4>2. QED
        BY <3>6, <4>1 DEF NoImpulse
    <3>8. PICK c, x, y, z : c = Candidate(H, 0, p) /\ x = H[u].low /\ y = H[v].high /\ z = Volume(H, u..v)
      OBVIOUS
    <3>9. c = [lo |-> u, hi |-> v, low |-> x, high |-> y, vol |-> z]
      BY <3>6, <3>8
    <3>10. [c EXCEPT !.lo = @ - d, !.hi = @ - d] = [lo |-> u - d, hi |-> v - d, low |-> x, high |-> y, vol |-> z]
      <4>1. PICK e : e = [c EXCEPT !.lo = @ - d]
        OBVIOUS
      <4>2. e = [lo |-> u - d, hi |-> v, low |-> x, high |-> y, vol |-> z]
        BY <3>9, <4>1
      <4>3. [e EXCEPT !.hi = @ - d] = [lo |-> u - d, hi |-> v - d, low |-> x, high |-> y, vol |-> z]
        BY <4>2
      <4>4. [c EXCEPT !.lo = @ - d, !.hi = @ - d] = [e EXCEPT !.hi = @ - d]
        BY <3>9, <4>1, <4>2
      <4>5. QED
        BY <4>3, <4>4
    <3>11. Candidate(h, off - d, r) = [lo |-> u - d, hi |-> v - d, low |-> x, high |-> y, vol |-> z]
      BY <3>5, <3>8
    <3>12. QED
      BY <3>7, <3>8, <3>10, <3>11 DEF Moved
  <2>16. QED
    BY <2>14, <2>15
<1>3. QED
  BY <1>1, <1>2

LEMMA ExpandsMoved ==
  ASSUME NEW h, NEW H, NEW off, Window(h, H, off), NEW d \in {0, off}, NEW u \in Int, NEW v \in Int,
         off = 0 \/ off < u - Back, off < u, u < v, v <= Len(H)
  PROVE  /\ Expands(h, off - d, u - d, v - d, Max({1, u - d - Back})) <=> Expands(H, 0, u, v, Max({1, u - Back}))
         /\ Max({1, u - d - Back}) > off - d
<1>1. /\ Len(h) \in Nat /\ Len(H) \in Nat /\ off \in Nat /\ d \in Int /\ Back \in Nat
  BY WindowIs, Numbers
<1>2. PICK m, k : m = Max({1, u - d - Back}) /\ k = Max({1, u - Back})
  OBVIOUS
<1>3. 1 \in Int /\ u - d - Back \in Int /\ u - Back \in Int
  BY <1>1
<1>4. m \in {1, u - d - Back} /\ m >= 1 /\ m >= u - d - Back /\ k \in {1, u - Back} /\ k >= 1 /\ k >= u - Back
  BY <1>2, <1>3, BiggerOf
<1>5. m \in Int /\ k \in Int /\ m = k - d /\ off < k
  <2>1. CASE off = 0
    BY <1>1, <1>3, <1>4, <2>1
  <2>2. CASE off # 0
    BY <1>1, <1>3, <1>4, <2>2
  <2>3. QED
    BY <2>1, <2>2
<1>6. /\ u - d - (off - d) = u - off /\ v - d - (off - d) = v - off /\ m - (off - d) = k - off
      /\ u - d - 1 - (off - d) = (u - 1) - off /\ u - 0 = u /\ v - 0 = v /\ k - 0 = k /\ u - 1 - 0 = u - 1
      /\ (u - d) - m = u - k /\ (v - d) - (u - d) + 1 = v - u + 1 /\ (u - d > m <=> u > k)
  BY <1>1, <1>5
<1>7. Reads(h, H, off, Len(H))
  BY WindowReads
<1>8. Volume(h, u - off..v - off) = Volume(H, u..v)
  BY <1>1, <1>7, SumsMoved
<1>9. Volume(h, k - off..(u - 1) - off) = Volume(H, k..u - 1)
  <2>1. PICK w \in Int : w = u - 1 /\ w <= Len(H)
    BY <1>1
  <2>2. Volume(h, k - off..w - off) = Volume(H, k..w)
    BY <1>1, <1>5, <1>7, <2>1, SumsMoved
  <2>3. QED
    BY <2>1, <2>2
<1>10. m > off - d
  BY <1>1, <1>5
<1>11. Expands(h, off - d, u - d, v - d, m) <=>
         /\ u > k
         /\ 100 * Volume(H, u..v) * (u - k) >= Cfg.volumeExpansionRatio * Volume(H, k..u - 1) * (v - u + 1)
  BY <1>6, <1>8, <1>9 DEF Expands
<1>12. Expands(H, 0, u, v, k) <=>
         /\ u > k
         /\ 100 * Volume(H, u..v) * (u - k) >= Cfg.volumeExpansionRatio * Volume(H, k..u - 1) * (v - u + 1)
  BY <1>6 DEF Expands
<1>13. QED
  BY <1>2, <1>10, <1>11, <1>12

Imp == [lo : Int, hi : Int, low : Int, high : Int, vol : Int]
Ranged(imp) == imp = NoImpulse \/ (imp \in Imp /\ imp.lo < imp.hi)

LEMMA FirstMoved ==
  ASSUME NEW n \in Nat, NEW off \in Nat, Wide(n, off), NEW d \in {0, off}
  PROVE  /\ First(n - d, off - d) = KeptFrom(n) - d /\ First(n, 0) = KeptFrom(n) /\ off < KeptFrom(n)
         /\ off = 0 \/ off < KeptFrom(n) - Back
         /\ off = 0 \/ KeptFrom(n) = n - Cfg.lookbackBars + 1
<1>1. PICK L, K, B : L = Cfg.leftBars /\ K = Cfg.lookbackBars /\ B = Back
  OBVIOUS
<1>2. L \in Nat /\ K \in Nat /\ B \in Nat /\ B >= L /\ d \in Int
  BY <1>1, Numbers
<1>3. PICK k : k = KeptFrom(n)
  OBVIOUS
<1>4. k \in Nat /\ k > L /\ k >= n - K + 1 /\ k \in {L + 1, n - K + 1}
  BY <1>1, <1>3, Numbers
<1>5. off = 0 \/ off + K + B <= n
  BY <1>1 DEF Wide
<1>6. off < k /\ (off = 0 \/ (off < k - B /\ k = n - K + 1))
  BY <1>2, <1>4, <1>5
<1>7. PICK m : m = Max({L + 1, (n - d) - K + 1, (off - d) + L + 1})
  OBVIOUS
<1>8. m \in {L + 1, (n - d) - K + 1, (off - d) + L + 1} /\ m >= L + 1 /\ m >= (n - d) - K + 1 /\ m >= (off - d) + L + 1
  <2>1. L + 1 \in Int /\ (n - d) - K + 1 \in Int /\ (off - d) + L + 1 \in Int
    BY <1>2
  <2>2. QED
    BY <1>7, <2>1, BiggerOf
<1>9. m = k - d
  <2>1. CASE off = 0
    BY <1>2, <1>4, <1>8, <2>1
  <2>2. CASE off # 0
    BY <1>2, <1>4, <1>5, <1>8, <2>2
  <2>3. QED
    BY <2>1, <2>2
<1>10. PICK z : z = Max({L + 1, n - K + 1, 0 + L + 1})
  OBVIOUS
<1>11. z = k
  <2>1. L + 1 \in Int /\ n - K + 1 \in Int /\ 0 + L + 1 \in Int
    BY <1>2
  <2>2. z \in {L + 1, n - K + 1, 0 + L + 1} /\ z >= L + 1 /\ z >= n - K + 1
    BY <1>10, <2>1, BiggerOf
  <2>3. QED
    BY <1>2, <1>4, <2>2
<1>12. QED
  BY <1>1, <1>3, <1>6, <1>7, <1>9, <1>10, <1>11 DEF First

LEMMA UnbrokenMoved ==
  ASSUME NEW h, NEW H, NEW off, Window(h, H, off), NEW d \in {0, off}, NEW u \in Int, NEW v \in Int,
         off < u, u < v, v <= Len(H)
  PROVE  Unbroken(h, off - d, u - d, v - d) <=> Unbroken(H, 0, u, v)
<1>1. /\ Len(h) \in Nat /\ Len(H) \in Nat /\ off \in Nat /\ d \in Int /\ Len(H) = off + Len(h)
      /\ \A j \in off + 1..Len(H) : h[j - off] = H[j]
  BY WindowIs
<1>2. /\ u - d - (off - d) = u - off /\ v - d - (off - d) = v - off /\ v - d + 1 - (off - d) = v + 1 - off
      /\ u - 0 = u /\ v - 0 = v /\ v + 1 - 0 = v + 1
  BY <1>1
<1>3. PICK low, high : low = H[u].low /\ high = H[v].high
  OBVIOUS
<1>4. h[u - off].low = low /\ h[v - off].high = high
  <2>1. u \in off + 1..Len(H) /\ v \in off + 1..Len(H)
    BY <1>1
  <2>2. h[u - off] = H[u] /\ h[v - off] = H[v]
    BY <1>1, <2>1
  <2>3. QED
    BY <2>2, <1>3
<1>5. (\A j \in v + 1 - off..Len(h) : low <= h[j].close /\ h[j].close <= high)
        <=> \A j \in v + 1..Len(H) : low <= H[j].close /\ H[j].close <= high
  <2>1. ASSUME NEW j \in v + 1 - off..Len(h) PROVE j + off \in v + 1..Len(H) /\ h[j] = H[j + off]
    <3>1. j + off \in off + 1..Len(H) /\ (j + off) - off = j /\ j + off \in v + 1..Len(H)
      BY <1>1
    <3>2. QED
      BY <1>1, <3>1
  <2>2. ASSUME NEW j \in v + 1..Len(H) PROVE j - off \in v + 1 - off..Len(h) /\ h[j - off] = H[j]
    <3>1. j \in off + 1..Len(H) /\ j - off \in v + 1 - off..Len(h)
      BY <1>1
    <3>2. QED
      BY <1>1, <3>1
  <2>3. QED
    BY <2>1, <2>2
<1>6. (\A j \in u - off..v - off : h[j].high <= high) <=> \A j \in u..v : H[j].high <= high
  <2>1. ASSUME NEW j \in u - off..v - off PROVE j + off \in u..v /\ h[j] = H[j + off]
    <3>1. j + off \in off + 1..Len(H) /\ (j + off) - off = j /\ j + off \in u..v
      BY <1>1
    <3>2. QED
      BY <1>1, <3>1
  <2>2. ASSUME NEW j \in u..v PROVE j - off \in u - off..v - off /\ h[j - off] = H[j]
    BY <1>1
  <2>3. QED
    BY <2>1, <2>2
<1>7. Unbroken(h, off - d, u - d, v - d) <=>
        /\ \A j \in v + 1 - off..Len(h) : low <= h[j].close /\ h[j].close <= high
        /\ \A j \in u - off..v - off : h[j].high <= high
  BY <1>2, <1>4 DEF Unbroken
<1>8. Unbroken(H, 0, u, v) <=>
        /\ \A j \in v + 1..Len(H) : low <= H[j].close /\ H[j].close <= high
        /\ \A j \in u..v : H[j].high <= high
  BY <1>2, <1>3 DEF Unbroken
<1>9. QED
  BY <1>5, <1>6, <1>7, <1>8

LEMMA MovedIs ==
  ASSUME NEW imp, Ranged(imp), NEW d \in Int
  PROVE  /\ Moved(imp, d) = NoImpulse <=> imp = NoImpulse
         /\ imp # NoImpulse => /\ Moved(imp, d).lo = imp.lo - d /\ Moved(imp, d).hi = imp.hi - d
                               /\ Moved(imp, d).low = imp.low /\ Moved(imp, d).high = imp.high
                               /\ Moved(imp, d).vol = imp.vol /\ Moved(imp, d) \in Imp
         /\ Ranged(Moved(imp, d))
<1>1. CASE imp = NoImpulse
  BY <1>1 DEF Moved, Ranged
<1>2. CASE imp # NoImpulse
  <2>1. imp \in Imp /\ imp.lo \in Int /\ imp.hi \in Int /\ imp.lo < imp.hi
    BY <1>2 DEF Ranged, Imp
  <2>2. PICK e : e = [imp EXCEPT !.lo = @ - d]
    OBVIOUS
  <2>3. e \in Imp /\ e.lo = imp.lo - d /\ e.hi = imp.hi /\ e.low = imp.low /\ e.high = imp.high /\ e.vol = imp.vol
    BY <2>1, <2>2 DEF Imp
  <2>4. PICK f : f = [e EXCEPT !.hi = @ - d]
    OBVIOUS
  <2>5. /\ f \in Imp /\ f.lo = imp.lo - d /\ f.hi = imp.hi - d /\ f.low = imp.low /\ f.high = imp.high
        /\ f.vol = imp.vol
    BY <2>1, <2>3, <2>4 DEF Imp
  <2>6. [imp EXCEPT !.lo = @ - d, !.hi = @ - d] = f
    BY <2>1, <2>2, <2>4 DEF Imp
  <2>7. Moved(imp, d) = f
    BY <1>2, <2>6 DEF Moved
  <2>8. f # NoImpulse /\ f.lo < f.hi
    BY <2>1, <2>5 DEF NoImpulse
  <2>9. QED
    BY <1>2, <2>5, <2>7, <2>8 DEF Ranged
<1>3. QED
  BY <1>1, <1>2

LEMMA StandsMoved ==
  ASSUME NEW h, NEW H, NEW off, Window(h, H, off), Len(h) # 0, Wide(Len(H), off), NEW d \in {0, off},
         NEW imp, Ranged(imp)
  PROVE  Stands(Moved(imp, d), h, off - d) <=> Stands(imp, H, 0)
<1>1. /\ Len(h) \in Nat /\ Len(H) \in Nat /\ off \in Nat /\ d \in Int /\ Len(H) = off + Len(h)
      /\ \A j \in off + 1..Len(H) : h[j - off] = H[j]
  BY WindowIs
<1>2. PICK n : n = Len(H)
  OBVIOUS
<1>3. h[Len(h)] = H[Len(H)]
  <2>1. n \in off + 1..n /\ n - off = Len(h)
    BY <1>1, <1>2
  <2>2. QED
    BY <1>1, <1>2, <2>1
<1>4. (off - d) + Len(h) = n - d /\ 0 + Len(H) = n
  BY <1>1, <1>2
<1>5. First(n - d, off - d) = KeptFrom(n) - d /\ First(n, 0) = KeptFrom(n) /\ KeptFrom(n) \in Nat
  <2>1. n \in Nat /\ n \in Int
    BY <1>1, <1>2
  <2>2. QED
    BY <1>1, <1>2, <2>1, FirstMoved, Numbers
<1>6. CASE imp = NoImpulse
  <2>1. Moved(imp, d) = NoImpulse
    BY <1>1, <1>6, MovedIs
  <2>2. QED
    BY <1>6, <2>1 DEF Stands
<1>7. CASE imp # NoImpulse
  <2>1. /\ Moved(imp, d) # NoImpulse /\ Moved(imp, d).lo = imp.lo - d /\ Moved(imp, d).hi = imp.hi - d
        /\ Moved(imp, d).low = imp.low /\ Moved(imp, d).high = imp.high
    <3>1. Ranged(imp) /\ d \in Int
      BY <1>1
    <3>2. QED
      BY ONLY <1>7, <3>1, MovedIs
  <2>2. imp.lo \in Int /\ imp.hi \in Int
    BY <1>7 DEF Ranged, Imp
  <2>3. imp.lo - d >= KeptFrom(n) - d <=> imp.lo >= KeptFrom(n)
    BY <1>1, <1>5, <2>2
  <2>4. imp.hi - d + Cfg.rightBars <= n - d <=> imp.hi + Cfg.rightBars <= n
    <3>1. Cfg.rightBars \in Nat
      BY Numbers
    <3>2. QED
      BY <1>1, <1>2, <2>2, <3>1
  <2>5. QED
    BY <1>2, <1>3, <1>4, <1>5, <1>7, <2>1, <2>3, <2>4 DEF Stands
<1>8. QED
  BY <1>6, <1>7

\* Between a and b, the set lh has the members of lH in the numbering that starts after d candles.
Matches(lh, lH, d, a, b) == \A i \in a..b : i \in lH <=> i - d \in lh
PairSets(a, b, d, lh, lH, gh, gH, X, Y, P, Q) ==
  /\ a \in Int /\ b \in Int /\ d \in Int /\ Matches(lh, lH, d, a, b) /\ Matches(gh, gH, d, a, b)
  /\ \A u, v \in a..b : u < v => (<<u, v>> \in X <=> <<u - d, v - d>> \in Y)
  /\ P = {p \in Ordered(lH \cap (a..b), gH \cap (a..b)) : p \in X}
  /\ Q = {p \in Ordered(lh \cap (a - d..b - d), gh \cap (a - d..b - d)) : p \in Y}
Among(A, B, X) == {p \in Ordered(A, B) : p \in X}
InOrder(u, v, X, z) == z = <<u, v>> /\ u < v /\ v - u <= Cfg.maxDurationBars /\ <<u, v>> \in X
LEMMA AmongThem ==
  ASSUME NEW A, NEW B, NEW X, NEW z
  PROVE  z \in Among(A, B, X) <=> \E u \in A, v \in B : InOrder(u, v, X, z)
<1>1. ASSUME z \in Among(A, B, X)
      PROVE  \E u \in A, v \in B : InOrder(u, v, X, z)
  <2>1. z \in A \X B /\ z[1] < z[2] /\ z[2] - z[1] <= Cfg.maxDurationBars /\ z \in X
    BY <1>1 DEF Ordered, Among
  <2>2. PICK u \in A, v \in B : z = <<u, v>>
    BY <2>1
  <2>3. z[1] = u /\ z[2] = v
    BY <2>2
  <2>4. QED
    BY <2>1, <2>2, <2>3 DEF InOrder
<1>2. ASSUME NEW u \in A, NEW v \in B, InOrder(u, v, X, z) PROVE z \in Among(A, B, X)
  <2>1. z \in A \X B /\ z[1] = u /\ z[2] = v
    BY <1>2 DEF InOrder
  <2>2. QED
    BY <1>2, <2>1 DEF Ordered, InOrder, Among
<1>3. QED
  BY <1>1, <1>2
LEMMA PairsMoved ==
  ASSUME NEW a, NEW b, NEW d, NEW lh, NEW lH, NEW gh, NEW gH, NEW X, NEW Y, NEW P, NEW Q,
         PairSets(a, b, d, lh, lH, gh, gH, X, Y, P, Q)
  PROVE  /\ Renumbered(Q, P, d)
         /\ \A p \in P : p \in X /\ p \in Int \X Int /\ a <= p[1] /\ p[1] < p[2] /\ p[2] <= b
<1>1. PICK D : D = Cfg.maxDurationBars
  OBVIOUS
<1>2. D \in Int /\ a \in Int /\ b \in Int /\ d \in Int
  BY <1>1, ImpulseAssumption DEF PairSets
<1>0. /\ Matches(lh, lH, d, a, b) /\ Matches(gh, gH, d, a, b)
      /\ \A u, v \in a..b : u < v => (<<u, v>> \in X <=> <<u - d, v - d>> \in Y)
  BY DEF PairSets
<1>3. \A z : z \in P <=> \E u \in a..b, v \in a..b : z = <<u, v>> /\ u \in lH /\ v \in gH /\ u < v /\ v - u <= D /\ <<u, v>> \in X
  <2>1. PICK A, B : A = lH \cap (a..b) /\ B = gH \cap (a..b)
    OBVIOUS
  <2>2. P = Among(A, B, X)
    BY <2>1 DEF PairSets, Among
  <2>3. \A z : z \in P <=> \E u \in A, v \in B : InOrder(u, v, X, z)
    BY <2>2, AmongThem
  <2>4. QED
    BY <1>1, <2>1, <2>3 DEF InOrder
<1>4. \A z : z \in Q <=> \E x \in a - d..b - d, y \in a - d..b - d :
                          z = <<x, y>> /\ x \in lh /\ y \in gh /\ x < y /\ y - x <= D /\ <<x, y>> \in Y
  <2>1. PICK A, B : A = lh \cap (a - d..b - d) /\ B = gh \cap (a - d..b - d)
    OBVIOUS
  <2>2. Q = Among(A, B, Y)
    BY <2>1 DEF PairSets, Among
  <2>3. \A z : z \in Q <=> \E x \in A, y \in B : InOrder(x, y, Y, z)
    BY <2>2, AmongThem
  <2>4. QED
    BY <1>1, <2>1, <2>3 DEF InOrder
<1>5. ASSUME NEW q \in Q PROVE q \in Int \X Int /\ <<q[1] + d, q[2] + d>> \in P
  <2>1. PICK x \in a - d..b - d, y \in a - d..b - d :
          q = <<x, y>> /\ x \in lh /\ y \in gh /\ x < y /\ y - x <= D /\ <<x, y>> \in Y
    BY <1>4
  <2>2. PICK u, v : u = x + d /\ v = y + d
    OBVIOUS
  <2>3. u \in a..b /\ v \in a..b /\ u < v /\ v - u <= D /\ u - d = x /\ v - d = y
    BY <1>2, <2>1, <2>2
  <2>4. u \in lH /\ v \in gH
    BY <1>0, <2>1, <2>3 DEF Matches
  <2>5. <<u, v>> \in X
    BY <1>0, <2>1, <2>3
  <2>6. <<u, v>> \in P
    BY <1>3, <2>3, <2>4, <2>5
  <2>7. q[1] = x /\ q[2] = y /\ x \in Int /\ y \in Int
    BY <2>1
  <2>8. QED
    BY <2>1, <2>2, <2>6, <2>7
<1>6. ASSUME NEW p \in P PROVE <<p[1] - d, p[2] - d>> \in Q
  <2>1. PICK u \in a..b, v \in a..b : p = <<u, v>> /\ u \in lH /\ v \in gH /\ u < v /\ v - u <= D /\ <<u, v>> \in X
    BY <1>3
  <2>2. PICK x, y : x = u - d /\ y = v - d
    OBVIOUS
  <2>3. x \in a - d..b - d /\ y \in a - d..b - d /\ x < y /\ y - x <= D
    BY <1>2, <2>1, <2>2
  <2>4. x \in lh /\ y \in gh
    BY <1>0, <2>1, <2>2 DEF Matches
  <2>5. <<x, y>> \in Y
    BY <1>0, <2>1, <2>2
  <2>6. <<x, y>> \in Q
    BY <1>4, <2>3, <2>4, <2>5
  <2>7. p[1] = u /\ p[2] = v
    BY <2>1
  <2>8. QED
    BY <2>2, <2>6, <2>7
<1>7. ASSUME NEW p \in P PROVE p \in X /\ p \in Int \X Int /\ a <= p[1] /\ p[1] < p[2] /\ p[2] <= b
  <2>1. PICK u \in a..b, v \in a..b : p = <<u, v>> /\ u < v /\ <<u, v>> \in X
    BY <1>3
  <2>2. p[1] = u /\ p[2] = v
    BY <2>1
  <2>3. QED
    BY <1>2, <2>1, <2>2
<1>8. QED
  BY <1>5, <1>6, <1>7 DEF Renumbered

\* What the two rules ask of a pair.
Enough(h, off, p) ==
  Gains(h[p[1] - off].low, h[p[2] - off].high) /\ Expands(h, off, p[1], p[2], Max({1, p[1] - Back}))
Holds(h, off, p) == Unbroken(h, off, p[1], p[2]) /\ Enough(h, off, p) /\ Max({1, p[1] - Back}) > off

LEMMA PairMoved ==
  ASSUME NEW h, NEW H, NEW off, Window(h, H, off), Wide(Len(H), off), NEW d \in {0, off},
         NEW u \in Int, NEW v \in Int, KeptFrom(Len(H)) <= u, u < v, v <= Len(H)
  PROVE  /\ Enough(H, 0, <<u, v>>) <=> Enough(h, off - d, <<u - d, v - d>>)
         /\ Holds(H, 0, <<u, v>>) <=> Holds(h, off - d, <<u - d, v - d>>)
<1>1. /\ Len(h) \in Nat /\ Len(H) \in Nat /\ off \in Nat /\ d \in Int
      /\ \A j \in off + 1..Len(H) : h[j - off] = H[j]
  BY WindowIs
<1>2. PICK k, B : k = KeptFrom(Len(H)) /\ B = Back
  OBVIOUS
<1>3. k \in Nat /\ off < k /\ (off = 0 \/ off < k - B) /\ B \in Nat
  <2>1. Len(H) \in Int
    BY <1>1
  <2>2. QED
    BY <1>1, <1>2, <2>1, FirstMoved, Numbers
<1>4. off < u /\ (off = 0 \/ off < u - B)
  BY <1>1, <1>2, <1>3
<1>5. /\ Expands(h, off - d, u - d, v - d, Max({1, u - d - B})) <=> Expands(H, 0, u, v, Max({1, u - B}))
      /\ Max({1, u - d - B}) > off - d
  BY <1>2, <1>4, ExpandsMoved
<1>6. Max({1, u - B}) > 0
  <2>1. 1 \in Int /\ u - B \in Int
    BY <1>3
  <2>2. PICK m : m = Max({1, u - B})
    OBVIOUS
  <2>3. m \in {1, u - B} /\ m >= 1
    BY <2>1, <2>2, BiggerOf
  <2>4. QED
    BY <2>1, <2>2, <2>3
<1>7. Unbroken(h, off - d, u - d, v - d) <=> Unbroken(H, 0, u, v)
  BY <1>4, UnbrokenMoved
<1>8. /\ u - d - (off - d) = u - off /\ v - d - (off - d) = v - off /\ u - 0 = u /\ v - 0 = v
      /\ h[u - off] = H[u] /\ h[v - off] = H[v]
  BY <1>1, <1>4
<1>9. Enough(H, 0, <<u, v>>) <=> Enough(h, off - d, <<u - d, v - d>>)
  BY <1>2, <1>5, <1>8 DEF Enough
<1>10. QED
  BY <1>2, <1>5, <1>6, <1>7, <1>9 DEF Holds

\* A window, its numbering and its pivots against the whole history and its own.
Mirrors(h, H, off, d, lh, lH, gh, gH) ==
  /\ Window(h, H, off) /\ Wide(Len(H), off) /\ d \in {0, off}
  /\ Matches(lh, lH, d, KeptFrom(Len(H)), Len(H) - Cfg.rightBars)
  /\ Matches(gh, gH, d, KeptFrom(Len(H)), Len(H) - Cfg.rightBars)
LEMMA SelectedMoved ==
  ASSUME NEW h, NEW H, NEW off, NEW d, NEW lh, NEW lH, NEW gh, NEW gH, Mirrors(h, H, off, d, lh, lH, gh, gH)
  PROVE  Selected(h, off - d, lh, gh) = Moved(Selected(H, 0, lH, gH), d)
<1>0. Window(h, H, off) /\ Wide(Len(H), off) /\ d \in {0, off}
  BY DEF Mirrors
<1>1. /\ Len(h) \in Nat /\ Len(H) \in Nat /\ off \in Nat /\ d \in Int /\ Len(H) = off + Len(h)
  BY <1>0, WindowIs
<1>2. PICK n, k, e, R, L : R = Cfg.rightBars /\ L = Cfg.leftBars /\ n = Len(H) /\ k = KeptFrom(n) /\ e = n - R
  OBVIOUS
<1>3. n \in Nat /\ k \in Nat /\ R \in Nat /\ L \in Nat /\ e \in Int /\ e <= n
  <2>1. n \in Nat /\ R \in Nat /\ L \in Nat
    BY <1>1, <1>2, Numbers
  <2>2. k \in Nat
    BY <1>2, <2>1, Numbers
  <2>3. QED
    BY <1>2, <2>1, <2>2
<1>4. /\ First(n - d, off - d) = k - d /\ First(n, 0) = k /\ off < k
      /\ off = 0 \/ k = n - Cfg.lookbackBars + 1
  BY <1>0, <1>1, <1>2, <1>3, FirstMoved
<1>5. (off - d) + Len(h) = n - d /\ 0 + Len(H) = n /\ (n - d) - R = e - d
  BY <1>1, <1>2, <1>3
<1>6. PICK X, Y : X = {p \in Int \X Int : Holds(H, 0, p)} /\ Y = {p \in Int \X Int : Holds(h, off - d, p)}
  OBVIOUS
<1>7. PICK P : P = {p \in Ordered(lH \cap (k..e), gH \cap (k..e)) : p \in X}
  OBVIOUS
<1>8. PICK Q : Q = {p \in Ordered(lh \cap (k - d..e - d), gh \cap (k - d..e - d)) : p \in Y}
  OBVIOUS
<1>9. \A u, v \in k..e : u < v => (<<u, v>> \in X <=> <<u - d, v - d>> \in Y)
  <2>1. SUFFICES ASSUME NEW u \in k..e, NEW v \in k..e, u < v PROVE <<u, v>> \in X <=> <<u - d, v - d>> \in Y
    OBVIOUS
  <2>2. u \in Int /\ v \in Int /\ KeptFrom(Len(H)) <= u /\ v <= Len(H)
    BY <1>2, <1>3
  <2>3. Holds(H, 0, <<u, v>>) <=> Holds(h, off - d, <<u - d, v - d>>)
    BY <1>0, <2>1, <2>2, PairMoved
  <2>4. <<u, v>> \in Int \X Int /\ <<u - d, v - d>> \in Int \X Int
    BY <1>1, <2>2
  <2>5. QED
    BY <1>6, <2>3, <2>4
<1>10. PairSets(k, e, d, lh, lH, gh, gH, X, Y, P, Q)
  <2>1. Matches(lh, lH, d, k, e) /\ Matches(gh, gH, d, k, e)
    BY <1>2 DEF Mirrors
  <2>2. QED
    BY <1>1, <1>3, <1>7, <1>8, <1>9, <2>1 DEF PairSets
<1>11. /\ Renumbered(Q, P, d)
       /\ \A p \in P : p \in X /\ p \in Int \X Int /\ k <= p[1] /\ p[1] < p[2] /\ p[2] <= e
  BY <1>10, PairsMoved
<1>12. Latest(h, off - d, Q) = Moved(Latest(H, 0, P), d)
  <2>1. \A p \in P : p \in Int \X Int /\ off < p[1] /\ p[1] < p[2] /\ p[2] <= Len(H)
    BY <1>1, <1>2, <1>3, <1>4, <1>11
  <2>2. Within(P, off, Len(H))
    BY <2>1 DEF Within
  <2>3. QED
    BY <1>0, <1>11, <2>2, LatestMoved
<1>13. Selected(H, 0, lH, gH) = IF n < L + R + 2 THEN NoImpulse ELSE Latest(H, 0, P)
  <2>1. P = {p \in Ordered(lH \cap (k..e), gH \cap (k..e)) : Holds(H, 0, p)}
    <3>1. Ordered(lH \cap (k..e), gH \cap (k..e)) \subseteq Int \X Int
      BY DEF Ordered
    <3>2. QED
      BY <1>6, <1>7, <3>1
  <2>2. QED
    BY <1>2, <1>4, <1>5, <2>1 DEF Selected, Holds, Enough
<1>14. Selected(h, off - d, lh, gh) = IF Len(h) < L + R + 2 THEN NoImpulse ELSE Latest(h, off - d, Q)
  <2>1. Q = {p \in Ordered(lh \cap (k - d..e - d), gh \cap (k - d..e - d)) : Holds(h, off - d, p)}
    <3>1. Ordered(lh \cap (k - d..e - d), gh \cap (k - d..e - d)) \subseteq Int \X Int
      BY DEF Ordered
    <3>2. QED
      BY <1>6, <1>8, <3>1
  <2>2. QED
    BY <1>2, <1>4, <1>5, <2>1 DEF Selected, Holds, Enough
<1>15. CASE ~(Len(h) < L + R + 2)
  <2>1. ~(n < L + R + 2)
    BY <1>1, <1>2, <1>3, <1>15
  <2>2. QED
    BY <1>12, <1>13, <1>14, <1>15, <2>1
<1>16. CASE Len(h) < L + R + 2
  <2>1. Moved(NoImpulse, d) = NoImpulse
    BY DEF Moved
  <2>2. CASE n < L + R + 2
    BY <1>13, <1>14, <1>16, <2>1, <2>2
  <2>3. CASE ~(n < L + R + 2)
    <3>1. off # 0
      BY <1>1, <1>2, <1>16, <2>3
    <3>2. off + Cfg.lookbackBars + Back <= n /\ k = n - Cfg.lookbackBars + 1
      BY <1>0, <1>2, <1>4, <3>1 DEF Wide
    <3>3. ASSUME P # {} PROVE FALSE
      <4>1. PICK p \in P : k <= p[1] /\ p[1] < p[2] /\ p[2] <= e /\ p \in Int \X Int
        BY <1>11, <3>3
      <4>2. PICK u \in Int, v \in Int : p[1] = u /\ p[2] = v
        BY <4>1
      <4>3. PICK K, B : K = Cfg.lookbackBars /\ B = Back /\ K \in Nat /\ B \in Nat /\ B >= L
        BY <1>2, Numbers
      <4>4. k <= u /\ u < v /\ v <= e /\ off + K + B <= n /\ k = n - K + 1
        BY <3>2, <4>1, <4>2, <4>3
      <4>5. e = n - R /\ n = off + Len(h)
        BY <1>1, <1>2
      <4>6. PICK m : m = Len(h) /\ m \in Nat
        BY <1>1
      <4>7. /\ m \in Nat /\ off \in Nat /\ L \in Nat /\ R \in Nat /\ K \in Nat /\ B \in Nat /\ u \in Int /\ v \in Int
            /\ n \in Nat /\ k <= u /\ u < v /\ v <= e /\ off + K + B <= n /\ k = n - K + 1 /\ B >= L
            /\ e = n - R /\ n = off + m /\ m < L + R + 2
        BY <1>1, <1>3, <1>16, <4>2, <4>3, <4>4, <4>5, <4>6
      <4>8. QED
        BY ONLY <4>7
    <3>4. Latest(H, 0, P) = NoImpulse
      BY <3>3 DEF Latest
    <3>5. QED
      BY <1>13, <1>14, <1>16, <2>1, <2>3, <3>4
  <2>4. QED
    BY <2>2, <2>3
<1>17. QED
  BY <1>15, <1>16

LEMMA AdvanceMoved ==
  ASSUME NEW h, NEW H, NEW off, NEW d, NEW lh, NEW lH, NEW gh, NEW gH, Mirrors(h, H, off, d, lh, lH, gh, gH),
         Len(h) # 0, NEW imp, Ranged(imp)
  PROVE  Advance(h, off - d, Moved(imp, d), lh, gh) = Moved(Advance(H, 0, imp, lH, gH), d)
<1>1. Stands(Moved(imp, d), h, off - d) <=> Stands(imp, H, 0)
  <2>1. Window(h, H, off) /\ Wide(Len(H), off) /\ d \in {0, off}
    BY DEF Mirrors
  <2>2. QED
    BY <2>1, StandsMoved
<1>2. Selected(h, off - d, lh, gh) = Moved(Selected(H, 0, lH, gH), d)
  BY SelectedMoved
<1>3. QED
  BY <1>1, <1>2 DEF Advance

LEMMA MovedByNone == ASSUME NEW imp, Ranged(imp) PROVE Moved(imp, 0) = imp
<1>1. CASE imp = NoImpulse
  BY <1>1 DEF Moved
<1>2. CASE imp # NoImpulse
  <2>1. imp \in Imp /\ imp.lo - 0 = imp.lo /\ imp.hi - 0 = imp.hi
    BY <1>2 DEF Ranged, Imp
  <2>2. [imp EXCEPT !.lo = @ - 0] = imp
    BY <2>1 DEF Imp
  <2>3. [imp EXCEPT !.hi = @ - 0] = imp
    BY <2>1 DEF Imp
  <2>4. [imp EXCEPT !.lo = @ - 0, !.hi = @ - 0] = imp
    BY <2>1, <2>2, <2>3 DEF Imp
  <2>5. QED
    BY <1>2, <2>4 DEF Moved
<1>3. QED
  BY <1>1, <1>2

\* A candidate of the history H, and that no close after its high has left its range.
Found(imp, H) ==
  /\ imp \in Imp /\ KeptFrom(Len(H)) <= imp.lo /\ imp.lo < imp.hi /\ imp.hi + Cfg.rightBars <= Len(H)
Pending(imp, H) == imp = NoImpulse \/ Found(imp, H)
Unleft(imp, H) == imp # NoImpulse => \A j \in imp.hi + 1..Len(H) : imp.low <= H[j].close /\ H[j].close <= imp.high

LEMMA PendingRanged == ASSUME NEW imp, NEW H, Pending(imp, H) PROVE Ranged(imp)
BY DEF Pending, Found, Ranged

LEMMA LatestFound ==
  ASSUME NEW H \in Seq(Quote), NEW P, \A p \in P : p \in Int \X Int /\ KeptFrom(Len(H)) <= p[1] /\ p[1] < p[2]
                                                    /\ p[2] + Cfg.rightBars <= Len(H)
  PROVE  /\ Pending(Latest(H, 0, P), H)
         /\ Latest(H, 0, P) # NoImpulse =>
              \E p \in P : LET r == Latest(H, 0, P) IN
                r.lo = p[1] /\ r.hi = p[2] /\ r.low = H[p[1]].low /\ r.high = H[p[2]].high
<1>1. CASE P = {}
  BY <1>1 DEF Latest, Pending
<1>2. CASE P # {}
  <2>1. PICK n, R, k : n = Len(H) /\ R = Cfg.rightBars /\ k = KeptFrom(Len(H))
    OBVIOUS
  <2>2. n \in Nat /\ R \in Nat /\ k \in Nat /\ k > 0
    <3>1. n \in Nat /\ n \in Int
      BY <2>1
    <3>2. Cfg.leftBars \in Nat /\ R \in Nat
      BY <2>1, Numbers
    <3>3. k \in Nat /\ k > Cfg.leftBars
      BY <2>1, <3>1, Numbers
    <3>4. QED
      BY <3>1, <3>2, <3>3
  <2>3. \A p \in P : p \in Int \X Int /\ k <= p[1] /\ p[1] < p[2] /\ p[2] + R <= n
    BY <2>1
  <2>4. P \subseteq (1..n) \X (1..n)
    BY <2>2, <2>3
  <2>5. \E p \in P : \A q \in P : Later(p, q)
    BY <1>2, <2>2, <2>4, LatestPicks
  <2>6. PICK p : p = CHOOSE x \in P : \A y \in P : x[2] > y[2] \/ (x[2] = y[2] /\ x[1] >= y[1])
    OBVIOUS
  <2>7. p \in P
    BY <2>5, <2>6 DEF Later
  <2>8. Latest(H, 0, P) = Candidate(H, 0, p)
    BY <1>2, <2>6 DEF Latest
  <2>9. PICK u \in Int, v \in Int : p[1] = u /\ p[2] = v /\ k <= u /\ u < v /\ v + R <= n
    BY <2>3, <2>7
  <2>10. u - 0 = u /\ v - 0 = v /\ u \in 1..Len(H) /\ v \in 1..Len(H)
    BY <2>1, <2>2, <2>9
  <2>11. Candidate(H, 0, p) = [lo |-> u, hi |-> v, low |-> H[u].low, high |-> H[v].high, vol |-> Volume(H, u..v)]
    BY <2>9, <2>10 DEF Candidate
  <2>12. H[u].low \in Int /\ H[v].high \in Int
    BY <2>10, ElementOfSeq, QuoteIs
  <2>13. Volume(H, u..v) \in Int
    <3>1. 1 <= u /\ v <= Len(H)
      BY <2>10
    <3>2. QED
      BY <3>1, SumsTyped
  <2>14. Found(Candidate(H, 0, p), H)
    BY <2>1, <2>9, <2>11, <2>12, <2>13 DEF Found, Imp
  <2>15. QED
    BY <2>7, <2>8, <2>9, <2>11, <2>14 DEF Pending
<1>3. QED
  BY <1>1, <1>2

LEMMA SelectedFound ==
  ASSUME NEW H \in Seq(Quote), NEW lows, NEW highs
  PROVE  Pending(Selected(H, 0, lows, highs), H) /\ Unleft(Selected(H, 0, lows, highs), H)
<1>1. PICK n, k, R : n = Len(H) /\ k = KeptFrom(n) /\ R = Cfg.rightBars
  OBVIOUS
<1>2. n \in Nat /\ R \in Nat /\ k \in Nat /\ 0 + Len(H) = n
  <2>1. n \in Nat /\ n \in Int /\ 0 + Len(H) = n
    BY <1>1
  <2>2. QED
    BY <1>1, <2>1, Numbers
<1>3. First(n, 0) = k
  <2>1. Wide(n, 0) /\ 0 \in Nat /\ 0 \in {0, 0}
    BY DEF Wide
  <2>2. QED
    BY <1>1, <1>2, <2>1, FirstMoved
<1>4. PICK X : X = {p \in (lows \cap (k..n - R)) \X (highs \cap (k..n - R)) : Holds(H, 0, p)}
  OBVIOUS
<1>5. PICK P : P = Among(lows \cap (k..n - R), highs \cap (k..n - R), X)
  OBVIOUS
<1>6. Selected(H, 0, lows, highs) = NoImpulse \/ Selected(H, 0, lows, highs) = Latest(H, 0, P)
  <2>1. P = {p \in Ordered(lows \cap (k..n - R), highs \cap (k..n - R)) : Holds(H, 0, p)}
    BY <1>4, <1>5 DEF Among, Ordered
  <2>2. QED
    BY <1>1, <1>2, <1>3, <2>1 DEF Selected, Holds, Enough
<1>7. ASSUME NEW p \in P
      PROVE  p \in Int \X Int /\ KeptFrom(Len(H)) <= p[1] /\ p[1] < p[2] /\ p[2] + R <= Len(H) /\ Unbroken(H, 0, p[1], p[2])
  <2>0. PICK A, B : A = lows \cap (k..n - R) /\ B = highs \cap (k..n - R)
    OBVIOUS
  <2>4. p \in Among(A, B, X)
    BY <1>5, <2>0
  <2>5. \E u \in A, v \in B : InOrder(u, v, X, p)
    BY ONLY <2>4, AmongThem
  <2>1. PICK u \in k..n - R, v \in k..n - R : p = <<u, v>> /\ u < v /\ <<u, v>> \in X
    BY <2>0, <2>5 DEF InOrder
  <2>2. p[1] = u /\ p[2] = v /\ Holds(H, 0, p)
    BY <1>4, <2>1
  <2>3. QED
    BY <1>1, <1>2, <2>1, <2>2 DEF Holds
<1>8. PICK r : r = Latest(H, 0, P)
  OBVIOUS
<1>9. /\ Pending(r, H)
      /\ r # NoImpulse => \E p \in P : r.lo = p[1] /\ r.hi = p[2] /\ r.low = H[p[1]].low /\ r.high = H[p[2]].high
  <2>1. \A p \in P : p \in Int \X Int /\ KeptFrom(Len(H)) <= p[1] /\ p[1] < p[2] /\ p[2] + Cfg.rightBars <= Len(H)
    BY <1>1, <1>7
  <2>2. QED
    BY <1>8, <2>1, LatestFound
<1>10. Unleft(r, H)
  <2>1. CASE r = NoImpulse
    BY <2>1 DEF Unleft
  <2>2. CASE r # NoImpulse
    <3>1. PICK p \in P : r.lo = p[1] /\ r.hi = p[2] /\ r.low = H[p[1]].low /\ r.high = H[p[2]].high
      BY <1>9, <2>2
    <3>2. PICK u \in Int, v \in Int : p[1] = u /\ p[2] = v /\ Unbroken(H, 0, u, v)
      BY <1>7
    <3>3. u - 0 = u /\ v - 0 = v /\ v + 1 - 0 = v + 1
      OBVIOUS
    <3>4. \A j \in v + 1..Len(H) : H[u].low <= H[j].close /\ H[j].close <= H[v].high
      BY <3>2, <3>3 DEF Unbroken
    <3>5. QED
      BY <3>1, <3>2, <3>4 DEF Unleft
  <2>3. QED
    BY <2>1, <2>2
<1>11. Pending(NoImpulse, H) /\ Unleft(NoImpulse, H)
  BY DEF Pending, Unleft
<1>12. QED
  BY <1>6, <1>8, <1>9, <1>10, <1>11

\* One more candle: the candidate that stands, or the new one.
LEMMA PendingGoesOn ==
  ASSUME NEW H \in Seq(Quote), NEW q \in Quote, NEW imp, Pending(imp, H), Unleft(imp, H),
         NEW r, r = AdvanceAlone(Append(H, q), imp)
  PROVE  Pending(r, Append(H, q)) /\ Unleft(r, Append(H, q))
<1>1. PICK G : G = Append(H, q)
  OBVIOUS
<1>2. /\ G \in Seq(Quote) /\ Len(G) = Len(H) + 1 /\ G[Len(G)] = q /\ Len(H) \in Nat
      /\ \A j \in 1..Len(H) : G[j] = H[j]
  BY <1>1, AppendProperties
<1>3. PICK lows, highs : r = Advance(G, 0, imp, lows, highs)
  BY <1>1 DEF AdvanceAlone
<1>4. CASE ~Stands(imp, G, 0)
  BY <1>1, <1>2, <1>3, <1>4, SelectedFound DEF Advance
<1>5. CASE Stands(imp, G, 0)
  <2>1. r = imp /\ imp # NoImpulse
    BY <1>3, <1>5 DEF Advance, Stands
  <2>2. imp \in Imp /\ imp.lo < imp.hi /\ imp.hi + Cfg.rightBars <= Len(H) /\ imp.hi \in Int
    BY <2>1 DEF Pending, Found, Imp
  <2>3. 0 + Len(G) = Len(G) /\ Len(G) \in Nat
    BY <1>2
  <2>4. First(Len(G), 0) = KeptFrom(Len(G))
    <3>1. Wide(Len(G), 0) /\ 0 \in Nat /\ 0 \in {0, 0}
      BY DEF Wide
    <3>2. QED
      BY <2>3, <3>1, FirstMoved
  <2>5. /\ imp.lo >= KeptFrom(Len(G)) /\ imp.hi + Cfg.rightBars <= Len(G)
        /\ q.close <= imp.high /\ q.close >= imp.low
    BY <1>2, <1>5, <2>3, <2>4 DEF Stands
  <2>6. KeptFrom(Len(G)) <= imp.lo
    <3>1. KeptFrom(Len(G)) \in Int /\ imp.lo \in Int
      BY <2>2, <2>3, Numbers DEF Imp
    <3>2. QED
      BY <2>5, <3>1
  <2>7. Found(imp, G)
    BY <2>2, <2>5, <2>6 DEF Found
  <2>8. ASSUME NEW j \in imp.hi + 1..Len(G) PROVE imp.low <= G[j].close /\ G[j].close <= imp.high
    <3>1. CASE j = Len(G)
      <4>1. q.close \in Int /\ imp.low \in Int /\ imp.high \in Int
        BY <2>2, QuoteIs DEF Imp
      <4>2. QED
        BY <1>2, <2>5, <3>1, <4>1
    <3>2. CASE j # Len(G)
      <4>1. KeptFrom(Len(H)) <= imp.lo /\ KeptFrom(Len(H)) \in Nat /\ imp.lo \in Int
        <5>1. Len(H) \in Int
          BY <1>2
        <5>2. QED
          BY <2>1, <2>2, <5>1, Numbers DEF Pending, Found, Imp
      <4>2. j \in imp.hi + 1..Len(H) /\ j \in 1..Len(H)
        BY <1>2, <2>2, <3>2, <4>1
      <4>3. QED
        BY <1>2, <2>1, <4>2 DEF Unleft
    <3>3. QED
      BY <3>1, <3>2
  <2>9. QED
    BY <1>1, <2>1, <2>7, <2>8 DEF Pending, Unleft
<1>6. QED
  BY <1>4, <1>5

LEMMA PivotMoved ==
  ASSUME NEW h, NEW H, NEW off, NEW end, Reads(h, H, off, end), NEW i \in Int,
         off + Cfg.leftBars < i, i + Cfg.rightBars <= end
  PROVE  (LowPivot(h, i - off) <=> LowPivot(H, i)) /\ (HighPivot(h, i - off) <=> HighPivot(H, i))
<1>1. /\ off \in Nat /\ end \in Int
      /\ \A j \in off + 1..end : j \in 1..Len(H) /\ j - off \in 1..Len(h) /\ h[j - off] = H[j]
  BY DEF Reads
<1>2. PICK L, R : L = Cfg.leftBars /\ R = Cfg.rightBars
  OBVIOUS
<1>3. L \in Nat /\ R \in Nat /\ off + L < i /\ i + R <= end
  BY <1>2, Numbers
<1>4. h[i - off] = H[i]
  <2>1. i \in off + 1..end
    BY <1>1, <1>3
  <2>2. QED
    BY <1>1, <2>1
<1>5. ASSUME NEW j \in i - off - L..i - off + R PROVE j + off \in i - L..i + R /\ h[j] = H[j + off]
  <2>1. j + off \in off + 1..end /\ (j + off) - off = j /\ j + off \in i - L..i + R
    BY <1>1, <1>3
  <2>2. QED
    BY <1>1, <2>1
<1>6. ASSUME NEW j \in i - L..i + R PROVE j - off \in i - off - L..i - off + R /\ h[j - off] = H[j]
  <2>1. j \in off + 1..end /\ j - off \in i - off - L..i - off + R
    BY <1>1, <1>3
  <2>2. QED
    BY <1>1, <2>1
<1>7. LowPivot(h, i - off) <=> LowPivot(H, i)
  BY <1>2, <1>4, <1>5, <1>6 DEF LowPivot
<1>8. HighPivot(h, i - off) <=> HighPivot(H, i)
  BY <1>2, <1>4, <1>5, <1>6 DEF HighPivot
<1>9. QED
  BY <1>7, <1>8

\* Where the full history and the live window look for pivots.
Confirmed(n) == KeptFrom(n)..n - Cfg.rightBars
LEMMA AloneIs ==
  ASSUME NEW H \in Seq(Quote), NEW imp
  PROVE  AdvanceAlone(H, imp) = Advance(H, 0, imp, Lows(H, Confirmed(Len(H))), Highs(H, Confirmed(Len(H))))
<1>1. PICK n : n = Len(H)
  OBVIOUS
<1>2. n \in Nat /\ Wide(n, 0) /\ 0 \in Nat /\ 0 \in {0, 0}
  BY <1>1 DEF Wide
<1>3. First(n, 0) = KeptFrom(n)
  BY <1>2, FirstMoved
<1>4. QED
  BY <1>1, <1>3 DEF AdvanceAlone, Confirmed

LEMMA LiveAdvance ==
  ASSUME NEW h, NEW H, NEW off, Window(h, H, off), Len(h) # 0, Wide(Len(H), off), NEW imp, Ranged(imp)
  PROVE  AdvanceAlone(h, Moved(imp, off)) = Moved(AdvanceAlone(H, imp), off)
<1>1. /\ h \in Seq(Quote) /\ H \in Seq(Quote) /\ off \in Nat /\ off \in Int
      /\ Len(h) \in Nat /\ Len(H) \in Nat /\ Len(H) = off + Len(h)
  BY WindowIs
<1>2. PICK n, m, R, L : n = Len(H) /\ m = Len(h) /\ R = Cfg.rightBars /\ L = Cfg.leftBars
  OBVIOUS
<1>3. n \in Nat /\ m \in Nat /\ n - off = m /\ R \in Nat /\ L \in Nat /\ off \in {0, off} /\ off - off = 0
  BY <1>1, <1>2, Numbers
<1>4. PICK k : k = KeptFrom(n)
  OBVIOUS
<1>5. k \in Nat /\ First(m, 0) = k - off /\ First(m, 0) = KeptFrom(m) /\ KeptFrom(m) > L
  <2>1. First(n - off, off - off) = KeptFrom(n) - off
    BY <1>1, <1>2, <1>3, FirstMoved
  <2>2. First(m, 0) = k - off
    BY <1>3, <1>4, <2>1
  <2>3. First(m, 0) = KeptFrom(m)
    <3>1. Wide(m, 0) /\ 0 \in Nat /\ 0 \in {0, 0}
      BY DEF Wide
    <3>2. QED
      BY <1>3, <3>1, FirstMoved
  <2>4. k \in Nat /\ KeptFrom(m) > L
    <3>1. n \in Int /\ m \in Int
      BY <1>3
    <3>2. QED
      BY <1>2, <1>4, <3>1, Numbers
  <2>5. QED
    BY <2>2, <2>3, <2>4
<1>6. Confirmed(m) = k - off..m - R /\ Confirmed(n) = k..n - R
  BY <1>2, <1>4, <1>5 DEF Confirmed
<1>7. ASSUME NEW i \in k..n - R
      PROVE  /\ i \in Confirmed(n) /\ i - off \in Confirmed(m)
             /\ (LowPivot(h, i - off) <=> LowPivot(H, i)) /\ (HighPivot(h, i - off) <=> HighPivot(H, i))
  <2>1. i \in Int /\ off + L < i /\ i + R <= n /\ i - off \in k - off..m - R
    BY <1>1, <1>3, <1>5
  <2>2. Reads(h, H, off, n)
    BY <1>2, WindowReads
  <2>3. (LowPivot(h, i - off) <=> LowPivot(H, i)) /\ (HighPivot(h, i - off) <=> HighPivot(H, i))
    BY <1>2, <2>1, <2>2, PivotMoved
  <2>4. QED
    BY <1>6, <2>1, <2>3
<1>8. PICK lh, lH, gh, gH : /\ lh = Lows(h, Confirmed(m)) /\ lH = Lows(H, Confirmed(n))
                            /\ gh = Highs(h, Confirmed(m)) /\ gH = Highs(H, Confirmed(n))
  OBVIOUS
<1>9. Matches(lh, lH, off, k, n - R) /\ Matches(gh, gH, off, k, n - R)
  BY <1>7, <1>8 DEF Matches, Lows, Highs
<1>10. Mirrors(h, H, off, off, lh, lH, gh, gH)
  BY <1>2, <1>3, <1>4, <1>9 DEF Mirrors
<1>11. Advance(h, off - off, Moved(imp, off), lh, gh) = Moved(Advance(H, 0, imp, lH, gH), off)
  BY <1>10, AdvanceMoved
<1>12. AdvanceAlone(h, Moved(imp, off)) = Advance(h, 0, Moved(imp, off), lh, gh)
  BY <1>1, <1>2, <1>8, AloneIs
<1>13. AdvanceAlone(H, imp) = Advance(H, 0, imp, lH, gH)
  BY <1>1, <1>2, <1>8, AloneIs
<1>14. QED
  BY <1>3, <1>11, <1>12, <1>13

\* What the engine holds: pivots of the whole history, read at window offsets.
LEMMA EngineAdvance ==
  ASSUME NEW h, NEW H, NEW off, Window(h, H, off), Len(h) # 0, Wide(Len(H), off), NEW imp, Ranged(imp)
  PROVE  Advance(h, off, imp, Lows(H, Confirmed(Len(H))), Highs(H, Confirmed(Len(H)))) = AdvanceAlone(H, imp)
<1>1. H \in Seq(Quote) /\ off \in Nat
  BY WindowIs
<1>2. PICK lH, gH : lH = Lows(H, Confirmed(Len(H))) /\ gH = Highs(H, Confirmed(Len(H)))
  OBVIOUS
<1>3. \A i \in Confirmed(Len(H)) : i - 0 = i
  BY <1>1, Numbers DEF Confirmed
<1>4. Matches(lH, lH, 0, KeptFrom(Len(H)), Len(H) - Cfg.rightBars) /\ Matches(gH, gH, 0, KeptFrom(Len(H)), Len(H) - Cfg.rightBars)
  BY <1>3 DEF Matches, Confirmed
<1>5. Mirrors(h, H, off, 0, lH, lH, gH, gH)
  BY <1>4 DEF Mirrors
<1>6. Advance(h, off - 0, Moved(imp, 0), lH, gH) = Moved(Advance(H, 0, imp, lH, gH), 0)
  BY <1>5, AdvanceMoved
<1>7. off - 0 = off
  BY <1>1
<1>8. AdvanceAlone(H, imp) = Advance(H, 0, imp, lH, gH)
  BY <1>1, <1>2, AloneIs
<1>9. Moved(imp, 0) = imp
  BY MovedByNone
<1>10. PICK r : r = Advance(H, 0, imp, lH, gH)
  OBVIOUS
<1>11. Ranged(r)
  <2>1. r = imp \/ r = Selected(H, 0, lH, gH)
    BY <1>10 DEF Advance
  <2>2. Pending(Selected(H, 0, lH, gH), H)
    BY <1>1, SelectedFound
  <2>3. QED
    BY <2>1, <2>2, PendingRanged
<1>12. Moved(r, 0) = r
  BY <1>11, MovedByNone
<1>13. QED
  BY <1>2, <1>6, <1>7, <1>8, <1>9, <1>10, <1>12

\* The legacy rule: the same pairs qualify in the window and in the whole history.
LEMMA EngineDetect ==
  ASSUME NEW h, NEW H, NEW off, Window(h, H, off), Wide(Len(H), off),
         NEW A, NEW B, A = Lows(H, Confirmed(Len(H))), B = Highs(H, Confirmed(Len(H)))
  PROVE  /\ (IF Len(H) < Cfg.leftBars + Cfg.rightBars + 2 THEN NoImpulse
             ELSE Latest(h, off, {p \in Ordered(A, B) : Enough(h, off, p)})) = DetectImpulse(H)
         /\ Pending(DetectImpulse(H), H)
<1>1. H \in Seq(Quote) /\ off \in Nat /\ off - 0 = off /\ 0 \in {0, off} /\ Len(H) \in Nat
  BY WindowIs
<1>2. PICK n, k, e : n = Len(H) /\ k = KeptFrom(n) /\ e = n - Cfg.rightBars
  OBVIOUS
<1>3. n \in Nat /\ k \in Nat /\ k \in Int /\ e \in Int /\ Cfg.rightBars \in Nat /\ e <= n
  <2>1. n \in Nat /\ n \in Int /\ Cfg.rightBars \in Nat
    BY <1>1, <1>2, Numbers
  <2>2. k \in Nat
    BY <1>2, <2>1, Numbers
  <2>3. QED
    BY <1>2, <2>1, <2>2
<1>4. A = A \cap (k..e) /\ B = B \cap (k..e)
  BY <1>2 DEF Lows, Highs, Confirmed
<1>5. PICK X, Y : X = {p \in Int \X Int : Enough(H, 0, p)} /\ Y = {p \in Int \X Int : Enough(h, off, p)}
  OBVIOUS
<1>6. PICK P, Q : P = {p \in Ordered(A, B) : p \in X} /\ Q = {p \in Ordered(A, B) : p \in Y}
  OBVIOUS
<1>7. Ordered(A, B) \subseteq Int \X Int
  <2>1. A \subseteq Int /\ B \subseteq Int
    BY <1>3, <1>4
  <2>2. QED
    BY <2>1 DEF Ordered
<1>8. P = {p \in Ordered(A, B) : Enough(H, 0, p)} /\ Q = {p \in Ordered(A, B) : Enough(h, off, p)}
  BY <1>5, <1>6, <1>7
<1>9. \A u, v \in k..e : u < v => (<<u, v>> \in X <=> <<u - 0, v - 0>> \in Y)
  <2>1. SUFFICES ASSUME NEW u \in k..e, NEW v \in k..e, u < v PROVE <<u, v>> \in X <=> <<u - 0, v - 0>> \in Y
    OBVIOUS
  <2>2. u \in Int /\ v \in Int /\ KeptFrom(Len(H)) <= u /\ v <= Len(H)
    BY <1>2, <1>3
  <2>3. Enough(H, 0, <<u, v>>) <=> Enough(h, off - 0, <<u - 0, v - 0>>)
    BY <1>1, <2>1, <2>2, PairMoved
  <2>4. u - 0 = u /\ v - 0 = v /\ <<u, v>> \in Int \X Int
    BY <2>2
  <2>5. QED
    BY <1>1, <1>5, <2>3, <2>4
<1>10. PairSets(k, e, 0, A, A, B, B, X, Y, P, Q)
  <2>1. \A i \in k..e : i - 0 = i
    BY <1>3
  <2>2. Matches(A, A, 0, k, e) /\ Matches(B, B, 0, k, e)
    BY <2>1 DEF Matches
  <2>3. k - 0 = k /\ e - 0 = e /\ 0 \in Int
    BY <1>3
  <2>4. P = {p \in Ordered(A \cap (k..e), B \cap (k..e)) : p \in X}
    BY <1>4, <1>6
  <2>5. Q = {p \in Ordered(A \cap (k - 0..e - 0), B \cap (k - 0..e - 0)) : p \in Y}
    BY <1>4, <1>6, <2>3
  <2>6. QED
    BY <1>3, <1>9, <2>2, <2>3, <2>4, <2>5 DEF PairSets
<1>11. /\ Renumbered(Q, P, 0)
       /\ \A p \in P : p \in X /\ p \in Int \X Int /\ k <= p[1] /\ p[1] < p[2] /\ p[2] <= e
  BY <1>10, PairsMoved
<1>12. off < k
  BY <1>1, <1>2, FirstMoved
<1>13. ASSUME NEW p \in P
       PROVE  /\ p \in Int \X Int /\ KeptFrom(Len(H)) <= p[1] /\ p[1] < p[2] /\ p[2] + Cfg.rightBars <= Len(H)
              /\ off < p[1] /\ p[2] <= Len(H)
  <2>1. p \in Int \X Int /\ k <= p[1] /\ p[1] < p[2] /\ p[2] <= e
    BY <1>11
  <2>2. PICK u \in Int, v \in Int : p[1] = u /\ p[2] = v
    BY <2>1
  <2>3. QED
    BY <1>1, <1>2, <1>3, <1>12, <2>1, <2>2
<1>14. Within(P, off, Len(H))
  BY <1>13 DEF Within
<1>15. PICK r : r = Latest(H, 0, P)
  OBVIOUS
<1>16. Pending(r, H)
  BY <1>1, <1>13, <1>15, LatestFound
<1>17. Latest(h, off, Q) = r
  <2>1. Latest(h, off - 0, Q) = Moved(Latest(H, 0, P), 0)
    BY <1>1, <1>11, <1>14, LatestMoved
  <2>2. Moved(r, 0) = r
    BY <1>16, PendingRanged, MovedByNone
  <2>3. QED
    BY <1>1, <1>15, <2>1, <2>2
<1>18. DetectImpulse(H) = IF n < Cfg.leftBars + Cfg.rightBars + 2 THEN NoImpulse ELSE r
  <2>1. P = {p \in Ordered(A, B) :
               /\ Gains(H[p[1]].low, H[p[2]].high)
               /\ Expands(H, 0, p[1], p[2], Max({1, p[1] - Back}))}
    <3>1. ASSUME NEW p \in Ordered(A, B)
          PROVE  Enough(H, 0, p) <=> /\ Gains(H[p[1]].low, H[p[2]].high)
                                     /\ Expands(H, 0, p[1], p[2], Max({1, p[1] - Back}))
      <4>1. p[1] - 0 = p[1] /\ p[2] - 0 = p[2]
        BY <1>7
      <4>2. QED
        BY <4>1 DEF Enough
    <3>2. QED
      BY <1>8, <3>1
  <2>2. Max({Cfg.leftBars + 1, n - Cfg.lookbackBars + 1})..n - Cfg.rightBars = Confirmed(n)
    BY DEF Confirmed, KeptFrom
  <2>3. QED
    BY <1>2, <1>15, <2>1, <2>2 DEF DetectImpulse
<1>19. Pending(NoImpulse, H)
  BY DEF Pending
<1>20. QED
  BY <1>2, <1>8, <1>16, <1>17, <1>18, <1>19

LEMMA WindowGrows ==
  ASSUME NEW h, NEW H, NEW off, Window(h, H, off), NEW q \in Quote
  PROVE  /\ Window(Append(h, q), Append(H, q), off) /\ Len(Append(h, q)) = Len(h) + 1
         /\ Append(h, q)[Len(h) + 1] = q
<1>1. /\ h \in Seq(Quote) /\ H \in Seq(Quote) /\ off \in Nat /\ Len(H) = off + Len(h)
      /\ \A j \in 1..Len(h) : h[j] = H[j + off]
  BY DEF Window
<1>2. Len(h) \in Nat /\ Len(H) \in Nat
  BY <1>1
<1>3. /\ Append(h, q) \in Seq(Quote) /\ Len(Append(h, q)) = Len(h) + 1 /\ Append(h, q)[Len(h) + 1] = q
      /\ \A j \in 1..Len(h) : Append(h, q)[j] = h[j]
  BY <1>1, AppendProperties
<1>4. /\ Append(H, q) \in Seq(Quote) /\ Len(Append(H, q)) = Len(H) + 1 /\ Append(H, q)[Len(H) + 1] = q
      /\ \A j \in 1..Len(H) : Append(H, q)[j] = H[j]
  BY <1>1, AppendProperties
<1>5. ASSUME NEW j \in 1..Len(h) + 1 PROVE Append(h, q)[j] = Append(H, q)[j + off]
  <2>1. CASE j = Len(h) + 1
    <3>1. j + off = Len(H) + 1
      BY <1>1, <1>2, <2>1
    <3>2. QED
      BY <1>3, <1>4, <2>1, <3>1
  <2>2. CASE j # Len(h) + 1
    <3>1. j \in 1..Len(h) /\ j + off \in 1..Len(H)
      BY <1>1, <1>2, <2>2
    <3>2. QED
      BY <1>1, <1>3, <1>4, <3>1
  <2>3. QED
    BY <2>1, <2>2
<1>6. Len(Append(H, q)) = off + Len(Append(h, q))
  BY <1>1, <1>2, <1>3, <1>4
<1>7. QED
  BY <1>1, <1>3, <1>4, <1>5, <1>6 DEF Window

LEMMA WindowTail ==
  ASSUME NEW h, NEW H, NEW off, Window(h, H, off), Len(h) > 0
  PROVE  Window(Tail(h), H, off + 1) /\ Len(Tail(h)) = Len(h) - 1
<1>1. /\ h \in Seq(Quote) /\ H \in Seq(Quote) /\ off \in Nat /\ Len(H) = off + Len(h)
      /\ \A j \in 1..Len(h) : h[j] = H[j + off]
  BY DEF Window
<1>2. Len(h) \in Nat /\ Len(H) \in Nat /\ h # <<>>
  BY <1>1
<1>3. /\ Tail(h) \in Seq(Quote) /\ Len(Tail(h)) = Len(h) - 1
      /\ \A j \in 1..Len(Tail(h)) : Tail(h)[j] = h[j + 1]
  BY <1>1, <1>2, HeadTailProperties
<1>4. ASSUME NEW j \in 1..Len(Tail(h)) PROVE Tail(h)[j] = H[j + (off + 1)]
  <2>1. j + 1 \in 1..Len(h) /\ (j + 1) + off = j + (off + 1)
    BY <1>1, <1>2, <1>3
  <2>2. QED
    BY <1>1, <1>3, <2>1
<1>5. Len(H) = (off + 1) + Len(Tail(h)) /\ off + 1 \in Nat
  BY <1>1, <1>2, <1>3
<1>6. QED
  BY <1>1, <1>3, <1>4, <1>5 DEF Window

\* A window of at most `size` candles, which has dropped some only when full.
Bounded(h, off, size) == Len(h) <= size /\ (off = 0 \/ Len(h) = size)
Sliding(h, H, off, size, q, full, g, e) ==
  /\ size \in Nat /\ size > 0 /\ Window(h, H, off) /\ Bounded(h, off, size) /\ q \in Quote
  /\ full = Append(h, q)
  /\ g = (IF Len(full) > size THEN Tail(full) ELSE full) /\ e = (IF Len(full) > size THEN off + 1 ELSE off)
LEMMA WindowSlides ==
  ASSUME NEW h, NEW H, NEW off, NEW size, NEW q, NEW full, NEW g, NEW e, Sliding(h, H, off, size, q, full, g, e)
  PROVE  Window(g, Append(H, q), e) /\ Bounded(g, e, size) /\ Len(g) > 0
<1>0. /\ size \in Nat /\ size > 0 /\ Window(h, H, off) /\ Bounded(h, off, size) /\ q \in Quote
      /\ full = Append(h, q)
      /\ g = (IF Len(full) > size THEN Tail(full) ELSE full) /\ e = (IF Len(full) > size THEN off + 1 ELSE off)
  BY DEF Sliding
<1>1. Window(full, Append(H, q), off) /\ Len(full) = Len(h) + 1
  BY <1>0, WindowGrows
<1>2. Len(h) \in Nat /\ off \in Nat
  BY <1>0, WindowIs
<1>3. CASE Len(full) > size
  <2>0. Len(full) > size /\ Len(h) <= size
    BY <1>0, <1>3 DEF Bounded
  <2>1. Len(full) > 0 /\ Len(full) = size + 1
    BY <1>0, <1>1, <1>2, <2>0
  <2>2. Window(Tail(full), Append(H, q), off + 1) /\ Len(Tail(full)) = Len(full) - 1
    BY <1>1, <2>1, WindowTail
  <2>3. g = Tail(full) /\ e = off + 1
    BY <1>0, <1>3
  <2>4. QED
    BY <1>0, <2>1, <2>2, <2>3 DEF Bounded
<1>4. CASE ~(Len(full) > size)
  <2>0. g = full /\ e = off /\ ~(Len(full) > size)
    BY <1>0, <1>4
  <2>1. g = full /\ e = off /\ Len(full) <= size
    BY <1>0, <1>1, <1>2, <2>0
  <2>2. off = 0
    BY <1>0, <1>1, <1>2, <2>1 DEF Bounded
  <2>3. QED
    BY <1>1, <1>2, <2>1, <2>2 DEF Bounded
<1>5. QED
  BY <1>3, <1>4

LEMMA WideEnough ==
  ASSUME NEW h, NEW H, NEW off, NEW size \in Nat, Window(h, H, off), Bounded(h, off, size),
         size >= Cfg.lookbackBars + Back
  PROVE  Wide(Len(H), off)
<1>1. Len(h) \in Nat /\ off \in Nat /\ Len(H) = off + Len(h) /\ Cfg.lookbackBars \in Nat /\ Back \in Nat
  BY WindowIs, Numbers
<1>2. QED
  BY <1>1 DEF Bounded, Wide

\* The pivots that one more candle confirms, and those that leave the look-back.
Newest(n, off) ==
  LET p == n - Cfg.rightBars IN IF p > Cfg.leftBars /\ p - off > Cfg.leftBars THEN {p} ELSE {}
Confirms(H, q, G, g, e, n) ==
  H \in Seq(Quote) /\ q \in Quote /\ G = Append(H, q) /\ Window(g, G, e) /\ Wide(Len(G), e) /\ n = Len(G)
LEMMA PivotsGo ==
  ASSUME NEW H, NEW q, NEW G, NEW g, NEW e, NEW n, Confirms(H, q, G, g, e, n)
  PROVE  /\ {i \in Lows(H, Confirmed(Len(H))) \cup {j \in Newest(n, e) : LowPivot(g, j - e)} : i >= KeptFrom(n)}
              = Lows(G, Confirmed(n))
         /\ {i \in Highs(H, Confirmed(Len(H))) \cup {j \in Newest(n, e) : HighPivot(g, j - e)} : i >= KeptFrom(n)}
              = Highs(G, Confirmed(n))
<1>0. H \in Seq(Quote) /\ q \in Quote /\ G = Append(H, q) /\ Window(g, G, e) /\ Wide(Len(G), e) /\ n = Len(G)
  BY DEF Confirms
<1>1. /\ Reads(H, G, 0, Len(H)) /\ G \in Seq(Quote) /\ Len(G) = Len(H) + 1 /\ Len(H) \in Nat
  BY <1>0, LongerReads
<1>2. PICK m, p, k, l, R, L, K : /\ m = Len(H) /\ R = Cfg.rightBars /\ L = Cfg.leftBars /\ p = n - R
                                 /\ K = Cfg.lookbackBars /\ k = KeptFrom(n) /\ l = KeptFrom(m)
  OBVIOUS
<1>3. n \in Nat /\ m \in Nat /\ n = m + 1 /\ R \in Nat /\ L \in Nat /\ K \in Nat /\ p \in Int /\ p = n - R /\ e \in Nat
  <2>1. R \in Nat /\ L \in Nat /\ K \in Nat
    BY <1>2, Numbers
  <2>2. e \in Nat
    BY <1>0, WindowIs
  <2>3. n = m + 1 /\ m \in Nat
    BY <1>0, <1>1, <1>2
  <2>4. QED
    BY <1>2, <2>1, <2>2, <2>3
<1>4. k \in Nat /\ l \in Nat /\ k > L /\ l > L /\ l <= k
  <2>1. /\ k \in Nat /\ k > L /\ k >= n - K + 1 /\ l \in Nat /\ l > L /\ l \in {L + 1, m - K + 1}
    <3>1. n \in Int /\ m \in Int
      BY <1>3
    <3>2. k \in Nat /\ k > L /\ k >= n - K + 1
      BY <1>2, <3>1, Numbers
    <3>3. l \in Nat /\ l > L /\ l \in {L + 1, m - K + 1}
      BY <1>2, <3>1, Numbers
    <3>4. QED
      BY <3>2, <3>3
  <2>2. QED
    BY <1>3, <2>1
<1>5. e < k /\ (e = 0 \/ e + L < k)
  <2>1. e < KeptFrom(Len(G)) /\ (e = 0 \/ e < KeptFrom(Len(G)) - Back)
    <3>1. Len(G) \in Nat /\ e \in {0, e}
      BY <1>0, <1>3
    <3>2. QED
      BY <1>0, <1>3, <3>1, FirstMoved
  <2>2. Back \in Nat /\ Back >= L
    BY <1>2, Numbers
  <2>3. QED
    BY <1>0, <1>2, <1>3, <1>4, <2>1, <2>2
<1>6. Confirmed(n) = k..p /\ Confirmed(m) = l..p - 1
  <2>1. m - R = p - 1
    BY <1>3
  <2>2. QED
    BY <1>2, <2>1 DEF Confirmed
<1>7. Newest(n, e) = IF p > L /\ p - e > L THEN {p} ELSE {}
  BY <1>2 DEF Newest
<1>8. ASSUME NEW i \in k..p, i # p
      PROVE  i \in l..p - 1 /\ (LowPivot(G, i) <=> LowPivot(H, i)) /\ (HighPivot(G, i) <=> HighPivot(H, i))
  <2>1. i \in Int /\ 0 + Cfg.leftBars < i /\ i + Cfg.rightBars <= Len(H) /\ i - 0 = i /\ i \in l..p - 1
    BY <1>2, <1>3, <1>4, <1>8
  <2>2. (LowPivot(H, i - 0) <=> LowPivot(G, i)) /\ (HighPivot(H, i - 0) <=> HighPivot(G, i))
    BY <1>1, <2>1, PivotMoved
  <2>3. QED
    BY <2>1, <2>2
<1>9. ASSUME p >= k
      PROVE  Newest(n, e) = {p} /\ (LowPivot(g, p - e) <=> LowPivot(G, p)) /\ (HighPivot(g, p - e) <=> HighPivot(G, p))
  <2>1. p > L /\ p - e > L /\ e + L < p
    BY <1>3, <1>4, <1>5, <1>9
  <2>2. p \in Int /\ e + Cfg.leftBars < p /\ p + Cfg.rightBars <= Len(G)
    BY <1>0, <1>2, <1>3, <2>1
  <2>3. Reads(g, G, e, Len(G))
    BY <1>0, WindowReads
  <2>4. (LowPivot(g, p - e) <=> LowPivot(G, p)) /\ (HighPivot(g, p - e) <=> HighPivot(G, p))
    BY <2>2, <2>3, PivotMoved
  <2>5. QED
    BY <1>7, <2>1, <2>4
<1>10. ASSUME NEW i PROVE i \in Newest(n, e) => i = p
  BY <1>7
<1>11. ASSUME NEW i
       PROVE  i \in l..p - 1 /\ i >= k => i \in k..p /\ i # p
  BY <1>3, <1>4
<1>12. ASSUME NEW i PROVE i \in k..p => i >= k /\ (i = p => p >= k)
  BY <1>3, <1>4
<1>13. ASSUME NEW i
       PROVE  (i \in {x \in Lows(H, Confirmed(m)) \cup {j \in Newest(n, e) : LowPivot(g, j - e)} : x >= k})
                <=> i \in Lows(G, Confirmed(n))
  <2>1. i \in Lows(G, Confirmed(n)) <=> i \in k..p /\ LowPivot(G, i)
    BY <1>6 DEF Lows
  <2>2. i \in Lows(H, Confirmed(m)) <=> i \in l..p - 1 /\ LowPivot(H, i)
    BY <1>6 DEF Lows
  <2>3. ASSUME i \in Lows(G, Confirmed(n))
        PROVE  i >= k /\ (i \in Lows(H, Confirmed(m)) \/ (i \in Newest(n, e) /\ LowPivot(g, i - e)))
    <3>1. CASE i = p
      BY <1>9, <1>12, <2>1, <2>3, <3>1
    <3>2. CASE i # p
      BY <1>8, <1>12, <2>1, <2>2, <2>3, <3>2
    <3>3. QED
      BY <3>1, <3>2
  <2>4. ASSUME i >= k, i \in Lows(H, Confirmed(m)) PROVE i \in Lows(G, Confirmed(n))
    BY <1>8, <1>11, <2>1, <2>2, <2>4
  <2>5. ASSUME i >= k, i \in Newest(n, e), LowPivot(g, i - e) PROVE i \in Lows(G, Confirmed(n))
    <3>1. i = p /\ p >= k
      BY <1>10, <2>5
    <3>2. p \in k..p
      BY <1>3, <1>4, <3>1
    <3>3. QED
      BY <1>9, <2>1, <2>5, <3>1, <3>2
  <2>6. QED
    BY <2>3, <2>4, <2>5
<1>14. ASSUME NEW i
       PROVE  (i \in {x \in Highs(H, Confirmed(m)) \cup {j \in Newest(n, e) : HighPivot(g, j - e)} : x >= k})
                <=> i \in Highs(G, Confirmed(n))
  <2>1. i \in Highs(G, Confirmed(n)) <=> i \in k..p /\ HighPivot(G, i)
    BY <1>6 DEF Highs
  <2>2. i \in Highs(H, Confirmed(m)) <=> i \in l..p - 1 /\ HighPivot(H, i)
    BY <1>6 DEF Highs
  <2>3. ASSUME i \in Highs(G, Confirmed(n))
        PROVE  i >= k /\ (i \in Highs(H, Confirmed(m)) \/ (i \in Newest(n, e) /\ HighPivot(g, i - e)))
    <3>1. CASE i = p
      BY <1>9, <1>12, <2>1, <2>3, <3>1
    <3>2. CASE i # p
      BY <1>8, <1>12, <2>1, <2>2, <2>3, <3>2
    <3>3. QED
      BY <3>1, <3>2
  <2>4. ASSUME i >= k, i \in Highs(H, Confirmed(m)) PROVE i \in Highs(G, Confirmed(n))
    BY <1>8, <1>11, <2>1, <2>2, <2>4
  <2>5. ASSUME i >= k, i \in Newest(n, e), HighPivot(g, i - e) PROVE i \in Highs(G, Confirmed(n))
    <3>1. i = p /\ p >= k
      BY <1>10, <2>5
    <3>2. p \in k..p
      BY <1>3, <1>4, <3>1
    <3>3. QED
      BY <1>9, <2>1, <2>5, <3>1, <3>2
  <2>6. QED
    BY <2>3, <2>4, <2>5
<1>15. QED
  BY <1>2, <1>13, <1>14

\* The sums over the last `period` candles, and over those before the last one.
Since(x, n) == Max({x, n - Cfg.period + 1})
Rolling(H) ==
  LET n == Len(H)
  IN [vol |-> Volume(H, Since(1, n)..n), gain |-> Rises(H, Since(2, n)..n), loss |-> Falls(H, Since(2, n)..n),
      pvol |-> Volume(H, Since(1, n - 1)..n - 1), pgain |-> Rises(H, Since(2, n - 1)..n - 1),
      ploss |-> Falls(H, Since(2, n - 1)..n - 1)]

LEMMA SinceIs ==
  ASSUME NEW x \in Int, NEW n \in Int
  PROVE  /\ Since(x, n) \in Int /\ Since(x, n) >= x /\ Since(x, n) >= n - Cfg.period + 1
         /\ Since(x, n) \in {x, n - Cfg.period + 1}
<1>1. PICK y : y = n - Cfg.period + 1
  OBVIOUS
<1>2. y \in Int
  BY <1>1, Numbers
<1>3. Max({x, y}) \in {x, y} /\ Max({x, y}) >= x /\ Max({x, y}) >= y
  BY <1>2, BiggerOf
<1>4. Since(x, n) = Max({x, y})
  BY <1>1 DEF Since
<1>5. QED
  BY <1>1, <1>2, <1>3, <1>4

\* The last candle comes in, the one `period` before it goes out.
LEMMA Slid ==
  ASSUME NEW F, NEW n, Column(F, n), n > 0, NEW x \in {1, 2}
  PROVE  /\ Over(F, Since(x, n)..n) = Over(F, Since(x, n - 1)..n - 1)
              + (IF n >= x THEN F[n] ELSE 0) - (IF n - Cfg.period >= x THEN F[n - Cfg.period] ELSE 0)
         /\ Over(F, Since(x, n)..n) \in Int /\ Over(F, Since(x, n - 1)..n - 1) \in Int
<1>1. n \in Nat /\ F \in [1..n -> Int] /\ x \in Int
  BY DEF Column
<1>2. PICK P, a, b : P = Cfg.period /\ a = Since(x, n - 1) /\ b = Since(x, n)
  OBVIOUS
<1>3. P \in Nat /\ P > 0
  BY <1>2, Numbers
<1>4. a \in Int /\ a >= x /\ a >= n - P /\ a \in {x, n - P}
  <2>1. n - 1 \in Int /\ (n - 1) - P + 1 = n - P
    BY <1>1, <1>3
  <2>2. /\ Since(x, n - 1) \in Int /\ Since(x, n - 1) >= x /\ Since(x, n - 1) >= (n - 1) - P + 1
        /\ Since(x, n - 1) \in {x, (n - 1) - P + 1}
    BY <1>1, <1>2, <2>1, SinceIs
  <2>3. QED
    BY <1>2, <2>1, <2>2
<1>5. b \in Int /\ b >= x /\ b >= n - P + 1 /\ b \in {x, n - P + 1}
  <2>1. n \in Int
    BY <1>1
  <2>2. /\ Since(x, n) \in Int /\ Since(x, n) >= x /\ Since(x, n) >= n - Cfg.period + 1
        /\ Since(x, n) \in {x, n - Cfg.period + 1}
    BY <1>1, <2>1, SinceIs
  <2>3. QED
    BY <1>2, <2>2
<1>6. Over(F, b..n) \in Int /\ Over(F, a..n - 1) \in Int
  <2>1. PICK S, T : S = b..n /\ T = a..n - 1
    OBVIOUS
  <2>2. S \in SUBSET (1..n) /\ T \in SUBSET (1..n)
    BY <1>1, <1>4, <1>5, <2>1
  <2>3. QED
    BY <2>1, <2>2, OverTyped
<1>7. CASE n - P >= x
  <2>1. a = n - P /\ b = a + 1 /\ 1 <= a /\ a <= n /\ n >= x /\ n \in Int /\ n <= n
    BY <1>1, <1>3, <1>4, <1>5, <1>7
  <2>2. /\ Over(F, a..n) = Over(F, a..n - 1) + F[n] /\ Over(F, a + 1..n) = Over(F, a..n) - F[a]
        /\ F[a] \in Int /\ F[n] \in Int
    BY <1>4, <2>1, OverEnds
  <2>3. Over(F, b..n) = Over(F, a..n - 1) + F[n] - F[a]
    <3>1. PICK s, t, u, v, w : /\ s = Over(F, b..n) /\ t = Over(F, a..n - 1) /\ u = F[n] /\ v = F[a]
                               /\ w = Over(F, a..n)
      OBVIOUS
    <3>2. a + 1..n = b..n
      BY <2>1
    <3>3. t \in Int /\ u \in Int /\ v \in Int /\ w = t + u /\ s = w - v
      BY <1>6, <2>2, <3>1, <3>2
    <3>4. s = t + u - v
      BY ONLY <3>3
    <3>5. QED
      BY <3>1, <3>4
  <2>4. QED
    BY <1>2, <1>6, <1>7, <2>1, <2>3
<1>8. CASE ~(n - P >= x)
  <2>1. a = x /\ b = x
    BY <1>1, <1>3, <1>4, <1>5, <1>8
  <2>2. Over(F, b..n) = Over(F, a..n - 1) + (IF n >= x THEN F[n] ELSE 0)
    <3>1. CASE n >= x
      <4>1. 1 <= a /\ a <= n /\ n <= n /\ n \in Int
        BY <1>1, <2>1, <3>1
      <4>2. Over(F, a..n) = Over(F, a..n - 1) + F[n]
        BY <1>4, <4>1, OverEnds
      <4>3. QED
        BY <2>1, <3>1, <4>2
    <3>2. CASE ~(n >= x)
      <4>1. b..n = {} /\ a..n - 1 = {}
        BY <1>1, <2>1, <3>2
      <4>2. b..n = a..n - 1
        BY <4>1
      <4>3. Over(F, b..n) = Over(F, a..n - 1)
        BY <4>2
      <4>4. QED
        BY <1>6, <3>2, <4>3
    <3>3. QED
      BY <3>1, <3>2
  <2>3. (IF n >= x THEN F[n] ELSE 0) \in Int
    BY <1>1
  <2>4. PICK u, v, w : u = Over(F, b..n) /\ v = Over(F, a..n - 1) /\ w = (IF n >= x THEN F[n] ELSE 0)
    OBVIOUS
  <2>5. u \in Int /\ v \in Int /\ w \in Int /\ u = v + w
    BY <1>6, <2>2, <2>3, <2>4
  <2>6. u = v + w - 0
    BY ONLY <2>5
  <2>7. QED
    BY <1>2, <1>6, <1>8, <2>4, <2>6
<1>9. QED
  BY <1>7, <1>8

\* The three running sums, from those of one candle less.
FromOn(n, x, v) == IF n >= x THEN v ELSE 0
SumsGoOn(r, G, n, P) ==
  /\ Rolling(G).vol = r.vol + FromOn(n, 1, G[n].vol) - FromOn(n - P, 1, G[n - P].vol)
  /\ Rolling(G).gain = r.gain + FromOn(n, 2, Rise(G, n)) - FromOn(n - P, 2, Rise(G, n - P))
  /\ Rolling(G).loss = r.loss + FromOn(n, 2, Fall(G, n)) - FromOn(n - P, 2, Fall(G, n - P))
  /\ Rolling(G).pvol = r.vol /\ Rolling(G).pgain = r.gain /\ Rolling(G).ploss = r.loss
LEMMA RollingGoesOn ==
  ASSUME NEW H \in Seq(Quote), NEW q \in Quote, NEW G, G = Append(H, q), NEW n, n = Len(G), NEW P, P = Cfg.period
  PROVE  SumsGoOn(Rolling(H), G, n, P)
<1>1. /\ Reads(H, G, 0, Len(H)) /\ G \in Seq(Quote) /\ Len(G) = Len(H) + 1 /\ Len(H) \in Nat
  BY LongerReads
<1>2. PICK m, a, b, c, d, v : /\ m = Len(H) /\ a = Since(1, n) /\ b = Since(1, m) /\ c = Since(2, n) /\ d = Since(2, m)
                              /\ v = Columns(G)
  OBVIOUS
<1>3. n \in Nat /\ m \in Nat /\ n = m + 1 /\ n - 1 = m /\ n > 0 /\ P \in Nat /\ P > 0
  <2>1. P \in Nat /\ P > 0
    BY Numbers
  <2>2. n = m + 1 /\ m \in Nat
    BY <1>1, <1>2
  <2>3. QED
    BY <2>1, <2>2
<1>4. a \in Int /\ a >= 1 /\ b \in Int /\ b >= 1 /\ c \in Int /\ c >= 2 /\ d \in Int /\ d >= 2
  <2>1. n \in Int /\ m \in Int /\ 1 \in Int /\ 2 \in Int
    BY <1>3
  <2>2. QED
    BY <1>2, <2>1, SinceIs
<1>5. Volume(H, b..m) = Volume(G, b..m) /\ Rises(H, d..m) = Rises(G, d..m) /\ Falls(H, d..m) = Falls(G, d..m)
  <2>1. b - 0 = b /\ d - 0 = d /\ m - 0 = m /\ 0 < b /\ 0 < d /\ 0 + 1 < d /\ m \in Int /\ m <= Len(H)
    BY <1>2, <1>3, <1>4
  <2>2. Volume(H, b - 0..m - 0) = Volume(G, b..m)
    BY <1>1, <1>4, <2>1, SumsMoved
  <2>3. Rises(H, d - 0..m - 0) = Rises(G, d..m) /\ Falls(H, d - 0..m - 0) = Falls(G, d..m)
    BY <1>1, <1>4, <2>1, SumsMoved
  <2>4. QED
    BY <2>1, <2>2, <2>3
<1>6. /\ Volume(G, a..n) = Over(v.vol, a..n) /\ Volume(G, b..m) = Over(v.vol, b..m)
      /\ Rises(G, c..n) = Over(v.rise, c..n) /\ Rises(G, d..m) = Over(v.rise, d..m)
      /\ Falls(G, c..n) = Over(v.fall, c..n) /\ Falls(G, d..m) = Over(v.fall, d..m)
  <2>1. n <= Len(G) /\ m <= Len(G) /\ 1 <= a /\ 1 <= b /\ 2 <= c /\ 2 <= d /\ n \in Int /\ m \in Int
    BY <1>1, <1>2, <1>3, <1>4
  <2>2. ASSUME NEW x \in Int, NEW y \in Int, y <= Len(G)
        PROVE  /\ 1 <= x => Volume(G, x..y) = Over(Columns(G).vol, x..y)
               /\ 2 <= x => /\ Rises(G, x..y) = Over(Columns(G).rise, x..y)
                            /\ Falls(G, x..y) = Over(Columns(G).fall, x..y)
    <3>1. G \in Seq(Quote)
      BY <1>1
    <3>2. QED
      BY ONLY <2>2, <3>1, SumsAre
  <2>3. Volume(G, a..n) = Over(v.vol, a..n) /\ Volume(G, b..m) = Over(v.vol, b..m)
    BY ONLY <1>2, <1>4, <2>1, <2>2
  <2>4. /\ Rises(G, c..n) = Over(v.rise, c..n) /\ Rises(G, d..m) = Over(v.rise, d..m)
        /\ Falls(G, c..n) = Over(v.fall, c..n) /\ Falls(G, d..m) = Over(v.fall, d..m)
    BY ONLY <1>2, <1>4, <2>1, <2>2
  <2>5. QED
    BY <2>3, <2>4
<1>7. Column(v.vol, n) /\ Column(v.rise, n) /\ Column(v.fall, n)
  BY <1>1, <1>2, ColumnsAre
<1>8. Over(v.vol, a..n) = Over(v.vol, b..m) + FromOn(n, 1, v.vol[n]) - FromOn(n - P, 1, v.vol[n - P])
  <2>1. 1 \in {1, 2}
    OBVIOUS
  <2>2. Over(v.vol, Since(1, n)..n) = Over(v.vol, Since(1, n - 1)..n - 1)
           + (IF n >= 1 THEN v.vol[n] ELSE 0) - (IF n - Cfg.period >= 1 THEN v.vol[n - Cfg.period] ELSE 0)
    BY <1>3, <1>7, <2>1, Slid
  <2>3. QED
    BY <1>2, <1>3, <2>2 DEF FromOn
<1>9. Over(v.rise, c..n) = Over(v.rise, d..m) + FromOn(n, 2, v.rise[n]) - FromOn(n - P, 2, v.rise[n - P])
  <2>1. 2 \in {1, 2}
    OBVIOUS
  <2>2. Over(v.rise, Since(2, n)..n) = Over(v.rise, Since(2, n - 1)..n - 1)
           + (IF n >= 2 THEN v.rise[n] ELSE 0) - (IF n - Cfg.period >= 2 THEN v.rise[n - Cfg.period] ELSE 0)
    BY <1>3, <1>7, <2>1, Slid
  <2>3. QED
    BY <1>2, <1>3, <2>2 DEF FromOn
<1>10. Over(v.fall, c..n) = Over(v.fall, d..m) + FromOn(n, 2, v.fall[n]) - FromOn(n - P, 2, v.fall[n - P])
  <2>1. 2 \in {1, 2}
    OBVIOUS
  <2>2. Over(v.fall, Since(2, n)..n) = Over(v.fall, Since(2, n - 1)..n - 1)
           + (IF n >= 2 THEN v.fall[n] ELSE 0) - (IF n - Cfg.period >= 2 THEN v.fall[n - Cfg.period] ELSE 0)
    BY <1>3, <1>7, <2>1, Slid
  <2>3. QED
    BY <1>2, <1>3, <2>2 DEF FromOn
<1>11. ASSUME NEW j \in Int, j <= n
       PROVE  /\ FromOn(j, 1, v.vol[j]) = FromOn(j, 1, G[j].vol)
              /\ FromOn(j, 2, v.rise[j]) = FromOn(j, 2, Rise(G, j)) /\ FromOn(j, 2, v.fall[j]) = FromOn(j, 2, Fall(G, j))
  <2>1. j >= 1 => v.vol[j] = G[j].vol
    <3>1. j >= 1 => j \in 1..Len(G)
      BY <1>3, <1>11
    <3>2. QED
      BY <1>2, <3>1 DEF Columns
  <2>2. j >= 2 => v.rise[j] = Rise(G, j) /\ v.fall[j] = Fall(G, j)
    <3>1. j >= 2 => j \in 1..Len(G) /\ j # 1
      BY <1>3, <1>11
    <3>2. QED
      BY <1>2, <3>1 DEF Columns
  <2>3. QED
    BY <2>1, <2>2 DEF FromOn
<1>12. n \in Int /\ n <= n /\ n - P \in Int /\ n - P <= n
  BY <1>3
<1>13. /\ FromOn(n, 1, v.vol[n]) = FromOn(n, 1, G[n].vol) /\ FromOn(n - P, 1, v.vol[n - P]) = FromOn(n - P, 1, G[n - P].vol)
       /\ FromOn(n, 2, v.rise[n]) = FromOn(n, 2, Rise(G, n)) /\ FromOn(n - P, 2, v.rise[n - P]) = FromOn(n - P, 2, Rise(G, n - P))
       /\ FromOn(n, 2, v.fall[n]) = FromOn(n, 2, Fall(G, n)) /\ FromOn(n - P, 2, v.fall[n - P]) = FromOn(n - P, 2, Fall(G, n - P))
  BY <1>11, <1>12
<1>14. /\ Rolling(G).vol = Volume(G, a..n) /\ Rolling(G).gain = Rises(G, c..n) /\ Rolling(G).loss = Falls(G, c..n)
       /\ Rolling(G).pvol = Volume(G, b..m) /\ Rolling(G).pgain = Rises(G, d..m) /\ Rolling(G).ploss = Falls(G, d..m)
       /\ Rolling(H).vol = Volume(H, b..m) /\ Rolling(H).gain = Rises(H, d..m) /\ Rolling(H).loss = Falls(H, d..m)
  BY <1>2, <1>3 DEF Rolling
<1>15. /\ Rolling(G).pvol = Rolling(H).vol /\ Rolling(G).pgain = Rolling(H).gain /\ Rolling(G).ploss = Rolling(H).loss
  BY <1>5, <1>14
<1>16. Rolling(G).vol = Rolling(H).vol + FromOn(n, 1, G[n].vol) - FromOn(n - P, 1, G[n - P].vol)
  BY <1>5, <1>6, <1>8, <1>13, <1>14
<1>17. Rolling(G).gain = Rolling(H).gain + FromOn(n, 2, Rise(G, n)) - FromOn(n - P, 2, Rise(G, n - P))
  BY <1>5, <1>6, <1>9, <1>13, <1>14
<1>18. Rolling(G).loss = Rolling(H).loss + FromOn(n, 2, Fall(G, n)) - FromOn(n - P, 2, Fall(G, n - P))
  BY <1>5, <1>6, <1>10, <1>13, <1>14
<1>19. QED
  BY <1>15, <1>16, <1>17, <1>18 DEF SumsGoOn

Rolls(H, q, G, full, off, n) ==
  /\ H \in Seq(Quote) /\ q \in Quote /\ G = Append(H, q) /\ Window(full, G, off) /\ Len(full) > 0 /\ n = Len(G)
  /\ off = 0 \/ off + Cfg.period + 3 <= n
LEMMA RolledIs ==
  ASSUME NEW H, NEW q, NEW G, NEW full, NEW off, NEW n, Rolls(H, q, G, full, off, n)
  PROVE  Rolled(Rolling(H), full, off, n) = Rolling(G)
<1>0. /\ H \in Seq(Quote) /\ q \in Quote /\ G = Append(H, q) /\ Window(full, G, off) /\ Len(full) > 0 /\ n = Len(G)
      /\ off = 0 \/ off + Cfg.period + 3 <= n
  BY DEF Rolls
<1>1. /\ full \in Seq(Quote) /\ G \in Seq(Quote) /\ Len(full) \in Nat /\ n \in Nat /\ off \in Nat /\ n = off + Len(full)
      /\ \A j \in off + 1..n : full[j - off] = G[j]
  <2>1. /\ full \in Seq(Quote) /\ G \in Seq(Quote) /\ Len(full) \in Nat /\ Len(G) \in Nat /\ off \in Nat
        /\ Len(G) = off + Len(full) /\ \A j \in off + 1..Len(G) : full[j - off] = G[j]
    <3>1. Window(full, G, off)
      BY <1>0
    <3>2. QED
      BY ONLY <3>1, WindowIs
  <2>2. QED
    BY <1>0, <2>1
<1>2. PICK P, a, c, r : P = Cfg.period /\ a = Since(1, n) /\ c = Since(2, n) /\ r = Rolling(H)
  OBVIOUS
<1>3. P \in Nat /\ P > 0 /\ n > 0 /\ n - off = Len(full)
  <2>1. P \in Nat /\ P > 0
    BY <1>2, Numbers
  <2>2. QED
    BY <1>0, <1>1, <2>1
<1>4. a \in Int /\ a >= 1 /\ a >= n - P + 1 /\ a \in {1, n - P + 1}
  <2>1. n \in Int /\ 1 \in Int
    BY <1>1
  <2>2. QED
    BY <1>2, <2>1, SinceIs
<1>5. c \in Int /\ c >= 2 /\ c >= n - P + 1 /\ c \in {2, n - P + 1}
  <2>1. n \in Int /\ 2 \in Int
    BY <1>1
  <2>2. QED
    BY <1>2, <2>1, SinceIs
<1>6. off = 0 \/ off + P + 3 <= n
  BY <1>0, <1>2
<1>7. ASSUME NEW j \in off + 2..n PROVE Rise(full, j - off) = Rise(G, j) /\ Fall(full, j - off) = Fall(G, j)
  <2>1. j \in off + 1..n /\ j - 1 \in off + 1..n /\ (j - 1) - off = j - off - 1
    BY <1>1
  <2>2. full[j - off] = G[j] /\ full[j - off - 1] = G[j - 1]
    BY <1>1, <2>1
  <2>3. QED
    BY <2>2 DEF Rise, Fall
<1>8. /\ r.vol + full[Len(full)].vol - (IF DropsVolume(n) THEN full[n - P - off].vol ELSE 0) = Rolling(G).vol
      /\ r.gain + (IF n > 1 THEN Rise(full, Len(full)) ELSE 0)
            - (IF DropsChange(n) THEN Rise(full, n - P - off) ELSE 0) = Rolling(G).gain
      /\ r.loss + (IF n > 1 THEN Fall(full, Len(full)) ELSE 0)
            - (IF DropsChange(n) THEN Fall(full, n - P - off) ELSE 0) = Rolling(G).loss
  <2>1. full[Len(full)] = G[n]
    <3>1. n \in off + 1..n
      BY <1>0, <1>1, <1>3
    <3>2. full[n - off] = G[n] /\ n - off = Len(full)
      BY <1>1, <1>3, <3>1
    <3>3. QED
      BY ONLY <3>2
  <2>2. n > 1 => Rise(full, Len(full)) = Rise(G, n) /\ Fall(full, Len(full)) = Fall(G, n)
    <3>1. n > 1 => n \in off + 2..n
      BY <1>1, <1>3, <1>6
    <3>2. QED
      BY <1>3, <1>7, <3>1
  <2>3. DropsVolume(n) <=> n - P >= 1
    BY <1>1, <1>2, <1>3 DEF DropsVolume
  <2>4. DropsChange(n) <=> n - P >= 2
    BY <1>1, <1>2, <1>3 DEF DropsChange
  <2>5. n - P >= 1 => full[n - P - off] = G[n - P]
    <3>1. n - P >= 1 => n - P \in off + 1..n
      BY <1>1, <1>3, <1>6
    <3>2. QED
      BY <1>1, <3>1
  <2>6. n - P >= 2 => Rise(full, n - P - off) = Rise(G, n - P) /\ Fall(full, n - P - off) = Fall(G, n - P)
    <3>1. n - P >= 2 => n - P \in off + 2..n
      BY <1>1, <1>3, <1>6
    <3>2. QED
      BY <1>7, <3>1
  <2>7. n >= 1 /\ (n > 1 <=> n >= 2)
    BY <1>1, <1>3
  <2>8. /\ Rolling(G).vol = r.vol + FromOn(n, 1, G[n].vol) - FromOn(n - P, 1, G[n - P].vol)
        /\ Rolling(G).gain = r.gain + FromOn(n, 2, Rise(G, n)) - FromOn(n - P, 2, Rise(G, n - P))
        /\ Rolling(G).loss = r.loss + FromOn(n, 2, Fall(G, n)) - FromOn(n - P, 2, Fall(G, n - P))
    <3>1. SumsGoOn(r, G, n, P)
      BY <1>0, <1>2, RollingGoesOn
    <3>2. QED
      BY <3>1 DEF SumsGoOn
  <2>9. FromOn(n, 1, G[n].vol) = full[Len(full)].vol
    BY <2>1, <2>7 DEF FromOn
  <2>10. FromOn(n - P, 1, G[n - P].vol) = IF DropsVolume(n) THEN full[n - P - off].vol ELSE 0
    BY <2>3, <2>5 DEF FromOn
  <2>11. /\ FromOn(n, 2, Rise(G, n)) = (IF n > 1 THEN Rise(full, Len(full)) ELSE 0)
         /\ FromOn(n, 2, Fall(G, n)) = (IF n > 1 THEN Fall(full, Len(full)) ELSE 0)
    BY <2>2, <2>7 DEF FromOn
  <2>12. /\ FromOn(n - P, 2, Rise(G, n - P)) = (IF DropsChange(n) THEN Rise(full, n - P - off) ELSE 0)
         /\ FromOn(n - P, 2, Fall(G, n - P)) = (IF DropsChange(n) THEN Fall(full, n - P - off) ELSE 0)
    BY <2>4, <2>6 DEF FromOn
  <2>13. QED
    BY <2>8, <2>9, <2>10, <2>11, <2>12
<1>9. PICK span, changes : span = a - off..Len(full) /\ changes = span \ {1 - off}
  OBVIOUS
<1>10. /\ Volume(full, span) = Rolling(G).vol /\ Rises(full, changes) = Rolling(G).gain
       /\ Falls(full, changes) = Rolling(G).loss
  <2>1. span = a - off..n - off
    BY <1>3, <1>9
  <2>2. changes = c - off..n - off
    <3>1. CASE off = 0
      BY <1>1, <1>3, <1>4, <1>5, <1>9, <2>1, <3>1
    <3>2. CASE off # 0
      <4>1. a = n - P + 1 /\ c = n - P + 1 /\ off + P + 3 <= n
        BY <1>1, <1>3, <1>4, <1>5, <1>6, <3>2
      <4>2. 1 - off \notin span
        BY <1>1, <1>3, <2>1, <3>2, <4>1
      <4>3. QED
        BY <1>9, <2>1, <4>1, <4>2
    <3>3. QED
      BY <3>1, <3>2
  <2>3. off < a /\ off < c /\ off + 1 < c
    BY <1>1, <1>3, <1>4, <1>5, <1>6
  <2>4. Reads(full, G, off, n)
    BY <1>0, WindowReads
  <2>5. n \in Int /\ n <= n
    BY <1>1
  <2>6. Volume(full, a - off..n - off) = Volume(G, a..n)
    BY <1>4, <2>3, <2>4, <2>5, SumsMoved
  <2>7. Rises(full, c - off..n - off) = Rises(G, c..n) /\ Falls(full, c - off..n - off) = Falls(G, c..n)
    BY <1>5, <2>3, <2>4, <2>5, SumsMoved
  <2>8. QED
    BY <1>0, <1>2, <2>1, <2>2, <2>6, <2>7 DEF Rolling
<1>11. PICK x, y, z : x = Rolling(G).vol /\ y = Rolling(G).gain /\ z = Rolling(G).loss
  OBVIOUS
<1>12. Rolled(r, full, off, n) = [vol |-> x, gain |-> y, loss |-> z, pvol |-> r.vol, pgain |-> r.gain, ploss |-> r.loss]
  <2>1. Max({1, n - P + 1}) = a
    BY <1>2 DEF Since
  <2>2. PICK u, v, w : /\ u = r.vol + full[Len(full)].vol - (IF DropsVolume(n) THEN full[n - P - off].vol ELSE 0)
                       /\ v = r.gain + (IF n > 1 THEN Rise(full, Len(full)) ELSE 0)
                                - (IF DropsChange(n) THEN Rise(full, n - P - off) ELSE 0)
                       /\ w = r.loss + (IF n > 1 THEN Fall(full, Len(full)) ELSE 0)
                                - (IF DropsChange(n) THEN Fall(full, n - P - off) ELSE 0)
    OBVIOUS
  <2>3. PICK new : new = IF (n - 1) % Rebase = 0
                         THEN [vol |-> Volume(full, span), gain |-> Rises(full, changes), loss |-> Falls(full, changes)]
                         ELSE [vol |-> u, gain |-> v, loss |-> w]
    OBVIOUS
  <2>4. Rolled(r, full, off, n) = [vol |-> new.vol, gain |-> new.gain, loss |-> new.loss,
                                   pvol |-> r.vol, pgain |-> r.gain, ploss |-> r.loss]
    BY <1>2, <1>9, <2>1, <2>2, <2>3 DEF Rolled
  <2>5. new.vol = x /\ new.gain = y /\ new.loss = z
    BY <1>8, <1>10, <1>11, <2>2, <2>3
  <2>6. QED
    BY <2>4, <2>5
<1>13. Rolling(G).pvol = r.vol /\ Rolling(G).pgain = r.gain /\ Rolling(G).ploss = r.loss
  <2>1. SumsGoOn(r, G, n, P)
    BY <1>0, <1>2, RollingGoesOn
  <2>2. QED
    BY <2>1 DEF SumsGoOn
<1>14. Rolling(G) = [vol |-> x, gain |-> y, loss |-> z, pvol |-> r.vol, pgain |-> r.gain, ploss |-> r.loss]
  BY <1>11, <1>13 DEF Rolling
<1>15. QED
  BY <1>2, <1>12, <1>14

\* The on-balance volumes of the window: their differences are sums of flows.
Tallied(o, H, off) ==
  /\ o \in Seq(Int) /\ off \in Nat /\ Len(H) = off + Len(o)
  /\ \A i \in 1..Len(o) : o[Len(o)] - o[i] = Flows(H, i + off + 1..Len(H))
LEMMA TallyGrows ==
  ASSUME NEW H \in Seq(Quote), NEW q \in Quote, NEW G, G = Append(H, q), NEW o, NEW off, Tallied(o, H, off),
         NEW v, v = (IF o = <<>> THEN 0 ELSE Last(o)) + (IF Len(G) > 1 THEN Flow(G, Len(G)) ELSE 0)
  PROVE  Tallied(Append(o, v), G, off)
<1>1. /\ Reads(H, G, 0, Len(H)) /\ G \in Seq(Quote) /\ Len(G) = Len(H) + 1 /\ Len(H) \in Nat
  BY LongerReads
<1>2. PICK n, m, k : n = Len(G) /\ m = Len(H) /\ k = Len(o)
  OBVIOUS
<1>3. /\ o \in Seq(Int) /\ off \in Nat /\ m = off + k /\ n = m + 1 /\ m \in Nat /\ k \in Nat /\ n \in Nat
      /\ \A i \in 1..k : o[k] - o[i] = Flows(H, i + off + 1..m)
  BY <1>1, <1>2 DEF Tallied
<1>4. PICK f : f = IF n > 1 THEN Flow(G, n) ELSE 0
  OBVIOUS
<1>5. f \in Int
  <2>1. n > 1 => n \in 2..Len(G)
    BY <1>2, <1>3
  <2>2. n > 1 => Flow(G, n) \in Int
    BY <1>1, <2>1, ChangesTyped
  <2>3. QED
    BY <1>4, <2>2
<1>6. k > 0 => o # <<>> /\ Last(o) = o[k]
  BY <1>2, <1>3 DEF Last
<1>7. v \in Int /\ (k > 0 => v = o[k] + f)
  <2>1. CASE k > 0
    <3>1. o[k] \in Int
      BY <1>2, <1>3, <2>1
    <3>2. v = o[k] + f
      BY <1>2, <1>4, <1>6, <2>1
    <3>3. QED
      BY <1>5, <3>1, <3>2
  <2>2. CASE ~(k > 0)
    <3>1. o = <<>>
      BY <1>2, <1>3, <2>2
    <3>2. v = 0 + f
      BY <1>2, <1>4, <3>1
    <3>3. QED
      BY <1>5, <2>2, <3>2
  <2>3. QED
    BY <2>1, <2>2
<1>8. PICK w : w = Append(o, v)
  OBVIOUS
<1>9. w \in Seq(Int) /\ Len(w) = k + 1 /\ w[k + 1] = v /\ \A i \in 1..k : w[i] = o[i]
  <2>1. /\ Append(o, v) \in Seq(Int) /\ Len(Append(o, v)) = Len(o) + 1 /\ Append(o, v)[Len(o) + 1] = v
        /\ \A i \in 1..Len(o) : Append(o, v)[i] = o[i]
    BY ONLY <1>3, <1>7, AppendProperties
  <2>2. QED
    BY <1>2, <1>8, <2>1
<1>10. ASSUME NEW i \in 1..k + 1 PROVE v - w[i] = Flows(G, i + off + 1..n)
  <2>1. CASE i = k + 1
    <3>1. i + off + 1..n = {}
      BY <1>3, <2>1
    <3>2. Flows(G, {}) = 0
      <4>1. [j \in {} |-> Flow(G, j)] \in [{} -> Int]
        OBVIOUS
      <4>2. QED
        BY <4>1, SumOfNone DEF Flows
    <3>3. v - w[i] = 0
      BY <1>7, <1>9, <2>1
    <3>4. QED
      BY <3>1, <3>2, <3>3
  <2>2. CASE i # k + 1
    <3>1. i \in 1..k /\ k > 0 /\ n > 1
      BY <1>3, <2>2
    <3>2. PICK a \in Int : a = i + off + 1
      BY <1>3
    <3>3. 2 <= a /\ 1 <= a /\ 0 < a /\ 0 + 1 < a /\ a <= n /\ a - 0 = a /\ m - 0 = m /\ m \in Int /\ n \in Int
      BY <1>3, <3>1, <3>2
    <3>4. Flows(H, a..m) = Flows(G, a..m)
      <4>1. m <= Len(H)
        BY <1>2, <1>3
      <4>2. Flows(H, a - 0..m - 0) = Flows(G, a..m)
        BY <1>1, <3>3, <4>1, SumsMoved
      <4>3. QED
        BY <3>3, <4>2
    <3>5. Flows(G, a..n) = Flows(G, a..n - 1) + Flow(G, n)
      <4>1. n <= Len(G)
        BY <1>2, <3>3
      <4>2. QED
        BY <1>1, <3>3, <4>1, SumsEnd
    <3>6. n - 1 = m /\ f = Flow(G, n)
      BY <1>3, <1>4, <3>1
    <3>7. o[k] - o[i] = Flows(G, a..m)
      BY <1>3, <3>1, <3>2, <3>4
    <3>8. PICK x \in Int, y \in Int : x = o[k] /\ y = o[i]
      <4>1. k \in 1..Len(o) /\ i \in 1..Len(o)
        BY <1>2, <1>3, <3>1
      <4>2. o[k] \in Int /\ o[i] \in Int
        BY <1>3, <4>1, ElementOfSeq
      <4>3. QED
        BY <4>2
    <3>9. v - w[i] = (x + f) - y /\ x - y = Flows(G, a..m)
      BY <1>7, <1>9, <3>1, <3>7, <3>8
    <3>10. Flows(G, a..n) = (x - y) + f
      BY <3>5, <3>6, <3>9
    <3>11. (x + f) - y = (x - y) + f
      BY <1>5
    <3>12. QED
      BY <3>2, <3>9, <3>10, <3>11
  <2>3. QED
    BY <2>1, <2>2
<1>11. n = off + Len(w) /\ w[Len(w)] = v /\ Len(w) = k + 1
  BY <1>3, <1>9
<1>12. QED
  BY <1>2, <1>3, <1>8, <1>9, <1>10, <1>11 DEF Tallied

LEMMA TallyTail ==
  ASSUME NEW H, NEW o, NEW off, Tallied(o, H, off), Len(o) > 0
  PROVE  Tallied(Tail(o), H, off + 1)
<1>1. PICK k, n : k = Len(o) /\ n = Len(H)
  OBVIOUS
<1>2. /\ o \in Seq(Int) /\ off \in Nat /\ n = off + k /\ k \in Nat /\ k > 0 /\ o # <<>>
      /\ \A i \in 1..k : o[k] - o[i] = Flows(H, i + off + 1..n)
  BY <1>1 DEF Tallied
<1>3. PICK w : w = Tail(o)
  OBVIOUS
<1>4. w \in Seq(Int) /\ Len(w) = k - 1 /\ \A i \in 1..k - 1 : w[i] = o[i + 1]
  BY <1>1, <1>2, <1>3, HeadTailProperties
<1>5. ASSUME NEW i \in 1..k - 1 PROVE w[k - 1] - w[i] = Flows(H, i + (off + 1) + 1..n)
  <2>1. k - 1 \in 1..k - 1 /\ (k - 1) + 1 = k /\ i + 1 \in 1..k /\ (i + 1) + off + 1 = i + (off + 1) + 1
    BY <1>2
  <2>2. w[k - 1] = o[k] /\ w[i] = o[i + 1]
    BY <1>4, <2>1
  <2>3. o[k] - o[i + 1] = Flows(H, (i + 1) + off + 1..n)
    BY <1>2, <2>1
  <2>4. QED
    BY <2>1, <2>2, <2>3
<1>6. off + 1 \in Nat /\ n = (off + 1) + (k - 1)
  BY <1>2
<1>7. QED
  BY <1>1, <1>3, <1>4, <1>5, <1>6 DEF Tallied

\* What the engine holds after the candles H.
Held(s, H) ==
  /\ s = [n |-> Len(H), off |-> s.off, hist |-> s.hist, lows |-> Lows(H, Confirmed(Len(H))),
          highs |-> Highs(H, Confirmed(Len(H))), roll |-> Rolling(H), obvs |-> s.obvs, pend |-> s.pend]
  /\ Window(s.hist, H, s.off) /\ Bounded(s.hist, s.off, Capacity) /\ Tallied(s.obvs, H, s.off)

LEMMA UpdateHolds ==
  ASSUME NEW H, NEW s, Held(s, H), NEW q \in Quote, NEW G, G = Append(H, q), NEW t, t = Update(s, q)
  PROVE  Held(t, G) /\ t.pend = s.pend /\ Len(t.hist) > 0 /\ Wide(Len(G), t.off)
<1>1. PICK h, off, o, d, n, A, B, m :
        /\ h = s.hist /\ off = s.off /\ o = s.obvs /\ d = s.pend /\ n = Len(G) /\ m = Len(H)
        /\ A = Lows(H, Confirmed(m)) /\ B = Highs(H, Confirmed(m))
  OBVIOUS
<1>2. s = [n |-> m, off |-> off, hist |-> h, lows |-> A, highs |-> B, roll |-> Rolling(H), obvs |-> o, pend |-> d]
  BY <1>1 DEF Held
<1>3. Window(h, H, off) /\ Bounded(h, off, Capacity) /\ Tallied(o, H, off)
  BY <1>1 DEF Held
<1>4. /\ h \in Seq(Quote) /\ H \in Seq(Quote) /\ Len(h) \in Nat /\ m \in Nat /\ off \in Nat /\ m = off + Len(h)
  BY <1>1, <1>3, WindowIs
<1>5. G \in Seq(Quote) /\ n = m + 1 /\ G[n] = q
  BY <1>1, <1>4, LongerReads
<1>6. PICK full, over : full = Append(h, q) /\ over = (Len(full) > Capacity)
  OBVIOUS
<1>7. PICK g, e : g = (IF over THEN Tail(full) ELSE full) /\ e = (IF over THEN off + 1 ELSE off)
  OBVIOUS
<1>8. /\ Capacity \in Nat /\ Capacity > 0 /\ Capacity >= Cfg.lookbackBars + Back /\ Capacity >= Cfg.period + 3
  <2>1. /\ Capacity \in Nat /\ Capacity >= Cfg.lookbackBars + Cfg.leftBars + Back + 3 /\ Capacity >= Cfg.period + 3
        /\ Cfg.lookbackBars \in Nat /\ Cfg.leftBars \in Nat /\ Back \in Nat /\ Cfg.period \in Nat
    BY Numbers
  <2>2. QED
    BY <2>1
<1>9. Window(g, G, e) /\ Bounded(g, e, Capacity) /\ Len(g) > 0
  <2>1. PICK size : size = Capacity
    OBVIOUS
  <2>2. Sliding(h, H, off, size, q, full, g, e)
    BY <1>3, <1>6, <1>7, <1>8, <2>1 DEF Sliding
  <2>3. Window(g, Append(H, q), e) /\ Bounded(g, e, size) /\ Len(g) > 0
    BY <2>2, WindowSlides
  <2>4. QED
    BY <2>1, <2>3
<1>10. Wide(n, e)
  BY <1>1, <1>8, <1>9, WideEnough
<1>11. Window(full, G, off) /\ Len(full) = Len(h) + 1 /\ full[Len(full)] = q /\ Len(full) > 0
  BY <1>3, <1>4, <1>6, WindowGrows
<1>12. off = 0 \/ off + Cfg.period + 3 <= n
  <2>1. off = 0 \/ Len(h) = Capacity
    BY <1>3 DEF Bounded
  <2>2. Cfg.period \in Nat
    BY Numbers
  <2>3. QED
    BY <1>4, <1>5, <1>8, <2>1, <2>2
<1>13. Rolled(Rolling(H), full, off, n) = Rolling(G)
  <2>1. Rolls(H, q, G, full, off, n)
    BY <1>1, <1>4, <1>11, <1>12 DEF Rolls
  <2>2. QED
    BY <2>1, RolledIs
<1>14. PICK v : v = (IF o = <<>> THEN 0 ELSE Last(o)) + (IF n > 1 THEN Flow(full, Len(full)) ELSE 0)
  OBVIOUS
<1>15. n > 1 => Flow(full, Len(full)) = Flow(G, n)
  <2>1. SUFFICES ASSUME n > 1 PROVE Flow(full, Len(full)) = Flow(G, n)
    OBVIOUS
  <2>2. Len(h) > 0
    <3>1. off = 0 \/ Len(h) = Capacity
      BY <1>3 DEF Bounded
    <3>2. QED
      BY <1>4, <1>5, <1>8, <2>1, <3>1
  <2>3. /\ n \in off + 1..Len(G) /\ n - 1 \in off + 1..Len(G) /\ n - off = Len(full)
        /\ (n - 1) - off = Len(full) - 1
    BY <1>1, <1>4, <1>5, <1>11, <2>2
  <2>4. full[n - off] = G[n] /\ full[(n - 1) - off] = G[n - 1]
    <3>1. \A j \in off + 1..Len(G) : full[j - off] = G[j]
      BY ONLY <1>11, WindowIs
    <3>2. QED
      BY <2>3, <3>1
  <2>5. QED
    BY <2>3, <2>4 DEF Flow
<1>16. Tallied(Append(o, v), G, off)
  <2>1. v = (IF o = <<>> THEN 0 ELSE Last(o)) + (IF Len(G) > 1 THEN Flow(G, Len(G)) ELSE 0)
    BY <1>1, <1>14, <1>15
  <2>2. QED
    BY <1>1, <1>3, <1>4, <2>1, TallyGrows
<1>17. PICK w : w = IF over THEN Tail(Append(o, v)) ELSE Append(o, v)
  OBVIOUS
<1>18. Tallied(w, G, e)
  <2>1. Len(Append(o, v)) > 0
    <3>1. n = off + Len(Append(o, v)) /\ Append(o, v) \in Seq(Int) /\ o \in Seq(Int) /\ m = off + Len(o)
      BY <1>1, <1>3, <1>16 DEF Tallied
    <3>2. QED
      BY <1>4, <1>5, <3>1
  <2>2. CASE over
    <3>1. Tallied(Tail(Append(o, v)), G, off + 1)
      BY <1>16, <2>1, TallyTail
    <3>2. QED
      BY <1>7, <1>17, <2>2, <3>1
  <2>3. CASE ~over
    BY <1>7, <1>16, <1>17, <2>3
  <2>4. QED
    BY <2>2, <2>3
<1>19. PICK C, D : /\ C = {i \in A \cup {j \in Newest(n, e) : LowPivot(g, j - e)} : i >= KeptFrom(n)}
                   /\ D = {i \in B \cup {j \in Newest(n, e) : HighPivot(g, j - e)} : i >= KeptFrom(n)}
  OBVIOUS
<1>20. C = Lows(G, Confirmed(n)) /\ D = Highs(G, Confirmed(n))
  <2>1. Confirms(H, q, G, g, e, n)
    BY <1>1, <1>4, <1>9, <1>10 DEF Confirms
  <2>2. /\ {i \in Lows(H, Confirmed(Len(H))) \cup {j \in Newest(n, e) : LowPivot(g, j - e)} : i >= KeptFrom(n)}
              = Lows(G, Confirmed(n))
        /\ {i \in Highs(H, Confirmed(Len(H))) \cup {j \in Newest(n, e) : HighPivot(g, j - e)} : i >= KeptFrom(n)}
              = Highs(G, Confirmed(n))
    BY <2>1, PivotsGo
  <2>3. QED
    BY <1>1, <1>19, <2>2
<1>21. t = [n |-> n, off |-> e, hist |-> g, lows |-> C, highs |-> D, roll |-> Rolling(G), obvs |-> w, pend |-> d]
  <2>1. /\ s.n + 1 = n /\ s.hist = h /\ s.off = off /\ s.obvs = o /\ s.lows = A /\ s.highs = B /\ s.roll = Rolling(H)
    BY <1>2, <1>5
  <2>7. PICK X, Y : /\ X = {i \in s.lows \cup {i \in Newest(s.n + 1, e) : LowPivot(g, i - e)} : i >= KeptFrom(s.n + 1)}
                    /\ Y = {i \in s.highs \cup {i \in Newest(s.n + 1, e) : HighPivot(g, i - e)} : i >= KeptFrom(s.n + 1)}
    OBVIOUS
  <2>8. X = C /\ Y = D
    BY <1>19, <2>1, <2>7
  <2>9. /\ full = Append(s.hist, q) /\ g = (IF Len(full) > Capacity THEN Tail(full) ELSE full)
        /\ e = (IF Len(full) > Capacity THEN s.off + 1 ELSE s.off)
        /\ v = (IF s.obvs = <<>> THEN 0 ELSE Last(s.obvs)) + (IF s.n + 1 > 1 THEN Flow(full, Len(full)) ELSE 0)
        /\ w = (IF Len(full) > Capacity THEN Tail(Append(s.obvs, v)) ELSE Append(s.obvs, v))
    BY <1>6, <1>7, <1>14, <1>17, <2>1
  <2>10. t = [s EXCEPT !.n = s.n + 1, !.off = e, !.hist = g, !.obvs = w, !.roll = Rolled(s.roll, full, s.off, s.n + 1),
                       !.lows = X, !.highs = Y]
    BY ONLY t = Update(s, q), <2>7, <2>9 DEF Update, Newest
  <2>2. t = [s EXCEPT !.n = n, !.off = e, !.hist = g, !.obvs = w, !.roll = Rolled(Rolling(H), full, off, n),
                      !.lows = C, !.highs = D]
    BY <2>1, <2>8, <2>10
  <2>3. t = [s EXCEPT !.n = n, !.off = e, !.hist = g, !.obvs = w, !.roll = Rolling(G), !.lows = C, !.highs = D]
    BY <1>13, <2>2
  <2>4. PICK r : r = Rolling(G)
    OBVIOUS
  <2>5. t = [n |-> n, off |-> e, hist |-> g, lows |-> C, highs |-> D, roll |-> r, obvs |-> w, pend |-> d]
    BY <1>2, <2>3, <2>4
  <2>6. QED
    BY <2>4, <2>5
<1>22. t.off = e /\ t.hist = g /\ t.obvs = w /\ t.pend = d
  BY <1>21
<1>23. Held(t, G)
  BY <1>1, <1>9, <1>18, <1>20, <1>21, <1>22 DEF Held
<1>24. QED
  BY <1>1, <1>9, <1>10, <1>22, <1>23

LEMMA MovedTwice ==
  ASSUME NEW imp, Ranged(imp), NEW d \in Int, NEW e \in Int
  PROVE  Moved(Moved(imp, d), e) = Moved(imp, d + e)
<1>1. CASE imp = NoImpulse
  BY <1>1 DEF Moved
<1>2. CASE imp # NoImpulse
  <2>1. PICK x, y : x = Moved(imp, d) /\ y = Moved(imp, d + e)
    OBVIOUS
  <2>2. imp \in Imp /\ imp.lo \in Int /\ imp.hi \in Int
    BY <1>2 DEF Ranged, Imp
  <2>3. /\ x # NoImpulse /\ x.lo = imp.lo - d /\ x.hi = imp.hi - d /\ x.low = imp.low /\ x.high = imp.high
        /\ x.vol = imp.vol /\ x \in Imp /\ Ranged(x)
    BY <1>2, <2>1, MovedIs
  <2>4. PICK f \in Int : f = d + e
    OBVIOUS
  <2>5. /\ y.lo = imp.lo - f /\ y.hi = imp.hi - f /\ y.low = imp.low /\ y.high = imp.high /\ y.vol = imp.vol /\ y \in Imp
    BY <1>2, <2>1, <2>4, MovedIs
  <2>6. PICK z : z = Moved(x, e)
    OBVIOUS
  <2>7. /\ z.lo = x.lo - e /\ z.hi = x.hi - e /\ z.low = x.low /\ z.high = x.high /\ z.vol = x.vol /\ z \in Imp
    BY <2>3, <2>6, MovedIs
  <2>8. z.lo = y.lo /\ z.hi = y.hi
    <3>1. z.lo = (imp.lo - d) - e /\ y.lo = imp.lo - (d + e) /\ z.hi = (imp.hi - d) - e /\ y.hi = imp.hi - (d + e)
      BY <2>3, <2>4, <2>5, <2>7
    <3>2. (imp.lo - d) - e = imp.lo - (d + e) /\ (imp.hi - d) - e = imp.hi - (d + e)
      BY <2>2
    <3>3. QED
      BY <3>1, <3>2
  <2>9. z = y
    BY <2>3, <2>5, <2>7, <2>8 DEF Imp
  <2>10. QED
    BY <2>1, <2>6, <2>9
<1>3. QED
  BY <1>1, <1>2

\* The candidate of the engine, under both rules.
LEMMA ImpulseOfIs ==
  ASSUME NEW t, NEW G, Held(t, G), Len(t.hist) > 0, Wide(Len(G), t.off), Ranged(t.pend)
  PROVE  ImpulseOf(t) = IF rule = "pullback" THEN AdvanceAlone(G, t.pend) ELSE DetectImpulse(G)
<1>1. PICK h, off, A, B, d : /\ h = t.hist /\ off = t.off /\ d = t.pend
                             /\ A = Lows(G, Confirmed(Len(G))) /\ B = Highs(G, Confirmed(Len(G)))
  OBVIOUS
<1>2. Window(h, G, off) /\ t.n = Len(G) /\ t.lows = A /\ t.highs = B
  BY <1>1 DEF Held
<1>3. CASE rule = "pullback"
  <2>1. Len(h) # 0 /\ Wide(Len(G), off) /\ Ranged(d)
    BY <1>1
  <2>2. Advance(h, off, d, A, B) = AdvanceAlone(G, d)
    BY <1>1, <1>2, <2>1, EngineAdvance
  <2>3. QED
    BY <1>1, <1>2, <1>3, <2>2 DEF ImpulseOf
<1>4. CASE rule # "pullback"
  <2>1. Wide(Len(G), off)
    BY <1>1
  <2>2. (IF Len(G) < Cfg.leftBars + Cfg.rightBars + 2 THEN NoImpulse
         ELSE Latest(h, off, {p \in Ordered(A, B) : Enough(h, off, p)})) = DetectImpulse(G)
    BY <1>1, <1>2, <2>1, EngineDetect
  <2>3. PICK S : S = {p \in Ordered(t.lows, t.highs) :
            /\ Gains(t.hist[p[1] - t.off].low, t.hist[p[2] - t.off].high)
            /\ Expands(t.hist, t.off, p[1], p[2], Max({1, p[1] - Back}))}
    OBVIOUS
  <2>4. S = {p \in Ordered(A, B) : Enough(h, off, p)}
    BY <1>1, <1>2, <2>3 DEF Enough
  <2>5. ImpulseOf(t) = IF t.n < Cfg.leftBars + Cfg.rightBars + 2 THEN NoImpulse ELSE Latest(t.hist, t.off, S)
    BY <1>4, <2>3 DEF ImpulseOf
  <2>6. ImpulseOf(t) = DetectImpulse(G)
    BY <1>1, <1>2, <2>2, <2>4, <2>5
  <2>7. QED
    BY <1>4, <2>6
<1>5. QED
  BY <1>3, <1>4

\* What the full history selects next.
NextRef(G, imp) == IF rule = "pullback" THEN AdvanceAlone(G, imp) ELSE DetectImpulse(G)
NextPool(s, q) == LET t == Update(s, q) IN [t EXCEPT !.pend = ImpulseOf(t)]
LEMMA EngineStep ==
  ASSUME NEW H, NEW s, Held(s, H), Ranged(s.pend), NEW q \in Quote, NEW G, G = Append(H, q)
  PROVE  Held(NextPool(s, q), G) /\ NextPool(s, q).pend = NextRef(G, s.pend)
<1>0. PICK t, u : t = Update(s, q) /\ u = [t EXCEPT !.pend = ImpulseOf(t)]
  OBVIOUS
<1>1. Held(t, G) /\ t.pend = s.pend /\ Len(t.hist) > 0 /\ Wide(Len(G), t.off)
  BY <1>0, UpdateHolds
<1>2. ImpulseOf(t) = NextRef(G, s.pend)
  <2>1. Ranged(t.pend)
    BY <1>1
  <2>2. ImpulseOf(t) = IF rule = "pullback" THEN AdvanceAlone(G, t.pend) ELSE DetectImpulse(G)
    BY <1>1, <2>1, ImpulseOfIs
  <2>3. QED
    BY <1>1, <2>2 DEF NextRef
<1>3. PICK i, A, B, R, n, off, h, o : /\ i = ImpulseOf(t) /\ A = Lows(G, Confirmed(Len(G))) /\ R = Rolling(G)
                                     /\ B = Highs(G, Confirmed(Len(G))) /\ n = Len(G)
                                     /\ off = t.off /\ h = t.hist /\ o = t.obvs
  OBVIOUS
<1>4. t = [n |-> n, off |-> off, hist |-> h, lows |-> A, highs |-> B, roll |-> R, obvs |-> o, pend |-> t.pend]
  BY <1>1, <1>3 DEF Held
<1>5. u = [n |-> n, off |-> off, hist |-> h, lows |-> A, highs |-> B, roll |-> R, obvs |-> o, pend |-> i]
  <2>1. u = [t EXCEPT !.pend = i]
    BY <1>0, <1>3
  <2>2. QED
    BY ONLY <1>4, <2>1
<1>6. u.off = off /\ u.hist = h /\ u.obvs = o /\ u.pend = i
  BY <1>5
<1>7. Window(h, G, off) /\ Bounded(h, off, Capacity) /\ Tallied(o, G, off)
  BY <1>1, <1>3 DEF Held
<1>8. Held(u, G)
  BY <1>3, <1>5, <1>6, <1>7 DEF Held
<1>9. NextPool(s, q) = u
  BY <1>0 DEF NextPool
<1>10. QED
  BY <1>2, <1>3, <1>6, <1>8, <1>9

\* What the live evaluator holds: the same candidate, if its window is long enough.
Follows(s, H, imp) ==
  LET off == Len(H) - Len(s.hist)
  IN /\ Window(s.hist, H, off) /\ Bounded(s.hist, off, MaxWindow)
     /\ rule = "pullback" /\ MaxWindow >= Cfg.lookbackBars + Back => s.pend = Moved(imp, off)
LEMMA LiveStep ==
  ASSUME NEW H, NEW s, NEW imp, Ranged(imp), Follows(s, H, imp), NEW q \in Quote, NEW G, G = Append(H, q)
  PROVE  Follows(Slide(s, q), G, NextRef(G, imp))
<1>1. PICK h, off : h = s.hist /\ off = Len(H) - Len(s.hist)
  OBVIOUS
<1>2. /\ Window(h, H, off) /\ Bounded(h, off, MaxWindow)
      /\ rule = "pullback" /\ MaxWindow >= Cfg.lookbackBars + Back => s.pend = Moved(imp, off)
  BY <1>1 DEF Follows
<1>3. PICK size, full : size = MaxWindow /\ full = Append(h, q)
  OBVIOUS
<1>4. PICK g, e : g = (IF Len(full) > size THEN Tail(full) ELSE full) /\ e = (IF Len(full) > size THEN off + 1 ELSE off)
  OBVIOUS
<1>5. size \in Nat /\ size > 0
  <2>1. size \in Nat /\ size >= 8
    BY <1>3, Numbers
  <2>2. QED
    BY <2>1
<1>6. Window(g, G, e) /\ Bounded(g, e, size) /\ Len(g) > 0
  <2>1. Sliding(h, H, off, size, q, full, g, e)
    BY <1>2, <1>3, <1>4, <1>5 DEF Sliding
  <2>2. QED
    BY <2>1, WindowSlides
<1>7. Len(g) \in Nat /\ Len(G) \in Nat /\ e \in Nat /\ Len(G) = e + Len(g)
  BY <1>6, WindowIs
<1>8. Len(G) - Len(g) = e
  BY <1>7
<1>9. PICK x : x = IF Len(full) > size THEN Moved(s.pend, 1) ELSE s.pend
  OBVIOUS
<1>10. PICK t : t = Slide(s, q)
  OBVIOUS
<1>11. t.hist = g /\ t.pend = AdvanceAlone(g, x)
  BY <1>1, <1>3, <1>4, <1>9, <1>10 DEF Slide
<1>12. ASSUME rule = "pullback", MaxWindow >= Cfg.lookbackBars + Back
       PROVE  t.pend = Moved(NextRef(G, imp), e)
  <2>1. s.pend = Moved(imp, off) /\ off \in Nat /\ off \in Int /\ 1 \in Int
    BY <1>2, <1>12, WindowIs
  <2>2. x = Moved(imp, e)
    <3>1. Moved(Moved(imp, off), 1) = Moved(imp, off + 1)
      BY <2>1, MovedTwice
    <3>2. QED
      BY <1>4, <1>9, <2>1, <3>1
  <2>3. Wide(Len(G), e)
    BY <1>3, <1>5, <1>6, <1>12, WideEnough
  <2>4. Len(g) # 0
    BY <1>6
  <2>5. AdvanceAlone(g, Moved(imp, e)) = Moved(AdvanceAlone(G, imp), e)
    <3>1. Window(g, G, e) /\ Ranged(imp)
      BY <1>6
    <3>2. QED
      BY ONLY <2>3, <2>4, <3>1, LiveAdvance
  <2>6. QED
    BY <1>11, <1>12, <2>2, <2>5 DEF NextRef
<1>13. QED
  BY <1>3, <1>6, <1>8, <1>10, <1>11, <1>12 DEF Follows

\* Counts of candles.
LEMMA StretchCount ==
  ASSUME NEW a \in Int, NEW b \in Int
  PROVE  /\ a..b # {} <=> a <= b
         /\ Cardinality(a..b) = IF a <= b THEN b - a + 1 ELSE 0
<1>1. a..b # {} <=> a <= b
  <2>1. a <= b => a \in a..b
    OBVIOUS
  <2>2. QED
    BY <2>1
<1>2. Cardinality(a..b) = IF a > b THEN 0 ELSE b - a + 1
  BY FS_Interval
<1>3. QED
  BY <1>1, <1>2

\* What the window and the sums of the engine say of the candles H, and of a candidate among them.
Read(s, H, imp, h, off, n, m) ==
  /\ Held(s, H) /\ H # <<>> /\ Pending(imp, H) /\ h = s.hist /\ off = s.off /\ n = Len(H) /\ m = Len(h)
LEMMA ReadIs ==
  ASSUME NEW s, NEW H, NEW imp, NEW h, NEW off, NEW n, NEW m, Read(s, H, imp, h, off, n, m)
  PROVE  /\ h \in Seq(Quote) /\ H \in Seq(Quote) /\ n \in Nat /\ m \in Nat /\ off \in Nat /\ n = off + m /\ m > 0
         /\ h[m] = H[n] /\ H[n] \in Quote /\ Reads(h, H, off, n) /\ (off = 0 \/ m = Capacity)
         /\ imp # NoImpulse => /\ imp \in Imp /\ off < imp.lo /\ imp.lo < imp.hi /\ imp.hi + Cfg.rightBars <= n
                               /\ imp.hi \in Int /\ imp.lo \in Int /\ imp.lo > 0
         /\ Ranged(imp)
<1>1. /\ Held(s, H) /\ H # <<>> /\ Pending(imp, H) /\ h = s.hist /\ off = s.off /\ n = Len(H) /\ m = Len(h)
  BY DEF Read
<1>2. Window(h, H, off) /\ Bounded(h, off, Capacity)
  BY <1>1 DEF Held
<1>3. /\ h \in Seq(Quote) /\ H \in Seq(Quote) /\ Len(h) \in Nat /\ Len(H) \in Nat /\ off \in Nat
      /\ Len(H) = off + Len(h) /\ \A j \in off + 1..Len(H) : h[j - off] = H[j]
  BY <1>2, WindowIs
<1>4. n > 0
  BY <1>1, <1>3
<1>5. off = 0 \/ m = Capacity
  BY <1>1, <1>2 DEF Bounded
<1>6. Capacity \in Nat /\ Capacity > 0 /\ Capacity >= Cfg.lookbackBars + Back
  <2>1. /\ Capacity \in Nat /\ Capacity >= Cfg.lookbackBars + Cfg.leftBars + Back + 3
        /\ Cfg.lookbackBars \in Nat /\ Cfg.leftBars \in Nat /\ Back \in Nat
    BY Numbers
  <2>2. QED
    BY <2>1
<1>7. m > 0
  BY <1>1, <1>3, <1>4, <1>5, <1>6
<1>8. h[m] = H[n]
  <2>1. n \in off + 1..Len(H) /\ n - off = m
    BY <1>1, <1>3, <1>7
  <2>2. h[n - off] = H[n]
    BY <1>3, <2>1
  <2>3. QED
    BY <2>1, <2>2
<1>9. H[n] \in Quote
  <2>1. n \in 1..Len(H)
    BY <1>1, <1>3, <1>4
  <2>2. QED
    BY <1>3, <2>1, ElementOfSeq
<1>10. Reads(h, H, off, n)
  BY <1>1, <1>2, WindowReads
<1>11. ASSUME imp # NoImpulse
       PROVE  /\ imp \in Imp /\ off < imp.lo /\ imp.lo < imp.hi /\ imp.hi + Cfg.rightBars <= n
              /\ imp.hi \in Int /\ imp.lo \in Int /\ imp.lo > 0
  <2>1. imp \in Imp /\ KeptFrom(n) <= imp.lo /\ imp.lo < imp.hi /\ imp.hi + Cfg.rightBars <= n
    BY <1>1, <1>11 DEF Pending, Found
  <2>2. Wide(n, off)
    BY <1>1, <1>2, <1>6, WideEnough
  <2>3. n \in Nat /\ off \in {0, off} /\ n \in Int
    BY <1>1, <1>3
  <2>4. off < KeptFrom(n)
    BY <1>3, <2>2, <2>3, FirstMoved
  <2>5. KeptFrom(n) \in Nat
    BY <2>3, Numbers
  <2>6. imp.hi \in Int /\ imp.lo \in Int
    BY <2>1 DEF Imp
  <2>7. QED
    BY <1>3, <2>1, <2>4, <2>5, <2>6
<1>12. Ranged(imp)
  BY <1>1, PendingRanged
<1>13. QED
  BY <1>1, <1>3, <1>5, <1>7, <1>8, <1>9, <1>10, <1>11, <1>12

\* The conditions on the last candle and the candidate, read in the window.
LEMMA DepthAgrees ==
  ASSUME NEW s, NEW H, NEW imp, NEW h, NEW off, NEW n, NEW m, Read(s, H, imp, h, off, n, m),
         NEW c, c \in {"fib_retracement", "percent_retracement", "break_fib_invalidation", "break_swing_low_invalidation"}
  PROVE  InGroup(c, s, imp) = Evaluate(c, H, imp)
<1>1. /\ n \in Nat /\ m \in Nat /\ off \in Nat /\ n = off + m /\ h[m] = H[n]
      /\ imp # NoImpulse => imp.hi \in Int
      /\ Ranged(imp)
  BY ReadIs
<1>2. h = s.hist /\ off = s.off /\ n = Len(H) /\ m = Len(h)
  BY DEF Read
<1>3. PICK moved : moved = Moved(imp, off)
  OBVIOUS
<1>4. /\ moved = NoImpulse <=> imp = NoImpulse
      /\ imp # NoImpulse => moved.hi = imp.hi - off /\ moved.low = imp.low /\ moved.high = imp.high
  <2>1. off \in Int
    BY <1>1
  <2>2. QED
    BY <1>1, <1>3, <2>1, MovedIs
<1>5. InGroup(c, s, imp) = Evaluate(c, h, moved)
  BY <1>2, <1>3 DEF InGroup
<1>6. CASE c = "fib_retracement"
  <2>1. imp # NoImpulse => (m >= imp.hi - off + Cfg.rightBars <=> n >= imp.hi + Cfg.rightBars)
    <3>1. Cfg.rightBars \in Nat
      BY Numbers
    <3>2. QED
      BY <1>1, <3>1
  <2>2. Evaluate(c, h, moved) = (/\ imp # NoImpulse /\ m >= imp.hi - off + Cfg.rightBars
                                 /\ Cfg.zoneLow * (imp.high - imp.low) <= 100 * (imp.high - H[n].close)
                                 /\ 100 * (imp.high - H[n].close) <= Cfg.zoneHigh * (imp.high - imp.low))
    BY <1>1, <1>2, <1>4, <1>6 DEF Evaluate
  <2>3. Evaluate(c, H, imp) = (/\ imp # NoImpulse /\ n >= imp.hi + Cfg.rightBars
                               /\ Cfg.zoneLow * (imp.high - imp.low) <= 100 * (imp.high - H[n].close)
                               /\ 100 * (imp.high - H[n].close) <= Cfg.zoneHigh * (imp.high - imp.low))
    BY <1>2, <1>6 DEF Evaluate
  <2>4. QED
    BY <1>5, <2>1, <2>2, <2>3
<1>7. CASE c = "percent_retracement"
  <2>1. Evaluate(c, h, moved) = (/\ imp # NoImpulse
                                 /\ Cfg.minPercent * imp.high <= 100 * (imp.high - H[n].close)
                                 /\ 100 * (imp.high - H[n].close) <= Cfg.maxPercent * imp.high)
    BY <1>1, <1>2, <1>4, <1>7 DEF Evaluate
  <2>2. Evaluate(c, H, imp) = (/\ imp # NoImpulse
                               /\ Cfg.minPercent * imp.high <= 100 * (imp.high - H[n].close)
                               /\ 100 * (imp.high - H[n].close) <= Cfg.maxPercent * imp.high)
    BY <1>2, <1>7 DEF Evaluate
  <2>3. QED
    BY <1>5, <2>1, <2>2
<1>8. CASE c = "break_fib_invalidation"
  <2>1. Evaluate(c, h, moved) = (/\ imp # NoImpulse /\ 100 * (imp.high - H[n].close) > Cfg.ratio * (imp.high - imp.low))
    BY <1>1, <1>2, <1>4, <1>8 DEF Evaluate
  <2>2. Evaluate(c, H, imp) = (/\ imp # NoImpulse /\ 100 * (imp.high - H[n].close) > Cfg.ratio * (imp.high - imp.low))
    BY <1>2, <1>8 DEF Evaluate
  <2>3. QED
    BY <1>5, <2>1, <2>2
<1>9. CASE c = "break_swing_low_invalidation"
  <2>1. Evaluate(c, h, moved) = (imp # NoImpulse /\ H[n].close < imp.low)
    BY <1>1, <1>2, <1>4, <1>9 DEF Evaluate
  <2>2. Evaluate(c, H, imp) = (imp # NoImpulse /\ H[n].close < imp.low)
    BY <1>2, <1>9 DEF Evaluate
  <2>3. QED
    BY <1>5, <2>1, <2>2
<1>10. QED
  BY <1>6, <1>7, <1>8, <1>9

\* The relative strength, from the running gains and losses.
LEMMA StrengthAgrees ==
  ASSUME NEW s, NEW H, NEW imp, NEW h, NEW off, NEW n, NEW m, Read(s, H, imp, h, off, n, m)
  PROVE  InGroup("rsi_recovery", s, imp) = Evaluate("rsi_recovery", H, imp)
<1>1. n \in Nat
  BY ReadIs
<1>2. n = Len(H) /\ s.n = n /\ s.roll = Rolling(H)
  BY DEF Read, Held
<1>3. PICK P, r : P = Cfg.period /\ r = Rolling(H)
  OBVIOUS
<1>4. P \in Nat /\ P > 0
  BY <1>3, Numbers
<1>5. ASSUME n > P + 1 PROVE Since(2, n) = n - P + 1 /\ Since(2, n - 1) = n - P
  <2>1. n \in Int /\ n - 1 \in Int /\ 2 \in Int /\ (n - 1) - P + 1 = n - P
    BY <1>1, <1>4
  <2>2. Since(2, n) >= n - P + 1 /\ Since(2, n) \in {2, n - P + 1} /\ Since(2, n) >= 2
    BY <1>3, <2>1, SinceIs
  <2>3. Since(2, n - 1) >= (n - 1) - P + 1 /\ Since(2, n - 1) \in {2, (n - 1) - P + 1} /\ Since(2, n - 1) >= 2
    BY <1>3, <2>1, SinceIs
  <2>4. QED
    BY <1>1, <1>4, <1>5, <2>1, <2>2, <2>3
<1>6. ASSUME n > P + 1
      PROVE  /\ r.pgain = Rises(H, n - P..n - 1) /\ r.ploss = Falls(H, n - P..n - 1)
             /\ r.gain = Rises(H, n - P + 1..n) /\ r.loss = Falls(H, n - P + 1..n)
  BY <1>2, <1>3, <1>5, <1>6 DEF Rolling
<1>7. n > P + 1 <=> n - 1 > P
  BY <1>1, <1>4
<1>8. InGroup("rsi_recovery", s, imp) = (n > P + 1 /\ Recovers(r.pgain, r.ploss, r.gain, r.loss))
  BY <1>2, <1>3 DEF InGroup
<1>9. Evaluate("rsi_recovery", H, imp) =
        (n - 1 > P /\ Recovers(Rises(H, n - P..n - 1), Falls(H, n - P..n - 1), Rises(H, n - P + 1..n), Falls(H, n - P + 1..n)))
  BY <1>2, <1>3 DEF Evaluate
<1>10. CASE n > P + 1
  BY <1>6, <1>7, <1>8, <1>9, <1>10
<1>11. CASE ~(n > P + 1)
  BY <1>7, <1>8, <1>9, <1>11
<1>12. QED
  BY <1>10, <1>11

\* The volume of the last candle against the mean before it.
LEMMA ConfirmationAgrees ==
  ASSUME NEW s, NEW H, NEW imp, NEW h, NEW off, NEW n, NEW m, Read(s, H, imp, h, off, n, m),
         NEW c, c \in {"bullish_volume_confirmation", "bearish_volume_invalidation"}
  PROVE  InGroup(c, s, imp) = Evaluate(c, H, imp)
<1>1. n \in Nat /\ m \in Nat /\ n = off + m /\ off \in Nat /\ m > 0 /\ h[m] = H[n]
  BY ReadIs
<1>2. n = Len(H) /\ s.n = n /\ s.roll = Rolling(H) /\ h = s.hist /\ m = Len(h)
  BY DEF Read, Held
<1>3. PICK P, a, k : P = Cfg.period /\ a = Max({1, n - P}) /\ k = Min({P, n - 1})
  OBVIOUS
<1>4. P \in Nat /\ P > 0
  BY <1>3, Numbers
<1>5. a \in {1, n - P} /\ a >= 1 /\ a >= n - P /\ k \in {P, n - 1} /\ k <= P /\ k <= n - 1
  <2>1. 1 \in Int /\ n - P \in Int /\ P \in Int /\ n - 1 \in Int
    BY <1>1, <1>4
  <2>2. QED
    BY <1>3, <2>1, BiggerOf
<1>6. a \in Int /\ n - 1 \in Int
  BY <1>1, <1>4, <1>5
<1>7. (a..n - 1 # {} <=> n > 1) /\ (n > 1 => Cardinality(a..n - 1) = k)
  <2>1. (a..n - 1 # {} <=> a <= n - 1) /\ Cardinality(a..n - 1) = IF a <= n - 1 THEN (n - 1) - a + 1 ELSE 0
    BY <1>6, StretchCount
  <2>2. a <= n - 1 <=> n > 1
    BY <1>1, <1>4, <1>5, <1>6
  <2>3. n > 1 => (n - 1) - a + 1 = k
    BY <1>1, <1>4, <1>5, <1>6
  <2>4. QED
    BY <2>1, <2>2, <2>3
<1>8. Rolling(H).pvol = Volume(H, a..n - 1)
  <2>1. (n - 1) - P + 1 = n - P
    BY <1>1, <1>4
  <2>2. Since(1, n - 1) = a
    BY <1>3, <2>1 DEF Since
  <2>3. QED
    BY <1>2, <2>2 DEF Rolling
<1>9. InGroup(c, s, imp) = (n > 1 /\ Bodies(c, H[n]) /\ 100 * H[n].vol * k >= Cfg.minRatio * Volume(H, a..n - 1))
  BY <1>1, <1>2, <1>3, <1>8 DEF InGroup
<1>10. Evaluate(c, H, imp) = (/\ Bodies(c, H[n]) /\ a..n - 1 # {}
                              /\ 100 * H[n].vol * Cardinality(a..n - 1) >= Cfg.minRatio * Volume(H, a..n - 1))
  BY <1>2, <1>3 DEF Evaluate
<1>11. CASE n > 1
  <2>1. PICK w : w = Cardinality(a..n - 1)
    OBVIOUS
  <2>2. w = k /\ a..n - 1 # {}
    BY <1>7, <1>11, <2>1
  <2>3. Evaluate(c, H, imp) = (/\ Bodies(c, H[n]) /\ a..n - 1 # {}
                              /\ 100 * H[n].vol * w >= Cfg.minRatio * Volume(H, a..n - 1))
    BY ONLY <1>10, <2>1
  <2>4. Evaluate(c, H, imp) = (Bodies(c, H[n]) /\ 100 * H[n].vol * k >= Cfg.minRatio * Volume(H, a..n - 1))
    BY ONLY <2>2, <2>3
  <2>5. InGroup(c, s, imp) = (Bodies(c, H[n]) /\ 100 * H[n].vol * k >= Cfg.minRatio * Volume(H, a..n - 1))
    BY ONLY <1>9, <1>11
  <2>6. QED
    BY ONLY <2>4, <2>5
<1>12. CASE ~(n > 1)
  BY <1>7, <1>9, <1>10, <1>12
<1>13. QED
  BY <1>11, <1>12

\* The on-balance volume: the difference of two running values is the sum of the flows.
LEMMA BalanceAgrees ==
  ASSUME NEW s, NEW H, NEW imp, NEW h, NEW off, NEW n, NEW m, Read(s, H, imp, h, off, n, m)
  PROVE  InGroup("obv_confirmation", s, imp) = Evaluate("obv_confirmation", H, imp)
<1>1. /\ n \in Nat /\ m \in Nat /\ n = off + m /\ off \in Nat /\ m > 0 /\ Reads(h, H, off, n)
      /\ off = 0 \/ m = Capacity
  BY ReadIs
<1>2. n = Len(H) /\ s.n = n /\ h = s.hist /\ m = Len(h) /\ off = s.off /\ Tallied(s.obvs, H, off)
  BY DEF Read, Held
<1>3. PICK L, o : L = Cfg.obvBars /\ o = s.obvs
  OBVIOUS
<1>4. L \in Nat /\ Capacity \in Nat /\ Capacity >= L + 3
  BY <1>3, Numbers
<1>5. Len(o) = m /\ \A i \in 1..m : o[m] - o[i] = Flows(H, i + off + 1..n)
  <2>1. o \in Seq(Int) /\ n = off + Len(o) /\ \A i \in 1..Len(o) : o[Len(o)] - o[i] = Flows(H, i + off + 1..n)
    BY <1>2, <1>3 DEF Tallied
  <2>2. Len(o) = m
    BY <1>1, <2>1
  <2>3. QED
    BY <2>1, <2>2
<1>6. ASSUME n > L PROVE o[m] - o[m - L] = Flows(H, n - L + 1..n)
  <2>1. m - L \in 1..m /\ (m - L) + off + 1 = n - L + 1
    BY <1>1, <1>4, <1>6
  <2>2. QED
    BY <1>5, <2>1
<1>7. ASSUME n > L PROVE Volume(h, m - L + 1..m) = Volume(H, n - L + 1..n)
  <2>1. n - L + 1 \in Int /\ n \in Int /\ off < n - L + 1 /\ n <= n
    BY <1>1, <1>4, <1>7
  <2>2. Volume(h, (n - L + 1) - off..n - off) = Volume(H, n - L + 1..n)
    <3>1. PICK a : a = n - L + 1
      OBVIOUS
    <3>2. a \in Int /\ off < a
      BY <2>1, <3>1
    <3>3. Volume(h, a - off..n - off) = Volume(H, a..n)
      BY ONLY <1>1, <2>1, <3>2, SumsMoved
    <3>4. QED
      BY <3>1, <3>3
  <2>3. (n - L + 1) - off = m - L + 1 /\ n - off = m
    BY <1>1, <1>4
  <2>4. QED
    BY <2>2, <2>3
<1>8. InGroup("obv_confirmation", s, imp) =
        (/\ n > L /\ Volume(h, m - L + 1..m) > 0
         /\ 100 * (o[m] - o[m - L]) >= Cfg.minChangePercent * Volume(h, m - L + 1..m))
  BY <1>2, <1>3, <1>5 DEF InGroup
<1>9. Evaluate("obv_confirmation", H, imp) =
        (/\ n > L /\ Volume(H, n - L + 1..n) > 0
         /\ 100 * Flows(H, n - L + 1..n) >= Cfg.minChangePercent * Volume(H, n - L + 1..n))
  BY <1>2, <1>3 DEF Evaluate
<1>10. CASE n > L
  <2>1. PICK x, y : x = o[m] - o[m - L] /\ y = Volume(h, m - L + 1..m)
    OBVIOUS
  <2>2. x = Flows(H, n - L + 1..n) /\ y = Volume(H, n - L + 1..n)
    BY <1>6, <1>7, <1>10, <2>1
  <2>3. InGroup("obv_confirmation", s, imp) = (n > L /\ y > 0 /\ 100 * x >= Cfg.minChangePercent * y)
    BY ONLY <1>8, <2>1
  <2>4. Evaluate("obv_confirmation", H, imp) = (n > L /\ y > 0 /\ 100 * x >= Cfg.minChangePercent * y)
    BY ONLY <1>9, <2>2
  <2>5. QED
    BY ONLY <2>3, <2>4
<1>11. CASE ~(n > L)
  BY <1>8, <1>9, <1>11
<1>12. QED
  BY <1>10, <1>11

\* The volume of the pull-back: from the running sum once the period is past the high.
LEMMA ContractionAgrees ==
  ASSUME NEW s, NEW H, NEW imp, NEW h, NEW off, NEW n, NEW m, Read(s, H, imp, h, off, n, m)
  PROVE  InGroup("volume_contraction", s, imp) = Evaluate("volume_contraction", H, imp)
<1>1. /\ n \in Nat /\ m \in Nat /\ n = off + m /\ off \in Nat /\ m > 0 /\ Reads(h, H, off, n) /\ Ranged(imp)
      /\ imp # NoImpulse => /\ imp.hi \in Int /\ imp.lo \in Int /\ off < imp.lo /\ imp.lo < imp.hi
                            /\ imp.hi + Cfg.rightBars <= n
  BY ReadIs
<1>2. n = Len(H) /\ s.n = n /\ s.roll = Rolling(H) /\ h = s.hist /\ m = Len(h) /\ off = s.off
  BY DEF Read, Held
<1>3. PICK P, moved : P = Cfg.period /\ moved = Moved(imp, off)
  OBVIOUS
<1>4. P \in Nat /\ P > 0
  BY <1>3, Numbers
<1>5. /\ moved = NoImpulse <=> imp = NoImpulse
      /\ imp # NoImpulse => moved.lo = imp.lo - off /\ moved.hi = imp.hi - off /\ moved.vol = imp.vol
  <2>1. off \in Int
    BY <1>1
  <2>2. QED
    BY <1>1, <1>3, <2>1, MovedIs
<1>6. CASE imp = NoImpulse
  <2>1. InGroup("volume_contraction", s, imp) = Evaluate("volume_contraction", h, moved)
    BY <1>2, <1>3, <1>6 DEF InGroup
  <2>2. Evaluate("volume_contraction", h, moved) = FALSE /\ Evaluate("volume_contraction", H, imp) = FALSE
    BY <1>5, <1>6 DEF Evaluate
  <2>3. QED
    BY <2>1, <2>2
<1>7. CASE imp # NoImpulse
  <2>1. PICK u, a : u = imp.hi /\ a = Max({u + 1, n - P + 1})
    OBVIOUS
  <2>2. u \in Int /\ off + 1 < u /\ u <= n
    <3>1. Cfg.rightBars \in Nat
      BY Numbers
    <3>2. QED
      BY <1>1, <1>7, <2>1, <3>1
  <2>3. a \in {u + 1, n - P + 1} /\ a >= u + 1 /\ a >= n - P + 1 /\ a \in Int
    <3>1. u + 1 \in Int /\ n - P + 1 \in Int
      BY <1>1, <1>4, <2>2
    <3>2. a \in {u + 1, n - P + 1} /\ a >= u + 1 /\ a >= n - P + 1
      BY <2>1, <3>1, BiggerOf
    <3>3. QED
      BY <3>1, <3>2
  <2>4. Evaluate("volume_contraction", H, imp) =
          (a..n # {} /\ Contracts(Volume(H, a..n), Cardinality(a..n), imp))
    BY <1>2, <1>3, <1>7, <2>1 DEF Evaluate
  <2>5. (a..n # {} <=> a <= n) /\ Cardinality(a..n) = IF a <= n THEN n - a + 1 ELSE 0
    <3>1. n \in Int
      BY <1>1
    <3>2. QED
      BY <2>3, <3>1, StretchCount
  <2>6. CASE Clear(n, imp)
    <3>1. u < n - P + 1
      BY <1>3, <2>1, <2>6 DEF Clear
    <3>2. a = n - P + 1 /\ a <= n /\ n - a + 1 = P /\ n >= P /\ a > 1
      BY <1>1, <1>4, <2>2, <2>3, <3>1
    <3>3. Min({P, n}) = P
      <4>1. P \in Int /\ n \in Int
        BY <1>1, <1>4
      <4>2. Min({P, n}) \in {P, n} /\ Min({P, n}) <= P /\ Min({P, n}) <= n
        BY <4>1, BiggerOf
      <4>3. QED
        BY <1>1, <1>4, <3>2, <4>2
    <3>4. Rolling(H).vol = Volume(H, a..n)
      <4>1. n \in Int /\ 1 \in Int
        BY <1>1
      <4>2. Since(1, n) \in {1, n - P + 1} /\ Since(1, n) >= n - P + 1
        BY <1>3, <4>1, SinceIs
      <4>3. Since(1, n) = a
        BY <3>2, <4>2
      <4>4. QED
        BY <1>2, <4>3 DEF Rolling
    <3>5. InGroup("volume_contraction", s, imp) = Contracts(Rolling(H).vol, Min({P, n}), imp)
      BY <1>2, <1>3, <1>7, <2>6 DEF InGroup
    <3>6. a..n # {} /\ Cardinality(a..n) = P
      BY <2>5, <3>2
    <3>7. InGroup("volume_contraction", s, imp) = Contracts(Volume(H, a..n), P, imp)
      BY <3>3, <3>4, <3>5
    <3>8. Evaluate("volume_contraction", H, imp) = (TRUE /\ Contracts(Volume(H, a..n), P, imp))
      BY <2>4, <3>6
    <3>9. QED
      BY <3>7, <3>8 DEF Contracts
  <2>7. CASE ~Clear(n, imp)
    <3>1. InGroup("volume_contraction", s, imp) = Evaluate("volume_contraction", h, moved)
      BY <1>2, <1>3, <1>7, <2>7 DEF InGroup
    <3>2. ~(u < n - P + 1)
      BY <1>3, <2>1, <2>7 DEF Clear
    <3>3. a = u + 1
      BY <1>1, <1>4, <2>2, <2>3, <3>2
    <3>4. PICK b : b = Max({u - off + 1, m - P + 1})
      OBVIOUS
    <3>5. b = a - off /\ n - off = m
      <4>1. u - off + 1 \in Int /\ m - P + 1 \in Int
        BY <1>1, <1>4, <2>2
      <4>2. b \in {u - off + 1, m - P + 1} /\ b >= u - off + 1 /\ b >= m - P + 1
        BY <3>4, <4>1, BiggerOf
      <4>3. QED
        BY <1>1, <1>4, <2>2, <3>2, <3>3, <4>1, <4>2
    <3>6. Evaluate("volume_contraction", h, moved) =
            (b..m # {} /\ Contracts(Volume(h, b..m), Cardinality(b..m), moved))
      BY <1>2, <1>3, <1>5, <1>7, <2>1, <3>4 DEF Evaluate
    <3>7. Volume(h, b..m) = Volume(H, a..n)
      <4>1. off < a /\ n <= n /\ n \in Int
        BY <1>1, <2>2, <3>3
      <4>2. Volume(h, a - off..n - off) = Volume(H, a..n)
        BY <1>1, <2>3, <4>1, SumsMoved
      <4>3. QED
        BY <3>5, <4>2
    <3>8. (b..m # {} <=> a..n # {}) /\ Cardinality(b..m) = Cardinality(a..n)
      <4>1. b \in Int /\ m \in Int /\ (b <= m <=> a <= n) /\ m - b + 1 = n - a + 1
        BY <1>1, <2>3, <3>5
      <4>2. (b..m # {} <=> b <= m) /\ Cardinality(b..m) = IF b <= m THEN m - b + 1 ELSE 0
        BY <4>1, StretchCount
      <4>3. QED
        BY <2>5, <4>1, <4>2
    <3>9. ASSUME NEW x, NEW y PROVE Contracts(x, y, moved) <=> Contracts(x, y, imp)
      <4>1. moved.hi - moved.lo + 1 = imp.hi - imp.lo + 1 /\ moved.vol = imp.vol
        BY <1>1, <1>5, <1>7
      <4>2. QED
        BY <4>1 DEF Contracts
    <3>10. (b..m # {} /\ Contracts(Volume(h, b..m), Cardinality(b..m), moved))
             <=> (a..n # {} /\ Contracts(Volume(H, a..n), Cardinality(a..n), imp))
      BY <3>7, <3>8, <3>9
    <3>11. QED
      BY <2>4, <3>1, <3>6, <3>10
  <2>8. QED
    BY <2>6, <2>7
<1>8. QED
  BY <1>6, <1>7

LEMMA HeldAgrees ==
  ASSUME NEW s, NEW H, Held(s, H), H # <<>>, NEW imp, Pending(imp, H), NEW c \in Conditions
  PROVE  InGroup(c, s, imp) = Evaluate(c, H, imp)
<1>1. PICK h, off, n, m : h = s.hist /\ off = s.off /\ n = Len(H) /\ m = Len(h)
  OBVIOUS
<1>2. Read(s, H, imp, h, off, n, m)
  BY <1>1 DEF Read
<1>3. CASE c \in {"fib_retracement", "percent_retracement", "break_fib_invalidation", "break_swing_low_invalidation"}
  BY <1>2, <1>3, DepthAgrees
<1>4. CASE c \in {"bullish_volume_confirmation", "bearish_volume_invalidation"}
  BY <1>2, <1>4, ConfirmationAgrees
<1>5. CASE c = "rsi_recovery"
  BY <1>2, <1>5, StrengthAgrees
<1>6. CASE c = "obv_confirmation"
  BY <1>2, <1>6, BalanceAgrees
<1>7. CASE c = "volume_contraction"
  BY <1>2, <1>7, ContractionAgrees
<1>8. QED
  BY <1>3, <1>4, <1>5, <1>6, <1>7 DEF Conditions

(* Why the three selections agree. The pool of the engine is a function of the *)
(* history: a window that is cut only when full, every confirmed pivot of the  *)
(* look-back, the sums of the last period and, between any two on-balance      *)
(* volumes, the flows. The live evaluator holds the same candidate under the   *)
(* numbering of its window.                                                    *)
ImpulseInv ==
  /\ rule \in {"legacy", "pullback"} /\ opening \in Scripts /\ bars \in Seq(Quote)
  /\ Pending(ref, bars) /\ (rule = "pullback" => Unleft(ref, bars))
  /\ Held(eng, bars) /\ eng.pend = ref
  /\ Follows(live, bars, ref)

LEMMA NothingHeld == Held(FreshPool, <<>>)
<1>1. PICK H : H = <<>>
  OBVIOUS
<1>2. H \in Seq(Quote) /\ Len(H) = 0 /\ <<>> \in Seq(Int) /\ Len(<<>>) = 0
  BY <1>1
<1>3. Confirmed(0) = {}
  <2>1. Cfg.rightBars \in Nat /\ Cfg.leftBars \in Nat
    BY Numbers
  <2>2. 0 \in Int
    OBVIOUS
  <2>3. KeptFrom(0) \in Nat /\ KeptFrom(0) > Cfg.leftBars
    BY <2>2, Numbers
  <2>4. 0 - Cfg.rightBars < KeptFrom(0)
    BY <2>1, <2>3
  <2>5. QED
    BY <2>1, <2>3, <2>4 DEF Confirmed
<1>4. Lows(H, Confirmed(0)) = {} /\ Highs(H, Confirmed(0)) = {}
  BY <1>3 DEF Lows, Highs
<1>5. Volume(H, {}) = 0 /\ Rises(H, {}) = 0 /\ Falls(H, {}) = 0
  <2>1. /\ [j \in {} |-> H[j].vol] \in [{} -> Int] /\ [j \in {} |-> Rise(H, j)] \in [{} -> Int]
        /\ [j \in {} |-> Fall(H, j)] \in [{} -> Int]
    OBVIOUS
  <2>2. QED
    BY <2>1, SumOfNone DEF Volume, Rises, Falls
<1>6. Since(1, 0)..0 = {} /\ Since(2, 0)..0 = {} /\ Since(1, 0 - 1)..0 - 1 = {} /\ Since(2, 0 - 1)..0 - 1 = {}
  <2>1. 0 \in Int /\ 0 - 1 \in Int /\ 1 \in Int /\ 2 \in Int
    OBVIOUS
  <2>2. /\ Since(1, 0) \in Int /\ Since(1, 0) >= 1 /\ Since(2, 0) \in Int /\ Since(2, 0) >= 2
        /\ Since(1, 0 - 1) \in Int /\ Since(1, 0 - 1) >= 1 /\ Since(2, 0 - 1) \in Int /\ Since(2, 0 - 1) >= 2
    BY <2>1, SinceIs
  <2>3. QED
    BY <2>2
<1>7. Rolling(H) = [vol |-> 0, gain |-> 0, loss |-> 0, pvol |-> 0, pgain |-> 0, ploss |-> 0]
  BY <1>2, <1>5, <1>6 DEF Rolling
<1>8. Rolling(H) = NoRolling
  BY <1>7 DEF NoRolling
<1>9. PICK s : s = FreshPool
  OBVIOUS
<1>10. s = [n |-> 0, off |-> 0, hist |-> <<>>, lows |-> {}, highs |-> {}, roll |-> NoRolling, obvs |-> <<>>, pend |-> NoImpulse]
  BY <1>9 DEF FreshPool
<1>11. s.off = 0 /\ s.hist = H /\ s.obvs = <<>> /\ s.pend = NoImpulse
  BY <1>1, <1>10
<1>12. Window(H, H, 0)
  BY <1>2 DEF Window
<1>13. Capacity \in Nat
  BY Numbers
<1>14. Bounded(H, 0, Capacity)
  BY <1>2, <1>13 DEF Bounded
<1>15. Tallied(<<>>, H, 0)
  BY <1>2 DEF Tallied
<1>16. Held(s, H)
  BY <1>1, <1>2, <1>4, <1>8, <1>10, <1>11, <1>12, <1>14, <1>15 DEF Held
<1>17. QED
  BY <1>1, <1>9, <1>16

LEMMA ImpulseStarts == ASSUME ImpulseInit PROVE ImpulseInv
<1>1. /\ rule \in {"legacy", "pullback"} /\ opening \in Scripts /\ bars = <<>> /\ ref = NoImpulse
      /\ eng = FreshPool /\ live = [hist |-> <<>>, pend |-> NoImpulse]
  BY DEF ImpulseInit
<1>2. bars \in Seq(Quote) /\ Len(bars) = 0
  BY <1>1
<1>3. Pending(ref, bars) /\ Unleft(ref, bars)
  BY <1>1 DEF Pending, Unleft
<1>4. Held(eng, bars) /\ eng.pend = ref
  BY <1>1, NothingHeld DEF FreshPool
<1>5. Follows(live, bars, ref)
  <2>1. live.hist = bars /\ live.pend = NoImpulse /\ Len(bars) - Len(live.hist) = 0
    BY <1>1, <1>2
  <2>2. Window(bars, bars, 0)
    BY <1>2 DEF Window
  <2>3. MaxWindow \in Nat
    BY Numbers
  <2>4. Bounded(bars, 0, MaxWindow)
    BY <1>2, <2>3 DEF Bounded
  <2>5. Moved(NoImpulse, 0) = NoImpulse
    BY DEF Moved
  <2>6. QED
    BY <1>1, <2>1, <2>2, <2>4, <2>5 DEF Follows
<1>6. QED
  BY <1>1, <1>2, <1>3, <1>4, <1>5 DEF ImpulseInv

LEMMA DetectFound == ASSUME NEW H \in Seq(Quote) PROVE Pending(DetectImpulse(H), H)
<1>1. PICK A, B : A = Lows(H, Confirmed(Len(H))) /\ B = Highs(H, Confirmed(Len(H)))
  OBVIOUS
<1>2. Window(H, H, 0) /\ Wide(Len(H), 0)
  BY DEF Window, Wide
<1>3. QED
  BY <1>1, <1>2, EngineDetect

LEMMA ImpulseSteps == ASSUME ImpulseInv, [ImpulseNext]_ivars PROVE ImpulseInv'
<1>1. /\ rule \in {"legacy", "pullback"} /\ opening \in Scripts /\ bars \in Seq(Quote)
      /\ Pending(ref, bars) /\ (rule = "pullback" => Unleft(ref, bars))
      /\ Held(eng, bars) /\ eng.pend = ref
      /\ Follows(live, bars, ref)
  BY DEF ImpulseInv
<1>2. CASE UNCHANGED ivars
  BY <1>2 DEF ImpulseInv, ivars, Follows
<1>3. CASE FeedBar
  <2>1. PICK b \in NextBars :
          /\ bars' = Append(bars, b)
          /\ ref' = IF rule = "pullback" THEN AdvanceAlone(bars', ref) ELSE DetectImpulse(bars')
          /\ eng' = LET s == Update(eng, b) IN [s EXCEPT !.pend = ImpulseOf(s)]
          /\ live' = Slide(live, b)
    BY <1>3 DEF FeedBar
  <2>2. rule' = rule /\ opening' = opening
    BY <1>3 DEF FeedBar
  <2>3. b \in Quote
    <3>1. CASE Len(bars) < Len(opening)
      <4>1. opening \in Seq(Quote)
        BY <1>1, ImpulseAssumption
      <4>2. Len(bars) + 1 \in 1..Len(opening)
        BY <1>1, <3>1, <4>1
      <4>3. opening[Len(bars) + 1] \in Quote
        BY <4>1, <4>2, ElementOfSeq
      <4>4. QED
        BY <2>1, <3>1, <4>3 DEF NextBars
    <3>2. CASE ~(Len(bars) < Len(opening))
      BY <2>1, <3>2, ImpulseAssumption DEF NextBars
    <3>3. QED
      BY <3>1, <3>2
  <2>4. PICK H, G, r, imp, s, u, v, w : /\ H = bars /\ G = bars' /\ r = ref' /\ imp = ref /\ s = eng /\ u = eng'
                                        /\ v = live /\ w = live'
    OBVIOUS
  <2>5. H \in Seq(Quote) /\ G = Append(H, b) /\ Pending(imp, H) /\ Held(s, H) /\ s.pend = imp /\ Follows(v, H, imp)
    BY <1>1, <2>1, <2>4
  <2>6. r = NextRef(G, imp)
    BY <2>1, <2>4 DEF NextRef
  <2>7. G \in Seq(Quote)
    BY <2>3, <2>5, LongerReads
  <2>8. Ranged(imp)
    BY <2>5, PendingRanged
  <2>9. Pending(r, G) /\ (rule = "pullback" => Unleft(r, G))
    <3>1. CASE rule = "pullback"
      <4>1. r = AdvanceAlone(Append(H, b), imp) /\ Unleft(imp, H)
        BY <1>1, <2>4, <2>5, <2>6, <3>1 DEF NextRef
      <4>2. Pending(r, Append(H, b)) /\ Unleft(r, Append(H, b))
        BY ONLY <2>3, <2>5, <4>1, PendingGoesOn
      <4>3. QED
        BY <2>5, <4>2
    <3>2. CASE rule # "pullback"
      BY <2>6, <2>7, <3>2, DetectFound DEF NextRef
    <3>3. QED
      BY <3>1, <3>2
  <2>10. Held(u, G) /\ u.pend = r
    <3>1. u = NextPool(s, b)
      BY <2>1, <2>4 DEF NextPool
    <3>2. Held(NextPool(s, b), G) /\ NextPool(s, b).pend = NextRef(G, s.pend)
      <4>1. Ranged(s.pend)
        BY <2>5, <2>8
      <4>2. QED
        BY ONLY <2>3, <2>5, <4>1, EngineStep
    <3>3. QED
      BY <2>5, <2>6, <3>1, <3>2
  <2>11. Follows(w, G, r)
    <3>1. Follows(Slide(v, b), G, NextRef(G, imp))
      BY ONLY <2>3, <2>5, <2>8, LiveStep
    <3>2. w = Slide(v, b)
      BY <2>1, <2>4
    <3>3. QED
      BY <2>6, <3>1, <3>2
  <2>12. bars' \in Seq(Quote) /\ Pending(ref', bars') /\ (rule = "pullback" => Unleft(ref', bars'))
         /\ Held(eng', bars') /\ eng'.pend = ref'
    BY <2>4, <2>7, <2>9, <2>10
  <2>13. Follows(live, bars, ref)'
    BY <2>2, <2>4, <2>11 DEF Follows
  <2>14. QED
    BY <1>1, <2>2, <2>12, <2>13 DEF ImpulseInv
<1>4. QED
  BY <1>2, <1>3 DEF ImpulseNext

LEMMA ImpulseInvAgrees == ASSUME ImpulseInv PROVE ImpulseAgrees
<1>1. /\ bars \in Seq(Quote) /\ Pending(ref, bars) /\ (rule = "pullback" => Unleft(ref, bars))
      /\ Held(eng, bars) /\ eng.pend = ref /\ Follows(live, bars, ref)
  BY DEF ImpulseInv
<1>2. EngineSelectsAsReference
  BY <1>1 DEF EngineSelectsAsReference
<1>3. LiveSelectsAsReference
  <2>1. SUFFICES ASSUME rule = "pullback", MaxWindow >= Cfg.lookbackBars + Back
                 PROVE  Moved(live.pend, Len(live.hist) - Len(bars)) = ref
    BY DEF LiveSelectsAsReference
  <2>2. PICK d : d = Len(bars) - Len(live.hist)
    OBVIOUS
  <2>3. live.pend = Moved(ref, d) /\ Window(live.hist, bars, d)
    BY <1>1, <2>1, <2>2 DEF Follows
  <2>4. d \in Nat /\ Len(live.hist) \in Nat /\ Len(bars) \in Nat
    BY <2>3, WindowIs
  <2>5. PICK e : e = Len(live.hist) - Len(bars)
    OBVIOUS
  <2>6. d \in Int /\ e \in Int /\ d + e = 0
    BY <2>2, <2>4, <2>5
  <2>7. Ranged(ref)
    BY <1>1, PendingRanged
  <2>8. Moved(Moved(ref, d), e) = Moved(ref, d + e)
    BY <2>6, <2>7, MovedTwice
  <2>9. Moved(ref, 0) = ref
    BY <2>7, MovedByNone
  <2>10. QED
    BY <2>3, <2>5, <2>6, <2>8, <2>9
<1>4. ConditionsAgree
  BY <1>1, HeldAgrees DEF ConditionsAgree
<1>5. NeverRevived
  BY <1>1 DEF NeverRevived, Unleft
<1>6. QED
  BY <1>2, <1>3, <1>4, <1>5 DEF ImpulseAgrees

(* Whatever the feed and the configuration, the pool of the engine and the     *)
(* window of the live evaluator stay the functions of the history described    *)
(* above (ResumableEngine.update and onClosedCandle).                          *)
THEOREM ImpulseInductive == ImpulseSpec => []ImpulseInv
<1>1. ImpulseInit => ImpulseInv
  BY ImpulseStarts
<1>2. ImpulseInv /\ [ImpulseNext]_ivars => ImpulseInv'
  BY ImpulseSteps
<1>3. QED
  BY <1>1, <1>2, PTL DEF ImpulseSpec

(* On every candle the engine and the live evaluator select the impulse that   *)
(* the full history selects and decide every condition as it does, for every   *)
(* configuration, every feed and every length of it.                           *)
THEOREM ImpulseAlwaysAgrees == ImpulseSpec => []ImpulseAgrees
<1>1. ImpulseInv => ImpulseAgrees
  BY ImpulseInvAgrees
<1>2. QED
  BY <1>1, ImpulseInductive, PTL
=============================================================================
