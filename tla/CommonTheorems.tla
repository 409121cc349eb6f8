--------------------------- MODULE CommonTheorems ---------------------------
(* What several proofs need: the least of a set of numbers, functions that are  *)
(* defined by a first value and a step, and sums of finitely many numbers, of   *)
(* which the library has the definition (SumFunction) and no theorem.           *)
EXTENDS Integers, FiniteSets, FiniteSetsExt, Functions, FiniteSetTheorems, WellFoundedInduction, TLAPS

LEMMA MinIsLeast == ASSUME NEW S \in SUBSET Nat, S # {} PROVE Min(S) \in S /\ \A y \in S : Min(S) <= y
<1> DEFINE R == {ss \in Nat \X Nat : ss[1] < ss[2]}
<1>1. IsWellFoundedOn(R, Nat)
  BY NatLessThanWellFounded DEF OpToRel
<1>2. PICK x \in S : \A y \in S : ~ (<<y, x>> \in R)
  BY <1>1, WFMin
<1>3. ASSUME NEW y \in S PROVE x <= y
  <2>1. PICK p : p = <<y, x>>
    OBVIOUS
  <2>2. p \in Nat \X Nat /\ p[1] = y /\ p[2] = x
    BY <2>1
  <2>3. ~(p[1] < p[2])
    BY <2>1, <2>2, <1>2
  <2>4. QED
    BY <2>2, <2>3
<1>4. QED
  BY <1>3 DEF Min

\* A function on 0..n may be defined by its first value and the step to the next one.
Steps(h, n, V, a, G) == h \in [0..n -> V] /\ h[0] = a /\ \A i \in 1..n : h[i] = G[i][h[i - 1]]
LEMMA RecursionIs ==
  ASSUME NEW n \in Nat, NEW V, NEW a \in V, NEW G \in [1..n -> [V -> V]]
  PROVE  \E h : Steps(h, n, V, a, G)
<1> DEFINE Good(m) == \E h \in [0..m -> V] : h[0] = a /\ \A i \in 1..m : h[i] = G[i][h[i - 1]]
           Bad == {m \in 0..n : ~Good(m)}
<1>1. Good(0)
  <2>1. PICK h : h = [i \in 0..0 |-> a]
    OBVIOUS
  <2>2. h \in [0..0 -> V] /\ h[0] = a /\ 1..0 = {}
    BY <2>1
  <2>3. QED
    BY <2>2
<1>2. ASSUME NEW m \in 1..n, Good(m - 1) PROVE Good(m)
  <2>1. PICK g \in [0..(m - 1) -> V] : g[0] = a /\ \A i \in 1..(m - 1) : g[i] = G[i][g[i - 1]]
    BY <1>2
  <2>2. PICK v : v = G[m][g[m - 1]]
    OBVIOUS
  <2>3. m - 1 \in 0..(m - 1) /\ m \in Nat /\ m # 0
    OBVIOUS
  <2>4. v \in V
    <3>1. G[m] \in [V -> V] /\ g[m - 1] \in V
      BY <2>3
    <3>2. QED
      BY <2>2, <3>1
  <2>5. PICK h : h = [i \in 0..m |-> IF i < m THEN g[i] ELSE v]
    OBVIOUS
  <2>6. \A i \in 0..(m - 1) : i \in 0..m /\ i < m /\ h[i] = g[i]
    BY <2>3, <2>5
  <2>7. h[m] = v
    BY <2>3, <2>5
  <2>8. h \in [0..m -> V]
    <3>1. \A i \in 0..m : (IF i < m THEN g[i] ELSE v) \in V
      <4> SUFFICES ASSUME NEW i \in 0..m PROVE (IF i < m THEN g[i] ELSE v) \in V
        OBVIOUS
      <4>1. i < m => i \in 0..(m - 1)
        BY <2>3
      <4>2. QED
        BY <2>4, <4>1
    <3>2. QED
      BY <2>5, <3>1
  <2>9. ASSUME NEW i \in 1..m PROVE h[i] = G[i][h[i - 1]]
    <3>1. CASE i = m
      BY <2>2, <2>3, <2>6, <2>7, <3>1
    <3>2. CASE i # m
      <4>1. i \in 1..(m - 1) /\ i \in 0..(m - 1) /\ i - 1 \in 0..(m - 1)
        BY <2>3, <3>2
      <4>2. QED
        BY <2>1, <2>6, <4>1
    <3>3. QED
      BY <3>1, <3>2
  <2>10. h[0] = a
    BY <2>1, <2>3, <2>6
  <2>11. QED
    BY <2>8, <2>9, <2>10
<1> HIDE DEF Good
<1>3. ASSUME Bad # {} PROVE FALSE
  <2>1. Bad \in SUBSET Nat
    OBVIOUS
  <2>2. PICK m \in Bad : \A y \in Bad : m <= y
    <3> HIDE DEF Bad
    <3>1. QED
      BY <1>3, <2>1, MinIsLeast
  <2>3. m # 0
    BY <1>1
  <2>4. m \in 1..n /\ m - 1 \in 0..n /\ ~(m <= m - 1)
    BY <2>3
  <2>5. m - 1 \notin Bad
    BY <2>2, <2>4
  <2>6. QED
    BY <1>2, <2>4, <2>5
<1>4. Good(n)
  BY <1>3
<1>5. QED
  BY <1>4 DEF Good, Steps

(* --------------------------------- sums ----------------------------------- *)

\* A set of finite sets has one of which no part is in it.
LEMMA SmallestOf ==
  ASSUME NEW S, IsFiniteSet(S), NEW Bad \in SUBSET SUBSET S, Bad # {}
  PROVE  \E T \in Bad : \A x \in T : T \ {x} \notin Bad
<1> DEFINE Sizes == {Cardinality(T) : T \in Bad}
<1>1. ASSUME NEW T \in SUBSET S PROVE IsFiniteSet(T) /\ Cardinality(T) \in Nat
  BY FS_Subset, FS_CardinalityType
<1>2. Sizes \in SUBSET Nat /\ Sizes # {}
  BY <1>1
<1>3. PICK n \in Sizes : \A m \in Sizes : n <= m
  <2>1. Min(Sizes) \in Sizes /\ \A m \in Sizes : Min(Sizes) <= m
    <3> HIDE DEF Sizes
    <3>1. QED
      BY <1>2, MinIsLeast
  <2>2. QED
    BY <2>1
<1>4. PICK T \in Bad : n = Cardinality(T)
  OBVIOUS
<1>5. ASSUME NEW x \in T, T \ {x} \in Bad PROVE FALSE
  <2>1. Cardinality(T \ {x}) = Cardinality(T) - 1
    BY <1>1, FS_RemoveElement
  <2>2. n <= Cardinality(T \ {x})
    BY <1>3, <1>5
  <2>3. QED
    BY <1>1, <1>4, <2>1, <2>2
<1>6. QED
  BY <1>5

Picked(T) == CHOOSE x \in T : TRUE
(* g sums f over every subset of S, one chosen member at a time.                *)
SumsUp(g, f, S) ==
  /\ g \in [SUBSET S -> Int] /\ g[{}] = 0
  /\ \A T \in SUBSET S : T # {} => g[T] = f[Picked(T)] + g[T \ {Picked(T)}]
SumBy(f, S) == CHOOSE g : g = [T \in SUBSET S |-> IF T = {} THEN 0 ELSE f[Picked(T)] + g[T \ {Picked(T)}]]

LEMMA PickedIn == ASSUME NEW T, T # {} PROVE Picked(T) \in T
BY DEF Picked

LEMMA SumsExist ==
  ASSUME NEW S, IsFiniteSet(S), NEW f \in [S -> Int]
  PROVE  SumsUp(SumBy(f, S), f, S)
<1> DEFINE Upto(n) == {T \in SUBSET S : Cardinality(T) <= n}
           Next(g, T) == IF T = {} THEN 0 ELSE f[Picked(T)] + g[T \ {Picked(T)}]
           Good(n) == \E g \in [Upto(n) -> Int] : \A T \in Upto(n) : g[T] = Next(g, T)
           Bad == {n \in Nat : ~Good(n)}
<1>1. ASSUME NEW T \in SUBSET S PROVE IsFiniteSet(T) /\ Cardinality(T) \in Nat /\ (Cardinality(T) = 0 <=> T = {})
  BY FS_Subset, FS_CardinalityType, FS_EmptySet
<1>2. ASSUME NEW T \in SUBSET S, T # {}
      PROVE /\ Picked(T) \in S /\ T \ {Picked(T)} \in SUBSET S
            /\ Cardinality(T \ {Picked(T)}) = Cardinality(T) - 1
  BY <1>1, <1>2, PickedIn, FS_RemoveElement
<1>3. Good(0)
  <2>1. \A T \in Upto(0) : T = {}
    BY <1>1
  <2>2. PICK g : g = [T \in Upto(0) |-> 0]
    OBVIOUS
  <2>3. QED
    BY <2>1, <2>2
<1>4. ASSUME NEW n \in Nat, Good(n) PROVE Good(n + 1)
  <2>1. PICK g \in [Upto(n) -> Int] : \A T \in Upto(n) : g[T] = Next(g, T)
    BY <1>4
  <2>2. ASSUME NEW T \in Upto(n + 1), T # {} PROVE T \ {Picked(T)} \in Upto(n) /\ f[Picked(T)] \in Int
    <3> PICK m \in Int : m = Cardinality(T)
      BY <1>1
    <3>1. m <= n + 1 /\ Cardinality(T \ {Picked(T)}) = m - 1
      BY <1>2, <2>2
    <3>2. QED
      BY <1>2, <2>2, <3>1
  <2>3. ASSUME NEW T \in Upto(n + 1) PROVE Next(g, T) \in Int
    BY <2>2
  <2>4. PICK h : h = [T \in Upto(n + 1) |-> Next(g, T)]
    OBVIOUS
  <2>5. h \in [Upto(n + 1) -> Int]
    BY <2>3, <2>4
  <2>6. ASSUME NEW T \in Upto(n) PROVE T \in Upto(n + 1) /\ h[T] = g[T]
    <3>1. T \in Upto(n + 1)
      BY <1>1
    <3>2. QED
      BY <2>1, <2>4, <3>1
  <2>7. ASSUME NEW T \in Upto(n + 1) PROVE h[T] = Next(h, T)
    <3>1. T # {} => h[T \ {Picked(T)}] = g[T \ {Picked(T)}]
      BY <2>2, <2>6
    <3>2. QED
      BY <2>4, <3>1
  <2>8. QED
    BY <2>5, <2>7
<1>5. ASSUME Bad # {} PROVE FALSE
  <2> HIDE DEF Good
  <2>1. PICK n \in Bad : \A m \in Bad : n <= m
    <3>1. Bad \in SUBSET Nat
      OBVIOUS
    <3>2. QED
      BY <1>5, <3>1, MinIsLeast
  <2>2. n \in Nat /\ n # 0 /\ ~Good(n)
    BY <1>3
  <2>3. n - 1 \in Nat /\ ~(n <= n - 1) /\ n = (n - 1) + 1
    BY <2>2
  <2>4. Good(n - 1)
    BY <2>1, <2>3
  <2>5. QED
    BY <1>4, <2>2, <2>3, <2>4
<1>6. Cardinality(S) \in Nat /\ Upto(Cardinality(S)) = SUBSET S
  BY FS_CardinalityType, FS_Subset
<1>7. PICK g \in [SUBSET S -> Int] : \A T \in SUBSET S : g[T] = Next(g, T)
  <2>1. Good(Cardinality(S))
    <3> HIDE DEF Good
    <3>1. QED
      BY <1>5, <1>6
  <2>2. QED
    BY <1>6, <2>1
<1>8. g = [T \in SUBSET S |-> IF T = {} THEN 0 ELSE f[Picked(T)] + g[T \ {Picked(T)}]]
  BY <1>7
<1>9. PICK s : s = SumBy(f, S)
  OBVIOUS
<1>10. s = [T \in SUBSET S |-> IF T = {} THEN 0 ELSE f[Picked(T)] + s[T \ {Picked(T)}]]
  BY <1>8, <1>9 DEF SumBy
<1>11. \A T \in SUBSET S : s[T] = Next(s, T)
  <2>1. PICK F : F = [T \in SUBSET S |-> Next(s, T)]
    OBVIOUS
  <2>2. s = F
    BY <1>10, <2>1
  <2>3. \A T \in SUBSET S : F[T] = Next(s, T)
    BY <2>1
  <2>4. QED
    BY <2>2, <2>3
<1>12. \A T \in SUBSET S : s[T] \in Int
  <2> DEFINE Wrong == {T \in SUBSET S : s[T] \notin Int}
  <2>1. ASSUME Wrong # {} PROVE FALSE
    <3>1. PICK T \in Wrong : \A x \in T : T \ {x} \notin Wrong
      <4>1. Wrong \in SUBSET SUBSET S
        OBVIOUS
      <4>2. QED
        BY <2>1, <4>1, SmallestOf
    <3>2. CASE T = {}
      <4>1. s[T] = Next(s, T) /\ s[T] \notin Int
        BY <1>11
      <4>2. QED
        BY <3>2, <4>1
    <3>3. CASE T # {}
      <4>1. s[T \ {Picked(T)}] \in Int
        BY <1>2, <3>1, <3>3, PickedIn
      <4>2. s[T] = f[Picked(T)] + s[T \ {Picked(T)}]
        BY <1>11, <3>3
      <4>3. f[Picked(T)] \in Int
        BY <1>2, <3>3
      <4>4. QED
        BY <4>1, <4>2, <4>3
    <3>4. QED
      BY <3>2, <3>3
  <2>2. QED
    BY <2>1
<1>13. s \in [SUBSET S -> Int]
  <2>1. DOMAIN s = SUBSET S /\ s = [T \in DOMAIN s |-> s[T]]
    <3>1. PICK F : F = [T \in SUBSET S |-> Next(s, T)]
      OBVIOUS
    <3>2. s = F
      BY <1>10, <3>1
    <3>3. DOMAIN F = SUBSET S /\ F = [T \in SUBSET S |-> F[T]]
      BY <3>1
    <3>4. QED
      BY <3>2, <3>3
  <2>2. QED
    BY <1>12, <2>1
<1>14. s[{}] = 0 /\ \A T \in SUBSET S : T # {} => s[T] = f[Picked(T)] + s[T \ {Picked(T)}]
  BY <1>11
<1>15. QED
  BY <1>9, <1>13, <1>14 DEF SumsUp

\* Which member is taken first does not matter.
LEMMA AnyFirst ==
  ASSUME NEW S, IsFiniteSet(S), NEW f \in [S -> Int], NEW g, SumsUp(g, f, S)
  PROVE  \A T \in SUBSET S : \A x \in T : g[T] = f[x] + g[T \ {x}]
<1> DEFINE Wrong == {T \in SUBSET S : \E x \in T : g[T] # f[x] + g[T \ {x}]}
<1>1. ASSUME Wrong # {} PROVE FALSE
  <2>1. PICK T \in Wrong : \A x \in T : T \ {x} \notin Wrong
    <3>1. Wrong \in SUBSET SUBSET S
      OBVIOUS
    <3>2. QED
      BY <1>1, <3>1, SmallestOf
  <2>2. PICK x \in T : g[T] # f[x] + g[T \ {x}]
    OBVIOUS
  <2>3. PICK p : p = Picked(T)
    OBVIOUS
  <2>4. p \in T /\ g[T] = f[p] + g[T \ {p}]
    BY <2>3, PickedIn DEF SumsUp
  <2>5. p # x
    BY <2>2, <2>4
  <2>6. T \ {p} \in SUBSET S /\ T \ {x} \in SUBSET S /\ x \in T \ {p} /\ p \in T \ {x}
    BY <2>4, <2>5
  <2>7. g[T \ {p}] = f[x] + g[(T \ {p}) \ {x}] /\ g[T \ {x}] = f[p] + g[(T \ {x}) \ {p}]
    BY <2>1, <2>4, <2>6
  <2>8. (T \ {p}) \ {x} = (T \ {x}) \ {p}
    OBVIOUS
  <2>9. PICK r \in Int : r = g[(T \ {x}) \ {p}]
    BY DEF SumsUp
  <2>10. f[p] \in Int /\ f[x] \in Int
    BY <2>4
  <2>11. g[T] = f[p] + (f[x] + r) /\ g[T \ {x}] = f[p] + r
    BY <2>4, <2>7, <2>8, <2>9
  <2>12. QED
    BY <2>2, <2>9, <2>10, <2>11
<1>2. QED
  BY <1>1

\* The sum over two sets without a common member.
LEMMA SumOfTwo ==
  ASSUME NEW S, IsFiniteSet(S), NEW f \in [S -> Int], NEW g, SumsUp(g, f, S),
         NEW A \in SUBSET S, NEW B \in SUBSET S, A \cap B = {}
  PROVE  g[A \cup B] = g[A] + g[B]
<1> DEFINE Wrong == {T \in SUBSET A : g[T \cup B] # g[T] + g[B]}
<1>1. ASSUME Wrong # {} PROVE FALSE
  <2>1. PICK T \in Wrong : \A x \in T : T \ {x} \notin Wrong
    <3>1. Wrong \in SUBSET SUBSET A /\ IsFiniteSet(A)
      BY FS_Subset
    <3>2. QED
      BY <1>1, <3>1, SmallestOf
  <2>2. g \in [SUBSET S -> Int] /\ g[{}] = 0
    BY DEF SumsUp
  <2>3. T # {}
    <3>1. g[B] \in Int /\ 0 + g[B] = g[B]
      BY <2>2
    <3>2. g[T \cup B] # g[T] + g[B]
      OBVIOUS
    <3>3. ASSUME T = {} PROVE FALSE
      <4>1. T \cup B = B /\ g[T] = 0
        BY <2>2, <3>3
      <4>2. QED
        BY <3>1, <3>2, <4>1
    <3>4. QED
      BY <3>3
  <2>4. PICK x : x \in T
    BY <2>3
  <2>5. T \cup B \in SUBSET S /\ T \in SUBSET S /\ x \in T \cup B /\ (T \cup B) \ {x} = (T \ {x}) \cup B /\ T \ {x} \in SUBSET A
    BY <2>4
  <2>6. g[T \cup B] = f[x] + g[(T \ {x}) \cup B] /\ g[T] = f[x] + g[T \ {x}]
    BY <2>4, <2>5, AnyFirst
  <2>7. g[(T \ {x}) \cup B] = g[T \ {x}] + g[B]
    BY <2>1, <2>4, <2>5
  <2>8. f[x] \in Int /\ g[T \ {x}] \in Int /\ g[B] \in Int
    BY <2>2, <2>4, <2>5
  <2>9. QED
    BY <2>6, <2>7, <2>8
<1>2. A \notin Wrong
  BY <1>1
<1>3. QED
  BY <1>2

\* Sums of two functions over a set on which they are the same.
LEMMA SameSum ==
  ASSUME NEW S, IsFiniteSet(S), NEW f, NEW g, SumsUp(g, f, S),
         NEW R, NEW e, NEW h, SumsUp(h, e, R),
         NEW U \in (SUBSET S) \cap (SUBSET R), \A x \in U : f[x] = e[x]
  PROVE  g[U] = h[U]
<1> DEFINE Wrong == {T \in SUBSET U : g[T] # h[T]}
<1>1. ASSUME Wrong # {} PROVE FALSE
  <2>1. PICK T \in Wrong : \A x \in T : T \ {x} \notin Wrong
    <3>1. Wrong \in SUBSET SUBSET U /\ IsFiniteSet(U)
      BY FS_Subset
    <3>2. QED
      BY <1>1, <3>1, SmallestOf
  <2>2. T # {}
    BY DEF SumsUp
  <2>3. Picked(T) \in T /\ T \in SUBSET S /\ T \in SUBSET R /\ T \ {Picked(T)} \in SUBSET U
    BY <2>2, PickedIn
  <2>4. g[T \ {Picked(T)}] = h[T \ {Picked(T)}]
    BY <2>1, <2>3
  <2>5. g[T] = f[Picked(T)] + g[T \ {Picked(T)}] /\ h[T] = e[Picked(T)] + h[T \ {Picked(T)}]
    BY <2>2, <2>3 DEF SumsUp
  <2>6. QED
    BY <2>3, <2>4, <2>5
<1>2. QED
  BY <1>1

LEMMA SumFunctionIs ==
  ASSUME NEW f, IsFiniteSet(DOMAIN f), f \in [DOMAIN f -> Int]
  PROVE  /\ SumFunction(f) = SumBy(f, DOMAIN f)[DOMAIN f]
         /\ SumsUp(SumBy(f, DOMAIN f), f, DOMAIN f)
         /\ SumFunction(f) \in Int
<1>1. SumFunction(f) = SumBy(f, DOMAIN f)[DOMAIN f]
  BY DEF SumFunction, SumFunctionOnSet, FoldFunctionOnSet, MapThenFoldSet, SumBy, Picked
<1>2. SumsUp(SumBy(f, DOMAIN f), f, DOMAIN f)
  BY SumsExist
<1>3. SumBy(f, DOMAIN f)[DOMAIN f] \in Int
  BY <1>2 DEF SumsUp
<1>4. QED
  BY <1>1, <1>2, <1>3

\* Numbers may be summed up group by group.
PartOf(f, key, k) == [x \in {y \in DOMAIN f : key[y] = k} |-> f[x]]
LEMMA SumOfGroups ==
  ASSUME NEW S, IsFiniteSet(S), NEW f \in [S -> Int], NEW K, IsFiniteSet(K), NEW key \in [S -> K],
         NEW F, F = [k \in K |-> SumFunction(PartOf(f, key, k))]
  PROVE  F \in [K -> Int] /\ SumFunction(F) = SumFunction(f)
<1> DEFINE In(L) == {x \in S : key[x] \in L}
           Block(k) == {x \in S : key[x] = k}
<1>1. PICK g : g = SumBy(f, S)
  OBVIOUS
<1>2. SumsUp(g, f, S) /\ SumFunction(f) = g[S]
  BY <1>1, SumFunctionIs
<1>3. g \in [SUBSET S -> Int] /\ g[{}] = 0
  BY <1>2 DEF SumsUp
<1>4. ASSUME NEW k \in K PROVE SumFunction(PartOf(f, key, k)) = g[Block(k)]
  <2>1. PICK e : e = PartOf(f, key, k)
    OBVIOUS
  <2>2. PICK U : U = Block(k)
    OBVIOUS
  <2>3. U \in SUBSET S /\ IsFiniteSet(U)
    BY <2>2, FS_Subset
  <2>4. e = [x \in U |-> f[x]]
    BY <2>1, <2>2 DEF PartOf
  <2>5. e \in [U -> Int] /\ DOMAIN e = U /\ \A x \in U : f[x] = e[x]
    BY <2>3, <2>4
  <2>6. SumFunction(e) = SumBy(e, U)[U] /\ SumsUp(SumBy(e, U), e, U)
    BY <2>3, <2>5, SumFunctionIs
  <2>7. g[U] = SumBy(e, U)[U]
    BY <1>2, <2>3, <2>5, <2>6, SameSum
  <2>8. QED
    BY <2>1, <2>2, <2>6, <2>7
<1>5. \A k \in K : Block(k) \in SUBSET S /\ g[Block(k)] \in Int
  BY <1>3
<1>6. F \in [K -> Int] /\ \A k \in K : F[k] = g[Block(k)]
  BY <1>4, <1>5
<1>7. PICK h : h = SumBy(F, K)
  OBVIOUS
<1>8. SumsUp(h, F, K) /\ SumFunction(F) = h[K]
  BY <1>6, <1>7, SumFunctionIs
<1>9. h \in [SUBSET K -> Int] /\ h[{}] = 0
  BY <1>8 DEF SumsUp
<1>10. \A L \in SUBSET K : h[L] = g[In(L)]
  <2> DEFINE Wrong == {L \in SUBSET K : h[L] # g[In(L)]}
  <2>1. ASSUME Wrong # {} PROVE FALSE
    <3>1. PICK L \in Wrong : \A x \in L : L \ {x} \notin Wrong
      <4>1. Wrong \in SUBSET SUBSET K
        OBVIOUS
      <4>2. QED
        BY <2>1, <4>1, SmallestOf
    <3>2. L # {}
      <4>1. ASSUME L = {} PROVE FALSE
        <5>1. In(L) = {} /\ h[L] # g[In(L)]
          BY <4>1
        <5>2. QED
          BY <1>3, <1>9, <4>1, <5>1
      <4>2. QED
        BY <4>1
    <3>3. PICK k : k \in L
      BY <3>2
    <3>4. h[L] = F[k] + h[L \ {k}]
      BY <1>6, <1>8, <3>3, AnyFirst
    <3>5. h[L \ {k}] = g[In(L \ {k})]
      BY <3>1, <3>3
    <3>6. In(L) = Block(k) \cup In(L \ {k}) /\ Block(k) \cap In(L \ {k}) = {}
      BY <3>3
    <3>7. g[In(L)] = g[Block(k)] + g[In(L \ {k})]
      <4>1. PICK A, B : A = Block(k) /\ B = In(L \ {k})
        OBVIOUS
      <4>2. A \in SUBSET S /\ B \in SUBSET S /\ A \cap B = {}
        BY <3>6, <4>1
      <4>3. g[A \cup B] = g[A] + g[B]
        BY <1>2, <4>2, SumOfTwo
      <4>4. QED
        BY <3>6, <4>1, <4>3
    <3>8. F[k] = g[Block(k)] /\ h[L] # g[In(L)]
      BY <1>6, <3>3
    <3>9. QED
      BY <3>4, <3>5, <3>7, <3>8
  <2>2. QED
    BY <2>1
<1>11. In(K) = S
  OBVIOUS
<1>12. QED
  BY <1>2, <1>6, <1>8, <1>10, <1>11

LEMMA SumTyped == ASSUME NEW S, IsFiniteSet(S), NEW f \in [S -> Int] PROVE SumFunction(f) \in Int
<1>1. DOMAIN f = S /\ IsFiniteSet(DOMAIN f) /\ f \in [DOMAIN f -> Int]
  OBVIOUS
<1>2. QED
  BY <1>1, SumFunctionIs

LEMMA SumOfNone == ASSUME NEW f \in [{} -> Int] PROVE SumFunction(f) = 0
<1>1. DOMAIN f = {} /\ IsFiniteSet(DOMAIN f) /\ f \in [DOMAIN f -> Int]
  BY FS_EmptySet
<1>2. SumFunction(f) = SumBy(f, DOMAIN f)[DOMAIN f] /\ SumsUp(SumBy(f, DOMAIN f), f, DOMAIN f)
  BY <1>1, SumFunctionIs
<1>3. SumBy(f, DOMAIN f)[{}] = 0
  BY <1>2 DEF SumsUp
<1>4. QED
  BY <1>1, <1>2, <1>3

\* A sum with one more number.
LEMMA SumGrows ==
  ASSUME NEW S, IsFiniteSet(S), NEW x, x \notin S, NEW f \in [S -> Int], NEW g \in [S \cup {x} -> Int],
         \A y \in S : g[y] = f[y]
  PROVE  SumFunction(g) = SumFunction(f) + g[x]
<1>1. PICK R : R = S \cup {x}
  OBVIOUS
<1>2. IsFiniteSet(R) /\ DOMAIN g = R /\ DOMAIN f = S /\ g \in [R -> Int]
  BY <1>1, FS_AddElement
<1>3. PICK F : F = SumBy(f, DOMAIN f)
  OBVIOUS
<1>4. PICK G : G = SumBy(g, DOMAIN g)
  OBVIOUS
<1>5. SumFunction(f) = F[S] /\ SumsUp(F, f, S)
  BY <1>2, <1>3, SumFunctionIs
<1>6. SumFunction(g) = G[R] /\ SumsUp(G, g, R)
  BY <1>2, <1>4, SumFunctionIs
<1>7. R \in SUBSET R /\ x \in R /\ R \ {x} = S
  BY <1>1
<1>8. G[R] = g[x] + G[S]
  BY <1>2, <1>6, <1>7, AnyFirst
<1>9. F[S] = G[S]
  <2>1. S \in (SUBSET S) \cap (SUBSET R) /\ \A y \in S : f[y] = g[y]
    BY <1>1
  <2>2. QED
    BY <2>1, <1>5, <1>6, SameSum
<1>10. F[S] \in Int /\ g[x] \in Int
  BY <1>2, <1>5, <1>7 DEF SumsUp
<1>11. QED
  BY <1>5, <1>6, <1>8, <1>9, <1>10

\* A sum in which one number is another.
LEMMA SumChanges ==
  ASSUME NEW S, IsFiniteSet(S), NEW x \in S, NEW f \in [S -> Int], NEW g \in [S -> Int],
         \A y \in S : y # x => g[y] = f[y]
  PROVE  SumFunction(g) = SumFunction(f) - f[x] + g[x]
<1>1. PICK R : R = S \ {x}
  OBVIOUS
<1>2. IsFiniteSet(R) /\ x \notin R /\ S = R \cup {x}
  BY <1>1, FS_RemoveElement
<1>3. PICK r : r = [y \in R |-> f[y]]
  OBVIOUS
<1>4. r \in [R -> Int] /\ f \in [R \cup {x} -> Int] /\ g \in [R \cup {x} -> Int]
       /\ (\A y \in R : f[y] = r[y]) /\ \A y \in R : g[y] = r[y]
  BY <1>1, <1>2, <1>3
<1>5. SumFunction(f) = SumFunction(r) + f[x] /\ SumFunction(g) = SumFunction(r) + g[x]
  BY <1>2, <1>4, SumGrows
<1>6. SumFunction(r) \in Int /\ f[x] \in Int /\ g[x] \in Int
  BY <1>2, <1>4, SumTyped
<1>7. QED
  BY <1>5, <1>6

LEMMA SumOfOne == ASSUME NEW x, NEW g \in [{x} -> Int] PROVE SumFunction(g) = g[x]
<1>1. PICK R : R = {x}
  OBVIOUS
<1>2. PICK G : G = SumBy(g, DOMAIN g)
  OBVIOUS
<1>3. IsFiniteSet(R) /\ DOMAIN g = R /\ g \in [R -> Int]
  BY <1>1, FS_Singleton
<1>4. SumFunction(g) = G[R] /\ SumsUp(G, g, R)
  BY <1>2, <1>3, SumFunctionIs
<1>5. R \in SUBSET R /\ x \in R /\ R \ {x} = {}
  BY <1>1
<1>6. G[R] = g[x] + G[{}]
  BY <1>3, <1>4, <1>5, AnyFirst
<1>7. G[{}] = 0 /\ g[x] \in Int
  BY <1>3, <1>4, <1>5 DEF SumsUp
<1>8. QED
  BY <1>4, <1>6, <1>7

\* The same numbers in another order: w says which of e each of f is.
Reordered(f, S, e, T, w) ==
  /\ IsFiniteSet(S) /\ f \in [S -> Int] /\ IsFiniteSet(T) /\ e \in [T -> Int] /\ w \in [S -> T]
  /\ (\A x, y \in S : w[x] = w[y] => x = y) /\ (\A z \in T : \E x \in S : w[x] = z)
  /\ \A x \in S : f[x] = e[w[x]]
LEMMA SumReordered ==
  ASSUME NEW S, NEW f, NEW T, NEW e, NEW w, Reordered(f, S, e, T, w)
  PROVE  SumFunction(f) = SumFunction(e)
<1>0. /\ IsFiniteSet(S) /\ f \in [S -> Int] /\ IsFiniteSet(T) /\ e \in [T -> Int] /\ w \in [S -> T]
      /\ (\A x, y \in S : w[x] = w[y] => x = y) /\ (\A z \in T : \E x \in S : w[x] = z)
      /\ \A x \in S : f[x] = e[w[x]]
  BY DEF Reordered
<1>1. PICK F : F = [k \in T |-> SumFunction(PartOf(f, w, k))]
  OBVIOUS
<1>2. F \in [T -> Int] /\ SumFunction(F) = SumFunction(f)
  BY <1>0, <1>1, SumOfGroups
<1>3. ASSUME NEW z \in T PROVE F[z] = e[z]
  <2>1. PICK x \in S : w[x] = z
    BY <1>0
  <2>2. PICK g : g = PartOf(f, w, z)
    OBVIOUS
  <2>3. {y \in DOMAIN f : w[y] = z} = {x}
    BY <1>0, <2>1
  <2>4. g = [y \in {x} |-> f[y]]
    BY <2>2, <2>3 DEF PartOf
  <2>5. g \in [{x} -> Int]
    BY <1>0, <2>4
  <2>6. SumFunction(g) = g[x]
    BY <2>5, SumOfOne
  <2>7. g[x] = f[x]
    BY <2>4
  <2>8. QED
    BY <1>0, <1>1, <2>1, <2>2, <2>6, <2>7
<1>4. F = e
  BY <1>0, <1>2, <1>3
<1>5. QED
  BY <1>2, <1>4
=============================================================================
