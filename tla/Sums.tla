-------------------------------- MODULE Sums --------------------------------
(***************************************************************************)
(* SumFunctionOnSet adds up a function over a finite set one element after *)
(* the other, in the order in which CHOOSE picks them.  These lemmas say   *)
(* that the order does not matter, and what a sum is when one term changes *)
(* or when its terms are bounded.  Each is proved from the smallest set    *)
(* for which it would fail.                                                *)
(***************************************************************************)
EXTENDS Integers, FiniteSets, Functions, FiniteSetTheorems, WellFoundedInduction, TLAPS

\* A non-empty set of natural numbers has a least member.
LEMMA LeastMember ==
  ASSUME NEW S \in SUBSET Nat, S # {}
  PROVE  \E x \in S : \A y \in S : x <= y
<1> DEFINE R == {ss \in Nat \X Nat : ss[1] < ss[2]}
<1>1. IsWellFoundedOn(R, Nat)
  BY NatLessThanWellFounded DEF OpToRel
<1>2. PICK x \in S : \A y \in S : ~(<<y, x>> \in R)
  <2> HIDE DEF R
  <2> QED BY <1>1, WFMin
<1>3. ASSUME NEW y \in S PROVE x <= y
  <2>1. ~(y < x)
    BY <1>2
  <2> QED
    BY <2>1
<1> QED
  BY <1>3

\* Products of integers.
LEMMA Times ==
  ASSUME NEW a \in Int, NEW b \in Int, NEW c \in Int
  PROVE  /\ a * c \in Int /\ c * a = a * c
         /\ (a + b) * c = a * c + b * c
         /\ (a - b) * c = a * c - b * c
OBVIOUS

\* They grow with their factors.
LEMMA TimesMonotone ==
  ASSUME NEW a \in Int, NEW b \in Int, NEW c \in Nat, a <= b
  PROVE  a * c <= b * c /\ c * a <= c * b
<1>1. (b - a) * c \in Nat
  BY b - a \in Nat
<1>2. (b - a) * c = b * c - a * c
  BY Times
<1>3. a * c \in Int /\ b * c \in Int /\ c * a = a * c /\ c * b = b * c
  BY Times
<1> QED
  BY <1>1, <1>2, <1>3

\* A non-empty collection of finite sets has one of the least size.
LEMMA SmallestSet ==
  ASSUME NEW C, C # {}, \A s \in C : IsFiniteSet(s)
  PROVE  \E s \in C : \A t \in C : Cardinality(s) <= Cardinality(t)
<1> DEFINE N == {Cardinality(s) : s \in C}
<1>1. N \in SUBSET Nat /\ N # {}
  BY FS_CardinalityType
<1>2. PICK n \in N : \A m \in N : n <= m
  <2> HIDE DEF N
  <2> QED BY <1>1, LeastMember
<1> QED
  BY <1>2

\* One step of the addition.
Pick(s) == CHOOSE x \in s : TRUE
AddNext(it, f, s) == IF s = {} THEN 0 ELSE f[Pick(s)] + it[s \ {Pick(s)}]
Unfolds(it, f, S) == it = [s \in SUBSET S |-> AddNext(it, f, s)]
Partial(f, S) == CHOOSE it : Unfolds(it, f, S)

LEMMA SumIsFold ==
  ASSUME NEW S, NEW f
  PROVE  SumFunctionOnSet(f, S) = Partial(f, S)[S]
BY DEF SumFunctionOnSet, FoldFunctionOnSet, MapThenFoldSet, Partial, Unfolds, AddNext, Pick

\* What is picked is in the set, and the rest is smaller.
LEMMA PickFacts ==
  ASSUME NEW s, IsFiniteSet(s), s # {}
  PROVE  /\ Pick(s) \in s
         /\ IsFiniteSet(s \ {Pick(s)}) /\ Cardinality(s \ {Pick(s)}) = Cardinality(s) - 1
         /\ Cardinality(s) \in Nat \ {0} /\ Cardinality(s \ {Pick(s)}) \in Nat
<1>1. Pick(s) \in s
  BY DEF Pick
<1>2. IsFiniteSet(s \ {Pick(s)}) /\ Cardinality(s \ {Pick(s)}) = Cardinality(s) - 1
  BY <1>1, FS_RemoveElement
<1>3. Cardinality(s) \in Nat /\ Cardinality(s \ {Pick(s)}) \in Nat
  BY <1>2, FS_CardinalityType
<1> QED
  BY <1>1, <1>2, <1>3

\* The recursive function exists ...
LEMMA SumsExist ==
  ASSUME NEW S, IsFiniteSet(S), NEW f, \A x \in S : f[x] \in Int
  PROVE  \E it \in [SUBSET S -> Int] : Unfolds(it, f, S)
<1> DEFINE Upto(it, n) == \A s \in SUBSET S : Cardinality(s) <= n => it[s] = AddNext(it, f, s)
           N == {n \in Nat : ~\E it \in [SUBSET S -> Int] : Upto(it, n)}
<1>1. \A s \in SUBSET S : IsFiniteSet(s) /\ Cardinality(s) \in Nat
  BY FS_Subset, FS_CardinalityType
<1>2. ASSUME NEW it \in [SUBSET S -> Int]
      PROVE  [s \in SUBSET S |-> AddNext(it, f, s)] \in [SUBSET S -> Int]
  <2> SUFFICES ASSUME NEW s \in SUBSET S PROVE AddNext(it, f, s) \in Int
    OBVIOUS
  <2>1. CASE s = {}
    BY <2>1 DEF AddNext
  <2>2. CASE s # {}
    <3>1. Pick(s) \in S /\ s \ {Pick(s)} \in SUBSET S
      BY <2>2, <1>1, PickFacts
    <3>2. f[Pick(s)] \in Int /\ it[s \ {Pick(s)}] \in Int
      BY <3>1
    <3> QED
      BY <2>2, <3>2 DEF AddNext
  <2> QED
    BY <2>1, <2>2
<1>3. N = {}
  <2> SUFFICES ASSUME N # {} PROVE FALSE
    OBVIOUS
  <2>1. N \in SUBSET Nat
    OBVIOUS
  <2>2. PICK n \in N : \A m \in N : n <= m
    <3> HIDE DEF N
    <3> QED BY <2>1, LeastMember
  <2>3. n \in Nat
    OBVIOUS
  <2>4. CASE n = 0
    <3> DEFINE it == [s \in SUBSET S |-> 0]
    <3>1. it \in [SUBSET S -> Int]
      OBVIOUS
    <3>2. ASSUME NEW s \in SUBSET S, Cardinality(s) <= 0 PROVE it[s] = AddNext(it, f, s)
      <4>1. Cardinality(s) = 0
        BY <1>1, <3>2
      <4>2. s = {}
        BY <1>1, <4>1, FS_EmptySet
      <4> QED
        BY <4>2 DEF AddNext
    <3> HIDE DEF it
    <3> QED
      BY <2>4, <3>1, <3>2
  <2>5. CASE n # 0
    <3>1. n - 1 \in Nat /\ n - 1 \notin N
      <4>1. n - 1 \in Nat /\ ~(n <= n - 1)
        BY <2>3, <2>5
      <4> HIDE DEF N
      <4> QED
        BY <2>2, <4>1
    <3>2. PICK it \in [SUBSET S -> Int] : Upto(it, n - 1)
      BY <3>1
    <3> DEFINE jt == [s \in SUBSET S |-> AddNext(it, f, s)]
    <3>3. jt \in [SUBSET S -> Int]
      BY <1>2
    <3>4. ASSUME NEW s \in SUBSET S, Cardinality(s) <= n PROVE jt[s] = AddNext(jt, f, s)
      <4>1. CASE s = {}
        BY <4>1 DEF AddNext
      <4>2. CASE s # {}
        <5> DEFINE r == s \ {Pick(s)}
        <5>1. r \in SUBSET S /\ Cardinality(r) <= n - 1
          <6>1. Cardinality(r) = Cardinality(s) - 1 /\ Cardinality(s) \in Nat
            BY <1>1, <4>2, PickFacts
          <6> QED
            BY <2>3, <3>4, <6>1
        <5>2. it[r] = AddNext(it, f, r)
          BY <3>2, <5>1
        <5>3. jt[r] = it[r]
          BY <5>1, <5>2
        <5>4. jt[s] = f[Pick(s)] + it[r]
          BY <4>2 DEF AddNext
        <5> QED
          BY <4>2, <5>3, <5>4 DEF AddNext
      <4> QED
        BY <4>1, <4>2
    <3>5. Upto(jt, n)
      BY <3>4
    <3> HIDE DEF jt, Upto
    <3> QED
      BY <3>3, <3>5
  <2> QED
    BY <2>4, <2>5
<1>4. Cardinality(S) \in Nat
  BY <1>1
<1>5. PICK it \in [SUBSET S -> Int] : Upto(it, Cardinality(S))
  BY <1>3, <1>4
<1>6. ASSUME NEW s \in SUBSET S PROVE it[s] = AddNext(it, f, s)
  BY <1>5, FS_Subset
<1>7. it = [s \in SUBSET S |-> AddNext(it, f, s)]
  BY <1>6
<1> QED
  BY <1>7 DEF Unfolds

\* ... so that Partial is one.
LEMMA PartialFacts ==
  ASSUME NEW S, IsFiniteSet(S), NEW f, \A x \in S : f[x] \in Int
  PROVE  /\ Partial(f, S) \in [SUBSET S -> Int]
         /\ \A s \in SUBSET S : Partial(f, S)[s] = AddNext(Partial(f, S), f, s)
<1>1. PICK it \in [SUBSET S -> Int] : Unfolds(it, f, S)
  BY SumsExist
<1>2. Unfolds(Partial(f, S), f, S)
  BY <1>1 DEF Partial
<1> DEFINE P == Partial(f, S)
<1>3. P = [s \in SUBSET S |-> AddNext(P, f, s)]
  BY <1>2 DEF Unfolds
<1> HIDE DEF P
<1>4. \A s \in SUBSET S : P[s] = AddNext(P, f, s)
  BY <1>3
<1>5. ASSUME \E s \in SUBSET S : P[s] \notin Int PROVE FALSE
  <2> DEFINE C == {s \in SUBSET S : P[s] \notin Int}
  <2>1. \A s \in C : IsFiniteSet(s)
    BY FS_Subset
  <2>2. C # {}
    BY <1>5
  <2>3. PICK s \in C : \A t \in C : Cardinality(s) <= Cardinality(t)
    <3> HIDE DEF C
    <3> QED BY <2>1, <2>2, SmallestSet
  <2>4. s # {}
    <3> SUFFICES ASSUME s = {} PROVE FALSE
      OBVIOUS
    <3>1. P[s] = 0 /\ P[s] \notin Int
      BY <1>4 DEF AddNext
    <3> QED
      BY <3>1
  <2>5. /\ Pick(s) \in S /\ s \ {Pick(s)} \in SUBSET S
        /\ ~(Cardinality(s) <= Cardinality(s \ {Pick(s)}))
    <3>1. /\ Pick(s) \in s /\ Cardinality(s \ {Pick(s)}) = Cardinality(s) - 1
          /\ Cardinality(s) \in Nat
      BY <2>1, <2>4, PickFacts
    <3> QED
      BY <3>1
  <2>6. P[s \ {Pick(s)}] \in Int
    BY <2>3, <2>5
  <2>7. P[s] = f[Pick(s)] + P[s \ {Pick(s)}]
    BY <1>4, <2>4 DEF AddNext
  <2>8. f[Pick(s)] \in Int
    BY <2>5
  <2> QED
    BY <2>6, <2>7, <2>8
<1>6. P \in [SUBSET S -> Int]
  BY <1>3, <1>5
<1> QED
  BY <1>4, <1>6 DEF P

\* Partial sums of two functions over two sets agree on what both have in common.
LEMMA PartialAgree ==
  ASSUME NEW S, IsFiniteSet(S), NEW f, \A x \in S : f[x] \in Int,
         NEW T, IsFiniteSet(T), NEW g, \A x \in T : g[x] \in Int,
         NEW s \in SUBSET (S \cap T), \A x \in s : f[x] = g[x]
  PROVE  Partial(f, S)[s] = Partial(g, T)[s]
<1> DEFINE C == {r \in SUBSET s : Partial(f, S)[r] # Partial(g, T)[r]}
<1> SUFFICES ASSUME C # {} PROVE FALSE
  OBVIOUS
<1>1. \A r \in C : IsFiniteSet(r)
  BY FS_Subset
<1>2. PICK r \in C : \A t \in C : Cardinality(r) <= Cardinality(t)
  <2> HIDE DEF C
  <2> QED BY <1>1, SmallestSet
<1>3. r \in SUBSET S /\ r \in SUBSET T /\ r \in SUBSET s
  OBVIOUS
<1>4. /\ Partial(f, S)[r] = AddNext(Partial(f, S), f, r)
      /\ Partial(g, T)[r] = AddNext(Partial(g, T), g, r)
  BY <1>3, PartialFacts
<1>5. r # {}
  <2> SUFFICES ASSUME r = {} PROVE FALSE
    OBVIOUS
  <2> QED
    BY <1>4 DEF AddNext
<1>6. /\ Pick(r) \in s /\ r \ {Pick(r)} \in SUBSET s
      /\ ~(Cardinality(r) <= Cardinality(r \ {Pick(r)}))
  <2>1. /\ Pick(r) \in r /\ Cardinality(r \ {Pick(r)}) = Cardinality(r) - 1
        /\ Cardinality(r) \in Nat
    BY <1>1, <1>5, PickFacts
  <2> QED
    BY <1>3, <2>1
<1>7. Partial(f, S)[r \ {Pick(r)}] = Partial(g, T)[r \ {Pick(r)}]
  BY <1>2, <1>6
<1> QED
  BY <1>4, <1>5, <1>6, <1>7 DEF AddNext

\* A sum is an integer, that of nothing is zero, and only the values on the set count.
LEMMA SumType ==
  ASSUME NEW S, IsFiniteSet(S), NEW f, \A x \in S : f[x] \in Int
  PROVE  SumFunctionOnSet(f, S) \in Int
<1>1. Partial(f, S) \in [SUBSET S -> Int]
  BY PartialFacts
<1> QED
  BY <1>1, SumIsFold

LEMMA SumEmpty ==
  ASSUME NEW f
  PROVE  SumFunctionOnSet(f, {}) = 0
<1>1. IsFiniteSet({}) /\ \A x \in {} : f[x] \in Int
  BY FS_EmptySet
<1>2. Partial(f, {})[{}] = AddNext(Partial(f, {}), f, {})
  BY <1>1, PartialFacts
<1> QED
  BY <1>2, SumIsFold DEF AddNext

LEMMA SumAgree ==
  ASSUME NEW S, IsFiniteSet(S), NEW f, NEW g, \A x \in S : f[x] \in Int /\ f[x] = g[x]
  PROVE  SumFunctionOnSet(f, S) = SumFunctionOnSet(g, S)
<1>1. Partial(f, S)[S] = Partial(g, S)[S]
  BY PartialAgree
<1> QED
  BY <1>1, SumIsFold

\* The addition begins with what is picked.
LEMMA SumPick ==
  ASSUME NEW S, IsFiniteSet(S), S # {}, NEW f, \A x \in S : f[x] \in Int
  PROVE  SumFunctionOnSet(f, S) = f[Pick(S)] + SumFunctionOnSet(f, S \ {Pick(S)})
<1> DEFINE T == S \ {Pick(S)}
<1>1. IsFiniteSet(T)
  BY PickFacts
<1>2. Partial(f, S)[S] = f[Pick(S)] + Partial(f, S)[T]
  <2>1. Partial(f, S)[S] = AddNext(Partial(f, S), f, S)
    BY PartialFacts
  <2> QED
    BY <2>1 DEF AddNext
<1>3. Partial(f, S)[T] = Partial(f, T)[T]
  <2>1. T \in SUBSET (S \cap T) /\ \A x \in T : f[x] \in Int
    OBVIOUS
  <2> HIDE DEF T
  <2> QED
    BY <1>1, <2>1, PartialAgree
<1> QED
  BY <1>2, <1>3, SumIsFold

\* It may as well begin with any other element.
LEMMA SumRemove ==
  ASSUME NEW S, IsFiniteSet(S), NEW f, \A x \in S : f[x] \in Int, NEW y \in S
  PROVE  SumFunctionOnSet(f, S) = f[y] + SumFunctionOnSet(f, S \ {y})
<1> DEFINE Sum(s) == SumFunctionOnSet(f, s)
           Odd(s) == \E x \in s : Sum(s) # f[x] + Sum(s \ {x})
           C == {s \in SUBSET S : Odd(s)}
<1> SUFFICES ASSUME C # {} PROVE FALSE
  OBVIOUS
<1>1. \A s \in SUBSET S : IsFiniteSet(s) /\ Cardinality(s) \in Nat /\ Sum(s) \in Int
  BY FS_Subset, FS_CardinalityType, SumType
<1>2. PICK s \in C : \A t \in C : Cardinality(s) <= Cardinality(t)
  <2>1. \A t \in C : IsFiniteSet(t)
    BY <1>1
  <2> HIDE DEF C
  <2> QED BY <2>1, SmallestSet
<1>3. s \in SUBSET S
  OBVIOUS
<1>4. PICK x \in s : Sum(s) # f[x] + Sum(s \ {x})
  OBVIOUS
<1> DEFINE p == Pick(s)
<1>5. p \in s /\ Sum(s) = f[p] + Sum(s \ {p})
  BY <1>1, <1>3, PickFacts, SumPick
<1>6. x # p
  BY <1>4, <1>5
<1>7. ASSUME NEW z \in s, NEW u \in s, u # z
      PROVE  Sum(s \ {z}) = f[u] + Sum(s \ {z, u})
  <2>1. Cardinality(s \ {z}) = Cardinality(s) - 1
    BY <1>1, <1>3, FS_RemoveElement
  <2>2. ~(Cardinality(s) <= Cardinality(s \ {z}))
    BY <1>1, <1>3, <2>1
  <2>3. s \ {z} \notin C
    <3> HIDE DEF C
    <3> QED BY <1>2, <2>2
  <2>4. ~Odd(s \ {z})
    BY <1>3, <2>3
  <2>5. u \in s \ {z} /\ (s \ {z}) \ {u} = s \ {z, u}
    BY <1>7
  <2> QED
    BY <2>4, <2>5
<1>8. Sum(s \ {p}) = f[x] + Sum(s \ {p, x}) /\ Sum(s \ {x}) = f[p] + Sum(s \ {x, p})
  BY <1>5, <1>6, <1>7
<1>9. s \ {p, x} = s \ {x, p} /\ Sum(s \ {p, x}) \in Int /\ f[x] \in Int /\ f[p] \in Int
  BY <1>1, <1>3, <1>5
<1>10. Sum(s) = f[p] + (f[x] + Sum(s \ {p, x})) /\ Sum(s \ {x}) = f[p] + Sum(s \ {p, x})
  BY <1>5, <1>8, <1>9
<1> HIDE DEF Sum, p
<1> QED
  BY <1>4, <1>9, <1>10

\* A sum after one of its terms has changed.
LEMMA SumUpdate ==
  ASSUME NEW S, IsFiniteSet(S), NEW f, NEW g, NEW y \in S,
         \A x \in S : f[x] \in Int /\ g[x] \in Int,
         \A x \in S : x # y => f[x] = g[x]
  PROVE  SumFunctionOnSet(g, S) = SumFunctionOnSet(f, S) - f[y] + g[y]
<1> DEFINE T == S \ {y}
<1>1. IsFiniteSet(T)
  BY FS_RemoveElement
<1>2. SumFunctionOnSet(f, S) = f[y] + SumFunctionOnSet(f, T)
  BY SumRemove
<1>3. SumFunctionOnSet(g, S) = g[y] + SumFunctionOnSet(g, T)
  BY SumRemove
<1>4. SumFunctionOnSet(f, T) = SumFunctionOnSet(g, T)
  <2>1. \A x \in T : f[x] \in Int /\ f[x] = g[x]
    OBVIOUS
  <2> HIDE DEF T
  <2> QED
    BY <1>1, <2>1, SumAgree
<1>5. SumFunctionOnSet(f, T) \in Int
  BY <1>1, SumType
<1> QED
  BY <1>2, <1>3, <1>4, <1>5

\* Two functions on a finite set that differ at one place at most.
DifferAt(f, g, S, y) ==
  /\ IsFiniteSet(S) /\ y \in S
  /\ \A x \in S : f[x] \in Int /\ g[x] \in Int
  /\ \A x \in S : x # y => f[x] = g[x]

LEMMA SumDiffer ==
  ASSUME NEW S, NEW f, NEW g, NEW y, DifferAt(f, g, S, y)
  PROVE  SumFunctionOnSet(g, S) = SumFunctionOnSet(f, S) - f[y] + g[y]
BY SumUpdate DEF DifferAt

\* A sum of terms of which those outside U are not positive and those in U at most k.
LEMMA SumAtMost ==
  ASSUME NEW S, IsFiniteSet(S), NEW f, \A x \in S : f[x] \in Int,
         NEW U \in SUBSET S, NEW k \in Nat,
         \A x \in S : f[x] <= IF x \in U THEN k ELSE 0
  PROVE  SumFunctionOnSet(f, S) <= k * Cardinality(U)
<1> DEFINE Sum(s) == SumFunctionOnSet(f, s)
           Odd(s) == ~(Sum(s) <= k * Cardinality(U \cap s))
           C == {s \in SUBSET S : Odd(s)}
<1>0. \A s \in SUBSET S : /\ IsFiniteSet(s) /\ Cardinality(s) \in Nat /\ Sum(s) \in Int
                          /\ IsFiniteSet(U \cap s) /\ Cardinality(U \cap s) \in Nat
  BY FS_Subset, FS_CardinalityType, SumType
<1>1. C = {}
  <2> SUFFICES ASSUME C # {} PROVE FALSE
    OBVIOUS
  <2>1. \A t \in C : IsFiniteSet(t)
    BY <1>0
  <2>2. PICK s \in C : \A t \in C : Cardinality(s) <= Cardinality(t)
    <3> HIDE DEF C
    <3> QED BY <2>1, SmallestSet
  <2>3. s \in SUBSET S /\ Odd(s)
    OBVIOUS
  <2>4. s # {}
    <3> SUFFICES ASSUME s = {} PROVE FALSE
      OBVIOUS
    <3>1. Sum(s) = 0
      BY SumEmpty
    <3>2. k * Cardinality(U \cap s) \in Nat
      <4>1. Cardinality(U \cap s) \in Nat
        BY <1>0, <2>3
      <4> QED
        BY <4>1
    <3> QED
      BY <2>3, <3>1, <3>2
  <2> DEFINE p == Pick(s)
             r == s \ {p}
             n == Cardinality(U \cap r)
             m == Cardinality(U \cap s)
  <2>5. p \in s /\ r \in SUBSET S /\ ~(Cardinality(s) <= Cardinality(r))
    <3>1. p \in s /\ Cardinality(r) = Cardinality(s) - 1 /\ Cardinality(s) \in Nat
      BY <1>0, <2>3, <2>4, PickFacts
    <3> QED
      BY <2>3, <3>1
  <2>6. Sum(s) = f[p] + Sum(r)
    BY <1>0, <2>3, <2>4, SumPick
  <2>7. Sum(r) <= k * n
    <3>1. r \notin C
      <4> HIDE DEF C
      <4> QED BY <2>2, <2>5
    <3> QED
      BY <2>5, <3>1
  <2>8. n \in Nat /\ m \in Nat /\ m = IF p \in U THEN n + 1 ELSE n
    <3>1. n \in Nat /\ m \in Nat
      BY <1>0, <2>3, <2>5
    <3>2. CASE p \in U
      <4>1. U \cap r = (U \cap s) \ {p} /\ p \in U \cap s
        BY <2>5, <3>2
      <4>2. n = m - 1
        <5> DEFINE V == U \cap s
        <5>1. IsFiniteSet(V) /\ p \in V /\ n = Cardinality(V \ {p}) /\ m = Cardinality(V)
          BY <1>0, <2>3, <4>1
        <5> HIDE DEF V, n, m, p
        <5> QED
          BY <5>1, FS_RemoveElement
      <4> HIDE DEF n, m
      <4> QED
        BY <3>1, <3>2, <4>2
    <3>3. CASE p \notin U
      <4>1. U \cap r = U \cap s
        BY <3>3
      <4> QED
        BY <3>1, <3>3, <4>1
    <3> QED
      BY <3>2, <3>3
  <2>9. k * (n + 1) = k * n + k /\ k * n \in Nat
    <3> HIDE DEF n
    <3> QED BY <2>8
  <2>10. f[p] \in Int /\ f[p] <= IF p \in U THEN k ELSE 0
    BY <2>3, <2>5
  <2>11. Sum(r) \in Int /\ ~(Sum(s) <= k * m)
    BY <1>0, <2>3, <2>5
  <2> HIDE DEF Sum, p, r, n, m
  <2> QED
    BY <2>6, <2>7, <2>8, <2>9, <2>10, <2>11
<1>2. ~Odd(S)
  BY <1>1
<1>3. U \cap S = U
  OBVIOUS
<1> QED
  BY <1>2, <1>3

\* A sum of terms none of which is negative is not negative, and at least each of them.
LEMMA SumAtLeast ==
  ASSUME NEW S, IsFiniteSet(S), NEW f, \A x \in S : f[x] \in Nat
  PROVE  /\ SumFunctionOnSet(f, S) \in Nat
         /\ \A x \in S : f[x] <= SumFunctionOnSet(f, S)
<1> DEFINE Sum(s) == SumFunctionOnSet(f, s)
           C == {s \in SUBSET S : ~(Sum(s) >= 0)}
<1>0. \A s \in SUBSET S : IsFiniteSet(s) /\ Cardinality(s) \in Nat /\ Sum(s) \in Int
  BY FS_Subset, FS_CardinalityType, SumType
<1>1. C = {}
  <2> SUFFICES ASSUME C # {} PROVE FALSE
    OBVIOUS
  <2>1. \A t \in C : IsFiniteSet(t)
    BY <1>0
  <2>2. PICK s \in C : \A t \in C : Cardinality(s) <= Cardinality(t)
    <3> HIDE DEF C
    <3> QED BY <2>1, SmallestSet
  <2>3. s \in SUBSET S /\ ~(Sum(s) >= 0)
    OBVIOUS
  <2>4. s # {}
    BY <2>3, SumEmpty
  <2> DEFINE p == Pick(s)
             r == s \ {p}
  <2>5. p \in s /\ r \in SUBSET S /\ ~(Cardinality(s) <= Cardinality(r))
    <3>1. p \in s /\ Cardinality(r) = Cardinality(s) - 1 /\ Cardinality(s) \in Nat
      BY <1>0, <2>3, <2>4, PickFacts
    <3> QED
      BY <2>3, <3>1
  <2>6. Sum(s) = f[p] + Sum(r)
    BY <1>0, <2>3, <2>4, SumPick
  <2>7. Sum(r) >= 0 /\ Sum(r) \in Int /\ f[p] \in Nat
    <3>1. r \notin C
      <4> HIDE DEF C
      <4> QED BY <2>2, <2>5
    <3> QED
      BY <1>0, <2>3, <2>5, <3>1
  <2> HIDE DEF Sum, p, r
  <2> QED
    BY <2>3, <2>6, <2>7
<1>2. \A s \in SUBSET S : Sum(s) \in Nat
  BY <1>0, <1>1
<1>3. ASSUME NEW x \in S PROVE f[x] <= Sum(S)
  <2>1. Sum(S) = f[x] + Sum(S \ {x})
    BY SumRemove
  <2>2. Sum(S \ {x}) \in Nat /\ f[x] \in Nat
    BY <1>2
  <2> HIDE DEF Sum
  <2> QED
    BY <2>1, <2>2
<1> QED
  BY <1>2, <1>3

\* Larger terms have a larger sum.
LEMMA SumMonotone ==
  ASSUME NEW S, IsFiniteSet(S), NEW f, NEW g,
         \A x \in S : f[x] \in Int /\ g[x] \in Int /\ f[x] <= g[x]
  PROVE  SumFunctionOnSet(f, S) <= SumFunctionOnSet(g, S)
<1> DEFINE F(s) == SumFunctionOnSet(f, s)
           G(s) == SumFunctionOnSet(g, s)
           C == {s \in SUBSET S : ~(F(s) <= G(s))}
<1> SUFFICES ASSUME C # {} PROVE FALSE
  OBVIOUS
<1>1. \A s \in SUBSET S : /\ IsFiniteSet(s) /\ Cardinality(s) \in Nat
                          /\ F(s) \in Int /\ G(s) \in Int
  BY FS_Subset, FS_CardinalityType, SumType
<1>2. PICK s \in C : \A t \in C : Cardinality(s) <= Cardinality(t)
  <2>1. \A t \in C : IsFiniteSet(t)
    BY <1>1
  <2> HIDE DEF C
  <2> QED BY <2>1, SmallestSet
<1>3. s \in SUBSET S /\ ~(F(s) <= G(s))
  OBVIOUS
<1>4. s # {}
  <2> SUFFICES ASSUME s = {} PROVE FALSE
    OBVIOUS
  <2>1. F(s) = 0 /\ G(s) = 0
    BY SumEmpty
  <2> QED
    BY <1>3, <2>1
<1> DEFINE p == Pick(s)
           r == s \ {p}
<1>5. p \in s /\ r \in SUBSET S /\ ~(Cardinality(s) <= Cardinality(r))
  <2>1. p \in s /\ Cardinality(r) = Cardinality(s) - 1 /\ Cardinality(s) \in Nat
    BY <1>1, <1>3, <1>4, PickFacts
  <2> QED
    BY <1>3, <2>1
<1>6. F(s) = f[p] + F(r) /\ G(s) = g[p] + G(r)
  BY <1>1, <1>3, <1>4, SumPick
<1>7. F(r) <= G(r) /\ F(r) \in Int /\ G(r) \in Int
  <2>1. r \notin C
    <3> HIDE DEF C
    <3> QED BY <1>2, <1>5
  <2> QED
    BY <1>1, <1>5, <2>1
<1>8. f[p] \in Int /\ g[p] \in Int /\ f[p] <= g[p]
  BY <1>3, <1>5
<1> HIDE DEF F, G, p, r
<1> QED
  BY <1>3, <1>6, <1>7, <1>8
=============================================================================
