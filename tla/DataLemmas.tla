----------------------------- MODULE DataLemmas -----------------------------
(* Lemmas about data that the proofs of several parts rest on: induction     *)
(* over the natural numbers, least elements, and sums over finite sets.      *)
(* Induction is stated for a set, that of the numbers with the property.     *)
EXTENDS FiniteSetsExt, TLAPS, FiniteSetTheorems, WellFoundedInduction

-----------------------------------------------------------------------------
(* Natural numbers. *)

LEMMA LeastNumber ==
    ASSUME NEW T, T \subseteq Nat, T # {}
    PROVE  \E x \in T : \A y \in T : x <= y
<1>1. IsWellFoundedOn(OpToRel(<, Nat), Nat)
  BY NatLessThanWellFounded
<1>2. PICK x \in T : \A y \in T : ~(<<y, x>> \in OpToRel(<, Nat))
  BY <1>1, WFMin
<1>3. \A y \in T : ~(y < x)
  BY <1>2 DEF OpToRel
<1>4. QED
  BY <1>3

LEMMA Induction ==
    ASSUME NEW S, 0 \in S, \A n \in Nat : n \in S => n + 1 \in S
    PROVE  Nat \subseteq S
<1> DEFINE T == Nat \ S
<1>1. SUFFICES ASSUME T # {} PROVE FALSE
  OBVIOUS
<1>2. PICK x \in T : \A y \in T : x <= y
  BY <1>1, LeastNumber
<1>3. x # 0 /\ x - 1 \in Nat /\ x - 1 \notin T
  BY <1>2
<1>4. QED
  BY <1>2, <1>3

LEMMA MinOfNumbers ==
    ASSUME NEW T, T \subseteq Nat, T # {}
    PROVE  Min(T) \in T /\ \A y \in T : Min(T) <= y
  BY LeastNumber DEF Min

-----------------------------------------------------------------------------
(* Sums.  MapThenSumSet takes the elements of a set one after the other.     *)

SumOf(f, S) == MapThenSumSet(LAMBDA x : f[x], S)

Chosen(s) == CHOOSE x \in s : TRUE

\* F is the sum of f over every subset of S.
Sums(F, f, S) ==
    F = [s \in SUBSET S |-> IF s = {} THEN 0
                            ELSE f[Chosen(s)] + F[s \ {Chosen(s)}]]

\* The subsets of S of at most n elements.
Small(S, n) == {s \in SUBSET S : Cardinality(s) <= n}

LEMMA OneLess ==
    ASSUME NEW s, IsFiniteSet(s), s # {}
    PROVE  /\ Chosen(s) \in s
           /\ IsFiniteSet(s \ {Chosen(s)})
           /\ Cardinality(s) \in Nat \ {0}
           /\ Cardinality(s \ {Chosen(s)}) = Cardinality(s) - 1
<1>1. Chosen(s) \in s
  BY DEF Chosen
<1>2. Cardinality(s) \in Nat /\ Cardinality(s) # 0
  BY FS_CardinalityType, FS_EmptySet
<1>3. QED
  BY <1>1, <1>2, FS_RemoveElement

LEMMA SubsetInduction ==
    ASSUME NEW S, IsFiniteSet(S), NEW B, {} \in B,
           \A s \in SUBSET S : s # {} /\ s \ {Chosen(s)} \in B => s \in B
    PROVE  SUBSET S \subseteq B
<1> DEFINE N == {n \in Nat : Small(S, n) \subseteq B}
<1>1. \A s \in SUBSET S : IsFiniteSet(s) /\ Cardinality(s) \in Nat
  BY FS_Subset, FS_CardinalityType
<1>2. 0 \in N
  <2>1. ASSUME NEW s \in Small(S, 0) PROVE s = {}
    <3>1. s \in SUBSET S /\ Cardinality(s) <= 0
      BY DEF Small
    <3>2. Cardinality(s) = 0
      BY <1>1, <3>1
    <3>3. QED
      BY <1>1, <3>1, <3>2, FS_EmptySet
  <2>2. QED
    BY <2>1
<1>3. ASSUME NEW n \in Nat, n \in N PROVE n + 1 \in N
  <2>1. ASSUME NEW s \in Small(S, n + 1), s # {} PROVE s \in B
    <3>1. s \in SUBSET S /\ Cardinality(s) <= n + 1
      BY DEF Small
    <3>2. Cardinality(s) \in Nat /\ Cardinality(s \ {Chosen(s)}) = Cardinality(s) - 1
      BY <1>1, <2>1, <3>1, OneLess
    <3>3. s \ {Chosen(s)} \in Small(S, n)
      BY <3>1, <3>2 DEF Small
    <3>4. QED
      BY <1>3, <2>1, <3>1, <3>3
  <2>2. QED
    BY <2>1
<1>4. Nat \subseteq N
  <2> HIDE DEF N
  <2>1. QED
    BY <1>2, <1>3, Induction
<1>5. ASSUME NEW s \in SUBSET S PROVE s \in B
  <2>1. Cardinality(s) \in Nat /\ s \in Small(S, Cardinality(s))
    BY <1>1 DEF Small
  <2>2. QED
    BY <1>4, <2>1
<1>6. QED
  BY <1>5

LEMMA SumsExist ==
    ASSUME NEW S, IsFiniteSet(S), NEW f \in [S -> Int]
    PROVE  \E F \in [SUBSET S -> Int] : Sums(F, f, S)
<1> DEFINE next(F, s) == IF s = {} THEN 0
                         ELSE f[Chosen(s)] + F[s \ {Chosen(s)}]
           upTo(n) == \E F \in [Small(S, n) -> Int] :
                          \A s \in Small(S, n) : F[s] = next(F, s)
           N == {n \in Nat : upTo(n)}
<1>1. \A s \in SUBSET S : IsFiniteSet(s) /\ Cardinality(s) \in Nat
  BY FS_Subset, FS_CardinalityType
<1>2. \A s \in SUBSET S : s # {} =>
          /\ Chosen(s) \in S /\ s \ {Chosen(s)} \in SUBSET S
          /\ Cardinality(s) # 0
          /\ Cardinality(s \ {Chosen(s)}) = Cardinality(s) - 1
  BY <1>1, OneLess
<1>3. 0 \in N
  <2> DEFINE F == [s \in Small(S, 0) |-> 0]
  <2>1. ASSUME NEW s \in Small(S, 0) PROVE s = {}
    <3>1. s \in SUBSET S /\ Cardinality(s) <= 0 /\ Cardinality(s) \in Nat
      BY <1>1 DEF Small
    <3>2. Cardinality(s) = 0
      BY <3>1
    <3>3. QED
      BY <1>2, <3>1, <3>2
  <2>2. F \in [Small(S, 0) -> Int] /\ \A s \in Small(S, 0) : F[s] = next(F, s)
    BY <2>1
  <2>3. QED
    BY <2>2
<1>4. ASSUME NEW n \in Nat, n \in N PROVE n + 1 \in N
  <2>1. PICK F \in [Small(S, n) -> Int] : \A s \in Small(S, n) : F[s] = next(F, s)
    BY <1>4
  <2> DEFINE G == [s \in Small(S, n + 1) |-> next(F, s)]
  <2>2. ASSUME NEW s \in Small(S, n + 1), s # {}
        PROVE  s \ {Chosen(s)} \in Small(S, n) /\ f[Chosen(s)] \in Int
    <3>1. s \in SUBSET S /\ Cardinality(s) <= n + 1 /\ Cardinality(s) \in Nat
      BY <1>1 DEF Small
    <3>2. /\ Chosen(s) \in S /\ s \ {Chosen(s)} \in SUBSET S
          /\ Cardinality(s \ {Chosen(s)}) = Cardinality(s) - 1
      BY <1>2, <2>2, <3>1
    <3>3. Cardinality(s \ {Chosen(s)}) <= n
      BY <3>1, <3>2
    <3>4. QED
      BY <3>2, <3>3 DEF Small
  <2>3. Small(S, n) \subseteq Small(S, n + 1)
    BY <1>1 DEF Small
  <2>4. G \in [Small(S, n + 1) -> Int]
    BY <2>1, <2>2
  <2>5. \A s \in Small(S, n) : G[s] = F[s]
    BY <2>1, <2>3
  <2>6. \A s \in Small(S, n + 1) : G[s] = next(G, s)
    BY <2>2, <2>5
  <2> HIDE DEF G, next
  <2>7. upTo(n + 1)
    BY <2>4, <2>6
  <2>8. QED
    BY <2>7
<1>5. Nat \subseteq N
  <2> HIDE DEF N
  <2>1. QED
    BY <1>3, <1>4, Induction
<1>6. Small(S, Cardinality(S)) = SUBSET S /\ Cardinality(S) \in Nat
  BY FS_Subset, FS_CardinalityType DEF Small
<1>7. upTo(Cardinality(S))
  BY <1>5, <1>6
<1>8. PICK F \in [SUBSET S -> Int] : \A s \in SUBSET S : F[s] = next(F, s)
  BY <1>6, <1>7
<1>9. Sums(F, f, S)
  BY <1>8 DEF Sums
<1>10. QED
  BY <1>9

\* The sum is what the library's fold chooses.
LEMMA SumOfSums ==
    ASSUME NEW S, IsFiniteSet(S), NEW f \in [S -> Int]
    PROVE  \E F \in [SUBSET S -> Int] :
               /\ F[{}] = 0
               /\ \A s \in SUBSET S : s # {} =>
                      F[s] = f[Chosen(s)] + F[s \ {Chosen(s)}]
               /\ SumOf(f, S) = F[S]
<1> DEFINE F == CHOOSE F : Sums(F, f, S)
<1>1. PICK G \in [SUBSET S -> Int] : Sums(G, f, S)
  BY SumsExist
<1>2. Sums(F, f, S)
  BY <1>1
<1>3. SumOf(f, S) = F[S]
  BY DEF SumOf, MapThenSumSet, MapThenFoldSet, Sums, Chosen
<1> HIDE DEF F
<1>4. /\ DOMAIN F = SUBSET S /\ F[{}] = 0
      /\ \A s \in SUBSET S : s # {} => F[s] = f[Chosen(s)] + F[s \ {Chosen(s)}]
      /\ F = [s \in SUBSET S |-> F[s]]
  BY <1>2 DEF Sums
<1>5. \A s \in SUBSET S : F[s] \in Int
  <2> DEFINE B == {s \in SUBSET S : F[s] \in Int}
  <2>1. {} \in B
    BY <1>4
  <2>2. ASSUME NEW s \in SUBSET S, s # {}, s \ {Chosen(s)} \in B PROVE s \in B
    <3> DEFINE x == Chosen(s)
               t == s \ {x}
    <3>1. x \in S
      BY <2>2 DEF Chosen
    <3>2. F[t] \in Int /\ f[x] \in Int /\ F[s] = f[x] + F[t]
      BY <1>4, <2>2, <3>1
    <3> HIDE DEF x, t
    <3>3. F[s] \in Int
      BY <3>2
    <3>4. QED
      BY <3>3
  <2> HIDE DEF B
  <2>3. SUBSET S \subseteq B
    BY <2>1, <2>2, SubsetInduction
  <2>4. QED
    BY <2>3 DEF B
<1>6. QED
  BY <1>3, <1>4, <1>5

\* Adding two functions adds their sums.
LEMMA SumOfAddition ==
    ASSUME NEW S, IsFiniteSet(S), NEW f \in [S -> Int], NEW g \in [S -> Int],
           NEW h \in [S -> Int], \A x \in S : h[x] = f[x] + g[x]
    PROVE  /\ SumOf(f, S) \in Int /\ SumOf(g, S) \in Int
           /\ SumOf(h, S) = SumOf(f, S) + SumOf(g, S)
<1>1. PICK F \in [SUBSET S -> Int] :
        /\ F[{}] = 0
        /\ \A s \in SUBSET S : s # {} => F[s] = f[Chosen(s)] + F[s \ {Chosen(s)}]
        /\ SumOf(f, S) = F[S]
  BY SumOfSums
<1>2. PICK G \in [SUBSET S -> Int] :
        /\ G[{}] = 0
        /\ \A s \in SUBSET S : s # {} => G[s] = g[Chosen(s)] + G[s \ {Chosen(s)}]
        /\ SumOf(g, S) = G[S]
  BY SumOfSums
<1>3. PICK H \in [SUBSET S -> Int] :
        /\ H[{}] = 0
        /\ \A s \in SUBSET S : s # {} => H[s] = h[Chosen(s)] + H[s \ {Chosen(s)}]
        /\ SumOf(h, S) = H[S]
  BY SumOfSums
<1> DEFINE B == {s \in SUBSET S : H[s] = F[s] + G[s]}
<1>4. {} \in B
  BY <1>1, <1>2, <1>3
<1>5. ASSUME NEW s \in SUBSET S, s # {}, s \ {Chosen(s)} \in B PROVE s \in B
  <2>1. Chosen(s) \in S
    BY <1>5 DEF Chosen
  <2> DEFINE t == s \ {Chosen(s)}
             x == Chosen(s)
  <2>2. /\ F[s] = f[x] + F[t] /\ G[s] = g[x] + G[t] /\ H[s] = h[x] + H[t]
        /\ h[x] = f[x] + g[x] /\ H[t] = F[t] + G[t]
        /\ f[x] \in Int /\ g[x] \in Int /\ F[t] \in Int /\ G[t] \in Int
    BY <1>1, <1>2, <1>3, <1>5, <2>1
  <2> HIDE DEF t, x
  <2>3. H[s] = F[s] + G[s]
    BY <2>2
  <2>4. QED
    BY <2>3
<1> HIDE DEF B
<1>6. SUBSET S \subseteq B
  BY <1>4, <1>5, SubsetInduction
<1>7. H[S] = F[S] + G[S]
  BY <1>6 DEF B
<1>8. QED
  BY <1>1, <1>2, <1>3, <1>7

\* A function that is e at one element and 0 elsewhere sums up to e.
LEMMA SumOfOne ==
    ASSUME NEW S, IsFiniteSet(S), NEW o \in S, NEW e \in Int,
           NEW f, f = [x \in S |-> IF x = o THEN e ELSE 0]
    PROVE  SumOf(f, S) = e
<1>1. f \in [S -> Int]
  OBVIOUS
<1>2. PICK F \in [SUBSET S -> Int] :
        /\ F[{}] = 0
        /\ \A s \in SUBSET S : s # {} => F[s] = f[Chosen(s)] + F[s \ {Chosen(s)}]
        /\ SumOf(f, S) = F[S]
  BY <1>1, SumOfSums
<1> DEFINE B == {s \in SUBSET S : F[s] = IF o \in s THEN e ELSE 0}
<1>3. {} \in B
  BY <1>2
<1>4. ASSUME NEW s \in SUBSET S, s # {}, s \ {Chosen(s)} \in B PROVE s \in B
  <2> DEFINE x == Chosen(s)
             t == s \ {x}
  <2>1. x \in s /\ x \in S
    BY <1>4 DEF Chosen
  <2>2. F[s] = f[x] + F[t] /\ F[t] = IF o \in t THEN e ELSE 0
    BY <1>2, <1>4
  <2>3. f[x] = IF x = o THEN e ELSE 0
    BY <2>1
  <2>4. o \in t <=> o \in s /\ x # o
    OBVIOUS
  <2> HIDE DEF x, t
  <2>5. F[s] = IF o \in s THEN e ELSE 0
    BY <2>1, <2>2, <2>3, <2>4
  <2>6. QED
    BY <2>5
<1> HIDE DEF B
<1>5. SUBSET S \subseteq B
  BY <1>3, <1>4, SubsetInduction
<1>6. QED
  BY <1>2, <1>5 DEF B

LEMMA SumOfZero ==
    ASSUME NEW S, IsFiniteSet(S), NEW f \in [S -> Int], \A x \in S : f[x] = 0
    PROVE  SumOf(f, S) = 0
<1>1. \A g, h \in [S -> Int] :
        (\A x \in S : h[x] = f[x] + g[x])
          => SumOf(f, S) \in Int /\ SumOf(h, S) = SumOf(f, S) + SumOf(g, S)
  BY SumOfAddition
<1>2. \A x \in S : f[x] = f[x] + f[x]
  OBVIOUS
<1>3. SumOf(f, S) \in Int /\ SumOf(f, S) = SumOf(f, S) + SumOf(f, S)
  BY <1>1, <1>2, Zenon
<1>4. \A v \in Int : v = v + v => v = 0
  OBVIOUS
<1>5. QED
  BY <1>3, <1>4, Zenon
-----------------------------------------------------------------------------
(* Recursive functions: n steps from a, each one given by a function.        *)

IsIteration(F, T, a, step, n) ==
    /\ F \in [0..n -> T]
    /\ F[0] = a
    /\ \A i \in 1..n : F[i] = step[<<i, F[i - 1]>>]

LEMMA InductionUpTo ==
    ASSUME NEW n \in Nat, NEW S, 0 \in S, \A i \in 1..n : i - 1 \in S => i \in S
    PROVE  0..n \subseteq S
<1> DEFINE N == {i \in Nat : i \in 0..n => i \in S}
<1>1. 0 \in N
  OBVIOUS
<1>2. ASSUME NEW i \in Nat, i \in N PROVE i + 1 \in N
  <2>1. i + 1 \in 0..n => i \in 0..n /\ i + 1 \in 1..n /\ i + 1 - 1 = i
    OBVIOUS
  <2>2. QED
    BY <1>2, <2>1
<1> HIDE DEF N
<1>3. Nat \subseteq N
  BY <1>1, <1>2, Induction
<1>4. QED
  BY <1>3 DEF N

LEMMA Iterates ==
    ASSUME NEW T, NEW a \in T, NEW step \in [Nat \X T -> T], NEW n \in Nat
    PROVE  \E F : IsIteration(F, T, a, step, n)
<1> DEFINE N == {m \in Nat : \E F : IsIteration(F, T, a, step, m)}
<1>1. 0 \in N
  <2> DEFINE F == [i \in 0..0 |-> a]
  <2>1. IsIteration(F, T, a, step, 0)
    BY DEF IsIteration
  <2>2. QED
    BY <2>1
<1>2. ASSUME NEW m \in Nat, m \in N PROVE m + 1 \in N
  <2>1. PICK F : IsIteration(F, T, a, step, m)
    BY <1>2
  <2>2. /\ F \in [0..m -> T] /\ F[0] = a
        /\ \A i \in 1..m : F[i] = step[<<i, F[i - 1]>>]
    BY <2>1 DEF IsIteration
  <2> DEFINE last == step[<<m + 1, F[m]>>]
             G == [i \in 0..(m + 1) |-> IF i = m + 1 THEN last ELSE F[i]]
  <2>3. F[m] \in T /\ last \in T
    BY <2>2
  <2>4. /\ \A i \in 0..m : G[i] = F[i]
        /\ G[m + 1] = last
        /\ G \in [0..(m + 1) -> T]
    <3> HIDE DEF last
    <3>1. QED
      BY <2>2, <2>3
  <2> HIDE DEF G
  <2>5. ASSUME NEW i \in 1..(m + 1) PROVE G[i] = step[<<i, G[i - 1]>>]
    <3>1. CASE i = m + 1
      <4>1. G[m] = F[m] /\ i - 1 = m
        BY <2>4, <3>1
      <4>2. QED
        BY <2>4, <3>1, <4>1
    <3>2. CASE i # m + 1
      <4>1. i \in 1..m /\ i - 1 \in 0..m
        BY <3>2
      <4>2. G[i] = F[i] /\ G[i - 1] = F[i - 1]
        BY <2>4, <4>1
      <4>3. QED
        BY <2>2, <4>1, <4>2
    <3>3. QED
      BY <3>1, <3>2
  <2>6. G[0] = a
    BY <2>2, <2>4
  <2>7. IsIteration(G, T, a, step, m + 1)
    BY <2>4, <2>5, <2>6 DEF IsIteration
  <2>8. QED
    BY <2>7
<1>3. n \in N
  <2> HIDE DEF N
  <2>1. QED
    BY <1>1, <1>2, Induction
<1>4. QED
  BY <1>3
=============================================================================
