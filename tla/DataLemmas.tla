----------------------------- MODULE DataLemmas -----------------------------
(***************************************************************************)
(* Facts about data the proofs keep needing: induction, quotients, sums     *)
(* over finite sets, and lists the code edits by position.                  *)
(*                                                                          *)
(* The induction theorems of the library are about an operator.  Here an    *)
(* induction is about a set, namely that of all numbers or subsets that     *)
(* have the property: a proof defines this set and hides its definition.    *)
(***************************************************************************)
EXTENDS Integers, SequencesExt, Lists, SequenceTheorems, FiniteSetTheorems, WellFoundedInduction, TLAPS

-----------------------------------------------------------------------------
(* Induction *)

(* Induction over the natural numbers, for a set of them. *)
LEMMA Induct ==
  ASSUME NEW S, 0 \in S, \A n \in Nat : n \in S => n + 1 \in S
  PROVE  \A n \in Nat : n \in S
<1> DEFINE T == Nat \ S
<1> SUFFICES ASSUME T # {} PROVE FALSE
  OBVIOUS
<1>1. T \subseteq Nat
  OBVIOUS
<1> HIDE DEF T
<1>2. PICK x \in T : \A y \in T : ~(<<y, x>> \in OpToRel(<, Nat))
  BY ONLY NatLessThanWellFounded, <1>1, T # {}, WFMin, Zenon
<1>3. x # 0 /\ x - 1 \in Nat /\ (x - 1) + 1 = x
  BY DEF T
<1>4. x - 1 \in T
  BY <1>3 DEF T
<1>5. <<x - 1, x>> \in OpToRel(<, Nat)
  BY <1>1, <1>3 DEF OpToRel
<1> QED
  BY <1>2, <1>4, <1>5

(* Induction over the subsets of a finite set, for a set F of them: a set   *)
(* is in F if all that lack one of its elements are.                        *)
LEMMA InductSubsets ==
  ASSUME NEW S, IsFiniteSet(S), NEW F,
         \A T \in SUBSET S : (\A x \in T : T \ {x} \in F) => T \in F
  PROVE  S \in F
<1> DEFINE N == {n \in Nat : \A T \in SUBSET S : Cardinality(T) = n => T \in F}
<1>0. \A T \in SUBSET S : IsFiniteSet(T) /\ Cardinality(T) \in Nat
  BY FS_Subset, FS_CardinalityType
<1>1. 0 \in N
  BY <1>0, FS_EmptySet
<1>2. ASSUME NEW n \in Nat, n \in N PROVE n + 1 \in N
  <2>1. ASSUME NEW T \in SUBSET S, Cardinality(T) = n + 1 PROVE T \in F
    <3>1. ASSUME NEW x \in T PROVE T \ {x} \in F
      <4>1. Cardinality(T \ {x}) = Cardinality(T) - 1
        BY <1>0, FS_RemoveElement
      <4>2. Cardinality(T \ {x}) = n
        BY <2>1, <4>1
      <4> QED
        BY <1>2, <4>2
    <3> QED
      BY <3>1
  <2> QED
    BY <2>1
<1> HIDE DEF N
<1>3. \A n \in Nat : n \in N
  BY <1>1, <1>2, Induct
<1>4. S \in SUBSET S
  OBVIOUS
<1> QED
  BY <1>0, <1>3, <1>4 DEF N

(* f holds the results of a loop of n steps that begins with base. *)
Runs(f, n, base, step) ==
    \A k \in 0..n : f[k] = IF k = 0 THEN base ELSE step[<<k, f[k - 1]>>]

(* A loop whose result is in V at every step has such an f. *)
LEMMA LoopExists ==
  ASSUME NEW n \in Nat, NEW V, NEW base \in V, NEW step \in [(1..n) \X V -> V]
  PROVE  \E f \in [0..n -> V] : Runs(f, n, base, step)
<1> DEFINE Turn(g, k) == IF k = 0 THEN base ELSE step[<<k, g[k - 1]>>]
           Upto(g, m) == \A k \in 0..n : k <= m => g[k] = Turn(g, k)
           M == {m \in Nat : \E g \in [0..n -> V] : Upto(g, m)}
<1>1. 0 \in M
  <2> DEFINE g == [k \in 0..n |-> base]
  <2>1. g \in [0..n -> V] /\ Upto(g, 0)
    OBVIOUS
  <2> QED
    BY <2>1
<1>2. ASSUME NEW m \in Nat, m \in M PROVE m + 1 \in M
  <2>1. PICK f \in [0..n -> V] : Upto(f, m)
    BY <1>2
  <2>2. \A k \in 0..n : Turn(f, k) \in V
    <3> SUFFICES ASSUME NEW k \in 0..n PROVE Turn(f, k) \in V
      OBVIOUS
    <3>1. k # 0 => k \in 1..n /\ k - 1 \in 0..n
      OBVIOUS
    <3>2. k # 0 => <<k, f[k - 1]>> \in (1..n) \X V
      BY <3>1
    <3> QED
      BY <3>2
  <2> DEFINE g == [k \in 0..n |-> IF k <= m THEN f[k] ELSE Turn(f, k)]
  <2>3. g \in [0..n -> V]
    BY <2>2
  <2>4. ASSUME NEW k \in 0..n, k <= m + 1 PROVE g[k] = Turn(g, k)
    <3>1. k # 0 => k - 1 \in 0..n /\ k - 1 <= m
      BY <2>4
    <3>2. k # 0 => g[k - 1] = f[k - 1]
      BY <3>1
    <3>4. k <= m => g[k] = f[k] /\ f[k] = Turn(f, k)
      BY <2>1
    <3>5. ~(k <= m) => g[k] = Turn(f, k)
      OBVIOUS
    <3> HIDE DEF g
    <3>3. Turn(g, k) = Turn(f, k)
      BY <3>2
    <3> HIDE DEF Turn
    <3> QED
      BY <3>3, <3>4, <3>5
  <2> HIDE DEF g, Turn
  <2>5. Upto(g, m + 1)
    BY <2>4
  <2> QED
    BY <2>3, <2>5
<1>3. n \in M
  <2> HIDE DEF M
  <2> QED
    BY <1>1, <1>2, Induct
<1>4. PICK g \in [0..n -> V] : Upto(g, n)
  BY <1>3
<1>5. \A k \in 0..n : g[k] = Turn(g, k)
  BY <1>4
<1> QED
  BY <1>5 DEF Runs

-----------------------------------------------------------------------------
(* Quotients *)

(* Multiples of n are n apart. *)
LEMMA Products ==
  ASSUME NEW n \in Nat \ {0}, NEW h \in Int, NEW k \in Int
  PROVE  /\ h * n \in Int /\ (h + 1) * n = h * n + n
         /\ h <= k => h * n <= k * n
         /\ h < k => h * n + n <= k * n
         /\ h \in Nat => h * n \in Nat
  OBVIOUS

(* A quotient and the multiple of n it stands for. *)
LEMMA Quotient ==
  ASSUME NEW n \in Nat \ {0}, NEW s \in Nat
  PROVE  /\ s \div n \in Nat
         /\ (s \div n) * n <= s
         /\ s < (s \div n) * n + n
  OBVIOUS

(* Only one multiple of n is that close below s. *)
LEMMA QuotientIs ==
  ASSUME NEW n \in Nat \ {0}, NEW s \in Nat, NEW h \in Nat, h * n <= s, s < h * n + n
  PROVE  s \div n = h
<1>1. /\ s \div n \in Nat
      /\ (s \div n) * n <= s
      /\ s < (s \div n) * n + n
  BY Quotient
<1>2. PICK q \in Nat : q = s \div n
  BY <1>1
<1>3. ~(q < h) /\ ~(h < q)
  <2>1. q < h => q * n + n <= h * n
    BY Products
  <2>2. h < q => h * n + n <= q * n
    BY Products
  <2> QED
    BY <1>1, <1>2, <2>1, <2>2, Products
<1> QED
  BY <1>2, <1>3

(* The same of integers. *)
LEMMA QuotientInt ==
  ASSUME NEW n \in Nat \ {0}, NEW s \in Int
  PROVE  /\ s \div n \in Int /\ s % n \in 0..(n - 1)
         /\ (s \div n) * n + (s % n) = s
         /\ \A h \in Int : h * n <= s /\ s < h * n + n => s \div n = h
<1>1. /\ s \div n \in Int /\ s % n \in 0..(n - 1)
      /\ (s \div n) * n + (s % n) = s
  OBVIOUS
<1>2. PICK q \in Int : q = s \div n
  BY <1>1
<1>3. PICK r \in 0..(n - 1) : r = s % n
  BY <1>1
<1>4. q * n + r = s /\ q * n \in Int
  BY <1>1, <1>2, <1>3
<1>5. ASSUME NEW h \in Int, h * n <= s, s < h * n + n PROVE q = h
  <2>0. h * n \in Int
    OBVIOUS
  <2>1. q < h => q * n + n <= h * n
    BY Products
  <2>2. h < q => h * n + n <= q * n
    BY Products
  <2> QED
    BY <1>3, <1>4, <1>5, <2>0, <2>1, <2>2
<1> QED
  BY <1>1, <1>2, <1>5

-----------------------------------------------------------------------------
(* Sums over finite sets *)

(* The element a sum begins with, and what a sum is solved for. *)
TakenFirst(s) == CHOOSE x \in s : TRUE
Accrued(f, g, s) == IF s = {} THEN 0 ELSE f[TakenFirst(s)] + g[s \ {TakenFirst(s)}]
SolvesSum(f, g, T) == g = [s \in SUBSET T |-> Accrued(f, g, s)]

(* What SumFunctionOnSet is defined to be. *)
LEMMA SumIsSolution == \A f, T : SumFunctionOnSet(f, T) = (CHOOSE g : SolvesSum(f, g, T))[T]
  BY DEF SumFunctionOnSet, FoldFunctionOnSet, MapThenFoldSet, SolvesSum, Accrued, TakenFirst

(* The recursion behind a sum over a finite set has a solution... *)
LEMMA SolutionExists ==
  ASSUME NEW f, NEW S, IsFiniteSet(S)
  PROVE  \E g : SolvesSum(f, g, S)
<1> DEFINE Upto(g, n) == /\ g = [s \in SUBSET S |-> g[s]]
                         /\ \A s \in SUBSET S : Cardinality(s) <= n => g[s] = Accrued(f, g, s)
           N == {n \in Nat : \E g : Upto(g, n)}
<1>0. \A T \in SUBSET S : IsFiniteSet(T) /\ Cardinality(T) \in Nat
  BY FS_Subset, FS_CardinalityType
<1>1. 0 \in N
  <2> DEFINE g == [s \in SUBSET S |-> 0]
  <2>1. \A s \in SUBSET S : Cardinality(s) <= 0 => s = {}
    BY <1>0, FS_EmptySet
  <2>2. \A s \in SUBSET S : Cardinality(s) <= 0 => g[s] = Accrued(f, g, s)
    BY <2>1 DEF Accrued
  <2>3. g = [s \in SUBSET S |-> g[s]]
    OBVIOUS
  <2> HIDE DEF g
  <2>4. Upto(g, 0)
    BY <2>2, <2>3
  <2> QED
    BY <2>4
<1>2. ASSUME NEW n \in Nat, n \in N PROVE n + 1 \in N
  <2>1. PICK g : Upto(g, n)
    BY <1>2
  <2> DEFINE h == [s \in SUBSET S |-> IF Cardinality(s) <= n THEN g[s] ELSE Accrued(f, g, s)]
  <2>2. ASSUME NEW s \in SUBSET S, Cardinality(s) <= n + 1 PROVE h[s] = Accrued(f, h, s)
    <3>1. h[s] = Accrued(f, g, s)
      BY <2>1
    <3>2. ASSUME s # {} PROVE h[s \ {TakenFirst(s)}] = g[s \ {TakenFirst(s)}]
      <4>1. TakenFirst(s) \in s
        BY <3>2 DEF TakenFirst
      <4>2. Cardinality(s \ {TakenFirst(s)}) = Cardinality(s) - 1
        BY <1>0, <4>1, FS_RemoveElement
      <4>3. Cardinality(s \ {TakenFirst(s)}) <= n /\ s \ {TakenFirst(s)} \in SUBSET S
        BY <1>0, <2>2, <4>2
      <4> QED
        BY <4>3
    <3> QED
      BY <3>1, <3>2 DEF Accrued
  <2>3. h = [s \in SUBSET S |-> h[s]]
    OBVIOUS
  <2> HIDE DEF h
  <2>4. Upto(h, n + 1)
    BY <2>2, <2>3
  <2> HIDE DEF Upto
  <2>5. \E k : Upto(k, n + 1)
    BY <2>4
  <2> QED
    BY <2>5
<1> HIDE DEF N
<1>3. Cardinality(S) \in N
  BY <1>0, <1>1, <1>2, Induct
<1>4. PICK g : Upto(g, Cardinality(S))
  BY <1>3 DEF N
<1>5. \A s \in SUBSET S : Cardinality(s) <= Cardinality(S)
  BY FS_Subset
<1>6. \A s \in SUBSET S : g[s] = Accrued(f, g, s)
  BY <1>4, <1>5
<1>7. g = [s \in SUBSET S |-> Accrued(f, g, s)]
  BY <1>4, <1>6
<1> QED
  BY <1>7 DEF SolvesSum

(* ... and only one. *)
LEMMA SolutionsAgree ==
  ASSUME NEW f, NEW S, IsFiniteSet(S), NEW T \in SUBSET S,
         NEW g, SolvesSum(f, g, S), NEW h, SolvesSum(f, h, T)
  PROVE  g[T] = h[T]
<1> DEFINE F == {U \in SUBSET T : g[U] = h[U]}
<1>1. \A U \in SUBSET T : g[U] = Accrued(f, g, U) /\ h[U] = Accrued(f, h, U)
  BY DEF SolvesSum
<1>2. ASSUME NEW U \in SUBSET T, \A x \in U : U \ {x} \in F PROVE U \in F
  <2>1. U # {} => TakenFirst(U) \in U
    BY DEF TakenFirst
  <2>2. U # {} => g[U \ {TakenFirst(U)}] = h[U \ {TakenFirst(U)}]
    BY <1>2, <2>1
  <2> QED
    BY <1>1, <2>2 DEF Accrued
<1>3. IsFiniteSet(T)
  BY FS_Subset
<1> HIDE DEF F
<1>4. T \in F
  BY <1>2, <1>3, InductSubsets
<1> QED
  BY <1>4 DEF F

(* The sum over a set that is not empty, by the element it takes first. *)
LEMMA SumUnfolds ==
  ASSUME NEW f, NEW S, IsFiniteSet(S)
  PROVE  /\ S = {} => SumFunctionOnSet(f, S) = 0
         /\ S # {} => /\ TakenFirst(S) \in S
                      /\ SumFunctionOnSet(f, S)
                           = f[TakenFirst(S)] + SumFunctionOnSet(f, S \ {TakenFirst(S)})
<1> DEFINE g == CHOOSE g : SolvesSum(f, g, S)
           U == S \ {TakenFirst(S)}
           h == CHOOSE h : SolvesSum(f, h, U)
<1>1. IsFiniteSet(U) /\ U \in SUBSET S
  BY FS_Subset
<1>2. SolvesSum(f, g, S) /\ SolvesSum(f, h, U)
  BY <1>1, SolutionExists
<1>3. SumFunctionOnSet(f, S) = g[S] /\ SumFunctionOnSet(f, U) = h[U]
  BY SumIsSolution
<1> HIDE DEF g, h
<1>4. g[U] = h[U]
  BY <1>1, <1>2, SolutionsAgree
<1>5. g[S] = Accrued(f, g, S)
  BY <1>2 DEF SolvesSum
<1> QED
  BY <1>3, <1>4, <1>5 DEF Accrued, TakenFirst

(* A sum of integers is an integer. *)
LEMMA SumInt ==
  ASSUME NEW f, NEW S, IsFiniteSet(S), \A x \in S : f[x] \in Int
  PROVE  SumFunctionOnSet(f, S) \in Int
<1> DEFINE F == {T \in SUBSET S : SumFunctionOnSet(f, T) \in Int}
<1>1. ASSUME NEW T \in SUBSET S, \A x \in T : T \ {x} \in F PROVE T \in F
  <2>1. IsFiniteSet(T)
    BY FS_Subset
  <2>2. CASE T = {}
    <3>1. SumFunctionOnSet(f, T) = 0
      BY <2>1, <2>2, SumUnfolds
    <3> QED
      BY <3>1
  <2>3. CASE T # {}
    <3>1. /\ TakenFirst(T) \in T
          /\ SumFunctionOnSet(f, T) = f[TakenFirst(T)] + SumFunctionOnSet(f, T \ {TakenFirst(T)})
      BY <2>1, <2>3, SumUnfolds
    <3>2. SumFunctionOnSet(f, T \ {TakenFirst(T)}) \in Int /\ f[TakenFirst(T)] \in Int
      BY <1>1, <3>1
    <3>3. SumFunctionOnSet(f, T) \in Int
      BY <3>1, <3>2
    <3> QED
      BY <3>3
  <2> QED
    BY <2>2, <2>3
<1> HIDE DEF F
<1>2. S \in F
  BY <1>1, InductSubsets, Zenon
<1> QED
  BY <1>2 DEF F

(* A sum of natural numbers is a natural number. *)
LEMMA SumNat ==
  ASSUME NEW f, NEW S, IsFiniteSet(S), \A x \in S : f[x] \in Nat
  PROVE  SumFunctionOnSet(f, S) \in Nat
<1> DEFINE F == {T \in SUBSET S : SumFunctionOnSet(f, T) \in Nat}
<1>1. ASSUME NEW T \in SUBSET S, \A x \in T : T \ {x} \in F PROVE T \in F
  <2>1. IsFiniteSet(T)
    BY FS_Subset
  <2>2. CASE T = {}
    <3>1. SumFunctionOnSet(f, T) = 0
      BY <2>1, <2>2, SumUnfolds
    <3> QED
      BY <3>1
  <2>3. CASE T # {}
    <3>1. /\ TakenFirst(T) \in T
          /\ SumFunctionOnSet(f, T) = f[TakenFirst(T)] + SumFunctionOnSet(f, T \ {TakenFirst(T)})
      BY <2>1, <2>3, SumUnfolds
    <3>2. SumFunctionOnSet(f, T \ {TakenFirst(T)}) \in Nat /\ f[TakenFirst(T)] \in Nat
      BY <1>1, <3>1
    <3>3. SumFunctionOnSet(f, T) \in Nat
      BY <3>1, <3>2
    <3> QED
      BY <3>3
  <2> QED
    BY <2>2, <2>3
<1> HIDE DEF F
<1>2. S \in F
  BY <1>1, InductSubsets, Zenon
<1> QED
  BY <1>2 DEF F

(* Any element may be taken out of a sum first. *)
LEMMA SumTakesOut ==
  ASSUME NEW f, NEW S, IsFiniteSet(S), \A x \in S : f[x] \in Int, NEW a \in S
  PROVE  SumFunctionOnSet(f, S) = f[a] + SumFunctionOnSet(f, S \ {a})
<1> DEFINE Sum(T) == SumFunctionOnSet(f, T)
           F == {T \in SUBSET S : \A x \in T : Sum(T) = f[x] + Sum(T \ {x})}
<1>0. \A T \in SUBSET S : IsFiniteSet(T) /\ Sum(T) \in Int
  BY FS_Subset, SumInt
<1>1. ASSUME NEW T \in SUBSET S, \A x \in T : T \ {x} \in F PROVE T \in F
  <2>1. ASSUME NEW x \in T, x # TakenFirst(T) PROVE Sum(T) = f[x] + Sum(T \ {x})
    <3> DEFINE c == TakenFirst(T)
    <3>1. c \in T /\ Sum(T) = f[c] + Sum(T \ {c})
      BY <1>0, <2>1, SumUnfolds
    <3>2. Sum(T \ {c}) = f[x] + Sum((T \ {c}) \ {x})
      BY <1>1, <2>1, <3>1
    <3>3. Sum(T \ {x}) = f[c] + Sum((T \ {x}) \ {c})
      BY <1>1, <2>1, <3>1
    <3>4. Sum((T \ {c}) \ {x}) = Sum((T \ {x}) \ {c})
      <4>1. (T \ {c}) \ {x} = (T \ {x}) \ {c}
        OBVIOUS
      <4> QED
        BY <4>1
    <3>5. f[x] \in Int /\ f[c] \in Int /\ Sum((T \ {c}) \ {x}) \in Int
      BY <1>0, <3>1
    <3>6. \A p, q, u \in Int : p + (q + u) = q + (p + u)
      OBVIOUS
    <3> HIDE DEF c, Sum
    <3> QED
      BY <3>1, <3>2, <3>3, <3>4, <3>5, <3>6
  <2>2. ASSUME NEW x \in T, x = TakenFirst(T) PROVE Sum(T) = f[x] + Sum(T \ {x})
    BY <1>0, <2>2, SumUnfolds
  <2> QED
    BY <2>1, <2>2
<1> HIDE DEF F
<1>2. S \in F
  BY <1>1, InductSubsets, Zenon
<1> QED
  BY <1>2 DEF F

(* Two sums of the same terms are equal. *)
LEMMA SumSame ==
  ASSUME NEW f, NEW g, NEW S, IsFiniteSet(S), \A x \in S : f[x] = g[x]
  PROVE  SumFunctionOnSet(f, S) = SumFunctionOnSet(g, S)
<1> DEFINE F == {T \in SUBSET S : SumFunctionOnSet(f, T) = SumFunctionOnSet(g, T)}
<1>1. ASSUME NEW T \in SUBSET S, \A x \in T : T \ {x} \in F PROVE T \in F
  <2>1. IsFiniteSet(T)
    BY FS_Subset
  <2>2. CASE T = {}
    <3>1. SumFunctionOnSet(f, T) = 0 /\ SumFunctionOnSet(g, T) = 0
      BY <2>1, <2>2, SumUnfolds
    <3> QED
      BY <3>1
  <2>3. CASE T # {}
    <3>1. /\ TakenFirst(T) \in T
          /\ SumFunctionOnSet(f, T) = f[TakenFirst(T)] + SumFunctionOnSet(f, T \ {TakenFirst(T)})
          /\ SumFunctionOnSet(g, T) = g[TakenFirst(T)] + SumFunctionOnSet(g, T \ {TakenFirst(T)})
      BY <2>1, <2>3, SumUnfolds
    <3>2. SumFunctionOnSet(f, T) = SumFunctionOnSet(g, T)
      BY <1>1, <3>1
    <3> QED
      BY <3>2
  <2> QED
    BY <2>2, <2>3
<1> HIDE DEF F
<1>2. S \in F
  BY <1>1, InductSubsets, Zenon
<1> QED
  BY <1>2 DEF F

(* Terms that are sums. *)
LEMMA SumOfSums ==
  ASSUME NEW f, NEW g, NEW h, NEW S, IsFiniteSet(S),
         \A x \in S : f[x] \in Int /\ g[x] \in Int /\ h[x] = f[x] + g[x]
  PROVE  SumFunctionOnSet(h, S) = SumFunctionOnSet(f, S) + SumFunctionOnSet(g, S)
<1> DEFINE Sum(e, T) == SumFunctionOnSet(e, T)
           F == {T \in SUBSET S : Sum(h, T) = Sum(f, T) + Sum(g, T)}
<1>0. \A T \in SUBSET S : IsFiniteSet(T) /\ Sum(f, T) \in Int /\ Sum(g, T) \in Int
  BY FS_Subset, SumInt
<1>1. ASSUME NEW T \in SUBSET S, \A x \in T : T \ {x} \in F PROVE T \in F
  <2>1. CASE T = {}
    <3>1. Sum(f, T) = 0 /\ Sum(g, T) = 0 /\ Sum(h, T) = 0
      BY <1>0, <2>1, SumUnfolds
    <3> QED
      BY <3>1
  <2>2. CASE T # {}
    <3> DEFINE c == TakenFirst(T)
    <3>1. c \in T /\ Sum(f, T) = f[c] + Sum(f, T \ {c}) /\ Sum(g, T) = g[c] + Sum(g, T \ {c})
          /\ Sum(h, T) = h[c] + Sum(h, T \ {c})
      BY <1>0, <2>2, SumUnfolds
    <3>2. Sum(h, T \ {c}) = Sum(f, T \ {c}) + Sum(g, T \ {c})
      BY <1>1, <3>1
    <3>3. f[c] \in Int /\ g[c] \in Int /\ h[c] = f[c] + g[c]
          /\ Sum(f, T \ {c}) \in Int /\ Sum(g, T \ {c}) \in Int
      BY <1>0, <3>1
    <3>4. Sum(h, T) = Sum(f, T) + Sum(g, T)
      BY <3>1, <3>2, <3>3
    <3> QED
      BY <3>4
  <2> QED
    BY <2>1, <2>2
<1> HIDE DEF F
<1>2. S \in F
  BY <1>1, InductSubsets, Zenon
<1> QED
  BY <1>2 DEF F

(* Nothing adds up to nothing. *)
LEMMA SumOfZeros ==
  ASSUME NEW f, NEW S, IsFiniteSet(S), \A x \in S : f[x] = 0
  PROVE  SumFunctionOnSet(f, S) = 0
<1> DEFINE Z == {0}
<1> DEFINE F == {T \in SUBSET S : SumFunctionOnSet(f, T) = 0}
<1>1. ASSUME NEW T \in SUBSET S, \A x \in T : T \ {x} \in F PROVE T \in F
  <2>1. IsFiniteSet(T)
    BY FS_Subset
  <2>2. CASE T = {}
    <3>1. SumFunctionOnSet(f, T) = 0
      BY <2>1, <2>2, SumUnfolds
    <3> QED
      BY <3>1
  <2>3. CASE T # {}
    <3>1. /\ TakenFirst(T) \in T
          /\ SumFunctionOnSet(f, T) = f[TakenFirst(T)] + SumFunctionOnSet(f, T \ {TakenFirst(T)})
      BY <2>1, <2>3, SumUnfolds
    <3>2. SumFunctionOnSet(f, T) = 0
      BY <1>1, <3>1
    <3> QED
      BY <3>2
  <2> QED
    BY <2>2, <2>3
<1> HIDE DEF F
<1>2. S \in F
  BY <1>1, InductSubsets, Zenon
<1> QED
  BY <1>2 DEF F

(* A sum in which at most one term is not zero. *)
LEMMA SumOfOne ==
  ASSUME NEW f, NEW S, IsFiniteSet(S), NEW a \in S, f[a] \in Int, \A x \in S \ {a} : f[x] = 0
  PROVE  SumFunctionOnSet(f, S) = f[a]
<1>1. SumFunctionOnSet(f, S) = f[a] + SumFunctionOnSet(f, S \ {a})
  BY SumTakesOut
<1>2. SumFunctionOnSet(f, S \ {a}) = 0
  BY FS_Subset, SumOfZeros
<1> QED
  BY <1>1, <1>2

(* A sum of natural numbers is not less than one of its terms. *)
LEMMA SumAboveTerm ==
  ASSUME NEW f, NEW S, IsFiniteSet(S), NEW a \in S, \A x \in S : f[x] \in Nat
  PROVE  f[a] <= SumFunctionOnSet(f, S)
<1>1. SumFunctionOnSet(f, S) = f[a] + SumFunctionOnSet(f, S \ {a})
  BY SumTakesOut
<1>2. SumFunctionOnSet(f, S \ {a}) \in Nat
  <2>1. IsFiniteSet(S \ {a})
    BY FS_Subset
  <2> QED
    BY <2>1, SumNat
<1> QED
  BY <1>1, <1>2

(* A sum is the sum over a part and the sum over the rest. *)
LEMMA SumSplits ==
  ASSUME NEW f, NEW S, IsFiniteSet(S), \A x \in S : f[x] \in Int, NEW E \in SUBSET S
  PROVE  SumFunctionOnSet(f, S) = SumFunctionOnSet(f, E) + SumFunctionOnSet(f, S \ E)
<1> DEFINE Sum(T) == SumFunctionOnSet(f, T)
           F == {T \in SUBSET S : Sum(T) = Sum(T \cap E) + Sum(T \ E)}
<1>0. \A T \in SUBSET S : IsFiniteSet(T) /\ Sum(T) \in Int
  BY FS_Subset, SumInt
<1>1. ASSUME NEW T \in SUBSET S, \A x \in T : T \ {x} \in F PROVE T \in F
  <2>1. CASE T = {}
    <3>1. T \cap E = {} /\ T \ E = {} /\ Sum({}) = 0
      BY <1>0, <2>1, SumUnfolds
    <3> QED
      BY <2>1, <3>1
  <2>2. ASSUME NEW c \in T PROVE T \in F
    <3>1. Sum(T) = f[c] + Sum(T \ {c}) /\ f[c] \in Int
      BY <1>0, SumTakesOut
    <3>2. Sum(T \ {c}) = Sum((T \ {c}) \cap E) + Sum((T \ {c}) \ E)
      BY <1>1
    <3>3. /\ Sum((T \ {c}) \cap E) \in Int /\ Sum((T \ {c}) \ E) \in Int
      BY <1>0
    <3>4. CASE c \in E
      <4>1. (T \ {c}) \cap E = (T \cap E) \ {c} /\ (T \ {c}) \ E = T \ E /\ c \in T \cap E
        BY <3>4
      <4>2. Sum(T \cap E) = f[c] + Sum((T \cap E) \ {c})
        BY <1>0, <4>1, SumTakesOut
      <4>3. Sum(T) = f[c] + (Sum((T \cap E) \ {c}) + Sum(T \ E))
        BY <3>1, <3>2, <4>1
      <4>4. Sum((T \cap E) \ {c}) \in Int /\ Sum(T \ E) \in Int
        BY <3>3, <4>1
      <4>5. Sum(T) = Sum(T \cap E) + Sum(T \ E)
        BY <3>1, <4>2, <4>3, <4>4
      <4> QED
        BY <4>5
    <3>5. CASE c \notin E
      <4>1. (T \ {c}) \cap E = T \cap E /\ (T \ {c}) \ E = (T \ E) \ {c} /\ c \in T \ E
        BY <3>5
      <4>2. Sum(T \ E) = f[c] + Sum((T \ E) \ {c})
        BY <1>0, <4>1, SumTakesOut
      <4>3. Sum(T) = f[c] + (Sum(T \cap E) + Sum((T \ E) \ {c}))
        BY <3>1, <3>2, <4>1
      <4>4. Sum(T \cap E) \in Int /\ Sum((T \ E) \ {c}) \in Int
        BY <3>3, <4>1
      <4>5. Sum(T) = Sum(T \cap E) + Sum(T \ E)
        BY <3>1, <4>2, <4>3, <4>4
      <4> QED
        BY <4>5
    <3> QED
      BY <3>4, <3>5
  <2> QED
    BY <2>1, <2>2
<1> HIDE DEF F
<1>2. S \in F
  BY <1>1, InductSubsets, Zenon
<1>3. S \cap E = E
  OBVIOUS
<1> QED
  BY <1>2, <1>3 DEF F

(* A sum is monotone in its terms. *)
LEMMA SumMonotone ==
  ASSUME NEW f, NEW g, NEW S, IsFiniteSet(S),
         \A x \in S : f[x] \in Int /\ g[x] \in Int /\ f[x] <= g[x]
  PROVE  SumFunctionOnSet(f, S) <= SumFunctionOnSet(g, S)
<1> DEFINE h == [x \in S |-> g[x] - f[x]]
<1>1. \A x \in S : h[x] \in Nat /\ h[x] \in Int /\ g[x] = f[x] + h[x]
  OBVIOUS
<1> HIDE DEF h
<1>2. SumFunctionOnSet(g, S) = SumFunctionOnSet(f, S) + SumFunctionOnSet(h, S)
  BY <1>1, SumOfSums
<1>3. SumFunctionOnSet(h, S) \in Nat /\ SumFunctionOnSet(f, S) \in Int
  BY <1>1, SumInt, SumNat
<1> QED
  BY <1>2, <1>3

(* The elements of S that m puts in the group of a. *)
Group(S, m, a) == {x \in S : m[x] = a}
SumsUp(g, A, f, S, m) == \A a \in A : g[a] = SumFunctionOnSet(f, Group(S, m, a))

(* A sum by groups: each term is in the group m puts it in. *)
LEMMA SumByGroup ==
  ASSUME NEW f, NEW S, IsFiniteSet(S), \A x \in S : f[x] \in Int,
         NEW m, NEW A, IsFiniteSet(A), \A x \in S : m[x] \in A,
         NEW g, SumsUp(g, A, f, S, m)
  PROVE  SumFunctionOnSet(g, A) = SumFunctionOnSet(f, S)
<1> DEFINE In(B) == {x \in S : m[x] \in B}
           F == {B \in SUBSET A : SumFunctionOnSet(g, B) = SumFunctionOnSet(f, In(B))}
<1> USE DEF Group, SumsUp
<1>0. \A a \in A : g[a] \in Int
  <2> SUFFICES ASSUME NEW a \in A PROVE SumFunctionOnSet(f, {x \in S : m[x] = a}) \in Int
    OBVIOUS
  <2>1. IsFiniteSet({x \in S : m[x] = a})
    BY FS_Subset
  <2> QED
    BY <2>1, SumInt
<1>1. ASSUME NEW B \in SUBSET A, \A a \in B : B \ {a} \in F PROVE B \in F
  <2>0. IsFiniteSet(B)
    BY FS_Subset
  <2>1. CASE B = {}
    <3>1. In(B) = {}
      BY <2>1
    <3>2. SumFunctionOnSet(g, B) = 0 /\ SumFunctionOnSet(f, In(B)) = 0
      BY <2>1, <3>1, FS_EmptySet, SumUnfolds
    <3> QED
      BY <3>2
  <2>2. CASE B # {}
    <3>1. PICK a \in B : TRUE
      BY <2>2
    <3> DEFINE E == {x \in S : m[x] = a}
    <3>2. SumFunctionOnSet(g, B) = g[a] + SumFunctionOnSet(g, B \ {a})
      <4>1. \A b \in B : g[b] \in Int
        BY <1>0
      <4> QED
        BY <2>0, <4>1, SumTakesOut
    <3>3. E \in SUBSET In(B) /\ In(B) \ E = In(B \ {a})
      OBVIOUS
    <3>4. SumFunctionOnSet(f, In(B)) = SumFunctionOnSet(f, E) + SumFunctionOnSet(f, In(B) \ E)
      <4>1. IsFiniteSet(In(B)) /\ \A x \in In(B) : f[x] \in Int
        BY FS_Subset
      <4> HIDE DEF E, In
      <4> QED
        BY <3>3, <4>1, SumSplits
    <3>5. SumFunctionOnSet(g, B \ {a}) = SumFunctionOnSet(f, In(B \ {a}))
      BY <1>1, <3>1
    <3>6. g[a] = SumFunctionOnSet(f, E)
      BY <3>1
    <3> HIDE DEF E, In
    <3> QED
      BY <3>2, <3>3, <3>4, <3>5, <3>6
  <2> QED
    BY <2>1, <2>2
<1> HIDE DEF F
<1>2. A \in F
  BY <1>1, InductSubsets
<1>3. In(A) = S
  OBVIOUS
<1> QED
  BY <1>2, <1>3 DEF F

(* A sum over a part is the sum of all in which the others count nothing. *)
LEMMA SumWhere ==
  ASSUME NEW f, NEW S, IsFiniteSet(S), NEW E \in SUBSET S, \A x \in E : f[x] \in Int,
         NEW g, \A x \in E : g[x] = f[x], \A x \in S \ E : g[x] = 0
  PROVE  SumFunctionOnSet(f, E) = SumFunctionOnSet(g, S)
<1>1. \A x \in S : g[x] \in Int
  OBVIOUS
<1>2. SumFunctionOnSet(g, S) = SumFunctionOnSet(g, E) + SumFunctionOnSet(g, S \ E)
  BY <1>1, SumSplits
<1>3. IsFiniteSet(E) /\ IsFiniteSet(S \ E)
  BY FS_Subset
<1>4. SumFunctionOnSet(g, E) = SumFunctionOnSet(f, E)
  BY <1>3, SumSame
<1>5. SumFunctionOnSet(g, S \ E) = 0
  BY <1>3, SumOfZeros
<1>6. SumFunctionOnSet(f, E) \in Int
  BY <1>3, SumInt
<1> QED
  BY <1>2, <1>4, <1>5, <1>6

(* A sum of ones counts. *)
LEMMA SumOfOnes ==
  ASSUME NEW f, NEW S, IsFiniteSet(S), \A x \in S : f[x] = 1
  PROVE  SumFunctionOnSet(f, S) = Cardinality(S)
<1> DEFINE F == {T \in SUBSET S : SumFunctionOnSet(f, T) = Cardinality(T)}
<1>1. ASSUME NEW T \in SUBSET S, \A x \in T : T \ {x} \in F PROVE T \in F
  <2>1. IsFiniteSet(T)
    BY FS_Subset
  <2>2. CASE T = {}
    <3>1. SumFunctionOnSet(f, T) = 0 /\ Cardinality(T) = 0
      BY <2>1, <2>2, SumUnfolds, FS_EmptySet
    <3> QED
      BY <3>1
  <2>3. CASE T # {}
    <3>1. PICK x \in T : TRUE
      BY <2>3
    <3>2. SumFunctionOnSet(f, T) = f[x] + SumFunctionOnSet(f, T \ {x})
      <4>1. \A y \in T : f[y] \in Int
        OBVIOUS
      <4> QED
        BY <2>1, <3>1, <4>1, SumTakesOut
    <3>3. Cardinality(T \ {x}) = Cardinality(T) - 1 /\ Cardinality(T) \in Nat
      BY <2>1, <3>1, FS_RemoveElement, FS_CardinalityType
    <3>4. SumFunctionOnSet(f, T \ {x}) = Cardinality(T \ {x})
      BY <1>1, <3>1
    <3>5. f[x] = 1
      BY <3>1
    <3> HIDE DEF F
    <3>6. SumFunctionOnSet(f, T) = Cardinality(T)
      BY <3>2, <3>3, <3>4, <3>5
    <3> QED
      BY <3>6 DEF F
  <2> QED
    BY <2>2, <2>3
<1> HIDE DEF F
<1>2. S \in F
  BY <1>1, InductSubsets
<1> QED
  BY <1>2 DEF F

(* The sums of a table by its columns and by its rows. *)
Across(f, R, s) == [r \in R |-> f[<<r, s>>]]
Down(f, S, r) == [s \in S |-> f[<<r, s>>]]
SumsAcross(A, S, f, R) == \A s \in S : A[s] = SumFunctionOnSet(Across(f, R, s), R)
SumsDown(B, R, f, S) == \A r \in R : B[r] = SumFunctionOnSet(Down(f, S, r), S)

(* Both add up to the same. *)
LEMMA SumSwapped ==
  ASSUME NEW R, IsFiniteSet(R), NEW S, IsFiniteSet(S),
         NEW f, \A r \in R, s \in S : f[<<r, s>>] \in Int,
         NEW A, SumsAcross(A, S, f, R), NEW B, SumsDown(B, R, f, S)
  PROVE  SumFunctionOnSet(A, S) = SumFunctionOnSet(B, R)
<1> DEFINE Upto(T) == [s \in S |-> SumFunctionOnSet(Across(f, R, s), T)]
           F == {T \in SUBSET R : SumFunctionOnSet(Upto(T), S) = SumFunctionOnSet(B, T)}
<1>1. \A r \in R, s \in S : Across(f, R, s)[r] = f[<<r, s>>] /\ Down(f, S, r)[s] = f[<<r, s>>]
  BY DEF Across, Down
<1>2. \A T \in SUBSET R : IsFiniteSet(T)
  BY FS_Subset
<1>3. ASSUME NEW T \in SUBSET R, NEW s \in S
      PROVE  SumFunctionOnSet(Across(f, R, s), T) \in Int
  BY <1>1, <1>2, SumInt
<1>4. \A r \in R : B[r] \in Int
  <2>1. ASSUME NEW r \in R PROVE SumFunctionOnSet(Down(f, S, r), S) \in Int
    <3>1. PICK g : g = Down(f, S, r)
      OBVIOUS
    <3>2. \A s \in S : g[s] \in Int
      BY <1>1, <3>1
    <3> QED
      BY <3>1, <3>2, SumInt
  <2> QED
    BY <2>1 DEF SumsDown
<1>5. ASSUME NEW T \in SUBSET R, \A x \in T : T \ {x} \in F PROVE T \in F
  <2>1. CASE T = {}
    <3>1. PICK u : u = Upto(T)
      OBVIOUS
    <3>2. \A s \in S : u[s] = 0
      BY <1>2, <2>1, <3>1, SumUnfolds
    <3>3. SumFunctionOnSet(u, S) = 0 /\ SumFunctionOnSet(B, T) = 0
      BY <1>2, <2>1, <3>2, SumOfZeros, SumUnfolds
    <3> QED
      BY <3>1, <3>3
  <2>2. CASE T # {}
    <3>1. PICK x \in T : TRUE
      BY <2>2
    <3>2. PICK g : g = Down(f, S, x)
      OBVIOUS
    <3>3. PICK v : v = Upto(T \ {x})
      OBVIOUS
    <3>4. PICK u : u = Upto(T)
      OBVIOUS
    <3>5. ASSUME NEW s \in S PROVE g[s] \in Int /\ v[s] \in Int /\ u[s] = g[s] + v[s]
      <4>1. PICK a : a = Across(f, R, s)
        OBVIOUS
      <4>2. \A r \in T : a[r] \in Int
        BY <1>1, <4>1
      <4>3. SumFunctionOnSet(a, T) = a[x] + SumFunctionOnSet(a, T \ {x})
        BY <1>2, <3>1, <4>2, SumTakesOut
      <4>4. a[x] = g[s] /\ a[x] \in Int
        BY <1>1, <3>1, <3>2, <4>1
      <4>5. u[s] = SumFunctionOnSet(a, T) /\ v[s] = SumFunctionOnSet(a, T \ {x})
        BY <3>3, <3>4, <4>1
      <4>6. T \ {x} \in SUBSET R
        OBVIOUS
      <4>7. SumFunctionOnSet(a, T \ {x}) \in Int
        BY <1>3, <4>1, <4>6
      <4> QED
        BY <4>3, <4>4, <4>5, <4>7
    <3>6. SumFunctionOnSet(u, S) = SumFunctionOnSet(g, S) + SumFunctionOnSet(v, S)
      BY <3>5, SumOfSums
    <3>7. SumFunctionOnSet(g, S) = B[x]
      BY <3>1, <3>2 DEF SumsDown
    <3>8. SumFunctionOnSet(v, S) = SumFunctionOnSet(B, T \ {x})
      BY <1>5, <3>1, <3>3
    <3>9. SumFunctionOnSet(B, T) = B[x] + SumFunctionOnSet(B, T \ {x})
      BY <1>2, <1>4, <3>1, SumTakesOut
    <3> QED
      BY <3>4, <3>6, <3>7, <3>8, <3>9
  <2> QED
    BY <2>1, <2>2
<1> HIDE DEF F
<1>6. R \in F
  BY <1>5, InductSubsets
<1>7. PICK u : u = Upto(R)
  OBVIOUS
<1>8. SumFunctionOnSet(u, S) = SumFunctionOnSet(B, R)
  BY <1>6, <1>7 DEF F
<1>9. \A s \in S : u[s] = A[s]
  BY <1>7 DEF SumsAcross
<1> QED
  BY <1>8, <1>9, SumSame

(* A set of integers that is finite and not empty has a greatest element. *)
LEMMA GreatestThere ==
  ASSUME NEW S, IsFiniteSet(S), S \subseteq Int, S # {}
  PROVE  \E x \in S : \A y \in S : x >= y
<1> DEFINE F == {T \in SUBSET S : T = {} \/ \E x \in T : \A y \in T : x >= y}
<1>1. ASSUME NEW T \in SUBSET S, \A x \in T : T \ {x} \in F PROVE T \in F
  <2> SUFFICES ASSUME T # {} PROVE \E x \in T : \A y \in T : x >= y
    OBVIOUS
  <2>1. PICK a \in T : TRUE
    OBVIOUS
  <2>2. CASE T \ {a} = {}
    <3>1. \A y \in T : y = a
      BY <2>2
    <3> QED
      BY <2>1, <3>1
  <2>3. CASE \E x \in T \ {a} : \A y \in T \ {a} : x >= y
    <3>1. PICK b \in T \ {a} : \A y \in T \ {a} : b >= y
      BY <2>3
    <3>2. CASE b >= a
      BY <3>1, <3>2
    <3>3. CASE ~(b >= a)
      <4>1. \A y \in T : a >= y
        BY <3>1, <3>3
      <4> QED
        BY <4>1
    <3> QED
      BY <3>2, <3>3
  <2> QED
    BY <1>1, <2>1, <2>2, <2>3
<1> HIDE DEF F
<1>2. S \in F
  BY <1>1, InductSubsets
<1> QED
  BY <1>2 DEF F

-----------------------------------------------------------------------------
(* Sequences *)

(* A function on 1..n is a sequence of n elements. *)
LEMMA FunctionIsSeq ==
  ASSUME NEW P, NEW n \in Nat, NEW s \in [1..n -> P]
  PROVE  s \in Seq(P) /\ Len(s) = n
OBVIOUS

(* The elements behind the one that is removed move up by one. *)
LEMMA RemoveOne ==
  ASSUME NEW S, NEW q \in Seq(S), NEW i \in 1..Len(q)
  PROVE  /\ RemoveAt(q, i) \in Seq(S)
         /\ Len(RemoveAt(q, i)) = Len(q) - 1
         /\ \A k \in 1..(Len(q) - 1) : RemoveAt(q, i)[k] = IF k < i THEN q[k] ELSE q[k + 1]
<1> DEFINE a == SubSeq(q, 1, i - 1)
           b == SubSeq(q, i + 1, Len(q))
<1>1. /\ a \in Seq(S) /\ Len(a) = i - 1
      /\ \A k \in 1..(i - 1) : a[k] = q[k]
  OBVIOUS
<1>2. /\ b \in Seq(S) /\ Len(b) = Len(q) - i
      /\ \A k \in 1..(Len(q) - i) : b[k] = q[k + i]
  OBVIOUS
<1>3. RemoveAt(q, i) = a \o b
  BY DEF RemoveAt
<1> HIDE DEF a, b
<1>4. a \o b \in Seq(S) /\ Len(a \o b) = Len(q) - 1
  <2>1. a \o b \in Seq(S) /\ Len(a \o b) = Len(a) + Len(b)
    BY <1>1, <1>2, ConcatProperties
  <2> QED
    BY <1>1, <1>2, <2>1
<1>5. ASSUME NEW k \in 1..(Len(q) - 1)
      PROVE  (a \o b)[k] = IF k < i THEN q[k] ELSE q[k + 1]
  <2>1. CASE k < i
    BY <1>1, <1>2, <2>1
  <2>2. CASE ~(k < i)
    <3>1. k - (i - 1) \in 1..(Len(q) - i) /\ (a \o b)[k] = b[k - (i - 1)]
      BY <1>1, <1>2, <2>2
    <3> QED
      BY <1>2, <2>2, <3>1
  <2> QED
    BY <2>1, <2>2
<1> QED
  BY <1>3, <1>4, <1>5

(* What is put in is at its place, and the elements behind it move down. *)
LEMMA InsertOne ==
  ASSUME NEW S, NEW q \in Seq(S), NEW i \in 1..(Len(q) + 1), NEW e \in S
  PROVE  /\ InsertAt(q, i, e) \in Seq(S)
         /\ Len(InsertAt(q, i, e)) = Len(q) + 1
         /\ \A k \in 1..(Len(q) + 1) : InsertAt(q, i, e)[k] =
               IF k < i THEN q[k] ELSE IF k = i THEN e ELSE q[k - 1]
<1> DEFINE a == SubSeq(q, 1, i - 1)
           b == SubSeq(q, i, Len(q))
           c == a \o <<e>>
<1>1. /\ a \in Seq(S) /\ Len(a) = i - 1
      /\ \A k \in 1..(i - 1) : a[k] = q[k]
  OBVIOUS
<1>2. /\ b \in Seq(S) /\ Len(b) = Len(q) - (i - 1)
      /\ \A k \in 1..(Len(q) - (i - 1)) : b[k] = q[k + (i - 1)]
  OBVIOUS
<1>3. <<e>> \in Seq(S) /\ Len(<<e>>) = 1 /\ <<e>>[1] = e
  OBVIOUS
<1> HIDE DEF a, b
<1>4. /\ c \in Seq(S) /\ Len(c) = i
      /\ \A k \in 1..i : c[k] = IF k < i THEN q[k] ELSE e
  <2>1. /\ c \in Seq(S) /\ Len(c) = Len(a) + Len(<<e>>)
        /\ \A k \in 1..(Len(a) + Len(<<e>>)) : c[k] = IF k <= Len(a) THEN a[k] ELSE <<e>>[k - Len(a)]
    BY <1>1, <1>3, ConcatProperties
  <2> HIDE DEF c
  <2> QED
    BY <1>1, <1>3, <2>1
<1> HIDE DEF c
<1>5. /\ c \o b \in Seq(S) /\ Len(c \o b) = Len(c) + Len(b)
      /\ \A k \in 1..(Len(c) + Len(b)) : (c \o b)[k] = IF k <= Len(c) THEN c[k] ELSE b[k - Len(c)]
  BY <1>2, <1>4, ConcatProperties
<1>6. ASSUME NEW k \in 1..(Len(q) + 1)
      PROVE  (c \o b)[k] = IF k < i THEN q[k] ELSE IF k = i THEN e ELSE q[k - 1]
  <2>1. CASE k <= i
    BY <1>2, <1>4, <1>5, <2>1
  <2>2. CASE ~(k <= i)
    <3>1. k - i \in 1..(Len(q) - (i - 1)) /\ (k - i) + (i - 1) = k - 1
      BY <2>2
    <3>2. (c \o b)[k] = b[k - i]
      BY <1>2, <1>4, <1>5, <2>2
    <3> QED
      BY <1>2, <2>2, <3>1, <3>2
  <2> QED
    BY <2>1, <2>2
<1>7. InsertAt(q, i, e) = c \o b
  BY DEF InsertAt, a, b, c
<1>8. Len(c \o b) = Len(q) + 1
  BY <1>2, <1>4, <1>5
<1> QED
  BY <1>5, <1>6, <1>7, <1>8

(* Taking out what was put in leaves the list as it was. *)
LEMMA InsertRemoved ==
  ASSUME NEW S, NEW q \in Seq(S), NEW i \in 1..(Len(q) + 1), NEW e \in S
  PROVE  InsertAt(q, i, e)[i] = e /\ RemoveAt(InsertAt(q, i, e), i) = q
<1>1. PICK t : t = InsertAt(q, i, e)
  OBVIOUS
<1>2. /\ t \in Seq(S) /\ Len(t) = Len(q) + 1
      /\ \A k \in 1..(Len(q) + 1) : t[k] = IF k < i THEN q[k] ELSE IF k = i THEN e ELSE q[k - 1]
  BY <1>1, InsertOne, SMTT(30)
<1>3. PICK u : u = RemoveAt(t, i)
  OBVIOUS
<1>4. /\ u \in Seq(S) /\ Len(u) = Len(t) - 1
      /\ \A k \in 1..(Len(t) - 1) : u[k] = IF k < i THEN t[k] ELSE t[k + 1]
  <2>1. i \in 1..Len(t)
    BY <1>2
  <2> QED
    BY <1>2, <1>3, <2>1, RemoveOne
<1>5. Len(u) = Len(q) /\ \A k \in 1..Len(u) : u[k] = q[k]
  <2>1. Len(u) = Len(q)
    BY <1>2, <1>4
  <2>2. ASSUME NEW k \in 1..Len(q) PROVE u[k] = q[k]
    <3>1. u[k] = IF k < i THEN t[k] ELSE t[k + 1]
      BY <1>2, <1>4
    <3>2. k < i => t[k] = q[k]
      BY <1>2
    <3>3. ~(k < i) => t[k + 1] = q[k]
      <4>1. k + 1 \in 1..(Len(q) + 1) /\ (k + 1) - 1 = k
        OBVIOUS
      <4> QED
        BY <1>2, <4>1
    <3> QED
      BY <3>1, <3>2, <3>3
  <2> QED
    BY <2>1, <2>2
<1>6. u = q
  BY <1>4, <1>5, SeqEqual
<1> QED
  BY <1>1, <1>2, <1>3, <1>6

(* The list that is left, by the number of elements looked at. *)
LEMMA KeptUnfolds ==
  ASSUME NEW S, NEW s \in Seq(S), NEW P
  PROVE  \E g : /\ g[0] = <<>>
                /\ \A n \in 1..Len(s) :
                      g[n] = IF s[n] \in P THEN Append(g[n - 1], s[n]) ELSE g[n - 1]
                /\ Kept(s, P) = g[Len(s)]
<1> DEFINE Turn(g, n) == IF n = 0 THEN <<>>
                         ELSE IF s[n] \in P THEN Append(g[n - 1], s[n]) ELSE g[n - 1]
           Loop(g) == g = [n \in 0..Len(s) |-> Turn(g, n)]
           step == [p \in (1..Len(s)) \X Seq(S) |->
                      IF s[p[1]] \in P THEN Append(p[2], s[p[1]]) ELSE p[2]]
<1>0. Len(s) \in Nat /\ \A n \in 1..Len(s) : s[n] \in S
  OBVIOUS
<1>1. step \in [(1..Len(s)) \X Seq(S) -> Seq(S)] /\ <<>> \in Seq(S)
  BY <1>0
<1>2. \A n \in 1..Len(s) : \A q \in Seq(S) :
         step[<<n, q>>] = IF s[n] \in P THEN Append(q, s[n]) ELSE q
  OBVIOUS
<1> HIDE DEF step
<1>3. PICK g \in [0..Len(s) -> Seq(S)] : Runs(g, Len(s), <<>>, step)
  BY <1>0, <1>1, LoopExists
<1>4. Loop(g)
  <2>1. ASSUME NEW n \in 0..Len(s) PROVE g[n] = Turn(g, n)
    <3>1. g[n] = IF n = 0 THEN <<>> ELSE step[<<n, g[n - 1]>>]
      BY <1>3 DEF Runs
    <3>2. n # 0 => n \in 1..Len(s) /\ n - 1 \in 0..Len(s)
      BY <1>0
    <3>3. n # 0 => step[<<n, g[n - 1]>>]
                      = IF s[n] \in P THEN Append(g[n - 1], s[n]) ELSE g[n - 1]
      BY <1>2, <3>2
    <3> QED
      BY <3>1, <3>3
  <2> HIDE DEF Turn
  <2> QED
    BY <1>3, <2>1
<1>6. Kept(s, P) = (CHOOSE f : Loop(f))[Len(s)]
  BY DEF Kept
<1>7. PICK f : Loop(f) /\ Kept(s, P) = f[Len(s)]
  <2> HIDE DEF Loop
  <2> QED
    BY <1>4, <1>6
<1>8. \A n \in 0..Len(s) : f[n] = Turn(f, n)
  BY <1>7
<1>9. f[0] = <<>> /\ \A n \in 1..Len(s) : f[n] = IF s[n] \in P THEN Append(f[n - 1], s[n]) ELSE f[n - 1]
  BY <1>0, <1>8
<1> QED
  BY <1>7, <1>9

(* What is left of the first n elements: those in P, all of them, in order. *)
Left(q, s, n, P) ==
    /\ \A i \in 1..Len(q) : q[i] \in P
    /\ \A u \in 1..n : s[u] \in P => \E i \in 1..Len(q) : q[i] = s[u]
    /\ \A i \in 1..Len(q) : \E u \in 1..n : q[i] = s[u]
    /\ \A i, j \in 1..Len(q) : i < j =>
          \E u, v \in 1..n : u < v /\ q[i] = s[u] /\ q[j] = s[v]

LEMMA LeftSkips ==
  ASSUME NEW q, NEW s, NEW n \in Nat, NEW P, Left(q, s, n, P), s[n + 1] \notin P
  PROVE  Left(q, s, n + 1, P)
<1>1. 1..n \subseteq 1..(n + 1) /\ \A u \in 1..(n + 1) : u \in 1..n \/ u = n + 1
  OBVIOUS
<1>2. \A i \in 1..Len(q) : q[i] \in P
  BY DEF Left
<1>3. \A u \in 1..(n + 1) : s[u] \in P => \E i \in 1..Len(q) : q[i] = s[u]
  BY <1>1, Zenon DEF Left
<1>4. \A i \in 1..Len(q) : \E u \in 1..(n + 1) : q[i] = s[u]
  BY <1>1, Zenon DEF Left
<1>5. ASSUME NEW i \in 1..Len(q), NEW j \in 1..Len(q), i < j
      PROVE  \E u, v \in 1..(n + 1) : u < v /\ q[i] = s[u] /\ q[j] = s[v]
  <2>1. PICK u \in 1..n, v \in 1..n : u < v /\ q[i] = s[u] /\ q[j] = s[v]
    BY <1>5, Zenon DEF Left
  <2> QED
    BY <1>1, <2>1, Zenon
<1>6. \A i, j \in 1..Len(q) : i < j =>
        \E u, v \in 1..(n + 1) : u < v /\ q[i] = s[u] /\ q[j] = s[v]
  BY <1>5, Zenon
<1> QED
  BY <1>2, <1>3, <1>4, <1>6, Zenon DEF Left

LEMMA LeftTakes ==
  ASSUME NEW S, NEW q \in Seq(S), NEW s, NEW n \in Nat, NEW P, Left(q, s, n, P),
         NEW e \in S, e = s[n + 1], e \in P
  PROVE  Left(Append(q, e), s, n + 1, P)
<1> DEFINE r == Append(q, e)
           m == Len(q)
<1>1. m \in Nat /\ Len(r) = m + 1 /\ r[m + 1] = e /\ \A i \in 1..m : r[i] = q[i]
  OBVIOUS
<1> HIDE DEF r
<1>2. /\ \A u \in 1..n : u \in 1..(n + 1) /\ u < n + 1
      /\ \A u \in 1..(n + 1) : u \in 1..n \/ u = n + 1
      /\ n + 1 \in 1..(n + 1)
  OBVIOUS
<1> HIDE DEF m
<1>3. /\ \A i \in 1..m : i \in 1..Len(r)
      /\ \A i \in 1..Len(r) : i \in 1..m \/ i = m + 1
      /\ m + 1 \in 1..Len(r)
      /\ \A i, j \in 1..Len(r) : i < j => i \in 1..m
  BY <1>1
<1>4. Left(q, s, n, P) /\ m = Len(q)
  BY DEF m
<1>5. \A i \in 1..Len(r) : r[i] \in P
  BY <1>1, <1>3, <1>4, Zenon DEF Left
<1>6. \A u \in 1..(n + 1) : s[u] \in P => \E i \in 1..Len(r) : r[i] = s[u]
  <2>1. ASSUME NEW u \in 1..n, s[u] \in P PROVE \E i \in 1..Len(r) : r[i] = s[u]
    <3>1. PICK i \in 1..m : q[i] = s[u]
      BY <1>4, <2>1, Zenon DEF Left
    <3> QED
      BY <1>1, <1>3, <3>1, Zenon
  <2> QED
    BY <1>1, <1>2, <1>3, <2>1, Zenon
<1>7. \A i \in 1..Len(r) : \E u \in 1..(n + 1) : r[i] = s[u]
  <2>1. ASSUME NEW i \in 1..m PROVE \E u \in 1..(n + 1) : r[i] = s[u]
    <3>1. PICK u \in 1..n : q[i] = s[u]
      BY <1>4, Zenon DEF Left
    <3> QED
      BY <1>1, <1>2, <3>1, Zenon
  <2> QED
    BY <1>1, <1>2, <1>3, <2>1, Zenon
<1>8. ASSUME NEW i \in 1..Len(r), NEW j \in 1..Len(r), i < j
      PROVE  \E u, v \in 1..(n + 1) : u < v /\ r[i] = s[u] /\ r[j] = s[v]
  <2>1. i \in 1..m
    BY <1>3, <1>8, Zenon
  <2>2. CASE j \in 1..m
    <3>1. PICK u \in 1..n, v \in 1..n : u < v /\ q[i] = s[u] /\ q[j] = s[v]
      BY <1>4, <1>8, <2>1, <2>2, Zenon DEF Left
    <3>2. u \in 1..(n + 1) /\ v \in 1..(n + 1) /\ r[i] = s[u] /\ r[j] = s[v]
      BY <1>1, <1>2, <2>1, <2>2, <3>1, Zenon
    <3> QED
      BY <3>1, <3>2, Zenon
  <2>3. CASE j = m + 1
    <3>1. PICK u \in 1..n : q[i] = s[u]
      BY <1>4, <2>1, Zenon DEF Left
    <3>2. u \in 1..(n + 1) /\ u < n + 1 /\ n + 1 \in 1..(n + 1) /\ r[i] = s[u]
      BY <1>1, <1>2, <2>1, <3>1, Zenon
    <3>3. r[j] = s[n + 1]
      BY <1>1, <2>3
    <3> QED
      BY <3>2, <3>3, Zenon
  <2> QED
    BY <1>3, <2>2, <2>3, Zenon
<1>9. \A i, j \in 1..Len(r) : i < j =>
        \E u, v \in 1..(n + 1) : u < v /\ r[i] = s[u] /\ r[j] = s[v]
  BY <1>8, Zenon
<1>10. Left(r, s, n + 1, P)
  BY <1>5, <1>6, <1>7, <1>9, Zenon DEF Left
<1> QED
  BY <1>10 DEF r

(* Kept keeps the elements in P and no others, in their order.               *)
LEMMA KeptIs ==
  ASSUME NEW S, NEW s \in Seq(S), NEW P
  PROVE  Kept(s, P) \in Seq(S) /\ Left(Kept(s, P), s, Len(s), P)
<1>0. Len(s) \in Nat /\ \A n \in 1..Len(s) : s[n] \in S
  OBVIOUS
<1>1. PICK g : /\ g[0] = <<>>
               /\ \A n \in 1..Len(s) :
                     g[n] = IF s[n] \in P THEN Append(g[n - 1], s[n]) ELSE g[n - 1]
               /\ Kept(s, P) = g[Len(s)]
  BY KeptUnfolds
<1> DEFINE Good(n) == g[n] \in Seq(S) /\ Left(g[n], s, n, P)
           N == {n \in Nat : n <= Len(s) => Good(n)}
<1>2. 0 \in N
  <2>1. 1..0 = {} /\ 1..Len(<<>>) = {} /\ <<>> \in Seq(S)
    OBVIOUS
  <2>2. Left(<<>>, s, 0, P)
    BY <2>1, Zenon DEF Left
  <2> QED
    BY <1>1, <2>1, <2>2
<1>3. ASSUME NEW n \in Nat, n \in N PROVE n + 1 \in N
  <2> SUFFICES ASSUME n + 1 <= Len(s) PROVE Good(n + 1)
    OBVIOUS
  <2>1. n + 1 \in 1..Len(s) /\ (n + 1) - 1 = n /\ Good(n)
    BY <1>0, <1>3
  <2>2. PICK e \in S : e = s[n + 1]
    BY <1>0, <2>1
  <2>3. g[n + 1] = IF e \in P THEN Append(g[n], e) ELSE g[n]
    BY <1>1, <2>1, <2>2
  <2>4. CASE e \in P
    <3>1. Append(g[n], e) \in Seq(S)
      BY <2>1
    <3>2. Left(Append(g[n], e), s, n + 1, P)
      BY <2>1, <2>2, <2>4, LeftTakes
    <3> QED
      BY <2>3, <2>4, <3>1, <3>2
  <2>5. CASE e \notin P
    <3>1. Left(g[n], s, n + 1, P)
      BY <2>1, <2>2, <2>5, LeftSkips
    <3> QED
      BY <2>1, <2>3, <2>5, <3>1
  <2> QED
    BY <2>4, <2>5
<1>4. Len(s) \in N
  <2> HIDE DEF N
  <2> QED
    BY <1>0, <1>2, <1>3, Induct
<1> QED
  BY <1>0, <1>1, <1>4

----------------------------------------------------------------------------
(* At most one element of a list is in B, and whether there is one.         *)

One(s, B) == \A i, j \in DOMAIN s : s[i] \in B /\ s[j] \in B => i = j
Some(s, B) == \E i \in DOMAIN s : s[i] \in B

(* An element is added: one in B only where there was none.                 *)
LEMMA OneAdded ==
  ASSUME NEW S, NEW s \in Seq(S), NEW B, NEW e \in S, One(s, B)
  PROVE  /\ e \notin B => One(Append(s, e), B) /\ (Some(Append(s, e), B) <=> Some(s, B))
         /\ e \in B /\ ~Some(s, B) => One(Append(s, e), B) /\ Some(Append(s, e), B)
<1> DEFINE r == Append(s, e)
           m == Len(s)
<1>1. /\ m \in Nat /\ DOMAIN s = 1..m /\ DOMAIN r = 1..(m + 1)
      /\ r[m + 1] = e /\ \A i \in 1..m : r[i] = s[i]
  OBVIOUS
<1> HIDE DEF r, m
<1>2. /\ \A i \in 1..m : i \in 1..(m + 1)
      /\ \A i \in 1..(m + 1) : i \in 1..m \/ i = m + 1
      /\ m + 1 \in 1..(m + 1)
  BY <1>1
<1>3. e \notin B => One(r, B)
  BY <1>1, <1>2 DEF One
<1>4. e \notin B => (Some(r, B) <=> Some(s, B))
  BY <1>1, <1>2 DEF Some
<1>5. e \in B /\ ~Some(s, B) => One(r, B)
  BY <1>1, <1>2 DEF One, Some
<1>6. e \in B => Some(r, B)
  BY <1>1, <1>2 DEF Some
<1> QED
  BY <1>3, <1>4, <1>5, <1>6 DEF r

(* An element is removed.                                                   *)
LEMMA OneRemoved ==
  ASSUME NEW S, NEW s \in Seq(S), NEW B, NEW i \in DOMAIN s, One(s, B)
  PROVE  /\ One(RemoveAt(s, i), B)
         /\ s[i] \in B => ~Some(RemoveAt(s, i), B)
         /\ s[i] \notin B => (Some(RemoveAt(s, i), B) <=> Some(s, B))
<1> DEFINE r == RemoveAt(s, i)
           m == Len(s)
<1>1. m \in Nat /\ DOMAIN s = 1..m /\ i \in 1..m
  OBVIOUS
<1>2. DOMAIN r = 1..(m - 1) /\ \A k \in 1..(m - 1) : r[k] = IF k < i THEN s[k] ELSE s[k + 1]
  <2>1. /\ r \in Seq(S) /\ Len(r) = Len(s) - 1
        /\ \A k \in 1..(Len(s) - 1) : r[k] = IF k < i THEN s[k] ELSE s[k + 1]
    BY <1>1, RemoveOne
  <2> HIDE DEF r
  <2> QED
    BY <2>1
<1> HIDE DEF r, m
<1> DEFINE From(k) == IF k < i THEN k ELSE k + 1
<1>3. /\ \A k \in 1..(m - 1) : From(k) \in 1..m \ {i} /\ r[k] = s[From(k)]
      /\ \A j, k \in 1..(m - 1) : From(j) = From(k) => j = k
  BY <1>1, <1>2
<1>4. \A u \in 1..m \ {i} : \E k \in 1..(m - 1) : From(k) = u
  <2> SUFFICES ASSUME NEW u \in 1..m \ {i} PROVE \E k \in 1..(m - 1) : From(k) = u
    OBVIOUS
  <2>1. CASE u < i
    <3>1. u \in 1..(m - 1) /\ From(u) = u
      BY <1>1, <2>1
    <3> QED
      BY <3>1
  <2>2. CASE ~(u < i)
    <3>1. u - 1 \in 1..(m - 1) /\ From(u - 1) = u
      BY <1>1, <2>2
    <3> QED
      BY <3>1
  <2> QED
    BY <2>1, <2>2
<1> HIDE DEF From
<1>5. One(r, B)
  BY <1>1, <1>2, <1>3 DEF One
<1>6. s[i] \in B => ~Some(r, B)
  BY <1>1, <1>2, <1>3 DEF One, Some
<1>7. s[i] \notin B => (Some(r, B) <=> Some(s, B))
  BY <1>1, <1>2, <1>3, <1>4 DEF Some
<1> QED
  BY <1>5, <1>6, <1>7 DEF r

(* What is in B stays so, place by place.                                   *)
LEMMA OneSame ==
  ASSUME NEW s, NEW r, NEW B, DOMAIN r = DOMAIN s, \A i \in DOMAIN s : r[i] \in B <=> s[i] \in B
  PROVE  (One(r, B) <=> One(s, B)) /\ (Some(r, B) <=> Some(s, B))
BY DEF One, Some

(* What is not in B is filtered out.                                        *)
LEMMA OneKept ==
  ASSUME NEW S, NEW s \in Seq(S), NEW B, One(s, B)
  PROVE  One(Kept(s, B), B) /\ (Some(Kept(s, B), B) <=> Some(s, B))
<1>1. PICK k : k = Kept(s, B)
  OBVIOUS
<1>2. k \in Seq(S) /\ Left(k, s, Len(s), B)
  BY <1>1, KeptIs
<1>3. DOMAIN k = 1..Len(k) /\ DOMAIN s = 1..Len(s) /\ Len(k) \in Nat /\ Len(s) \in Nat
  BY <1>2
<1>4. Some(k, B) <=> Some(s, B)
  BY <1>2, <1>3 DEF Left, Some
<1>5. ASSUME NEW i \in 1..Len(k), NEW j \in 1..Len(k), i < j PROVE FALSE
  <2>1. PICK u \in 1..Len(s), v \in 1..Len(s) : u < v /\ k[i] = s[u] /\ k[j] = s[v]
    BY <1>2, <1>5, Zenon DEF Left
  <2>2. k[i] \in B /\ k[j] \in B
    BY <1>2, Zenon DEF Left
  <2>3. u = v
    BY <1>3, <2>1, <2>2 DEF One
  <2> QED
    BY <2>1, <2>3
<1>6. \A i, j \in 1..Len(k) : i = j
  BY <1>3, <1>5
<1>7. One(k, B)
  BY <1>3, <1>6 DEF One
<1> QED
  BY <1>1, <1>4, <1>7

----------------------------------------------------------------------------
(* The elements of a list.                                                  *)

LEMMA SetOfAdded ==
  ASSUME NEW S, NEW s \in Seq(S), NEW e \in S
  PROVE  Append(s, e) \in Seq(S) /\ ToSet(Append(s, e)) = ToSet(s) \cup {e}
<1> DEFINE r == Append(s, e)
           m == Len(s)
<1>1. /\ m \in Nat /\ DOMAIN s = 1..m /\ DOMAIN r = 1..(m + 1) /\ r \in Seq(S)
      /\ r[m + 1] = e /\ \A i \in 1..m : r[i] = s[i]
  OBVIOUS
<1> HIDE DEF r, m
<1>2. /\ \A i \in 1..m : i \in 1..(m + 1)
      /\ \A i \in 1..(m + 1) : i \in 1..m \/ i = m + 1
      /\ m + 1 \in 1..(m + 1)
  BY <1>1
<1>3. ToSet(r) \subseteq ToSet(s) \cup {e}
  BY <1>1, <1>2 DEF ToSet
<1>4. ToSet(s) \cup {e} \subseteq ToSet(r)
  BY <1>1, <1>2 DEF ToSet
<1>5. r \in Seq(S) /\ ToSet(r) = ToSet(s) \cup {e}
  BY <1>1, <1>3, <1>4
<1> QED
  BY <1>5 DEF r

LEMMA SetOfRemoved ==
  ASSUME NEW S, NEW s \in Seq(S), NEW i \in DOMAIN s
  PROVE  /\ RemoveAt(s, i) \in Seq(S)
         /\ ToSet(RemoveAt(s, i)) \subseteq ToSet(s)
         /\ ToSet(s) \ {s[i]} \subseteq ToSet(RemoveAt(s, i))
<1> DEFINE r == RemoveAt(s, i)
           m == Len(s)
<1>1. m \in Nat /\ DOMAIN s = 1..m /\ i \in 1..m
  OBVIOUS
<1>2. /\ r \in Seq(S) /\ DOMAIN r = 1..(m - 1)
      /\ \A k \in 1..(m - 1) : r[k] = IF k < i THEN s[k] ELSE s[k + 1]
  <2>1. /\ r \in Seq(S) /\ Len(r) = Len(s) - 1
        /\ \A k \in 1..(Len(s) - 1) : r[k] = IF k < i THEN s[k] ELSE s[k + 1]
    BY <1>1, RemoveOne
  <2> HIDE DEF r
  <2> QED
    BY <2>1
<1> HIDE DEF r, m
<1>3. ASSUME NEW k \in 1..(m - 1) PROVE \E u \in 1..m : r[k] = s[u]
  <2>1. k \in 1..m /\ k + 1 \in 1..m
    BY <1>1
  <2> QED
    BY <1>2, <2>1
<1>4. ASSUME NEW u \in 1..m, u # i PROVE \E k \in 1..(m - 1) : r[k] = s[u]
  <2>1. CASE u < i
    <3>1. u \in 1..(m - 1) /\ r[u] = s[u]
      BY <1>1, <1>2, <2>1
    <3> QED
      BY <3>1
  <2>2. CASE ~(u < i)
    <3>1. u - 1 \in 1..(m - 1) /\ ~(u - 1 < i) /\ (u - 1) + 1 = u
      BY <1>1, <1>4, <2>2
    <3>2. r[u - 1] = s[u]
      BY <1>2, <3>1
    <3> QED
      BY <3>1, <3>2
  <2> QED
    BY <2>1, <2>2
<1>5. ToSet(r) \subseteq ToSet(s)
  BY <1>1, <1>2, <1>3 DEF ToSet
<1>6. ASSUME NEW x \in ToSet(s), x # s[i] PROVE x \in ToSet(r)
  <2>1. PICK u \in 1..m : x = s[u]
    BY <1>1 DEF ToSet
  <2>2. PICK k \in 1..(m - 1) : r[k] = s[u]
    BY <1>4, <1>6, <2>1
  <2> QED
    BY <1>2, <2>1, <2>2 DEF ToSet
<1> QED
  BY <1>2, <1>5, <1>6 DEF r

LEMMA SetOfKept ==
  ASSUME NEW S, NEW s \in Seq(S), NEW P
  PROVE  Kept(s, P) \in Seq(S) /\ ToSet(Kept(s, P)) = ToSet(s) \cap P
<1>1. PICK k : k = Kept(s, P)
  OBVIOUS
<1>2. k \in Seq(S) /\ Left(k, s, Len(s), P)
  BY <1>1, KeptIs
<1>3. DOMAIN k = 1..Len(k) /\ DOMAIN s = 1..Len(s)
  BY <1>2
<1>4. ASSUME NEW x \in ToSet(k) PROVE x \in ToSet(s) \cap P
  <2>1. PICK i \in 1..Len(k) : x = k[i]
    BY <1>3 DEF ToSet
  <2>2. PICK u \in 1..Len(s) : k[i] = s[u]
    BY <1>2, Zenon DEF Left
  <2>3. k[i] \in P
    BY <1>2, Zenon DEF Left
  <2> QED
    BY <1>3, <2>1, <2>2, <2>3 DEF ToSet
<1>5. ASSUME NEW x \in ToSet(s) \cap P PROVE x \in ToSet(k)
  <2>1. PICK u \in 1..Len(s) : x = s[u]
    BY <1>3 DEF ToSet
  <2>2. s[u] \in P
    BY <2>1
  <2>3. PICK i \in 1..Len(k) : k[i] = s[u]
    BY <1>2, <2>2, Zenon DEF Left
  <2> QED
    BY <1>3, <2>1, <2>3 DEF ToSet
<1> QED
  BY <1>1, <1>2, <1>4, <1>5

----------------------------------------------------------------------------
(* What the elements of a list weigh.                                       *)

(* A sum over the numbers up to n + 1, by its last term. *)
LEMMA SumNext ==
  ASSUME NEW n \in Nat, NEW f, \A i \in 1..(n + 1) : f[i] \in Int
  PROVE  SumFunctionOnSet(f, 1..(n + 1)) = f[n + 1] + SumFunctionOnSet(f, 1..n)
<1>1. PICK R : R = 1..(n + 1)
  OBVIOUS
<1>2. PICK m : m = n + 1
  OBVIOUS
<1>3. IsFiniteSet(R) /\ m \in R /\ R \ {m} = 1..n /\ \A i \in R : f[i] \in Int
  <2>1. IsFiniteSet(R)
    BY <1>1, FS_Interval
  <2>2. m \in R
    BY <1>1, <1>2
  <2>3. R \ {m} = 1..n
    BY <1>1, <1>2
  <2>4. \A i \in R : f[i] \in Int
    BY <1>1
  <2> QED
    BY <2>1, <2>2, <2>3, <2>4
<1>4. SumFunctionOnSet(f, R) = f[m] + SumFunctionOnSet(f, R \ {m})
  BY <1>3, SumTakesOut
<1> QED
  BY <1>1, <1>2, <1>3, <1>4, Zenon

(* What the elements of q weigh, and what those of s do that are in P. *)
Weight(q, w) == SumFunctionOnSet([i \in 1..Len(q) |-> w[q[i]]], 1..Len(q))
Weights(s, P, w) == [i \in 1..Len(s) |-> IF s[i] \in P THEN w[s[i]] ELSE 0]

(* The weight of what is kept is that of the elements in P. *)
LEMMA SumOfKept ==
  ASSUME NEW S, NEW s \in Seq(S), NEW P, NEW w \in [S -> Int],
         NEW q, q = Kept(s, P)
  PROVE  /\ q \in Seq(S)
         /\ Weight(q, w) = SumFunctionOnSet(Weights(s, P, w), 1..Len(s))
<1> USE DEF Weight
<1> DEFINE v == Weights(s, P, w)
           Upto(n) == SumFunctionOnSet(v, 1..n)
<1>0. /\ Len(s) \in Nat /\ \A n \in 1..Len(s) : s[n] \in S /\ v[n] \in Int
      /\ \A n \in 1..Len(s) : v[n] = IF s[n] \in P THEN w[s[n]] ELSE 0
  BY DEF Weights
<1> HIDE DEF v
<1>1. PICK g : /\ g[0] = <<>>
               /\ \A n \in 1..Len(s) : g[n] = IF s[n] \in P THEN Append(g[n - 1], s[n]) ELSE g[n - 1]
               /\ q = g[Len(s)]
  BY KeptUnfolds
<1>2. ASSUME NEW x \in Seq(S), NEW e \in S
      PROVE  Weight(Append(x, e), w) = Weight(x, w) + w[e]
  <2>1. PICK n \in Nat : n = Len(x)
    OBVIOUS
  <2>2. PICK y : y = Append(x, e)
    OBVIOUS
  <2>3. y \in Seq(S) /\ Len(y) = n + 1 /\ y[n + 1] = e /\ \A i \in 1..n : y[i] = x[i]
    BY <2>1, <2>2
  <2>4. PICK fx, fy : fx = [i \in 1..n |-> w[x[i]]] /\ fy = [i \in 1..(n + 1) |-> w[y[i]]]
    OBVIOUS
  <2>5. /\ \A i \in 1..(n + 1) : fy[i] \in Int
        /\ \A i \in 1..n : fx[i] \in Int /\ fy[i] = fx[i]
        /\ fy[n + 1] = w[e]
    BY <2>1, <2>3, <2>4
  <2>6. IsFiniteSet(1..n)
    BY FS_Interval
  <2>7. SumFunctionOnSet(fy, 1..(n + 1)) = fy[n + 1] + SumFunctionOnSet(fy, 1..n)
    BY <2>5, SumNext
  <2>8. SumFunctionOnSet(fy, 1..n) = SumFunctionOnSet(fx, 1..n)
    BY <2>5, <2>6, SumSame
  <2>9. SumFunctionOnSet(fx, 1..n) \in Int
    BY <2>5, <2>6, SumInt
  <2>10. w[e] \in Int
    OBVIOUS
  <2>11. Weight(x, w) = SumFunctionOnSet(fx, 1..n) /\ Weight(y, w) = SumFunctionOnSet(fy, 1..(n + 1))
    BY <2>1, <2>3, <2>4
  <2> HIDE DEF Weight
  <2>12. Weight(y, w) = Weight(x, w) + w[e]
    BY <2>5, <2>7, <2>8, <2>9, <2>10, <2>11
  <2> QED
    BY <2>2, <2>12
<1>3. ASSUME NEW n \in Nat, n + 1 <= Len(s)
      PROVE  Upto(n + 1) = v[n + 1] + Upto(n)
  <2>1. \A i \in 1..(n + 1) : v[i] \in Int
    BY <1>0, <1>3
  <2> QED
    BY <2>1, SumNext
<1> DEFINE M == {n \in Nat : n <= Len(s) => g[n] \in Seq(S) /\ Weight(g[n], w) = Upto(n) /\ Upto(n) \in Int}
<1>4. 0 \in M
  <2>1. 1..0 = {} /\ Len(<<>>) = 0
    OBVIOUS
  <2>2. Upto(0) = 0
    BY <2>1, FS_EmptySet, SumUnfolds
  <2>3. Weight(<<>>, w) = 0
    BY <2>1, FS_EmptySet, SumUnfolds
  <2>4. SUFFICES g[0] \in Seq(S) /\ Weight(g[0], w) = Upto(0) /\ Upto(0) \in Int
    OBVIOUS
  <2> HIDE DEF Weight, Upto
  <2>5. Weight(g[0], w) = 0 /\ g[0] \in Seq(S)
    BY <1>1, <2>3
  <2> QED
    BY <2>2, <2>5
<1>5. ASSUME NEW n \in Nat, n \in M PROVE n + 1 \in M
  <2> SUFFICES ASSUME n + 1 <= Len(s)
               PROVE  g[n + 1] \in Seq(S) /\ Weight(g[n + 1], w) = Upto(n + 1) /\ Upto(n + 1) \in Int
    OBVIOUS
  <2>1. g[n] \in Seq(S) /\ Weight(g[n], w) = Upto(n) /\ Upto(n) \in Int
    BY <1>0, <1>5
  <2>2. /\ n + 1 \in 1..Len(s) /\ s[n + 1] \in S /\ v[n + 1] \in Int
        /\ g[n + 1] = IF s[n + 1] \in P THEN Append(g[n], s[n + 1]) ELSE g[n]
        /\ v[n + 1] = IF s[n + 1] \in P THEN w[s[n + 1]] ELSE 0
    BY <1>0, <1>1
  <2>3. Upto(n + 1) = v[n + 1] + Upto(n)
    BY <1>3
  <2>4. s[n + 1] \in P => Weight(Append(g[n], s[n + 1]), w) = Weight(g[n], w) + w[s[n + 1]]
    BY <1>2, <2>1, <2>2
  <2>5. g[n + 1] \in Seq(S)
    BY <2>1, <2>2
  <2> HIDE DEF Weight, Upto
  <2> QED
    BY <2>1, <2>2, <2>3, <2>4, <2>5
<1>6. Len(s) \in M
  <2> HIDE DEF M
  <2> QED
    BY <1>0, <1>4, <1>5, Induct
<1> HIDE DEF Weight, Upto
<1>7. q \in Seq(S) /\ Weight(q, w) = Upto(Len(s))
  BY <1>0, <1>1, <1>6
<1> QED
  BY <1>7 DEF Upto, v
=============================================================================
