---------------------------- MODULE NaturalFacts ----------------------------
(***************************************************************************)
(* Facts about sets of naturals, about remainders and about sums over      *)
(* finite sets.  They take no operator as a parameter: an induction is     *)
(* over the set of the numbers for which a statement holds.                *)
(***************************************************************************)
EXTENDS Integers, FiniteSetTheorems, TLAPS

\* A set of naturals that is not empty has a least element.  The intervals
\* 0 .. n are finite sets, and these are well-founded under inclusion.
LEMMA LeastNatural ==
  ASSUME NEW S, S \subseteq Nat, S # {}
  PROVE  \E n \in S : \A j \in S : n <= j
<1> DEFINE R == StrictSubsetOrdering(Nat)
           T == {0 .. n : n \in S}
<1>1. IsWellFoundedOn(R, FiniteSubsetsOf(Nat))
  BY FS_StrictSubsetOrderingWellFounded
<1>2. T \subseteq FiniteSubsetsOf(Nat)
  <2> SUFFICES ASSUME NEW n \in S PROVE 0 .. n \in FiniteSubsetsOf(Nat)
    OBVIOUS
  <2>1. n \in Int /\ 0 \in Int
    OBVIOUS
  <2>2. IsFiniteSet(0 .. n)
    BY <2>1, FS_Interval
  <2>3. 0 .. n \subseteq Nat
    OBVIOUS
  <2> QED
    BY <2>2, <2>3 DEF FiniteSubsetsOf
<1>3. T # {}
  OBVIOUS
<1> HIDE DEF R, T
<1>4. PICK x \in T : \A y \in T : ~ (<<y, x>> \in R)
  BY <1>1, <1>2, <1>3, WFMin
<1>5. PICK n \in S : x = 0 .. n
  BY <1>4 DEF T
<1>6. \A j \in S : n <= j
  <2> SUFFICES ASSUME NEW j \in S, ~(n <= j) PROVE FALSE
    OBVIOUS
  <2>1. n \in Nat /\ j \in Nat /\ j < n
    OBVIOUS
  <2>2. 0 .. j \subseteq 0 .. n
    BY <2>1
  <2>3. n \in 0 .. n /\ n \notin 0 .. j
    BY <2>1
  <2>4. 0 .. j \subseteq Nat /\ 0 .. n \subseteq Nat
    OBVIOUS
  <2>5. <<0 .. j, 0 .. n>> \in R
    BY <2>2, <2>3, <2>4 DEF R, StrictSubsetOrdering
  <2> QED
    BY <2>5, <1>4, <1>5 DEF T
<1> QED
  BY <1>6

\* A set with 0, and with n + 1 for each of its naturals n, has all of them.
LEMMA SetInduction ==
  ASSUME NEW S, 0 \in S, \A n \in Nat : n \in S => n + 1 \in S
  PROVE  Nat \subseteq S
<1> SUFFICES ASSUME Nat \ S # {} PROVE FALSE
  OBVIOUS
<1>1. PICK m \in Nat \ S : \A j \in Nat \ S : m <= j
  BY LeastNatural
<1>2. m # 0 /\ m - 1 \in Nat /\ m - 1 < m
  BY <1>1
<1>3. m - 1 \in S
  BY <1>1, <1>2
<1> QED
  BY <1>1, <1>2, <1>3

\* A set of naturals that is bounded and not empty has a greatest element.
LEMMA GreatestNatural ==
  ASSUME NEW n \in Nat, NEW S, S \subseteq 0 .. n, S # {}
  PROVE  \E m \in S : \A j \in S : j <= m
<1> DEFINE T == {n - j : j \in S}
<1>1. T \subseteq Nat
  <2>1. ASSUME NEW j \in S PROVE n - j \in Nat
    OBVIOUS
  <2> QED
    BY <2>1
<1>0. T # {}
  OBVIOUS
<1> HIDE DEF T
<1>2. PICK t \in T : \A j \in T : t <= j
  BY <1>0, <1>1, LeastNatural
<1>3. PICK m \in S : t = n - m
  BY <1>2 DEF T
<1>4. \A j \in S : n - m <= n - j
  BY <1>2, <1>3 DEF T
<1> QED
  BY <1>4

-----------------------------------------------------------------------------
(* Remainders, as the arithmetic of a fixed width takes them. *)

LEMMA RemainderType ==
  ASSUME NEW b \in Nat \ {0}, NEW x \in Int
  PROVE  x % b \in 0 .. b - 1
OBVIOUS
\* Whole words make no difference to a remainder.
LEMMA Remainder ==
  ASSUME NEW b \in Nat \ {0}, NEW v \in 0 .. b - 1, NEW k \in Nat
  PROVE  (v + k * b) % b = v
<1> DEFINE q == (v + k * b) \div b
           r == (v + k * b) % b
<1>0. k * b \in Int
  OBVIOUS
<1>1. /\ q \in Int /\ r \in 0 .. b - 1
      /\ v + k * b = b * q + r
  BY <1>0
<1> HIDE DEF q, r
<1>2. q = k
  <2>1. ASSUME q >= k + 1 PROVE FALSE
    <3>1. b * q >= b * (k + 1)
      BY <1>1, <2>1
    <3>2. b * (k + 1) = k * b + b
      OBVIOUS
    <3> QED
      BY <1>0, <1>1, <3>1, <3>2
  <2>2. ASSUME q <= k - 1 PROVE FALSE
    <3>1. b * q <= b * (k - 1)
      BY <1>1, <2>2
    <3>2. b * (k - 1) = k * b - b
      OBVIOUS
    <3> QED
      BY <1>0, <1>1, <3>1, <3>2
  <2> QED
    BY <1>1, <2>1, <2>2
<1>3. b * q = k * b
  BY <1>2
<1>4. r = v
  BY <1>0, <1>1, <1>3
<1> QED
  BY <1>4 DEF r

-----------------------------------------------------------------------------
(* Sums over finite sets, as the folds of the community modules compute    *)
(* them: g adds up f over every subset of S.                               *)

AnyOf(s) == CHOOSE x \in s : TRUE
Adds(g, f, D) ==
  g = [s \in D |-> IF s = {} THEN 0 ELSE f[AnyOf(s)] + g[s \ {AnyOf(s)}]]

\* The subsets of S with at most n members.
UpTo(S, n) == {s \in SUBSET S : Cardinality(s) <= n}

\* Without one of its members a set has one member less.
LEMMA OneLess ==
  ASSUME NEW S, IsFiniteSet(S), NEW s, s \subseteq S, NEW x \in s
  PROVE  /\ IsFiniteSet(s) /\ Cardinality(s) \in Nat \ {0}
         /\ s \ {x} \subseteq S /\ Cardinality(s \ {x}) = Cardinality(s) - 1
<1>1. IsFiniteSet(s)
  BY FS_Subset
<1>2. Cardinality(s) \in Nat /\ Cardinality(s \ {x}) = Cardinality(s) - 1
  BY <1>1, FS_RemoveElement, FS_CardinalityType
<1>3. Cardinality(s) # 0
  BY <1>1, FS_EmptySet
<1> QED
  BY <1>1, <1>2, <1>3

LEMMA UpToNone ==
  ASSUME NEW S, IsFiniteSet(S)
  PROVE  \A s \in UpTo(S, 0) : s = {}
<1> SUFFICES ASSUME NEW s \in UpTo(S, 0) PROVE s = {}
  OBVIOUS
<1>1. Cardinality(s) <= 0 /\ s \subseteq S
  BY DEF UpTo
<1>2. IsFiniteSet(s)
  BY <1>1, FS_Subset
<1>3. Cardinality(s) \in Nat
  BY <1>2, FS_CardinalityType
<1>4. Cardinality(s) = 0
  BY <1>1, <1>3
<1> QED
  BY <1>2, <1>4, FS_EmptySet

\* There is such a g.
LEMMA SumExists ==
  ASSUME NEW S, IsFiniteSet(S), NEW f
  PROVE  \E g : Adds(g, f, SUBSET S)
<1> DEFINE Good == {n \in Nat : \E g : Adds(g, f, UpTo(S, n))}
<1>1. 0 \in Good
  <2> DEFINE g == [s \in UpTo(S, 0) |-> 0]
  <2>1. \A s \in UpTo(S, 0) : s = {}
    BY UpToNone
  <2>2. g = [s \in UpTo(S, 0) |-> IF s = {} THEN 0 ELSE f[AnyOf(s)] + g[s \ {AnyOf(s)}]]
    BY <2>1
  <2>3. Adds(g, f, UpTo(S, 0))
    BY <2>2 DEF Adds
  <2> QED
    BY <2>3
<1>2. ASSUME NEW n \in Nat, n \in Good PROVE n + 1 \in Good
  <2>1. PICK h : Adds(h, f, UpTo(S, n))
    BY <1>2
  <2> DEFINE Sum(u, s) == IF s = {} THEN 0 ELSE f[AnyOf(s)] + u[s \ {AnyOf(s)}]
             g == [s \in UpTo(S, n + 1) |-> Sum(h, s)]
  <2>2. \A s \in UpTo(S, n) : s \in UpTo(S, n + 1) /\ h[s] = Sum(h, s)
    <3>1. \A s \in UpTo(S, n) : h[s] = Sum(h, s)
      BY <2>1 DEF Adds
    <3>2. ASSUME NEW s \in UpTo(S, n) PROVE s \in UpTo(S, n + 1)
      <4>1. s \subseteq S /\ Cardinality(s) <= n
        BY DEF UpTo
      <4>2. Cardinality(s) \in Nat
        BY <4>1, FS_Subset, FS_CardinalityType
      <4> QED
        BY <4>1, <4>2 DEF UpTo
    <3> QED
      BY <3>1, <3>2
  <2>3. ASSUME NEW s \in UpTo(S, n + 1), s # {} PROVE s \ {AnyOf(s)} \in UpTo(S, n)
    <3>1. AnyOf(s) \in s
      BY <2>3 DEF AnyOf
    <3>2. s \subseteq S /\ Cardinality(s) <= n + 1
      BY DEF UpTo
    <3> QED
      BY <3>1, <3>2, OneLess DEF UpTo
  <2>4. ASSUME NEW s \in UpTo(S, n + 1) PROVE Sum(h, s) = Sum(g, s)
    <3>1. CASE s = {}
      BY <3>1
    <3>2. CASE s # {}
      <4>1. s \ {AnyOf(s)} \in UpTo(S, n)
        BY <2>3, <3>2
      <4>2. g[s \ {AnyOf(s)}] = h[s \ {AnyOf(s)}]
        BY <2>2, <4>1
      <4> QED
        BY <4>2
    <3> QED
      BY <3>1, <3>2
  <2>5. g = [s \in UpTo(S, n + 1) |-> Sum(g, s)]
    <3> HIDE DEF Sum
    <3>1. g = [s \in UpTo(S, n + 1) |-> Sum(h, s)]
      OBVIOUS
    <3> HIDE DEF g
    <3>2. [s \in UpTo(S, n + 1) |-> Sum(h, s)] = [s \in UpTo(S, n + 1) |-> Sum(g, s)]
      BY <2>4
    <3> QED
      BY <3>1, <3>2
  <2> HIDE DEF g
  <2>6. Adds(g, f, UpTo(S, n + 1))
    BY <2>5 DEF Adds
  <2> QED
    BY <2>6
<1>3. Cardinality(S) \in Nat
  BY FS_CardinalityType
<1> HIDE DEF Good
<1>4. Cardinality(S) \in Good
  BY <1>1, <1>2, <1>3, SetInduction
<1>5. UpTo(S, Cardinality(S)) = SUBSET S
  BY FS_Subset DEF UpTo
<1> QED
  BY <1>4, <1>5 DEF Good

\* What it is, and that it does not matter which member is left out.
LEMMA SumIsNat ==
  ASSUME NEW S, IsFiniteSet(S), NEW f, \A x \in S : f[x] \in Nat,
         NEW g, Adds(g, f, SUBSET S)
  PROVE  \A s \in SUBSET S : g[s] \in Nat
<1> DEFINE Good == {n \in Nat : \A s \in UpTo(S, n) : g[s] \in Nat}
<1>0. \A s \in SUBSET S : g[s] = IF s = {} THEN 0 ELSE f[AnyOf(s)] + g[s \ {AnyOf(s)}]
  BY DEF Adds
<1>1. 0 \in Good
  <2>1. \A s \in UpTo(S, 0) : s = {}
    BY UpToNone
  <2>2. {} \in SUBSET S
    OBVIOUS
  <2>3. g[{}] = 0
    BY <1>0, <2>2
  <2>4. ASSUME NEW s \in UpTo(S, 0) PROVE g[s] \in Nat
    <3>1. s = {}
      BY <2>1
    <3> QED
      BY <2>3, <3>1
  <2> QED
    BY <2>4
<1>2. ASSUME NEW n \in Nat, n \in Good PROVE n + 1 \in Good
  <2> SUFFICES ASSUME NEW s \in UpTo(S, n + 1) PROVE g[s] \in Nat
    OBVIOUS
  <2>1. s \subseteq S /\ Cardinality(s) <= n + 1
    BY DEF UpTo
  <2>2. CASE s # {}
    <3>1. AnyOf(s) \in s
      BY <2>2 DEF AnyOf
    <3>2. s \ {AnyOf(s)} \in UpTo(S, n)
      BY <2>1, <3>1, OneLess DEF UpTo
    <3>3. f[AnyOf(s)] \in Nat /\ g[s \ {AnyOf(s)}] \in Nat
      BY <1>2, <2>1, <3>1, <3>2
    <3>4. g[s] = f[AnyOf(s)] + g[s \ {AnyOf(s)}]
      BY <1>0, <2>1, <2>2
    <3> QED
      BY <3>3, <3>4
  <2>3. CASE s = {}
    <3>1. g[s] = 0
      BY <1>0, <2>1, <2>3
    <3> QED
      BY <3>1
  <2> QED
    BY <2>2, <2>3
<1>3. Cardinality(S) \in Nat
  BY FS_CardinalityType
<1> HIDE DEF Good
<1>4. Cardinality(S) \in Good
  BY <1>1, <1>2, <1>3, SetInduction
<1>5. UpTo(S, Cardinality(S)) = SUBSET S
  BY FS_Subset DEF UpTo
<1> QED
  BY <1>4, <1>5 DEF Good

LEMMA SumWithout ==
  ASSUME NEW S, IsFiniteSet(S), NEW f, \A x \in S : f[x] \in Nat,
         NEW g, Adds(g, f, SUBSET S)
  PROVE  \A s \in SUBSET S : \A x \in s : g[s] = f[x] + g[s \ {x}]
<1> DEFINE Good == {n \in Nat : \A s \in UpTo(S, n) : \A x \in s : g[s] = f[x] + g[s \ {x}]}
<1>0. \A s \in SUBSET S : g[s] = IF s = {} THEN 0 ELSE f[AnyOf(s)] + g[s \ {AnyOf(s)}]
  BY DEF Adds
<1>1. 0 \in Good
  <2>1. \A s \in UpTo(S, 0) : s = {}
    BY UpToNone
  <2> QED
    BY <2>1
<1>2. ASSUME NEW n \in Nat, n \in Good PROVE n + 1 \in Good
  <2> SUFFICES ASSUME NEW s \in UpTo(S, n + 1), NEW x \in s PROVE g[s] = f[x] + g[s \ {x}]
    OBVIOUS
  <2> DEFINE y == AnyOf(s)
  <2>1. s \subseteq S /\ Cardinality(s) <= n + 1
    BY DEF UpTo
  <2>2. y \in s
    BY DEF AnyOf
  <2>3. g[s] = f[y] + g[s \ {y}]
    BY <1>0, <2>1, <2>2
  <2> HIDE DEF y
  <2>4. CASE x # y
    <3>1. s \ {x} \in UpTo(S, n) /\ s \ {y} \in UpTo(S, n)
      BY <2>1, <2>2, OneLess DEF UpTo
    <3>2. g[s \ {x}] = f[y] + g[(s \ {x}) \ {y}] /\ g[s \ {y}] = f[x] + g[(s \ {y}) \ {x}]
      BY <1>2, <2>2, <2>4, <3>1
    <3>3. (s \ {x}) \ {y} = (s \ {y}) \ {x} /\ (s \ {x}) \ {y} \in SUBSET S
      BY <2>1
    <3>4. f[x] \in Nat /\ f[y] \in Nat /\ g[(s \ {x}) \ {y}] \in Nat
      BY <2>1, <2>2, <3>3, SumIsNat
    <3>5. PICK rest \in Nat : g[s \ {x}] = f[y] + rest /\ g[s \ {y}] = f[x] + rest
      BY <3>2, <3>3, <3>4
    <3> QED
      BY <2>3, <3>4, <3>5
  <2> QED
    BY <2>3, <2>4
<1>3. Cardinality(S) \in Nat
  BY FS_CardinalityType
<1> HIDE DEF Good
<1>4. Cardinality(S) \in Good
  BY <1>1, <1>2, <1>3, SetInduction
<1>5. UpTo(S, Cardinality(S)) = SUBSET S
  BY FS_Subset DEF UpTo
<1> QED
  BY <1>4, <1>5 DEF Good

\* A part adds up to no more than the whole, also when it is added up by itself.
LEMMA SumOfPart ==
  ASSUME NEW S, IsFiniteSet(S), NEW f, \A x \in S : f[x] \in Nat,
         NEW T, T \subseteq S,
         NEW g, Adds(g, f, SUBSET S), NEW h, Adds(h, f, SUBSET T)
  PROVE  g[S] \in Nat /\ h[T] \in Nat /\ h[T] <= g[S]
<1> DEFINE Good == {n \in Nat : \A s \in UpTo(S, n) :
                      \A t \in SUBSET T : t \subseteq s => h[t] <= g[s]}
<1>0. /\ IsFiniteSet(T) /\ \A x \in T : f[x] \in Nat
      /\ \A s \in SUBSET S : g[s] \in Nat
      /\ \A s \in SUBSET S : \A x \in s : g[s] = f[x] + g[s \ {x}]
  BY FS_Subset, SumIsNat, SumWithout
<1>a. /\ \A t \in SUBSET T : h[t] \in Nat
      /\ \A t \in SUBSET T : \A x \in t : h[t] = f[x] + h[t \ {x}]
  <2>1. IsFiniteSet(T) /\ \A x \in T : f[x] \in Nat
    BY <1>0
  <2>2. \A t \in SUBSET T : h[t] \in Nat
    BY <2>1, SumIsNat
  <2>3. \A t \in SUBSET T : \A x \in t : h[t] = f[x] + h[t \ {x}]
    <3> SUFFICES ASSUME NEW t \in SUBSET T, NEW x \in t PROVE h[t] = f[x] + h[t \ {x}]
      OBVIOUS
    <3> QED
      BY <2>1, SumWithout
  <2> QED
    BY <2>2, <2>3
<1>b. h[{}] = 0
  BY {} \in SUBSET T DEF Adds
<1>1. 0 \in Good
  <2>1. \A s \in UpTo(S, 0) : s = {}
    BY UpToNone
  <2>2. {} \in SUBSET S
    OBVIOUS
  <2>3. h[{}] <= g[{}]
    BY <1>0, <1>b, <2>2
  <2>4. ASSUME NEW s \in UpTo(S, 0), NEW t \in SUBSET T, t \subseteq s PROVE h[t] <= g[s]
    <3>1. s = {} /\ t = {}
      BY <2>1, <2>4
    <3> QED
      BY <2>3, <3>1
  <2> QED
    BY <2>4
<1>2. ASSUME NEW n \in Nat, n \in Good PROVE n + 1 \in Good
  <2> SUFFICES ASSUME NEW s \in UpTo(S, n + 1), NEW t \in SUBSET T, t \subseteq s
               PROVE  h[t] <= g[s]
    OBVIOUS
  <2>1. s \subseteq S /\ Cardinality(s) <= n + 1
    BY DEF UpTo
  <2>2. CASE s = {}
    <3>1. t = {} /\ g[s] \in Nat
      BY <1>0, <2>1, <2>2
    <3> QED
      BY <1>b, <3>1
  <2>3. ASSUME NEW x \in s PROVE h[t] <= g[s]
    <3>1. s \ {x} \in UpTo(S, n) /\ s \ {x} \in SUBSET S
      BY <2>1, OneLess DEF UpTo
    <3>2. t \ {x} \in SUBSET T /\ t \ {x} \subseteq s \ {x}
      OBVIOUS
    <3>3. h[t \ {x}] <= g[s \ {x}]
      BY <1>2, <3>1, <3>2
    <3>4. g[s] = f[x] + g[s \ {x}] /\ g[s \ {x}] \in Nat /\ f[x] \in Nat
      BY <1>0, <2>1, <3>1
    <3>5. CASE x \in t
      <4>1. h[t] = f[x] + h[t \ {x}] /\ h[t \ {x}] \in Nat
        BY <1>a, <3>2, <3>5
      <4> QED
        BY <3>3, <3>4, <4>1
    <3>6. CASE x \notin t
      <4>1. t \ {x} = t /\ h[t] \in Nat
        BY <1>a, <3>6
      <4>2. h[t] <= g[s \ {x}]
        BY <3>3, <4>1
      <4>3. g[s \ {x}] <= g[s]
        BY <3>4
      <4>4. g[s] \in Nat
        BY <3>4
      <4> QED
        BY <3>4, <4>1, <4>2, <4>3, <4>4
    <3> QED
      BY <3>5, <3>6
  <2> QED
    BY <2>2, <2>3
<1>3. Cardinality(S) \in Nat
  BY FS_CardinalityType
<1> HIDE DEF Good
<1>4. Cardinality(S) \in Good
  BY <1>1, <1>2, <1>3, SetInduction
<1>5. S \in UpTo(S, Cardinality(S))
  BY <1>3 DEF UpTo
<1>6. h[T] <= g[S]
  BY <1>4, <1>5 DEF Good
<1> QED
  BY <1>0, <1>a, <1>6
=============================================================================
