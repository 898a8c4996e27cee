------------------------ MODULE TradeEstimate_proofs ------------------------
(***************************************************************************)
(* Proofs about TradeEstimate: what the path finder finds, that the search *)
(* for a purchase ends and what it answers, what a fee and a rate are -    *)
(* for any pools, in any order, and any requests.                          *)
(***************************************************************************)
EXTENDS PdexLists_proofs, SequenceTheorems

-----------------------------------------------------------------------------
(* The greatest and the least number of a set, and folds over a sequence.  *)

LEMMA MaxIs ==
  ASSUME NEW S, S \subseteq Int, NEW m \in S, \A x \in S : x <= m
  PROVE  Max(S) = m
<1>1. \E x \in S : \A y \in S : x >= y
  OBVIOUS
<1>2. Max(S) \in S /\ \A y \in S : Max(S) >= y
  BY <1>1 DEF Max
<1>3. Max(S) \in Int /\ m \in Int /\ Max(S) <= m /\ Max(S) >= m
  BY <1>2
<1> QED
  BY <1>3

LEMMA MaxOf ==
  ASSUME NEW n \in Nat, NEW S, S \subseteq 0 .. n, S # {}
  PROVE  Max(S) \in S /\ \A x \in S : x <= Max(S)
<1>1. PICK m \in S : \A j \in S : j <= m
  BY GreatestNatural
<1>2. S \subseteq Int
  OBVIOUS
<1>3. Max(S) = m
  BY <1>1, <1>2, MaxIs
<1> QED
  BY <1>1, <1>3

LEMMA MaxFinite ==
  ASSUME NEW S, IsFiniteSet(S), S \subseteq Nat, S # {}
  PROVE  Max(S) \in S /\ \A x \in S : x <= Max(S)
<1> DEFINE Good == {k \in Nat : \A T \in UpTo(S, k) : \E n \in Nat : T \subseteq 0 .. n}
<1>1. 0 \in Good
  <2>1. \A T \in UpTo(S, 0) : T \subseteq 0 .. 0
    BY UpToNone
  <2> QED
    BY <2>1
<1>2. ASSUME NEW k \in Nat, k \in Good PROVE k + 1 \in Good
  <2> SUFFICES ASSUME NEW T \in UpTo(S, k + 1) PROVE \E n \in Nat : T \subseteq 0 .. n
    OBVIOUS
  <2>1. T \subseteq S /\ Cardinality(T) <= k + 1
    BY DEF UpTo
  <2>2. CASE T = {}
    <3>1. T \subseteq 0 .. 0
      BY <2>2
    <3> QED
      BY <3>1
  <2>3. ASSUME NEW x \in T PROVE \E n \in Nat : T \subseteq 0 .. n
    <3>0. Cardinality(T) \in Nat /\ T \ {x} \subseteq S /\ Cardinality(T \ {x}) = Cardinality(T) - 1
      BY <2>1, OneLess
    <3>1. T \ {x} \in UpTo(S, k)
      BY <2>1, <3>0 DEF UpTo
    <3>2. PICK n \in Nat : T \ {x} \subseteq 0 .. n
      BY <1>2, <3>1
    <3>3. x \in Nat /\ n + x \in Nat
      BY <2>1
    <3>4. T \subseteq 0 .. n + x
      BY <3>2, <3>3
    <3> QED
      BY <3>3, <3>4
  <2> QED
    BY <2>2, <2>3
<1>3. Cardinality(S) \in Nat
  BY FS_CardinalityType
<1> HIDE DEF Good
<1>4. Cardinality(S) \in Good
  BY <1>1, <1>2, <1>3, SetInduction
<1>5. S \in UpTo(S, Cardinality(S))
  BY <1>3 DEF UpTo
<1>6. PICK n \in Nat : S \subseteq 0 .. n
  BY <1>4, <1>5 DEF Good
<1> QED
  BY <1>6, MaxOf

LEMMA MinOf ==
  ASSUME NEW S, S \subseteq Nat, S # {}
  PROVE  Min(S) \in S /\ \A x \in S : Min(S) <= x
<1>1. \E m \in S : \A j \in S : m <= j
  BY LeastNatural
<1> QED
  BY <1>1 DEF Min

LEMMA Initial ==
  ASSUME NEW n \in Nat, NEW k \in 1 .. n
  PROVE  /\ 1 .. k \in SUBSET (1 .. n) /\ 1 .. k # {}
         /\ Max(1 .. k) = k /\ (1 .. k) \ {k} = 1 .. k - 1
<1>1. k \in 1 .. k /\ \A x \in 1 .. k : x <= k
  OBVIOUS
<1>2. 1 .. k \subseteq Int
  OBVIOUS
<1>3. Max(1 .. k) = k
  BY <1>1, <1>2, MaxIs
<1> QED
  BY <1>1, <1>3

LEMMA MaxIn ==
  ASSUME NEW n \in Nat, NEW s \in SUBSET (1 .. n), s # {}
  PROVE  Max(s) \in s
<1>1. s \subseteq 0 .. n
  OBVIOUS
<1> QED
  BY <1>1, MaxOf

\* What folds are made of: a function on the sets of a sequence's indices, that
\* takes the last index of a set after the others.
Folding(g, F, base, n) ==
  g = [s \in SUBSET (1 .. n) |-> IF s = {} THEN base ELSE F[<<g[s \ {Max(s)}], Max(s)>>]]

LEMMA FoldingExists ==
  ASSUME NEW n \in Nat, NEW V, NEW base \in V, NEW F \in [V \X (1 .. n) -> V]
  PROVE  \E g \in [SUBSET (1 .. n) -> V] : Folding(g, F, base, n)
<1> DEFINE S == 1 .. n
           last == [s \in SUBSET S |-> Max(s)]
           Step(g, s) == IF s = {} THEN base ELSE F[<<g[s \ {Max(s)}], Max(s)>>]
           Good == {k \in Nat : \E g \in [UpTo(S, k) -> V] : g = [s \in UpTo(S, k) |-> Step(g, s)]}
<1>0. IsFiniteSet(S)
  BY FS_Interval
<1>a. ASSUME NEW k \in Nat, NEW s \in UpTo(S, k + 1), s # {}
      PROVE  Max(s) \in S /\ s \ {Max(s)} \in UpTo(S, k)
  <2>1. s \in SUBSET S /\ Cardinality(s) <= k + 1
    BY DEF UpTo
  <2>2. Max(s) \in s
    BY <1>a, <2>1, MaxIn
  <2>3. Cardinality(s \ {Max(s)}) = Cardinality(s) - 1 /\ Cardinality(s) \in Nat
    BY <1>0, <2>1, <2>2, OneLess
  <2>4. s \ {Max(s)} \in SUBSET S /\ Max(s) \in S
    BY <2>1, <2>2
  <2>5. Cardinality(s \ {Max(s)}) <= k
    BY <2>1, <2>3
  <2> HIDE DEF S
  <2> QED
    BY <2>4, <2>5 DEF UpTo
<1>1. 0 \in Good
  <2> DEFINE g == [s \in UpTo(S, 0) |-> base]
  <2>1. \A s \in UpTo(S, 0) : s = {}
    BY <1>0, UpToNone
  <2>2. g \in [UpTo(S, 0) -> V] /\ g = [s \in UpTo(S, 0) |-> Step(g, s)]
    BY <2>1
  <2> QED
    BY <2>2
<1>2. ASSUME NEW k \in Nat, k \in Good PROVE k + 1 \in Good
  <2>1. PICK h \in [UpTo(S, k) -> V] : h = [s \in UpTo(S, k) |-> Step(h, s)]
    BY <1>2
  <2> DEFINE g == [s \in UpTo(S, k + 1) |-> Step(h, s)]
  <2>2. \A s \in UpTo(S, k + 1) : Step(h, s) \in V
    <3> SUFFICES ASSUME NEW s \in UpTo(S, k + 1), s # {} PROVE F[<<h[s \ {Max(s)}], Max(s)>>] \in V
      OBVIOUS
    <3>1. Max(s) \in S /\ h[s \ {Max(s)}] \in V
      BY <1>a, <2>1
    <3> QED
      BY <3>1
  <2>3. \A s \in UpTo(S, k) : s \in UpTo(S, k + 1) /\ h[s] = g[s]
    <3>1. \A s \in UpTo(S, k) : h[s] = Step(h, s)
      BY <2>1
    <3>2. ASSUME NEW s \in UpTo(S, k) PROVE s \in UpTo(S, k + 1)
      <4>1. s \subseteq S /\ Cardinality(s) <= k
        BY DEF UpTo
      <4>2. Cardinality(s) \in Nat
        BY <1>0, <4>1, FS_Subset, FS_CardinalityType
      <4> QED
        BY <4>1, <4>2 DEF UpTo
    <3> QED
      BY <3>1, <3>2
  <2>4. ASSUME NEW s \in UpTo(S, k + 1) PROVE Step(h, s) = Step(g, s)
    <3>1. ASSUME s # {} PROVE h[s \ {Max(s)}] = g[s \ {Max(s)}]
      BY <1>a, <2>3, <3>1
    <3> QED
      BY <3>1
  <2>5. g \in [UpTo(S, k + 1) -> V]
    BY <2>2
  <2>6. g = [s \in UpTo(S, k + 1) |-> Step(g, s)]
    <3> HIDE DEF Step
    <3>1. g = [s \in UpTo(S, k + 1) |-> Step(h, s)]
      OBVIOUS
    <3> HIDE DEF g
    <3>2. [s \in UpTo(S, k + 1) |-> Step(h, s)] = [s \in UpTo(S, k + 1) |-> Step(g, s)]
      BY <2>4
    <3> QED
      BY <3>1, <3>2
  <2> HIDE DEF g, Step
  <2> QED
    BY <2>5, <2>6
<1>3. Cardinality(S) \in Nat
  BY <1>0, FS_CardinalityType
<1> HIDE DEF Good
<1>4. Cardinality(S) \in Good
  BY <1>1, <1>2, <1>3, SetInduction
<1>5. UpTo(S, Cardinality(S)) = SUBSET S
  BY <1>0, FS_Subset DEF UpTo
<1> QED
  BY <1>4, <1>5 DEF Good, Folding

-----------------------------------------------------------------------------
(* What a request is answered from. *)

\* The request, the height it reads, and its pools in some order.
Asked ==
  /\ chain \in DOMAIN Histories /\ call \in This.requests
  /\ asOf \in 1 .. LastBlock
  /\ offered \in SetToSeqs(PoolsFor(call, market))

LEMMA Constants ==
  /\ LastBlock \in Nat \ {0} /\ Word \in Nat \ {0}
  /\ PRV \in Tokens /\ IsFiniteSet(Tokens) /\ NoPool \notin PoolType
  /\ MaxTradePath \in Nat \ {0} /\ MaxPaths \in Nat \ {0} /\ BPS \in Nat \ {0}
  /\ Percent \in Nat \ {0} /\ Slack \in Nat \ {0} /\ Ten \in Nat \ {0}
BY HistoryAssumption, MarketAssumption

LEMMA MarketFacts ==
  ASSUME Asked
  PROVE  /\ call \in Request /\ market \in MarketType
         /\ IsFiniteSet(market.pools) /\ PoolsFor(call, market) \subseteq market.pools
         /\ IsFiniteSet(PoolsFor(call, market))
<1>1. /\ This.requests \subseteq Request /\ This.requests # {}
      /\ market \in MarketType /\ IsFiniteSet(market.pools)
  BY MarketAssumption DEF Asked, This, market
<1>2. PoolsFor(call, market) \subseteq market.pools
  BY DEF PoolsFor, DefaultPools
<1> QED
  BY <1>1, <1>2, FS_Subset DEF Asked

\* The pools in the order of the path finder.
LEMMA OfferedFacts ==
  ASSUME Asked
  PROVE  /\ \E n \in Nat : DOMAIN offered = 1 .. n /\ offered \in [1 .. n -> PoolType]
         /\ ToSet(offered) = PoolsFor(call, market) /\ ToSet(offered) \subseteq PoolType
         /\ \A i, j \in DOMAIN offered : i # j => offered[i] # offered[j]
<1> DEFINE S == PoolsFor(call, market)
           n == Cardinality(S)
<1>1. IsFiniteSet(S) /\ S \subseteq market.pools /\ market \in MarketType
  BY MarketFacts
<1>2. n \in Nat
  BY <1>1, FS_CardinalityType
<1>3. S \subseteq PoolType
  BY <1>1 DEF MarketType
<1>4. offered \in [1 .. n -> S] /\ \A i, j \in 1 .. n : i # j => offered[i] # offered[j]
  BY DEF Asked, SetToSeqs
<1> HIDE DEF S
<1>5. offered \in Injection(1 .. n, S)
  BY <1>4 DEF Injection, IsInjective
<1>6. IsFiniteSet(1 .. n) /\ Cardinality(1 .. n) = n
  BY <1>2, FS_Interval
<1>7. offered \in Surjection(1 .. n, S)
  BY <1>1, <1>5, <1>6, FS_Injection
<1>8. ToSet(offered) = S
  BY <1>4, <1>7 DEF ToSet, Surjection
<1>9. DOMAIN offered = 1 .. n /\ offered \in [1 .. n -> PoolType]
  BY <1>3, <1>4
<1> QED
  BY <1>2, <1>3, <1>4, <1>8, <1>9 DEF S

\* What holds at 0, and from each number up to n at the next, holds for all of them.
LEMMA UpInduction ==
  ASSUME NEW n \in Nat, NEW S, 0 \in S, \A k \in 1 .. n : k - 1 \in S => k \in S
  PROVE  \A k \in 0 .. n : k \in S
<1> DEFINE T == {k \in Nat : k <= n => k \in S}
<1>1. 0 \in T
  OBVIOUS
<1>2. \A k \in Nat : k \in T => k + 1 \in T
  <2> SUFFICES ASSUME NEW k \in Nat, k <= n => k \in S, k + 1 <= n PROVE k + 1 \in S
    OBVIOUS
  <2>1. k \in S /\ k + 1 \in 1 .. n /\ (k + 1) - 1 = k
    OBVIOUS
  <2> QED
    BY <2>1
<1>3. Nat \subseteq T
  <2> HIDE DEF T
  <2> QED
    BY <1>1, <1>2, SetInduction
<1> QED
  BY <1>3

\* The values a recursion takes, one after another: they exist, and there is one
\* recursion with given steps.
Hops(h, F, base, n) == h[0] = base /\ \A k \in 1 .. n : h[k] = F[<<h[k - 1], k>>]

LEMMA HopsExist ==
  ASSUME NEW n \in Nat, NEW V, NEW base \in V, NEW F \in [V \X (1 .. n) -> V]
  PROVE  \E h \in [0 .. n -> V] : Hops(h, F, base, n)
<1>1. PICK g \in [SUBSET (1 .. n) -> V] : Folding(g, F, base, n)
  BY FoldingExists
<1> DEFINE h == [k \in 0 .. n |-> g[1 .. k]]
<1>2. \A k \in 0 .. n : 1 .. k \in SUBSET (1 .. n)
  OBVIOUS
<1>3. h \in [0 .. n -> V]
  BY <1>2
<1>4. h[0] = base
  <2>1. 1 .. 0 = {} /\ 1 .. 0 \in SUBSET (1 .. n)
    OBVIOUS
  <2> QED
    BY <1>1, <2>1 DEF Folding
<1>5. ASSUME NEW k \in 1 .. n PROVE h[k] = F[<<h[k - 1], k>>]
  <2>1. /\ 1 .. k \in SUBSET (1 .. n) /\ 1 .. k # {}
        /\ Max(1 .. k) = k /\ (1 .. k) \ {k} = 1 .. k - 1
    BY Initial
  <2>2. g[1 .. k] = F[<<g[1 .. k - 1], k>>]
    BY <1>1, <2>1 DEF Folding
  <2>3. k \in 0 .. n /\ k - 1 \in 0 .. n
    OBVIOUS
  <2> QED
    BY <2>2, <2>3
<1> HIDE DEF h
<1> QED
  BY <1>3, <1>4, <1>5 DEF Hops

-----------------------------------------------------------------------------
(* Numbers. *)

LEMMA Product ==
  ASSUME NEW a \in Nat, NEW b \in Nat, NEW c \in Nat, a <= b
  PROVE  a * c \in Nat /\ b * c \in Nat /\ a * c <= b * c
OBVIOUS

LEMMA LessProduct ==
  ASSUME NEW a \in Int, NEW b \in Int, NEW c \in Nat \ {0}
  PROVE  (a * c < b * c <=> a < b) /\ (a * c <= b * c <=> a <= b)
<1>1. a < b => a * c < b * c
  OBVIOUS
<1>2. b < a => b * c < a * c
  OBVIOUS
<1>3. a = b => a * c = b * c
  OBVIOUS
<1>4. a * c \in Int /\ b * c \in Int
  OBVIOUS
<1> QED
  BY <1>1, <1>2, <1>3, <1>4

\* A quotient rounded up is the least number that is enough.
LEMMA CeilDivIs ==
  ASSUME NEW n \in Nat, NEW d \in Nat \ {0}
  PROVE  /\ CeilDiv(n, d) \in Nat /\ n <= CeilDiv(n, d) * d
         /\ \A k \in Nat : n <= k * d => CeilDiv(n, d) <= k
<1> DEFINE q == (n + d - 1) \div d
           r == (n + d - 1) % d
<1>1. q \in Nat /\ r \in 0 .. d - 1 /\ n + d - 1 = d * q + r
  BY n + d - 1 \in Nat
<1>2. CeilDiv(n, d) = q
  BY DEF CeilDiv
<1> HIDE DEF q, r
<1>3. d * q = q * d /\ q * d \in Nat
  BY <1>1
<1>4. n <= q * d
  BY <1>1, <1>3
<1>5. ASSUME NEW k \in Nat, n <= k * d PROVE q <= k
  <2> SUFFICES ASSUME k + 1 <= q PROVE FALSE
    BY <1>1
  <2>1. (k + 1) * d <= q * d /\ (k + 1) * d = k * d + d /\ k * d \in Nat
    BY <1>1, Product
  <2> QED
    BY <1>1, <1>3, <1>5, <2>1
<1> QED
  BY <1>1, <1>2, <1>4, <1>5

LEMMA CeilDivGrows ==
  ASSUME NEW m \in Nat, NEW n \in Nat, NEW d \in Nat \ {0}, m <= n
  PROVE  CeilDiv(m, d) <= CeilDiv(n, d)
BY CeilDivIs

LEMMA CeilDivZero ==
  ASSUME NEW d \in Nat \ {0}
  PROVE  CeilDiv(0, d) = 0
<1>1. 0 <= 0 * d
  OBVIOUS
<1> QED
  BY <1>1, CeilDivIs

\* It depends on the ratio alone.
LEMMA CeilDivRatio ==
  ASSUME NEW a \in Nat, NEW b \in Nat \ {0}, NEW c \in Nat, NEW d \in Nat \ {0},
         a * d <= c * b
  PROVE  CeilDiv(a, b) <= CeilDiv(c, d)
<1> DEFINE k == CeilDiv(c, d)
<1>1. k \in Nat /\ c <= k * d
  BY CeilDivIs
<1> HIDE DEF k
<1>2. c * b <= (k * d) * b
  BY <1>1, Product
<1>3. a * d <= (k * b) * d
  <2>1. (k * d) * b = (k * b) * d
    BY <1>1
  <2>2. a * d \in Nat /\ c * b \in Nat /\ (k * b) * d \in Nat
    BY <1>1
  <2> QED
    BY <1>2, <2>1, <2>2
<1>4. a <= k * b
  <2>1. k * b \in Nat
    BY <1>1
  <2> QED
    BY <1>3, <2>1, LessProduct
<1> QED
  BY <1>1, <1>4, CeilDivIs DEF k

-----------------------------------------------------------------------------
(* What one pool pays, and the best of those that join two tokens. *)

LEMMA SideFacts ==
  ASSUME NEW p \in PoolType, NEW s, NEW d, Joins(p, s, d)
  PROVE  /\ SideOf(p, s) \in {1, 2} /\ SideOf(p, d) = 3 - SideOf(p, s)
         /\ p.pair[SideOf(p, s)] = s /\ s # d
         /\ s \in ToSet(p.pair) /\ s \in Tokens /\ d \in Tokens
         /\ d = IF p.pair[1] # s THEN p.pair[1] ELSE p.pair[2]
<1>1. p.pair \in Tokens \X Tokens /\ s # d /\ {s, d} = {p.pair[1], p.pair[2]}
  BY DEF PoolType, Joins
<1>2. ToSet(p.pair) = {p.pair[1], p.pair[2]}
  <2>1. DOMAIN p.pair = {1, 2}
    BY <1>1
  <2> QED
    BY <2>1 DEF ToSet
<1> QED
  BY <1>1, <1>2 DEF SideOf

LEMMA TradeType ==
  ASSUME NEW p \in PoolType, NEW t, NEW a \in Nat
  PROVE  /\ Trade(p, t, a) \in 0 .. Word - 1
         /\ Trade(p, t, a) <= p.real[3 - SideOf(p, t)]
         /\ Trade(p, t, 0) = 0
         /\ p.real[3 - SideOf(p, t)] \in {p.real[1], p.real[2]}
         /\ p.real[1] \in 0 .. Word - 1 /\ p.real[2] \in 0 .. Word - 1
<1> DEFINE i == SideOf(p, t)
           out == (p.virtual[3 - i] * a) \div (p.virtual[i] + a)
<1>1. i \in {1, 2} /\ 3 - i \in {1, 2}
  BY DEF SideOf
<1>2. /\ p.virtual[1] \in Nat /\ p.virtual[2] \in Nat
      /\ p.real[1] \in 0 .. Word - 1 /\ p.real[2] \in 0 .. Word - 1
  BY DEF PoolType
<1>3. /\ p.virtual[i] \in Nat /\ p.virtual[3 - i] \in Nat /\ p.real[3 - i] \in 0 .. Word - 1
      /\ p.real[3 - i] \in {p.real[1], p.real[2]} /\ Word \in Nat
  BY <1>1, <1>2, Constants
<1>4. Trade(p, t, a) = IF \/ a = 0 \/ p.virtual[i] = 0
                          \/ p.real[i] + a >= Word \/ out > p.real[3 - i] THEN 0 ELSE out
  BY DEF Trade
<1>5. Trade(p, t, 0) = 0
  BY DEF Trade
<1>6. a # 0 => out \in Nat
  <2> SUFFICES ASSUME a # 0 PROVE out \in Nat
    OBVIOUS
  <2>1. p.virtual[i] + a \in Nat \ {0} /\ p.virtual[3 - i] * a \in Nat
    BY <1>3
  <2> QED
    BY <2>1
<1> HIDE DEF i, out
<1>7. Trade(p, t, a) \in 0 .. Word - 1 /\ Trade(p, t, a) <= p.real[3 - i]
  <2>1. Trade(p, t, a) = 0 \/ (Trade(p, t, a) = out /\ a # 0 /\ ~(out > p.real[3 - i]))
    BY <1>4
  <2> QED
    BY <1>3, <1>6, <2>1
<1> QED
  BY <1>2, <1>3, <1>5, <1>7 DEF i

\* What is left when the default fee has been taken off.
LEMMA NetType ==
  ASSUME NEW m \in MarketType, NEW a \in Nat
  PROVE  Net(m, a) \in 0 .. a
<1>1. m.defaultRate \in 0 .. BPS /\ BPS \in Nat \ {0}
  BY Constants DEF MarketType
<1>2. a * m.defaultRate \in Nat /\ a * m.defaultRate <= a * BPS
  BY <1>1
<1>3. CeilDiv(a * m.defaultRate, BPS) \in 0 .. a
  BY <1>1, <1>2, CeilDivIs
<1> QED
  BY <1>3 DEF Net

LEMMA NetGrows ==
  ASSUME NEW m \in MarketType, NEW a \in Nat, NEW b \in Nat, a <= b
  PROVE  Net(m, a) <= Net(m, b)
<1> DEFINE r == m.defaultRate
           k == CeilDiv(a * r, BPS)
<1>1. r \in 0 .. BPS /\ BPS \in Nat \ {0}
  BY Constants DEF MarketType
<1>2. a * r \in Nat /\ b * r \in Nat
  BY <1>1
<1>3. k \in Nat /\ a * r <= k * BPS
  BY <1>1, <1>2, CeilDivIs
<1>4. CeilDiv(b * r, BPS) \in Nat
  BY <1>1, <1>2, CeilDivIs
<1> HIDE DEF r, k
<1>5. b * r <= (k + (b - a)) * BPS
  <2>1. (b - a) * r <= (b - a) * BPS
    BY <1>1, r * (b - a) <= BPS * (b - a)
  <2>2. b * r = a * r + (b - a) * r
    BY <1>1
  <2>3. (k + (b - a)) * BPS = k * BPS + (b - a) * BPS
    BY <1>1, <1>3
  <2>4. (b - a) * r \in Int /\ (b - a) * BPS \in Int /\ k * BPS \in Int
    BY <1>1, <1>3
  <2> QED
    BY <1>2, <1>3, <2>1, <2>2, <2>3, <2>4
<1>6. CeilDiv(b * r, BPS) <= k + (b - a)
  BY <1>1, <1>2, <1>3, <1>5, CeilDivIs
<1> QED
  BY <1>3, <1>4, <1>6 DEF Net, r, k

\* chooseBestPoolFromAPair: nothing, or what a pool of the pair pays; and no pool of
\* the pair pays more.
LEMMA BestPoolFacts ==
  ASSUME Asked, NEW s, NEW d, NEW a \in Nat
  PROVE  LET best1 == BestPool(s, d, a) IN
         /\ best1 \in [pool : PoolType \union {NoPool}, receive : 0 .. Word - 1]
         /\ best1.receive # 0 =>
              /\ best1.pool \in ToSet(offered) /\ Joins(best1.pool, s, d)
              /\ Trade(best1.pool, s, Net(market, a)) = best1.receive
         /\ \A p \in ToSet(offered) : Joins(p, s, d) =>
              Trade(p, s, Net(market, a)) <= best1.receive
<1> DEFINE net == Net(market, a)
           B == Between(s, d)
           offers == {<<i, Trade(offered[i], s, net)>> : i \in B}
           all == {0} \union {o[2] : o \in offers}
           most == Max(all)
           top == {o[1] : o \in {x \in offers : x[2] = most}}
           best1 == BestPool(s, d, a)
<1>1. PICK n \in Nat : DOMAIN offered = 1 .. n /\ offered \in [1 .. n -> PoolType]
  BY OfferedFacts
<1>2. net \in Nat
  BY NetType, MarketFacts
<1>3. B \subseteq 1 .. n /\ \A i \in B : offered[i] \in PoolType /\ Joins(offered[i], s, d)
  BY <1>1 DEF Between
<1>4. \A i \in B : Trade(offered[i], s, net) \in 0 .. Word - 1
  BY <1>2, <1>3, TradeType
<1> HIDE DEF net, B
<1>5. all = {0} \union {Trade(offered[i], s, net) : i \in B}
  <2>1. \A o \in offers : \E i \in B : o[2] = Trade(offered[i], s, net)
    OBVIOUS
  <2>2. \A i \in B : \E o \in offers : o[2] = Trade(offered[i], s, net)
    <3> SUFFICES ASSUME NEW i \in B PROVE \E o \in offers : o[2] = Trade(offered[i], s, net)
      OBVIOUS
    <3> WITNESS <<i, Trade(offered[i], s, net)>> \in offers
    <3> QED
      OBVIOUS
  <2> HIDE DEF offers
  <2> QED
    BY <2>1, <2>2
<1>6. all \subseteq 0 .. Word - 1 /\ all # {} /\ Word - 1 \in Nat
  <2> HIDE DEF all
  <2> QED
    BY <1>4, <1>5, Constants
<1>7. top = {i \in B : Trade(offered[i], s, net) = most}
  <2> HIDE DEF most
  <2>1. \A i \in top : i \in B /\ Trade(offered[i], s, net) = most
    OBVIOUS
  <2>2. ASSUME NEW i \in B, Trade(offered[i], s, net) = most PROVE i \in top
    <3>1. <<i, Trade(offered[i], s, net)>> \in {x \in offers : x[2] = most}
      BY <2>2
    <3> QED
      BY <3>1
  <2> HIDE DEF top
  <2> QED
    BY <2>1, <2>2
<1>8. best1 = IF most = 0 THEN [pool |-> NoPool, receive |-> 0]
              ELSE [pool |-> offered[Min(top)], receive |-> most]
  BY Zenon DEF BestPool, net, B
<1> HIDE DEF all, offers, best1
<1>9. most \in all /\ \A x \in all : x <= most
  BY <1>6, MaxOf
<1> HIDE DEF most, top
<1>10. \A i \in B : Trade(offered[i], s, net) <= most
  BY <1>5, <1>9
<1>11. most \in 0 .. Word - 1
  BY <1>6, <1>9
<1>12. best1.receive = most
  BY <1>8
<1>13. ASSUME most # 0
       PROVE  \E i \in B : best1 = [pool |-> offered[i], receive |-> most] /\ Trade(offered[i], s, net) = most
  <2>0. PICK i \in B : Trade(offered[i], s, net) = most
    BY <1>5, <1>9, <1>13
  <2>1. top # {} /\ top \subseteq Nat
    <3>1. i \in top /\ top \subseteq B
      BY <1>7, <2>0
    <3> QED
      BY <1>3, <3>1
  <2>2. Min(top) \in top
    BY <2>1, MinOf
  <2> QED
    BY <1>7, <1>8, <1>13, <2>2
<1>14. best1 \in [pool : PoolType \union {NoPool}, receive : 0 .. Word - 1]
  BY <1>3, <1>8, <1>11, <1>13
<1>15. most # 0 => /\ best1.pool \in ToSet(offered) /\ Joins(best1.pool, s, d)
                   /\ Trade(best1.pool, s, net) = most
  <2> SUFFICES ASSUME most # 0
               PROVE  /\ best1.pool \in ToSet(offered) /\ Joins(best1.pool, s, d)
                      /\ Trade(best1.pool, s, net) = most
    OBVIOUS
  <2>1. PICK i \in B : best1 = [pool |-> offered[i], receive |-> most] /\ Trade(offered[i], s, net) = most
    BY <1>13
  <2>2. best1.pool = offered[i] /\ i \in DOMAIN offered
    BY <1>1, <1>3, <2>1
  <2>3. offered[i] \in ToSet(offered)
    BY <2>2 DEF ToSet
  <2> QED
    BY <1>3, <2>1, <2>2, <2>3
<1>16. \A p \in ToSet(offered) : Joins(p, s, d) => Trade(p, s, net) <= most
  <2> SUFFICES ASSUME NEW i \in DOMAIN offered, Joins(offered[i], s, d)
               PROVE  Trade(offered[i], s, net) <= most
    BY DEF ToSet
  <2> QED
    BY <1>10 DEF Between, B
<1> QED
  BY <1>12, <1>14, <1>15, <1>16 DEF best1, net

\* Of nothing it makes nothing.
LEMMA BestPoolOfNothing ==
  ASSUME Asked, NEW s, NEW d
  PROVE  BestPool(s, d, 0).receive = 0
<1>1. Net(market, 0) = 0
  BY NetType, MarketFacts
<1>2. ASSUME NEW p \in ToSet(offered) PROVE Trade(p, s, Net(market, 0)) = 0
  BY <1>1, TradeType, OfferedFacts
<1> QED
  BY <1>2, BestPoolFacts

\* What is bought is in the pools.
LEMMA BestPoolMost ==
  ASSUME Asked, NEW s, NEW d, NEW a \in Nat
  PROVE  BestPool(s, d, a).receive <= Most /\ Most \in Nat
<1> DEFINE all == {0} \union UNION {{p.real[1], p.real[2]} : p \in ToSet(offered)}
<1>1. \A p \in ToSet(offered) : p \in PoolType
  BY OfferedFacts
<1>2. \A p \in ToSet(offered) : p.real[1] \in 0 .. Word - 1 /\ p.real[2] \in 0 .. Word - 1
  BY <1>1 DEF PoolType
<1>3. all \subseteq 0 .. Word - 1 /\ all # {} /\ Word - 1 \in Nat
  BY <1>2, Constants
<1>4. Most = Max(all)
  BY DEF Most
<1>5. \A p \in ToSet(offered) : p.real[1] \in all /\ p.real[2] \in all
  OBVIOUS
<1> HIDE DEF all
<1>6. Most \in all /\ \A x \in all : x <= Most
  BY <1>3, <1>4, MaxOf
<1>7. Most \in Nat
  BY <1>3, <1>6
<1> DEFINE best1 == BestPool(s, d, a)
<1>8. best1.receive \in Nat
  BY BestPoolFacts
<1>9. ASSUME best1.receive # 0 PROVE best1.receive <= Most
  <2>1. best1.pool \in ToSet(offered) /\ Trade(best1.pool, s, Net(market, a)) = best1.receive
    BY <1>9, BestPoolFacts
  <2>2. Net(market, a) \in Nat
    BY NetType, MarketFacts
  <2> HIDE DEF best1
  <2>3. PICK r \in {best1.pool.real[1], best1.pool.real[2]} :
          r \in 0 .. Word - 1 /\ best1.receive <= r
    <3>1. best1.pool \in PoolType
      BY <1>1, <2>1
    <3> QED
      BY <2>1, <2>2, <3>1, TradeType
  <2>4. r <= Most
    BY <1>5, <1>6, <2>1, <2>3
  <2> QED
    BY <1>7, <1>8, <2>3, <2>4
<1> QED
  BY <1>7, <1>8, <1>9

-----------------------------------------------------------------------------
(* The paths. *)

LEMMA PathFacts ==
  ASSUME NEW pools, NEW s, NEW d, NEW path \in PathsOf(pools, s, d)
  PROVE  /\ Len(path) \in 1 .. MaxTradePath + 1 /\ path \in [1 .. Len(path) -> Tokens]
         /\ path[1] = s /\ path[Len(path)] = d
         /\ \A i, j \in 1 .. Len(path) : i # j => path[i] # path[j]
         /\ \A i \in 1 .. Len(path) - 1 : \E p \in pools : Joins(p, path[i], path[i + 1])
<1>1. /\ path \in SeqOf(Tokens, MaxTradePath + 1)
      /\ path # <<>> /\ path[1] = s /\ Last(path) = d
      /\ Cardinality(ToSet(path)) = Len(path)
      /\ \A i \in 1 .. Len(path) - 1 : \E p \in pools : Joins(p, path[i], path[i + 1])
  BY DEF PathsOf
<1>2. PICK m \in 0 .. MaxTradePath + 1 : path \in [1 .. m -> Tokens]
  BY <1>1 DEF SeqOf
<1>3. m \in Nat /\ path \in Seq(Tokens) /\ Len(path) = m
  <2>1. m \in Nat
    BY Constants
  <2>2. path \in Seq(Tokens)
    BY <1>2, <2>1
  <2> QED
    BY <1>2, <2>1, <2>2
<1>4. m # 0
  BY <1>1, <1>3, EmptySeq
<1>5. path \in Surjection(1 .. m, ToSet(path))
  <2>1. DOMAIN path = 1 .. m
    BY <1>2
  <2>2. path \in [1 .. m -> ToSet(path)]
    BY <1>2, <2>1 DEF ToSet
  <2>3. \A t \in ToSet(path) : \E i \in 1 .. m : path[i] = t
    BY <2>1 DEF ToSet
  <2> QED
    BY <2>2, <2>3 DEF Surjection
<1>6. IsFiniteSet(1 .. m) /\ Cardinality(1 .. m) = m
  BY <1>3, FS_Interval
<1>7. path \in Injection(1 .. m, ToSet(path))
  BY <1>1, <1>3, <1>5, <1>6, FS_Surjection
<1>8. \A i, j \in 1 .. m : i # j => path[i] # path[j]
  BY <1>2, <1>7 DEF Injection, IsInjective
<1>9. Last(path) = path[Len(path)]
  BY DEF Last
<1> QED
  BY <1>1, <1>2, <1>3, <1>4, <1>8, <1>9

\* There are finitely many: a path is known by its graph.
LEMMA FinitePaths ==
  ASSUME NEW pools, NEW s, NEW d
  PROVE  IsFiniteSet(PathsOf(pools, s, d))
<1> DEFINE N == MaxTradePath + 1
           D == (1 .. N) \X Tokens
           graph == [q \in PathsOf(pools, s, d) |-> {<<i, q[i]>> : i \in 1 .. Len(q)}]
<1>1. IsFiniteSet(D)
  <2>1. IsFiniteSet(1 .. N) /\ IsFiniteSet(Tokens)
    BY Constants, FS_Interval
  <2> HIDE DEF N
  <2> QED
    BY <2>1, FS_Product
<1>2. IsFiniteSet(SUBSET D)
  BY <1>1, FS_SUBSET
<1>3. ASSUME NEW q \in PathsOf(pools, s, d)
      PROVE  graph[q] \in SUBSET D
  <2>1. /\ Len(q) \in 1 .. N /\ q \in [1 .. Len(q) -> Tokens]
    BY PathFacts
  <2>2. \A i \in 1 .. Len(q) : i \in 1 .. N /\ q[i] \in Tokens
    BY <2>1, Constants
  <2> HIDE DEF N
  <2> QED
    BY <2>2
<1>4. ASSUME NEW q \in PathsOf(pools, s, d), NEW r \in PathsOf(pools, s, d), graph[q] = graph[r]
      PROVE  q = r
  <2>1. /\ Len(q) \in Nat \ {0} /\ q \in [1 .. Len(q) -> Tokens]
        /\ Len(r) \in Nat \ {0} /\ r \in [1 .. Len(r) -> Tokens]
    BY PathFacts
  <2>2. \A i \in 1 .. Len(q) : <<i, q[i]>> \in graph[q]
    OBVIOUS
  <2>3. \A i \in 1 .. Len(r) : <<i, r[i]>> \in graph[r]
    OBVIOUS
  <2>4. \A i \in 1 .. Len(q) : i \in 1 .. Len(r) /\ q[i] = r[i]
    BY <1>4, <2>2
  <2>5. \A i \in 1 .. Len(r) : i \in 1 .. Len(q)
    BY <1>4, <2>3
  <2>6. Len(q) = Len(r)
    <3>1. Len(q) \in 1 .. Len(q) /\ Len(r) \in 1 .. Len(r)
      BY <2>1
    <3>2. Len(q) <= Len(r) /\ Len(r) <= Len(q)
      BY <2>1, <2>4, <2>5, <3>1
    <3>3. Len(q) \in Int /\ Len(r) \in Int
      BY <2>1
    <3> HIDE DEF graph
    <3> QED
      BY <3>2, <3>3
  <2> QED
    BY <2>1, <2>4, <2>6
<1>5. graph \in Injection(PathsOf(pools, s, d), SUBSET D)
  <2>1. graph \in [PathsOf(pools, s, d) -> SUBSET D]
    BY <1>3
  <2>2. DOMAIN graph = PathsOf(pools, s, d)
    OBVIOUS
  <2> HIDE DEF graph
  <2> QED
    BY <1>4, <2>1, <2>2 DEF Injection, IsInjective
<1> QED
  BY <1>2, <1>5, FS_Injection

-----------------------------------------------------------------------------
(* Which path is found first. *)

\* Two neighbours of a token are told apart.
Neighbour(t, n) == n \in Tokens /\ Between(t, n) # {}

LEMMA NeighbourOf ==
  ASSUME NEW t, NEW n \in Tokens, NEW p \in ToSet(offered), Joins(p, t, n)
  PROVE  Neighbour(t, n)
<1>1. PICK i \in DOMAIN offered : offered[i] = p
  BY DEF ToSet
<1>2. i \in Between(t, n)
  BY <1>1 DEF Between
<1> QED
  BY <1>2 DEF Neighbour

LEMMA BetweenFacts ==
  ASSUME Asked, NEW t, NEW n, Neighbour(t, n)
  PROVE  /\ Min(Between(t, n)) \in Between(t, n) /\ Min(Between(t, n)) \in Nat
         /\ Value(t, n) \in Nat
<1>1. PICK k \in Nat : DOMAIN offered = 1 .. k /\ offered \in [1 .. k -> PoolType]
  BY OfferedFacts
<1>2. Between(t, n) \subseteq 1 .. k /\ Between(t, n) # {}
  BY <1>1 DEF Between, Neighbour
<1>3. Between(t, n) \subseteq Nat
  BY <1>2
<1>4. Min(Between(t, n)) \in Between(t, n)
  BY <1>2, <1>3, MinOf
<1> DEFINE L == {Liquidity(offered[i], t) : i \in Between(t, n)}
<1>5. L \subseteq Nat
  <2> SUFFICES ASSUME NEW i \in Between(t, n) PROVE Liquidity(offered[i], t) \in Nat
    OBVIOUS
  <2> DEFINE p == offered[i]
             v == p.virtual[SideOf(p, t)]
  <2>1. p \in PoolType /\ market \in MarketType
    BY <1>1, <1>2, MarketFacts
  <2>2. SideOf(p, t) \in {1, 2}
    BY DEF SideOf
  <2> HIDE DEF p
  <2>3. v \in Nat /\ p.amplifier \in Nat \ {0} /\ market.base \in Nat
    BY <2>1, <2>2 DEF PoolType, MarketType
  <2> HIDE DEF v
  <2>4. v * market.base \in Nat
    BY <2>3
  <2>5. (v * market.base) \div p.amplifier \in Nat
    BY <2>3, <2>4
  <2> QED
    BY <2>5 DEF Liquidity, p, v
<1>6. L # {} /\ IsFiniteSet(L)
  <2> DEFINE f == [i \in Between(t, n) |-> Liquidity(offered[i], t)]
  <2>1. IsFiniteSet(Between(t, n))
    BY <1>2, FS_Interval, FS_Subset
  <2>2. f \in Surjection(Between(t, n), L)
    BY DEF Surjection
  <2> QED
    BY <1>2, <2>1, <2>2, FS_Surjection
<1>7. Value(t, n) = Max(L)
  BY DEF Value
<1> HIDE DEF L
<1>8. Max(L) \in L
  BY <1>5, <1>6, MaxFinite
<1> QED
  BY <1>3, <1>4, <1>5, <1>7, <1>8

LEMMA ComesFirstOrder ==
  ASSUME Asked, NEW t, NEW a, Neighbour(t, a), NEW b, Neighbour(t, b)
  PROVE  /\ a # b => ComesFirst(t, a, b) \/ ComesFirst(t, b, a)
         /\ ~(ComesFirst(t, a, b) /\ ComesFirst(t, b, a))
         /\ \A c : Neighbour(t, c) /\ ComesFirst(t, a, b) /\ ComesFirst(t, b, c) => ComesFirst(t, a, c)
<1> DEFINE first(n) == Min(Between(t, n))
<1>1. \A n : Neighbour(t, n) => Value(t, n) \in Nat /\ first(n) \in Nat /\ first(n) \in Between(t, n)
  BY BetweenFacts
<1>2. ASSUME a # b, first(a) = first(b) PROVE FALSE
  <2>1. PICK i \in DOMAIN offered : Joins(offered[i], t, a) /\ Joins(offered[i], t, b)
    BY <1>1, <1>2 DEF Between
  <2> QED
    BY <1>2, <2>1 DEF Joins
<1>3. \A m, n : ComesFirst(t, m, n) <=> \/ Value(t, m) > Value(t, n)
                                        \/ Value(t, m) = Value(t, n) /\ first(m) < first(n)
  BY DEF ComesFirst
<1> HIDE DEF first
<1>4. a # b => ComesFirst(t, a, b) \/ ComesFirst(t, b, a)
  BY <1>1, <1>2, <1>3
<1>5. ~(ComesFirst(t, a, b) /\ ComesFirst(t, b, a))
  BY <1>1, <1>3
<1>6. ASSUME NEW c, Neighbour(t, c), ComesFirst(t, a, b), ComesFirst(t, b, c) PROVE ComesFirst(t, a, c)
  BY <1>1, <1>3, <1>6
<1> QED
  BY <1>4, <1>5, <1>6

\* The place where two paths part.
Fork(p, q, i) ==
  /\ i \in 2 .. Len(p) /\ i \in 2 .. Len(q) /\ p[i] # q[i]
  /\ \A j \in 1 .. i - 1 : p[j] = q[j]
  /\ Neighbour(p[i - 1], p[i]) /\ Neighbour(p[i - 1], q[i])

OfferedPaths(s, d) == PathsOf(ToSet(offered), s, d)

LEMMA Fallen ==
  ASSUME NEW s, NEW d, NEW p \in OfferedPaths(s, d),
         NEW i \in 2 .. Len(p)
  PROVE  Neighbour(p[i - 1], p[i])
<1>1. /\ Len(p) \in Nat /\ p \in [1 .. Len(p) -> Tokens]
      /\ \A j \in 1 .. Len(p) - 1 : \E r \in ToSet(offered) : Joins(r, p[j], p[j + 1])
  BY PathFacts, Constants DEF OfferedPaths
<1>2. i - 1 \in 1 .. Len(p) - 1 /\ (i - 1) + 1 = i /\ i \in 1 .. Len(p)
  BY <1>1
<1>3. PICK r \in ToSet(offered) : Joins(r, p[i - 1], p[i])
  BY <1>1, <1>2
<1>4. p[i] \in Tokens
  BY <1>1, <1>2
<1> QED
  BY <1>3, <1>4, NeighbourOf

LEMMA ForkExists ==
  ASSUME NEW s, NEW d, NEW p \in OfferedPaths(s, d), NEW q \in OfferedPaths(s, d), p # q
  PROVE  \E i \in Nat : Fork(p, q, i)
<1> DEFINE m == Len(p)
           n == Len(q)
           S == {j \in Nat : j \in 1 .. m /\ j \in 1 .. n /\ p[j] # q[j]}
<1>1. /\ m \in Nat \ {0} /\ p \in [1 .. m -> Tokens] /\ p[1] = s /\ p[m] = d
      /\ \A i, j \in 1 .. m : i # j => p[i] # p[j]
  BY PathFacts, Constants DEF OfferedPaths
<1>2. /\ n \in Nat \ {0} /\ q \in [1 .. n -> Tokens] /\ q[1] = s /\ q[n] = d
      /\ \A i, j \in 1 .. n : i # j => q[i] # q[j]
  BY PathFacts, Constants DEF OfferedPaths
<1>p. \A i \in 2 .. m : Neighbour(p[i - 1], p[i])
  BY Fallen
<1>q. \A i \in 2 .. n : Neighbour(q[i - 1], q[i])
  BY Fallen
<1> HIDE DEF m, n
<1>3. S # {}
  <2> SUFFICES ASSUME \A j \in 1 .. m : j \in 1 .. n => p[j] = q[j] PROVE FALSE
    OBVIOUS
  <2>1. CASE m < n
    <3>1. m \in 1 .. m /\ m \in 1 .. n /\ n \in 1 .. n
      BY <1>1, <1>2, <2>1
    <3>2. q[m] = d /\ q[n] = d /\ m # n
      BY <1>1, <1>2, <2>1, <3>1
    <3> QED
      BY <1>2, <3>1, <3>2
  <2>2. CASE n < m
    <3>1. n \in 1 .. m /\ n \in 1 .. n /\ m \in 1 .. m
      BY <1>1, <1>2, <2>2
    <3>2. p[n] = d /\ p[m] = d /\ m # n
      BY <1>1, <1>2, <2>2, <3>1
    <3> QED
      BY <1>1, <3>1, <3>2
  <2>3. CASE n = m
    BY <1>1, <1>2, <2>3
  <2> QED
    BY <1>1, <1>2, <2>1, <2>2, <2>3
<1>4. PICK i \in S : \A j \in S : i <= j
  <2>1. S \subseteq Nat
    OBVIOUS
  <2> HIDE DEF S
  <2> QED
    BY <1>3, <2>1, LeastNatural
<1>5. i # 1
  BY <1>1, <1>2
<1>6. i \in 2 .. m /\ i \in 2 .. n /\ p[i] # q[i]
  BY <1>1, <1>2, <1>5
<1>7. \A j \in 1 .. i - 1 : p[j] = q[j]
  <2> SUFFICES ASSUME NEW j \in 1 .. i - 1, p[j] # q[j] PROVE FALSE
    OBVIOUS
  <2>1. j \in S /\ j < i
    BY <1>1, <1>2, <1>6
  <2> QED
    BY <1>4, <2>1
<1>8. p[i - 1] = q[i - 1]
  BY <1>6, <1>7
<1> QED
  BY <1>6, <1>7, <1>8, <1>p, <1>q DEF Fork, m, n

LEMMA FoundFirstAtFork ==
  ASSUME NEW s, NEW d, NEW p \in OfferedPaths(s, d), NEW q \in OfferedPaths(s, d),
         NEW i \in Nat, Fork(p, q, i)
  PROVE  /\ FoundFirst(p, q) <=> ComesFirst(p[i - 1], p[i], q[i])
         /\ FoundFirst(q, p) <=> ComesFirst(p[i - 1], q[i], p[i])
<1>1. /\ Len(p) \in Nat /\ DOMAIN p = 1 .. Len(p)
      /\ Len(q) \in Nat /\ DOMAIN q = 1 .. Len(q)
  BY PathFacts, Constants DEF OfferedPaths
<1> DEFINE S == {j \in DOMAIN p \intersect DOMAIN q : p[j] # q[j]}
           T == {j \in DOMAIN q \intersect DOMAIN p : q[j] # p[j]}
<1>2. S = T
  OBVIOUS
<1>3. S \subseteq Nat /\ i \in S /\ \A j \in S : i <= j
  BY <1>1 DEF Fork
<1>4. Min(S) = i
  <2> HIDE DEF S
  <2>1. Min(S) \in S /\ \A j \in S : Min(S) <= j
    BY <1>3, MinOf
  <2>2. Min(S) <= i /\ i <= Min(S) /\ Min(S) \in Nat
    BY <1>3, <2>1
  <2> QED
    BY <2>2
<1>5. p[i - 1] = q[i - 1]
  BY DEF Fork
<1>6. /\ FoundFirst(p, q) <=> ComesFirst(p[Min(S) - 1], p[Min(S)], q[Min(S)])
      /\ FoundFirst(q, p) <=> ComesFirst(q[Min(T) - 1], q[Min(T)], p[Min(T)])
  BY DEF FoundFirst
<1> HIDE DEF S, T
<1> QED
  BY <1>2, <1>4, <1>5, <1>6

\* The search is in an order: of any two paths one is found first.
LEMMA FoundFirstOrder ==
  ASSUME Asked, NEW s, NEW d, NEW p \in OfferedPaths(s, d), NEW q \in OfferedPaths(s, d), p # q
  PROVE  /\ FoundFirst(p, q) \/ FoundFirst(q, p)
         /\ \A r \in OfferedPaths(s, d) :
              r # q /\ FoundFirst(p, q) /\ FoundFirst(q, r) => r # p /\ FoundFirst(p, r)
<1>1. PICK i \in Nat : Fork(p, q, i)
  BY ForkExists
<1>2. /\ FoundFirst(p, q) <=> ComesFirst(p[i - 1], p[i], q[i])
      /\ FoundFirst(q, p) <=> ComesFirst(p[i - 1], q[i], p[i])
  BY <1>1, FoundFirstAtFork
<1>3. Neighbour(p[i - 1], p[i]) /\ Neighbour(p[i - 1], q[i]) /\ p[i] # q[i]
  BY <1>1 DEF Fork
<1>4. FoundFirst(p, q) \/ FoundFirst(q, p)
  BY <1>2, <1>3, ComesFirstOrder
<1>5. ASSUME NEW r \in OfferedPaths(s, d), r # q, FoundFirst(p, q), FoundFirst(q, r)
      PROVE  r # p /\ FoundFirst(p, r)
  <2>1. r # p
    BY <1>2, <1>3, <1>5, ComesFirstOrder
  <2>2. PICK j \in Nat : Fork(q, r, j)
    BY <1>5, ForkExists
  <2>3. FoundFirst(q, r) <=> ComesFirst(q[j - 1], q[j], r[j])
    BY <2>2, FoundFirstAtFork
  <2>4. \A k \in Nat : Fork(p, r, k) => (FoundFirst(p, r) <=> ComesFirst(p[k - 1], p[k], r[k]))
    BY FoundFirstAtFork
  <2>5. /\ Len(p) \in Nat /\ Len(q) \in Nat /\ Len(r) \in Nat
    BY PathFacts, Constants DEF OfferedPaths
  <2>6. CASE i < j
    <3>1. Fork(p, r, i)
      BY <1>1, <2>2, <2>5, <2>6 DEF Fork
    <3>2. r[i] = q[i]
      BY <1>1, <2>2, <2>6 DEF Fork
    <3> QED
      BY <1>2, <1>5, <2>1, <2>4, <3>1, <3>2
  <2>7. CASE j < i
    <3>1. q[j] = p[j] /\ q[j - 1] = p[j - 1]
      BY <1>1, <2>2, <2>7 DEF Fork
    <3>2. Fork(p, r, j)
      BY <1>1, <2>2, <2>5, <2>7, <3>1 DEF Fork
    <3> QED
      BY <1>5, <2>1, <2>3, <2>4, <3>1, <3>2
  <2>8. CASE i = j
    <3>1. q[i - 1] = p[i - 1] /\ Neighbour(p[i - 1], r[i])
      BY <1>1, <2>2, <2>8 DEF Fork
    <3>2. ComesFirst(p[i - 1], p[i], q[i]) /\ ComesFirst(p[i - 1], q[i], r[i])
      BY <1>2, <1>5, <2>3, <2>8, <3>1
    <3>3. p[i] # r[i] /\ ComesFirst(p[i - 1], p[i], r[i])
      BY <1>3, <3>1, <3>2, ComesFirstOrder
    <3>4. Fork(p, r, i)
      BY <1>1, <2>2, <2>5, <2>8, <3>1, <3>3 DEF Fork
    <3> QED
      BY <2>1, <2>4, <3>3, <3>4
  <2> QED
    BY <2>6, <2>7, <2>8
<1> QED
  BY <1>4, <1>5

\* So of a finite number of paths there is one that is found before the others.
LEMMA FirstOfPaths ==
  ASSUME Asked, NEW s, NEW d, NEW S, S \subseteq OfferedPaths(s, d), S # {}
  PROVE  \E p \in S : \A q \in S \ {p} : FoundFirst(p, q)
<1> DEFINE Good == {k \in Nat : \A T \in UpTo(S, k) :
                      T # {} => \E p \in T : \A q \in T \ {p} : FoundFirst(p, q)}
<1>0. IsFiniteSet(S)
  BY FinitePaths, FS_Subset DEF OfferedPaths
<1>1. 0 \in Good
  BY <1>0, UpToNone
<1>2. ASSUME NEW k \in Nat, k \in Good PROVE k + 1 \in Good
  <2> SUFFICES ASSUME NEW T \in UpTo(S, k + 1), NEW x \in T
               PROVE  \E p \in T : \A q \in T \ {p} : FoundFirst(p, q)
    OBVIOUS
  <2>1. T \subseteq S /\ Cardinality(T) <= k + 1
    BY DEF UpTo
  <2>2. Cardinality(T) \in Nat /\ T \ {x} \subseteq S /\ Cardinality(T \ {x}) = Cardinality(T) - 1
    BY <1>0, <2>1, OneLess
  <2>3. T \ {x} \in UpTo(S, k)
    BY <2>1, <2>2 DEF UpTo
  <2>4. CASE T \ {x} = {}
    BY <2>4
  <2>5. CASE T \ {x} # {}
    <3>1. PICK p \in T \ {x} : \A q \in (T \ {x}) \ {p} : FoundFirst(p, q)
      BY <1>2, <2>3, <2>5
    <3>2. \A q \in T : q \in OfferedPaths(s, d)
      BY <2>1
    <3>3. CASE FoundFirst(p, x)
      <4>1. \A q \in T \ {p} : FoundFirst(p, q)
        BY <3>1, <3>3
      <4> QED
        BY <4>1
    <3>4. CASE FoundFirst(x, p)
      <4>1. ASSUME NEW q \in T \ {x} PROVE FoundFirst(x, q)
        <5>1. CASE q = p
          BY <3>4, <5>1
        <5>2. CASE q # p
          <6>1. FoundFirst(p, q)
            BY <3>1, <5>2
          <6> QED
            BY <3>1, <3>2, <3>4, <5>2, <6>1, FoundFirstOrder
        <5> QED
          BY <5>1, <5>2
      <4> QED
        BY <4>1
    <3> QED
      BY <3>1, <3>2, <3>3, <3>4, FoundFirstOrder
  <2> QED
    BY <2>4, <2>5
<1>3. Cardinality(S) \in Nat
  BY <1>0, FS_CardinalityType
<1> HIDE DEF Good
<1>4. Cardinality(S) \in Good
  BY <1>1, <1>2, <1>3, SetInduction
<1>5. S \in UpTo(S, Cardinality(S))
  BY <1>3 DEF UpTo
<1> QED
  BY <1>4, <1>5 DEF Good

-----------------------------------------------------------------------------
(* What is paid along a path. *)

\* How far a path has been gone: the pools so far, and what the last one pays.
Reached(path) ==
  [path : {path}, route : Seq(PoolType \union {NoPool}), receive : Nat]
Unsold(path, amount) == [path |-> path, route |-> <<>>, receive |-> amount]

LEMMA NextHopIs ==
  ASSUME Asked, NEW path, NEW got \in Reached(path), NEW i \in Nat
  PROVE  LET pays == BestPool(path[i], path[i + 1], got.receive) IN
         /\ NextHop(path, got, i) =
              [path |-> path, route |-> Append(got.route, pays.pool), receive |-> pays.receive]
         /\ NextHop(path, got, i) \in Reached(path)
<1> DEFINE pays == BestPool(path[i], path[i + 1], got.receive)
           hop(x) == [path |-> path, route |-> Append(got.route, x.pool), receive |-> x.receive]
<1>1. {hop(x) : x \in {BestPool(path[i], path[i + 1], r) : r \in {got.receive}}} = {hop(pays)}
  OBVIOUS
<1>2. NextHop(path, got, i) = CHOOSE f \in {hop(x) : x \in {BestPool(path[i], path[i + 1], r) : r \in {got.receive}}} : TRUE
  BY Zenon DEF NextHop
<1>3. NextHop(path, got, i) = hop(pays)
  <2> HIDE DEF hop, pays
  <2> QED
    BY <1>1, <1>2
<1>4. got.route \in Seq(PoolType \union {NoPool}) /\ got.receive \in Nat
  BY DEF Reached
<1>5. pays.pool \in PoolType \union {NoPool} /\ pays.receive \in 0 .. Word - 1
  BY <1>4, BestPoolFacts
<1> HIDE DEF pays
<1>6. Append(got.route, pays.pool) \in Seq(PoolType \union {NoPool}) /\ pays.receive \in Nat
  BY <1>4, <1>5
<1>7. hop(pays) \in Reached(path)
  BY <1>6 DEF Reached
<1> QED
  BY <1>3, <1>7 DEF pays

\* Along a path, hop by hop.
AlongBy(h, path, amount) ==
  /\ h[0] = Unsold(path, amount)
  /\ \A k \in 1 .. Len(path) - 1 : h[k] \in Reached(path) /\ h[k] = NextHop(path, h[k - 1], k)
  /\ Along(path, amount) = h[Len(path) - 1]

LEMMA AlongHops ==
  ASSUME Asked, NEW s, NEW d, NEW path \in OfferedPaths(s, d), NEW amount \in Nat
  PROVE  \E h : h \in [0 .. Len(path) - 1 -> Reached(path)] /\ AlongBy(h, path, amount)
<1> DEFINE n == Len(path) - 1
           V == Reached(path)
           base == Unsold(path, amount)
           D == 1 .. n
           seq == [i \in D |-> i]
           P(g) == g = [S \in SUBSET DOMAIN seq |->
                          IF S = {} THEN base ELSE NextHop(path, g[S \ {Max(S)}], seq[Max(S)])]
           fold == CHOOSE g : P(g)
           F == [x \in V \X (1 .. n) |-> NextHop(path, x[1], x[2])]
<1>1. n \in Nat
  BY PathFacts, Constants DEF OfferedPaths
<1>2. Along(path, amount) = fold[DOMAIN seq]
  BY Zenon DEF Along, FoldLeft, MapThenFoldSet, Unsold
<1>3. base \in V
  BY DEF Reached, Unsold
<1>4. F \in [V \X (1 .. n) -> V]
  <2> SUFFICES ASSUME NEW got \in V, NEW i \in 1 .. n PROVE NextHop(path, got, i) \in V
    OBVIOUS
  <2> QED
    BY NextHopIs
<1> HIDE DEF n, V, base
<1>5. PICK g \in [SUBSET (1 .. n) -> V] : Folding(g, F, base, n)
  <2> HIDE DEF F
  <2> QED
    BY <1>1, <1>3, <1>4, FoldingExists
<1>6. DOMAIN seq = 1 .. n
  OBVIOUS
<1>7. P(g)
  <2>1. ASSUME NEW S \in SUBSET (1 .. n), S # {}
        PROVE  F[<<g[S \ {Max(S)}], Max(S)>>] = NextHop(path, g[S \ {Max(S)}], seq[Max(S)])
    <3>1. Max(S) \in 1 .. n
      BY <1>1, <2>1, MaxIn
    <3>2. g[S \ {Max(S)}] \in V
      BY <1>5
    <3> QED
      BY <3>1, <3>2
  <2> HIDE DEF F
  <2>2. g = [S \in SUBSET (1 .. n) |-> IF S = {} THEN base ELSE F[<<g[S \ {Max(S)}], Max(S)>>]]
    BY <1>5 DEF Folding
  <2>3. [S \in SUBSET (1 .. n) |-> IF S = {} THEN base ELSE F[<<g[S \ {Max(S)}], Max(S)>>]]
        = [S \in SUBSET (1 .. n) |->
             IF S = {} THEN base ELSE NextHop(path, g[S \ {Max(S)}], seq[Max(S)])]
    <3> HIDE DEF seq
    <3> QED
      BY <2>1
  <2> HIDE DEF seq
  <2> QED
    BY <1>6, <2>2, <2>3
<1>8. P(fold)
  <2> HIDE DEF P
  <2> QED
    BY <1>7
<1> HIDE DEF fold, F
<1>9. \A S \in SUBSET (1 .. n) :
        fold[S] = IF S = {} THEN base ELSE NextHop(path, fold[S \ {Max(S)}], seq[Max(S)])
  <2> HIDE DEF seq
  <2> QED
    BY <1>6, <1>8
<1> HIDE DEF P
<1> DEFINE h == [k \in 0 .. n |-> fold[1 .. k]]
<1>10. h[0] = base
  <2>1. 1 .. 0 = {} /\ 1 .. 0 \in SUBSET (1 .. n)
    OBVIOUS
  <2>2. fold[1 .. 0] = base
    BY <1>9, <2>1
  <2>3. 0 \in 0 .. n
    BY <1>1
  <2> QED
    BY <2>2, <2>3
<1>11. ASSUME NEW k \in 1 .. n PROVE h[k] = NextHop(path, h[k - 1], k)
  <2>1. /\ 1 .. k \in SUBSET (1 .. n) /\ 1 .. k # {}
        /\ Max(1 .. k) = k /\ (1 .. k) \ {k} = 1 .. k - 1
    BY <1>1, Initial
  <2>2. k \in 0 .. n /\ k - 1 \in 0 .. n /\ seq[k] = k
    BY <1>1
  <2> QED
    BY <1>9, <2>1, <2>2
<1>12. \A k \in 0 .. n : h[k] \in V
  <2> DEFINE S == {k \in 0 .. n : h[k] \in V}
  <2> HIDE DEF h
  <2>1. 0 \in S
    BY <1>1, <1>3, <1>10
  <2>2. ASSUME NEW k \in 1 .. n, k - 1 \in S PROVE k \in S
    <3>1. h[k] = NextHop(path, h[k - 1], k) /\ h[k - 1] \in V /\ k \in Nat
      BY <1>11, <2>2
    <3>2. h[k] \in V
      BY <3>1, NextHopIs DEF V
    <3> QED
      BY <1>1, <3>2
  <2> HIDE DEF S
  <2>3. \A k \in 0 .. n : k \in S
    BY <1>1, <2>1, <2>2, UpInduction
  <2> QED
    BY <2>3 DEF S
<1>13. Along(path, amount) = h[n]
  <2>1. n \in 0 .. n
    BY <1>1
  <2> QED
    BY <1>2, <1>6, <2>1
<1>14. h \in [0 .. n -> V]
  BY <1>12
<1> HIDE DEF h
<1>15. \A k \in 1 .. n : h[k] \in V
  BY <1>12, <1>1
<1>16. AlongBy(h, path, amount)
  BY <1>10, <1>11, <1>13, <1>15 DEF AlongBy, n, V, base
<1> QED
  BY <1>14, <1>16 DEF n, V

\* What a choice of pools along a path pays.
PaysBy(h, m, path, route, amount) ==
  /\ h[0] = amount
  /\ \A k \in 1 .. Len(route) : h[k] \in Nat /\ h[k] = Trade(route[k], path[k], Net(m, h[k - 1]))
  /\ Pays(m, path, route, amount) = h[Len(route)]

LEMMA PaysHops ==
  ASSUME NEW m \in MarketType, NEW path, NEW route \in Seq(PoolType), NEW amount \in Nat
  PROVE  \E h : h \in [0 .. Len(route) -> Nat] /\ PaysBy(h, m, path, route, amount)
<1> DEFINE n == Len(route)
           P(g) == g = [i \in 0 .. n |->
                          IF i = 0 THEN amount ELSE Trade(route[i], path[i], Net(m, g[i - 1]))]
           after == CHOOSE g : P(g)
           F == [x \in Nat \X (1 .. n) |-> Trade(route[x[2]], path[x[2]], Net(m, x[1]))]
<1>1. n \in Nat /\ \A i \in 1 .. n : route[i] \in PoolType
  BY LenProperties, ElementOfSeq
<1>2. Pays(m, path, route, amount) = after[n]
  BY Zenon DEF Pays
<1>a. ASSUME NEW a \in Nat, NEW i \in 1 .. n PROVE Trade(route[i], path[i], Net(m, a)) \in Nat
  <2>1. Net(m, a) \in Nat
    BY NetType
  <2> QED
    BY <1>1, <2>1, TradeType
<1>3. F \in [Nat \X (1 .. n) -> Nat]
  BY <1>a
<1> HIDE DEF n
<1>4. PICK g \in [0 .. n -> Nat] : Hops(g, F, amount, n)
  <2> HIDE DEF F
  <2> QED
    BY <1>1, <1>3, HopsExist
<1>5. P(g)
  <2>1. ASSUME NEW i \in 0 .. n, i # 0 PROVE g[i] = Trade(route[i], path[i], Net(m, g[i - 1]))
    <3>1. i \in 1 .. n /\ i - 1 \in 0 .. n
      BY <1>1, <2>1
    <3>2. g[i] = F[<<g[i - 1], i>>] /\ g[i - 1] \in Nat
      BY <1>4, <3>1 DEF Hops
    <3> QED
      BY <3>1, <3>2
  <2>2. g[0] = amount
    BY <1>4 DEF Hops
  <2>3. g = [i \in 0 .. n |-> g[i]]
    OBVIOUS
  <2> HIDE DEF F
  <2> QED
    BY <2>1, <2>2, <2>3
<1>6. P(after)
  <2> HIDE DEF P
  <2> QED
    BY <1>5
<1> HIDE DEF after
<1>7. \A i \in 0 .. n : after[i] = IF i = 0 THEN amount ELSE Trade(route[i], path[i], Net(m, after[i - 1]))
  BY <1>6
<1>8. after = [i \in 0 .. n |-> after[i]]
  BY <1>6
<1> HIDE DEF P
<1>9. after[0] = amount
  BY <1>1, <1>7
<1>10. \A k \in 1 .. n : after[k] = Trade(route[k], path[k], Net(m, after[k - 1]))
  BY <1>1, <1>7
<1>11. \A k \in 0 .. n : after[k] \in Nat
  <2> DEFINE S == {k \in 0 .. n : after[k] \in Nat}
  <2>1. 0 \in S
    BY <1>1, <1>9
  <2>2. ASSUME NEW k \in 1 .. n, k - 1 \in S PROVE k \in S
    <3>1. after[k] = Trade(route[k], path[k], Net(m, after[k - 1])) /\ after[k - 1] \in Nat
      BY <1>10, <2>2
    <3>2. after[k] \in Nat
      BY <3>1, <1>a
    <3> QED
      BY <1>1, <3>2
  <2> HIDE DEF S
  <2>3. \A k \in 0 .. n : k \in S
    BY <1>1, <2>1, <2>2, UpInduction
  <2> QED
    BY <2>3 DEF S
<1>12. after \in [0 .. n -> Nat]
  BY <1>8, <1>11
<1>13. PaysBy(after, m, path, route, amount)
  <2>1. \A k \in 1 .. n : after[k] \in Nat
    BY <1>1, <1>11
  <2> QED
    BY <1>2, <1>9, <1>10, <2>1 DEF PaysBy, n
<1> QED
  BY <1>12, <1>13 DEF n

\* Nobody is paid more than a uint64 holds.
LEMMA PaysType ==
  ASSUME NEW m \in MarketType, NEW path, NEW route \in Seq(PoolType), NEW amount \in 0 .. Word - 1
  PROVE  Pays(m, path, route, amount) \in 0 .. Word - 1
<1>0. amount \in Nat /\ Word - 1 \in Nat
  BY Constants
<1>1. PICK h : h \in [0 .. Len(route) -> Nat] /\ PaysBy(h, m, path, route, amount)
  BY <1>0, PaysHops
<1>2. Len(route) \in Nat /\ \A i \in 1 .. Len(route) : route[i] \in PoolType
  BY LenProperties, ElementOfSeq
<1>3. CASE Len(route) = 0
  BY <1>1, <1>3 DEF PaysBy
<1>4. CASE Len(route) # 0
  <2> DEFINE n == Len(route)
  <2>1. n \in 1 .. n /\ n - 1 \in 0 .. n
    BY <1>2, <1>4
  <2>2. h[n] = Trade(route[n], path[n], Net(m, h[n - 1])) /\ h[n - 1] \in Nat
    BY <1>1, <2>1 DEF PaysBy
  <2>3. Net(m, h[n - 1]) \in Nat
    BY <2>2, NetType
  <2>4. h[n] \in 0 .. Word - 1
    BY <1>2, <2>1, <2>2, <2>3, TradeType
  <2> QED
    BY <1>1, <2>4 DEF PaysBy
<1> QED
  BY <1>3, <1>4

LEMMA RouteFacts ==
  ASSUME Asked, NEW s, NEW d, NEW path \in OfferedPaths(s, d),
         NEW route \in Routes(ToSet(offered), path)
  PROVE  /\ Len(route) = Len(path) - 1 /\ Len(route) \in 0 .. MaxTradePath
         /\ route \in Seq(PoolType) /\ route \in Seq(PoolType \union {NoPool})
         /\ DOMAIN route = 1 .. Len(route)
         /\ \A i \in 1 .. Len(route) : /\ route[i] \in ToSet(offered) /\ route[i] \in PoolType
                                       /\ Joins(route[i], path[i], path[i + 1])
<1>1. /\ route \in SeqOf(ToSet(offered), MaxTradePath)
      /\ Len(route) = Len(path) - 1
      /\ \A i \in DOMAIN route : Joins(route[i], path[i], path[i + 1])
  BY DEF Routes
<1>2. PICK m \in 0 .. MaxTradePath : route \in [1 .. m -> ToSet(offered)]
  BY <1>1 DEF SeqOf
<1>3. m \in Nat /\ ToSet(offered) \subseteq PoolType
  BY Constants, OfferedFacts
<1>4. route \in Seq(ToSet(offered))
  BY <1>2, <1>3
<1>5. Len(route) = m /\ DOMAIN route = 1 .. m
  BY <1>2, <1>3, <1>4, LenProperties
<1>6. route \in Seq(PoolType) /\ route \in Seq(PoolType \union {NoPool})
  BY <1>3, <1>4
<1> QED
  BY <1>1, <1>2, <1>3, <1>5, <1>6

\* Two accounts of what is paid, with the same pools, agree.
LEMMA PaysAre ==
  ASSUME NEW m, NEW path, NEW route, Len(route) \in Nat, NEW amount, NEW h,
         PaysBy(h, m, path, route, amount),
         NEW g, g[0] = amount,
         \A k \in 1 .. Len(route) : g[k] = Trade(route[k], path[k], Net(m, g[k - 1]))
  PROVE  \A k \in 0 .. Len(route) : h[k] = g[k]
<1> DEFINE n == Len(route)
           S == {k \in 0 .. n : h[k] = g[k]}
<1>1. 0 \in S
  BY DEF PaysBy
<1>2. ASSUME NEW k \in 1 .. n, k - 1 \in S PROVE k \in S
  <2>1. h[k] = Trade(route[k], path[k], Net(m, h[k - 1])) /\ h[k - 1] = g[k - 1]
    BY <1>2 DEF PaysBy
  <2>2. h[k] = g[k] /\ k \in 0 .. n
    BY <2>1
  <2> QED
    BY <2>2
<1> HIDE DEF S
<1>3. \A k \in 0 .. n : k \in S
  BY <1>1, <1>2, UpInduction
<1> QED
  BY <1>3 DEF S

\* When something is bought along a path, the pools taken lead along it, and pay
\* what is said.
LEMMA AlongSound ==
  ASSUME Asked, NEW s, NEW d, NEW path \in OfferedPaths(s, d), NEW amount \in Nat
  PROVE  LET f == Along(path, amount) IN
         /\ f \in Reached(path) /\ f.path = path
         /\ f.receive # 0 => /\ f.route \in Routes(ToSet(offered), path)
                             /\ Pays(market, path, f.route, amount) = f.receive
<1> DEFINE n == Len(path) - 1
           f == Along(path, amount)
<1>1. n \in Nat /\ n <= MaxTradePath /\ MaxTradePath \in Nat
  BY PathFacts, Constants DEF OfferedPaths
<1>2. PICK h : h \in [0 .. n -> Reached(path)] /\ AlongBy(h, path, amount)
  BY AlongHops
<1>3. f = h[n] /\ h[0] = Unsold(path, amount)
  BY <1>2 DEF AlongBy
<1>4. f \in Reached(path) /\ f.path = path
  <2>1. n \in 0 .. n
    BY <1>1
  <2>2. h[n] \in Reached(path)
    BY <1>2, <2>1
  <2> QED
    BY <1>3, <2>2 DEF Reached
<1>5. ASSUME NEW k \in 1 .. n
      PROVE  LET pays == BestPool(path[k], path[k + 1], h[k - 1].receive) IN
             /\ h[k - 1] \in Reached(path)
             /\ h[k].route = Append(h[k - 1].route, pays.pool) /\ h[k].receive = pays.receive
  <2>1. k - 1 \in 0 .. n /\ k \in Nat
    BY <1>1
  <2>2. h[k] = NextHop(path, h[k - 1], k) /\ h[k - 1] \in Reached(path)
    BY <1>2, <2>1 DEF AlongBy
  <2>3. LET pays == BestPool(path[k], path[k + 1], h[k - 1].receive) IN
        NextHop(path, h[k - 1], k) =
          [path |-> path, route |-> Append(h[k - 1].route, pays.pool), receive |-> pays.receive]
    BY <2>1, <2>2, NextHopIs
  <2> QED
    BY <2>2, <2>3
<1> HIDE DEF n, f
<1> DEFINE Paid(r, j) == /\ r[j] \in ToSet(offered) /\ Joins(r[j], path[j], path[j + 1])
                         /\ Trade(r[j], path[j], Net(market, h[j - 1].receive)) = h[j].receive
           S == {k \in 0 .. n : /\ Len(h[k].route) = k
                                /\ h[k].receive # 0 => \A j \in 1 .. k : Paid(h[k].route, j)}
<1>6. \A k \in 0 .. n : k \in S
  <2>1. 0 \in S
    <3>1. h[0].route = <<>> /\ Len(h[0].route) = 0 /\ 0 \in 0 .. n
      BY <1>1, <1>3 DEF Unsold
    <3> QED
      BY <3>1
  <2>2. ASSUME NEW k \in 1 .. n, k - 1 \in S PROVE k \in S
    <3> DEFINE pays == BestPool(path[k], path[k + 1], h[k - 1].receive)
               old == h[k - 1].route
    <3>1. /\ old \in Seq(PoolType \union {NoPool}) /\ h[k - 1].receive \in Nat
          /\ h[k].route = Append(old, pays.pool) /\ h[k].receive = pays.receive
      BY <1>5 DEF Reached
    <3>2. /\ pays.pool \in PoolType \union {NoPool}
          /\ pays.receive # 0 =>
               /\ pays.pool \in ToSet(offered) /\ Joins(pays.pool, path[k], path[k + 1])
               /\ Trade(pays.pool, path[k], Net(market, h[k - 1].receive)) = pays.receive
      BY <3>1, BestPoolFacts
    <3>3. pays.receive # 0 => h[k - 1].receive # 0
      BY BestPoolOfNothing
    <3>4. Len(old) = k - 1 /\ (h[k - 1].receive # 0 => \A j \in 1 .. k - 1 : Paid(old, j))
      BY <2>2
    <3> HIDE DEF pays, old
    <3>5. Len(h[k].route) = k
      BY <3>1, <3>2, <3>4
    <3>6. h[k].route[k] = pays.pool /\ \A j \in 1 .. k - 1 : h[k].route[j] = old[j]
      BY <3>1, <3>2, <3>4
    <3>7. ASSUME h[k].receive # 0, NEW j \in 1 .. k PROVE Paid(h[k].route, j)
      <4>1. CASE j = k
        BY <3>1, <3>2, <3>6, <3>7, <4>1
      <4>2. CASE j # k
        <5>1. j \in 1 .. k - 1
          BY <4>2
        <5>2. Paid(old, j) /\ h[k].route[j] = old[j]
          BY <3>1, <3>3, <3>4, <3>6, <3>7, <5>1
        <5> QED
          BY <5>2
      <4> QED
        BY <4>1, <4>2
    <3> HIDE DEF Paid
    <3>8. k \in 0 .. n
      BY <1>1
    <3> QED
      BY <3>5, <3>7, <3>8
  <2> HIDE DEF S
  <2> QED
    BY <1>1, <2>1, <2>2, UpInduction
<1>7. ASSUME f.receive # 0
      PROVE  /\ f.route \in Routes(ToSet(offered), path)
             /\ Pays(market, path, f.route, amount) = f.receive
  <2>1. n \in S
    BY <1>1, <1>6
  <2>2. Len(f.route) = n /\ \A j \in 1 .. n : Paid(f.route, j)
    BY <1>3, <1>7, <2>1
  <2>3. f.route \in Seq(PoolType \union {NoPool})
    BY <1>4 DEF Reached
  <2>4. DOMAIN f.route = 1 .. n
    BY <2>2, <2>3, LenProperties
  <2>5. f.route \in [1 .. n -> ToSet(offered)]
    <3>1. f.route \in [1 .. n -> PoolType \union {NoPool}]
      BY <2>2, <2>3, LenProperties
    <3> QED
      BY <2>2, <3>1
  <2>6. f.route \in SeqOf(ToSet(offered), MaxTradePath)
    BY <1>1, <2>5 DEF SeqOf
  <2>7. f.route \in Routes(ToSet(offered), path)
    BY <2>2, <2>4, <2>6 DEF Routes, n
  <2>8. f.route \in Seq(PoolType) /\ market \in MarketType
    BY <2>7, RouteFacts, MarketFacts
  <2>9. PICK g : g \in [0 .. n -> Nat] /\ PaysBy(g, market, path, f.route, amount)
    BY <2>2, <2>8, PaysHops
  <2> DEFINE p == [k \in 0 .. n |-> h[k].receive]
  <2>10. p[0] = amount
    BY <1>1, <1>3 DEF Unsold
  <2>11. \A k \in 1 .. n : p[k] = Trade(f.route[k], path[k], Net(market, p[k - 1]))
    <3> SUFFICES ASSUME NEW k \in 1 .. n
                 PROVE  p[k] = Trade(f.route[k], path[k], Net(market, p[k - 1]))
      OBVIOUS
    <3>1. k \in 0 .. n /\ k - 1 \in 0 .. n
      BY <1>1
    <3>2. p[k] = h[k].receive /\ p[k - 1] = h[k - 1].receive
      BY <3>1
    <3> QED
      BY <2>2, <3>2
  <2>12. g[n] = p[n]
    <3> HIDE DEF p
    <3>1. Len(f.route) \in Nat /\ n \in 0 .. Len(f.route)
      BY <1>1, <2>2
    <3>2. \A k \in 1 .. Len(f.route) : p[k] = Trade(f.route[k], path[k], Net(market, p[k - 1]))
      BY <2>2, <2>11
    <3>3. PaysBy(g, market, path, f.route, amount)
      BY <2>9
    <3>4. \A k \in 0 .. Len(f.route) : g[k] = p[k]
      <4> DEFINE r == f.route
                 m == market
      <4>1. Len(r) \in Nat /\ PaysBy(g, m, path, r, amount) /\ p[0] = amount
        BY <2>10, <3>1, <3>3
      <4>2. \A k \in 1 .. Len(r) : p[k] = Trade(r[k], path[k], Net(m, p[k - 1]))
        BY <3>2
      <4> HIDE DEF r, m
      <4>3. \A k \in 0 .. Len(r) : g[k] = p[k]
        BY ONLY <4>1, <4>2, PaysAre
      <4> QED
        BY <4>3 DEF r
    <3> QED
      BY <3>1, <3>4
  <2>13. p[n] = f.receive /\ Pays(market, path, f.route, amount) = g[n]
    <3>1. n \in 0 .. n
      BY <1>1
    <3> QED
      BY <1>3, <2>2, <2>9, <3>1 DEF PaysBy
  <2> QED
    BY <2>7, <2>12, <2>13
<1> QED
  BY <1>4, <1>7 DEF f

\* What Regular says of one pool, from one amount to any greater one.
PaysMore ==
  \A p \in ToSet(offered) : \A t \in ToSet(p.pair) : \A a \in 1 .. Most :
    Trade(p, t, a - 1) <= Trade(p, t, a)

LEMMA TradeGrows ==
  ASSUME Asked, PaysMore, NEW p \in ToSet(offered), NEW t \in ToSet(p.pair),
         NEW a \in Nat, NEW b \in Nat, a <= b, b <= Most
  PROVE  Trade(p, t, a) <= Trade(p, t, b)
<1>0. Most \in Nat
  BY BestPoolMost
<1>1. p \in PoolType
  BY OfferedFacts
<1> DEFINE S == {k \in Nat : a + k <= Most => Trade(p, t, a) <= Trade(p, t, a + k)}
<1>2. \A k \in Nat : Trade(p, t, a + k) \in Int
  BY <1>1, TradeType
<1>3. 0 \in S
  <2>1. a + 0 = a
    OBVIOUS
  <2>2. Trade(p, t, a) \in Int
    BY <1>1, TradeType
  <2> QED
    BY <2>1, <2>2
<1>4. ASSUME NEW k \in Nat, k \in S PROVE k + 1 \in S
  <2> SUFFICES ASSUME a + (k + 1) <= Most PROVE Trade(p, t, a) <= Trade(p, t, a + (k + 1))
    OBVIOUS
  <2>1. a + k <= Most /\ a + (k + 1) \in 1 .. Most /\ (a + (k + 1)) - 1 = a + k
    BY <1>0
  <2>2. Trade(p, t, a) <= Trade(p, t, a + k)
    BY <1>4, <2>1
  <2>3. Trade(p, t, a + k) <= Trade(p, t, a + (k + 1))
    BY <2>1 DEF PaysMore
  <2>4. Trade(p, t, a) \in Int /\ Trade(p, t, a + k) \in Int /\ Trade(p, t, a + (k + 1)) \in Int
    BY <1>1, <1>2, TradeType
  <2> QED
    BY <2>2, <2>3, <2>4
<1> HIDE DEF S
<1>5. b - a \in S
  <2>1. Nat \subseteq S
    BY <1>3, <1>4, SetInduction
  <2> QED
    BY <2>1
<1>6. a + (b - a) = b
  OBVIOUS
<1> QED
  BY <1>5, <1>6 DEF S

\* No choice of pools along a path pays more than the path finder's.
LEMMA AlongBest ==
  ASSUME Asked, PaysMore, NEW s, NEW d, NEW path \in OfferedPaths(s, d),
         NEW route \in Routes(ToSet(offered), path), NEW amount \in Nat
  PROVE  Pays(market, path, route, amount) <= Along(path, amount).receive
<1> DEFINE n == Len(path) - 1
<1>0. market \in MarketType
  BY MarketFacts
<1>1. n \in Nat
  BY PathFacts, Constants DEF OfferedPaths
<1>2. /\ Len(route) = n /\ route \in Seq(PoolType)
      /\ \A i \in 1 .. n : /\ route[i] \in ToSet(offered) /\ route[i] \in PoolType
                           /\ Joins(route[i], path[i], path[i + 1])
  BY RouteFacts
<1>3. PICK h : h \in [0 .. n -> Reached(path)] /\ AlongBy(h, path, amount)
  BY AlongHops
<1>4. PICK g : g \in [0 .. n -> Nat] /\ PaysBy(g, market, path, route, amount)
  BY <1>0, <1>2, PaysHops
<1>5. h[0].receive = amount /\ g[0] = amount
  BY <1>3, <1>4 DEF AlongBy, PaysBy, Unsold
<1>6. ASSUME NEW k \in 1 .. n
      PROVE  /\ h[k - 1].receive \in Nat
             /\ h[k].receive = BestPool(path[k], path[k + 1], h[k - 1].receive).receive
             /\ g[k - 1] \in Nat
             /\ g[k] = Trade(route[k], path[k], Net(market, g[k - 1]))
  <2>1. k - 1 \in 0 .. n /\ k \in Nat
    BY <1>1
  <2>2. h[k] = NextHop(path, h[k - 1], k) /\ h[k - 1] \in Reached(path)
    BY <1>3, <2>1 DEF AlongBy
  <2>3. LET pays == BestPool(path[k], path[k + 1], h[k - 1].receive) IN
        NextHop(path, h[k - 1], k) =
          [path |-> path, route |-> Append(h[k - 1].route, pays.pool), receive |-> pays.receive]
    BY <2>1, <2>2, NextHopIs
  <2>4. h[k - 1].receive \in Nat
    BY <2>2 DEF Reached
  <2> QED
    BY <1>2, <1>4, <2>1, <2>2, <2>3, <2>4 DEF PaysBy
<1> HIDE DEF n
<1> DEFINE S == {k \in 0 .. n : /\ h[k].receive \in Nat /\ g[k] \in Nat
                                /\ g[k] <= h[k].receive
                                /\ k # 0 => h[k].receive <= Most
                                /\ k = 0 => g[k] = h[k].receive}
<1>7. 0 \in S
  BY <1>1, <1>5
<1>8. ASSUME NEW k \in 1 .. n, k - 1 \in S PROVE k \in S
  <2> DEFINE x == g[k - 1]
             y == h[k - 1].receive
             u == Net(market, x)
             v == Net(market, y)
             p == route[k]
  <2>1. /\ x \in Nat /\ y \in Nat /\ x <= y /\ (k - 1 # 0 => y <= Most) /\ (k - 1 = 0 => x = y)
        /\ h[k].receive = BestPool(path[k], path[k + 1], y).receive
        /\ g[k] = Trade(p, path[k], u)
    BY <1>6, <1>8
  <2>2. p \in ToSet(offered) /\ p \in PoolType /\ Joins(p, path[k], path[k + 1])
    BY <1>2
  <2>3. path[k] \in ToSet(p.pair)
    BY <2>2, SideFacts
  <2> HIDE DEF x, y, p
  <2>4. u \in Nat /\ v \in Nat /\ u <= v /\ v <= y
    BY <1>0, <2>1, NetType, NetGrows
  <2>5. Trade(p, path[k], v) <= h[k].receive /\ h[k].receive \in Nat
    BY <2>1, <2>2, BestPoolFacts
  <2>6. h[k].receive <= Most /\ Most \in Nat
    BY <2>1, BestPoolMost
  <2>7. Trade(p, path[k], u) <= Trade(p, path[k], v)
    <3>1. CASE k - 1 = 0
      <4>1. u = v
        BY <2>1, <3>1
      <4>2. Trade(p, path[k], u) \in Int
        BY <2>2, <2>4, TradeType
      <4> HIDE DEF u, v
      <4> QED
        BY <4>1, <4>2
    <3>2. CASE k - 1 # 0
      <4>1. v <= Most
        BY <2>1, <2>4, <2>6, <3>2
      <4> HIDE DEF u, v
      <4> QED
        BY <2>2, <2>3, <2>4, <4>1, TradeGrows
    <3> QED
      BY <3>1, <3>2
  <2>8. Trade(p, path[k], u) \in Nat /\ Trade(p, path[k], v) \in Nat
    BY <2>2, <2>4, TradeType
  <2> HIDE DEF u, v
  <2>9. g[k] \in Nat /\ g[k] <= h[k].receive /\ k # 0 /\ k \in 0 .. n
    BY <1>1, <2>1, <2>5, <2>7, <2>8
  <2> QED
    BY <2>5, <2>6, <2>9
<1>9. n \in S
  <2> HIDE DEF S
  <2>1. \A k \in 0 .. n : k \in S
    BY <1>1, <1>7, <1>8, UpInduction
  <2> QED
    BY <1>1, <2>1
<1>10. Along(path, amount) = h[n] /\ Pays(market, path, route, amount) = g[n]
  BY <1>2, <1>3, <1>4 DEF AlongBy, PaysBy, n
<1> QED
  BY <1>9, <1>10

-----------------------------------------------------------------------------
(* What is best, and what is found. *)

Paths == OfferedPaths(call.from, call.to)

\* The best there is: what some choice of pools along some path pays, or nothing.
LEMMA ReceiptFacts ==
  ASSUME Asked, NEW a \in 0 .. Word - 1
  PROVE  /\ Receipt[a] \in 0 .. Word - 1
         /\ \A path \in Paths : \A r \in Routes(ToSet(offered), path) :
              Pays(market, path, r, a) <= Receipt[a]
         /\ Receipt[a] # 0 => \E path \in Paths : \E r \in Routes(ToSet(offered), path) :
                                Receipt[a] = Pays(market, path, r, a)
<1> DEFINE pools == PoolsFor(call, market)
           all == UNION {{<<path, r>> : r \in Routes(pools, path)} :
                           path \in PathsOf(pools, call.from, call.to)}
           sums(x) == {0} \union {Pays(market, w[1], w[2], x) : w \in all}
<1>1. ToSet(offered) = pools /\ market \in MarketType
  BY OfferedFacts, MarketFacts
<1>2. Receipt = [x \in 0 .. Word - 1 |-> Max(sums(x))]
  <2>1. chain \in DOMAIN Histories /\ call \in Histories[chain].requests /\ asOf \in 1 .. LastBlock
    BY DEF Asked, This
  <2>2. Best[chain][call][asOf]
          = LET c == Histories[chain]
                m == c.market[asOf]
                ps == PoolsFor(call, m)
                ws == UNION {{<<path, r>> : r \in Routes(ps, path)} :
                               path \in PathsOf(ps, call.from, call.to)}
            IN [x \in 0 .. Word - 1 |-> Max({0} \union {Pays(m, w[1], w[2], x) : w \in ws})]
    BY <2>1 DEF Best
  <2> QED
    BY <2>2 DEF Receipt, market, This
<1>3. Receipt[a] = Max(sums(a))
  <2> HIDE DEF sums
  <2> QED
    BY <1>2
<1>4. \A w \in all : /\ w = <<w[1], w[2]>> /\ w[1] \in Paths
                     /\ w[2] \in Routes(ToSet(offered), w[1])
  <2> SUFFICES ASSUME NEW path \in PathsOf(pools, call.from, call.to), NEW r \in Routes(pools, path)
               PROVE  path \in Paths /\ r \in Routes(ToSet(offered), path)
    OBVIOUS
  <2> QED
    BY <1>1 DEF Paths, OfferedPaths
<1>5. ASSUME NEW path \in Paths, NEW r \in Routes(ToSet(offered), path)
      PROVE  <<path, r>> \in all
  <2>1. path \in PathsOf(pools, call.from, call.to) /\ r \in Routes(pools, path)
    BY <1>1 DEF Paths, OfferedPaths
  <2> QED
    BY <2>1
<1> HIDE DEF all
<1>6. sums(a) \subseteq 0 .. Word - 1 /\ sums(a) # {} /\ Word - 1 \in Nat
  <2>0. 0 \in 0 .. Word - 1 /\ Word - 1 \in Nat
    BY Constants
  <2>1. ASSUME NEW w \in all PROVE Pays(market, w[1], w[2], a) \in 0 .. Word - 1
    <3>1. w[2] \in Seq(PoolType)
      BY <1>4, RouteFacts DEF Paths
    <3> QED
      BY <1>1, <3>1, PaysType
  <2> QED
    BY <2>0, <2>1
<1>7. ASSUME NEW path \in Paths, NEW r \in Routes(ToSet(offered), path)
      PROVE  Pays(market, path, r, a) \in sums(a)
  <2>1. <<path, r>> \in all /\ <<path, r>>[1] = path /\ <<path, r>>[2] = r
    BY <1>5
  <2> QED
    BY <2>1
<1>8. \A x \in sums(a) : x # 0 => \E w \in all : x = Pays(market, w[1], w[2], a)
  OBVIOUS
<1> HIDE DEF sums
<1>9. Max(sums(a)) \in sums(a) /\ \A x \in sums(a) : x <= Max(sums(a))
  BY <1>6, MaxOf
<1>10. Receipt[a] \in 0 .. Word - 1
  BY <1>3, <1>6, <1>9
<1>11. ASSUME Receipt[a] # 0
       PROVE  \E path \in Paths : \E r \in Routes(ToSet(offered), path) :
                Receipt[a] = Pays(market, path, r, a)
  <2>1. PICK w \in all : Receipt[a] = Pays(market, w[1], w[2], a)
    BY <1>3, <1>8, <1>9, <1>11
  <2> QED
    BY <1>4, <2>1
<1> QED
  BY <1>3, <1>7, <1>9, <1>10, <1>11

\* Enough paths are looked at, when there are not too many.
LEMMA AllPaths ==
  ASSUME NEW s, NEW d, Cardinality(OfferedPaths(s, d)) <= MaxPaths
  PROVE  FindPaths(s, d) = OfferedPaths(s, d)
<1> DEFINE all == OfferedPaths(s, d)
<1>1. IsFiniteSet(all)
  BY FinitePaths DEF OfferedPaths
<1>2. FindPaths(s, d) = {p \in all : Cardinality({q \in all \ {p} : FoundFirst(q, p)}) < MaxPaths}
  BY DEF FindPaths, OfferedPaths
<1> HIDE DEF all
<1>3. ASSUME NEW p \in all PROVE Cardinality({q \in all \ {p} : FoundFirst(q, p)}) < MaxPaths
  <2> DEFINE T == {q \in all \ {p} : FoundFirst(q, p)}
  <2>1. T \in SUBSET (all \ {p})
    OBVIOUS
  <2> HIDE DEF T
  <2>2. IsFiniteSet(all \ {p}) /\ Cardinality(all) \in Nat /\ Cardinality(all \ {p}) = Cardinality(all) - 1
    BY <1>1, FS_RemoveElement, FS_CardinalityType
  <2>3. Cardinality(T) <= Cardinality(all \ {p}) /\ IsFiniteSet(T)
    BY <2>1, <2>2, FS_Subset
  <2>4. Cardinality(T) \in Nat
    BY <2>3, FS_CardinalityType
  <2>5. Cardinality(all) <= MaxPaths /\ MaxPaths \in Nat
    BY Constants DEF all
  <2> QED
    BY <2>2, <2>3, <2>4, <2>5 DEF T
<1> QED
  BY <1>2, <1>3 DEF all

\* The first of the paths that pay the most, of some that have been tried.
LEMMA FirstBestFacts ==
  ASSUME Asked, NEW s, NEW d, NEW S, S \subseteq OfferedPaths(s, d), NEW amount \in 0 .. Word - 1
  PROVE  LET tried == {Along(path, amount) : path \in S}
             f == FirstBest(tried)
         IN /\ f.receive \in 0 .. Word - 1
            /\ f.receive = 0 => f.route = <<>>
            /\ f.receive # 0 => \E path \in S : f = Along(path, amount)
            /\ \A path \in S : Along(path, amount).receive <= f.receive
<1> DEFINE tried == {Along(path, amount) : path \in S}
           f == FirstBest(tried)
<1>0. amount \in Nat /\ Word - 1 \in Nat /\ 0 \in 0 .. Word - 1
  BY Constants
<1>1. ASSUME NEW path \in S
      PROVE  Along(path, amount).path = path /\ Along(path, amount).receive \in 0 .. Word - 1
  <2>1. /\ Along(path, amount).path = path /\ Along(path, amount) \in Reached(path)
        /\ Along(path, amount).receive # 0 =>
              /\ Along(path, amount).route \in Routes(ToSet(offered), path)
              /\ Pays(market, path, Along(path, amount).route, amount) = Along(path, amount).receive
    BY <1>0, AlongSound
  <2>2. Along(path, amount).receive # 0 => Along(path, amount).route \in Seq(PoolType)
    BY <2>1, RouteFacts
  <2>3. Along(path, amount).receive # 0 => Along(path, amount).receive \in 0 .. Word - 1
    BY <2>1, <2>2, PaysType, MarketFacts
  <2> QED
    BY <1>0, <2>1, <2>3
<1>2. CASE \A g \in tried : g.receive = 0
  <2>1. f = [route |-> <<>>, receive |-> 0]
    BY <1>2 DEF FirstBest
  <2>2. \A path \in S : Along(path, amount).receive = 0
    BY <1>2
  <2>3. f.receive = 0 /\ f.route = <<>>
    BY <2>1
  <2> HIDE DEF f
  <2>4. \A path \in S : Along(path, amount).receive <= f.receive
    BY <2>2, <2>3
  <2> QED
    BY <1>0, <2>3, <2>4 DEF f
<1>3. CASE ~(\A g \in tried : g.receive = 0)
  <2> DEFINE R == {Along(path, amount).receive : path \in S}
  <2>1. R \subseteq 0 .. Word - 1 /\ R # {}
    BY <1>1, <1>3
  <2>2. PICK m \in R : \A x \in R : x <= m
    <3> HIDE DEF R
    <3> QED
      BY <1>0, <2>1, GreatestNatural
  <2>3. m \in 0 .. Word - 1 /\ \A path \in S : Along(path, amount).receive <= m
    BY <2>1, <2>2
  <2> DEFINE T == {path \in S : Along(path, amount).receive = m}
  <2>4. T # {}
    BY <2>2
  <2>5. PICK p \in T : \A q \in T \ {p} : FoundFirst(p, q)
    <3>1. T \subseteq OfferedPaths(s, d)
      OBVIOUS
    <3> HIDE DEF T
    <3> QED
      BY <2>4, <3>1, FirstOfPaths
  <2>6. Chosen(Along(p, amount), tried)
    <3> SUFFICES ASSUME NEW q \in S, Along(q, amount) # Along(p, amount)
                 PROVE  \/ Along(p, amount).receive > Along(q, amount).receive
                        \/ /\ Along(p, amount).receive = Along(q, amount).receive
                           /\ FoundFirst(Along(p, amount).path, Along(q, amount).path)
      BY DEF Chosen
    <3>1. Along(p, amount).receive = m /\ Along(q, amount).receive <= m
      BY <2>3, <2>5
    <3>2. Along(p, amount).path = p /\ Along(q, amount).path = q
          /\ Along(q, amount).receive \in Int /\ m \in Int
      BY <1>1, <2>3, <2>5
    <3>3. CASE Along(q, amount).receive = m
      <4>1. q \in T \ {p}
        BY <3>3
      <4> QED
        BY <2>5, <3>1, <3>2, <3>3, <4>1
    <3> QED
      BY <3>1, <3>2, <3>3
  <2>7. Along(p, amount) \in tried
    BY <2>5
  <2>8. f = CHOOSE g \in tried : Chosen(g, tried)
    BY <1>3 DEF FirstBest
  <2>9. f \in tried /\ Chosen(f, tried)
    <3> HIDE DEF tried, f
    <3> QED
      BY <2>6, <2>7, <2>8
  <2>10. PICK path \in S : f = Along(path, amount)
    BY <2>9
  <2>11. \A q \in S : Along(q, amount).receive <= f.receive
    <3> SUFFICES ASSUME NEW q \in S, Along(q, amount) # f PROVE Along(q, amount).receive <= f.receive
      BY <1>1, <2>10
    <3>1. Along(q, amount) \in tried \ {f}
      OBVIOUS
    <3>2. f.receive > Along(q, amount).receive \/ f.receive = Along(q, amount).receive
      BY <2>9, <3>1 DEF Chosen
    <3>3. f.receive \in Int /\ Along(q, amount).receive \in Int
      BY <1>1, <2>10
    <3> HIDE DEF f
    <3> QED
      BY <3>2, <3>3
  <2>12. f.receive # 0
    <3>1. PICK q \in S : Along(q, amount).receive # 0
      BY <1>3
    <3>2. f.receive \in Nat /\ Along(q, amount).receive \in Nat /\ Along(q, amount).receive <= f.receive
      BY <1>1, <2>10, <2>11
    <3> HIDE DEF f
    <3> QED
      BY <3>1, <3>2
  <2>13. f.receive \in 0 .. Word - 1
    BY <1>1, <2>10
  <2> HIDE DEF f
  <2> QED
    BY <2>10, <2>11, <2>12, <2>13 DEF f
<1> QED
  BY <1>2, <1>3

\* A path that has been found.
GotAlong(f, s, d, amount) ==
  \E path \in OfferedPaths(s, d) :
    /\ f = Along(path, amount)
    /\ f.route \in Routes(ToSet(offered), path)
    /\ Pays(market, path, f.route, amount) = f.receive

LEMMA FindGoodFacts ==
  ASSUME Asked, NEW s, NEW d, NEW amount \in 0 .. Word - 1
  PROVE  LET f == FindGoodTradePath(s, d, amount) IN
         /\ f.receive \in 0 .. Word - 1
         /\ f.receive = 0 => f.route = <<>>
         /\ f.receive # 0 => GotAlong(f, s, d, amount)
         /\ \A path \in FindPaths(s, d) : Along(path, amount).receive <= f.receive
<1> DEFINE tried == {Along(path, amount) : path \in FindPaths(s, d)}
           f == FindGoodTradePath(s, d, amount)
<1>1. {FirstBest(x) : x \in {tried}} = {FirstBest(tried)}
  OBVIOUS
<1>2. f = CHOOSE g \in {FirstBest(x) : x \in {tried}} : TRUE
  BY Zenon DEF FindGoodTradePath
<1>3. f = FirstBest(tried)
  <2> HIDE DEF tried, f
  <2> QED
    BY <1>1, <1>2
<1>4. FindPaths(s, d) \subseteq OfferedPaths(s, d)
  BY DEF FindPaths, OfferedPaths
<1>5. /\ f.receive \in 0 .. Word - 1
      /\ f.receive = 0 => f.route = <<>>
      /\ f.receive # 0 => \E path \in FindPaths(s, d) : f = Along(path, amount)
      /\ \A path \in FindPaths(s, d) : Along(path, amount).receive <= f.receive
  <2> DEFINE S == FindPaths(s, d)
  <2>1. f = FirstBest({Along(path, amount) : path \in S}) /\ S \subseteq OfferedPaths(s, d)
    BY <1>3, <1>4
  <2> HIDE DEF f, S
  <2>2. LET g == FirstBest({Along(path, amount) : path \in S})
        IN /\ g.receive \in 0 .. Word - 1
           /\ g.receive = 0 => g.route = <<>>
           /\ g.receive # 0 => \E path \in S : g = Along(path, amount)
           /\ \A path \in S : Along(path, amount).receive <= g.receive
    BY <2>1, FirstBestFacts
  <2> QED
    BY <2>1, <2>2 DEF S
<1>6. ASSUME f.receive # 0 PROVE GotAlong(f, s, d, amount)
  <2>1. PICK path \in FindPaths(s, d) : f = Along(path, amount)
    BY <1>5, <1>6
  <2>2. path \in OfferedPaths(s, d) /\ amount \in Nat
    BY <1>4, Constants
  <2> HIDE DEF f
  <2>3. /\ f.route \in Routes(ToSet(offered), path)
        /\ Pays(market, path, f.route, amount) = f.receive
    BY <1>6, <2>1, <2>2, AlongSound
  <2> QED
    BY <2>1, <2>2, <2>3 DEF GotAlong
<1> HIDE DEF f
<1> QED
  BY <1>5, <1>6 DEF f

Found(amount) == FindGoodTradePath(call.from, call.to, amount)

\* What is found can be had; and there is nothing better, where the pools pay more
\* for more and all the paths are looked at.
LEMMA FoundFacts ==
  ASSUME Asked, NEW amount \in 0 .. Word - 1
  PROVE  /\ Found(amount).receive \in 0 .. Word - 1
         /\ Found(amount).receive <= Receipt[amount] /\ Receipt[amount] \in 0 .. Word - 1
         /\ Found(amount).receive = 0 => Found(amount).route = <<>>
         /\ Found(amount).receive # 0 => GotAlong(Found(amount), call.from, call.to, amount)
         /\ Regular => Found(amount).receive = Receipt[amount]
         /\ Found(amount).route \in Seq(PoolType)
<1> DEFINE f == Found(amount)
<1>1. /\ f.receive \in 0 .. Word - 1
      /\ f.receive = 0 => f.route = <<>>
      /\ f.receive # 0 => GotAlong(f, call.from, call.to, amount)
      /\ \A path \in FindPaths(call.from, call.to) : Along(path, amount).receive <= f.receive
  BY FindGoodFacts DEF Found
<1> HIDE DEF f
<1>2. ASSUME f.receive # 0
      PROVE  \E path \in Paths : /\ f.route \in Routes(ToSet(offered), path)
                                 /\ Pays(market, path, f.route, amount) = f.receive
  BY <1>1, <1>2 DEF GotAlong, Paths
<1>3. f.receive <= Receipt[amount] /\ Receipt[amount] \in 0 .. Word - 1
  <2>1. Receipt[amount] \in 0 .. Word - 1
    BY ReceiptFacts
  <2>2. CASE f.receive = 0
    BY <2>1, <2>2
  <2>3. CASE f.receive # 0
    BY <1>2, <2>1, <2>3, ReceiptFacts
  <2> QED
    BY <2>1, <2>2, <2>3
<1>4. ASSUME Regular PROVE f.receive = Receipt[amount]
  <2>1. PaysMore /\ Cardinality(Paths) <= MaxPaths
    BY <1>4 DEF Regular, PaysMore, Paths, OfferedPaths
  <2>2. FindPaths(call.from, call.to) = Paths
    BY <2>1, AllPaths DEF Paths
  <2>3. Receipt[amount] <= f.receive
    <3>1. CASE Receipt[amount] = 0
      BY <1>1, <3>1
    <3>2. CASE Receipt[amount] # 0
      <4>1. PICK path \in Paths : \E r \in Routes(ToSet(offered), path) :
              Receipt[amount] = Pays(market, path, r, amount)
        BY <3>2, ReceiptFacts
      <4>2. Along(path, amount).receive <= f.receive
        BY <1>1, <2>2
      <4>3. Along(path, amount).receive \in Nat /\ amount \in Nat
        <5>1. amount \in Nat
          BY Constants
        <5>2. Along(path, amount) \in Reached(path)
          BY <5>1, AlongSound DEF Paths
        <5> QED
          BY <5>1, <5>2 DEF Reached
      <4>4. Receipt[amount] <= Along(path, amount).receive
        BY <2>1, <4>1, <4>3, AlongBest DEF Paths
      <4>5. Receipt[amount] \in Nat /\ f.receive \in Nat
        BY <1>1, <1>3
      <4> QED
        BY <4>2, <4>3, <4>4, <4>5
    <3> QED
      BY <3>1, <3>2
  <2> QED
    BY <1>1, <1>3, <2>3
<1>5. f.route \in Seq(PoolType)
  <2>1. CASE f.receive = 0
    <3>1. f.route = <<>>
      BY <1>1, <2>1
    <3> QED
      BY <3>1
  <2>2. CASE f.receive # 0
    BY <1>2, <2>2, RouteFacts DEF Paths
  <2> QED
    BY <2>1, <2>2
<1> QED
  BY <1>1, <1>3, <1>4, <1>5 DEF f

-----------------------------------------------------------------------------
(* The tokens of a route, and its fee rate. *)

NextToken(tokens, p) ==
  Append(tokens, IF p.pair[1] # Last(tokens) THEN p.pair[1] ELSE p.pair[2])

LEMMA TokenHops ==
  ASSUME NEW t \in Tokens, NEW route \in Seq(PoolType)
  PROVE  \E h : /\ h[0] = <<t>> /\ TokenRoute(t, route) = h[Len(route)]
                /\ \A k \in 1 .. Len(route) : h[k] = NextToken(h[k - 1], route[k])
<1> DEFINE n == Len(route)
           V == Seq(Tokens)
           base == <<t>>
           D == DOMAIN route
           P(g) == g = [S \in SUBSET D |->
                          IF S = {} THEN base ELSE NextToken(g[S \ {Max(S)}], route[Max(S)])]
           fold == CHOOSE g : P(g)
           F == [x \in V \X (1 .. n) |-> NextToken(x[1], route[x[2]])]
<1>1. n \in Nat /\ D = 1 .. n /\ \A i \in 1 .. n : route[i] \in PoolType
  BY LenProperties, ElementOfSeq
<1>2. TokenRoute(t, route) = fold[D]
  BY Zenon DEF TokenRoute, FoldLeft, MapThenFoldSet, NextToken
<1>3. base \in V
  OBVIOUS
<1>4. F \in [V \X (1 .. n) -> V]
  <2> SUFFICES ASSUME NEW got \in V, NEW i \in 1 .. n PROVE NextToken(got, route[i]) \in V
    OBVIOUS
  <2>1. route[i].pair[1] \in Tokens /\ route[i].pair[2] \in Tokens
    BY <1>1 DEF PoolType
  <2> QED
    BY <2>1 DEF NextToken
<1> HIDE DEF n, V, base
<1>5. PICK g \in [SUBSET (1 .. n) -> V] : Folding(g, F, base, n)
  <2> HIDE DEF F
  <2> QED
    BY <1>1, <1>3, <1>4, FoldingExists
<1> HIDE DEF D
<1>7. P(g)
  <2>1. ASSUME NEW S \in SUBSET (1 .. n), S # {}
        PROVE  F[<<g[S \ {Max(S)}], Max(S)>>] = NextToken(g[S \ {Max(S)}], route[Max(S)])
    <3>1. Max(S) \in 1 .. n
      BY <1>1, <2>1, MaxIn
    <3>2. g[S \ {Max(S)}] \in V
      BY <1>5
    <3> QED
      BY <3>1, <3>2
  <2> HIDE DEF F
  <2>2. g = [S \in SUBSET (1 .. n) |-> IF S = {} THEN base ELSE F[<<g[S \ {Max(S)}], Max(S)>>]]
    BY <1>5 DEF Folding
  <2>3. [S \in SUBSET (1 .. n) |-> IF S = {} THEN base ELSE F[<<g[S \ {Max(S)}], Max(S)>>]]
        = [S \in SUBSET (1 .. n) |->
             IF S = {} THEN base ELSE NextToken(g[S \ {Max(S)}], route[Max(S)])]
    BY <2>1
  <2> QED
    BY <1>1, <2>2, <2>3
<1>8. P(fold)
  <2> HIDE DEF P
  <2> QED
    BY <1>7
<1> HIDE DEF fold, F
<1>9. \A S \in SUBSET (1 .. n) :
        fold[S] = IF S = {} THEN base ELSE NextToken(fold[S \ {Max(S)}], route[Max(S)])
  BY <1>1, <1>8
<1> HIDE DEF P
<1> DEFINE h == [k \in 0 .. n |-> fold[1 .. k]]
<1>10. h[0] = base
  <2>1. 1 .. 0 = {} /\ 1 .. 0 \in SUBSET (1 .. n)
    OBVIOUS
  <2>2. fold[1 .. 0] = base
    BY <1>9, <2>1
  <2>3. 0 \in 0 .. n
    BY <1>1
  <2> QED
    BY <2>2, <2>3
<1>11. ASSUME NEW k \in 1 .. n PROVE h[k] = NextToken(h[k - 1], route[k])
  <2>1. /\ 1 .. k \in SUBSET (1 .. n) /\ 1 .. k # {}
        /\ Max(1 .. k) = k /\ (1 .. k) \ {k} = 1 .. k - 1
    BY <1>1, Initial
  <2>2. k \in 0 .. n /\ k - 1 \in 0 .. n
    BY <1>1
  <2> QED
    BY <1>9, <2>1, <2>2
<1>13. TokenRoute(t, route) = h[n]
  <2>1. n \in 0 .. n
    BY <1>1
  <2> QED
    BY <1>1, <1>2, <2>1
<1> HIDE DEF h
<1> QED
  BY <1>10, <1>11, <1>13 DEF n, base

\* The tokens of the pools taken along a path are the path.
LEMMA TokensAlong ==
  ASSUME Asked, NEW s \in Tokens, NEW d, NEW path \in OfferedPaths(s, d),
         NEW route \in Routes(ToSet(offered), path)
  PROVE  TokenRoute(s, route) = path
<1> DEFINE n == Len(route)
<1>1. /\ n \in Nat /\ n = Len(path) - 1 /\ route \in Seq(PoolType)
      /\ \A i \in 1 .. n : route[i] \in PoolType /\ Joins(route[i], path[i], path[i + 1])
  BY RouteFacts, PathFacts, Constants DEF OfferedPaths
<1>2. path \in [1 .. n + 1 -> Tokens] /\ path[1] = s
  BY <1>1, PathFacts, Constants DEF OfferedPaths
<1>3. PICK h : /\ h[0] = <<s>> /\ TokenRoute(s, route) = h[n]
               /\ \A k \in 1 .. n : h[k] = NextToken(h[k - 1], route[k])
  BY <1>1, TokenHops
<1> HIDE DEF n
<1> DEFINE S == {k \in 0 .. n : /\ h[k] \in Seq(Tokens) /\ Len(h[k]) = k + 1
                                /\ \A i \in 1 .. k + 1 : h[k][i] = path[i]}
<1>4. 0 \in S
  <2>1. h[0] \in Seq(Tokens) /\ Len(h[0]) = 1 /\ h[0][1] = s
    BY <1>3
  <2> QED
    BY <1>1, <1>2, <2>1
<1>5. ASSUME NEW k \in 1 .. n, k - 1 \in S PROVE k \in S
  <2> DEFINE old == h[k - 1]
             p == route[k]
             new == IF p.pair[1] # Last(old) THEN p.pair[1] ELSE p.pair[2]
  <2>1. old \in Seq(Tokens) /\ Len(old) = k /\ \A i \in 1 .. k : old[i] = path[i]
    BY <1>5
  <2>2. Last(old) = path[k]
    BY <2>1 DEF Last
  <2>3. new = path[k + 1]
    <3>1. p \in PoolType /\ Joins(p, path[k], path[k + 1])
      BY <1>1
    <3> QED
      BY <2>2, <3>1, SideFacts
  <2>4. h[k] = Append(old, new)
    BY <1>3 DEF NextToken
  <2>5. path[k + 1] \in Tokens
    BY <1>1, <1>2
  <2> HIDE DEF old, new
  <2>6. h[k] \in Seq(Tokens) /\ Len(h[k]) = k + 1 /\ h[k][k + 1] = path[k + 1]
        /\ \A i \in 1 .. k : h[k][i] = old[i]
    BY <2>1, <2>3, <2>4, <2>5
  <2>7. \A i \in 1 .. k + 1 : h[k][i] = path[i]
    BY <2>1, <2>6
  <2>8. k \in 0 .. n
    BY <1>1
  <2> QED
    BY <2>6, <2>7, <2>8
<1>6. n \in S
  <2> HIDE DEF S
  <2>1. \A k \in 0 .. n : k \in S
    BY <1>1, <1>4, <1>5, UpInduction
  <2> QED
    BY <1>1, <2>1
<1>7. h[n] \in Seq(Tokens) /\ Len(h[n]) = n + 1 /\ \A i \in 1 .. n + 1 : h[n][i] = path[i]
  BY <1>6
<1>8. h[n] \in [1 .. n + 1 -> Tokens]
  BY <1>7, LenProperties
<1>9. h[n] = path
  BY <1>2, <1>7, <1>8
<1> QED
  BY <1>3, <1>9

LEMMA FeeRateType ==
  ASSUME NEW route \in Seq(PoolType)
  PROVE  FeeRate(route) \in Nat
<1> DEFINE n == Len(route)
           V == Nat
           base == 0
           D == DOMAIN route
           P(g) == g = [S \in SUBSET D |->
                          IF S = {} THEN base ELSE g[S \ {Max(S)}] + route[Max(S)].feeRate]
           fold == CHOOSE g : P(g)
           F == [x \in V \X (1 .. n) |-> x[1] + route[x[2]].feeRate]
<1>1. n \in Nat /\ D = 1 .. n /\ \A i \in 1 .. n : route[i] \in PoolType
  BY LenProperties, ElementOfSeq
<1>2. FeeRate(route) = fold[D]
  BY Zenon DEF FeeRate, FoldLeft, MapThenFoldSet
<1>3. base \in V
  OBVIOUS
<1>4. F \in [V \X (1 .. n) -> V]
  <2> SUFFICES ASSUME NEW got \in V, NEW i \in 1 .. n PROVE got + route[i].feeRate \in V
    OBVIOUS
  <2>1. route[i].feeRate \in Nat
    BY <1>1, Constants DEF PoolType
  <2> QED
    BY <2>1
<1> HIDE DEF n, V, base
<1>5. PICK g \in [SUBSET (1 .. n) -> V] : Folding(g, F, base, n)
  <2> HIDE DEF F
  <2> QED
    BY <1>1, <1>3, <1>4, FoldingExists
<1> HIDE DEF D
<1>7. P(g)
  <2>1. ASSUME NEW S \in SUBSET (1 .. n), S # {}
        PROVE  F[<<g[S \ {Max(S)}], Max(S)>>] = g[S \ {Max(S)}] + route[Max(S)].feeRate
    <3>1. Max(S) \in 1 .. n
      BY <1>1, <2>1, MaxIn
    <3>2. g[S \ {Max(S)}] \in V
      BY <1>5
    <3> QED
      BY <3>1, <3>2
  <2> HIDE DEF F
  <2>2. g = [S \in SUBSET (1 .. n) |-> IF S = {} THEN base ELSE F[<<g[S \ {Max(S)}], Max(S)>>]]
    BY <1>5 DEF Folding
  <2>3. [S \in SUBSET (1 .. n) |-> IF S = {} THEN base ELSE F[<<g[S \ {Max(S)}], Max(S)>>]]
        = [S \in SUBSET (1 .. n) |->
             IF S = {} THEN base ELSE g[S \ {Max(S)}] + route[Max(S)].feeRate]
    BY <2>1
  <2> QED
    BY <1>1, <2>2, <2>3
<1>8. P(fold)
  <2> HIDE DEF P
  <2> QED
    BY <1>7
<1> HIDE DEF fold, F
<1>9. \A S \in SUBSET (1 .. n) :
        fold[S] = IF S = {} THEN base ELSE fold[S \ {Max(S)}] + route[Max(S)].feeRate
  BY <1>1, <1>8
<1> HIDE DEF P
<1> DEFINE Q == {k \in 0 .. n : fold[1 .. k] \in Nat}
<1>10. 0 \in Q
  <2>1. 1 .. 0 = {} /\ 1 .. 0 \in SUBSET (1 .. n)
    OBVIOUS
  <2>2. fold[1 .. 0] = 0
    BY <1>9, <2>1 DEF base
  <2> QED
    BY <1>1, <2>2
<1>11. ASSUME NEW k \in 1 .. n, k - 1 \in Q PROVE k \in Q
  <2>1. /\ 1 .. k \in SUBSET (1 .. n) /\ 1 .. k # {}
        /\ Max(1 .. k) = k /\ (1 .. k) \ {k} = 1 .. k - 1
    BY <1>1, Initial
  <2>2. fold[1 .. k] = fold[1 .. k - 1] + route[k].feeRate
    BY <1>9, <2>1
  <2>3. fold[1 .. k - 1] \in Nat /\ route[k].feeRate \in Nat
    BY <1>1, <1>11, Constants DEF PoolType
  <2>4. fold[1 .. k] \in Nat /\ k \in 0 .. n
    BY <1>1, <2>2, <2>3
  <2> QED
    BY <2>4
<1> HIDE DEF Q
<1>12. n \in Q
  <2>1. \A k \in 0 .. n : k \in Q
    BY <1>1, <1>10, <1>11, UpInduction
  <2> QED
    BY <1>1, <2>1
<1> QED
  BY <1>1, <1>2, <1>12 DEF Q

\* The prices that getPriceAgainstPRV has in hand, one pool after another.
PriceType == [coins : Nat, prv : Nat, liquid : Nat]
NoPrice == [coins |-> 0, prv |-> 0, liquid |-> 0]
NextPrice(t, found, p) ==
  IF Usable(p, t) /\ Better(Priced(p, t), found) THEN Priced(p, t) ELSE found

LEMMA PricedType ==
  ASSUME market \in MarketType, NEW p \in PoolType, NEW t
  PROVE  Priced(p, t) \in PriceType
<1>1. /\ p.virtual[1] \in Nat /\ p.virtual[2] \in Nat /\ p.amplifier \in Nat \ {0}
      /\ market.base \in Nat
  BY DEF PoolType, MarketType
<1>2. SideOf(p, t) \in {1, 2} /\ SideOf(p, PRV) \in {1, 2}
  BY DEF SideOf
<1> DEFINE x == p.virtual[1] * p.virtual[2] * market.base
           y == (x \div p.amplifier) * market.base
<1>3. x \in Nat
  BY <1>1
<1> HIDE DEF x
<1>4. x \div p.amplifier \in Nat
  BY <1>1, <1>3
<1>5. y \in Nat
  BY <1>1, <1>4
<1>6. Worth(p) = y \div p.amplifier
  BY DEF Worth, x
<1> HIDE DEF y
<1>7. Worth(p) \in Nat
  BY <1>1, <1>5, <1>6
<1> QED
  BY <1>1, <1>2, <1>7 DEF Priced, PriceType

LEMMA PriceHops ==
  ASSUME market \in MarketType, NEW t, NEW priced \in Seq(PoolType)
  PROVE  \E h : /\ h[0] = NoPrice /\ PriceAgainstPRV(t, priced) = h[Len(priced)]
                /\ \A k \in 1 .. Len(priced) : h[k] = NextPrice(t, h[k - 1], priced[k])
<1> DEFINE n == Len(priced)
           V == PriceType
           base == NoPrice
           D == DOMAIN priced
           P(g) == g = [S \in SUBSET D |->
                          IF S = {} THEN base ELSE NextPrice(t, g[S \ {Max(S)}], priced[Max(S)])]
           fold == CHOOSE g : P(g)
           F == [x \in V \X (1 .. n) |-> NextPrice(t, x[1], priced[x[2]])]
<1>1. n \in Nat /\ D = 1 .. n /\ \A i \in 1 .. n : priced[i] \in PoolType
  BY LenProperties, ElementOfSeq
<1>2. PriceAgainstPRV(t, priced) = fold[D]
  BY Zenon DEF PriceAgainstPRV, FoldLeft, MapThenFoldSet, NextPrice, NoPrice
<1>3. base \in V
  BY DEF NoPrice, PriceType
<1>4. F \in [V \X (1 .. n) -> V]
  <2> SUFFICES ASSUME NEW got \in V, NEW i \in 1 .. n PROVE NextPrice(t, got, priced[i]) \in V
    OBVIOUS
  <2> QED
    BY <1>1, PricedType DEF NextPrice
<1> HIDE DEF n, V, base
<1>5. PICK g \in [SUBSET (1 .. n) -> V] : Folding(g, F, base, n)
  <2> HIDE DEF F
  <2> QED
    BY <1>1, <1>3, <1>4, FoldingExists
<1> HIDE DEF D
<1>7. P(g)
  <2>1. ASSUME NEW S \in SUBSET (1 .. n), S # {}
        PROVE  F[<<g[S \ {Max(S)}], Max(S)>>] = NextPrice(t, g[S \ {Max(S)}], priced[Max(S)])
    <3>1. Max(S) \in 1 .. n
      BY <1>1, <2>1, MaxIn
    <3>2. g[S \ {Max(S)}] \in V
      BY <1>5
    <3> QED
      BY <3>1, <3>2
  <2> HIDE DEF F
  <2>2. g = [S \in SUBSET (1 .. n) |-> IF S = {} THEN base ELSE F[<<g[S \ {Max(S)}], Max(S)>>]]
    BY <1>5 DEF Folding
  <2>3. [S \in SUBSET (1 .. n) |-> IF S = {} THEN base ELSE F[<<g[S \ {Max(S)}], Max(S)>>]]
        = [S \in SUBSET (1 .. n) |->
             IF S = {} THEN base ELSE NextPrice(t, g[S \ {Max(S)}], priced[Max(S)])]
    BY <2>1
  <2> QED
    BY <1>1, <2>2, <2>3
<1>8. P(fold)
  <2> HIDE DEF P
  <2> QED
    BY <1>7
<1> HIDE DEF fold, F
<1>9. \A S \in SUBSET (1 .. n) :
        fold[S] = IF S = {} THEN base ELSE NextPrice(t, fold[S \ {Max(S)}], priced[Max(S)])
  BY <1>1, <1>8
<1> HIDE DEF P
<1> DEFINE h == [k \in 0 .. n |-> fold[1 .. k]]
<1>10. h[0] = base
  <2>1. 1 .. 0 = {} /\ 1 .. 0 \in SUBSET (1 .. n)
    OBVIOUS
  <2>2. fold[1 .. 0] = base
    BY <1>9, <2>1
  <2>3. 0 \in 0 .. n
    BY <1>1
  <2> QED
    BY <2>2, <2>3
<1>11. ASSUME NEW k \in 1 .. n PROVE h[k] = NextPrice(t, h[k - 1], priced[k])
  <2>1. /\ 1 .. k \in SUBSET (1 .. n) /\ 1 .. k # {}
        /\ Max(1 .. k) = k /\ (1 .. k) \ {k} = 1 .. k - 1
    BY <1>1, Initial
  <2>2. k \in 0 .. n /\ k - 1 \in 0 .. n
    BY <1>1
  <2> QED
    BY <1>9, <2>1, <2>2
<1>13. PriceAgainstPRV(t, priced) = h[n]
  <2>1. n \in 0 .. n
    BY <1>1
  <2> QED
    BY <1>1, <1>2, <2>1
<1> HIDE DEF h
<1> QED
  BY <1>10, <1>11, <1>13 DEF n, base

\* No pool that may set the price is more liquid than the one found, or as liquid and
\* better for the user.
Beaten(x, found) ==
  \/ x.liquid < found.liquid
  \/ x.liquid = found.liquid /\ x.coins * found.prv <= found.coins * x.prv

LEMMA RatioLess ==
  ASSUME NEW a \in Nat, NEW b \in Nat, NEW c \in Nat, NEW d \in Nat \ {0}, NEW e \in Nat, NEW f \in Nat,
         a * d <= c * b, c * f <= e * d
  PROVE  a * f <= e * b
<1>1. (a * d) * f <= (c * b) * f
  BY Product, a * d \in Nat, c * b \in Nat
<1>2. (c * f) * b <= (e * d) * b
  BY Product, c * f \in Nat, e * d \in Nat
<1>3. (a * d) * f = (a * f) * d /\ (c * b) * f = (c * f) * b /\ (e * d) * b = (e * b) * d
  OBVIOUS
<1>4. (a * f) * d <= (e * b) * d
  <2>1. (a * f) * d \in Int /\ (c * f) * b \in Int /\ (e * b) * d \in Int
    OBVIOUS
  <2> QED
    BY <1>1, <1>2, <1>3, <2>1
<1> QED
  BY <1>4, LessProduct, a * f \in Int, e * b \in Int

LEMMA BeatenByNext ==
  ASSUME NEW x \in PriceType, x.liquid # 0, NEW y \in PriceType, NEW z \in PriceType,
         Beaten(x, y), Better(z, y), y.prv = 0 => y.liquid = 0
  PROVE  Beaten(x, z)
<1>1. /\ x.liquid \in Nat \ {0} /\ x.coins \in Nat /\ x.prv \in Nat
      /\ y.liquid \in Nat /\ y.coins \in Nat /\ y.prv \in Nat
      /\ z.liquid \in Nat /\ z.coins \in Nat /\ z.prv \in Nat
  BY DEF PriceType
<1>2. y.liquid >= x.liquid /\ y.prv # 0
  BY <1>1 DEF Beaten
<1>3. CASE z.liquid > y.liquid
  BY <1>1, <1>2, <1>3 DEF Beaten
<1>4. CASE z.liquid = y.liquid /\ z.coins * y.prv > y.coins * z.prv
  <2>1. CASE x.liquid < y.liquid
    BY <1>4, <2>1 DEF Beaten
  <2>2. CASE x.liquid = y.liquid /\ x.coins * y.prv <= y.coins * x.prv
    <3>1. y.coins * z.prv <= z.coins * y.prv
      BY <1>1, <1>4, y.coins * z.prv \in Int, z.coins * y.prv \in Int
    <3>2. x.coins * z.prv <= z.coins * x.prv
      BY <1>1, <1>2, <2>2, <3>1, RatioLess
    <3> QED
      BY <1>4, <2>2, <3>2 DEF Beaten
  <2> QED
    BY <2>1, <2>2 DEF Beaten
<1> QED
  BY <1>2, <1>3, <1>4 DEF Better

LEMMA WorthNothing ==
  ASSUME market \in MarketType, NEW p \in PoolType, NEW t, Joins(p, t, PRV)
  PROVE  /\ Priced(p, t).liquid = Worth(p)
         /\ Worth(p) # 0 => Priced(p, t).prv # 0 /\ Priced(p, t).coins # 0
<1>1. /\ p.virtual[1] \in Nat /\ p.virtual[2] \in Nat /\ p.amplifier \in Nat \ {0}
      /\ market.base \in Nat
  BY DEF PoolType, MarketType
<1>2. /\ SideOf(p, t) \in {1, 2} /\ SideOf(p, PRV) \in {1, 2}
  BY DEF SideOf
<1>3. ASSUME p.virtual[1] = 0 \/ p.virtual[2] = 0 PROVE Worth(p) = 0
  <2>1. p.virtual[1] * p.virtual[2] * market.base = 0
    BY <1>1, <1>3
  <2>2. 0 \div p.amplifier = 0 /\ 0 * market.base = 0
    BY <1>1
  <2> QED
    BY <2>1, <2>2 DEF Worth
<1> QED
  BY <1>2, <1>3 DEF Priced

\* getPriceAgainstPRV: it does not matter in which order the pools come.
PriceIs(t, priced, price) ==
  /\ price \in PriceType
  /\ price.prv = 0 => price.liquid = 0
  /\ price.liquid # 0 => \E i \in 1 .. Len(priced) : Usable(priced[i], t) /\ price = Priced(priced[i], t)
  /\ \A i \in 1 .. Len(priced) :
       Usable(priced[i], t) /\ Worth(priced[i]) # 0 => Beaten(Priced(priced[i], t), price)

LEMMA PriceFound ==
  ASSUME market \in MarketType, NEW t, NEW priced \in Seq(PoolType)
  PROVE  PriceIs(t, priced, PriceAgainstPRV(t, priced))
<1> DEFINE n == Len(priced)
           price(p) == Priced(p, t)
<1>1. n \in Nat /\ \A i \in 1 .. n : priced[i] \in PoolType
  BY LenProperties, ElementOfSeq
<1>2. PICK h : /\ h[0] = NoPrice /\ PriceAgainstPRV(t, priced) = h[n]
               /\ \A k \in 1 .. n : h[k] = NextPrice(t, h[k - 1], priced[k])
  BY PriceHops
<1>3. \A i \in 1 .. n : price(priced[i]) \in PriceType
  BY <1>1, PricedType
<1>4. \A i \in 1 .. n : Usable(priced[i], t) =>
        /\ price(priced[i]).liquid = Worth(priced[i])
        /\ Worth(priced[i]) # 0 => price(priced[i]).prv # 0
  BY <1>1, WorthNothing DEF Usable
<1> DEFINE Upto(k, f) ==
             /\ f \in PriceType
             /\ f.prv = 0 => f.liquid = 0
             /\ f.liquid # 0 => \E i \in 1 .. k : Usable(priced[i], t) /\ f = price(priced[i])
             /\ \A i \in 1 .. k :
                  Usable(priced[i], t) /\ Worth(priced[i]) # 0 => Beaten(price(priced[i]), f)
           S == {k \in 0 .. n : Upto(k, h[k])}
<1> HIDE DEF n, price
<1>5. 0 \in S
  <2>1. NoPrice \in PriceType /\ NoPrice.liquid = 0
    BY DEF NoPrice, PriceType
  <2>2. Upto(0, NoPrice)
    BY <2>1
  <2> QED
    BY <1>1, <1>2, <2>2
<1>6. ASSUME NEW k \in 1 .. n, k - 1 \in S PROVE k \in S
  <2> DEFINE f == h[k - 1]
             z == price(priced[k])
  <2>1. Upto(k - 1, f)
    BY <1>6
  <2>2. h[k] = IF Usable(priced[k], t) /\ Better(z, f) THEN z ELSE f
    BY <1>2 DEF NextPrice, price
  <2>3. z \in PriceType
    BY <1>3
  <2>4. /\ \A i \in 1 .. k : i \in 1 .. n
        /\ \A i \in 1 .. k : i # k => i \in 1 .. k - 1
        /\ \A i \in 1 .. k - 1 : i \in 1 .. k
        /\ k \in 1 .. k /\ k \in 0 .. n
    BY <1>1
  <2> HIDE DEF f, z
  <2>5. CASE Usable(priced[k], t) /\ Better(z, f)
    <3>1. h[k] = z
      BY <2>2, <2>5
    <3>2. z.prv = 0 => z.liquid = 0
      BY <1>4, <2>4, <2>5 DEF z
    <3>3. ASSUME NEW i \in 1 .. k, Usable(priced[i], t), Worth(priced[i]) # 0
          PROVE  Beaten(price(priced[i]), z)
      <4>1. CASE i = k
        <5>1. price(priced[i]) = z
          BY <4>1 DEF z
        <5>2. z.coins * z.prv <= z.coins * z.prv
          BY <2>3 DEF PriceType
        <5> QED
          BY <5>1, <5>2 DEF Beaten
      <4>2. CASE i # k
        <5>1. Beaten(price(priced[i]), f)
          BY <2>1, <2>4, <3>3, <4>2
        <5>2. price(priced[i]) \in PriceType /\ price(priced[i]).liquid # 0
          BY <1>3, <1>4, <2>4, <3>3
        <5> QED
          BY <2>1, <2>3, <2>5, <5>1, <5>2, BeatenByNext
      <4> QED
        BY <4>1, <4>2
    <3>4. Upto(k, z)
      BY <2>3, <2>4, <2>5, <3>2, <3>3 DEF z
    <3> QED
      BY <2>4, <3>1, <3>4
  <2>6. CASE ~(Usable(priced[k], t) /\ Better(z, f))
    <3>1. h[k] = f
      BY <2>2, <2>6
    <3>2. ASSUME NEW i \in 1 .. k, Usable(priced[i], t), Worth(priced[i]) # 0
          PROVE  Beaten(price(priced[i]), f)
      <4>1. CASE i = k
        <5>1. price(priced[i]) = z /\ ~Better(z, f)
          BY <2>6, <3>2, <4>1 DEF z
        <5>2. /\ f.liquid \in Nat /\ f.coins \in Nat /\ f.prv \in Nat
              /\ z.liquid \in Nat /\ z.coins \in Nat /\ z.prv \in Nat
          BY <2>1, <2>3 DEF PriceType
        <5>3. z.coins * f.prv \in Int /\ f.coins * z.prv \in Int
          BY <5>2
        <5> QED
          BY <5>1, <5>2, <5>3 DEF Beaten, Better
      <4>2. CASE i # k
        BY <2>1, <2>4, <3>2, <4>2
      <4> QED
        BY <4>1, <4>2
    <3>3. Upto(k, f)
      BY <2>1, <2>4, <3>2
    <3> QED
      BY <2>4, <3>1, <3>3
  <2> QED
    BY <2>5, <2>6
<1>7. n \in S
  <2> HIDE DEF S
  <2>1. \A k \in 0 .. n : k \in S
    BY <1>1, <1>5, <1>6, UpInduction
  <2> QED
    BY <1>1, <2>1
<1> QED
  BY <1>2, <1>7 DEF PriceIs, n, price

-----------------------------------------------------------------------------
(* Fees. *)

\* A set in some order.
LEMMA OrderFacts ==
  ASSUME NEW S, IsFiniteSet(S), S \subseteq PoolType, NEW q \in SetToSeqs(S)
  PROVE  q \in Seq(PoolType) /\ ToSet(q) = S /\ DOMAIN q = 1 .. Len(q)
<1> DEFINE n == Cardinality(S)
<1>1. n \in Nat
  BY FS_CardinalityType
<1>2. q \in [1 .. n -> S] /\ \A i, j \in 1 .. n : i # j => q[i] # q[j]
  BY DEF SetToSeqs
<1> HIDE DEF n
<1>3. q \in Injection(1 .. n, S)
  BY <1>2 DEF Injection, IsInjective
<1>4. IsFiniteSet(1 .. n) /\ Cardinality(1 .. n) = n
  BY <1>1, FS_Interval
<1>5. q \in Surjection(1 .. n, S)
  BY <1>3, <1>4, FS_Injection DEF n
<1>6. ToSet(q) = S
  BY <1>2, <1>5 DEF ToSet, Surjection
<1>7. q \in Seq(PoolType)
  BY <1>1, <1>2
<1> QED
  BY <1>6, <1>7, LenProperties

LEMMA PricedOrder ==
  ASSUME Asked, NEW priced \in SetToSeqs(DefaultPools(market))
  PROVE  /\ market \in MarketType /\ priced \in Seq(PoolType)
         /\ ToSet(priced) = DefaultPools(market) /\ DOMAIN priced = 1 .. Len(priced)
         /\ call.kind # "rate" => ToSet(offered) = DefaultPools(market)
<1>1. market \in MarketType /\ IsFiniteSet(market.pools)
  BY MarketFacts
<1>2. DefaultPools(market) \subseteq PoolType /\ DefaultPools(market) \in SUBSET market.pools
  BY <1>1 DEF DefaultPools, MarketType
<1>3. IsFiniteSet(DefaultPools(market))
  BY <1>1, <1>2, FS_Subset
<1> QED
  BY <1>1, <1>2, <1>3, OrderFacts, OfferedFacts DEF PoolsFor

LEMMA FeeInSellTokenType ==
  ASSUME NEW amount \in Nat, NEW route \in Seq(PoolType)
  PROVE  FeeInSellToken(amount, route) \in Nat
<1>1. FeeRate(route) \in Nat /\ BPS \in Nat \ {0}
  BY FeeRateType, Constants
<1>2. amount * FeeRate(route) \in Nat
  BY <1>1
<1>3. CeilDiv(amount * FeeRate(route), BPS) \in Nat
  BY <1>1, <1>2, CeilDivIs
<1> QED
  BY <1>3 DEF FeeInSellToken

\* A smaller amount, at a rate that is no higher, costs no more.
LEMMA FeeInSellTokenGrows ==
  ASSUME NEW a \in Nat, NEW b \in Nat, a <= b,
         NEW r \in Seq(PoolType), NEW s \in Seq(PoolType), FeeRate(r) <= FeeRate(s),
         FeeInSellToken(b, s) # 0
  PROVE  FeeInSellToken(a, r) <= FeeInSellToken(b, s)
<1>1. FeeRate(r) \in Nat /\ FeeRate(s) \in Nat /\ BPS \in Nat \ {0}
  BY FeeRateType, Constants
<1>2. a * FeeRate(r) \in Nat /\ b * FeeRate(s) \in Nat /\ a * FeeRate(r) <= b * FeeRate(s)
  <2>1. a * FeeRate(r) <= b * FeeRate(r)
    BY <1>1, Product
  <2>2. FeeRate(r) * b <= FeeRate(s) * b
    BY <1>1, Product
  <2>3. a * FeeRate(r) \in Nat /\ b * FeeRate(r) \in Nat /\ b * FeeRate(s) \in Nat
        /\ FeeRate(r) * b = b * FeeRate(r) /\ FeeRate(s) * b = b * FeeRate(s)
    BY <1>1
  <2> QED
    BY <2>1, <2>2, <2>3
<1>3. CeilDiv(a * FeeRate(r), BPS) <= CeilDiv(b * FeeRate(s), BPS)
  BY <1>1, <1>2, CeilDivGrows
<1>4. FeeInSellToken(b, s) = CeilDiv(b * FeeRate(s), BPS)
  BY DEF FeeInSellToken
<1>5. FeeInSellToken(a, r) \in {0, CeilDiv(a * FeeRate(r), BPS)} /\ FeeInSellToken(b, s) \in Nat
  BY FeeInSellTokenType DEF FeeInSellToken
<1> QED
  BY <1>3, <1>4, <1>5

\* A price that a fee can be charged at.
Fair(price) == price \in PriceType /\ (price.liquid # 0 => price.coins # 0)

LEMMA ChargedFacts ==
  ASSUME market \in MarketType, NEW price, Fair(price), NEW fee \in Nat
  PROVE  /\ Charged(price, fee) \in Nat
         /\ \A less \in Nat : less <= fee => Charged(price, less) <= Charged(price, fee)
<1> DEFINE keep == Percent - market.discount
           d == price.coins * Percent
           n(x) == x * price.prv * keep
<1>1. /\ price.coins \in Nat /\ price.prv \in Nat /\ price.liquid \in Nat
      /\ Percent \in Nat \ {0} /\ keep \in Nat
  BY Constants DEF Fair, PriceType, MarketType
<1>2. \A x : Charged(price, x) = IF price.liquid = 0 THEN 0 ELSE CeilDiv(n(x), d)
  BY DEF Charged
<1>3. price.liquid # 0 => d \in Nat \ {0}
  BY <1>1 DEF Fair
<1>4. \A x \in Nat : n(x) \in Nat
  BY <1>1
<1>5. ASSUME NEW less \in Nat, less <= fee PROVE n(less) <= n(fee)
  <2> DEFINE k == price.prv * keep
  <2>1. k \in Nat
    BY <1>1
  <2>2. n(less) = less * k /\ n(fee) = fee * k
    BY <1>1
  <2> HIDE DEF k
  <2> QED
    BY <1>5, <2>1, <2>2, Product
<1> HIDE DEF keep, d, n
<1>6. CASE price.liquid = 0
  BY <1>2, <1>6
<1>7. CASE price.liquid # 0
  BY <1>2, <1>3, <1>4, <1>5, <1>7, CeilDivIs, CeilDivGrows
<1> QED
  BY <1>6, <1>7

LEMMA RaisedFacts ==
  ASSUME NEW a \in Nat, NEW b \in Nat, a <= b
  PROVE  Raised(a) \in Nat /\ Raised(b) \in Nat /\ Raised(a) <= Raised(b) /\ Raised(0) = 0
<1>1. Percent \in Nat \ {0}
  BY Constants
<1>2. a \div Percent \in Nat /\ b \div Percent \in Nat /\ 0 \div Percent = 0
  BY <1>1
<1>3. a \div Percent <= b \div Percent
  <2> DEFINE p == Percent
             q == a \div p
             r == a % p
             u == b \div p
             v == b % p
  <2>1. /\ q \in Nat /\ r \in 0 .. p - 1 /\ a = p * q + r
        /\ u \in Nat /\ v \in 0 .. p - 1 /\ b = p * u + v /\ p \in Nat \ {0}
    BY <1>1
  <2> HIDE DEF p, q, r, u, v
  <2>2. ASSUME u + 1 <= q PROVE FALSE
    <3>1. (u + 1) * p <= q * p
      BY <2>1, <2>2, Product
    <3>2. (u + 1) * p = p * u + p /\ q * p = p * q /\ p * u \in Nat /\ p * q \in Nat
      BY <2>1
    <3> QED
      BY <2>1, <3>1, <3>2
  <2>3. q <= u
    BY <2>1, <2>2
  <2> QED
    BY <2>3 DEF p, q, u
<1> QED
  BY <1>2, <1>3 DEF Raised

OfPRV == [coins |-> 1, prv |-> 1, liquid |-> 1]
PriceOf(t, priced) == IF t = PRV THEN OfPRV ELSE PriceAgainstPRV(t, priced)

LEMMA FeeInPRVIs ==
  ASSUME NEW amount, NEW t, NEW route, NEW priced
  PROVE  FeeInPRV(amount, t, route, priced) =
           Charged(PriceOf(t, priced), FeeInSellToken(amount, route))
<1> DEFINE fee == FeeInSellToken(amount, route)
<1>1. {Charged(price, fee) : price \in {PriceOf(t, priced)}} = {Charged(PriceOf(t, priced), fee)}
  OBVIOUS
<1>2. FeeInPRV(amount, t, route, priced) = CHOOSE x \in {Charged(price, fee) : price \in {PriceOf(t, priced)}} : TRUE
  BY Zenon DEF FeeInPRV, PriceOf, OfPRV
<1> HIDE DEF fee
<1>3. FeeInPRV(amount, t, route, priced) = Charged(PriceOf(t, priced), fee)
  BY <1>1, <1>2
<1> QED
  BY <1>3 DEF fee

LEMMA FairPrice ==
  ASSUME market \in MarketType, NEW t, NEW priced, t # PRV => priced \in Seq(PoolType)
  PROVE  Fair(PriceOf(t, priced))
<1>1. CASE t = PRV
  BY <1>1 DEF PriceOf, Fair, OfPRV, PriceType
<1>2. CASE t # PRV
  <2> DEFINE price == PriceAgainstPRV(t, priced)
  <2>1. PriceIs(t, priced, price)
    BY <1>2, PriceFound
  <2>2. \A i \in 1 .. Len(priced) : priced[i] \in PoolType
    BY <1>2, ElementOfSeq
  <2> HIDE DEF price
  <2>3. ASSUME price.liquid # 0 PROVE price.coins # 0
    <3>1. PICK i \in 1 .. Len(priced) : Usable(priced[i], t) /\ price = Priced(priced[i], t)
      BY <2>1, <2>3 DEF PriceIs
    <3> QED
      BY <2>2, <2>3, <3>1, WorthNothing DEF Usable
  <2>4. Fair(price)
    BY <2>1, <2>3 DEF Fair, PriceIs
  <2> QED
    BY <1>2, <2>4 DEF PriceOf, price
<1> QED
  BY <1>1, <1>2

LEMMA TradingFeeType ==
  ASSUME market \in MarketType, NEW amount \in Nat, NEW t, NEW route \in Seq(PoolType),
         NEW inPRV, NEW priced \in Seq(PoolType)
  PROVE  TradingFee(amount, t, route, inPRV, priced) \in Nat
<1>1. FeeInSellToken(amount, route) \in Nat
  BY FeeInSellTokenType
<1>2. FeeInPRV(amount, t, route, priced) \in Nat
  BY <1>1, FeeInPRVIs, FairPrice, ChargedFacts
<1> QED
  BY <1>1, <1>2 DEF TradingFee

-----------------------------------------------------------------------------
(* A sale. *)

LEMMA CallType ==
  ASSUME Asked
  PROVE  /\ call.from \in Tokens /\ call.to \in Tokens /\ call.kind \in {"sell", "buy", "rate"}
         /\ call.kind \in {"sell", "buy"} => call.amount \in 1 .. Word - 1
         /\ call.kind = "rate" => call.start \in 1 .. Word - 1 /\ call.limit \in 1 .. Word - 1
<1>1. call \in Request
  BY MarketFacts
<1> QED
  BY <1>1 DEF Request

\* The tokens of the route that has been found lead to the token to buy, and the route
\* pays what is said.
LEMMA FoundLeads ==
  ASSUME Asked, NEW amount \in 0 .. Word - 1, Found(amount).receive # 0
  PROVE  LET tokens == TokenRoute(call.from, Found(amount).route) IN
         /\ Last(tokens) = call.to
         /\ Pays(market, tokens, Found(amount).route, amount) = Found(amount).receive
<1> DEFINE f == Found(amount)
<1>1. PICK path \in OfferedPaths(call.from, call.to) :
        /\ f.route \in Routes(ToSet(offered), path)
        /\ Pays(market, path, f.route, amount) = f.receive
  BY FoundFacts DEF GotAlong
<1> HIDE DEF f
<1>2. TokenRoute(call.from, f.route) = path
  BY <1>1, CallType, TokensAlong
<1>3. Last(path) = call.to
  BY <1>1, PathFacts DEF OfferedPaths, Last
<1> QED
  BY <1>1, <1>2, <1>3 DEF f

Told(amount, inPRV, priced) ==
  LET route == Found(amount).route
      fee   == TradingFee(amount, call.from, route, inPRV, priced)
  IN [sell |-> amount, get |-> Found(amount).receive, route |-> route,
      fee |-> IF inPRV THEN Raised(fee) ELSE fee, tokens |-> TokenRoute(call.from, route)]

LEMMA EstimateIs ==
  ASSUME NEW amount, NEW inPRV, NEW priced
  PROVE  Estimate(amount, inPRV, priced) = Told(amount, inPRV, priced)
<1> DEFINE told(f) ==
             LET fee == TradingFee(amount, call.from, f.route, inPRV, priced)
             IN [sell |-> amount, get |-> f.receive, route |-> f.route,
                 fee |-> IF inPRV THEN Raised(fee) ELSE fee,
                 tokens |-> TokenRoute(call.from, f.route)]
<1>1. Estimate(amount, inPRV, priced)
        = CHOOSE e \in {told(f) : f \in {FindGoodTradePath(call.from, call.to, amount)}} : TRUE
  BY Zenon DEF Estimate
<1>2. told(Found(amount)) = Told(amount, inPRV, priced)
  BY DEF Told
<1> HIDE DEF told
<1>3. {told(f) : f \in {Found(amount)}} = {told(Found(amount))}
  OBVIOUS
<1> QED
  BY <1>1, <1>2, <1>3 DEF Found

LEMMA ToldHolds ==
  ASSUME Asked, NEW amount \in 0 .. Word - 1, NEW inPRV, NEW priced
  PROVE  Holds(Told(amount, inPRV, priced))
<1> DEFINE e == Told(amount, inPRV, priced)
<1>1. /\ e.sell = amount /\ e.get = Found(amount).receive /\ e.route = Found(amount).route
      /\ e.tokens = TokenRoute(call.from, Found(amount).route)
  BY DEF Told
<1> HIDE DEF e
<1>2. Regular => e.get = Receipt[e.sell]
  BY <1>1, FoundFacts
<1>3. e.route # <<>> => Found(amount).receive # 0
  BY <1>1, FoundFacts
<1>4. e.route # <<>> => Last(e.tokens) = call.to /\ Pays(market, e.tokens, e.route, e.sell) = e.get
  BY <1>1, <1>3, FoundLeads
<1> QED
  BY <1>2, <1>4 DEF Holds, e

\* What is left of a balance for the second estimate.
LeftToSell(amount, fee, keep) == (amount + 2 * Word - fee - keep) % Word

LEMMA LeftIs ==
  ASSUME NEW amount \in 0 .. Word - 1, NEW fee \in Nat, NEW keep \in Nat
  PROVE  /\ LeftToSell(amount, fee, keep) \in 0 .. Word - 1
         /\ fee + keep <= amount => LeftToSell(amount, fee, keep) = amount - fee - keep
<1>1. Word \in Nat \ {0} /\ amount \in Nat
  BY Constants
<1>2. LeftToSell(amount, fee, keep) \in 0 .. Word - 1
  BY <1>1, amount + 2 * Word - fee - keep \in Int, RemainderType DEF LeftToSell
<1>3. ASSUME fee + keep <= amount PROVE LeftToSell(amount, fee, keep) = amount - fee - keep
  <2> DEFINE v == amount - fee - keep
  <2>1. v \in 0 .. Word - 1
    BY <1>1, <1>3
  <2>2. amount + 2 * Word - fee - keep = v + 2 * Word
    BY <1>1
  <2> HIDE DEF v
  <2>3. (v + 2 * Word) % Word = v
    BY <1>1, <2>1, 2 \in Nat, Remainder
  <2> QED
    BY <2>2, <2>3 DEF LeftToSell, v
<1> QED
  BY <1>2, <1>3

LEMMA SaleIs ==
  ASSUME NEW inPRV, NEW priced
  PROVE  LET first == Told(call.amount, inPRV, priced) IN
         Sale(inPRV, priced) =
           IF call.isMax /\ (inPRV => call.from = PRV) /\ first.fee > 0
           THEN Told(LeftToSell(call.amount, first.fee, IF inPRV THEN Slack ELSE 0), inPRV, priced)
           ELSE first
<1> DEFINE keep == IF inPRV THEN Slack ELSE 0
           again(first) == {Estimate(left, inPRV, priced) :
                              left \in {(call.amount + 2 * Word - first.fee - keep) % Word}}
           second(first) == Estimate(LeftToSell(call.amount, first.fee, keep), inPRV, priced)
           cond(first) == call.isMax /\ (inPRV => call.from = PRV) /\ first.fee > 0
           first1 == Estimate(call.amount, inPRV, priced)
<1>1. Sale(inPRV, priced)
        = CHOOSE e \in UNION {IF cond(first) THEN again(first) ELSE {first} : first \in {first1}} : TRUE
  BY Zenon DEF Sale
<1>2. again(first1) = {second(first1)}
  BY DEF LeftToSell
<1> HIDE DEF again, second, cond, first1
<1>3. UNION {IF cond(first) THEN again(first) ELSE {first} : first \in {first1}}
        = IF cond(first1) THEN {second(first1)} ELSE {first1}
  BY <1>2
<1>4. Sale(inPRV, priced) = IF cond(first1) THEN second(first1) ELSE first1
  BY <1>1, <1>3
<1>5. first1 = Told(call.amount, inPRV, priced)
  BY EstimateIs DEF first1
<1>6. second(first1) = Told(LeftToSell(call.amount, first1.fee, keep), inPRV, priced)
  BY EstimateIs DEF second
<1> QED
  BY <1>4, <1>5, <1>6 DEF cond

LEMMA ToldFee ==
  ASSUME Asked, NEW amount \in 0 .. Word - 1, NEW inPRV \in BOOLEAN,
         NEW priced \in SetToSeqs(DefaultPools(market))
  PROVE  Told(amount, inPRV, priced).fee \in Nat
<1>1. market \in MarketType /\ priced \in Seq(PoolType)
  BY PricedOrder
<1>2. amount \in Nat /\ Found(amount).route \in Seq(PoolType)
  BY Constants, FoundFacts
<1>3. TradingFee(amount, call.from, Found(amount).route, inPRV, priced) \in Nat
  BY <1>1, <1>2, TradingFeeType
<1> QED
  BY <1>3, RaisedFacts DEF Told

LEMMA SaleHolds ==
  ASSUME Asked, call.kind = "sell", NEW inPRV \in BOOLEAN,
         NEW priced \in SetToSeqs(DefaultPools(market))
  PROVE  Holds(Sale(inPRV, priced))
<1> DEFINE first == Told(call.amount, inPRV, priced)
           keep == IF inPRV THEN Slack ELSE 0
<1>1. call.amount \in 0 .. Word - 1
  BY CallType, Constants
<1>2. first.fee \in Nat /\ keep \in Nat
  BY <1>1, ToldFee, Constants
<1>3. Sale(inPRV, priced) \in {Told(LeftToSell(call.amount, first.fee, keep), inPRV, priced), first}
  BY SaleIs
<1>4. Holds(first)
  BY <1>1, ToldHolds
<1> HIDE DEF first, keep
<1>5. Holds(Told(LeftToSell(call.amount, first.fee, keep), inPRV, priced))
  BY <1>1, <1>2, LeftIs, ToldHolds
<1> QED
  BY <1>3, <1>4, <1>5

\* The fee of a smaller sale, along a route with no higher rate, is no higher.
LEMMA ToldFeeGrows ==
  ASSUME Asked, NEW a \in 0 .. Word - 1, NEW b \in 0 .. Word - 1, a <= b,
         NEW priced \in SetToSeqs(DefaultPools(market)),
         FeeRate(Found(a).route) <= FeeRate(Found(b).route)
  PROVE  LET inPRV == call.from = PRV
             fee   == IF inPRV THEN Raised(FeeInPRV(b, PRV, Found(b).route, <<>>))
                      ELSE FeeInSellToken(b, Found(b).route)
         IN /\ Told(b, inPRV, priced).fee = fee /\ fee \in Nat
            /\ fee # 0 => Told(a, inPRV, priced).fee <= fee
<1> DEFINE r == Found(a).route
           s == Found(b).route
           x == FeeInSellToken(a, r)
           y == FeeInSellToken(b, s)
<1>1. /\ market \in MarketType /\ priced \in Seq(PoolType)
      /\ a \in Nat /\ b \in Nat /\ r \in Seq(PoolType) /\ s \in Seq(PoolType)
  BY PricedOrder, FoundFacts, Constants
<1>2. x \in Nat /\ y \in Nat /\ (y # 0 => x <= y)
  BY <1>1, FeeInSellTokenType, FeeInSellTokenGrows
<1>3. CASE call.from = PRV
  <2> DEFINE price == PriceOf(PRV, priced)
  <2>1. PriceOf(PRV, <<>>) = price /\ Fair(price)
    BY <1>1, FairPrice DEF PriceOf
  <2>2. FeeInPRV(b, PRV, s, <<>>) = Charged(price, y)
    BY <2>1, FeeInPRVIs
  <2>3. /\ Told(b, TRUE, priced).fee = Raised(Charged(price, y))
        /\ Told(a, TRUE, priced).fee = Raised(Charged(price, x))
    BY <1>3, FeeInPRVIs DEF Told, TradingFee
  <2> HIDE DEF price, x, y
  <2>4. Charged(price, y) \in Nat /\ Charged(price, x) \in Nat
    BY <1>1, <1>2, <2>1, ChargedFacts
  <2>5. Raised(Charged(price, y)) \in Nat
    BY <2>4, RaisedFacts
  <2>6. ASSUME Raised(Charged(price, y)) # 0
        PROVE  Raised(Charged(price, x)) <= Raised(Charged(price, y))
    <3>1. CASE y # 0
      <4>1. Charged(price, x) <= Charged(price, y)
        BY <1>1, <1>2, <2>1, <3>1, ChargedFacts
      <4> QED
        BY <2>4, <4>1, RaisedFacts
    <3>2. CASE y = 0
      <4>1. Charged(price, 0) = 0
        <5>1. 0 * price.prv * (Percent - market.discount) = 0
          BY <1>1, <2>1, Constants DEF Fair, PriceType, MarketType
        <5>2. price.liquid # 0 => price.coins * Percent \in Nat \ {0}
          BY <2>1, Constants DEF Fair, PriceType
        <5> QED
          BY <5>1, <5>2, CeilDivZero DEF Charged
      <4> QED
        BY <2>6, <3>2, <4>1, RaisedFacts
    <3> QED
      BY <3>1, <3>2
  <2> QED
    BY <1>3, <2>2, <2>3, <2>5, <2>6
<1>4. CASE call.from # PRV
  <2>1. Told(b, FALSE, priced).fee = y /\ Told(a, FALSE, priced).fee = x
    BY <1>4 DEF Told, TradingFee
  <2> HIDE DEF x, y
  <2>2. (call.from = PRV) = FALSE
    BY <1>4
  <2> QED
    BY <1>2, <2>1, <2>2 DEF y
<1> QED
  BY <1>3, <1>4

\* Selling all of a balance leaves enough for the fee.
LEMMA SaleLeavesFee ==
  ASSUME Asked, call.kind = "sell", NEW priced \in SetToSeqs(DefaultPools(market))
  PROVE  LeavesFee(Sale(call.from = PRV, priced))
<1> DEFINE inPRV == call.from = PRV
           keep  == IF inPRV THEN Slack ELSE 0
           first == FindGoodTradePath(call.from, call.to, call.amount).route
           fee   == IF inPRV THEN Raised(FeeInPRV(call.amount, PRV, first, <<>>))
                    ELSE FeeInSellToken(call.amount, first)
           e     == Sale(inPRV, priced)
           left  == LeftToSell(call.amount, fee, keep)
<1>0. call.amount \in 0 .. Word - 1 /\ call.amount \in Nat /\ keep \in Nat
  BY CallType, Constants
<1>1. first = Found(call.amount).route
  BY DEF Found
<1>2. Told(call.amount, inPRV, priced).fee = fee /\ fee \in Nat
  BY <1>0, <1>1, FoundFacts, FeeRateType, ToldFeeGrows
<1>3. SUFFICES ASSUME call.isMax, fee # 0, fee + keep <= call.amount, FeeRate(e.route) <= FeeRate(first)
               PROVE  e.sell + e.fee + keep <= call.amount
  BY Zenon DEF LeavesFee
<1>4. e = Told(left, inPRV, priced)
  <2>1. fee > 0
    BY <1>2, <1>3
  <2> HIDE DEF fee, left
  <2> QED
    BY <1>2, <1>3, <2>1, SaleIs DEF left
<1> HIDE DEF fee, first, e
<1>5. left = call.amount - fee - keep /\ left \in 0 .. Word - 1 /\ left <= call.amount
  <2>1. left = call.amount - fee - keep /\ left \in 0 .. Word - 1
    BY <1>0, <1>2, <1>3, LeftIs
  <2> HIDE DEF left
  <2> QED
    BY <1>0, <1>2, <2>1
<1> HIDE DEF left
<1>6. e.sell = left /\ e.route = Found(left).route
  BY <1>4 DEF Told
<1>7. e.fee <= fee /\ e.fee \in Nat
  <2>1. e.fee \in Nat
    BY <1>4, <1>5, ToldFee
  <2>2. FeeRate(Found(left).route) <= FeeRate(Found(call.amount).route)
    BY <1>1, <1>3, <1>6
  <2>3. fee = IF inPRV THEN Raised(FeeInPRV(call.amount, PRV, Found(call.amount).route, <<>>))
              ELSE FeeInSellToken(call.amount, Found(call.amount).route)
    BY <1>1 DEF fee
  <2>4. fee # 0 => Told(left, inPRV, priced).fee <= fee
    BY <1>0, <1>5, <2>2, <2>3, ToldFeeGrows
  <2> QED
    BY <1>3, <1>4, <2>1, <2>4
<1> HIDE DEF keep
<1> QED
  BY <1>0, <1>2, <1>5, <1>6, <1>7

\* The price against PRV is that of each of the pools that may set it.
LEMMA BestPricedIs ==
  ASSUME Asked, call.kind = "sell", call.from # PRV,
         NEW priced \in SetToSeqs(DefaultPools(market)), NEW fee \in Nat
  PROVE  /\ BestPriced = {} => Charged(PriceOf(call.from, priced), fee) = 0
         /\ \A p \in BestPriced :
              Charged(PriceOf(call.from, priced), fee)
                = CeilDiv(fee * p.virtual[SideOf(p, PRV)] * (Percent - market.discount),
                          p.virtual[SideOf(p, call.from)] * Percent)
<1> DEFINE t == call.from
           price == PriceAgainstPRV(t, priced)
           able == {p \in ToSet(offered) : Usable(p, t) /\ Worth(p) # 0}
           of(p) == Priced(p, t)
           keep == Percent - market.discount
<1>1. /\ market \in MarketType /\ priced \in Seq(PoolType)
      /\ ToSet(priced) = ToSet(offered) /\ DOMAIN priced = 1 .. Len(priced)
  BY PricedOrder
<1>2. PriceIs(t, priced, price) /\ PriceOf(t, priced) = price
  BY <1>1, PriceFound DEF PriceOf
<1>3. ASSUME NEW p \in able
      PROVE  /\ of(p) \in PriceType /\ of(p).liquid = Worth(p) /\ Worth(p) # 0
             /\ of(p).prv # 0 /\ of(p).coins # 0
             /\ of(p).coins = p.virtual[SideOf(p, t)] /\ of(p).prv = p.virtual[SideOf(p, PRV)]
             /\ Beaten(of(p), price)
  <2>1. p \in PoolType /\ Usable(p, t) /\ Worth(p) # 0 /\ Joins(p, t, PRV)
    BY OfferedFacts DEF Usable
  <2>2. PICK i \in 1 .. Len(priced) : p = priced[i]
    BY <1>1 DEF ToSet
  <2>3. Beaten(of(p), price)
    BY <1>2, <2>1, <2>2 DEF PriceIs
  <2>4. of(p) \in PriceType
    BY <1>1, <2>1, PricedType
  <2>5. of(p).liquid = Worth(p) /\ of(p).prv # 0 /\ of(p).coins # 0
    BY <1>1, <2>1, WorthNothing
  <2>6. of(p).coins = p.virtual[SideOf(p, t)] /\ of(p).prv = p.virtual[SideOf(p, PRV)]
    BY DEF Priced
  <2> QED
    BY <2>1, <2>3, <2>4, <2>5, <2>6
<1>4. BestPriced = {p \in able : \A r \in able : Beaten(of(r), of(p))}
  <2>1. BestPriced = {p \in able : \A r \in able :
                        \/ Worth(r) < Worth(p)
                        \/ /\ Worth(r) = Worth(p)
                           /\ r.virtual[SideOf(r, t)] * p.virtual[SideOf(p, PRV)]
                                <= p.virtual[SideOf(p, t)] * r.virtual[SideOf(r, PRV)]}
    BY Zenon DEF BestPriced
  <2> HIDE DEF able, of
  <2> QED
    BY <1>3, <2>1 DEF Beaten
<1> HIDE DEF price
<1>5. price \in PriceType /\ Fair(price)
  BY <1>1, <1>2, FairPrice DEF PriceIs
<1>6. ASSUME price.liquid # 0 PROVE \E p \in able : price = of(p)
  <2>1. PICK i \in 1 .. Len(priced) : Usable(priced[i], t) /\ price = of(priced[i])
    BY <1>2, <1>6 DEF PriceIs
  <2>2. priced[i] \in ToSet(offered)
    BY <1>1, <2>1 DEF ToSet
  <2>3. priced[i] \in PoolType /\ Joins(priced[i], t, PRV)
    BY <2>1, <2>2, OfferedFacts DEF Usable
  <2>4. Worth(priced[i]) # 0
    BY <1>1, <1>6, <2>1, <2>3, WorthNothing
  <2> QED
    BY <2>1, <2>2, <2>4
<1> HIDE DEF able, of
<1>7. ASSUME BestPriced = {} PROVE Charged(price, fee) = 0
  <2>1. price.liquid = 0
    <3> SUFFICES ASSUME price.liquid # 0 PROVE FALSE
      OBVIOUS
    <3>1. PICK p \in able : price = of(p)
      BY <1>6
    <3>2. \A r \in able : Beaten(of(r), of(p))
      BY <1>3, <3>1
    <3> QED
      BY <1>4, <1>7, <3>1, <3>2
  <2> QED
    BY <2>1 DEF Charged
<1>8. ASSUME NEW p \in BestPriced
      PROVE  Charged(price, fee) = CeilDiv(fee * of(p).prv * keep, of(p).coins * Percent)
  <2>1. p \in able /\ \A r \in able : Beaten(of(r), of(p))
    BY <1>4
  <2>2. of(p) \in PriceType /\ of(p).liquid # 0 /\ of(p).coins # 0 /\ Beaten(of(p), price)
    BY <1>3, <2>1
  <2>3. price.liquid # 0
    <3>1. of(p).liquid \in Nat /\ price.liquid \in Nat
      BY <1>5, <2>2 DEF PriceType
    <3> QED
      BY <2>2, <3>1 DEF Beaten
  <2>4. PICK r \in able : price = of(r)
    BY <1>6, <2>3
  <2>5. Beaten(price, of(p)) /\ Beaten(of(p), price)
    BY <2>1, <2>2, <2>4
  <2> DEFINE a == of(p).coins
             b == of(p).prv
             c == price.coins
             d == price.prv
  <2>6. /\ a \in Nat \ {0} /\ b \in Nat /\ c \in Nat \ {0} /\ d \in Nat
        /\ of(p).liquid \in Nat /\ price.liquid \in Nat
    BY <1>5, <2>2, <2>3 DEF PriceType, Fair
  <2>7. a * d = c * b
    <3>1. a * d \in Nat /\ c * b \in Nat /\ a * d = d * a /\ c * b = b * c
      BY <2>6
    <3>2. a * d <= c * b /\ c * b <= a * d
      BY <2>5, <2>6 DEF Beaten
    <3> HIDE DEF a, b, c, d
    <3> QED
      BY <3>1, <3>2
  <2>8. keep \in Nat /\ Percent \in Nat \ {0}
    BY <1>1, Constants DEF MarketType
  <2>9. Charged(price, fee) = CeilDiv(fee * d * keep, c * Percent)
    BY <2>3 DEF Charged
  <2> HIDE DEF a, b, c, d, keep
  <2>10. /\ fee * d * keep \in Nat /\ fee * b * keep \in Nat
         /\ c * Percent \in Nat \ {0} /\ a * Percent \in Nat \ {0}
    BY <2>6, <2>8
  <2>11. (fee * d * keep) * (a * Percent) = (fee * b * keep) * (c * Percent)
    <3>1. (fee * d * keep) * (a * Percent) = (fee * keep * Percent) * (a * d)
      BY <2>6, <2>8
    <3>2. (fee * b * keep) * (c * Percent) = (fee * keep * Percent) * (c * b)
      BY <2>6, <2>8
    <3> QED
      BY <2>7, <3>1, <3>2
  <2>12. (fee * d * keep) * (a * Percent) \in Nat
    BY <2>10
  <2> DEFINE u == fee * d * keep
             v == fee * b * keep
             x == c * Percent
             y == a * Percent
  <2>13. /\ u \in Nat /\ v \in Nat /\ x \in Nat \ {0} /\ y \in Nat \ {0}
         /\ u * y <= v * x /\ v * x <= u * y
    BY <2>10, <2>11, <2>12
  <2> HIDE DEF u, v, x, y
  <2>14. CeilDiv(u, x) <= CeilDiv(v, y) /\ CeilDiv(v, y) <= CeilDiv(u, x)
    BY <2>13, CeilDivRatio
  <2>15. CeilDiv(u, x) \in Nat /\ CeilDiv(v, y) \in Nat
    BY <2>13, CeilDivIs
  <2>16. CeilDiv(u, x) = CeilDiv(v, y)
    BY <2>14, <2>15
  <2> QED
    BY <2>9, <2>16 DEF u, v, x, y, a, b
<1>9. \A p \in BestPriced : /\ of(p).coins = p.virtual[SideOf(p, t)]
                            /\ of(p).prv = p.virtual[SideOf(p, PRV)]
  BY <1>3, <1>4
<1> HIDE DEF keep
<1> QED
  BY <1>2, <1>7, <1>8, <1>9 DEF keep

\* What a sale is answered with, in the terms of the request.
Answered(r, priced) ==
  /\ r.kind = "sell" /\ r.prv = Sale(TRUE, priced)
  /\ r.token = IF call.from = PRV THEN r.prv ELSE Sale(FALSE, priced)

RightSaleOf(r) ==
  /\ Holds(r.prv) /\ Holds(r.token) /\ LeavesFee(r.token)
  /\ call.from # PRV =>
       /\ BestPriced = {} => r.prv.fee = 0
       /\ \A p \in BestPriced : r.prv.fee = FeeAt(p, r.prv)

LEMMA SaleAnswered ==
  ASSUME Asked, call.kind = "sell", NEW priced \in SetToSeqs(DefaultPools(market)),
         NEW r, Answered(r, priced)
  PROVE  RightSaleOf(r)
<1>1. Holds(r.prv) /\ Holds(r.token)
  BY SaleHolds DEF Answered
<1>2. LeavesFee(r.token)
  <2>1. r.token = Sale(call.from = PRV, priced)
    <3>1. CASE call.from = PRV
      <4>1. (call.from = PRV) = TRUE
        BY <3>1
      <4> QED
        BY <3>1, <4>1 DEF Answered
    <3>2. CASE call.from # PRV
      <4>1. (call.from = PRV) = FALSE
        BY <3>2
      <4> QED
        BY <3>2, <4>1 DEF Answered
    <3> QED
      BY <3>1, <3>2
  <2> QED
    BY <2>1, SaleLeavesFee
<1>3. ASSUME call.from # PRV
      PROVE  /\ BestPriced = {} => r.prv.fee = 0
             /\ \A p \in BestPriced : r.prv.fee = FeeAt(p, r.prv)
  <2> DEFINE e == r.prv
             fee == FeeInSellToken(e.sell, e.route)
  <2>1. e = Told(call.amount, TRUE, priced)
    BY <1>3, SaleIs DEF Answered
  <2>2. /\ e.sell = call.amount /\ e.route = Found(call.amount).route
        /\ e.fee = Raised(Charged(PriceOf(call.from, priced), fee))
    BY <2>1, FeeInPRVIs DEF Told, TradingFee
  <2>3. fee \in Nat
    BY <2>2, CallType, Constants, FoundFacts, FeeInSellTokenType
  <2> HIDE DEF fee, e
  <2>4. BestPriced = {} => e.fee = 0
    BY <1>3, <2>2, <2>3, BestPricedIs, RaisedFacts
  <2>5. ASSUME NEW p \in BestPriced PROVE e.fee = FeeAt(p, e)
    <3>1. Charged(PriceOf(call.from, priced), fee)
            = CeilDiv(fee * p.virtual[SideOf(p, PRV)] * (Percent - market.discount),
                      p.virtual[SideOf(p, call.from)] * Percent)
      BY <1>3, <2>3, BestPricedIs
    <3> QED
      BY <2>2, <3>1 DEF FeeAt, fee
  <2> QED
    BY <2>4, <2>5 DEF e
<1> QED
  BY <1>1, <1>2, <1>3 DEF RightSaleOf

-----------------------------------------------------------------------------
(* The search for a purchase.                                              *)
(*                                                                         *)
(* What it has found and what it has not looked at yet, of a search s that *)
(* has taken as many turns as n is doublings of 1.                         *)

SearchType ==
  [left : 0 .. Word - 1, right : 0 .. Word - 1, sellAmount : 0 .. Word - 1, path : Seq(PoolType)]

\* What is left to look at is halved with every turn, and left does not wrap.
Halving(s, n) ==
  ~Endless =>
    /\ s.left >= 1 /\ n <= 2 * Word
    /\ s.sellAmount # 0 => s.right < Word - 1
    /\ s.left <= s.right => (s.right - s.left + 1) * n <= Word - 1

\* What is looked for is not behind: as long as nothing has been found, right is not
\* below the sales that are not too large, and the middle is never one too small;
\* and then right is just below what has been found.
LeastSell == Min(Enough)
LastSmall == Max({0} \union TooSmall)
FirstLarge == Min({Word} \union TooLarge)
InReach(s) ==
  Searchable /\ Enough # {} =>
    /\ s.left \in 1 .. LeastSell
    /\ s.sellAmount = 0 => s.right >= FirstLarge - 1 /\ (s.left = 1 \/ s.left > LastSmall)
    /\ s.sellAmount # 0 => s.sellAmount \in Enough /\ s.right = s.sellAmount - 1

Purchase(s, n) ==
  /\ s \in SearchType /\ n \in Nat \ {0}
  /\ s.sellAmount # 0 => /\ Found(s.sellAmount).receive >= call.amount
                         /\ s.path = Found(s.sellAmount).route
  /\ Halving(s, n)
  /\ InReach(s)

\* One turn of the search.
Middle(s) == s.left + (s.right - s.left) \div 2
Turned(s) ==
  LET mid == Middle(s)
      found == Found(mid)
  IN IF found.receive >= call.amount
     THEN [s EXCEPT !.sellAmount = mid, !.path = found.route, !.right = (mid + Word - 1) % Word]
     ELSE IF found.receive = 0 /\ s.sellAmount = 0
     THEN [s EXCEPT !.right = (mid + Word - 1) % Word]
     ELSE [s EXCEPT !.left = (mid + 1) % Word]
Doubled(n) == IF n > 2 * Word THEN n ELSE 2 * n

LEMMA MiddleFacts ==
  ASSUME NEW l \in Nat, NEW r \in Nat, l <= r
  PROVE  LET mid == l + (r - l) \div 2 IN
         /\ mid \in Nat /\ l <= mid /\ mid <= r
         /\ 2 * (mid - l) <= r - l /\ 2 * (r - mid) <= r - l + 1
OBVIOUS

LEMMA BelowAbove ==
  ASSUME NEW a \in 0 .. Word - 1
  PROVE  /\ (a + Word - 1) % Word \in 0 .. Word - 1 /\ (a + 1) % Word \in 0 .. Word - 1
         /\ a # 0 => (a + Word - 1) % Word = a - 1
         /\ a # Word - 1 => (a + 1) % Word = a + 1
<1>0. Word \in Nat \ {0} /\ a \in Nat
  BY Constants
<1>1. (a + Word - 1) % Word \in 0 .. Word - 1 /\ (a + 1) % Word \in 0 .. Word - 1
  BY <1>0, a + Word - 1 \in Int, a + 1 \in Int, RemainderType
<1>2. ASSUME a # 0 PROVE (a + Word - 1) % Word = a - 1
  <2>1. a - 1 \in 0 .. Word - 1 /\ a + Word - 1 = (a - 1) + 1 * Word
    BY <1>0, <1>2
  <2>2. ((a - 1) + 1 * Word) % Word = a - 1
    BY <1>0, <2>1, 1 \in Nat, Remainder
  <2> QED
    BY <2>1, <2>2
<1>3. ASSUME a # Word - 1 PROVE (a + 1) % Word = a + 1
  <2>1. a + 1 \in 0 .. Word - 1 /\ a + 1 = (a + 1) + 0 * Word
    BY <1>0, <1>3
  <2>2. ((a + 1) + 0 * Word) % Word = a + 1
    BY <1>0, <2>1, 0 \in Nat, Remainder
  <2> QED
    BY <2>1, <2>2
<1> QED
  BY <1>1, <1>2, <1>3

\* The turns of a search: what each of them does to the record.
LEMMA TurnFacts ==
  ASSUME Asked, call.kind = "buy", NEW s \in SearchType, s.left <= s.right
  PROVE  LET mid == Middle(s)
             got == Found(mid).receive
             t   == Turned(s)
         IN /\ mid \in 0 .. Word - 1 /\ s.left <= mid /\ mid <= s.right
            /\ 2 * (mid - s.left) <= s.right - s.left /\ 2 * (s.right - mid) <= s.right - s.left + 1
            /\ got \in 0 .. Word - 1
            /\ t \in SearchType
            /\ \/ /\ got >= call.amount
                  /\ t.sellAmount = mid /\ t.left = s.left /\ t.right = (mid + Word - 1) % Word
                  /\ t.path = Found(mid).route
               \/ /\ got = 0 /\ s.sellAmount = 0
                  /\ t.sellAmount = 0 /\ t.left = s.left /\ t.right = (mid + Word - 1) % Word
               \/ /\ got < call.amount /\ (got # 0 \/ s.sellAmount # 0)
                  /\ t.sellAmount = s.sellAmount /\ t.left = (mid + 1) % Word /\ t.right = s.right
                  /\ t.path = s.path
<1> DEFINE mid == Middle(s)
           got == Found(mid).receive
           t   == Turned(s)
           down == (mid + Word - 1) % Word
           onward == (mid + 1) % Word
<1>1. /\ s.left \in 0 .. Word - 1 /\ s.right \in 0 .. Word - 1 /\ s.sellAmount \in 0 .. Word - 1
      /\ Word \in Nat \ {0} /\ call.amount \in 1 .. Word - 1
  BY Constants, CallType DEF SearchType
<1>2. /\ mid \in Nat /\ s.left <= mid /\ mid <= s.right
      /\ 2 * (mid - s.left) <= s.right - s.left /\ 2 * (s.right - mid) <= s.right - s.left + 1
  BY <1>1, MiddleFacts DEF Middle
<1> HIDE DEF mid
<1>3. mid \in 0 .. Word - 1
  BY <1>1, <1>2
<1>4. got \in 0 .. Word - 1 /\ Found(mid).route \in Seq(PoolType)
  BY <1>3, FoundFacts
<1>5. down \in 0 .. Word - 1 /\ onward \in 0 .. Word - 1
  BY <1>3, BelowAbove
<1>6. t = IF got >= call.amount
          THEN [s EXCEPT !.sellAmount = mid, !.path = Found(mid).route, !.right = down]
          ELSE IF got = 0 /\ s.sellAmount = 0 THEN [s EXCEPT !.right = down]
          ELSE [s EXCEPT !.left = onward]
  BY DEF Turned, mid
<1> HIDE DEF got, t, down, onward
<1>7. CASE got >= call.amount
  <2>1. t = [s EXCEPT !.sellAmount = mid, !.path = Found(mid).route, !.right = down]
    BY <1>6, <1>7
  <2>2. /\ t \in SearchType /\ t.sellAmount = mid /\ t.left = s.left /\ t.right = down
        /\ t.path = Found(mid).route
    BY <1>3, <1>4, <1>5, <2>1 DEF SearchType
  <2> QED
    BY <1>2, <1>3, <1>4, <1>7, <2>2 DEF mid, got, t, down, onward
<1>8. CASE got = 0 /\ s.sellAmount = 0
  <2>1. t = [s EXCEPT !.right = down]
    BY <1>1, <1>4, <1>6, <1>8
  <2>2. t \in SearchType /\ t.sellAmount = 0 /\ t.left = s.left /\ t.right = down
    BY <1>5, <1>8, <2>1 DEF SearchType
  <2> QED
    BY <1>2, <1>3, <1>4, <1>8, <2>2 DEF mid, got, t, down, onward
<1>9. CASE got < call.amount /\ (got # 0 \/ s.sellAmount # 0)
  <2>1. t = [s EXCEPT !.left = onward]
    BY <1>1, <1>4, <1>6, <1>9
  <2>2. /\ t \in SearchType /\ t.sellAmount = s.sellAmount /\ t.left = onward /\ t.right = s.right
        /\ t.path = s.path
    BY <1>5, <2>1 DEF SearchType
  <2> QED
    BY <1>2, <1>3, <1>4, <1>9, <2>2 DEF mid, got, t, down, onward
<1> QED
  BY <1>1, <1>4, <1>7, <1>8, <1>9

LEMMA HalvingTurn ==
  ASSUME Asked, call.kind = "buy", NEW s, NEW n, Purchase(s, n), s.left <= s.right
  PROVE  Halving(Turned(s), Doubled(n))
<1> DEFINE mid == Middle(s)
           got == Found(mid).receive
           t   == Turned(s)
<1>1. /\ s \in SearchType /\ n \in Nat \ {0}
      /\ s.left \in 0 .. Word - 1 /\ s.right \in 0 .. Word - 1 /\ s.sellAmount \in 0 .. Word - 1
      /\ Word \in Nat \ {0} /\ call.amount \in 1 .. Word - 1
  BY Constants, CallType DEF SearchType, Purchase
<1>2. /\ mid \in 0 .. Word - 1 /\ s.left <= mid /\ mid <= s.right
      /\ 2 * (mid - s.left) <= s.right - s.left /\ 2 * (s.right - mid) <= s.right - s.left + 1
      /\ got \in 0 .. Word - 1
      /\ t \in SearchType
      /\ \/ /\ got >= call.amount
            /\ t.sellAmount = mid /\ t.left = s.left /\ t.right = (mid + Word - 1) % Word
         \/ /\ got = 0 /\ s.sellAmount = 0
            /\ t.sellAmount = 0 /\ t.left = s.left /\ t.right = (mid + Word - 1) % Word
         \/ /\ got < call.amount /\ (got # 0 \/ s.sellAmount # 0)
            /\ t.sellAmount = s.sellAmount /\ t.left = (mid + 1) % Word /\ t.right = s.right
  BY <1>1, TurnFacts
<1>3. SUFFICES ASSUME ~Endless
               PROVE  /\ t.left >= 1 /\ Doubled(n) <= 2 * Word
                      /\ t.sellAmount # 0 => t.right < Word - 1
                      /\ t.left <= t.right => (t.right - t.left + 1) * Doubled(n) <= Word - 1
  BY Zenon DEF Halving
<1>4. /\ s.left >= 1
      /\ s.sellAmount # 0 => s.right < Word - 1
      /\ (s.right - s.left + 1) * n <= Word - 1
  BY <1>1, <1>3 DEF Purchase, Halving
<1>5. mid = Word - 1 => ~(got \in 1 .. call.amount - 1)
  BY <1>3 DEF Endless, Found
<1> HIDE DEF mid, got, t
<1> DEFINE m == s.right - s.left + 1
           k == t.right - t.left + 1
<1>6. m \in Nat \ {0}
  BY <1>1, <1>2
<1>7. n <= Word - 1 /\ Doubled(n) = 2 * n
  <2>1. 1 * n <= m * n
    BY <1>1, <1>6, Product
  <2>2. n <= Word - 1
    <3>1. m * n \in Nat
      BY <1>1, <1>6
    <3> QED
      BY <1>1, <1>4, <2>1, <3>1
  <2> QED
    BY <1>1, <2>2 DEF Doubled
<1>8. /\ t.left \in Nat /\ t.right \in Nat /\ t.sellAmount \in Nat
      /\ t.left >= 1 /\ (t.sellAmount # 0 => t.right < Word - 1) /\ 2 * k <= m
  <2>1. mid # 0 /\ (mid + Word - 1) % Word = mid - 1
    BY <1>1, <1>2, <1>4, BelowAbove
  <2>2. CASE t.left = s.left /\ t.right = (mid + Word - 1) % Word
    <3>1. t.right = mid - 1 /\ mid \in Nat /\ mid >= 1 /\ t.sellAmount \in 0 .. Word - 1
      BY <1>1, <1>2, <2>1, <2>2 DEF SearchType
    <3>2. 2 * k <= m
      BY <1>1, <1>2, <2>2, <3>1
    <3>3. t.right < Word - 1
      BY <1>1, <1>2, <3>1
    <3> QED
      BY <1>1, <1>4, <2>2, <3>1, <3>2, <3>3
  <2>3. CASE /\ got < call.amount /\ (got # 0 \/ s.sellAmount # 0)
             /\ t.sellAmount = s.sellAmount /\ t.left = (mid + 1) % Word /\ t.right = s.right
    <3>1. mid # Word - 1
      <4>1. CASE got # 0
        BY <1>1, <1>2, <1>5, <2>3, <4>1
      <4>2. CASE s.sellAmount # 0
        BY <1>1, <1>2, <1>4, <4>2
      <4> QED
        BY <2>3, <4>1, <4>2
    <3>2. t.left = mid + 1
      BY <1>2, <2>3, <3>1, BelowAbove
    <3> QED
      BY <1>1, <1>2, <1>4, <2>3, <3>2
  <2> QED
    BY <1>2, <2>2, <2>3
<1>9. ASSUME t.left <= t.right PROVE k * (2 * n) <= Word - 1
  <2>1. k \in Nat /\ 2 * k \in Nat
    BY <1>8, <1>9
  <2> HIDE DEF k, m
  <2>2. (2 * k) * n <= m * n
    BY <1>1, <1>6, <1>8, <2>1, Product
  <2>3. k * (2 * n) = (2 * k) * n /\ (2 * k) * n \in Nat /\ m * n \in Nat
    BY <1>1, <1>6, <2>1
  <2> QED
    BY <1>1, <1>4, <2>2, <2>3 DEF m
<1> QED
  BY <1>1, <1>7, <1>8, <1>9

\* The sales that a purchase can be told from, in the order of their amounts.
LEMMA Zones ==
  ASSUME Asked, call.kind = "buy", Searchable, Enough # {}
  PROVE  /\ LeastSell \in Enough /\ LeastSell \in 1 .. Word - 1
         /\ \A a \in Enough : LeastSell <= a
         /\ LastSmall \in Nat /\ \A a \in TooSmall : a <= LastSmall
         /\ \A a \in Little : LastSmall < a /\ a < LeastSell
         /\ FirstLarge \in Nat /\ LeastSell < FirstLarge /\ FirstLarge <= Word
         /\ \A a \in TooLarge : FirstLarge <= a
         /\ 2 * LastSmall + 1 < FirstLarge
<1>0. Word \in Nat \ {0} /\ call.amount \in 1 .. Word - 1
  BY Constants, CallType
<1>1. /\ Enough \subseteq 1 .. Word - 1 /\ Little \subseteq 1 .. Word - 1
      /\ TooSmall \subseteq 1 .. Word - 1 /\ TooLarge \subseteq 1 .. Word - 1
  BY DEF Enough, Little, TooSmall, TooLarge
<1>2. LeastSell \in Enough /\ \A a \in Enough : LeastSell <= a
  <2>1. Enough \subseteq Nat
    BY <1>1
  <2> QED
    BY <2>1, MinOf DEF LeastSell
<1>3. /\ LastSmall \in {0} \union TooSmall
      /\ \A a \in TooSmall : a <= LastSmall
  <2>1. {0} \union TooSmall \subseteq 0 .. Word /\ Word \in Nat /\ {0} \union TooSmall # {}
    BY <1>0, <1>1
  <2> QED
    BY <2>1, MaxOf DEF LastSmall
<1>4. /\ FirstLarge \in {Word} \union TooLarge /\ FirstLarge <= Word
      /\ \A a \in TooLarge : FirstLarge <= a
  <2>1. {Word} \union TooLarge \subseteq Nat
    BY <1>0, <1>1
  <2>2. {Word} \union TooLarge # {}
    OBVIOUS
  <2> QED
    BY <2>1, <2>2, MinOf DEF FirstLarge
<1>5. \A a \in Little : LastSmall < a /\ a < LeastSell
  <2> SUFFICES ASSUME NEW a \in Little PROVE LastSmall < a /\ a < LeastSell
    OBVIOUS
  <2>1. a < LeastSell
    BY <1>2 DEF Searchable
  <2>2. \A b \in TooSmall : b < a
    BY DEF Searchable
  <2> QED
    BY <1>1, <1>3, <2>1, <2>2
<1>6. LeastSell < FirstLarge
  <2>1. CASE FirstLarge = Word
    BY <1>0, <1>1, <1>2, <2>1
  <2>2. CASE FirstLarge \in TooLarge
    <3>1. /\ FirstLarge \in 1 .. Word - 1 /\ FirstLarge \notin Enough
          /\ FirstLarge \notin Little /\ FirstLarge \notin TooSmall
      BY <2>2 DEF TooLarge
    <3>2. Receipt[FirstLarge] = 0
      <4>1. Receipt[FirstLarge] \in 0 .. Word - 1
        BY <1>0, <3>1, ReceiptFacts
      <4>2. ~(Receipt[FirstLarge] >= call.amount) /\ Receipt[FirstLarge] \notin 1 .. call.amount - 1
        BY <3>1 DEF Enough, Little
      <4> QED
        BY <1>0, <4>1, <4>2
    <3>3. ~(FirstLarge < LeastSell)
      BY <1>2, <3>1, <3>2 DEF TooSmall
    <3>4. FirstLarge # LeastSell
      BY <1>2, <3>1
    <3> QED
      BY <1>1, <1>2, <3>1, <3>3, <3>4
  <2> QED
    BY <1>4, <2>1, <2>2
<1>7. 2 * LastSmall + 1 < FirstLarge
  BY DEF Searchable, LastSmall, FirstLarge
<1> QED
  BY <1>0, <1>1, <1>2, <1>3, <1>4, <1>5, <1>6, <1>7

\* Where the middle of a search is: a sale that buys something but too little, or
\* nothing, is below the least that buys enough or above all that are not too large.
LEMMA SaleBelowOrAbove ==
  ASSUME Asked, call.kind = "buy", Searchable, Enough # {},
         NEW a \in 1 .. Word - 1, ~(Receipt[a] >= call.amount)
  PROVE  \/ a < LeastSell
         \/ Receipt[a] = 0 /\ FirstLarge <= a
<1>1. Receipt[a] \in 0 .. Word - 1 /\ call.amount \in 1 .. Word - 1 /\ Word \in Nat \ {0}
  BY Constants, CallType, ReceiptFacts
<1>2. LeastSell \in Enough /\ LeastSell \in Nat
  BY Zones
<1>3. CASE Receipt[a] # 0
  <2>1. Receipt[a] \in 1 .. call.amount - 1
    BY <1>1, <1>3
  <2>2. a \in Little
    BY <2>1 DEF Little
  <2> QED
    BY <2>2, Zones
<1>4. CASE Receipt[a] = 0 /\ a \in TooSmall
  <2>1. a < LeastSell
    BY <1>2, <1>4 DEF Searchable
  <2> QED
    BY <2>1
<1>5. CASE Receipt[a] = 0 /\ a \notin TooSmall
  <2>1. a \notin Enough /\ a \notin Little
    BY <1>1, <1>5 DEF Enough, Little
  <2>2. a \in TooLarge
    BY <1>5, <2>1 DEF TooLarge
  <2> QED
    BY <1>5, <2>2, Zones
<1> QED
  BY <1>3, <1>4, <1>5

LEMMA InReachTurn ==
  ASSUME Asked, call.kind = "buy", NEW s, NEW n, Purchase(s, n), s.left <= s.right
  PROVE  InReach(Turned(s))
<1> DEFINE mid == Middle(s)
           got == Found(mid).receive
           t   == Turned(s)
<1>1. /\ s \in SearchType /\ n \in Nat \ {0}
      /\ s.left \in 0 .. Word - 1 /\ s.right \in 0 .. Word - 1 /\ s.sellAmount \in 0 .. Word - 1
      /\ Word \in Nat \ {0} /\ call.amount \in 1 .. Word - 1
  BY Constants, CallType DEF SearchType, Purchase
<1>2. /\ mid \in 0 .. Word - 1 /\ s.left <= mid /\ mid <= s.right
      /\ 2 * (mid - s.left) <= s.right - s.left /\ 2 * (s.right - mid) <= s.right - s.left + 1
      /\ got \in 0 .. Word - 1
      /\ t \in SearchType
      /\ \/ /\ got >= call.amount
            /\ t.sellAmount = mid /\ t.left = s.left /\ t.right = (mid + Word - 1) % Word
         \/ /\ got = 0 /\ s.sellAmount = 0
            /\ t.sellAmount = 0 /\ t.left = s.left /\ t.right = (mid + Word - 1) % Word
         \/ /\ got < call.amount /\ (got # 0 \/ s.sellAmount # 0)
            /\ t.sellAmount = s.sellAmount /\ t.left = (mid + 1) % Word /\ t.right = s.right
  BY <1>1, TurnFacts
<1>3. SUFFICES ASSUME Searchable, Enough # {}
               PROVE  /\ t.left \in 1 .. LeastSell
                      /\ t.sellAmount = 0 =>
                           t.right >= FirstLarge - 1 /\ (t.left = 1 \/ t.left > LastSmall)
                      /\ t.sellAmount # 0 => t.sellAmount \in Enough /\ t.right = t.sellAmount - 1
  BY Zenon DEF InReach
<1>4. /\ s.left \in 1 .. LeastSell
      /\ s.sellAmount = 0 => s.right >= FirstLarge - 1 /\ (s.left = 1 \/ s.left > LastSmall)
      /\ s.sellAmount # 0 => s.sellAmount \in Enough /\ s.right = s.sellAmount - 1
  BY <1>3 DEF Purchase, InReach
<1>5. got = Receipt[mid]
  BY <1>2, <1>3, FoundFacts DEF Searchable
<1> HIDE DEF mid, got, t
<1>6. mid \in 1 .. Word - 1 /\ mid # 0 /\ (mid + Word - 1) % Word = mid - 1
  <2>1. mid \in 1 .. Word - 1 /\ mid # 0
    BY <1>1, <1>2, <1>4
  <2> QED
    BY <1>2, <2>1, BelowAbove
<1>7. /\ LeastSell \in Enough /\ LeastSell \in 1 .. Word - 1 /\ \A a \in Enough : LeastSell <= a
      /\ LastSmall \in Nat /\ FirstLarge \in Nat /\ 2 * LastSmall + 1 < FirstLarge
      /\ \A a \in TooSmall : a <= LastSmall
      /\ \A a \in Little : LastSmall < a /\ a < LeastSell
      /\ LeastSell < FirstLarge
  BY <1>3, Zones
<1>8. CASE /\ got >= call.amount
           /\ t.sellAmount = mid /\ t.left = s.left /\ t.right = (mid + Word - 1) % Word
  <2>1. mid \in Enough
    BY <1>5, <1>6, <1>8 DEF Enough
  <2> QED
    BY <1>4, <1>6, <1>8, <2>1
<1>9. CASE /\ got = 0 /\ s.sellAmount = 0
           /\ t.sellAmount = 0 /\ t.left = s.left /\ t.right = (mid + Word - 1) % Word
  <2>1. mid > LastSmall
    <3>1. CASE s.left > LastSmall
      BY <1>1, <1>2, <1>7, <3>1
    <3>2. CASE s.left = 1
      BY <1>1, <1>2, <1>4, <1>7, <1>9, <3>2
    <3> QED
      BY <1>4, <1>9, <3>1, <3>2
  <2>2. mid >= FirstLarge
    <3>1. ASSUME mid \in TooSmall PROVE FALSE
      <4>1. mid <= LastSmall
        BY <1>7, <3>1
      <4> QED
        BY <1>6, <1>7, <2>1, <4>1
    <3>2. mid \notin Enough /\ mid \notin Little
      <4>1. Receipt[mid] = 0 /\ ~(0 >= call.amount) /\ 0 \notin 1 .. call.amount - 1
        BY <1>1, <1>5, <1>9
      <4> QED
        BY <4>1 DEF Enough, Little
    <3>3. mid \in TooLarge
      BY <1>6, <3>1, <3>2 DEF TooLarge
    <3> QED
      BY <1>3, <1>6, <1>7, <3>3, Zones
  <2> QED
    BY <1>4, <1>6, <1>7, <1>9, <2>2
<1>10. CASE /\ got < call.amount /\ (got # 0 \/ s.sellAmount # 0)
            /\ t.sellAmount = s.sellAmount /\ t.left = (mid + 1) % Word /\ t.right = s.right
  <2>1. ~(Receipt[mid] >= call.amount)
    BY <1>1, <1>2, <1>5, <1>10
  <2>2. mid < LeastSell
    <3>1. mid < LeastSell \/ (got = 0 /\ FirstLarge <= mid)
      BY <1>3, <1>5, <1>6, <2>1, SaleBelowOrAbove
    <3>2. ASSUME got = 0, FirstLarge <= mid PROVE FALSE
      <4>1. s.sellAmount \in Enough /\ s.right = s.sellAmount - 1
        BY <1>4, <1>10, <3>2
      <4>2. mid < s.sellAmount
        BY <1>1, <1>2, <1>6, <4>1
      <4>3. mid \in TooSmall
        BY <1>5, <1>6, <3>2, <4>1, <4>2 DEF TooSmall
      <4>4. mid <= LastSmall
        BY <1>7, <4>3
      <4> QED
        BY <1>6, <1>7, <3>2, <4>4
    <3> QED
      BY <3>1, <3>2
  <2>3. mid # Word - 1 /\ t.left = mid + 1
    <3>1. mid # Word - 1
      BY <1>1, <1>6, <1>7, <2>2
    <3> QED
      BY <1>2, <1>10, <3>1, BelowAbove
  <2>4. t.left \in 1 .. LeastSell
    BY <1>6, <1>7, <2>2, <2>3
  <2>5. ASSUME s.sellAmount = 0 PROVE t.left > LastSmall
    <3>1. got \in 1 .. call.amount - 1
      BY <1>1, <1>2, <1>10, <2>5
    <3>2. mid \in Little
      BY <1>5, <1>6, <3>1 DEF Little
    <3> QED
      BY <1>6, <1>7, <2>3, <3>2
  <2> QED
    BY <1>4, <1>10, <2>4, <2>5
<1> QED
  BY <1>2, <1>8, <1>9, <1>10

LEMMA PurchaseTurn ==
  ASSUME Asked, call.kind = "buy", NEW s, NEW n, Purchase(s, n), s.left <= s.right
  PROVE  Purchase(Turned(s), Doubled(n))
<1>1. s \in SearchType /\ n \in Nat \ {0} /\ Word \in Nat
  BY Constants DEF Purchase
<1>2. Turned(s) \in SearchType
  BY <1>1, TurnFacts
<1>3. Turned(s).sellAmount # 0 =>
        /\ Found(Turned(s).sellAmount).receive >= call.amount
        /\ Turned(s).path = Found(Turned(s).sellAmount).route
  <2>1. \/ /\ Turned(s).sellAmount = Middle(s) /\ Found(Middle(s)).receive >= call.amount
           /\ Turned(s).path = Found(Middle(s)).route
        \/ Turned(s).sellAmount = 0
        \/ Turned(s).sellAmount = s.sellAmount /\ Turned(s).path = s.path
    BY <1>1, TurnFacts
  <2> QED
    BY <2>1 DEF Purchase
<1>4. Doubled(n) \in Nat \ {0}
  BY <1>1 DEF Doubled
<1> QED
  BY <1>2, <1>3, <1>4, HalvingTurn, InReachTurn DEF Purchase

LEMMA PurchaseStarts ==
  ASSUME Asked, call.kind = "buy"
  PROVE  Purchase(FirstSearch(call), 1)
<1> DEFINE s == FirstSearch(call)
<1>1. Word \in Nat \ {0} /\ call.amount \in 1 .. Word - 1
  BY Constants, CallType
<1>2. s = [left |-> 1, right |-> Word - 1, sellAmount |-> 0, path |-> <<>>]
  BY DEF FirstSearch
<1> HIDE DEF s
<1>3. s.left = 1 /\ s.right = Word - 1 /\ s.sellAmount = 0 /\ s \in SearchType
  <2>1. <<>> \in Seq(PoolType) /\ Word - 1 \in 0 .. Word - 1 /\ 1 \in 0 .. Word - 1
    BY <1>1
  <2> QED
    BY <1>2, <2>1 DEF SearchType
<1>4. Halving(s, 1)
  BY <1>1, <1>3 DEF Halving
<1>5. InReach(s)
  <2> SUFFICES ASSUME Searchable, Enough # {}
               PROVE  s.left \in 1 .. LeastSell /\ s.right >= FirstLarge - 1
    BY <1>3 DEF InReach
  <2> QED
    BY <1>1, <1>3, Zones
<1> QED
  BY <1>3, <1>4, <1>5 DEF Purchase, s

\* What a purchase is answered with.
RightPurchaseOf(r) ==
  /\ r.sell # 0 => /\ Last(r.tokens) = call.to
                   /\ Pays(market, r.tokens, r.route, r.sell) >= call.amount
  /\ Searchable => r.sell = IF Enough = {} THEN 0 ELSE LeastSell

LEMMA PurchaseAnswered ==
  ASSUME Asked, call.kind = "buy", NEW s, NEW n, Purchase(s, n), s.left > s.right,
         NEW r, r.sell = s.sellAmount, r.route = s.path, r.tokens = TokenRoute(call.from, s.path)
  PROVE  RightPurchaseOf(r)
<1> DEFINE x == s.sellAmount
<1>1. /\ s.left \in 0 .. Word - 1 /\ s.right \in 0 .. Word - 1 /\ x \in 0 .. Word - 1
      /\ Word \in Nat \ {0} /\ call.amount \in 1 .. Word - 1
  BY Constants, CallType DEF SearchType, Purchase
<1>2. ASSUME x # 0 PROVE Receipt[x] >= call.amount
  <2>1. Found(x).receive >= call.amount
    BY <1>2 DEF Purchase
  <2>2. Found(x).receive \in 0 .. Word - 1 /\ Receipt[x] \in 0 .. Word - 1 /\ Found(x).receive <= Receipt[x]
    BY <1>1, FoundFacts
  <2> QED
    BY <1>1, <2>1, <2>2
<1>3. ASSUME Searchable PROVE x = IF Enough = {} THEN 0 ELSE LeastSell
  <2>1. CASE Enough = {}
    <3>1. ASSUME x # 0 PROVE FALSE
      BY <1>1, <1>2, <2>1, <3>1 DEF Enough
    <3> QED
      BY <2>1, <3>1
  <2>2. CASE Enough # {}
    <3>1. /\ s.left \in 1 .. LeastSell
          /\ x = 0 => s.right >= FirstLarge - 1
          /\ x # 0 => x \in Enough /\ s.right = x - 1
      BY <1>3, <2>2 DEF Purchase, InReach
    <3>2. /\ LeastSell \in Nat /\ FirstLarge \in Nat /\ LeastSell < FirstLarge
          /\ \A a \in Enough : LeastSell <= a
      BY <1>3, <2>2, Zones
    <3> HIDE DEF x
    <3>3. x # 0
      BY <1>1, <3>1, <3>2
    <3>4. x = LeastSell
      BY <1>1, <3>1, <3>2, <3>3
    <3> QED
      BY <2>2, <3>4
  <2> QED
    BY <2>1, <2>2
<1>4. ASSUME x # 0
      PROVE  Last(r.tokens) = call.to /\ Pays(market, r.tokens, r.route, x) >= call.amount
  <2>1. Found(x).receive >= call.amount /\ r.route = Found(x).route
    BY <1>4 DEF Purchase
  <2>2. Found(x).receive # 0
    BY <1>1, <2>1
  <2> HIDE DEF x
  <2> QED
    BY <1>1, <2>1, <2>2, FoundLeads DEF x
<1> QED
  BY <1>3, <1>4 DEF RightPurchaseOf

-----------------------------------------------------------------------------
(* A rate. *)

\* What getRate has kept is what a sale buys, and the next one is ten times as large,
\* or one that large has bought nothing.
Rating(s) ==
  /\ s \in [a : 0 .. Word - 1, a1 : 0 .. Word - 1]
  /\ s.a1 # 0 => \E b \in 0 .. Word - 1 : LET more == (b * Ten) % Word IN
       /\ Found(b).receive = s.a1
       /\ s.a = more \/ Found(more).receive = 0

RightRateOf(receive, of) ==
  receive # 0 =>
    \E a \in 0 .. Word - 1 : LET more == (a * Ten) % Word IN
      /\ \/ of \in {a, more \div Ten}
         \/ FindGoodTradePath(call.from, call.to, more).receive = 0
      /\ receive <= Receipt[a]
      /\ Regular => receive = Receipt[a]

LEMMA RateTurn ==
  ASSUME Asked, call.kind = "rate", NEW s, Rating(s)
  PROVE  LET got  == Found(s.a).receive
             more == (s.a * Ten) % Word
         IN /\ got = 0 => Rating([s EXCEPT !.a = more])
            /\ Rating([a |-> more, a1 |-> got])
            /\ RightRateOf(got, s.a)
            /\ RightRateOf(s.a1, s.a \div Ten)
<1> DEFINE got == Found(s.a).receive
           more(b) == (b * Ten) % Word
           m == more(s.a)
<1>1. s.a \in 0 .. Word - 1 /\ s.a1 \in 0 .. Word - 1 /\ s \in [a : 0 .. Word - 1, a1 : 0 .. Word - 1]
  BY DEF Rating
<1>2. got \in 0 .. Word - 1 /\ got <= Receipt[s.a] /\ (Regular => got = Receipt[s.a])
  BY <1>1, FoundFacts
<1>3. m \in 0 .. Word - 1
  <2>1. s.a * Ten \in Int /\ Word \in Nat \ {0}
    BY <1>1, Constants
  <2> QED
    BY <2>1, RemainderType
<1>4. s.a1 # 0 => \E b \in 0 .. Word - 1 :
        Found(b).receive = s.a1 /\ (s.a = more(b) \/ Found(more(b)).receive = 0)
  BY DEF Rating
<1>5. \A x : Rating(x) <=> /\ x \in [a : 0 .. Word - 1, a1 : 0 .. Word - 1]
                           /\ x.a1 # 0 => \E b \in 0 .. Word - 1 :
                                Found(b).receive = x.a1 /\ (x.a = more(b) \/ Found(more(b)).receive = 0)
  BY DEF Rating
<1>6. \A receive, of : RightRateOf(receive, of) <=>
        (receive # 0 => \E b \in 0 .. Word - 1 :
           /\ of \in {b, more(b) \div Ten} \/ Found(more(b)).receive = 0
           /\ receive <= Receipt[b] /\ (Regular => receive = Receipt[b]))
  BY Zenon DEF RightRateOf, Found
<1>7. m = more(s.a)
  OBVIOUS
<1> HIDE DEF got, m, more
<1>8. ASSUME got = 0 PROVE Rating([s EXCEPT !.a = m])
  <2> DEFINE x == [s EXCEPT !.a = m]
  <2>1. x.a = m /\ x.a1 = s.a1 /\ x \in [a : 0 .. Word - 1, a1 : 0 .. Word - 1]
    BY <1>1, <1>3
  <2> HIDE DEF x
  <2>2. ASSUME x.a1 # 0
        PROVE  \E b \in 0 .. Word - 1 :
                 Found(b).receive = x.a1 /\ (x.a = more(b) \/ Found(more(b)).receive = 0)
    <3>1. PICK b \in 0 .. Word - 1 :
            Found(b).receive = s.a1 /\ (s.a = more(b) \/ Found(more(b)).receive = 0)
      BY <1>4, <2>1, <2>2
    <3>2. Found(more(b)).receive = 0
      BY <1>8, <3>1 DEF got
    <3> QED
      BY <2>1, <3>1, <3>2
  <2>3. Rating(x)
    BY <1>5, <2>1, <2>2
  <2> QED
    BY <2>3 DEF x
<1>9. Rating([a |-> m, a1 |-> got])
  <2> DEFINE x == [a |-> m, a1 |-> got]
  <2>1. x.a = m /\ x.a1 = got /\ x \in [a : 0 .. Word - 1, a1 : 0 .. Word - 1]
    BY <1>2, <1>3
  <2> HIDE DEF x
  <2>2. Found(s.a).receive = x.a1 /\ x.a = more(s.a)
    BY <1>7, <2>1 DEF got
  <2>3. Rating(x)
    BY <1>1, <1>5, <2>1, <2>2
  <2> QED
    BY <2>3 DEF x
<1>10. RightRateOf(got, s.a)
  BY <1>1, <1>2, <1>6
<1>11. RightRateOf(s.a1, s.a \div Ten)
  <2> SUFFICES ASSUME s.a1 # 0
               PROVE  \E b \in 0 .. Word - 1 :
                        /\ s.a \div Ten \in {b, more(b) \div Ten} \/ Found(more(b)).receive = 0
                        /\ s.a1 <= Receipt[b] /\ (Regular => s.a1 = Receipt[b])
    BY <1>6
  <2>1. PICK b \in 0 .. Word - 1 :
          Found(b).receive = s.a1 /\ (s.a = more(b) \/ Found(more(b)).receive = 0)
    BY <1>4
  <2>2. s.a1 <= Receipt[b] /\ (Regular => s.a1 = Receipt[b])
    BY <2>1, FoundFacts
  <2> QED
    BY <2>1, <2>2
<1> QED
  BY <1>8, <1>9, <1>10, <1>11 DEF got, m, more

-----------------------------------------------------------------------------
(* The handlers. *)

\* The answer to a request, in the terms of the request.
RightAnswerOf(r) ==
  /\ r.kind = call.kind
  /\ CASE call.kind = "sell" -> RightSaleOf(r)
       [] call.kind = "buy"  -> RightPurchaseOf(r)
       [] call.kind = "rate" -> RightRateOf(r.receive, r.of)

EstimateInv ==
  /\ call = Nothing => reply = Nothing
  /\ call # Nothing => Asked
  /\ call.kind = "buy" => (search = FirstSearch(call) /\ doubled = 1) \/ Purchase(search, doubled)
  /\ call.kind = "rate" => search = FirstSearch(call) \/ Rating(search)
  /\ call = Nothing => doubled = 1
  /\ reply # Nothing => RightAnswerOf(reply)

\* A request and what it is answered from stay: so does what is said of them.
Same == chain' = chain /\ call' = call /\ asOf' = asOf /\ offered' = offered

LEMMA AskedStays == ASSUME Same, Asked PROVE Asked'
BY DEF Same, Asked, This, market, PoolsFor, DefaultPools

LEMMA PurchaseStays ==
  ASSUME Same, NEW s, NEW n
  PROVE  Purchase(s, n)' = Purchase(s, n)
BY DEF Same, Purchase, SearchType, Halving, InReach, LeastSell, LastSmall, FirstLarge, Endless,
   Searchable, Regular, Most, Enough, Little, TooSmall, TooLarge, Receipt, Found, FindGoodTradePath,
   FirstBest, Chosen, FindPaths, FoundFirst, ComesFirst, Value, Liquidity, Along, NextHop, BestPool,
   Between, market, This, FoldLeft, MapThenFoldSet

LEMMA RatingStays ==
  ASSUME Same, NEW s
  PROVE  Rating(s)' = Rating(s)
BY DEF Same, Rating, Found, FindGoodTradePath, FirstBest, Chosen, FindPaths, FoundFirst, ComesFirst,
   Value, Liquidity, Along, NextHop, BestPool, Between, market, This, FoldLeft, MapThenFoldSet

LEMMA AnswerStays ==
  ASSUME Same, NEW r
  PROVE  RightAnswerOf(r)' = RightAnswerOf(r)
BY DEF Same, RightAnswerOf, RightSaleOf, RightPurchaseOf, RightRateOf, LeastSell, Holds, LeavesFee,
   BestPriced, FeeAt, FeeInPRV, Charged, PriceAgainstPRV, Usable, Worth, Better, Priced, Searchable,
   Regular, Most, Enough, Little, TooSmall, TooLarge, Receipt, FindGoodTradePath, FirstBest, Chosen,
   FindPaths, FoundFirst, ComesFirst, Value, Liquidity, Along, NextHop, BestPool, Between, market,
   This, FoldLeft, MapThenFoldSet

LEMMA RightAnswerIs == RightAnswer = RightAnswerOf(reply)
BY DEF RightAnswerOf, RightSaleOf, RightPurchaseOf, RightRateOf, LeastSell, RightAnswer, RightSale,
   RightPurchase, RightRate

LEMMA StateStays ==
  ASSUME Same
  PROVE  /\ Purchase(search', doubled') => Purchase(search, doubled)'
         /\ Rating(search') => Rating(search)'
         /\ RightAnswerOf(reply') => RightAnswerOf(reply)'
<1>1. \A s, n : Purchase(s, n)' = Purchase(s, n)
  BY PurchaseStays
<1>2. \A s : Rating(s)' = Rating(s)
  BY RatingStays
<1>3. \A r : RightAnswerOf(r)' = RightAnswerOf(r)
  BY AnswerStays
<1> QED
  BY <1>1, <1>2, <1>3

LEMMA ListsStep ==
  ASSUME EstimateInv, Next, UNCHANGED estimateVars
  PROVE  EstimateInv'
<1>1. Same /\ search' = search /\ doubled' = doubled /\ reply' = reply
  BY Authors DEF Same, estimateVars
<1>2. call # Nothing => Asked'
  BY <1>1, AskedStays DEF EstimateInv
<1>3. Purchase(search, doubled) => Purchase(search, doubled)'
  BY <1>1, StateStays
<1>4. Rating(search) => Rating(search)'
  BY <1>1, StateStays
<1>5. RightAnswerOf(reply) => RightAnswerOf(reply)'
  BY <1>1, StateStays
<1>6. (search = FirstSearch(call))' <=> search = FirstSearch(call)
  BY <1>1 DEF Same, FirstSearch
<1> QED
  BY <1>1, <1>2, <1>3, <1>4, <1>5, <1>6 DEF EstimateInv, Same, Nothing

LEMMA TakeStep ==
  ASSUME TypeOK, EstimateInv, NEW q \in This.requests, Take(q), UNCHANGED vars
  PROVE  EstimateInv'
<1>1. state \in 1 .. LastBlock /\ chain \in DOMAIN Histories
  BY Constants DEF TypeOK, Heights, Take
<1>2. chain' = chain /\ call' = q /\ asOf' = state /\ reply = Nothing /\ call = Nothing
  BY DEF vars, Take
<1>3. Asked'
  <2>1. offered' \in SetToSeqs(PoolsFor(q, This.market[state]))
    BY DEF Take, PoolsFor
  <2> QED
    BY <1>1, <1>2, <2>1 DEF Asked, This, market, PoolsFor, DefaultPools
<1>4. search' = FirstSearch(call') /\ doubled' = doubled /\ reply' = reply
  BY <1>2 DEF Take
<1>5. doubled = 1
  BY <1>2 DEF EstimateInv
<1>6. (search = FirstSearch(call))'
  BY <1>4 DEF FirstSearch
<1>7. call' # Nothing
  <2>1. q \in Request
    BY <1>1, MarketAssumption DEF This
  <2> QED
    BY <1>2, <2>1 DEF Request, Nothing
<1> QED
  BY <1>2, <1>3, <1>4, <1>5, <1>6, <1>7 DEF EstimateInv, Nothing

LEMMA SaleStep ==
  ASSUME EstimateInv, AnswerSale, UNCHANGED vars
  PROVE  EstimateInv'
<1>1. /\ Same /\ search' = search /\ doubled' = doubled /\ call.kind = "sell" /\ call' = call
  BY DEF AnswerSale, Same, vars
<1>2. call # Nothing /\ Asked
  BY <1>1 DEF EstimateInv, Nothing
<1>3. PICK priced \in SetToSeqs(DefaultPools(market)) : Answered(reply', priced)
  <2>1. PICK priced \in SetToSeqs(DefaultPools(market)) : \E prv \in {Sale(TRUE, priced)} :
          reply' = [kind |-> "sell", prv |-> prv,
                    token |-> IF call.from = PRV THEN prv ELSE Sale(FALSE, priced)]
    BY DEF AnswerSale
  <2>2. Answered(reply', priced)
    BY <2>1 DEF Answered
  <2> QED
    BY <2>2
<1>4. \A r : Answered(r, priced) => RightSaleOf(r)
  BY <1>1, <1>2, SaleAnswered
<1>5. RightAnswerOf(reply')
  BY <1>1, <1>3, <1>4 DEF RightAnswerOf, Answered
<1>6. RightAnswerOf(reply)' /\ Asked'
  BY <1>1, <1>2, <1>5, StateStays, AskedStays
<1> QED
  BY <1>1, <1>2, <1>6 DEF EstimateInv, Nothing

\* The search so far, be it at its start.
LEMMA PurchaseSoFar ==
  ASSUME EstimateInv, call.kind = "buy"
  PROVE  Asked /\ call # Nothing /\ Purchase(search, doubled)
<1>1. call # Nothing /\ Asked
  BY DEF EstimateInv, Nothing
<1>2. Purchase(FirstSearch(call), 1)
  BY <1>1, PurchaseStarts
<1> QED
  BY <1>1, <1>2 DEF EstimateInv

LEMMA SearchStep ==
  ASSUME EstimateInv, FindSellAmount, UNCHANGED vars
  PROVE  EstimateInv'
<1>1. /\ Same /\ reply' = reply /\ call.kind = "buy" /\ call' = call
      /\ search.left <= search.right
  BY DEF FindSellAmount, Same, vars
<1>2. Asked /\ call # Nothing /\ Purchase(search, doubled)
  BY <1>1, PurchaseSoFar
<1>3. search' = Turned(search) /\ doubled' = Doubled(doubled)
  BY DEF FindSellAmount, Turned, Doubled, Middle, Found
<1>4. Purchase(Turned(search), Doubled(doubled))
  BY <1>1, <1>2, PurchaseTurn
<1>5. Purchase(search', doubled')
  BY <1>3, <1>4
<1>6. Purchase(search, doubled)' /\ Asked'
  BY <1>1, <1>2, <1>5, StateStays, AskedStays
<1>7. (RightAnswerOf(reply))' \/ reply = Nothing
  BY <1>1, StateStays DEF EstimateInv
<1> QED
  BY <1>1, <1>2, <1>6, <1>7 DEF EstimateInv, Nothing

LEMMA PurchaseStep ==
  ASSUME EstimateInv, AnswerPurchase, UNCHANGED vars
  PROVE  EstimateInv'
<1>1. /\ Same /\ search' = search /\ doubled' = doubled /\ call.kind = "buy" /\ call' = call
      /\ search.left > search.right
  BY DEF AnswerPurchase, Same, vars
<1>2. Asked /\ call # Nothing /\ Purchase(search, doubled)
  BY <1>1, PurchaseSoFar
<1>3. /\ reply'.kind = "buy" /\ reply'.sell = search.sellAmount /\ reply'.route = search.path
      /\ reply'.tokens = TokenRoute(call.from, search.path)
  BY DEF AnswerPurchase
<1>4. RightPurchaseOf(reply')
  <2>1. \A r : /\ r.sell = search.sellAmount /\ r.route = search.path
                /\ r.tokens = TokenRoute(call.from, search.path)
                => RightPurchaseOf(r)
    BY <1>1, <1>2, PurchaseAnswered
  <2> QED
    BY <1>3, <2>1
<1>5. RightAnswerOf(reply')
  BY <1>1, <1>3, <1>4 DEF RightAnswerOf
<1>6. Purchase(search, doubled)' /\ Asked' /\ RightAnswerOf(reply)'
  BY <1>1, <1>2, <1>5, StateStays, AskedStays
<1> QED
  BY <1>1, <1>2, <1>6 DEF EstimateInv, Nothing

LEMMA RateStep ==
  ASSUME EstimateInv, GetRate, UNCHANGED vars
  PROVE  EstimateInv'
<1>1. /\ Same /\ doubled' = doubled /\ call.kind = "rate" /\ call' = call /\ reply = Nothing
  BY DEF GetRate, Same, vars
<1>2. Asked /\ call # Nothing
  BY <1>1 DEF EstimateInv, Nothing
<1>3. Rating(search)
  <2>1. Rating(FirstSearch(call))
    <3>1. call.start \in 1 .. Word - 1 /\ Word \in Nat \ {0}
      BY <1>1, <1>2, CallType, Constants
    <3>2. FirstSearch(call) = [a |-> call.start, a1 |-> 0]
      BY <1>1 DEF FirstSearch
    <3> QED
      BY <3>1, <3>2 DEF Rating
  <2> QED
    BY <1>1, <2>1 DEF EstimateInv
<1> DEFINE got == Found(search.a).receive
           more == (search.a * Ten) % Word
<1>4. /\ got = 0 => Rating([search EXCEPT !.a = more])
      /\ Rating([a |-> more, a1 |-> got])
      /\ RightRateOf(got, search.a)
      /\ RightRateOf(search.a1, search.a \div Ten)
  BY <1>1, <1>2, <1>3, RateTurn
<1>5. \/ /\ Rating(search') /\ reply' = reply
      \/ /\ search' = search /\ reply'.kind = "rate" /\ RightRateOf(reply'.receive, reply'.of)
  <2>1. RightRateOf(0, 1)
    BY DEF RightRateOf
  <2> DEFINE goal == (search.a1 * Ten) % Word
  <2>2. LET r == Found(search.a).receive
            m == (search.a * Ten) % Word
            g == (search.a1 * Ten) % Word
        IN CASE r = 0 /\ m < call.limit -> search' = [search EXCEPT !.a = m] /\ reply' = reply
             [] r = 0 /\ m >= call.limit ->
                  reply' = [kind |-> "rate", receive |-> 0, of |-> 1] /\ search' = search
             [] r # 0 /\ r > g -> search' = [a |-> m, a1 |-> r] /\ reply' = reply
             [] r # 0 /\ r = g ->
                  reply' = [kind |-> "rate", receive |-> r, of |-> search.a] /\ search' = search
             [] r # 0 /\ r < g ->
                  /\ reply' = [kind |-> "rate", receive |-> search.a1, of |-> search.a \div Ten]
                  /\ search' = search
    BY DEF GetRate, Found
  <2>3. /\ search.a \in 0 .. Word - 1 /\ search.a1 \in 0 .. Word - 1
        /\ Word \in Nat \ {0} /\ Ten \in Nat /\ call.limit \in 1 .. Word - 1
    BY <1>1, <1>2, <1>3, CallType, Constants DEF Rating
  <2>4. got \in 0 .. Word - 1
    BY <1>2, <2>3, FoundFacts
  <2>5. more \in 0 .. Word - 1 /\ goal \in 0 .. Word - 1
    BY <2>3, search.a * Ten \in Int, search.a1 * Ten \in Int, RemainderType
  <2>6. (CASE got = 0 /\ more < call.limit -> search' = [search EXCEPT !.a = more] /\ reply' = reply
           [] got = 0 /\ more >= call.limit ->
                reply' = [kind |-> "rate", receive |-> 0, of |-> 1] /\ search' = search
           [] got # 0 /\ got > goal -> search' = [a |-> more, a1 |-> got] /\ reply' = reply
           [] got # 0 /\ got = goal ->
                reply' = [kind |-> "rate", receive |-> got, of |-> search.a] /\ search' = search
           [] got # 0 /\ got < goal ->
                /\ reply' = [kind |-> "rate", receive |-> search.a1, of |-> search.a \div Ten]
                /\ search' = search)
    BY <2>2
  <2> HIDE DEF got, more, goal
  <2>7. \/ got = 0 /\ more < call.limit /\ search' = [search EXCEPT !.a = more] /\ reply' = reply
        \/ /\ got = 0 /\ more >= call.limit
           /\ reply' = [kind |-> "rate", receive |-> 0, of |-> 1] /\ search' = search
        \/ got # 0 /\ got > goal /\ search' = [a |-> more, a1 |-> got] /\ reply' = reply
        \/ /\ got # 0 /\ got = goal
           /\ reply' = [kind |-> "rate", receive |-> got, of |-> search.a] /\ search' = search
        \/ /\ got # 0 /\ got < goal
           /\ reply' = [kind |-> "rate", receive |-> search.a1, of |-> search.a \div Ten]
           /\ search' = search
    <3>1. CASE got = 0 /\ more < call.limit
      BY <2>6, <3>1
    <3>2. CASE got = 0 /\ ~(more < call.limit)
      <4>1. more >= call.limit
        BY <2>3, <2>5, <3>2
      <4> QED
        BY <2>6, <3>2, <4>1
    <3>3. CASE got # 0 /\ got > goal
      BY <2>6, <3>3
    <3>4. CASE got # 0 /\ ~(got > goal) /\ got = goal
      BY <2>6, <3>4
    <3>5. CASE got # 0 /\ ~(got > goal) /\ got # goal
      <4>1. got < goal
        BY <2>4, <2>5, <3>5
      <4> QED
        BY <2>6, <3>5, <4>1
    <3> QED
      BY <3>1, <3>2, <3>3, <3>4, <3>5
  <2> QED
    BY <1>4, <2>1, <2>7
<1> HIDE DEF got, more
<1>6. Asked' /\ (Rating(search)' \/ search' = search)
  BY <1>1, <1>2, <1>5, StateStays, AskedStays
<1>7. CASE Rating(search') /\ reply' = reply
  <2>1. Rating(search)'
    BY <1>1, <1>7, StateStays
  <2> QED
    BY <1>1, <1>2, <1>6, <1>7, <2>1 DEF EstimateInv, Nothing
<1>8. CASE search' = search /\ reply'.kind = "rate" /\ RightRateOf(reply'.receive, reply'.of)
  <2>1. RightAnswerOf(reply')
    BY <1>1, <1>8 DEF RightAnswerOf
  <2>2. Rating(search)' /\ RightAnswerOf(reply)'
    BY <1>1, <1>3, <1>8, <2>1, StateStays
  <2> QED
    BY <1>1, <1>2, <1>6, <2>2 DEF EstimateInv, Nothing
<1> QED
  BY <1>5, <1>7, <1>8

LEMMA EstimateStep ==
  ASSUME TypeOK, EstimateInv, [ServiceNext]_<<vars, estimateVars>>
  PROVE  EstimateInv'
<1>1. CASE Next /\ UNCHANGED estimateVars
  BY <1>1, ListsStep
<1>2. ASSUME NEW q \in This.requests, Take(q), UNCHANGED vars PROVE EstimateInv'
  BY <1>2, TakeStep
<1>3. CASE AnswerSale /\ UNCHANGED vars
  BY <1>3, SaleStep
<1>4. CASE FindSellAmount /\ UNCHANGED vars
  BY <1>4, SearchStep
<1>5. CASE AnswerPurchase /\ UNCHANGED vars
  BY <1>5, PurchaseStep
<1>6. CASE GetRate /\ UNCHANGED vars
  BY <1>6, RateStep
<1>7. CASE UNCHANGED <<vars, estimateVars>>
  <2>1. Same /\ search' = search /\ doubled' = doubled /\ reply' = reply
    BY <1>7 DEF Same, vars, estimateVars
  <2>2. /\ call # Nothing => Asked'
        /\ Purchase(search, doubled) => Purchase(search, doubled)'
        /\ Rating(search) => Rating(search)'
        /\ RightAnswerOf(reply) => RightAnswerOf(reply)'
    BY <2>1, AskedStays, StateStays DEF EstimateInv
  <2>3. (search = FirstSearch(call))' <=> search = FirstSearch(call)
    BY <2>1 DEF Same, FirstSearch
  <2> QED
    BY <2>1, <2>2, <2>3 DEF EstimateInv, Same, Nothing
<1> QED
  BY <1>1, <1>2, <1>3, <1>4, <1>5, <1>6, <1>7 DEF ServiceNext, Handle

\* Every request is answered rightly.
LEMMA AnsweredRightly == EstimateInv => SearchAnswers
<1> SUFFICES ASSUME EstimateInv PROVE SearchAnswers
  OBVIOUS
<1>1. ASSUME call.kind = "buy" PROVE doubled <= 2 * Word \/ Endless
  BY <1>1, PurchaseSoFar DEF Purchase, Halving
<1>2. reply # Nothing => RightAnswer
  BY RightAnswerIs DEF EstimateInv
<1> QED
  BY <1>1, <1>2 DEF SearchAnswers

\* Whatever the pools, the requests and the order in which the pools come, and
\* whatever block is saved in the meantime: the search for a purchase ends in the
\* turns of a binary search, a purchase is answered with the least sale that buys
\* enough, a sale with what its best route pays and a fee that can be paid, and a rate
\* with what a sale gets - with the provisos that SearchAnswers states.
THEOREM SpecSearchAnswers == ServiceSpec => []SearchAnswers
<1>1. ServiceInit => EstimateInv
  BY DEF ServiceInit, EstimateInit, EstimateInv, Nothing
<1>2. TypeOK /\ EstimateInv /\ [ServiceNext]_<<vars, estimateVars>> => EstimateInv'
  BY EstimateStep
<1>3. ServiceSpec => []TypeOK
  BY ServiceKeepsLists, SpecTypeOK, PTL
<1> QED
  BY <1>1, <1>2, <1>3, AnsweredRightly, PTL DEF ServiceSpec
=============================================================================
