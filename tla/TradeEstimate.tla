---------------------------- MODULE TradeEstimate ----------------------------
(***************************************************************************)
(* The estimate of a trade and of a rate: EstimateTrade and GetRate in     *)
(* apiservice/pdexv3.go and utils.go, with                                 *)
(* pdexv3/pathfinder/pdexv3estimatetrade.go and pdexv3/feeestimator.       *)
(*                                                                         *)
(* The handler reads the saved state of PdexLists once and works on that   *)
(* copy while the synchroniser saves the next.  A sale is estimated along  *)
(* the best of the paths a depth-first search finds; a purchase is a       *)
(* binary search, on uint64, of the sale that buys enough; a rate is       *)
(* looked for by selling ten times more each time.  The pools come out of  *)
(* a Go map, once for the path finder and again for the fee estimator:     *)
(* in any order.                                                           *)
(*                                                                         *)
(* What a single pool pays is the chain's code (v2utils.MaybeAcceptTrade), *)
(* here a constant product that fails when a reserve is exceeded.          *)
(***************************************************************************)
EXTENDS PdexLists, Sequences, SequencesExt

CONSTANTS
  Tokens,
  PRV,            \* the native token
  NoPool,
  MaxTradePath,   \* pools in a path: 3
  MaxPaths,       \* paths that are looked at: 20
  BPS,            \* fee rates are in parts of it: 10000
  Percent,        \* 100
  Slack,          \* what a sale of all PRV leaves for the network's fee: 100
  Ten             \* by how much getRate goes up: 10

\* A pool: its tokens, its amounts (on uint64, and the virtual ones amplified), its
\* fee rate, and whether it is one of the default pools.
PoolType == [pair : Tokens \X Tokens, virtual : Nat \X Nat,
             real : (0 .. Word - 1) \X (0 .. Word - 1), amplifier : Nat \ {0},
             feeRate : 0 .. BPS, default : BOOLEAN]
MarketType == [pools : SUBSET PoolType, base : Nat \ {0}, defaultRate : 0 .. BPS,
               discount : 0 .. Percent, minPRV : Nat]
Request ==
  [kind : {"sell"}, from : Tokens, to : Tokens, amount : 1 .. Word - 1, isMax : BOOLEAN]
    \union [kind : {"buy"}, from : Tokens, to : Tokens, amount : 1 .. Word - 1]
    \union [kind : {"rate"}, from : Tokens, to : Tokens, start : 1 .. Word - 1,
            limit : 1 .. Word - 1]

ASSUME MarketAssumption ==
  /\ PRV \in Tokens /\ IsFiniteSet(Tokens) /\ NoPool \notin PoolType
  /\ {MaxTradePath, MaxPaths, BPS, Percent, Slack, Ten} \subseteq Nat \ {0}
  /\ \A n \in DOMAIN Histories : LET c == Histories[n] IN
       /\ c.requests \subseteq Request
       /\ c.requests # {} => \A h \in 1 .. LastBlock :
            c.market[h] \in MarketType /\ IsFiniteSet(c.market[h].pools)

VARIABLES
  call,     \* the request being answered, or Nothing
  asOf,     \* the height of the saved state it has read,
  offered,  \* its default pools in the order of the path finder
  search,   \* FindSellAmount's left, right, sellAmount and path, or getRate's a and a1
  doubled,  \* history: 1, doubled with each sale that FindSellAmount has tried
  reply     \* the answer, or Nothing

estimateVars == <<call, asOf, offered, search, doubled, reply>>

Nothing == [kind |-> "none"]
market  == This.market[asOf]

EstimateInit ==
  /\ call = Nothing /\ asOf = 0 /\ search = Nothing /\ reply = Nothing
  /\ offered = <<>> /\ doubled = 1

-----------------------------------------------------------------------------
(* The path finder. *)

SideOf(p, t)   == IF p.pair[1] = t THEN 1 ELSE 2
Joins(p, s, d) == s # d /\ {s, d} = {p.pair[1], p.pair[2]}

\* addEdge, buildGraph: which of the neighbours of a token comes first, the one with
\* more of the token in its best pool, or of two alike the one whose pool is first.
Liquidity(p, t) == (p.virtual[SideOf(p, t)] * market.base) \div p.amplifier
Between(t, n) == {i \in DOMAIN offered : Joins(offered[i], t, n)}
Value(t, n)   == Max({Liquidity(offered[i], t) : i \in Between(t, n)})
ComesFirst(t, d, e) ==
  \/ Value(t, d) > Value(t, e)
  \/ Value(t, d) = Value(t, e) /\ Min(Between(t, d)) < Min(Between(t, e))

\* findPath: the paths that visit no token twice and have at most so many pools.
PathsOf(pools, s, d) ==
  {path \in SeqOf(Tokens, MaxTradePath + 1) :
     /\ path # <<>> /\ path[1] = s /\ Last(path) = d
     /\ Cardinality(ToSet(path)) = Len(path)
     /\ \A i \in 1 .. Len(path) - 1 : \E p \in pools : Joins(p, path[i], path[i + 1])}

\* The search is depth first: of two paths it finds the one that first turns to the
\* better neighbour.
FoundFirst(p, q) ==
  LET i == Min({j \in DOMAIN p \intersect DOMAIN q : p[j] # q[j]}) IN ComesFirst(p[i - 1], p[i], q[i])

\* findPaths: the first MaxPaths of them.
FindPaths(s, d) ==
  LET all == PathsOf(ToSet(offered), s, d)
  IN {p \in all : Cardinality({q \in all \ {p} : FoundFirst(q, p)}) < MaxPaths}

\* The smallest whole number that is at least n / d.
CeilDiv(n, d) == (n + d - 1) \div d

\* trade: what the chain pays for amount tokens t in the pool p, or 0.
Trade(p, t, amount) ==
  LET i == SideOf(p, t)
      out == (p.virtual[3 - i] * amount) \div (p.virtual[i] + amount)
  IN IF \/ amount = 0 \/ p.virtual[i] = 0
        \/ p.real[i] + amount >= Word \/ out > p.real[3 - i] THEN 0 ELSE out

\* chooseBestPoolFromAPair: the first of the pools that pay the most, with the
\* default fee taken off what is sold.
Net(m, amount) == amount - CeilDiv(amount * m.defaultRate, BPS)
BestPool(s, d, amount) ==
  LET net == Net(market, amount)
      offers == {<<i, Trade(offered[i], s, net)>> : i \in Between(s, d)}
      most == Max({0} \union {o[2] : o \in offers})
  IN IF most = 0 THEN [pool |-> NoPool, receive |-> 0]
     ELSE [pool |-> offered[Min({o[1] : o \in {x \in offers : x[2] = most}})], receive |-> most]

\* The pools taken along a path, and what the last one pays.  (A bound variable
\* here and below has its value computed once.)
NextHop(path, got, i) ==
  CHOOSE f \in {[path |-> path, route |-> Append(got.route, pays.pool), receive |-> pays.receive] :
                  pays \in {BestPool(path[i], path[i + 1], r) : r \in {got.receive}}} : TRUE
Along(path, amount) ==
  FoldLeft(LAMBDA got, i : NextHop(path, got, i),
           [path |-> path, route |-> <<>>, receive |-> amount],
           [i \in 1 .. Len(path) - 1 |-> i])

\* FindGoodTradePath: the first of the paths that pay the most.
Chosen(f, tried) ==
  \A g \in tried \ {f} :
    f.receive > g.receive \/ (f.receive = g.receive /\ FoundFirst(f.path, g.path))
FirstBest(tried) ==
  IF \A f \in tried : f.receive = 0 THEN [route |-> <<>>, receive |-> 0]
  ELSE CHOOSE f \in tried : Chosen(f, tried)
FindGoodTradePath(s, d, amount) ==
  CHOOSE f \in {FirstBest(tried) : tried \in {{Along(path, amount) : path \in FindPaths(s, d)}}} :
    TRUE

-----------------------------------------------------------------------------
(* The fee estimator. *)

FeeRate(route) == FoldLeft(LAMBDA sum, p : sum + p.feeRate, 0, route)

\* EstimateFeeInSellToken; an error, when there is no path or no amount, is logged
\* and leaves 0.
FeeInSellToken(amount, route) ==
  IF route = <<>> \/ amount = 0 THEN 0 ELSE CeilDiv(amount * FeeRate(route), BPS)

\* getPriceAgainstPRV: the amounts of the most liquid pool of the token with PRV
\* that has PRV enough, of two alike the one better for the user.
Usable(p, t) ==
  /\ Joins(p, t, PRV)
  /\ p.virtual[SideOf(p, PRV)] * market.base >= market.minPRV * p.amplifier
Worth(p) ==
  (((p.virtual[1] * p.virtual[2] * market.base) \div p.amplifier) * market.base) \div p.amplifier
Priced(p, t) ==
  [coins |-> p.virtual[SideOf(p, t)], prv |-> p.virtual[SideOf(p, PRV)], liquid |-> Worth(p)]
Better(x, y) ==
  \/ y.prv = 0
  \/ x.liquid > y.liquid
  \/ x.liquid = y.liquid /\ x.coins * y.prv > y.coins * x.prv
PriceAgainstPRV(t, priced) ==
  FoldLeft(LAMBDA found, p :
             IF Usable(p, t) /\ Better(Priced(p, t), found) THEN Priced(p, t) ELSE found,
           [coins |-> 0, prv |-> 0, liquid |-> 0], priced)

\* EstimatedFeeInPRV.
Charged(price, fee) ==
  IF price.liquid = 0 THEN 0
  ELSE CeilDiv(fee * price.prv * (Percent - market.discount), price.coins * Percent)
FeeInPRV(amount, t, route, priced) ==
  CHOOSE fee \in {Charged(price, FeeInSellToken(amount, route)) :
                    price \in {IF t = PRV THEN [coins |-> 1, prv |-> 1, liquid |-> 1]
                              ELSE PriceAgainstPRV(t, priced)}} : TRUE

\* EstimateTradingFee.
TradingFee(amount, t, route, inPRV, priced) ==
  IF inPRV \/ t = PRV THEN FeeInPRV(amount, t, route, priced) ELSE FeeInSellToken(amount, route)

\* getTokenRoute.
TokenRoute(t, route) ==
  FoldLeft(LAMBDA tokens, p :
      Append(tokens, IF p.pair[1] # Last(tokens) THEN p.pair[1] ELSE p.pair[2]), <<t>>, route)

-----------------------------------------------------------------------------
(* The handlers. *)

DefaultPools(m) == {p \in m.pools : p.default}

FirstSearch(q) ==
  IF q.kind = "buy" THEN [left |-> 1, right |-> Word - 1, sellAmount |-> 0, path |-> <<>>]
  ELSE IF q.kind = "rate" THEN [a |-> q.start, a1 |-> 0]
  ELSE Nothing

\* A request is taken up: the saved state is read, its default pools are picked
\* for an estimate and all are used for a rate.  One request is followed.
Take(q) ==
  /\ call = Nothing /\ reply = Nothing
  /\ state # 0
  /\ call' = q
  /\ asOf' = state
  /\ IF q.kind = "rate"
     THEN offered' \in SetToSeqs(This.market[state].pools)
     ELSE offered' \in SetToSeqs(DefaultPools(This.market[state]))
  /\ search' = FirstSearch(q)
  /\ UNCHANGED <<doubled, reply>>

\* The fee in PRV is raised by a hundredth.
Raised(fee) == fee + fee \div Percent

\* The estimate of a sale.
Estimate(amount, inPRV, priced) ==
  LET Told(found) ==
        LET fee == TradingFee(amount, call.from, found.route, inPRV, priced)
        IN [sell |-> amount, get |-> found.receive, route |-> found.route,
            fee |-> IF inPRV THEN Raised(fee) ELSE fee,
            tokens |-> TokenRoute(call.from, found.route)]
  IN CHOOSE e \in {Told(f) : f \in {FindGoodTradePath(call.from, call.to, amount)}} : TRUE

\* When all of the token is to be sold the estimate is made again without the fee,
\* and for PRV without the network's.
Sale(inPRV, priced) ==
  LET keep == IF inPRV THEN Slack ELSE 0
      Again(first) ==
        {Estimate(left, inPRV, priced) : left \in {(call.amount + 2 * Word - first.fee - keep) % Word}}
  IN CHOOSE e \in UNION {IF call.isMax /\ (inPRV => call.from = PRV) /\ first.fee > 0
                         THEN Again(first) ELSE {first} :
                           first \in {Estimate(call.amount, inPRV, priced)}} : TRUE

\* EstimateTrade with an amount to sell.
AnswerSale ==
  /\ call.kind = "sell" /\ reply = Nothing
  /\ \E priced \in SetToSeqs(DefaultPools(market)) : \E prv \in {Sale(TRUE, priced)} :
       reply' = [kind |-> "sell", prv |-> prv,
                 token |-> IF call.from = PRV THEN prv ELSE Sale(FALSE, priced)]
  /\ UNCHANGED <<call, asOf, offered, search, doubled>>

\* Mutant: a sale that buys just enough is taken for one that buys too little.
MutFindSellAmount ==
  /\ call.kind = "buy" /\ search.left <= search.right
  /\ \E mid \in {search.left + (search.right - search.left) \div 2} :
     \E found \in {FindGoodTradePath(call.from, call.to, mid)} :
       search' =
          IF found.receive > call.amount
          THEN [search EXCEPT !.sellAmount = mid, !.path = found.route,
                              !.right = (mid + Word - 1) % Word]
          ELSE IF found.receive = 0 /\ search.sellAmount = 0
          THEN [search EXCEPT !.right = (mid + Word - 1) % Word]
          ELSE [search EXCEPT !.left = (mid + 1) % Word]
  /\ doubled' = IF doubled > 2 * Word THEN doubled ELSE 2 * doubled
  /\ UNCHANGED <<call, asOf, offered, reply>>
\* FindSellAmount, one turn.  A sale that buys nothing is taken for one too large
\* until a sale that buys enough is known, and for one too small from then on.
FindSellAmount ==
  /\ call.kind = "buy" /\ search.left <= search.right
  /\ \E mid \in {search.left + (search.right - search.left) \div 2} :
     \E found \in {FindGoodTradePath(call.from, call.to, mid)} :
       search' =
          IF found.receive >= call.amount
          THEN [search EXCEPT !.sellAmount = mid, !.path = found.route,
                              !.right = (mid + Word - 1) % Word]
          ELSE IF found.receive = 0 /\ search.sellAmount = 0
          THEN [search EXCEPT !.right = (mid + Word - 1) % Word]
          ELSE [search EXCEPT !.left = (mid + 1) % Word]
  /\ doubled' = IF doubled > 2 * Word THEN doubled ELSE 2 * doubled
  /\ UNCHANGED <<call, asOf, offered, reply>>

\* EstimateTrade with an amount to buy, when the search has ended.
AnswerPurchase ==
  /\ call.kind = "buy" /\ reply = Nothing
  /\ search.left > search.right
  /\ \E priced \in SetToSeqs(DefaultPools(market)) :
     LET Fee(inPRV) == TradingFee(search.sellAmount, call.from, search.path, inPRV, priced)
     IN reply' = [kind |-> "buy", sell |-> search.sellAmount, route |-> search.path,
                  tokens |-> TokenRoute(call.from, search.path),
                  feePRV |-> Raised(Fee(TRUE)),
                  feeToken |-> Fee(FALSE)]
  /\ UNCHANGED <<call, asOf, offered, search, doubled>>

\* getRate, one turn: ten times more is sold for as long as it buys more than ten
\* times as much.
GetRate ==
  /\ call.kind = "rate" /\ reply = Nothing
  /\ \E receive \in {FindGoodTradePath(call.from, call.to, search.a).receive} :
     LET more == (search.a * Ten) % Word
         goal == (search.a1 * Ten) % Word
     IN CASE receive = 0 /\ more < call.limit ->
               search' = [search EXCEPT !.a = more] /\ UNCHANGED reply
          [] receive = 0 /\ more >= call.limit ->
               reply' = [kind |-> "rate", receive |-> 0, of |-> 1] /\ UNCHANGED search
          [] receive # 0 /\ receive > goal ->
               search' = [a |-> more, a1 |-> receive] /\ UNCHANGED reply
          [] receive # 0 /\ receive = goal ->
               reply' = [kind |-> "rate", receive |-> receive, of |-> search.a] /\ UNCHANGED search
          [] receive # 0 /\ receive < goal ->
               /\ reply' = [kind |-> "rate", receive |-> search.a1, of |-> search.a \div Ten]
               /\ UNCHANGED search
  /\ UNCHANGED <<call, asOf, offered, doubled>>

Handle == AnswerSale \/ FindSellAmount \/ AnswerPurchase \/ GetRate

-----------------------------------------------------------------------------
(* The lists, the processors and the query service together. *)

ServiceInit == Init /\ EstimateInit
ServiceNext ==
  \/ Next /\ UNCHANGED estimateVars
  \/ ((\E q \in This.requests : Take(q)) \/ Handle) /\ UNCHANGED vars
ServiceSpec ==
  /\ ServiceInit /\ [][ServiceNext]_<<vars, estimateVars>>
  /\ Fairness

-----------------------------------------------------------------------------
(* Properties *)

\* The choices of pools along a path, and what one of them pays.
Routes(pools, path) ==
  {r \in SeqOf(pools, MaxTradePath) :
     Len(r) = Len(path) - 1 /\ \A i \in DOMAIN r : Joins(r[i], path[i], path[i + 1])}
Pays(m, path, route, amount) ==
  LET after[i \in 0 .. Len(route)] ==
        IF i = 0 THEN amount
        ELSE Trade(route[i], path[i], Net(m, after[i - 1]))
  IN after[Len(route)]

PoolsFor(q, m) == IF q.kind = "rate" THEN m.pools ELSE DefaultPools(m)

\* What every sale buys at best, in every market: no choice of pools along any
\* path of at most MaxTradePath pools pays more.
Best ==
  [n \in DOMAIN Histories |-> LET c == Histories[n] IN [q \in c.requests |->
    [h \in 1 .. LastBlock |->
       LET m     == c.market[h]
           pools == PoolsFor(q, m)
           all   == UNION {{<<path, r>> : r \in Routes(pools, path)} :
                             path \in PathsOf(pools, q.from, q.to)}
       IN [a \in 0 .. Word - 1 |-> Max({0} \union {Pays(m, w[1], w[2], a) : w \in all})]]]]
Receipt == Best[chain][call][asOf]

\* The pools pay more for more, as far as amounts go that are bought on the way,
\* which are at most the pools' own; and all the paths are looked at.
Most == Max({0} \union UNION {{p.real[1], p.real[2]} : p \in ToSet(offered)})
Regular ==
  /\ \A p \in ToSet(offered) : \A t \in ToSet(p.pair) : \A a \in 1 .. Most :
       Trade(p, t, a - 1) <= Trade(p, t, a)
  /\ Cardinality(PathsOf(ToSet(offered), call.from, call.to)) <= MaxPaths

\* A binary search for a purchase can succeed: no larger sale buys something but
\* too little, and the sales that buy nothing because they are too small are less
\* than half of those too large.
Enough == {a \in 1 .. Word - 1 : Receipt[a] >= call.amount}
Little == {a \in 1 .. Word - 1 : Receipt[a] \in 1 .. call.amount - 1}
TooSmall == {a \in 1 .. Word - 1 : Receipt[a] = 0 /\ \E b \in Enough \union Little : a < b}
TooLarge == (1 .. Word - 1) \ (Enough \union Little \union TooSmall)
Searchable ==
  /\ Regular
  /\ \A a \in Little, b \in Enough : a < b
  /\ \A a \in TooSmall, b \in Enough \union Little : a < b
  /\ 2 * Max({0} \union TooSmall) + 1 < Min({Word} \union TooLarge)

\* The largest sale buys something but too little: FindSellAmount's left wraps to 0
\* and the request is never answered.
Endless == FindGoodTradePath(call.from, call.to, Word - 1).receive \in 1 .. call.amount - 1

\* The pools that may set the price of the token against PRV, and the fee at that
\* of the pool p.
BestPriced ==
  LET coins(p) == p.virtual[SideOf(p, call.from)]
      prv(p)   == p.virtual[SideOf(p, PRV)]
      able     == {p \in ToSet(offered) : Usable(p, call.from) /\ Worth(p) # 0}
  IN {p \in able : \A r \in able : \/ Worth(r) < Worth(p)
                                   \/ /\ Worth(r) = Worth(p)
                                      /\ coins(r) * prv(p) <= coins(p) * prv(r)}
FeeAt(p, e) ==
  Raised(CeilDiv(FeeInSellToken(e.sell, e.route) * p.virtual[SideOf(p, PRV)] * (Percent - market.discount),
                 p.virtual[SideOf(p, call.from)] * Percent))

\* An estimate holds: its route pays what is said, leads to the token to buy, and
\* nothing pays more.
Holds(e) ==
  /\ Regular => e.get = Receipt[e.sell]
  /\ e.route # <<>> =>
       Last(e.tokens) = call.to /\ Pays(market, e.tokens, e.route, e.sell) = e.get
\* Selling all of a balance leaves enough for the fee - provided that the fee of
\* the first estimate can be paid at all, and that the second, which is made for what
\* it leaves, has not found a route with a higher rate.
LeavesFee(e) ==
  LET keep  == IF call.from = PRV THEN Slack ELSE 0
      first == FindGoodTradePath(call.from, call.to, call.amount).route
      fee   == IF call.from = PRV THEN Raised(FeeInPRV(call.amount, PRV, first, <<>>))
               ELSE FeeInSellToken(call.amount, first)
  IN /\ call.isMax /\ fee # 0 /\ fee + keep <= call.amount
     /\ FeeRate(e.route) <= FeeRate(first)
     => e.sell + e.fee + keep <= call.amount
RightSale ==
  /\ Holds(reply.prv) /\ Holds(reply.token) /\ LeavesFee(reply.token)
  /\ call.from # PRV =>
       /\ BestPriced = {} => reply.prv.fee = 0
       /\ \A p \in BestPriced : reply.prv.fee = FeeAt(p, reply.prv)
RightPurchase ==
  /\ reply.sell # 0 =>
       /\ Last(reply.tokens) = call.to
       /\ Pays(market, reply.tokens, reply.route, reply.sell) >= call.amount
  /\ Searchable => reply.sell = IF Enough = {} THEN 0 ELSE Min(Enough)
\* The rate is that of a sale, of as much as is said unless ten times the amount is
\* more than a uint64 holds - provided that a sale ten times as large buys something:
\* getRate goes on after one that does not, and keeps what the one before has bought.
RightRate ==
  reply.receive # 0 =>
    \E a \in 0 .. Word - 1 : LET more == (a * Ten) % Word IN
      /\ \/ reply.of \in {a, more \div Ten}
         \/ FindGoodTradePath(call.from, call.to, more).receive = 0
      /\ reply.receive <= Receipt[a]
      /\ Regular => reply.receive = Receipt[a]
RightAnswer ==
  /\ reply.kind = call.kind
  /\ CASE call.kind = "sell" -> RightSale
       [] call.kind = "buy"  -> RightPurchase
       [] call.kind = "rate" -> RightRate

\* The estimates hold whatever order the pools come in, whatever block is saved in
\* the meantime, and where the searches on uint64 wrap.  A search for a purchase
\* ends within the turns a binary search needs (unless the largest sale buys
\* something but too little), and what it answers buys enough and is the least
\* that does; a sale is answered with a route that pays what is said and is the
\* best there is, with a fee that the order of the pools does not change; selling
\* all leaves enough for the fee, with the proviso above; and a rate is one that a
\* sale gets.
SearchAnswers ==
  /\ call.kind = "buy" => doubled <= 2 * Word \/ Endless
  /\ reply # Nothing => RightAnswer
==============================================================================
