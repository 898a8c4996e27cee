------------------------------- MODULE MCPdex -------------------------------
\* PdexLists and TradeEstimate for TLC: seven histories of three blocks.
EXTENDS TradeEstimate, TLC

CONSTANTS pool, drained, share, order, token, staker

Rows(p, d, s, o, k, t) ==
  (pool :> p @@ drained :> d @@ share :> s @@ order :> o @@ token :> k @@ staker :> t)
Never == <<"absent", "absent", "absent">>
Always == <<"full", "full", "full">>

W(b, s, y, own, refused) ==
  [order |-> order, block |-> b, sell |-> s, buy |-> y, own |-> own, refused |-> refused]

\* A pool goes and another is drained.
Drying ==
  [there |-> Rows(<<"full", "full", "absent">>, <<"full", "empty", "empty">>,
                  Never, Never, Never, Never),
   sold |-> (order :> <<0, 0, 0>>),
   withdrawals |-> {}, maxFaults |-> 1, requests |-> {}]
\* A share keeps rewards of orders and then goes, a staker goes, and the staking
\* pool is unlisted.
Leaving ==
  [there |-> Rows(Never, Never, <<"full", "rewards", "absent">>, Never,
                  <<"full", "full", "unlisted">>, <<"full", "absent", "absent">>),
   sold |-> (order :> <<0, 0, 0>>),
   withdrawals |-> {}, maxFaults |-> 1, requests |-> {}]
\* An order is matched in part; a withdrawal is refused, another ends the order.
Cancelled ==
  [there |-> Rows(Never, Never, Never, <<"full", "full", "absent">>, Never, Never),
   sold |-> (order :> <<0, 1, 1>>),
   withdrawals |-> {W(0, 0, 0, FALSE, TRUE), W(3, 2, 1, FALSE, FALSE)}, maxFaults |-> 0, requests |-> {}]
\* What was bought is withdrawn, and the order stays.
Drawn ==
  [there |-> Rows(Never, Never, Never, Always, Never, Never),
   sold |-> (order :> <<1, 1, 2>>),
   withdrawals |-> {W(2, 0, 1, FALSE, FALSE)}, maxFaults |-> 0, requests |-> {}]
\* The order is matched in full, and paid out by itself.
Filled ==
  [there |-> Rows(Never, Never, Never, <<"full", "full", "absent">>, Never, Never),
   sold |-> (order :> <<1, 2, 3>>),
   withdrawals |-> {W(3, 0, 3, TRUE, FALSE)}, maxFaults |-> 1, requests |-> {}]

Pool(s, d, x, y, a, r, default) ==
  [pair |-> <<s, d>>, virtual |-> <<a * x, a * y>>, real |-> <<x, y>>, amplifier |-> a,
   feeRate |-> r, default |-> default]
Market(pools) ==
  [pools |-> pools, base |-> 2, defaultRate |-> 1, discount |-> 5, minPRV |-> 2]
\* Two pools of one pair, a way round, and a pool that is no default.
Early == Market({Pool("usd", "prv", 8, 12, 1, 1, TRUE), Pool("prv", "btc", 10, 6, 1, 2, TRUE),
                 Pool("usd", "btc", 14, 5, 1, 1, TRUE), Pool("usd", "btc", 6, 9, 1, 1, FALSE)})
\* An amplified pool, that a large sale exceeds.
Late  == Market({Pool("usd", "prv", 8, 12, 2, 1, TRUE), Pool("usd", "prv", 12, 8, 2, 1, TRUE),
                 Pool("prv", "btc", 10, 9, 1, 2, TRUE)})
\* More paths than are looked at.
Wide  == Market({Pool("usd", "btc", 9, 9, 1, 1, TRUE), Pool("usd", "prv", 9, 9, 1, 1, TRUE),
                 Pool("prv", "btc", 9, 12, 1, 1, TRUE), Pool("prv", "eth", 8, 20, 1, 1, TRUE),
                 Pool("eth", "btc", 10, 15, 1, 1, TRUE)})
\* A pool that a sale soon exceeds, and one that pays for large sales only: of the
\* sales of 3, 9 and 27 the middle one buys nothing.
Gap   == Market({Pool("usd", "btc", 2, 2, 20, 1, TRUE), Pool("usd", "btc", 36, 3, 1, 1, TRUE)})
SellOf(s, d, a, max) == [kind |-> "sell", from |-> s, to |-> d, amount |-> a, isMax |-> max]
RateOf(s, d, a, l)   == [kind |-> "rate", from |-> s, to |-> d, start |-> a, limit |-> l]
BuyOf(s, d, a)       == [kind |-> "buy", from |-> s, to |-> d, amount |-> a]
\* The pools are traded.
Traded ==
  [there |-> Rows(Never, Never, Never, Never, Never, Never),
   sold |-> (order :> <<0, 0, 0>>),
   withdrawals |-> {}, maxFaults |-> 0,
   market |-> <<Early, Market({}), Late>>,
   requests |->
     {SellOf("usd", "btc", 9, FALSE), SellOf("usd", "btc", 20, TRUE),
      SellOf("prv", "btc", 20, TRUE), SellOf("usd", "usd", 5, FALSE),
      BuyOf("usd", "btc", 3), BuyOf("usd", "prv", 7), BuyOf("usd", "btc", 9),
      RateOf("usd", "btc", 1, 50)}]
\* From none, and one with a gap, to more paths than the finder looks at.
Crowded ==
  [Traded EXCEPT !.market = <<Market({}), Gap, Wide>>,
                 !.requests = {RateOf("usd", "btc", 1, 50), RateOf("usd", "btc", 9, 50)}]

SomeHistories ==
  [drying |-> Drying, leaving |-> Leaving, cancelled |-> Cancelled, drawn |-> Drawn,
   filled |-> Filled, traded |-> Traded, crowded |-> Crowded]
SellsSecond == [o \in Orders |-> 1]
ASSUME BookKept
=============================================================================
