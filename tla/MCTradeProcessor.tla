-------------------------- MODULE MCTradeProcessor --------------------------
\* TradeProcessor for TLC: two shards.
EXTENDS TradeProcessor, TLC

CONSTANTS s0, s1, swapped, order, cancel, cancelled, order2, cancel2, matched

TwoShards == {s0, s1}

SomeKinds ==
  [t \in Txs |-> CASE t \in {order, order2}        -> "order"
                   [] t = swapped                -> "respond"
                   [] t \in {cancel, cancel2}     -> "withdraw"
                   [] t \in {cancelled, matched}  -> "withdrawn"]

SomeTargets ==
  [t \in Txs |-> CASE t = swapped             -> order
                   [] t = cancel              -> order
                   [] t = cancelled           -> cancel
                   [] t \in {cancel2, matched} -> order2
                   [] OTHER                   -> NoTx]

\* An order with a withdrawal on one shard.  On the other an order whose
\* withdrawal may be refused, and that is then matched in full, and the
\* responses to the transactions of the first, which may come before them.
AnswersElsewhere ==
  s0 :> <<order, cancel>> @@ s1 :> <<order2, swapped, cancel2, cancelled, matched>>
=============================================================================
