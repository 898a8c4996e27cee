-------------------------- MODULE MCHistoryProcessors --------------------------
\* HistoryProcessors for TLC: a few requests and responses of each family.
EXTENDS HistoryProcessors, TLC

CONSTANTS shield, shielded, add1, add2, out, outDone, out2, stake, staked

SomeFamilies ==
  [t \in Txs |-> CASE t \in {shield, shielded}       -> "shield"
                   [] t \in {add1, add2}             -> "contribution"
                   [] t \in {out, outDone, out2}         -> "withdraw"
                   [] t \in {stake, staked} -> "stake"]

SomeTargets ==
  [t \in Txs |-> CASE t = shielded -> shield
                   [] t = outDone  -> out
                   [] t = staked   -> stake
                   [] OTHER        -> NoTx]

OnePair == [t \in Txs |-> IF t \in {add1, add2} THEN "pair" ELSE "none"]

\* The sender of the second contribution has set an earlier lock time, and so
\* have those of the response to the shield.
SomeLocktimes ==
  [t \in Txs |-> CASE t \in {add2, shielded}   -> 1
                   [] t \in {add1, out, out2} -> 2
                   [] t \in {shield, stake}   -> 3
                   [] t = staked              -> 4
                   [] t = outDone             -> 5]

\* For the shield processor, and three times for the liquidity processor.
SomeChains ==
  {{shield, shielded}, {add1, add2, stake, staked}, {out, outDone, stake, staked},
   {out, out2}}

\* Each response comes after its request, and the contributions in their order.
ShardOrder == {<<Target[x], x>> : x \in Responds} \union {<<add1, add2>>, <<out, out2>>}

ASSUME AnsweredOnce /\ TwoOfAPair
================================================================================
