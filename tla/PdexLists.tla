------------------------------ MODULE PdexLists ------------------------------
(***************************************************************************)
(* What the coin service knows of the pDEX v3 (processBeacon and           *)
(* processPoolPairs in chainsynker/beacon.go, database/pdex.go), and what  *)
(* it answers from it (apiservice/pdexv3.go, utils.go, pools_prefetch.go). *)
(*                                                                         *)
(* For each beacon block the synchroniser writes the pools, the shares,    *)
(* the orders, the staking pools and the stakers of that block's state,    *)
(* and deletes what the state of the block before had and this one has not *)
(* - in fifteen goroutines at once, which share one variable for their     *)
(* errors, and not at all while the synchroniser is behind the chain.     *)
(* What nobody has written for ten minutes is removed by Mongo.  From the  *)
(* saved state and the reward records the liquidity processor derives the  *)
(* yield of each pool.  The query service keeps a copy of the pools and    *)
(* puts an order's answer together from two documents with two authors:    *)
(* its status, of the synchroniser, and its withdrawals, of the trade      *)
(* processor, which knows nothing of the beacon.                           *)
(*                                                                         *)
(* A behaviour follows one history of the chain.  A document of the lists  *)
(* is the height of the block whose values it has.                         *)
(***************************************************************************)
EXTENDS Naturals, FiniteSets, FiniteSetsExt

CONSTANTS
  Pools, Shares, Orders, StakePools, Stakers,   \* what may be in a list
  NoItem,
  LastBlock,           \* the last beacon block; the first is that of the break point
  Histories,      \* what the chain may do, by name: records, see HistoryAssumption
  Direction,      \* 0: the order sells its pool's first token, 1: its second
  Amount,         \* what an order sells, at one for one
  Word,           \* the number of values of a uint64
  FirstCompared   \* up to this block there is no previous state to compare with

Items    == Pools \union Shares \union Orders \union StakePools \union Stakers
Heights  == 0 .. LastBlock
\* A pool can be without liquidity, a share can have rewards of orders only, and
\* a staking pool can be unlisted: in the state and not in its parameters.
Presence == {"absent", "full", "empty", "rewards", "unlisted"}
Withdraw == [order : Orders, block : Heights, sell : 0 .. Amount, buy : 0 .. Amount,
             own : BOOLEAN, refused : BOOLEAN]

ASSUME HistoryAssumption ==
  /\ LastBlock \in Nat \ {0} /\ NoItem \notin Items
  /\ Amount \in Nat /\ Word \in Nat /\ Amount < Word
  /\ FirstCompared \in 1 .. LastBlock
  /\ Direction \in [Orders -> {0, 1}]
  /\ \A n \in DOMAIN Histories : LET c == Histories[n] IN
       /\ c.there \in [Items -> [1 .. LastBlock -> Presence]]
       /\ c.sold \in [Orders -> [1 .. LastBlock -> 0 .. Amount]]
       /\ c.withdrawals \subseteq Withdraw /\ IsFiniteSet(c.withdrawals)
       /\ c.maxFaults \in Nat   \* bound: ends and unseen failures in this history

VARIABLES
  chain,      \* the name of this behaviour's history
  best,       \* the best beacon block of the full node
  up,         \* the synchroniser:
  next,       \* the block it takes next,
  cur,        \* the block it has in hand, 0 for none,
  work,       \* and the writes its goroutines still have to do
  height,     \* the last block recorded as processed
  listed,     \* the lists, 0 where there is no document
  state,      \* PDEStateData: the height of the saved state
  records,    \* RewardRecord: batches of a block's rewards
  seen,       \* LastProcessedPdexV3Height of the liquidity processor
  yield,      \* RewardAPYTracking: from which state, 0 for no document
  placed,     \* the trade processor's documents: the orders,
  asked,      \* the withdrawals they name,
  answered,   \* and those with their response
  fetched,    \* retrievePoolList: what it has read, or NoItem
  served,     \* allPoolList
  asking,     \* a request to the query service, and what it has read
  report,     \* its answer
  clean,      \* history: the last block was written in full
  ends, fails \* how often a process has ended, or a write failed unseen

syncVars  == <<up, next, cur, work, height>>
tradeVars == <<placed, asked, answered>>
poolVars  == <<fetched, served>>
askVars   == <<asking, report>>
vars == <<chain, best, syncVars, listed, state, records, seen, yield, tradeVars,
          poolVars, askVars, clean, ends, fails>>

This      == Histories[chain]
At(i, h)  == IF h = 0 THEN "absent" ELSE This.there[i][h]
There(h)  == {i \in Items : At(i, h) # "absent"}
Sold(o, h) == IF h = 0 THEN 0 ELSE This.sold[o][h]
Of(S, o)  == {w \in S : w.order = o}

\* What withdrawals take of what an order sells and of what it buys.
Sells(S) == MapThenSumSet(LAMBDA w : w.sell, S)
Buys(S)  == MapThenSumSet(LAMBDA w : w.buy, S)

\* An order on the book: the withdrawals that the chain has granted, what it still
\* sells, and what it has bought and not paid out.
Granted(o, h) == {w \in Of(This.withdrawals, o) : ~w.refused /\ w.block <= h}
ToSell(o, h)  == Amount - Sold(o, h) - Sells(Granted(o, h))
Bought(o, h)  == Sold(o, h) - Buys(Granted(o, h))

\* LimitOrderStatus: Token0Balance and Token1Balance of the order on the book.
Token1Balance(o, h) == IF Direction[o] = 0 THEN ToSell(o, h) ELSE Bought(o, h)
Token2Balance(o, h) == IF Direction[o] = 0 THEN Bought(o, h) ELSE ToSell(o, h)

Nobody   == [kind |-> "none"]
Question == {Nobody}
  \union [kind : {"status"}, order : Orders, asked : SUBSET This.withdrawals,
          answered : SUBSET This.withdrawals]
  \union [kind : {"book"}, order : Orders, height : Heights]
Answers  == {Nobody}
  \union [kind : {"status"}, order : Orders, height : Heights, matched : 0 .. Word - 1,
          done : BOOLEAN, answered : SUBSET This.withdrawals]
  \union [kind : {"book"}, order : Orders, height : Heights, known : BOOLEAN,
          remain : 0 .. Word - 1]

Tasks == ({"write", "delete"} \X Items) \union ({"state", "records"} \X {NoItem})

TypeOK ==
  /\ chain \in DOMAIN Histories
  /\ best \in Heights /\ height \in Heights /\ cur \in Heights
  /\ up \in BOOLEAN /\ clean \in BOOLEAN
  /\ next \in 1 .. LastBlock + 1
  /\ work \subseteq Tasks /\ (cur = 0 => work = {})
  /\ listed \in [Items -> 0 .. best]
  /\ state \in 0 .. best
  /\ records \in [1 .. LastBlock -> 0 .. ends + 1]
  /\ seen \in 0 .. best /\ yield \in [Pools \union StakePools -> 0 .. seen]
  /\ placed \subseteq Orders
  /\ answered \subseteq asked /\ asked \subseteq This.withdrawals
  /\ (fetched = {NoItem} \/ fetched \subseteq Pools) /\ served \subseteq Pools
  /\ asking \in Question /\ report \in Answers
  /\ ends \in Nat /\ fails \in Nat /\ ends + fails <= This.maxFaults

Init ==
  /\ chain \in DOMAIN Histories
  /\ best = 1
  /\ up = TRUE /\ next = 1 /\ cur = 0 /\ work = {} /\ height = 0
  /\ listed = [i \in Items |-> 0]
  /\ state = 0
  /\ records = [h \in 1 .. LastBlock |-> 0]
  /\ seen = 0
  /\ yield = [i \in Pools \union StakePools |-> 0]
  /\ placed = {} /\ asked = {} /\ answered = {}
  /\ fetched = {NoItem} /\ served = {}
  /\ asking = Nobody /\ report = Nobody
  /\ clean = FALSE
  /\ ends = 0 /\ fails = 0

-----------------------------------------------------------------------------
(* The synchroniser. *)

\* The full node gets a block.
Grow ==
  /\ best < LastBlock
  /\ best' = best + 1
  /\ UNCHANGED <<chain, syncVars, listed, state, records, seen, yield, tradeVars, poolVars,
                 askVars, clean, ends, fails>>

\* Mutant: a restart takes the state of the block itself for the previous one.
MutPrevious(h) == IF h <= FirstCompared THEN {} ELSE {i \in Items : At(i, h) # "absent"}
\* prevStateV2: in memory, or after a start from the node's database.
Previous(h) == IF h <= FirstCompared THEN {} ELSE {i \in Items : At(i, h - 1) # "absent"}

\* processPoolPairs: what was there and is no more; a share is looked for among
\* the previous shares and not among the previous rewards of orders.
Gone(h) == {i \in Previous(h) \ There(h) : At(i, h - 1) # "rewards"}
\* And the staking pools that the parameters do not name, which are written as well.
ToBeDeleted(h) == Gone(h) \union {i \in StakePools : At(i, h) = "unlisted"}

\* willProcess: the lists are left alone as long as the node is ahead.
Follows(h) == h + 2 > best

\* There are rewards when there is a previous state, be it an empty one.
Rewards(h) == IF h > 1 THEN {<<"records", NoItem>>} ELSE {}

\* The goroutines of a block.
WorkOf(h) ==
  {<<"state", NoItem>>} \union
  (IF ~Follows(h) THEN {}
   ELSE ({"write"} \X There(h)) \union ({"delete"} \X ToBeDeleted(h)) \union Rewards(h))

\* processBeacon, up to the goroutines.
Begin ==
  /\ up /\ cur = 0 /\ next <= best
  /\ cur' = next
  /\ work' = WorkOf(next)
  /\ clean' = Follows(next)
  /\ UNCHANGED <<chain, best, up, next, height, listed, state, records, seen, yield, tradeVars,
                 poolVars, askVars, ends, fails>>

\* Their writes: an upsert, a removal, the state, and the rewards, which have no
\* unique index: a block processed again adds them again.
Upsert(i)  == listed' = [listed EXCEPT ![i] = cur] /\ UNCHANGED <<state, records>>
Delete(i)  == listed' = [listed EXCEPT ![i] = 0] /\ UNCHANGED <<state, records>>
SaveState  == state' = cur /\ UNCHANGED <<listed, records>>
SaveRecord == records' = [records EXCEPT ![cur] = @ + 1] /\ UNCHANGED <<listed, state>>

\* A goroutine's next write.
Write(t) ==
  /\ t \in work
  /\ work' = work \ {t}
  /\ CASE t[1] = "write"   -> Upsert(t[2])
       [] t[1] = "delete"  -> Delete(t[2])
       [] t[1] = "state"   -> SaveState
       [] t[1] = "records" -> SaveRecord
  /\ UNCHANGED <<chain, best, up, next, cur, height, seen, yield, tradeVars, poolVars, askVars,
                 clean, ends, fails>>

\* The list that a write belongs to: its goroutine stops at the first error.
ListOf(i) == CHOOSE l \in {Pools, Shares, Orders, StakePools, Stakers} : i \in l

\* A write fails and another goroutine sets the shared err to nil before this one
\* looks at it: the rest of the list is left out and the block is recorded.
\* (When it does look first the process panics: End.)  Not in the last block,
\* after which a real chain would go on.
FailUnseen(t) ==
  LET lost == {t} \union {u \in work : t[1] \in {"write", "delete"} /\ u[1] = t[1]
                                         /\ u[2] \in ListOf(t[2])}
  IN /\ t \in work /\ work \ lost # {}
     /\ ends + fails < This.maxFaults /\ cur < LastBlock
     /\ fails' = fails + 1
     /\ work' = work \ lost
     /\ clean' = FALSE
     /\ UNCHANGED <<chain, best, up, next, cur, height, listed, state, records, seen, yield,
                    tradeVars, poolVars, askVars, ends>>

\* Every goroutine is done: the block is recorded (in detail in ChainSync).
Finish ==
  /\ cur # 0 /\ work = {}
  /\ height' = cur /\ next' = cur + 1 /\ cur' = 0
  /\ UNCHANGED <<chain, best, up, work, listed, state, records, seen, yield, tradeVars,
                 poolVars, askVars, clean, ends, fails>>

\* A panic or a kill.
End ==
  /\ up /\ ends + fails < This.maxFaults
  /\ ends' = ends + 1
  /\ up' = FALSE /\ cur' = 0 /\ work' = {} /\ clean' = FALSE
  /\ UNCHANGED <<chain, best, next, height, listed, state, records, seen, yield, tradeVars,
                 poolVars, askVars, fails>>

\* Mutant: a start with nothing recorded takes block 0.
MutStart ==
  /\ ~up
  /\ up' = TRUE
  /\ next' = height
  /\ UNCHANGED <<chain, best, cur, work, height, listed, state, records, seen, yield,
                 tradeVars, poolVars, askVars, clean, ends, fails>>
\* A start goes on with the last recorded block, that block included.
Start ==
  /\ ~up
  /\ up' = TRUE
  /\ next' = IF height = 0 THEN 1 ELSE height
  /\ UNCHANGED <<chain, best, cur, work, height, listed, state, records, seen, yield,
                 tradeVars, poolVars, askVars, clean, ends, fails>>

\* The index on updated_at: Mongo removes what nobody has written for ten minutes,
\* that is, what the last block has left alone, or anything while no block comes.
Overtaken(i) == listed[i] # 0 /\ listed[i] < height
Expire(i) ==
  /\ Overtaken(i) \/ (listed[i] # 0 /\ ~up)
  /\ listed' = [listed EXCEPT ![i] = 0]
  /\ UNCHANGED <<chain, best, syncVars, state, records, seen, yield, tradeVars, poolVars,
                 askVars, clean, ends, fails>>

-----------------------------------------------------------------------------
(* The processors. *)

\* getPdexToProcess: the query asks for a height above height+1.
NewState == state > seen + 1

\* processPoolRewardAPY and DBUpdatePDEPoolPairRewardAPY, in a round of the
\* liquidity processor.
Rate ==
  /\ NewState
  /\ seen' = state
  /\ yield' = [i \in DOMAIN yield |-> IF i \in There(state) THEN state ELSE yield[i]]
  /\ UNCHANGED <<chain, best, syncVars, listed, state, records, tradeVars, poolVars, askVars,
                 clean, ends, fails>>

\* The trade processor writes an order, the request of a withdrawal (or that it
\* was refused), and its response, which may be there before the request.
Place(o) ==
  /\ o \notin placed /\ \E h \in 1 .. best : o \in There(h)
  /\ placed' = placed \union {o}
  /\ UNCHANGED <<asked, answered>>
Ask(w) ==
  /\ w \in This.withdrawals \ asked /\ ~w.own
  /\ w.order \in placed
  /\ asked' = asked \union {w}
  /\ UNCHANGED <<placed, answered>>
\* A shard pays when it knows the beacon block that says so: the synchroniser may
\* process the payment before that block.
Answer(w) ==
  /\ w \in This.withdrawals \ answered /\ ~w.refused
  /\ w.order \in placed /\ w.block <= best
  /\ asked' = asked \union {w}
  /\ answered' = answered \union {w}
  /\ UNCHANGED placed

ProcessTrades ==
  /\ (\E o \in Orders : Place(o)) \/ (\E w \in This.withdrawals : Ask(w) \/ Answer(w))
  /\ UNCHANGED <<chain, best, syncVars, listed, state, records, seen, yield, poolVars, askVars,
                 clean, ends, fails>>

-----------------------------------------------------------------------------
(* The query service. *)

ReadingPools == fetched # {NoItem}

\* retrievePoolList reads the pools,
ReadPools ==
  /\ ~ReadingPools
  /\ fetched' = {p \in Pools : listed[p] # 0 /\ At(p, listed[p]) # "empty"}
  /\ UNCHANGED served
\* and replaces what it serves.
Publish ==
  /\ ReadingPools
  /\ served' = fetched
  /\ fetched' = {NoItem}
\* A goroutine leaves the wait group before it sends its pool: when the channel
\* is closed in between the service panics, and starts with nothing.
PublishPanics ==
  /\ ReadingPools /\ fetched # {}
  /\ ends + fails < This.maxFaults
  /\ served' = {}
  /\ fetched' = {NoItem}

PoolListWatcher ==
  /\ \/ (ReadPools \/ Publish) /\ UNCHANGED ends
     \/ PublishPanics /\ ends' = ends + 1
  /\ UNCHANGED <<chain, best, syncVars, listed, state, records, seen, yield, tradeVars, askVars,
                 clean, fails>>

\* TradeStatus, TradeDetail and PendingLimit: the order's document first,
AskStatus(o) ==
  /\ asking = Nobody /\ o \in placed
  /\ asking' = [kind |-> "status", order |-> o, asked |-> Of(asked, o),
                answered |-> Of(answered, o)]
  /\ report' = Nobody

\* Mutant: the direction of the order is not looked at.
MutSellTokenBalance(o, h) == IF h = 0 THEN 0 ELSE Token1Balance(o, h)
\* getTradeStatus: the balances, zero when there is no status.
SellTokenBalance(o, h) ==
  IF h = 0 THEN 0 ELSE IF Direction[o] = 0 THEN Token1Balance(o, h) ELSE Token2Balance(o, h)
BuyTokenBalance(o, h) ==
  IF h = 0 THEN 0 ELSE IF Direction[o] = 0 THEN Token2Balance(o, h) ELSE Token1Balance(o, h)

\* Mutant: an order that names one withdrawal is done, whoever asked for it.
MutGetTradeStatus(o, a, h) ==
  LET orderAmount == IF h = 0 /\ a.asked = {} THEN 0 ELSE Amount
      withdrawn == Sells(a.answered)
  IN [kind |-> "status", order |-> o, height |-> h, answered |-> a.answered,
      matched |-> (orderAmount + 2 * Word - SellTokenBalance(o, h) - withdrawn) % Word,
      done |-> Cardinality(a.asked) = 1]
\* getTradeStatus, of an order that was not refused, in the arithmetic of uint64.
GetTradeStatus(o, a, h) ==
  LET orderAmount == IF h = 0 /\ a.asked = {} THEN 0 ELSE Amount
      withdrawn == Sells(a.answered)
      isCompleted == \/ /\ SellTokenBalance(o, h) = 0 /\ BuyTokenBalance(o, h) = 0
                        /\ a.asked # {}
                     \/ Cardinality(a.asked) = 1 /\ \E w \in a.asked : w.own
  IN [kind |-> "status", order |-> o, height |-> h, answered |-> a.answered,
      matched |-> (orderAmount + 2 * Word - SellTokenBalance(o, h) - withdrawn) % Word,
      done |-> isCompleted]

\* and then its status.
TellStatus ==
  /\ asking.kind = "status"
  /\ report' = GetTradeStatus(asking.order, asking, listed[asking.order])
  /\ asking' = Nobody

\* PendingOrder: the statuses of a pair first,
AskBook(o) ==
  /\ asking = Nobody /\ listed[o] # 0
  /\ SellTokenBalance(o, listed[o]) # 0
  /\ asking' = [kind |-> "book", order |-> o, height |-> listed[o]]
  /\ report' = Nobody
\* and then the orders.  An order that is not known has the amount zero.
TellBook ==
  /\ asking.kind = "book"
  /\ LET o == asking.order
         minAccept == IF o \in placed THEN Amount ELSE 0
     IN report' = [kind |-> "book", order |-> o, height |-> asking.height,
                   known |-> o \in placed,
                   remain |-> (minAccept + Word - BuyTokenBalance(o, asking.height)) % Word]
  /\ asking' = Nobody

Query ==
  /\ (\E o \in Orders : AskStatus(o) \/ AskBook(o)) \/ TellStatus \/ TellBook
  /\ UNCHANGED <<chain, best, syncVars, listed, state, records, seen, yield, tradeVars, poolVars,
                 clean, ends, fails>>
QueryStatus == Query /\ (asking = Nobody => asking'.kind = "status")

-----------------------------------------------------------------------------
Synchronise == Start \/ Begin \/ (\E t \in work : Write(t)) \/ Finish

Next ==
  \/ Grow
  \/ Synchronise
  \/ \E t \in work : FailUnseen(t)
  \/ End
  \/ \E i \in Items : Expire(i)
  \/ Rate
  \/ ProcessTrades
  \/ PoolListWatcher
  \/ Query

Spec == Init /\ [][Next]_vars

\* The chain grows, every process goes on, Mongo's monitor removes what is old,
\* and somebody asks for a status now and then.
Fairness ==
  /\ WF_vars(Grow)
  /\ WF_vars(Synchronise)
  /\ WF_vars(\E i \in Items : Overtaken(i) /\ Expire(i))
  /\ WF_vars(Rate)
  /\ WF_vars(ProcessTrades)
  /\ WF_vars(PoolListWatcher)
  /\ WF_vars(QueryStatus)
FairSpec == Spec /\ Fairness

-----------------------------------------------------------------------------
(* Properties *)

\* Once a block's goroutines are done, whatever their order and however often the
\* process ended before, the lists are those of its state: everything that is
\* there has its values, and what has left with this block is listed no more,
\* except a share that had only rewards of orders.  Its rewards are recorded, once
\* more at most than the process has ended.
ListsFollowChain ==
  clean /\ cur = 0 =>
    /\ state = height
    /\ \A i \in There(height) : At(i, height) = "unlisted" \/ listed[i] = height
    /\ \A i \in Items \ There(height) :
         height > FirstCompared /\ At(i, height - 1) \notin {"absent", "rewards"}
           => listed[i] = 0
    /\ height > 1 => records[height] \in 1 .. ends + 1

\* What an order's answer adds up to, though its two documents are read one after
\* the other and written by two processes.  The matched amount lies between what
\* the chain had matched and the order's amount, unless a withdrawal newer than
\* the status was in the order's document (then the subtraction may wrap) or
\* neither document says anything.  And done is said of an order on record only
\* when it has left the book.  On the book of a pool what remains to be bought
\* is at least what the order still sells.
IsOver(o) == o \notin There(best) /\ \E h \in 1 .. best : o \in There(h)
ReportsAddUp ==
  /\ report.kind = "status" =>
       LET o == report.order
           newest == IF report.height = 0 THEN best ELSE report.height
       IN /\ \/ \E w \in report.answered : w.block > newest
             \/ report.height = 0 /\ report.matched = 0
             \/ report.height = 0 /\ report.matched \in 0 .. Amount
             \/ report.matched \in Sold(o, newest) .. Amount
          /\ report.done /\ report.height # 0 => IsOver(o)
  /\ report.kind = "book" /\ report.known =>
       report.remain \in SellTokenBalance(report.order, report.height) .. Amount

\* In the end, when the chain rests, everything that is listed is there and
\* everything there is listed with its last values; every staking pool that is
\* listed has a yield; the query service serves the pools with liquidity, and
\* tells of each order what was matched, and that it is done exactly if it has
\* left the book.
Settled ==
  /\ \A i \in Items : At(i, LastBlock) # "unlisted" =>
       listed[i] = IF i \in There(LastBlock) THEN LastBlock ELSE 0
  /\ \A k \in StakePools : listed[k] # 0 => yield[k] # 0
  /\ served = {p \in Pools : At(p, LastBlock) = "full"}
  /\ report.kind = "status" =>
       /\ report.matched = Sold(report.order, LastBlock)
       /\ report.done <=> IsOver(report.order)
AnswersSettle == <>[]Settled

\* What the chain's book of orders keeps (external: blockchain/pdex), for the
\* theorems.  The withdrawals take no more than an order has; an order that has
\* nothing left is off the book; and one that the chain has paid out by itself was
\* on the book before, and never is again.
BookKept ==
  \A n \in DOMAIN Histories : \A o \in Orders :
    LET c == Histories[n]
        taken(h) == {w \in c.withdrawals : w.order = o /\ ~w.refused /\ w.block <= h}
        onBook  == {h \in 1 .. LastBlock : c.there[o][h] # "absent"}
    IN /\ \A h \in 1 .. LastBlock :
            /\ c.sold[o][h] + Sells(taken(h)) <= Amount /\ Buys(taken(h)) <= c.sold[o][h]
            /\ h \in onBook => \/ c.sold[o][h] + Sells(taken(h)) < Amount
                              \/ Buys(taken(h)) < c.sold[o][h]
       /\ \A w \in c.withdrawals : w.order = o /\ w.own /\ ~w.refused =>
            /\ \E h \in onBook : h < w.block
            /\ \A h \in onBook : h < w.block
==============================================================================
