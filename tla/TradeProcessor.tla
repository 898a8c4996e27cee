--------------------------- MODULE TradeProcessor ---------------------------
(***************************************************************************)
(* The trade processor (processors/trade/trade.go with the writes of       *)
(* database/pdex.go).  It turns the transactions that the synchroniser's   *)
(* shards insert into one document per order: a round takes the next batch *)
(* of transactions behind its cursor, writes the four kinds of them one    *)
(* kind after the other, saves the cursor and then looks for withdrawals   *)
(* that the beacon has refused.  The process may end between any two of    *)
(* these writes; the batch is then written again.                          *)
(*                                                                         *)
(* The _id of a transaction is made by the shard's goroutine, before the   *)
(* insert that makes the transaction visible, so that transactions of two  *)
(* shards may appear in another order than that of their ids.  Shards do   *)
(* not wait for each other's orders: a response may have a smaller _id     *)
(* than its request on another shard.                                      *)
(***************************************************************************)
EXTENDS Naturals, Sequences, FiniteSets

CONSTANTS
  Shards,      \* the shards whose goroutines insert transactions
  Chain,       \* Chain[s]: the transactions of shard s, in their order
  Txs,         \* all of them
  Kind,        \* order, respond, withdraw or withdrawn, for each transaction
  Target,      \* what it answers: an order, or for withdrawn a withdrawal
  NoTx,
  Limit,       \* the size of a batch, 5000 in the code
  PageSize,    \* the size of a page of pending orders, 10000 in the code
  MaxCrash     \* bound: ends of the process

Kinds      == {"order", "respond", "withdraw", "withdrawn"}
OfKind(k)  == {t \in Txs : Kind[t] = k}
Orders     == OfKind("order")
Withdraws  == OfKind("withdraw")
Answers(w) == {x \in OfKind("withdrawn") : Target[x] = w}

ASSUME ChainAssumption ==
  /\ Chain \in [Shards -> Seq(Txs)]
  /\ NoTx \notin Txs
  /\ IsFiniteSet(Txs)
ASSUME KindAssumption ==
  /\ Kind \in [Txs -> Kinds]
  /\ Target \in [Txs -> Txs \union {NoTx}]
  /\ \A t \in OfKind("respond") \union Withdraws : Target[t] \in Orders
  /\ \A t \in OfKind("withdrawn") : Target[t] \in Withdraws \union Orders
ASSUME BoundsAssumption ==
  Limit \in Nat \ {0} /\ PageSize \in Nat \ {0} /\ MaxCrash \in Nat

VARIABLES
  pos,         \* the place of a transaction's _id among all, 0 before it has one
  visible,     \* the transactions whose insert has happened
  inserting,   \* the transaction each shard is inserting
  refused,     \* the withdrawals that the beacon has refused
  pc,          \* where the processor is
  batch,       \* txList,
  rest,        \* and what is left of it for the current write
  cursor,      \* LastProcessedObjectID
  saved,       \* the same in Mongo
  offset,      \* of updateTradeStatus,
  page,        \* and what is left of its page
  born,        \* the place of an order's document by _id, 0 if there is none
  requested,   \* the orders whose document has the fields of the request
  listed,      \* how often a response is listed in its order's document
  withdraws,   \* the withdrawals in WithdrawTxs of their order's document,
  pendings,    \* in its WithdrawPendings,
  rejected,    \* and those marked IsRejected in its WithdrawInfos
  late,        \* history: what became visible behind the processor
  crashes

feedVars == <<pos, visible, inserting, refused>>
docVars  == <<born, requested, listed, withdraws, pendings, rejected>>
procVars == <<pc, batch, rest, cursor, saved, offset, page>>
vars     == <<feedVars, procVars, docVars, late, crashes>>

\* Mutant: the responses to withdrawals are written before the withdrawals.
MutAfterWrite ==
  [order |-> "respond", respond |-> "withdrawn", withdrawn |-> "withdraw",
   withdraw |-> "cursor"]

\* The writes of a round, in their order, and what follows them.
AfterWrite ==
  [order |-> "respond", respond |-> "withdraw", withdraw |-> "withdrawn",
   withdrawn |-> "cursor"]

TypeOK ==
  /\ pos \in [Txs -> Nat]
  /\ visible \subseteq Txs
  /\ inserting \in [Shards -> Txs \union {NoTx}]
  /\ refused \subseteq Withdraws
  /\ pc \in Kinds \union {"load", "fetch", "cursor", "page", "refresh"}
  /\ batch \subseteq Txs /\ rest \subseteq batch
  /\ cursor \in Nat /\ saved \in Nat /\ offset \in Nat
  /\ page \subseteq Orders
  /\ born \in [Orders -> Nat]
  /\ requested \subseteq Orders
  /\ listed \in [Txs -> Nat]
  /\ withdraws \subseteq Withdraws
  /\ pendings \subseteq withdraws
  /\ rejected \subseteq Withdraws
  /\ late \subseteq visible
  /\ crashes \in 0 .. MaxCrash

Init ==
  /\ pos = [t \in Txs |-> 0]
  /\ visible = {}
  /\ inserting = [s \in Shards |-> NoTx]
  /\ refused = {}
  /\ pc = "load"
  /\ batch = {}
  /\ rest = {}
  /\ cursor = 0
  /\ saved = 0
  /\ offset = 0
  /\ page = {}
  /\ born = [o \in Orders |-> 0]
  /\ requested = {}
  /\ listed = [t \in Txs |-> 0]
  /\ withdraws = {}
  /\ pendings = {}
  /\ rejected = {}
  /\ late = {}
  /\ crashes = 0

-----------------------------------------------------------------------------
(* The synchroniser: DBSaveTXs, and the instructions of the beacon. *)

\* The driver makes the _id of the shard's next transaction ...
BeginInsert(s) ==
  /\ inserting[s] = NoTx
  /\ \E i \in DOMAIN Chain[s] :
       /\ pos[Chain[s][i]] = 0
       /\ \A j \in 1 .. i - 1 : pos[Chain[s][j]] # 0
       /\ inserting' = [inserting EXCEPT ![s] = Chain[s][i]]
       /\ pos' = [pos EXCEPT ![Chain[s][i]] =
                    Cardinality({t \in Txs : pos[t] # 0}) + 1]
  /\ UNCHANGED <<visible, refused, procVars, docVars, late, crashes>>

\* The processor has passed the place of t, or will when it saves its cursor.
Behind(t) == pos[t] <= saved \/ \E u \in batch : pos[t] <= pos[u]

\* ... and the insert makes the transaction visible.
EndInsert(s) ==
  LET t == inserting[s] IN
  /\ t # NoTx
  /\ inserting' = [inserting EXCEPT ![s] = NoTx]
  /\ visible' = visible \union {t}
  /\ late' = IF Behind(t) THEN late \union {t} ELSE late
  /\ UNCHANGED <<pos, refused, procVars, docVars, crashes>>

\* The synchroniser's beacon, which is behind the shards, saves the refusal of
\* a withdrawal; no response to it will follow.
Refuse(w) ==
  /\ w \in visible \ refused
  /\ Answers(w) = {}
  /\ refused' = refused \union {w}
  /\ UNCHANGED <<pos, visible, inserting, procVars, docVars, late, crashes>>

-----------------------------------------------------------------------------
(* The processor. *)

\* loadState
Start ==
  /\ pc = "load"
  /\ pc' = "fetch"
  /\ cursor' = saved
  /\ UNCHANGED <<feedVars, batch, rest, saved, offset, page, docVars, late, crashes>>

\* b is what a query sorted by _id returns of the transactions S.
FirstOf(S, b) ==
  /\ b \subseteq S
  /\ Cardinality(b) = IF Cardinality(S) < Limit THEN Cardinality(S) ELSE Limit
  /\ \A t \in b, u \in S \ b : pos[t] < pos[u]

\* The processor takes a batch; processTradeToken sorts it by kind.
Take(b) ==
  /\ pc' = "order"
  /\ batch' = b
  /\ rest' = b \intersect OfKind("order")
  /\ late' = late \ b
  /\ UNCHANGED <<feedVars, cursor, saved, offset, page, docVars, crashes>>

\* Mutant: the query is for _id >= cursor.
MutFetchAgain ==
  /\ pc = "fetch"
  /\ \E b \in SUBSET visible :
       FirstOf({t \in visible : pos[t] >= cursor}, b) /\ Take(b)

\* Mutant: the result is not sorted.
MutFetchUnsorted ==
  /\ pc = "fetch"
  /\ \E b \in SUBSET {t \in visible : pos[t] > cursor} :
       Cardinality(b) <= Limit /\ Take(b)

\* getTxToProcess: what is visible behind the cursor, by _id, Limit at most.
Fetch ==
  /\ pc = "fetch"
  /\ \E b \in SUBSET visible :
       FirstOf({t \in visible : pos[t] > cursor}, b) /\ Take(b)

\* One of the four database calls is done, or was given nothing to do.
NextWrite ==
  /\ pc \in Kinds
  /\ rest = {}
  /\ pc' = AfterWrite[pc]
  /\ rest' = {t \in batch : Kind[t] = AfterWrite[pc]}
  /\ UNCHANGED <<feedVars, batch, cursor, saved, offset, page, docVars, late, crashes>>

\* The next transaction of the current kind is written to the document of o.
Writing(kind, t) ==
  /\ pc = kind
  /\ \A u \in rest : pos[t] <= pos[u]
  /\ rest' = rest \ {t}
  /\ UNCHANGED <<feedVars, pc, batch, cursor, saved, offset, page, late, crashes>>

\* A document that is not there yet gets the next _id.
Upserted(o) ==
  IF born[o] # 0 THEN born
  ELSE [born EXCEPT ![o] = Cardinality({p \in Orders : born[p] # 0}) + 1]

\* DBSaveTradeOrder: an insert, or $set of the order's own fields when the
\* document is there already.
DBSaveTradeOrder ==
  \E o \in rest :
    /\ Writing("order", o)
    /\ born' = Upserted(o)
    /\ requested' = requested \union {o}
    /\ UNCHANGED <<listed, withdraws, pendings, rejected>>

\* DBUpdateTradeOrder: $push of the response, with upsert.
DBUpdateTradeOrder ==
  \E r \in rest :
    /\ Writing("respond", r)
    /\ born' = Upserted(Target[r])
    /\ listed' = [listed EXCEPT ![r] = @ + 1]
    /\ UNCHANGED <<requested, withdraws, pendings, rejected>>

\* Mutant: the withdrawal is not added to WithdrawTxs.
MutWithdrawNotListed ==
  \E w \in rest :
    /\ Writing("withdraw", w)
    /\ pendings' = IF born[Target[w]] = 0 THEN pendings ELSE pendings \union {w}
    /\ UNCHANGED <<born, requested, listed, withdraws, rejected>>

\* DBUpdateWithdrawTradeOrderReq: $push, $addToSet and a fresh WithdrawInfo;
\* no upsert, so that without a document nothing happens.
DBUpdateWithdrawTradeOrderReq ==
  \E w \in rest :
    /\ Writing("withdraw", w)
    /\ IF born[Target[w]] = 0
       THEN UNCHANGED <<listed, withdraws, pendings, rejected>>
       ELSE /\ withdraws' = withdraws \union {w}
            /\ pendings' = pendings \union {w}
            /\ rejected' = rejected \ {w}
            /\ listed' = [x \in Txs |-> IF x \in Answers(w) THEN 0 ELSE listed[x]]
    /\ UNCHANGED <<born, requested>>

\* The responses kept in the WithdrawInfos of an order's document.
InfosOf(o) ==
  Answers(o) \union UNION {Answers(w) : w \in {v \in Withdraws : Target[v] = o}}

\* Mutant: the response does not take the withdrawal out of the pending ones.
MutAnswerKeepsPending ==
  \E x \in rest :
    /\ Writing("withdrawn", x)
    /\ listed' = IF Target[x] \in withdraws THEN [listed EXCEPT ![x] = @ + 1] ELSE listed
    /\ UNCHANGED <<born, requested, withdraws, pendings, rejected>>

\* DBUpdateWithdrawTradeOrderRes: the document that lists the withdrawal gets
\* the response and forgets that it is pending.  If there is none the response
\* is taken for that of an order that was matched in full, and replaces the
\* WithdrawInfos of that order.
DBUpdateWithdrawTradeOrderRes ==
  \E x \in rest :
    LET w == Target[x] IN
    /\ Writing("withdrawn", x)
    /\ \/ /\ w \in withdraws
          /\ pendings' = pendings \ {w}
          /\ listed' = [listed EXCEPT ![x] = @ + 1]
          /\ UNCHANGED rejected
       \/ /\ w \in Orders
          /\ born[w] # 0
          /\ listed' = [y \in Txs |-> CASE y = x          -> 1
                                       [] y \in InfosOf(w) -> 0
                                       [] OTHER           -> listed[y]]
          /\ rejected' = {v \in rejected : Target[v] # w}
          /\ UNCHANGED pendings
       \/ /\ w \notin withdraws
          /\ w \in Orders => born[w] = 0
          /\ UNCHANGED <<listed, pendings, rejected>>
    /\ UNCHANGED <<born, requested, withdraws>>

\* The end of the writes: the last of the batch becomes the cursor, in memory
\* and in Mongo; an empty batch leaves both alone.
EndWrites ==
  /\ pc = "cursor"
  /\ \/ \E last \in batch :
          /\ \A t \in batch : pos[t] <= pos[last]
          /\ cursor' = pos[last]
          /\ saved' = pos[last]
     \/ batch = {} /\ UNCHANGED <<cursor, saved>>
  /\ batch' = {}
  /\ rest' = {}
  /\ pc' = "page"
  /\ page' = {}
  /\ UNCHANGED <<feedVars, docVars, late, crashes>>

\* Mutant: the offset of the last round is kept.
MutKeepOffset == EndWrites /\ UNCHANGED offset

\* updateState, and the beginning of updateTradeStatus.
SaveCursor == EndWrites /\ offset' = 0

-----------------------------------------------------------------------------
(* updateTradeStatus: withdrawals that the beacon has refused. *)

PendingOrders == {Target[w] : w \in pendings}

\* DBGetPendingWithdrawOrder: a page of the pending orders, by the _id of
\* their document.
PageAt(n) ==
  {o \in PendingOrders :
     Cardinality({p \in PendingOrders : born[p] < born[o]}) \in n .. n + PageSize - 1}

\* Mutant: the offset stays where it is.
MutGetFirstPage ==
  /\ pc = "page"
  /\ pc' = IF PageAt(offset) = {} THEN "fetch" ELSE "refresh"
  /\ page' = PageAt(offset)
  /\ UNCHANGED <<feedVars, batch, rest, cursor, saved, offset, docVars, late, crashes>>

\* The next page, or the end of the round.
GetPage ==
  /\ pc = "page"
  /\ pc' = IF PageAt(offset) = {} THEN "fetch" ELSE "refresh"
  /\ page' = PageAt(offset)
  /\ offset' = offset + Cardinality(PageAt(offset))
  /\ UNCHANGED <<feedVars, batch, rest, cursor, saved, docVars, late, crashes>>

\* DBGetBeaconInstructionByTx for the withdrawals of an order, and
\* DBUpdatePDETradeWithdrawStatus for those that were refused.
RefreshOrder ==
  /\ pc = "refresh"
  /\ \E o \in page :
       LET no == {w \in withdraws \intersect refused : Target[w] = o} IN
       /\ page' = page \ {o}
       /\ pendings' = pendings \ no
       /\ rejected' = rejected \union no
  /\ UNCHANGED <<feedVars, pc, batch, rest, cursor, saved, offset, born, requested,
                 listed, withdraws, late, crashes>>

EndPage ==
  /\ pc = "refresh"
  /\ page = {}
  /\ pc' = "page"
  /\ UNCHANGED <<feedVars, batch, rest, cursor, saved, offset, page, docVars, late, crashes>>

\* A panic (any failed write), or a kill.
Crash ==
  /\ pc # "load"
  /\ crashes < MaxCrash
  /\ crashes' = crashes + 1
  /\ pc' = "load"
  /\ batch' = {}
  /\ rest' = {}
  /\ cursor' = 0
  /\ offset' = 0
  /\ page' = {}
  /\ UNCHANGED <<feedVars, saved, docVars, late>>

-----------------------------------------------------------------------------
Feed == \E s \in Shards : BeginInsert(s) \/ EndInsert(s)

Decide == \E w \in Withdraws : Refuse(w)

Process ==
  \/ Start \/ Fetch \/ NextWrite
  \/ DBSaveTradeOrder \/ DBUpdateTradeOrder
  \/ DBUpdateWithdrawTradeOrderReq \/ DBUpdateWithdrawTradeOrderRes
  \/ SaveCursor \/ GetPage \/ RefreshOrder \/ EndPage

Next == Feed \/ Decide \/ Process \/ Crash

Spec == Init /\ [][Next]_vars

\* The processor is started again when it has ended, and keeps running.
FairSpec == Spec /\ WF_vars(Process)

-----------------------------------------------------------------------------
(* Properties. *)

\* What the saved cursor has passed, and was there in time.
Passed == {t \in visible \ late : pos[t] <= saved}

\* A transaction that answers another: was that one processed with it or before?
InOrder(t) == Target[t] \in visible \ late /\ pos[Target[t]] < pos[t]

\* Nothing behind the saved cursor is missing from the documents, however the
\* batches, the inserts of the shards and the ends of the process fall: an order
\* has its fields, a response is listed whether it came before its order or
\* after, a withdrawal that came after its order is listed (trade.go: the cursor
\* is saved after the four writes of its batch).
PassedIsApplied ==
  \A t \in Passed :
    /\ Kind[t] = "order"    => t \in requested
    /\ Kind[t] = "respond"  => listed[t] > 0
    /\ Kind[t] = "withdraw" /\ InOrder(t) => t \in withdraws

\* The same for the response to a withdrawal, which $set of a fresh
\* WithdrawInfo can erase when a batch is written again: it is listed, unless an
\* order matched in full has replaced the WithdrawInfos.
AnswerIsListed ==
  \A x \in Passed :
    /\ Kind[x] = "withdrawn" /\ InOrder(x)
    /\ Target[x] \in Withdraws /\ InOrder(Target[x])
    /\ Answers(Target[Target[x]]) \intersect visible = {}
    => listed[x] > 0

\* A withdrawal is pending from the time it is processed until it is answered
\* or refused: an answer that has been processed is never forgotten by a
\* repeated $addToSet, and nothing else takes it out.
PendingIffOpen ==
  \A w \in Passed \intersect withdraws :
    /\ (\E x \in Answers(w) \intersect Passed : InOrder(x)) => w \notin pendings
    /\ w \notin pendings => w \in refused \/ Answers(w) \intersect visible # {}

\* $push repeats a response only for an end of the process in between.
RepeatsOnlyByCrash == \A t \in Txs : listed[t] <= crashes + 1

\* The processor passes every transaction in the end.
EverythingPassed == <>[](\A t \in visible : pos[t] <= saved)

\* A withdrawal that the beacon has refused does not stay pending, although
\* updateTradeStatus takes orders out of the set that it pages through.
RefusalSeen ==
  <>[](pendings \intersect refused = {})
=============================================================================
