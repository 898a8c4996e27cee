----------------------- MODULE TradeProcessor_proofs ------------------------
(***************************************************************************)
(* Proofs about TradeProcessor: its types, and that nothing behind the     *)
(* saved cursor is missing from the documents, for any transactions,       *)
(* shards, sizes of batches and pages, and number of restarts.             *)
(***************************************************************************)
EXTENDS TradeProcessor, FiniteSetTheorems, TLAPS

\* What PassedIsApplied asks for one transaction.
Applied(t) ==
  /\ Kind[t] = "order"    => t \in requested
  /\ Kind[t] = "respond"  => listed[t] > 0
  /\ Kind[t] = "withdraw" /\ InOrder(t) => t \in withdraws

\* The kinds that are written when the processor is at a step.
Before(at) ==
  CASE at = "respond"   -> {"order"}
    [] at = "withdraw"  -> {"order", "respond"}
    [] at = "withdrawn" -> {"order", "respond", "withdraw"}
    [] at = "cursor"    -> Kinds
    [] OTHER            -> {}

Writes == Kinds \union {"cursor"}

\* Where there is a batch, and what the current write is about.
RoundInv ==
  /\ pc \notin Writes => batch = {}
  /\ pc # "load" => cursor = saved
  /\ pc \in Kinds => \A t \in rest : Kind[t] = pc

\* A visible transaction has an _id, those of the batch are behind the cursor.
PlaceInv ==
  /\ \A t \in visible : pos[t] # 0
  /\ \A s \in Shards : inserting[s] # NoTx => pos[inserting[s]] # 0
  /\ batch \subseteq visible
  /\ \A t \in batch : pos[t] > saved

\* The batch has no gap, except for what was not visible in time.
NoGapInv ==
  \A t \in visible \ late, u \in batch :
    saved < pos[t] /\ pos[t] <= pos[u] => t \in batch

\* A document with the fields of an order exists.
BornInv == \A o \in requested : born[o] # 0

\* What the round has written is in the documents.
DoneInv ==
  \A t \in batch :
    Kind[t] \in Before(pc) \/ (Kind[t] = pc /\ t \notin rest) => Applied(t)

AppliedInv == \A t \in Passed : Applied(t)

IInv ==
  /\ TypeOK /\ RoundInv /\ PlaceInv /\ NoGapInv /\ BornInv /\ DoneInv /\ AppliedInv

-----------------------------------------------------------------------------
LEMMA ExceptType ==
  ASSUME NEW S, NEW T, NEW f \in [S -> T], NEW x, NEW v \in T
  PROVE  [f EXCEPT ![x] = v] \in [S -> T]
OBVIOUS

\* A set of transactions has a number of elements.
LEMMA CountNat == ASSUME NEW S \in SUBSET Txs PROVE Cardinality(S) \in Nat
BY FS_Subset, FS_CardinalityType, ChainAssumption

LEMMA OrdersAreTxs == Orders \subseteq Txs /\ Withdraws \subseteq Txs
BY DEF Orders, Withdraws, OfKind

LEMMA UpsertedType ==
  ASSUME TypeOK, NEW o
  PROVE  Upserted(o) \in [Orders -> Nat] /\ (o \in Orders => Upserted(o)[o] # 0)
         /\ \A p \in Orders : born[p] # 0 => Upserted(o)[p] # 0
<1> DEFINE next == Cardinality({p \in Orders : born[p] # 0}) + 1
<1>1. next \in Nat /\ next # 0
  <2>1. {p \in Orders : born[p] # 0} \in SUBSET Txs
    BY OrdersAreTxs
  <2>2. Cardinality({p \in Orders : born[p] # 0}) \in Nat
    BY <2>1, CountNat
  <2> QED
    BY <2>2
<1>2. born \in [Orders -> Nat]
  BY DEF TypeOK
<1>3. Upserted(o) = IF born[o] # 0 THEN born ELSE [born EXCEPT ![o] = next]
  BY DEF Upserted
<1> HIDE DEF next
<1>4. CASE born[o] # 0
  <2>1. Upserted(o) = born
    BY <1>3, <1>4
  <2> QED
    BY <1>2, <1>4, <2>1
<1>5. CASE born[o] = 0
  <2>1. Upserted(o) = [born EXCEPT ![o] = next]
    BY <1>3, <1>5
  <2> QED
    BY <1>1, <1>2, <2>1
<1> QED
  BY <1>4, <1>5

\* Every step respects the types of the variables.
LEMMA TypeStep == TypeOK /\ RoundInv /\ [Next]_vars => TypeOK'
<1> SUFFICES ASSUME TypeOK, RoundInv, [Next]_vars PROVE TypeOK'
  OBVIOUS
<1> USE DEF TypeOK
<1>1. ASSUME NEW s \in Shards, BeginInsert(s) PROVE TypeOK'
  <2>1. PICK i \in DOMAIN Chain[s] :
          /\ inserting' = [inserting EXCEPT ![s] = Chain[s][i]]
          /\ pos' = [pos EXCEPT ![Chain[s][i]] =
                       Cardinality({t \in Txs : pos[t] # 0}) + 1]
    BY <1>1 DEF BeginInsert
  <2>2. Chain[s][i] \in Txs
    BY ChainAssumption
  <2>3. Cardinality({t \in Txs : pos[t] # 0}) + 1 \in Nat
    BY CountNat
  <2>4. pos' \in [Txs -> Nat]
    BY <2>1, <2>3, ExceptType
  <2>5. inserting' \in [Shards -> Txs \union {NoTx}]
    BY <2>1, <2>2, ExceptType
  <2> QED
    BY <1>1, <2>4, <2>5 DEF BeginInsert, procVars, docVars
<1>2. ASSUME NEW s \in Shards, EndInsert(s) PROVE TypeOK'
  BY <1>2 DEF EndInsert, procVars, docVars
<1>3. ASSUME NEW w \in Withdraws, Refuse(w) PROVE TypeOK'
  BY <1>3 DEF Refuse, procVars, docVars
<1>4. CASE Start
  BY <1>4 DEF Start, feedVars, docVars
<1>5. CASE Fetch
  BY <1>5 DEF Fetch, FirstOf, Take, feedVars, docVars, Kinds
<1>6. CASE NextWrite
  BY <1>6 DEF NextWrite, AfterWrite, feedVars, docVars, Kinds
<1>7. ASSUME NEW kind \in Kinds, NEW t \in rest, Writing(kind, t)
      PROVE  /\ pc = kind /\ Kind[t] = kind
             /\ rest' \subseteq rest
             /\ UNCHANGED <<feedVars, pc, batch, cursor, saved, offset, page, late, crashes>>
  BY <1>7 DEF Writing, RoundInv
<1>8. CASE DBSaveTradeOrder
  <2>1. PICK o \in rest : /\ Writing("order", o)
                          /\ born' = Upserted(o)
                          /\ requested' = requested \union {o}
                          /\ UNCHANGED <<listed, withdraws, pendings, rejected>>
    BY <1>8 DEF DBSaveTradeOrder
  <2>2. o \in Orders
    BY <2>1, <1>7 DEF Kinds, Orders, OfKind
  <2>3. born' \in [Orders -> Nat]
    BY <2>1, UpsertedType
  <2> QED
    BY <2>1, <2>2, <2>3, <1>7 DEF feedVars, Kinds
<1>9. CASE DBUpdateTradeOrder
  <2>1. PICK r \in rest : /\ Writing("respond", r)
                          /\ born' = Upserted(Target[r])
                          /\ listed' = [listed EXCEPT ![r] = @ + 1]
                          /\ UNCHANGED <<requested, withdraws, pendings, rejected>>
    BY <1>9 DEF DBUpdateTradeOrder
  <2>2. listed' \in [Txs -> Nat]
    BY <2>1
  <2>3. born' \in [Orders -> Nat]
    BY <2>1, UpsertedType
  <2> QED
    BY <2>1, <2>2, <2>3, <1>7 DEF feedVars, Kinds
<1>10. CASE DBUpdateWithdrawTradeOrderReq
  <2>1. PICK w \in rest :
          /\ Writing("withdraw", w)
          /\ \/ UNCHANGED <<listed, withdraws, pendings, rejected>>
             \/ /\ withdraws' = withdraws \union {w}
                /\ pendings' = pendings \union {w}
                /\ rejected' = rejected \ {w}
                /\ listed' = [x \in Txs |-> IF x \in Answers(w) THEN 0 ELSE listed[x]]
          /\ UNCHANGED <<born, requested>>
    BY <1>10 DEF DBUpdateWithdrawTradeOrderReq
  <2>2. w \in Withdraws
    BY <2>1, <1>7 DEF Kinds, Withdraws, OfKind
  <2>3. listed' \in [Txs -> Nat]
    BY <2>1
  <2> QED
    BY <2>1, <2>2, <2>3, <1>7 DEF feedVars, Kinds
<1>11. CASE DBUpdateWithdrawTradeOrderRes
  <2>1. PICK x \in rest :
          /\ Writing("withdrawn", x)
          /\ pendings' \subseteq pendings
          /\ rejected' \subseteq rejected
          /\ listed' \in [Txs -> Nat]
          /\ UNCHANGED <<born, requested, withdraws>>
    BY <1>11 DEF DBUpdateWithdrawTradeOrderRes
  <2> QED
    BY <2>1, <1>7 DEF feedVars, Kinds
<1>12. CASE SaveCursor
  BY <1>12 DEF SaveCursor, EndWrites, feedVars, docVars, Kinds
<1>13. CASE GetPage
  <2>1. PageAt(offset) \subseteq Orders
    BY KindAssumption DEF PageAt, PendingOrders, Withdraws, OfKind
  <2>2. Cardinality(PageAt(offset)) \in Nat
    BY <2>1, OrdersAreTxs, CountNat
  <2>3. offset' \in Nat
    BY <1>13, <2>2 DEF GetPage
  <2> QED
    BY <1>13, <2>1, <2>3 DEF GetPage, feedVars, docVars
<1>14. CASE RefreshOrder
  BY <1>14 DEF RefreshOrder, feedVars
<1>15. CASE EndPage
  BY <1>15 DEF EndPage, feedVars, docVars
<1>16. CASE Crash
  BY <1>16, BoundsAssumption DEF Crash, feedVars, docVars
<1>17. CASE UNCHANGED vars
  BY <1>17 DEF vars, feedVars, procVars, docVars
<1> QED
  BY <1>1, <1>2, <1>3, <1>4, <1>5, <1>6, <1>8, <1>9, <1>10, <1>11, <1>12, <1>13,
     <1>14, <1>15, <1>16, <1>17 DEF Next, Feed, Decide, Process

-----------------------------------------------------------------------------
\* The actions that leave the transactions and the history alone.
Quiet == UNCHANGED <<pos, visible, late>>

LEMMA StepKinds ==
  ASSUME [Next]_vars
  PROVE  \/ \E s \in Shards : BeginInsert(s)
         \/ \E s \in Shards : EndInsert(s)
         \/ Fetch
         \/ Quiet
<1>1. ASSUME NEW w, Refuse(w) PROVE Quiet
  BY <1>1 DEF Refuse, Quiet
<1>2. ASSUME Start \/ NextWrite \/ SaveCursor \/ GetPage \/ RefreshOrder \/ EndPage \/ Crash
      PROVE  Quiet
  BY <1>2 DEF Start, NextWrite, SaveCursor, EndWrites, GetPage, RefreshOrder, EndPage,
              Crash, feedVars, Quiet
<1>3. ASSUME \/ DBSaveTradeOrder \/ DBUpdateTradeOrder
             \/ DBUpdateWithdrawTradeOrderReq \/ DBUpdateWithdrawTradeOrderRes
      PROVE  Quiet
  BY <1>3 DEF DBSaveTradeOrder, DBUpdateTradeOrder, DBUpdateWithdrawTradeOrderReq,
              DBUpdateWithdrawTradeOrderRes, Writing, feedVars, Quiet
<1>4. ASSUME UNCHANGED vars PROVE Quiet
  BY <1>4 DEF vars, feedVars, Quiet
<1> QED
  BY <1>1, <1>2, <1>3, <1>4 DEF Next, Feed, Decide, Process

\* A new _id is given to a transaction that has none.
LEMMA PosStays ==
  ASSUME TypeOK, [Next]_vars, NEW t \in Txs, pos[t] # 0
  PROVE  pos'[t] = pos[t]
<1>1. ASSUME NEW s \in Shards, BeginInsert(s) PROVE pos'[t] = pos[t]
  BY <1>1 DEF BeginInsert, TypeOK
<1>2. ASSUME NEW s \in Shards, EndInsert(s) PROVE pos'[t] = pos[t]
  BY <1>2 DEF EndInsert
<1>3. CASE Fetch
  BY <1>3 DEF Fetch, Take, feedVars
<1> QED
  BY <1>1, <1>2, <1>3, StepKinds DEF Quiet

\* Whether a transaction that the processor has got to is in order is settled:
\* what is behind the processor does not become visible in time.
LEMMA InOrderSettled ==
  ASSUME TypeOK, RoundInv, PlaceInv, [Next]_vars,
         NEW t \in visible, Kind[t] \in {"withdraw", "withdrawn"}, Behind(t), InOrder(t)'
  PROVE  InOrder(t)
<1> DEFINE u == Target[t]
<1> USE DEF TypeOK
<1>1. u \in Txs /\ u \in visible' /\ u \notin late' /\ pos'[u] < pos'[t]
  BY KindAssumption DEF InOrder, Withdraws, OfKind, Orders
<1>2. pos'[t] = pos[t]
  BY PosStays DEF PlaceInv
<1>3. ASSUME NEW s \in Shards, BeginInsert(s) PROVE InOrder(t)
  <2>1. u \in visible /\ u \notin late
    BY <1>1, <1>3 DEF BeginInsert
  <2>2. pos'[u] = pos[u]
    BY <2>1, <1>1, PosStays DEF PlaceInv
  <2> QED
    BY <2>1, <2>2, <1>1, <1>2 DEF InOrder
<1>4. ASSUME NEW s \in Shards, EndInsert(s) PROVE InOrder(t)
  <2>1. pos' = pos /\ visible' = visible \union {inserting[s]} /\ late \subseteq late'
    BY <1>4 DEF EndInsert
  <2>2. CASE u \in visible
    BY <2>1, <2>2, <1>1 DEF InOrder
  <2>3. CASE u \notin visible
    <3>1. u = inserting[s]
      BY <2>1, <2>3, <1>1
    <3>2. Behind(u)
      <4>1. \A v \in batch : v \in Txs
        OBVIOUS
      <4> QED
        BY <2>1, <1>1, <4>1 DEF Behind
    <3>3. u \in late'
      BY <3>1, <3>2, <1>4 DEF EndInsert
    <3> QED
      BY <3>3, <1>1
  <2> QED
    BY <2>2, <2>3
<1>5. CASE Fetch
  <2>1. pos' = pos /\ visible' = visible /\ late' = late \ batch'
    BY <1>5 DEF Fetch, Take, feedVars
  <2>2. \A v \in batch' : pos[v] > saved
    BY <1>5 DEF Fetch, FirstOf, Take, RoundInv
  <2>3. pos[t] <= saved
    BY <1>5 DEF Behind, RoundInv, Writes, Kinds, Fetch
  <2>4. u \notin batch'
    BY <2>1, <2>2, <2>3, <1>1
  <2> QED
    BY <2>1, <2>4, <1>1 DEF InOrder
<1>6. CASE Quiet
  BY <1>6, <1>1 DEF Quiet, InOrder
<1> QED
  BY <1>3, <1>4, <1>5, <1>6, StepKinds

\* Nothing is taken out of the documents but responses to withdrawals.
LEMMA DocsGrow ==
  ASSUME TypeOK, RoundInv, [Next]_vars
  PROVE  /\ requested \subseteq requested'
         /\ withdraws \subseteq withdraws'
         /\ \A r \in OfKind("respond") : listed[r] > 0 => listed'[r] > 0
         /\ \A o \in Orders : born[o] # 0 => born'[o] # 0
<1> DEFINE Grown == /\ requested \subseteq requested'
                    /\ withdraws \subseteq withdraws'
                    /\ \A r \in OfKind("respond") : listed[r] > 0 => listed'[r] > 0
                    /\ \A o \in Orders : born[o] # 0 => born'[o] # 0
<1> SUFFICES Grown
  OBVIOUS
<1>1. ASSUME UNCHANGED docVars PROVE Grown
  BY <1>1 DEF docVars
<1>2. ASSUME NEW s \in Shards, BeginInsert(s) \/ EndInsert(s) PROVE UNCHANGED docVars
  BY <1>2 DEF BeginInsert, EndInsert
<1>3. ASSUME NEW w, Refuse(w) PROVE UNCHANGED docVars
  BY <1>3 DEF Refuse
<1>4. ASSUME \/ Start \/ Fetch \/ NextWrite \/ SaveCursor \/ GetPage \/ EndPage \/ Crash
             \/ UNCHANGED vars
      PROVE  UNCHANGED docVars
  BY <1>4 DEF Start, Fetch, Take, NextWrite, SaveCursor, EndWrites, GetPage, EndPage,
              Crash, vars
<1>5. CASE DBSaveTradeOrder \/ DBUpdateTradeOrder
  <2>1. PICK o : born' = Upserted(o)
    BY <1>5 DEF DBSaveTradeOrder, DBUpdateTradeOrder
  <2>2. \A p \in Orders : born[p] # 0 => born'[p] # 0
    BY <2>1, UpsertedType
  <2>3. requested \subseteq requested' /\ withdraws' = withdraws
    BY <1>5 DEF DBSaveTradeOrder, DBUpdateTradeOrder
  <2>4. \A r \in OfKind("respond") : listed[r] > 0 => listed'[r] > 0
    <3>1. CASE listed' = listed
      BY <3>1
    <3>2. ASSUME NEW t \in rest, listed' = [listed EXCEPT ![t] = @ + 1]
          PROVE  \A r \in OfKind("respond") : listed[r] > 0 => listed'[r] > 0
      BY <3>2 DEF TypeOK, OfKind
    <3> QED
      BY <1>5, <3>1, <3>2 DEF DBSaveTradeOrder, DBUpdateTradeOrder
  <2> QED
    BY <2>2, <2>3, <2>4
<1>6. CASE DBUpdateWithdrawTradeOrderReq
  <2>1. PICK w \in rest :
          /\ \/ UNCHANGED <<listed, withdraws>>
             \/ /\ withdraws' = withdraws \union {w}
                /\ listed' = [x \in Txs |-> IF x \in Answers(w) THEN 0 ELSE listed[x]]
          /\ UNCHANGED <<born, requested>>
    BY <1>6 DEF DBUpdateWithdrawTradeOrderReq
  <2> QED
    BY <2>1 DEF OfKind, Answers
<1>7. CASE DBUpdateWithdrawTradeOrderRes
  <2>1. \A w, r : r \in OfKind("respond") => r \notin InfosOf(w)
    BY DEF OfKind, InfosOf, Answers
  <2>2. \A x \in rest : Writing("withdrawn", x) => Kind[x] = "withdrawn"
    BY DEF Writing, RoundInv, Kinds
  <2> QED
    BY <1>7, <2>1, <2>2 DEF DBUpdateWithdrawTradeOrderRes, TypeOK, OfKind
<1>8. CASE RefreshOrder
  BY <1>8 DEF RefreshOrder
<1> QED
  BY <1>1, <1>2, <1>3, <1>4, <1>5, <1>6, <1>7, <1>8 DEF Next, Feed, Decide, Process

LEMMA AppliedStays ==
  ASSUME TypeOK, RoundInv, PlaceInv, [Next]_vars,
         NEW t \in visible, Behind(t), Applied(t)
  PROVE  Applied(t)'
<1>1. Kind[t] = "order" => t \in requested'
  BY DocsGrow DEF Applied
<1>2. Kind[t] = "respond" => listed'[t] > 0
  BY DocsGrow DEF Applied, OfKind, TypeOK
<1>3. Kind[t] = "withdraw" /\ InOrder(t)' => t \in withdraws'
  BY DocsGrow, InOrderSettled DEF Applied
<1> QED
  BY <1>1, <1>2, <1>3 DEF Applied

\* What is visible and not late stays so, or was taken by the batch.
LEMMA PlaceStep == IInv /\ [Next]_vars => RoundInv' /\ PlaceInv' /\ NoGapInv' /\ BornInv'
<1> SUFFICES ASSUME IInv, [Next]_vars PROVE RoundInv' /\ PlaceInv' /\ NoGapInv' /\ BornInv'
  OBVIOUS
<1> USE DEF IInv
<1>t. TypeOK'
  BY TypeStep
<1>1. RoundInv'
  <2> USE DEF RoundInv, Writes, Kinds
  <2>1. ASSUME NEW s, BeginInsert(s) \/ EndInsert(s) \/ Refuse(s) PROVE RoundInv'
    BY <2>1 DEF BeginInsert, EndInsert, Refuse, procVars
  <2>2. CASE Start \/ GetPage \/ RefreshOrder \/ EndPage \/ UNCHANGED vars
    BY <2>2 DEF Start, GetPage, RefreshOrder, EndPage, vars, procVars
  <2>3. CASE Fetch \/ Crash
    BY <2>3 DEF Fetch, Take, Crash, OfKind
  <2>4. CASE NextWrite
    BY <2>4 DEF NextWrite, AfterWrite
  <2>5. CASE SaveCursor
    BY <2>5 DEF SaveCursor, EndWrites
  <2>6. CASE \/ DBSaveTradeOrder \/ DBUpdateTradeOrder
             \/ DBUpdateWithdrawTradeOrderReq \/ DBUpdateWithdrawTradeOrderRes
    BY <2>6 DEF DBSaveTradeOrder, DBUpdateTradeOrder, DBUpdateWithdrawTradeOrderReq,
                DBUpdateWithdrawTradeOrderRes, Writing
  <2> QED
    BY <2>1, <2>2, <2>3, <2>4, <2>5, <2>6 DEF Next, Feed, Decide, Process
<1>2. PlaceInv' /\ NoGapInv'
  <2>1. ASSUME Quiet, batch' = {} \/ (batch' = batch /\ saved' = saved),
               inserting' = inserting
        PROVE  PlaceInv' /\ NoGapInv'
    BY <2>1 DEF Quiet, PlaceInv, NoGapInv
  <2>2. ASSUME NEW s \in Shards, BeginInsert(s) PROVE PlaceInv' /\ NoGapInv'
    <3>1. UNCHANGED <<visible, late, batch, saved>>
      BY <2>2 DEF BeginInsert, procVars
    <3>2. \A t \in visible : pos'[t] = pos[t]
      BY PosStays DEF PlaceInv, TypeOK
    <3>3. \A r \in Shards : inserting'[r] # NoTx => pos'[inserting'[r]] # 0
      <4> SUFFICES ASSUME NEW r \in Shards, inserting'[r] # NoTx
                   PROVE  pos'[inserting'[r]] # 0
        OBVIOUS
      <4>1. CASE r = s
        <5>1. PICK i \in DOMAIN Chain[s] :
                /\ inserting' = [inserting EXCEPT ![s] = Chain[s][i]]
                /\ pos' = [pos EXCEPT ![Chain[s][i]] =
                             Cardinality({t \in Txs : pos[t] # 0}) + 1]
          BY <2>2 DEF BeginInsert
        <5>2. Chain[s][i] \in Txs
          BY ChainAssumption
        <5>3. Cardinality({t \in Txs : pos[t] # 0}) \in Nat
          BY CountNat
        <5>4. pos'[Chain[s][i]] = Cardinality({t \in Txs : pos[t] # 0}) + 1
          BY <5>1, <5>2 DEF TypeOK
        <5>5. inserting'[r] = Chain[s][i]
          BY <5>1, <4>1 DEF TypeOK
        <5> QED
          BY <5>3, <5>4, <5>5
      <4>2. CASE r # s
        <5>1. inserting'[r] = inserting[r]
          BY <2>2, <4>2 DEF BeginInsert, TypeOK
        <5>2. pos[inserting[r]] # 0 /\ inserting[r] \in Txs
          BY <5>1 DEF PlaceInv, TypeOK
        <5> QED
          BY <5>1, <5>2, PosStays
      <4> QED
        BY <4>1, <4>2
    <3> QED
      BY <3>1, <3>2, <3>3 DEF PlaceInv, NoGapInv
  <2>3. ASSUME NEW s \in Shards, EndInsert(s) PROVE PlaceInv' /\ NoGapInv'
    <3>1. /\ visible' = visible \union {inserting[s]}
          /\ inserting[s] # NoTx
          /\ inserting' = [inserting EXCEPT ![s] = NoTx]
          /\ late' = IF Behind(inserting[s]) THEN late \union {inserting[s]} ELSE late
          /\ UNCHANGED <<pos, batch, saved>>
      BY <2>3 DEF EndInsert, procVars
    <3>2. PlaceInv'
      BY <3>1 DEF PlaceInv, TypeOK
    <3>3. NoGapInv'
      BY <3>1 DEF NoGapInv, Behind
    <3> QED
      BY <3>2, <3>3
  <2>4. CASE Fetch
    <3>1. /\ FirstOf({t \in visible : pos[t] > saved}, batch')
          /\ late' = late \ batch'
          /\ UNCHANGED <<pos, visible, inserting, saved>>
      BY <2>4 DEF Fetch, Take, feedVars, RoundInv
    <3>2. PlaceInv'
      BY <3>1 DEF PlaceInv, FirstOf
    <3>3. NoGapInv'
      <4> SUFFICES ASSUME NEW t \in visible' \ late', NEW u \in batch',
                          saved' < pos'[t], pos'[t] <= pos'[u], t \notin batch'
                   PROVE  FALSE
        BY DEF NoGapInv
      <4>1. pos[u] < pos[t]
        BY <3>1 DEF FirstOf, TypeOK
      <4> QED
        BY <4>1, <3>1 DEF TypeOK, FirstOf
    <3> QED
      BY <3>2, <3>3
  <2>5. CASE NextWrite \/ SaveCursor \/ Crash
    BY <2>5, <2>1 DEF NextWrite, SaveCursor, EndWrites, Crash, feedVars, Quiet
  <2>6. CASE Start \/ GetPage \/ RefreshOrder \/ EndPage \/ UNCHANGED vars
    BY <2>6, <2>1 DEF Start, GetPage, RefreshOrder, EndPage, vars, feedVars, procVars, Quiet
  <2>7. CASE \/ DBSaveTradeOrder \/ DBUpdateTradeOrder
             \/ DBUpdateWithdrawTradeOrderReq \/ DBUpdateWithdrawTradeOrderRes
    BY <2>7, <2>1 DEF DBSaveTradeOrder, DBUpdateTradeOrder, DBUpdateWithdrawTradeOrderReq,
                      DBUpdateWithdrawTradeOrderRes, Writing, feedVars, Quiet
  <2>8. ASSUME NEW w, Refuse(w) PROVE PlaceInv' /\ NoGapInv'
    BY <2>8, <2>1 DEF Refuse, procVars, Quiet
  <2> QED
    BY <2>2, <2>3, <2>4, <2>5, <2>6, <2>7, <2>8 DEF Next, Feed, Decide, Process
<1>3. BornInv'
  <2>1. ASSUME requested' = requested PROVE BornInv'
    BY <2>1, DocsGrow DEF BornInv, TypeOK
  <2>2. CASE DBSaveTradeOrder
    <3>1. PICK o \in rest : Writing("order", o) /\ born' = Upserted(o)
                            /\ requested' = requested \union {o}
      BY <2>2 DEF DBSaveTradeOrder
    <3>2. o \in Orders
      BY <3>1, <1>t DEF TypeOK
    <3> QED
      BY <3>1, <3>2, UpsertedType DEF BornInv, TypeOK
  <2>3. ASSUME NEW s, BeginInsert(s) \/ EndInsert(s) \/ Refuse(s) PROVE BornInv'
    BY <2>3, <2>1 DEF BeginInsert, EndInsert, Refuse, docVars
  <2>4. CASE \/ Start \/ Fetch \/ NextWrite \/ SaveCursor \/ GetPage \/ RefreshOrder
             \/ EndPage \/ Crash \/ UNCHANGED vars
    BY <2>4, <2>1 DEF Start, Fetch, Take, NextWrite, SaveCursor, EndWrites, GetPage,
                      RefreshOrder, EndPage, Crash, vars, docVars
  <2>5. CASE \/ DBUpdateTradeOrder
             \/ DBUpdateWithdrawTradeOrderReq \/ DBUpdateWithdrawTradeOrderRes
    BY <2>5, <2>1 DEF DBUpdateTradeOrder, DBUpdateWithdrawTradeOrderReq,
                      DBUpdateWithdrawTradeOrderRes
  <2> QED
    BY <2>2, <2>3, <2>4, <2>5 DEF Next, Feed, Decide, Process
<1> QED
  BY <1>1, <1>2, <1>3

\* A withdrawal that comes after its order finds the document of the order.
LEMMA OrderIsThere ==
  ASSUME IInv, pc = "withdraw", NEW w \in batch, Kind[w] = "withdraw", InOrder(w)
  PROVE  born[Target[w]] # 0
<1> DEFINE o == Target[w]
<1> USE DEF IInv
<1>1. o \in Orders /\ o \in visible \ late /\ pos[o] < pos[w] /\ o \in Txs
  BY KindAssumption DEF InOrder, Withdraws, OfKind, Orders, TypeOK
<1>2. Kind[o] = "order"
  BY <1>1 DEF Orders, OfKind
<1>3. CASE pos[o] <= saved
  <2>1. o \in requested
    BY <1>1, <1>2, <1>3 DEF AppliedInv, Passed, Applied
  <2> QED
    BY <2>1 DEF BornInv
<1>4. CASE ~(pos[o] <= saved)
  <2>1. o \in batch
    BY <1>1, <1>4 DEF NoGapInv, TypeOK
  <2>2. Kind[o] \in Before(pc)
    BY <1>2 DEF Before
  <2>3. o \in requested
    BY <2>1, <2>2, <1>2 DEF DoneInv, Applied
  <2> QED
    BY <2>3 DEF BornInv
<1> QED
  BY <1>3, <1>4

\* A write applies the transaction that it writes.
LEMMA WriteApplies ==
  ASSUME IInv, [Next]_vars, NEW kind \in Kinds, NEW t \in rest, Writing(kind, t),
         \/ kind = "order" /\ requested' = requested \union {t}
         \/ kind = "respond" /\ listed' = [listed EXCEPT ![t] = @ + 1]
         \/ kind = "withdraw" /\ (born[Target[t]] # 0 => withdraws' = withdraws \union {t})
         \/ kind = "withdrawn"
  PROVE  Applied(t)'
<1> USE DEF IInv
<1>1. pc = kind /\ Kind[t] = kind /\ t \in batch /\ t \in Txs
  BY DEF Writing, RoundInv, TypeOK
<1>2. CASE kind = "order"
  BY <1>1, <1>2 DEF Applied
<1>3. CASE kind = "respond"
  BY <1>1, <1>3 DEF Applied, TypeOK
<1>4. CASE kind = "withdraw"
  <2>1. Behind(t) /\ t \in visible
    BY <1>1 DEF Behind, PlaceInv, TypeOK
  <2>2. InOrder(t)' => InOrder(t)
    BY <2>1, <1>1, <1>4, InOrderSettled
  <2>3. InOrder(t) => born[Target[t]] # 0
    BY <1>1, <1>4, OrderIsThere
  <2> QED
    BY <2>2, <2>3, <1>1, <1>4 DEF Applied
<1>5. CASE kind = "withdrawn"
  BY <1>1, <1>5 DEF Applied
<1> QED
  BY <1>2, <1>3, <1>4, <1>5

LEMMA DoneStep == IInv /\ [Next]_vars => DoneInv'
<1> SUFFICES ASSUME IInv, [Next]_vars PROVE DoneInv'
  OBVIOUS
<1> USE DEF IInv
<1>1. \A t \in batch : Applied(t) => Applied(t)'
  BY AppliedStays DEF Behind, PlaceInv, TypeOK
<1>2. ASSUME UNCHANGED <<pc, batch, rest>> PROVE DoneInv'
  BY <1>1, <1>2 DEF DoneInv
<1>3. ASSUME batch' = {} PROVE DoneInv'
  BY <1>3 DEF DoneInv
<1>4. ASSUME NEW kind \in Kinds, NEW e \in rest, Writing(kind, e), Applied(e)'
      PROVE  DoneInv'
  <2>1. UNCHANGED <<pc, batch>> /\ rest' = rest \ {e}
    BY <1>4 DEF Writing
  <2> SUFFICES ASSUME NEW t \in batch,
                      Kind[t] \in Before(pc) \/ (Kind[t] = pc /\ t \notin rest')
               PROVE  Applied(t)'
    BY <2>1 DEF DoneInv
  <2>2. CASE t = e
    BY <2>2, <1>4
  <2>3. CASE t # e
    BY <2>1, <2>3, <1>1 DEF DoneInv
  <2> QED
    BY <2>2, <2>3
<1>5. ASSUME NEW s, BeginInsert(s) \/ EndInsert(s) \/ Refuse(s) PROVE DoneInv'
  BY <1>5, <1>2 DEF BeginInsert, EndInsert, Refuse, procVars
<1>6. CASE Start
  BY <1>6, <1>3 DEF Start, RoundInv, Writes, Kinds
<1>7. CASE Fetch
  BY <1>7 DEF Fetch, FirstOf, Take, DoneInv, Before, OfKind, TypeOK
<1>8. CASE NextWrite
  <2>1. /\ pc \in Kinds /\ rest = {} /\ pc' = AfterWrite[pc] /\ batch' = batch
        /\ rest' = {t \in batch : Kind[t] = pc'}
    BY <1>8 DEF NextWrite
  <2>2. Before(pc') \subseteq Before(pc) \union {pc}
    BY <2>1 DEF AfterWrite, Before, Kinds
  <2> SUFFICES ASSUME NEW t \in batch,
                      Kind[t] \in Before(pc') \/ (Kind[t] = pc' /\ t \notin rest')
               PROVE  Applied(t)'
    BY <2>1 DEF DoneInv
  <2>3. Kind[t] \in Before(pc) \/ (Kind[t] = pc /\ t \notin rest)
    BY <2>1, <2>2
  <2> QED
    BY <2>3, <1>1 DEF DoneInv
<1>9. CASE DBSaveTradeOrder
  BY <1>9, <1>4, WriteApplies DEF DBSaveTradeOrder, Kinds
<1>10. CASE DBUpdateTradeOrder
  BY <1>10, <1>4, WriteApplies DEF DBUpdateTradeOrder, Kinds
<1>11. CASE DBUpdateWithdrawTradeOrderReq
  BY <1>11, <1>4, WriteApplies DEF DBUpdateWithdrawTradeOrderReq, Kinds
<1>12. CASE DBUpdateWithdrawTradeOrderRes
  BY <1>12, <1>4, WriteApplies DEF DBUpdateWithdrawTradeOrderRes, Kinds
<1>13. CASE SaveCursor \/ Crash
  BY <1>13, <1>3 DEF SaveCursor, EndWrites, Crash
<1>14. CASE GetPage \/ RefreshOrder \/ EndPage
  <2>1. batch' = batch /\ batch = {}
    BY <1>14 DEF GetPage, RefreshOrder, EndPage, RoundInv, Writes, Kinds
  <2> QED
    BY <2>1, <1>3
<1>15. CASE UNCHANGED vars
  BY <1>15, <1>2 DEF vars, procVars
<1> QED
  BY <1>5, <1>6, <1>7, <1>8, <1>9, <1>10, <1>11, <1>12, <1>13, <1>14, <1>15
     DEF Next, Feed, Decide, Process

\* What the saved cursor passes in a step was in the batch, or was late.
LEMMA AppliedStep == IInv /\ [Next]_vars => AppliedInv'
<1> SUFFICES ASSUME IInv, [Next]_vars, NEW t \in Passed' PROVE Applied(t)'
  BY DEF AppliedInv
<1> USE DEF IInv
<1>1. t \in visible' /\ t \notin late' /\ pos'[t] <= saved'
  BY DEF Passed
<1>2. t \in Passed => Applied(t)'
  BY AppliedStays DEF AppliedInv, Passed, Behind
<1>3. ASSUME Quiet, saved' = saved PROVE Applied(t)'
  BY <1>1, <1>2, <1>3 DEF Quiet, Passed
<1>4. ASSUME NEW s \in Shards, BeginInsert(s) PROVE Applied(t)'
  <2>1. t \in visible /\ t \notin late /\ saved' = saved
    BY <1>1, <1>4 DEF BeginInsert, procVars
  <2>2. pos'[t] = pos[t]
    BY <2>1, PosStays DEF PlaceInv, TypeOK
  <2> QED
    BY <2>1, <2>2, <1>1, <1>2 DEF Passed
<1>5. ASSUME NEW s \in Shards, EndInsert(s) PROVE Applied(t)'
  <2>1. /\ pos' = pos /\ saved' = saved
        /\ visible' = visible \union {inserting[s]}
        /\ late' = IF Behind(inserting[s]) THEN late \union {inserting[s]} ELSE late
    BY <1>5 DEF EndInsert, procVars
  <2> QED
    BY <2>1, <1>1, <1>2 DEF Passed, Behind
<1>6. CASE Fetch
  <2>1. /\ UNCHANGED <<pos, saved, visible>>
        /\ late' = late \ batch'
        /\ \A u \in batch' : pos[u] > saved
    BY <1>6 DEF Fetch, FirstOf, Take, feedVars, RoundInv
  <2>2. t \notin batch'
    BY <2>1, <1>1 DEF TypeOK
  <2> QED
    BY <2>1, <2>2, <1>1, <1>2 DEF Passed
<1>7. CASE SaveCursor
  <2>1. Quiet /\ pc = "cursor"
    BY <1>7 DEF SaveCursor, EndWrites, feedVars, Quiet
  <2>2. t \in visible \ late /\ pos[t] <= saved' /\ t \in Txs
    BY <2>1, <1>1 DEF Quiet, TypeOK
  <2>3. CASE pos[t] <= saved
    BY <2>2, <2>3, <1>2 DEF Passed
  <2>4. CASE ~(pos[t] <= saved)
    <3>1. PICK last \in batch : saved' = pos[last]
      BY <1>7, <2>2, <2>4 DEF SaveCursor, EndWrites
    <3>2. t \in batch
      BY <3>1, <2>2, <2>4 DEF NoGapInv, TypeOK
    <3>3. Kind[t] \in Before(pc)
      BY <2>1, <2>2, KindAssumption DEF Before
    <3>4. Applied(t) /\ Behind(t)
      BY <3>2, <3>3 DEF DoneInv, Behind, TypeOK
    <3> QED
      BY <3>4, <2>2, AppliedStays
  <2> QED
    BY <2>3, <2>4
<1>8. CASE \/ Start \/ NextWrite \/ GetPage \/ RefreshOrder \/ EndPage \/ Crash
           \/ UNCHANGED vars
  BY <1>8, <1>3 DEF Start, NextWrite, GetPage, RefreshOrder, EndPage, Crash, vars,
                    feedVars, procVars, Quiet
<1>9. CASE \/ DBSaveTradeOrder \/ DBUpdateTradeOrder
           \/ DBUpdateWithdrawTradeOrderReq \/ DBUpdateWithdrawTradeOrderRes
  BY <1>9, <1>3 DEF DBSaveTradeOrder, DBUpdateTradeOrder, DBUpdateWithdrawTradeOrderReq,
                    DBUpdateWithdrawTradeOrderRes, Writing, feedVars, Quiet
<1>10. ASSUME NEW w, Refuse(w) PROVE Applied(t)'
  BY <1>10, <1>3 DEF Refuse, procVars, Quiet
<1> QED
  BY <1>4, <1>5, <1>6, <1>7, <1>8, <1>9, <1>10 DEF Next, Feed, Decide, Process

-----------------------------------------------------------------------------
LEMMA InitIInv == Init => IInv
<1> SUFFICES ASSUME Init PROVE IInv
  OBVIOUS
<1>1. TypeOK
  BY BoundsAssumption DEF Init, TypeOK
<1>2. RoundInv /\ PlaceInv /\ NoGapInv /\ BornInv /\ DoneInv
  BY DEF Init, RoundInv, PlaceInv, NoGapInv, BornInv, DoneInv, Kinds
<1>3. AppliedInv
  BY DEF Init, AppliedInv, Passed
<1> QED
  BY <1>1, <1>2, <1>3 DEF IInv

LEMMA StepIInv == IInv /\ [Next]_vars => IInv'
BY TypeStep, PlaceStep, DoneStep, AppliedStep DEF IInv

LEMMA SpecIInv == Spec => []IInv
<1>1. Init => IInv
  BY InitIInv
<1>2. IInv /\ [Next]_vars => IInv'
  BY StepIInv
<1> QED
  BY <1>1, <1>2, PTL DEF Spec

\* The types of the processor's variables and documents.
THEOREM SpecTypeOK == Spec => []TypeOK
<1>1. IInv => TypeOK
  BY DEF IInv
<1> QED
  BY <1>1, SpecIInv, PTL

\* Nothing behind the saved cursor is missing from the documents, whatever the
\* batches, the order of the inserts and the ends of the process (trade.go: the
\* cursor is saved after the writes of its batch).
THEOREM SpecPassedIsApplied == Spec => []PassedIsApplied
<1>1. IInv => PassedIsApplied
  BY DEF IInv, AppliedInv, Applied, PassedIsApplied
<1> QED
  BY <1>1, SpecIInv, PTL

-----------------------------------------------------------------------------
(* Repeats: a response is listed once for each time its batch was begun. *)

\* t has been written since the processor was last started, or needs no more.
Written(t) ==
  \/ pos[t] # 0 /\ pos[t] <= saved
  \/ t \in batch /\ (Kind[t] \in Before(pc) \/ (Kind[t] = pc /\ t \notin rest))

RepeatInv ==
  \A t \in Txs : /\ listed[t] <= crashes + 1
                 /\ ~Written(t) => listed[t] <= crashes

\* Only the end of the process makes a written transaction unwritten.
LEMMA WrittenStays ==
  ASSUME IInv, [Next]_vars, ~Crash, NEW t \in Txs, Written(t)
  PROVE  Written(t)'
<1> USE DEF IInv
<1>1. CASE pos[t] # 0 /\ pos[t] <= saved
  <2>1. pos'[t] = pos[t]
    BY <1>1, PosStays
  <2>2. saved' \in Nat /\ saved <= saved'
    <3>1. CASE SaveCursor
      BY <3>1 DEF SaveCursor, EndWrites, PlaceInv, TypeOK
    <3>2. ASSUME NEW s, BeginInsert(s) \/ EndInsert(s) \/ Refuse(s) PROVE saved' = saved
      BY <3>2 DEF BeginInsert, EndInsert, Refuse, procVars
    <3>3. ASSUME \/ Start \/ Fetch \/ NextWrite \/ GetPage \/ RefreshOrder \/ EndPage
                 \/ DBSaveTradeOrder \/ DBUpdateTradeOrder
                 \/ DBUpdateWithdrawTradeOrderReq \/ DBUpdateWithdrawTradeOrderRes
                 \/ UNCHANGED vars
          PROVE  saved' = saved
      BY <3>3 DEF Start, Fetch, Take, NextWrite, GetPage, RefreshOrder, EndPage,
                  DBSaveTradeOrder, DBUpdateTradeOrder, DBUpdateWithdrawTradeOrderReq,
                  DBUpdateWithdrawTradeOrderRes, Writing, vars, procVars
    <3> QED
      BY <3>1, <3>2, <3>3 DEF Next, Feed, Decide, Process, TypeOK
  <2> QED
    BY <2>1, <2>2, <1>1 DEF Written, TypeOK
<1>2. CASE t \in batch /\ (Kind[t] \in Before(pc) \/ (Kind[t] = pc /\ t \notin rest))
  <2>1. ASSUME UNCHANGED <<pc, batch>>, rest' \subseteq rest PROVE Written(t)'
    BY <2>1, <1>2 DEF Written
  <2>2. ASSUME NEW s, BeginInsert(s) \/ EndInsert(s) \/ Refuse(s) PROVE Written(t)'
    BY <2>2, <2>1 DEF BeginInsert, EndInsert, Refuse, procVars
  <2>3. CASE \/ DBSaveTradeOrder \/ DBUpdateTradeOrder
             \/ DBUpdateWithdrawTradeOrderReq \/ DBUpdateWithdrawTradeOrderRes
             \/ UNCHANGED vars
    BY <2>3, <2>1 DEF DBSaveTradeOrder, DBUpdateTradeOrder, DBUpdateWithdrawTradeOrderReq,
                      DBUpdateWithdrawTradeOrderRes, Writing, vars, procVars
  <2>4. CASE NextWrite
    <3>1. /\ pc \in Kinds /\ rest = {} /\ pc' = AfterWrite[pc] /\ batch' = batch
      BY <2>4 DEF NextWrite
    <3>2. Before(pc) \union {pc} \subseteq Before(pc')
      BY <3>1 DEF AfterWrite, Before, Kinds
    <3> QED
      BY <3>1, <3>2, <1>2 DEF Written
  <2>5. CASE SaveCursor
    <3>1. PICK last \in batch : (\A u \in batch : pos[u] <= pos[last]) /\ saved' = pos[last]
      BY <2>5, <1>2 DEF SaveCursor, EndWrites
    <3>2. pos' = pos
      BY <2>5 DEF SaveCursor, EndWrites, feedVars
    <3> QED
      BY <3>1, <3>2, <1>2 DEF Written, PlaceInv
  <2>6. CASE Start \/ Fetch \/ GetPage \/ RefreshOrder \/ EndPage
    <3>1. batch = {}
      BY <2>6 DEF Start, Fetch, GetPage, RefreshOrder, EndPage, RoundInv, Writes, Kinds
    <3> QED
      BY <3>1, <1>2
  <2> QED
    BY <2>2, <2>3, <2>4, <2>5, <2>6 DEF Next, Feed, Decide, Process
<1> QED
  BY <1>1, <1>2 DEF Written

\* A write lists its own transaction once more, or afresh.
LEMMA WriteRepeats ==
  ASSUME IInv, RepeatInv, [Next]_vars, NEW kind \in Kinds, NEW e \in rest,
         Writing(kind, e),
         listed'[e] = listed[e] \/ listed'[e] = listed[e] + 1 \/ listed'[e] \in {0, 1},
         \A t \in Txs \ {e} : listed'[t] = listed[t] \/ listed'[t] = 0
  PROVE  RepeatInv'
<1> USE DEF IInv
<1>1. pc = kind /\ Kind[e] = kind /\ e \in batch /\ e \in Txs /\ rest' = rest \ {e}
      /\ UNCHANGED <<pc, batch, saved, crashes>>
  BY DEF Writing, RoundInv, TypeOK
<1>2. ~Crash
  BY <1>1 DEF Crash, Kinds
<1>3. ~Written(e)
  <2>1. ~(pos[e] <= saved)
    BY <1>1 DEF PlaceInv, TypeOK
  <2>2. Kind[e] \notin Before(pc)
    BY <1>1 DEF Before, Kinds
  <2> QED
    BY <2>1, <2>2 DEF Written
<1>4. Written(e)'
  BY <1>1 DEF Written
<1>5. listed[e] \in Nat /\ crashes \in Nat /\ listed[e] <= crashes
  BY <1>1, <1>3, BoundsAssumption DEF RepeatInv, TypeOK
<1> SUFFICES ASSUME NEW t \in Txs
             PROVE  listed'[t] <= crashes' + 1 /\ (~Written(t)' => listed'[t] <= crashes')
  BY DEF RepeatInv
<1>6. CASE t = e
  BY <1>1, <1>4, <1>5, <1>6
<1>7. CASE t # e
  <2>1. ~Written(t)' => ~Written(t)
    BY <1>2, WrittenStays
  <2>2. listed[t] \in Nat /\ listed[t] <= crashes + 1 /\ (~Written(t) => listed[t] <= crashes)
    BY DEF RepeatInv, TypeOK
  <2>3. listed'[t] = listed[t] \/ listed'[t] = 0
    BY <1>7
  <2> QED
    BY <2>1, <2>2, <2>3, <1>1, <1>5
<1> QED
  BY <1>6, <1>7

LEMMA RepeatStep == IInv /\ RepeatInv /\ [Next]_vars => RepeatInv'
<1> SUFFICES ASSUME IInv, RepeatInv, [Next]_vars PROVE RepeatInv'
  OBVIOUS
<1> USE DEF IInv
<1>1. ASSUME UNCHANGED <<listed, crashes>>, ~Crash PROVE RepeatInv'
  BY <1>1, WrittenStays DEF RepeatInv
<1>2. CASE Crash
  <2>1. listed' = listed /\ crashes' = crashes + 1 /\ crashes \in Nat
    BY <1>2, BoundsAssumption DEF Crash, docVars, TypeOK
  <2>2. \A t \in Txs : listed[t] \in Nat /\ listed[t] <= crashes + 1
    BY DEF RepeatInv, TypeOK
  <2> QED
    BY <2>1, <2>2 DEF RepeatInv
<1>3. ASSUME NEW s, BeginInsert(s) \/ EndInsert(s) \/ Refuse(s)
      PROVE  UNCHANGED <<listed, crashes>>
  BY <1>3 DEF BeginInsert, EndInsert, Refuse, docVars
<1>4. ASSUME \/ Start \/ Fetch \/ NextWrite \/ SaveCursor \/ GetPage \/ RefreshOrder
             \/ EndPage \/ UNCHANGED vars
      PROVE  UNCHANGED <<listed, crashes>>
  BY <1>4 DEF Start, Fetch, Take, NextWrite, SaveCursor, EndWrites, GetPage,
              RefreshOrder, EndPage, vars, docVars
<1>5. CASE DBSaveTradeOrder
  BY <1>5, WriteRepeats DEF DBSaveTradeOrder, Kinds
<1>6. CASE DBUpdateTradeOrder
  <2>1. PICK r \in rest : Writing("respond", r) /\ listed' = [listed EXCEPT ![r] = @ + 1]
    BY <1>6 DEF DBUpdateTradeOrder
  <2> QED
    BY <2>1, WriteRepeats DEF Kinds, TypeOK
<1>7. CASE DBUpdateWithdrawTradeOrderReq
  <2>1. PICK w \in rest :
          /\ Writing("withdraw", w)
          /\ \/ listed' = listed
             \/ listed' = [x \in Txs |-> IF x \in Answers(w) THEN 0 ELSE listed[x]]
    BY <1>7 DEF DBUpdateWithdrawTradeOrderReq
  <2>2. \A t \in Txs : listed'[t] = listed[t] \/ listed'[t] = 0
    BY <2>1
  <2> QED
    BY <2>1, <2>2, WriteRepeats DEF Kinds, TypeOK
<1>8. CASE DBUpdateWithdrawTradeOrderRes
  <2>1. PICK x \in rest :
          /\ Writing("withdrawn", x)
          /\ \/ listed' = [listed EXCEPT ![x] = @ + 1]
             \/ listed' = [y \in Txs |-> CASE y = x -> 1
                                          [] y \in InfosOf(Target[x]) -> 0
                                          [] OTHER -> listed[y]]
             \/ listed' = listed
    BY <1>8 DEF DBUpdateWithdrawTradeOrderRes
  <2>2. \A t \in Txs \ {x} : listed'[t] = listed[t] \/ listed'[t] = 0
    BY <2>1 DEF TypeOK
  <2>3. listed'[x] = listed[x] \/ listed'[x] = listed[x] + 1 \/ listed'[x] \in {0, 1}
    BY <2>1 DEF TypeOK
  <2> QED
    BY <2>1, <2>2, <2>3, WriteRepeats DEF Kinds
<1> QED
  BY <1>1, <1>2, <1>3, <1>4, <1>5, <1>6, <1>7, <1>8 DEF Next, Feed, Decide, Process

\* A response is listed again only for an end of the process in between
\* (pdex.go: DBUpdateTradeOrder pushes without looking).
THEOREM SpecRepeatsOnlyByCrash == Spec => []RepeatsOnlyByCrash
<1>1. Init => IInv /\ RepeatInv
  BY InitIInv DEF Init, RepeatInv
<1>2. IInv /\ RepeatInv /\ [Next]_vars => IInv' /\ RepeatInv'
  BY StepIInv, RepeatStep
<1>3. RepeatInv => RepeatsOnlyByCrash
  BY DEF RepeatInv, RepeatsOnlyByCrash
<1> QED
  BY <1>1, <1>2, <1>3, PTL DEF Spec

-----------------------------------------------------------------------------
(* Answers: a withdrawal that is answered is closed, and its answer listed. *)

\* What the documents say of a response that comes after its withdrawal, and of
\* that withdrawal: it is not pending, and the response is listed unless an order
\* matched in full may have replaced it.
Answered(x) ==
  InOrder(x) /\ Target[x] \in Withdraws =>
    /\ Target[x] \in withdraws => Target[x] \notin pendings
    /\ InOrder(Target[x]) /\ Answers(Target[Target[x]]) \intersect visible = {}
         => listed[x] > 0

AnsweredInv == \A x \in visible \ late : Kind[x] = "withdrawn" /\ Written(x) => Answered(x)

\* Who is taken out of the pending withdrawals was refused or is being answered.
OpenInv ==
  \A w \in withdraws : w \in pendings \/ w \in refused \/ Answers(w) \intersect visible # {}

\* A response that comes after its withdrawal finds the document that lists it.
LEMMA WithdrawIsThere ==
  ASSUME IInv, pc = "withdrawn", NEW x \in batch, InOrder(x), Target[x] \in Withdraws,
         InOrder(Target[x])
  PROVE  Target[x] \in withdraws
<1> DEFINE w == Target[x]
<1> USE DEF IInv
<1>1. w \in visible \ late /\ pos[w] < pos[x] /\ w \in Txs /\ Kind[w] = "withdraw"
  BY DEF InOrder, Withdraws, OfKind
<1>2. CASE pos[w] <= saved
  BY <1>1, <1>2 DEF AppliedInv, Passed, Applied
<1>3. CASE ~(pos[w] <= saved)
  <2>1. w \in batch
    BY <1>1, <1>3 DEF NoGapInv, TypeOK
  <2>2. Kind[w] \in Before(pc)
    BY <1>1 DEF Before
  <2> QED
    BY <1>1, <2>1, <2>2 DEF DoneInv, Applied
<1> QED
  BY <1>2, <1>3

\* What was answered before a step stays so if the step leaves the documents of
\* its withdrawal alone or closes it.
LEMMA AnsweredStays ==
  ASSUME IInv, [Next]_vars, NEW x \in visible, Kind[x] = "withdrawn", Written(x), Answered(x),
         InOrder(x) /\ Target[x] \in Withdraws =>
           /\ Target[x] \in withdraws' \intersect pendings'
                => Target[x] \in withdraws \intersect pendings
           /\ listed[x] > 0 /\ Answers(Target[Target[x]]) \intersect visible' = {}
                => listed'[x] > 0
  PROVE  Answered(x)'
<1> DEFINE w == Target[x]
<1> USE DEF IInv
<1>1. x \in Txs /\ Behind(x)
  BY DEF Written, Behind, TypeOK
<1>2. InOrder(x)' => InOrder(x)
  BY <1>1, InOrderSettled
<1>3. ASSUME InOrder(x), w \in Withdraws PROVE InOrder(w)' => InOrder(w)
  <2>1. w \in visible /\ pos[w] < pos[x] /\ Kind[w] = "withdraw" /\ w \in Txs
    BY <1>3 DEF InOrder, Withdraws, OfKind
  <2>2. Behind(w)
    <3>1. CASE pos[x] <= saved
      BY <1>1, <2>1, <3>1 DEF Behind, TypeOK
    <3>2. CASE x \in batch
      BY <1>1, <2>1, <3>2 DEF Behind, TypeOK
    <3> QED
      BY <3>1, <3>2 DEF Written
  <2> QED
    BY <2>1, <2>2, InOrderSettled
<1>4. visible \subseteq visible'
  <2>1. ASSUME NEW s \in Shards, BeginInsert(s) \/ EndInsert(s) PROVE visible \subseteq visible'
    BY <2>1 DEF BeginInsert, EndInsert
  <2>2. CASE Fetch
    BY <2>2 DEF Fetch, Take, feedVars
  <2> QED
    BY <2>1, <2>2, StepKinds DEF Quiet
<1> SUFFICES ASSUME InOrder(x)', w \in Withdraws
             PROVE  /\ w \in withdraws' => w \notin pendings'
                    /\ InOrder(w)' /\ Answers(Target[w]) \intersect visible' = {}
                         => listed'[x] > 0
  BY DEF Answered
<1>5. InOrder(x)
  BY <1>2
<1>6. w \in withdraws' => w \notin pendings'
  BY <1>5 DEF Answered
<1>7. ASSUME InOrder(w)', Answers(Target[w]) \intersect visible' = {} PROVE listed'[x] > 0
  BY <1>3, <1>4, <1>5, <1>7 DEF Answered
<1> QED
  BY <1>6, <1>7

\* A response comes to be written in its own write only.
LEMMA WasWritten ==
  ASSUME IInv, [Next]_vars, NEW x \in visible' \ late', Kind[x] = "withdrawn", Written(x)'
  PROVE  \/ x \in visible \ late /\ Written(x)
         \/ x \in rest /\ pc = "withdrawn" /\ x \notin rest' /\ DBUpdateWithdrawTradeOrderRes
<1> USE DEF IInv
<1> DEFINE Was == x \in visible \ late /\ Written(x)
<1>1. ASSUME NEW s \in Shards, BeginInsert(s) PROVE Was
  <2>1. x \in visible \ late /\ UNCHANGED <<pc, batch, rest, saved>>
    BY <1>1 DEF BeginInsert, procVars
  <2>2. pos'[x] = pos[x] /\ pos[x] # 0
    BY <2>1, PosStays DEF PlaceInv, TypeOK
  <2> QED
    BY <2>1, <2>2 DEF Written
<1>2. ASSUME NEW s \in Shards, EndInsert(s) PROVE Was
  <2>1. /\ UNCHANGED <<pos, pc, batch, rest, saved>>
        /\ visible' = visible \union {inserting[s]}
        /\ late' = IF Behind(inserting[s]) THEN late \union {inserting[s]} ELSE late
    BY <1>2 DEF EndInsert, procVars
  <2>2. Written(x)
    BY <2>1 DEF Written
  <2>3. Behind(x)
    BY <2>1, <2>2, TypeStep DEF Written, Behind, TypeOK
  <2> QED
    BY <2>1, <2>2, <2>3
<1>3. CASE Fetch
  <2>1. /\ UNCHANGED <<pos, saved, visible>> /\ late' = late \ batch' /\ pc' = "order"
        /\ \A u \in batch' : pos[u] > saved
    BY <1>3 DEF Fetch, FirstOf, Take, feedVars, RoundInv
  <2>2. pos[x] # 0 /\ pos[x] <= saved
    BY <2>1 DEF Written, Before
  <2>3. x \notin batch'
    BY <2>1, <2>2 DEF TypeOK
  <2> QED
    BY <2>1, <2>2, <2>3 DEF Written
<1>4. ASSUME Quiet, \/ Start \/ GetPage \/ RefreshOrder \/ EndPage \/ Crash
      PROVE  Was
  <2>1. saved' = saved /\ pc' \in {"load", "fetch", "page", "refresh"}
    BY <1>4 DEF Start, GetPage, RefreshOrder, EndPage, Crash, TypeOK
  <2>2. pos[x] # 0 /\ pos[x] <= saved
    BY <1>4, <2>1 DEF Written, Before, Quiet
  <2> QED
    BY <1>4, <2>2 DEF Written, Quiet
<1>5. CASE NextWrite
  <2>1. /\ pc \in Kinds /\ rest = {} /\ pc' = AfterWrite[pc] /\ batch' = batch
        /\ rest' = {t \in batch : Kind[t] = pc'} /\ UNCHANGED <<pos, saved, visible, late>>
    BY <1>5 DEF NextWrite, feedVars
  <2>2. Before(pc') \subseteq Before(pc) \union {pc}
    BY <2>1 DEF AfterWrite, Before, Kinds
  <2> QED
    BY <2>1, <2>2 DEF Written
<1>6. CASE SaveCursor
  <2>1. Quiet /\ pc = "cursor" /\ batch' = {}
    BY <1>6 DEF SaveCursor, EndWrites, feedVars, Quiet
  <2>2. x \in visible \ late /\ pos[x] # 0 /\ pos[x] <= saved' /\ x \in Txs
    BY <2>1 DEF Written, Quiet, TypeOK
  <2>3. CASE pos[x] <= saved
    BY <2>2, <2>3 DEF Written
  <2>4. CASE ~(pos[x] <= saved)
    <3>1. PICK last \in batch : saved' = pos[last]
      BY <1>6, <2>2, <2>4 DEF SaveCursor, EndWrites
    <3>2. x \in batch
      BY <3>1, <2>2, <2>4 DEF NoGapInv, TypeOK
    <3> QED
      BY <2>1, <2>2, <3>2 DEF Written, Before, Kinds
  <2> QED
    BY <2>3, <2>4
<1>7. CASE \/ DBSaveTradeOrder \/ DBUpdateTradeOrder
           \/ DBUpdateWithdrawTradeOrderReq \/ DBUpdateWithdrawTradeOrderRes
  <2>1. PICK kind \in Kinds, e \in rest : Writing(kind, e)
    BY <1>7 DEF DBSaveTradeOrder, DBUpdateTradeOrder, DBUpdateWithdrawTradeOrderReq,
                DBUpdateWithdrawTradeOrderRes, Kinds
  <2>2. /\ pc = kind /\ Kind[e] = pc /\ rest' = rest \ {e}
        /\ UNCHANGED <<pos, visible, late, pc, batch, saved>>
    BY <2>1 DEF Writing, RoundInv, feedVars
  <2>3. CASE x = e
    <3>1. pc = "withdrawn" /\ x \in rest /\ x \notin rest'
      BY <2>2, <2>3
    <3>2. ~(DBSaveTradeOrder \/ DBUpdateTradeOrder \/ DBUpdateWithdrawTradeOrderReq)
      BY <3>1 DEF DBSaveTradeOrder, DBUpdateTradeOrder, DBUpdateWithdrawTradeOrderReq, Writing
    <3> QED
      BY <1>7, <3>1, <3>2
  <2>4. CASE x # e
    BY <2>2, <2>4 DEF Written
  <2> QED
    BY <2>3, <2>4
<1>8. CASE UNCHANGED vars
  BY <1>8 DEF vars, feedVars, procVars, Written
<1>9. ASSUME NEW w, Refuse(w) PROVE Was
  BY <1>9 DEF Refuse, procVars, Written
<1>10. ASSUME Start \/ GetPage \/ RefreshOrder \/ EndPage \/ Crash PROVE Quiet
  BY <1>10 DEF Start, GetPage, RefreshOrder, EndPage, Crash, feedVars, Quiet
<1> QED
  BY <1>1, <1>2, <1>3, <1>4, <1>5, <1>6, <1>7, <1>8, <1>9, <1>10
     DEF Next, Feed, Decide, Process

\* The write of a response closes its withdrawal.
LEMMA AnswerCloses ==
  ASSUME IInv, [Next]_vars, NEW x \in rest, pc = "withdrawn", x \notin rest',
         DBUpdateWithdrawTradeOrderRes
  PROVE  Answered(x)'
<1> DEFINE w == Target[x]
<1> USE DEF IInv
<1>1. /\ UNCHANGED <<pos, visible, late, withdraws>>
      /\ \/ w \in withdraws /\ pendings' = pendings \ {w} /\ listed' = [listed EXCEPT ![x] = @ + 1]
         \/ w \in Orders /\ pendings' = pendings
         \/ w \notin withdraws /\ pendings' = pendings
  BY DEF DBUpdateWithdrawTradeOrderRes, Writing, feedVars
<1>2. x \in Txs /\ x \in batch /\ Orders \intersect Withdraws = {}
  BY DEF TypeOK, Orders, Withdraws, OfKind
<1> SUFFICES ASSUME InOrder(x)', w \in Withdraws
             PROVE  /\ w \in withdraws' => w \notin pendings'
                    /\ InOrder(w)' => listed'[x] > 0
  BY DEF Answered
<1>3. w \in withdraws' => w \notin pendings'
  BY <1>1, <1>2
<1>4. ASSUME InOrder(w)' PROVE listed'[x] > 0
  <2>1. InOrder(x) /\ InOrder(w)
    BY <1>1, <1>4 DEF InOrder
  <2>2. w \in withdraws
    BY <2>1, <1>2, WithdrawIsThere
  <2>3. listed' = [listed EXCEPT ![x] = @ + 1]
    BY <2>2, <1>1, <1>2 DEF TypeOK
  <2> QED
    BY <2>3, <1>2 DEF TypeOK
<1> QED
  BY <1>3, <1>4

\* The steps that leave the documents alone.
LEMMA DocSteps ==
  ASSUME [Next]_vars
  PROVE  \/ DBSaveTradeOrder \/ DBUpdateTradeOrder
         \/ DBUpdateWithdrawTradeOrderReq \/ DBUpdateWithdrawTradeOrderRes
         \/ RefreshOrder
         \/ UNCHANGED docVars
<1>1. ASSUME NEW s, BeginInsert(s) \/ EndInsert(s) \/ Refuse(s) PROVE UNCHANGED docVars
  BY <1>1 DEF BeginInsert, EndInsert, Refuse
<1>2. ASSUME \/ Start \/ Fetch \/ NextWrite \/ SaveCursor \/ GetPage \/ EndPage \/ Crash
             \/ UNCHANGED vars
      PROVE  UNCHANGED docVars
  BY <1>2 DEF Start, Fetch, Take, NextWrite, SaveCursor, EndWrites, GetPage, EndPage,
              Crash, vars
<1> QED
  BY <1>1, <1>2 DEF Next, Feed, Decide, Process

\* What a step may do to the document of a withdrawal that has been answered: it
\* is behind the batch that is written, or the batch's withdrawals are all written.
LEMMA AnsweredUndisturbed ==
  ASSUME IInv, [Next]_vars, NEW x \in visible, Kind[x] = "withdrawn", Written(x),
         InOrder(x), Target[x] \in Withdraws
  PROVE  /\ Target[x] \in withdraws' \intersect pendings'
              => Target[x] \in withdraws \intersect pendings
         /\ listed[x] > 0 /\ Answers(Target[Target[x]]) \intersect visible' = {}
              => listed'[x] > 0
<1> DEFINE w == Target[x]
<1> USE DEF IInv
<1>1. x \in Txs /\ w \in Txs /\ pos[w] < pos[x] /\ Kind[w] = "withdraw"
  BY DEF InOrder, TypeOK, Withdraws, OfKind
<1>2. CASE DBSaveTradeOrder \/ RefreshOrder \/ UNCHANGED docVars
  BY <1>2 DEF DBSaveTradeOrder, RefreshOrder, docVars
<1>3. CASE DBUpdateTradeOrder
  <2>1. PICK r \in rest : listed' = [listed EXCEPT ![r] = @ + 1]
    BY <1>3 DEF DBUpdateTradeOrder
  <2>2. listed[x] > 0 => listed'[x] > 0
    BY <1>1, <2>1 DEF TypeOK
  <2>3. UNCHANGED <<withdraws, pendings>>
    BY <1>3 DEF DBUpdateTradeOrder
  <2> QED
    BY <2>2, <2>3
<1>4. CASE DBUpdateWithdrawTradeOrderReq
  <2>1. PICK v \in rest :
          /\ Writing("withdraw", v)
          /\ \/ UNCHANGED <<listed, withdraws, pendings>>
             \/ /\ withdraws' = withdraws \union {v}
                /\ pendings' = pendings \union {v}
                /\ listed' = [y \in Txs |-> IF y \in Answers(v) THEN 0 ELSE listed[y]]
    BY <1>4 DEF DBUpdateWithdrawTradeOrderReq
  <2>2. pc = "withdraw" /\ v \in batch /\ pos[v] > saved /\ v \in Txs
    BY <2>1 DEF Writing, PlaceInv, TypeOK
  <2>3. pos[x] <= saved
    BY <2>2 DEF Written, Before
  <2>4. w # v
    BY <1>1, <2>2, <2>3 DEF TypeOK
  <2>5. x \notin Answers(v)
    BY <2>4 DEF Answers
  <2> QED
    BY <1>1, <2>1, <2>4, <2>5
<1>5. CASE DBUpdateWithdrawTradeOrderRes
  <2>1. PICK y \in rest :
          /\ Writing("withdrawn", y)
          /\ pendings' \subseteq pendings /\ withdraws' = withdraws
          /\ \/ listed' = [listed EXCEPT ![y] = @ + 1]
             \/ /\ Target[y] \in Orders
                /\ listed' = [z \in Txs |-> CASE z = y                   -> 1
                                             [] z \in InfosOf(Target[y]) -> 0
                                             [] OTHER                    -> listed[z]]
             \/ listed' = listed
    BY <1>5 DEF DBUpdateWithdrawTradeOrderRes
  <2>2. y \in visible /\ y \in Txs /\ Kind[y] = "withdrawn" /\ visible' = visible
    BY <2>1 DEF Writing, RoundInv, PlaceInv, TypeOK, Kinds, feedVars
  <2>3. CASE listed' = [listed EXCEPT ![y] = @ + 1] \/ listed' = listed
    BY <1>1, <2>1, <2>3 DEF TypeOK
  <2>4. ASSUME Target[y] \in Orders, x \in InfosOf(Target[y])
        PROVE  Answers(Target[w]) \intersect visible # {}
    <3>1. Target[x] # Target[y]
      BY <2>4, <1>1 DEF Orders, OfKind
    <3>2. PICK v \in Withdraws : Target[v] = Target[y] /\ Target[x] = v
      BY <2>4, <3>1 DEF InfosOf, Answers
    <3>3. y \in Answers(Target[w])
      BY <3>2, <2>2 DEF Answers, OfKind
    <3> QED
      BY <3>3, <2>2
  <2>5. CASE /\ Target[y] \in Orders
             /\ listed' = [z \in Txs |-> CASE z = y                   -> 1
                                          [] z \in InfosOf(Target[y]) -> 0
                                          [] OTHER                    -> listed[z]]
    <3>1. \/ listed'[x] = 1
          \/ x \in InfosOf(Target[y])
          \/ listed'[x] = listed[x]
      BY <1>1, <2>5
    <3> QED
      BY <2>1, <2>2, <2>4, <2>5, <3>1
  <2> QED
    BY <2>1, <2>3, <2>5
<1> QED
  BY <1>2, <1>3, <1>4, <1>5, DocSteps

LEMMA AnsweredStep == IInv /\ AnsweredInv /\ [Next]_vars => AnsweredInv'
<1> SUFFICES ASSUME IInv, AnsweredInv, [Next]_vars,
                    NEW x \in visible' \ late', Kind[x] = "withdrawn", Written(x)'
             PROVE  Answered(x)'
  BY DEF AnsweredInv
<1>1. CASE x \in visible \ late /\ Written(x)
  <2>1. Answered(x)
    BY <1>1 DEF AnsweredInv
  <2> QED
    BY <1>1, <2>1, AnsweredStays, AnsweredUndisturbed
<1>2. CASE x \in rest /\ pc = "withdrawn" /\ x \notin rest' /\ DBUpdateWithdrawTradeOrderRes
  BY <1>2, AnswerCloses
<1> QED
  BY <1>1, <1>2, WasWritten

LEMMA OpenStep == IInv /\ OpenInv /\ [Next]_vars => OpenInv'
<1> SUFFICES ASSUME IInv, OpenInv, [Next]_vars, NEW w \in withdraws'
             PROVE  w \in pendings' \/ w \in refused' \/ Answers(w) \intersect visible' # {}
  BY DEF OpenInv
<1> USE DEF IInv
<1>1. visible \subseteq visible' /\ refused \subseteq refused'
  <2>1. ASSUME NEW s, BeginInsert(s) \/ EndInsert(s) \/ Refuse(s)
        PROVE  visible \subseteq visible' /\ refused \subseteq refused'
    BY <2>1 DEF BeginInsert, EndInsert, Refuse
  <2>2. ASSUME \/ Start \/ Fetch \/ NextWrite \/ SaveCursor \/ GetPage \/ RefreshOrder
               \/ EndPage \/ Crash \/ UNCHANGED vars
        PROVE  visible \subseteq visible' /\ refused \subseteq refused'
    BY <2>2 DEF Start, Fetch, Take, NextWrite, SaveCursor, EndWrites, GetPage, RefreshOrder,
                EndPage, Crash, vars, feedVars
  <2>3. ASSUME \/ DBSaveTradeOrder \/ DBUpdateTradeOrder
               \/ DBUpdateWithdrawTradeOrderReq \/ DBUpdateWithdrawTradeOrderRes
        PROVE  visible \subseteq visible' /\ refused \subseteq refused'
    BY <2>3 DEF DBSaveTradeOrder, DBUpdateTradeOrder, DBUpdateWithdrawTradeOrderReq,
                DBUpdateWithdrawTradeOrderRes, Writing, feedVars
  <2> QED
    BY <2>1, <2>2, <2>3 DEF Next, Feed, Decide, Process
<1>2. CASE UNCHANGED <<withdraws, pendings>>
  BY <1>1, <1>2 DEF OpenInv
<1>3. CASE DBUpdateWithdrawTradeOrderReq
  <2>1. PICK v \in rest : \/ UNCHANGED <<withdraws, pendings>>
                          \/ /\ withdraws' = withdraws \union {v}
                             /\ pendings' = pendings \union {v}
    BY <1>3 DEF DBUpdateWithdrawTradeOrderReq
  <2> QED
    BY <1>1, <2>1 DEF OpenInv
<1>4. CASE DBUpdateWithdrawTradeOrderRes
  <2>1. PICK x \in rest : /\ Writing("withdrawn", x)
                          /\ pendings' = pendings \ {Target[x]} \/ pendings' = pendings
                          /\ withdraws' = withdraws
    BY <1>4 DEF DBUpdateWithdrawTradeOrderRes
  <2>2. x \in visible /\ x \in OfKind("withdrawn")
    BY <2>1 DEF Writing, RoundInv, PlaceInv, TypeOK, Kinds, OfKind
  <2>3. x \in Answers(Target[x])
    BY <2>2 DEF Answers
  <2> QED
    BY <1>1, <2>1, <2>2, <2>3 DEF OpenInv
<1>5. CASE RefreshOrder
  BY <1>1, <1>5 DEF RefreshOrder, OpenInv
<1> QED
  BY <1>2, <1>3, <1>4, <1>5, DocSteps DEF DBSaveTradeOrder, DBUpdateTradeOrder, docVars

LEMMA SpecAnswered == Spec => [](IInv /\ AnsweredInv /\ OpenInv)
<1>1. Init => IInv /\ AnsweredInv /\ OpenInv
  BY InitIInv DEF Init, AnsweredInv, OpenInv
<1>2. IInv /\ AnsweredInv /\ OpenInv /\ [Next]_vars => (IInv /\ AnsweredInv /\ OpenInv)'
  BY StepIInv, AnsweredStep, OpenStep
<1> QED
  BY <1>1, <1>2, PTL DEF Spec

LEMMA PassedWritten == ASSUME IInv, NEW t \in Passed PROVE Written(t) /\ t \in visible \ late
BY DEF Passed, Written, IInv, PlaceInv

\* A response that has been processed after its withdrawal stays listed, although a
\* withdrawal that is written again begins a fresh WithdrawInfo
\* (pdex.go: DBUpdateWithdrawTradeOrderReq).
THEOREM SpecAnswerIsListed == Spec => []AnswerIsListed
<1>1. IInv /\ AnsweredInv => AnswerIsListed
  BY PassedWritten DEF AnsweredInv, Answered, AnswerIsListed
<1> QED
  BY <1>1, SpecAnswered, PTL

\* A withdrawal is pending from the time it is processed until it is answered or
\* refused: a repeated $addToSet does not open it again.
THEOREM SpecPendingIffOpen == Spec => []PendingIffOpen
<1>1. IInv /\ AnsweredInv /\ OpenInv => PendingIffOpen
  <2> SUFFICES ASSUME IInv, AnsweredInv, OpenInv, NEW w \in Passed \intersect withdraws
               PROVE  /\ (\E x \in Answers(w) \intersect Passed : InOrder(x)) => w \notin pendings
                      /\ w \notin pendings => w \in refused \/ Answers(w) \intersect visible # {}
    BY DEF PendingIffOpen
  <2>1. ASSUME NEW x \in Answers(w) \intersect Passed, InOrder(x) PROVE w \notin pendings
    <3>1. Kind[x] = "withdrawn" /\ Target[x] = w /\ w \in Withdraws
      BY DEF Answers, OfKind, IInv, TypeOK
    <3> QED
      BY <2>1, <3>1, PassedWritten DEF AnsweredInv, Answered
  <2> QED
    BY <2>1 DEF OpenInv
<1> QED
  BY <1>1, SpecAnswered, PTL
=============================================================================
