-------------------------- MODULE PdexLists_proofs --------------------------
(***************************************************************************)
(* Proofs about PdexLists: the types of its variables; the lists are those *)
(* of the last block, whatever the chain does and wherever the             *)
(* synchroniser ends; and what the answers to orders add up to.            *)
(***************************************************************************)
EXTENDS TradeEstimate, NaturalFacts

Blocks == 1 .. LastBlock

\* Which of its values an item's document needs for the lists of block h, and
\* which items are to be without one.
Kept(i, h) == i \in There(h) /\ At(i, h) # "unlisted"
Left(i, h) ==
  i \notin There(h) /\ h > FirstCompared /\ At(i, h - 1) \notin {"absent", "rewards"}

StateTask  == <<"state", NoItem>>
RecordTask == <<"records", NoItem>>

CoreType ==
  /\ listed \in [Items -> Nat]
  /\ records \in [Blocks -> Nat]
  /\ cur \in Heights /\ height \in Heights /\ next \in 1 .. LastBlock + 1 /\ best \in Heights
  /\ ends \in Nat

\* The synchroniser goes on with the last recorded block or the one after it.
PlaceInv ==
  /\ up => next = height \/ next = height + 1
  /\ cur # 0 => up /\ cur = next
  /\ work \subseteq Tasks
  /\ cur = 0 => work = {}
  /\ ~up => ~clean /\ cur = 0

\* What an item of the block in hand lacks, its goroutine has still to write; and
\* no goroutine writes what is gone, or deletes what is there.
ItemAt(i) ==
  /\ <<"write", i>> \in work => i \in There(cur)
  /\ <<"delete", i>> \in work => ~Kept(i, cur)
  /\ Kept(i, cur) => listed[i] = cur \/ <<"write", i>> \in work
  /\ Left(i, cur) => listed[i] = 0 \/ <<"delete", i>> \in work

WorkInv ==
  clean /\ cur # 0 =>
    /\ state = cur \/ StateTask \in work
    /\ \A i \in Items : ItemAt(i)
    /\ cur > 1 => records[cur] >= 1 \/ RecordTask \in work

\* This life of the process has not recorded the rewards of block h.
Ahead(h) ==
  ~up \/ next < h \/ (next = h /\ (cur = 0 \/ RecordTask \in work))

RecordsAt(h) ==
  /\ records[h] <= ends + 1
  /\ Ahead(h) => records[h] <= ends
RecordsInv == \A h \in Blocks : RecordsAt(h)

\* Between two blocks.
ListedInv ==
  clean /\ cur = 0 =>
    /\ state = height
    /\ \A i \in Items : /\ Kept(i, height) => listed[i] = height
                        /\ Left(i, height) => listed[i] = 0
    /\ height > 1 => records[height] >= 1

IInv == CoreType /\ PlaceInv /\ WorkInv /\ RecordsInv /\ ListedInv

USE DEF Blocks, Heights

-----------------------------------------------------------------------------
\* What the other processes leave alone.
Quiet ==
  /\ UNCHANGED <<chain, up, next, cur, work, height, listed, state, records, clean>>
  /\ ends' \in {ends, ends + 1}
  /\ best' \in Heights

LEMMA QuietSteps ==
  ASSUME CoreType,
         Grow \/ Rate \/ ProcessTrades \/ PoolListWatcher \/ Query \/ UNCHANGED vars
  PROVE  Quiet
<1> USE HistoryAssumption DEF CoreType, Quiet
<1>1. CASE Grow
  BY <1>1 DEF Grow, syncVars
<1>2. CASE Rate
  BY <1>2 DEF Rate, syncVars
<1>3. CASE ProcessTrades
  BY <1>3 DEF ProcessTrades, syncVars
<1>4. CASE PoolListWatcher
  BY <1>4 DEF PoolListWatcher, syncVars, PublishPanics
<1>5. CASE Query
  BY <1>5 DEF Query, syncVars
<1>6. CASE UNCHANGED vars
  BY <1>6 DEF vars, syncVars
<1> QED
  BY <1>1, <1>2, <1>3, <1>4, <1>5, <1>6

\* The history does not change.
LEMMA SameHistory ==
  ASSUME chain' = chain
  PROVE  \A i \in Items, h \in Heights : /\ Kept(i, h)' <=> Kept(i, h)
                                         /\ Left(i, h)' <=> Left(i, h)
                                         /\ (i \in There(h))' <=> i \in There(h)
BY DEF Kept, Left, There, At, This

LEMMA QuietKeeps ==
  ASSUME IInv, Quiet
  PROVE  IInv'
<1>1. CoreType'
  BY DEF IInv, CoreType, Quiet
<1>2. PlaceInv'
  BY DEF IInv, PlaceInv, Quiet
<1>3. WorkInv'
  <2>1. \A i \in Items : cur \in Heights => (ItemAt(i)' <=> ItemAt(i))
    BY SameHistory DEF Quiet, ItemAt
  <2> QED
    BY <2>1 DEF IInv, WorkInv, Quiet, CoreType
<1>4. RecordsInv'
  <2> SUFFICES ASSUME NEW h \in Blocks PROVE RecordsAt(h)'
    BY DEF RecordsInv
  <2>1. RecordsAt(h) /\ records[h] \in Nat /\ ends \in Nat
    BY DEF IInv, RecordsInv, CoreType
  <2>2. Ahead(h)' <=> Ahead(h)
    BY DEF Quiet, Ahead
  <2> QED
    BY <2>1, <2>2 DEF RecordsAt, Quiet
<1>5. ListedInv'
  BY SameHistory DEF IInv, ListedInv, CoreType, Quiet
<1> QED
  BY <1>1, <1>2, <1>3, <1>4, <1>5 DEF IInv

-----------------------------------------------------------------------------
(* The steps of the synchroniser. *)

LEMMA WorkType ==
  ASSUME NEW h \in Heights
  PROVE  WorkOf(h) \subseteq Tasks
<1>1. There(h) \subseteq Items /\ ToBeDeleted(h) \subseteq Items
  BY DEF There, ToBeDeleted, Gone, Previous, Items
<1>2. Rewards(h) \subseteq Tasks
  BY DEF Rewards, Tasks
<1>3. {"write"} \X There(h) \subseteq Tasks /\ {"delete"} \X ToBeDeleted(h) \subseteq Tasks
  BY <1>1 DEF Tasks
<1>4. {<<"state", NoItem>>} \subseteq Tasks
  BY DEF Tasks
<1> QED
  BY <1>2, <1>3, <1>4 DEF WorkOf

\* What the goroutines of a block that follows the chain have to write.
LEMMA WorkFact ==
  ASSUME HistoryAssumption, NEW h \in Heights, h # 0, Follows(h)
  PROVE  /\ StateTask \in WorkOf(h)
         /\ h > 1 => RecordTask \in WorkOf(h)
         /\ \A i \in Items :
              /\ <<"write", i>> \in WorkOf(h) <=> i \in There(h)
              /\ <<"delete", i>> \in WorkOf(h) => ~Kept(i, h)
              /\ Left(i, h) => <<"delete", i>> \in WorkOf(h)
<1>1. WorkOf(h) = {StateTask} \union (({"write"} \X There(h)) \union ({"delete"} \X ToBeDeleted(h))
                                        \union Rewards(h))
  BY DEF WorkOf, StateTask
<1>2. ASSUME NEW i \in Items, Left(i, h) PROVE i \in ToBeDeleted(h)
  <2>1. h > FirstCompared /\ FirstCompared \in Nat /\ h \in Nat
    BY <1>2 DEF Left
  <2>2. i \in Previous(h)
    BY <1>2, <2>1 DEF Left, Previous
  <2> QED
    BY <1>2, <2>2 DEF Left, ToBeDeleted, Gone
<1>3. ASSUME NEW i \in Items, i \in ToBeDeleted(h) PROVE ~Kept(i, h)
  BY <1>3 DEF ToBeDeleted, Gone, Kept
<1>4. \A x \in Rewards(h) : x = RecordTask
  BY DEF Rewards, RecordTask
<1>5. h > 1 => RecordTask \in Rewards(h)
  BY DEF Rewards, RecordTask
<1>6. ASSUME NEW i \in Items
      PROVE  /\ <<"write", i>> \in WorkOf(h) <=> i \in There(h)
             /\ <<"delete", i>> \in WorkOf(h) <=> i \in ToBeDeleted(h)
  <2>1. <<"write", i>> # StateTask /\ <<"delete", i>> # StateTask
    BY DEF StateTask
  <2>2. <<"write", i>> \notin Rewards(h) /\ <<"delete", i>> \notin Rewards(h)
    BY <1>4 DEF RecordTask
  <2> QED
    BY <1>1, <2>1, <2>2
<1> QED
  BY <1>1, <1>2, <1>3, <1>5, <1>6

LEMMA BeginStep ==
  ASSUME IInv, Begin
  PROVE  IInv'
<1> USE HistoryAssumption DEF IInv
<1>1. /\ up /\ cur = 0 /\ next <= best /\ cur' = next /\ work' = WorkOf(next)
      /\ clean' = Follows(next)
      /\ UNCHANGED <<chain, best, up, next, height, listed, state, records, ends>>
  BY DEF Begin
<1>2. next \in Heights /\ next # 0 /\ next \in Nat
  BY <1>1 DEF CoreType
<1>3. CoreType'
  BY <1>1, <1>2 DEF CoreType
<1>4. PlaceInv'
  <2>1. WorkOf(next) \subseteq Tasks
    BY <1>2, WorkType
  <2>2. Tasks' = Tasks
    BY DEF Tasks
  <2> QED
    BY <1>1, <1>2, <2>1, <2>2 DEF PlaceInv
<1>5. WorkInv'
  <2> SUFFICES ASSUME Follows(next)
               PROVE  /\ StateTask \in work'
                      /\ \A i \in Items : ItemAt(i)'
                      /\ next > 1 => RecordTask \in work'
    BY <1>1 DEF WorkInv
  <2>1. ASSUME NEW i \in Items PROVE ItemAt(i)'
    <3>1. /\ Kept(i, next)' <=> Kept(i, next)
          /\ Left(i, next)' <=> Left(i, next)
          /\ (i \in There(next))' <=> i \in There(next)
      BY <1>1 DEF Kept, Left, There, At, This
    <3>2. /\ <<"write", i>> \in WorkOf(next) <=> i \in There(next)
          /\ <<"delete", i>> \in WorkOf(next) => ~Kept(i, next)
          /\ Left(i, next) => <<"delete", i>> \in WorkOf(next)
      BY <1>2, WorkFact
    <3>3. Kept(i, next) => i \in There(next)
      BY DEF Kept
    <3>4. /\ Kept(i, cur)' <=> Kept(i, next)
          /\ Left(i, cur)' <=> Left(i, next)
          /\ (i \in There(cur))' <=> i \in There(next)
      BY <1>1 DEF Kept, Left, There, At, This
    <3> QED
      BY <1>1, <3>2, <3>3, <3>4 DEF ItemAt
  <2> QED
    BY <1>1, <1>2, <2>1, WorkFact
<1>6. RecordsInv'
  <2> SUFFICES ASSUME NEW h \in Blocks PROVE RecordsAt(h)'
    BY DEF RecordsInv
  <2>1. RecordsAt(h) /\ (Ahead(h)' => Ahead(h))
    BY <1>1, <1>2 DEF RecordsInv, Ahead
  <2> QED
    BY <1>1, <2>1 DEF RecordsAt
<1>7. ListedInv'
  BY <1>1, <1>2 DEF ListedInv
<1> QED
  BY <1>3, <1>4, <1>5, <1>6, <1>7

LEMMA FinishStep ==
  ASSUME IInv, Finish
  PROVE  IInv'
<1> USE HistoryAssumption DEF IInv
<1>1. /\ cur # 0 /\ work = {} /\ height' = cur /\ next' = cur + 1 /\ cur' = 0
      /\ UNCHANGED <<chain, best, up, work, listed, state, records, clean, ends>>
  BY DEF Finish
<1>2. cur \in Nat /\ cur = next /\ up
  BY <1>1 DEF CoreType, PlaceInv
<1>3. CoreType'
  BY <1>1, <1>2 DEF CoreType
<1>4. PlaceInv'
  BY <1>1, <1>2 DEF PlaceInv
<1>5. WorkInv'
  BY <1>1 DEF WorkInv
<1>6. RecordsInv'
  <2> SUFFICES ASSUME NEW h \in Blocks PROVE RecordsAt(h)'
    BY DEF RecordsInv
  <2>1. RecordsAt(h) /\ (Ahead(h)' => Ahead(h))
    BY <1>1, <1>2 DEF RecordsInv, Ahead
  <2> QED
    BY <1>1, <2>1 DEF RecordsAt
<1>7. ListedInv'
  <2> SUFFICES ASSUME clean
               PROVE  /\ state = cur
                      /\ \A i \in Items : /\ Kept(i, height)' => listed[i] = cur
                                          /\ Left(i, height)' => listed[i] = 0
                      /\ cur > 1 => records[cur] >= 1
    BY <1>1 DEF ListedInv
  <2>1. \A i \in Items : (Kept(i, height)' <=> Kept(i, cur)) /\ (Left(i, height)' <=> Left(i, cur))
    BY <1>1 DEF Kept, Left, There, At, This
  <2> QED
    BY <1>1, <2>1 DEF WorkInv, ItemAt
<1> QED
  BY <1>3, <1>4, <1>5, <1>6, <1>7

\* An end, a start, and a write that fails unseen: nothing is said of the lists.
LEMMA FaultSteps ==
  ASSUME IInv, End \/ Start \/ \E t \in work : FailUnseen(t)
  PROVE  IInv'
<1> USE HistoryAssumption DEF IInv
<1>1. CASE End
  <2>1. /\ ~up' /\ cur' = 0 /\ work' = {} /\ ~clean' /\ ends' = ends + 1
        /\ UNCHANGED <<chain, best, next, height, listed, state, records>>
    BY <1>1 DEF End
  <2>2. CoreType' /\ PlaceInv' /\ WorkInv' /\ ListedInv'
    <3>1. CoreType'
      BY <2>1 DEF CoreType
    <3>2. PlaceInv'
      BY <2>1 DEF PlaceInv
    <3>3. WorkInv' /\ ListedInv'
      BY <2>1 DEF WorkInv, ListedInv
    <3> QED
      BY <3>1, <3>2, <3>3
  <2>3. ASSUME NEW h \in Blocks PROVE RecordsAt(h)'
    BY <2>1 DEF RecordsInv, RecordsAt, CoreType
  <2> QED
    BY <2>2, <2>3 DEF RecordsInv
<1>2. CASE Start
  <2>1. /\ ~up /\ up' /\ next' = IF height = 0 THEN 1 ELSE height
        /\ UNCHANGED <<chain, best, cur, work, height, listed, state, records, clean, ends>>
    BY <1>2 DEF Start
  <2>2. ~clean /\ cur = 0 /\ work = {}
    BY <2>1 DEF PlaceInv
  <2>3. CoreType' /\ PlaceInv' /\ WorkInv' /\ ListedInv'
    <3>1. next' \in 1 .. LastBlock + 1
      BY <2>1 DEF CoreType
    <3>2. CoreType'
      BY <2>1, <3>1 DEF CoreType
    <3>3. PlaceInv'
      BY <2>1, <2>2 DEF CoreType, PlaceInv
    <3>4. WorkInv' /\ ListedInv'
      BY <2>1, <2>2 DEF WorkInv, ListedInv
    <3> QED
      BY <3>2, <3>3, <3>4
  <2>4. ASSUME NEW h \in Blocks PROVE RecordsAt(h)'
    BY <2>1 DEF RecordsInv, RecordsAt, Ahead, CoreType
  <2> QED
    BY <2>3, <2>4 DEF RecordsInv
<1>3. ASSUME NEW t \in work, FailUnseen(t) PROVE IInv'
  <2>1. /\ work' \subseteq work /\ ~clean'
        /\ UNCHANGED <<chain, best, up, next, cur, height, listed, state, records, ends>>
    BY <1>3 DEF FailUnseen
  <2>2. CoreType' /\ PlaceInv' /\ WorkInv' /\ ListedInv'
    <3>1. CoreType'
      BY <2>1 DEF CoreType
    <3>2. PlaceInv'
      BY <2>1 DEF PlaceInv
    <3>3. WorkInv' /\ ListedInv'
      BY <2>1 DEF WorkInv, ListedInv, PlaceInv
    <3> QED
      BY <3>1, <3>2, <3>3
  <2>3. ASSUME NEW h \in Blocks PROVE RecordsAt(h)'
    BY <2>1 DEF RecordsInv, RecordsAt, Ahead
  <2> QED
    BY <2>2, <2>3 DEF RecordsInv
<1> QED
  BY <1>1, <1>2, <1>3

LEMMA WriteForms ==
  ASSUME NEW t \in Tasks, Write(t)
  PROVE  \/ \E i \in Items : t = <<"write", i>> /\ Upsert(i)
         \/ \E i \in Items : t = <<"delete", i>> /\ Delete(i)
         \/ t = StateTask /\ SaveState
         \/ t = RecordTask /\ SaveRecord
<1>1. CASE t \in {"write", "delete"} \X Items
  <2>1. /\ t[1] \in {"write", "delete"} /\ t[2] \in Items
        /\ t = <<t[1], t[2]>>
    BY <1>1
  <2> QED
    BY <2>1 DEF Write
<1>2. CASE t \in {"state", "records"} \X {NoItem}
  <2>1. /\ t[1] \in {"state", "records"} /\ t[2] = NoItem
        /\ t = <<t[1], t[2]>>
    BY <1>2
  <2> QED
    BY <2>1 DEF Write, StateTask, RecordTask
<1> QED
  BY <1>1, <1>2 DEF Tasks

\* A goroutine's write to the document of one item.
LEMMA ItemWrite ==
  ASSUME IInv, NEW j \in Items, NEW t \in work,
         work' = work \ {t}, cur # 0,
         UNCHANGED <<chain, best, up, next, cur, height, clean, ends, state, records>>,
         \/ t = <<"write", j>> /\ listed' = [listed EXCEPT ![j] = cur]
         \/ t = <<"delete", j>> /\ listed' = [listed EXCEPT ![j] = 0]
  PROVE  IInv'
<1> USE HistoryAssumption DEF IInv
<1>1. cur \in Nat /\ t # StateTask /\ t # RecordTask
  BY DEF CoreType, StateTask, RecordTask
<1>2. CoreType'
  <2>1. CoreType
    OBVIOUS
  <2>2. listed' \in [Items -> Nat]
    <3>1. listed \in [Items -> Nat]
      BY <2>1 DEF CoreType
    <3>2. CASE listed' = [listed EXCEPT ![j] = cur]
      BY <1>1, <3>1, <3>2
    <3>3. CASE listed' = [listed EXCEPT ![j] = 0]
      BY <3>1, <3>3
    <3> QED
      BY <3>2, <3>3
  <2> QED
    BY <2>1, <2>2 DEF CoreType
<1>3. PlaceInv'
  <2>1. PlaceInv /\ Tasks' = Tasks
    BY DEF Tasks
  <2>2. work' \subseteq Tasks'
    BY <2>1 DEF PlaceInv
  <2>3. cur' # 0 /\ up' /\ cur' = next' /\ (next' = height' \/ next' = height' + 1)
    BY <2>1 DEF PlaceInv
  <2> QED
    BY <2>2, <2>3 DEF PlaceInv
<1>4. WorkInv'
  <2> SUFFICES ASSUME clean PROVE WorkInv'
    BY DEF WorkInv
  <2>1. WorkInv /\ CoreType
    OBVIOUS
  <2>2. ASSUME NEW i \in Items PROVE ItemAt(i)'
    <3>1. ItemAt(i)
      BY <2>1 DEF WorkInv
    <3>2. ItemAt(j)
      BY <2>1 DEF WorkInv
    <3>3. /\ Kept(i, cur)' <=> Kept(i, cur)
          /\ Left(i, cur)' <=> Left(i, cur)
          /\ (i \in There(cur))' <=> i \in There(cur)
      BY DEF Kept, Left, There, At, This
    <3>4. Left(i, cur) => i \notin There(cur)
      BY DEF Left
    <3>5. CASE i = j
      <4>1. CASE t = <<"write", j>>
        BY <2>1, <3>2, <3>3, <3>4, <3>5, <4>1 DEF ItemAt, CoreType
      <4>2. CASE t = <<"delete", j>>
        BY <2>1, <3>2, <3>3, <3>4, <3>5, <4>2 DEF ItemAt, CoreType
      <4> QED
        BY <4>1, <4>2
    <3>6. CASE i # j
      <4>1. /\ listed'[i] = listed[i]
            /\ <<"write", i>> \in work' <=> <<"write", i>> \in work
            /\ <<"delete", i>> \in work' <=> <<"delete", i>> \in work
        BY <2>1, <3>6 DEF CoreType
      <4> QED
        BY <3>1, <3>3, <4>1 DEF ItemAt
    <3> QED
      BY <3>5, <3>6
  <2> QED
    BY <1>1, <2>1, <2>2 DEF WorkInv
<1>5. RecordsInv'
  <2> SUFFICES ASSUME NEW h \in Blocks PROVE RecordsAt(h)'
    BY DEF RecordsInv
  <2>1. RecordsAt(h) /\ (Ahead(h)' => Ahead(h))
    BY DEF RecordsInv, Ahead
  <2> QED
    BY <2>1 DEF RecordsAt
<1>6. ListedInv'
  BY DEF ListedInv
<1> QED
  BY <1>2, <1>3, <1>4, <1>5, <1>6

\* A goroutine's write of the state or of the rewards.
LEMMA BlockWrite ==
  ASSUME IInv, NEW t \in work,
         work' = work \ {t}, cur # 0,
         UNCHANGED <<chain, best, up, next, cur, height, clean, ends, listed>>,
         \/ t = StateTask /\ SaveState
         \/ t = RecordTask /\ SaveRecord
  PROVE  IInv'
<1> USE HistoryAssumption DEF IInv
<1>1. cur \in Nat /\ cur \in Blocks /\ up /\ cur = next /\ StateTask # RecordTask
  BY DEF CoreType, PlaceInv, StateTask, RecordTask
<1>2. CoreType'
  <2>1. CoreType
    OBVIOUS
  <2>2. records' \in [Blocks -> Nat]
    <3>1. records \in [Blocks -> Nat]
      BY <2>1 DEF CoreType
    <3>2. CASE SaveState
      BY <3>1, <3>2 DEF SaveState
    <3>3. CASE SaveRecord
      <4>1. records[cur] + 1 \in Nat
        BY <1>1, <3>1
      <4> QED
        BY <1>1, <3>1, <3>3, <4>1 DEF SaveRecord
    <3> QED
      BY <3>2, <3>3
  <2>3. listed' \in [Items -> Nat]
    BY <2>1 DEF CoreType
  <2> QED
    BY <2>1, <2>2, <2>3 DEF CoreType
<1>3. PlaceInv'
  <2>1. PlaceInv /\ Tasks' = Tasks
    BY DEF Tasks
  <2>2. work' \subseteq Tasks'
    BY <2>1 DEF PlaceInv
  <2>3. cur' # 0 /\ up' /\ cur' = next' /\ (next' = height' \/ next' = height' + 1)
    BY <2>1 DEF PlaceInv
  <2> QED
    BY <2>2, <2>3 DEF PlaceInv
<1>4. WorkInv'
  <2> SUFFICES ASSUME clean PROVE WorkInv'
    BY DEF WorkInv
  <2>1. WorkInv /\ CoreType
    OBVIOUS
  <2>2. ASSUME NEW i \in Items PROVE ItemAt(i)'
    <3>1. ItemAt(i)
      BY <2>1 DEF WorkInv
    <3>2. /\ Kept(i, cur)' <=> Kept(i, cur)
          /\ Left(i, cur)' <=> Left(i, cur)
          /\ (i \in There(cur))' <=> i \in There(cur)
      BY DEF Kept, Left, There, At, This
    <3>3. /\ <<"write", i>> \in work' <=> <<"write", i>> \in work
          /\ <<"delete", i>> \in work' <=> <<"delete", i>> \in work
      BY DEF StateTask, RecordTask
    <3> QED
      BY <3>1, <3>2, <3>3 DEF ItemAt
  <2>3. CASE t = StateTask /\ SaveState
    BY <1>1, <2>1, <2>2, <2>3 DEF WorkInv, SaveState
  <2>4. CASE t = RecordTask /\ SaveRecord
    <3>1. records[cur] \in Nat /\ records'[cur] = records[cur] + 1 /\ state' = state
      BY <1>1, <2>1, <2>4 DEF CoreType, SaveRecord
    <3> QED
      BY <1>1, <2>1, <2>2, <2>4, <3>1 DEF WorkInv
  <2> QED
    BY <1>1, <2>3, <2>4
<1>5. RecordsInv'
  <2> SUFFICES ASSUME NEW h \in Blocks PROVE RecordsAt(h)'
    BY DEF RecordsInv
  <2>1. RecordsAt(h) /\ (Ahead(h)' => Ahead(h))
    BY DEF RecordsInv, Ahead
  <2>2. CASE records'[h] = records[h]
    BY <2>1, <2>2 DEF RecordsAt
  <2>3. CASE records'[h] # records[h]
    <3>1. t = RecordTask /\ h = cur /\ records'[h] = records[h] + 1
      BY <1>1, <2>3 DEF SaveState, SaveRecord, CoreType
    <3>2. Ahead(h) /\ ~Ahead(h)'
      BY <1>1, <3>1 DEF Ahead
    <3> QED
      BY <2>1, <3>1, <3>2 DEF RecordsAt, CoreType
  <2> QED
    BY <2>2, <2>3
<1>6. ListedInv'
  BY DEF ListedInv
<1> QED
  BY <1>2, <1>3, <1>4, <1>5, <1>6

LEMMA WriteStep ==
  ASSUME IInv, NEW t \in work, Write(t)
  PROVE  IInv'
<1>1. t \in Tasks /\ cur # 0
  BY DEF IInv, PlaceInv
<1>2. /\ work' = work \ {t}
      /\ UNCHANGED <<chain, best, up, next, cur, height, clean, ends>>
  BY DEF Write
<1>3. CASE \E j \in Items : t = <<"write", j>> /\ Upsert(j)
  BY <1>1, <1>2, <1>3, ItemWrite DEF Upsert
<1>4. CASE \E j \in Items : t = <<"delete", j>> /\ Delete(j)
  BY <1>1, <1>2, <1>4, ItemWrite DEF Delete
<1>5. CASE t = StateTask /\ SaveState
  BY <1>1, <1>2, <1>5, BlockWrite DEF SaveState
<1>6. CASE t = RecordTask /\ SaveRecord
  BY <1>1, <1>2, <1>6, BlockWrite DEF SaveRecord
<1> QED
  BY <1>1, <1>3, <1>4, <1>5, <1>6, WriteForms

\* Mongo removes only what the last block has left alone, as long as the
\* synchroniser runs; and no block is clean when it does not.
LEMMA ExpireStep ==
  ASSUME IInv, NEW j \in Items, Expire(j)
  PROVE  IInv'
<1> USE HistoryAssumption DEF IInv
<1>1. /\ listed' = [listed EXCEPT ![j] = 0]
      /\ UNCHANGED <<chain, best, up, next, cur, work, height, state, records, clean, ends>>
  BY DEF Expire, syncVars
<1>2. clean => up /\ listed[j] < height
  BY DEF Expire, Overtaken, PlaceInv
<1>3. CoreType'
  BY <1>1 DEF CoreType
<1>4. PlaceInv'
  BY <1>1 DEF PlaceInv, Tasks
<1>5. ASSUME NEW i \in Items
      PROVE  /\ listed'[i] = IF i = j THEN 0 ELSE listed[i]
             /\ listed[i] \in Nat
             /\ \A h \in Heights : /\ Kept(i, h)' <=> Kept(i, h)
                                   /\ Left(i, h)' <=> Left(i, h)
                                   /\ (i \in There(h))' <=> i \in There(h)
  BY <1>1, SameHistory DEF CoreType
<1>6. WorkInv'
  <2> SUFFICES ASSUME clean, cur # 0 PROVE WorkInv'
    BY <1>1 DEF WorkInv
  <2>1. height <= cur /\ cur \in Heights
    BY <1>2 DEF PlaceInv, CoreType
  <2>2. listed[j] # cur
    BY <1>2, <1>5, <2>1 DEF CoreType
  <2>3. ASSUME NEW i \in Items PROVE ItemAt(i)'
    BY <1>1, <1>5, <2>1, <2>2 DEF WorkInv, ItemAt
  <2> QED
    BY <1>1, <2>3 DEF WorkInv
<1>7. RecordsInv'
  BY <1>1 DEF RecordsInv, RecordsAt, Ahead
<1>8. ListedInv'
  <2> SUFFICES ASSUME clean, cur = 0 PROVE ListedInv'
    BY <1>1 DEF ListedInv
  <2>1. height \in Heights /\ listed[j] # height
    BY <1>2, <1>5 DEF CoreType
  <2> QED
    BY <1>1, <1>5, <2>1 DEF ListedInv
<1> QED
  BY <1>3, <1>4, <1>6, <1>7, <1>8

-----------------------------------------------------------------------------
LEMMA InitIInv ==
  ASSUME Init
  PROVE  IInv
<1> USE HistoryAssumption
<1>1. CoreType
  BY DEF Init, CoreType
<1>2. PlaceInv /\ WorkInv /\ ListedInv
  BY DEF Init, PlaceInv, WorkInv, ListedInv
<1>3. RecordsInv
  BY DEF Init, RecordsInv, RecordsAt
<1> QED
  BY <1>1, <1>2, <1>3 DEF IInv

LEMMA NextIInv ==
  ASSUME IInv, [Next]_vars
  PROVE  IInv'
<1>1. CASE Grow \/ Rate \/ ProcessTrades \/ PoolListWatcher \/ Query \/ UNCHANGED vars
  BY <1>1, QuietSteps, QuietKeeps DEF IInv
<1>2. CASE End \/ Start \/ \E t \in work : FailUnseen(t)
  BY <1>2, FaultSteps
<1>3. CASE Begin
  BY <1>3, BeginStep
<1>4. CASE \E t \in work : Write(t)
  BY <1>4, WriteStep
<1>5. CASE Finish
  BY <1>5, FinishStep
<1>6. CASE \E i \in Items : Expire(i)
  BY <1>6, ExpireStep
<1> QED
  BY <1>1, <1>2, <1>3, <1>4, <1>5, <1>6 DEF Next, Synchronise

LEMMA IInvImplies ==
  ASSUME IInv
  PROVE  ListsFollowChain
<1> USE HistoryAssumption DEF IInv
<1> SUFFICES ASSUME clean, cur = 0 PROVE ListsFollowChain
  BY DEF ListsFollowChain
<1>1. height \in Heights /\ height \in Nat
  BY DEF CoreType
<1>2. state = height
  BY DEF ListedInv
<1>3. ASSUME NEW i \in There(height) PROVE At(i, height) = "unlisted" \/ listed[i] = height
  BY <1>3 DEF ListedInv, Kept, There
<1>4. ASSUME NEW i \in Items \ There(height), height > FirstCompared,
             At(i, height - 1) \notin {"absent", "rewards"}
      PROVE  listed[i] = 0
  BY <1>4 DEF ListedInv, Left
<1>5. ASSUME height > 1 PROVE records[height] \in 1 .. ends + 1
  <2>1. height \in Blocks
    BY <1>1, <1>5
  <2> QED
    BY <1>5, <2>1 DEF ListedInv, RecordsInv, RecordsAt, CoreType
<1> QED
  BY <1>2, <1>3, <1>4, <1>5 DEF ListsFollowChain

\* Whatever the chain does, in whatever order the goroutines of processBeacon
\* write and wherever the process ends or a write fails unseen: after a block that
\* followed the chain and was written in full the lists are those of its state.
THEOREM SpecListsFollowChain == Spec => []ListsFollowChain
<1>1. Init => IInv
  BY InitIInv
<1>2. IInv /\ [Next]_vars => IInv'
  BY NextIInv
<1>3. IInv => ListsFollowChain
  BY IInvImplies
<1> QED
  BY <1>1, <1>2, <1>3, PTL DEF Spec

-----------------------------------------------------------------------------
(* What withdrawals add up to. *)

SellOf == [w \in Withdraw |-> w.sell]
BuyOf  == [w \in Withdraw |-> w.buy]

LEMMA SellsFact ==
  ASSUME NEW S, S \subseteq Withdraw, IsFiniteSet(S)
  PROVE  \E g : Adds(g, SellOf, SUBSET S) /\ Sells(S) = g[S]
<1> DEFINE P(g) == g = [s \in SUBSET S |->
                IF s = {} THEN 0
                ELSE (CHOOSE x \in s : TRUE).sell + g[s \ {CHOOSE x \in s : TRUE}]]
           sum  == CHOOSE g : P(g)
<1>1. Sells(S) = sum[S]
  BY Zenon DEF Sells, MapThenSumSet, MapThenFoldSet
<1>2. ASSUME NEW g
      PROVE  [s \in SUBSET S |->
                IF s = {} THEN 0
                ELSE (CHOOSE x \in s : TRUE).sell + g[s \ {CHOOSE x \in s : TRUE}]]
             = [s \in SUBSET S |-> IF s = {} THEN 0 ELSE SellOf[AnyOf(s)] + g[s \ {AnyOf(s)}]]
  <2>1. ASSUME NEW s \in SUBSET S, s # {} PROVE SellOf[AnyOf(s)] = AnyOf(s).sell
    <3>1. AnyOf(s) \in s
      BY <2>1 DEF AnyOf
    <3>2. AnyOf(s) \in Withdraw
      BY <3>1
    <3> QED
      BY <3>2 DEF SellOf
  <2> QED
    BY <2>1 DEF AnyOf
<1>3. ASSUME NEW g PROVE P(g) <=> Adds(g, SellOf, SUBSET S)
  BY <1>2 DEF Adds
<1>4. PICK g : Adds(g, SellOf, SUBSET S)
  BY SumExists
<1>5. P(g)
  BY <1>3, <1>4
<1> HIDE DEF P
<1>6. P(sum)
  BY <1>5
<1>7. Adds(sum, SellOf, SUBSET S)
  BY <1>3, <1>6
<1> HIDE DEF sum
<1> QED
  BY <1>1, <1>7

LEMMA BuysFact ==
  ASSUME NEW S, S \subseteq Withdraw, IsFiniteSet(S)
  PROVE  \E g : Adds(g, BuyOf, SUBSET S) /\ Buys(S) = g[S]
<1> DEFINE P(g) == g = [s \in SUBSET S |->
                IF s = {} THEN 0
                ELSE (CHOOSE x \in s : TRUE).buy + g[s \ {CHOOSE x \in s : TRUE}]]
           sum  == CHOOSE g : P(g)
<1>1. Buys(S) = sum[S]
  BY Zenon DEF Buys, MapThenSumSet, MapThenFoldSet
<1>2. ASSUME NEW g
      PROVE  [s \in SUBSET S |->
                IF s = {} THEN 0
                ELSE (CHOOSE x \in s : TRUE).buy + g[s \ {CHOOSE x \in s : TRUE}]]
             = [s \in SUBSET S |-> IF s = {} THEN 0 ELSE BuyOf[AnyOf(s)] + g[s \ {AnyOf(s)}]]
  <2>1. ASSUME NEW s \in SUBSET S, s # {} PROVE BuyOf[AnyOf(s)] = AnyOf(s).buy
    <3>1. AnyOf(s) \in s
      BY <2>1 DEF AnyOf
    <3>2. AnyOf(s) \in Withdraw
      BY <3>1
    <3> QED
      BY <3>2 DEF BuyOf
  <2> QED
    BY <2>1 DEF AnyOf
<1>3. ASSUME NEW g PROVE P(g) <=> Adds(g, BuyOf, SUBSET S)
  BY <1>2 DEF Adds
<1>4. PICK g : Adds(g, BuyOf, SUBSET S)
  BY SumExists
<1>5. P(g)
  BY <1>3, <1>4
<1> HIDE DEF P
<1>6. P(sum)
  BY <1>5
<1>7. Adds(sum, BuyOf, SUBSET S)
  BY <1>3, <1>6
<1> HIDE DEF sum
<1> QED
  BY <1>1, <1>7

\* A part of the withdrawals takes no more than all of them.
LEMMA TakenFacts ==
  ASSUME NEW S, S \subseteq Withdraw, IsFiniteSet(S), NEW T, T \subseteq S
  PROVE  /\ Sells(S) \in Nat /\ Sells(T) \in Nat /\ Sells(T) <= Sells(S)
         /\ Buys(S) \in Nat /\ Buys(T) \in Nat /\ Buys(T) <= Buys(S)
<1>0. IsFiniteSet(T) /\ T \subseteq Withdraw
  BY FS_Subset
<1>1. \A w \in S : SellOf[w] \in Nat /\ BuyOf[w] \in Nat
  BY HistoryAssumption DEF SellOf, BuyOf, Withdraw
<1>2. /\ \E g : Adds(g, SellOf, SUBSET S) /\ Sells(S) = g[S]
      /\ \E g : Adds(g, SellOf, SUBSET T) /\ Sells(T) = g[T]
  BY <1>0, SellsFact
<1>3. Sells(S) \in Nat /\ Sells(T) \in Nat /\ Sells(T) <= Sells(S)
  BY <1>1, <1>2, SumOfPart
<1>4. /\ \E g : Adds(g, BuyOf, SUBSET S) /\ Buys(S) = g[S]
      /\ \E g : Adds(g, BuyOf, SUBSET T) /\ Buys(T) = g[T]
  BY <1>0, BuysFact
<1>5. Buys(S) \in Nat /\ Buys(T) \in Nat /\ Buys(T) <= Buys(S)
  BY <1>1, <1>4, SumOfPart
<1> QED
  BY <1>3, <1>5

LEMMA HistoryFacts ==
  ASSUME chain \in DOMAIN Histories
  PROVE  /\ This.withdrawals \subseteq Withdraw /\ IsFiniteSet(This.withdrawals)
         /\ This.there \in [Items -> [Blocks -> Presence]]
         /\ This.sold \in [Orders -> [Blocks -> 0 .. Amount]]
         /\ This.maxFaults \in Nat
BY HistoryAssumption DEF This

LEMMA GrantedFacts ==
  ASSUME chain \in DOMAIN Histories, NEW o \in Orders, NEW h \in Heights
  PROVE  /\ Granted(o, h) \subseteq Withdraw /\ IsFiniteSet(Granted(o, h))
         /\ \A w \in Granted(o, h) : w.order = o /\ ~w.refused /\ w.block <= h
         /\ Sells(Granted(o, h)) \in Nat /\ Buys(Granted(o, h)) \in Nat
<1>1. Granted(o, h) \subseteq This.withdrawals
  BY DEF Granted, Of
<1>2. Granted(o, h) \subseteq Withdraw /\ IsFiniteSet(Granted(o, h))
  BY <1>1, HistoryFacts, FS_Subset
<1>3. \A w \in Granted(o, h) : w.order = o /\ ~w.refused /\ w.block <= h
  BY DEF Granted, Of
<1> QED
  BY <1>2, <1>3, TakenFacts

\* The balances are whole numbers.
LEMMA BalanceTypes ==
  ASSUME chain \in DOMAIN Histories, NEW o \in Orders, NEW h \in Heights
  PROVE  /\ Sold(o, h) \in 0 .. Amount
         /\ ToSell(o, h) \in Int /\ Bought(o, h) \in Int
         /\ SellTokenBalance(o, h) = IF h = 0 THEN 0 ELSE ToSell(o, h)
         /\ BuyTokenBalance(o, h) = IF h = 0 THEN 0 ELSE Bought(o, h)
<1>0. Amount \in Nat /\ Direction[o] \in {0, 1} /\ Word \in Nat \ {0}
  BY HistoryAssumption
<1>1. Sold(o, h) \in 0 .. Amount
  <2>1. CASE h = 0
    BY <1>0, <2>1 DEF Sold
  <2>2. CASE h # 0
    BY <2>2, HistoryFacts, HistoryAssumption DEF Sold
  <2> QED
    BY <2>1, <2>2
<1>2. ToSell(o, h) \in Int
  BY <1>0, <1>1, GrantedFacts DEF ToSell
<1>3. Bought(o, h) \in Int
  BY <1>0, <1>1, GrantedFacts DEF Bought
<1>4. CASE Direction[o] = 0
  BY <1>1, <1>2, <1>3, <1>4
    DEF SellTokenBalance, BuyTokenBalance, Token1Balance, Token2Balance
<1>5. CASE Direction[o] = 1
  BY <1>1, <1>2, <1>3, <1>5
    DEF SellTokenBalance, BuyTokenBalance, Token1Balance, Token2Balance
<1> QED
  BY <1>0, <1>4, <1>5

\* And on the chain's book they lie between nothing and what the order had.
LEMMA BookFacts ==
  ASSUME BookKept, chain \in DOMAIN Histories, NEW o \in Orders, NEW h \in Blocks
  PROVE  /\ Sold(o, h) + Sells(Granted(o, h)) <= Amount
         /\ Buys(Granted(o, h)) <= Sold(o, h)
         /\ o \in There(h) => SellTokenBalance(o, h) # 0 \/ BuyTokenBalance(o, h) # 0
<1>0. h \in Heights /\ h # 0 /\ Amount \in Nat /\ o \in Items
  BY HistoryAssumption DEF Items
<1> DEFINE taken == {w \in This.withdrawals : w.order = o /\ ~w.refused /\ w.block <= h}
<1>1. taken = Granted(o, h)
  BY DEF Granted, Of
<1>2. Sold(o, h) = This.sold[o][h] /\ At(o, h) = This.there[o][h]
  BY <1>0 DEF Sold, At
<1>3. /\ Sold(o, h) + Sells(taken) <= Amount
      /\ Buys(taken) <= Sold(o, h)
      /\ At(o, h) # "absent" => \/ Sold(o, h) + Sells(taken) < Amount
                                \/ Buys(taken) < Sold(o, h)
  BY <1>2 DEF BookKept, This
<1> HIDE DEF taken
<1>4. /\ SellTokenBalance(o, h) = ToSell(o, h)
      /\ BuyTokenBalance(o, h) = Bought(o, h)
      /\ Sold(o, h) \in 0 .. Amount
  BY <1>0, BalanceTypes
<1>5. Sells(Granted(o, h)) \in Nat /\ Buys(Granted(o, h)) \in Nat
  BY <1>0, GrantedFacts
<1>6. ASSUME o \in There(h) PROVE SellTokenBalance(o, h) # 0 \/ BuyTokenBalance(o, h) # 0
  <2>1. At(o, h) # "absent"
    BY <1>6 DEF There
  <2>2. CASE Sold(o, h) + Sells(taken) < Amount
    BY <1>0, <1>1, <1>4, <1>5, <2>2 DEF ToSell
  <2>3. CASE Buys(taken) < Sold(o, h)
    BY <1>0, <1>1, <1>4, <1>5, <2>3 DEF Bought
  <2> QED
    BY <1>3, <2>1, <2>2, <2>3
<1> QED
  BY <1>1, <1>3, <1>6

\* An order that the chain has paid out by itself is off the book for good.
LEMMA PaidIsOver ==
  ASSUME BookKept, chain \in DOMAIN Histories, best \in Blocks,
         NEW w \in This.withdrawals, w.own, ~w.refused, w.block <= best
  PROVE  IsOver(w.order)
<1>1. w \in Withdraw
  BY HistoryFacts
<1>2. w.order \in Orders /\ w.order \in Items /\ w.block \in Nat /\ LastBlock \in Nat
  BY <1>1, HistoryAssumption DEF Withdraw, Items
<1> DEFINE onBook == {h \in Blocks : This.there[w.order][h] # "absent"}
<1>3. (\E h \in onBook : h < w.block) /\ (\A h \in onBook : h < w.block)
  BY <1>2 DEF BookKept, This
<1>4. \A h \in Blocks : w.order \in There(h) <=> h \in onBook
  BY <1>2, HistoryAssumption DEF There, At
<1> HIDE DEF onBook
<1>5. w.order \notin There(best)
  BY <1>2, <1>3, <1>4
<1>6. PICK h \in Blocks : h < w.block /\ w.order \in There(h)
  BY <1>3, <1>4 DEF onBook
<1>7. h \in 1 .. best
  BY <1>2, <1>6
<1> QED
  BY <1>5, <1>6, <1>7 DEF IsOver

-----------------------------------------------------------------------------
(* The types, and what the answers rest on. *)

ChainType == chain \in DOMAIN Histories /\ best \in Blocks

\* A document that is listed is of a block whose state has the item.
ListType ==
  /\ state \in 0 .. best /\ listed \in [Items -> 0 .. best] /\ cur <= best
  /\ \A i \in Items : <<"write", i>> \in work => i \in There(cur)
  /\ \A i \in Items : listed[i] # 0 => i \in There(listed[i])

YieldType == seen \in 0 .. best /\ yield \in [Pools \union StakePools -> 0 .. seen]
PoolsType == (fetched = {NoItem} \/ fetched \subseteq Pools) /\ served \subseteq Pools
FlagType  == up \in BOOLEAN /\ clean \in BOOLEAN
FaultType == fails \in Nat /\ ends + fails <= This.maxFaults

\* What the trade processor writes has happened on the chain.
TradeInv ==
  /\ placed \subseteq Orders
  /\ answered \subseteq asked /\ asked \subseteq This.withdrawals
  /\ \A w \in answered : ~w.refused /\ w.block <= best
  /\ \A w \in asked : w.own => w \in answered

\* What a request has read was so, and what is on record stays there.
AskInv ==
  /\ asking \in Question
  /\ asking.kind = "status" =>
       /\ asking.answered \subseteq Of(answered, asking.order)
       /\ asking.answered \subseteq asking.asked
       /\ asking.asked \subseteq Of(asked, asking.order)
  /\ asking.kind = "book" => asking.height # 0 /\ asking.order \in There(asking.height)

DataInv ==
  /\ ChainType /\ ListType /\ YieldType /\ PoolsType /\ FlagType /\ FaultType
  /\ TradeInv /\ AskInv /\ report \in Answers

\* Who writes what.
LEMMA Authors ==
  ASSUME [Next]_vars
  PROVE  /\ UNCHANGED chain
         /\ Grow \/ UNCHANGED best
         /\ (\E t \in work : Write(t)) \/ (\E i \in Items : Expire(i)) \/ UNCHANGED listed
         /\ (\E t \in work : Write(t)) \/ UNCHANGED state
         /\ Begin \/ (work' \subseteq work /\ UNCHANGED cur) \/ (work' = {} /\ cur' = 0)
         /\ Rate \/ UNCHANGED <<seen, yield>>
         /\ PoolListWatcher \/ UNCHANGED poolVars
         /\ \/ UNCHANGED <<ends, fails>> \/ End \/ PoolListWatcher
            \/ \E t \in work : FailUnseen(t)
         /\ ProcessTrades \/ UNCHANGED tradeVars
         /\ Query \/ UNCHANGED askVars
<1>1. CASE Grow
  BY <1>1 DEF Grow, syncVars
<1>2. CASE Start
  BY <1>2 DEF Start
<1>3. CASE Begin
  BY <1>3 DEF Begin
<1>4. ASSUME NEW t \in work, Write(t) PROVE Write(t) /\ UNCHANGED <<chain, best, cur, seen, yield, poolVars, ends, fails, tradeVars, askVars>> /\ work' \subseteq work
  BY <1>4 DEF Write
<1>5. CASE Finish
  BY <1>5 DEF Finish
<1>6. ASSUME NEW t \in work, FailUnseen(t)
      PROVE  /\ FailUnseen(t) /\ work' \subseteq work
             /\ UNCHANGED <<chain, best, cur, listed, state, seen, yield, poolVars, tradeVars, askVars>>
  BY <1>6 DEF FailUnseen
<1>7. CASE End
  BY <1>7 DEF End
<1>8. ASSUME NEW i \in Items, Expire(i)
      PROVE  /\ Expire(i) /\ UNCHANGED <<chain, best, cur, work, state, seen, yield>>
             /\ UNCHANGED <<poolVars, ends, fails, tradeVars, askVars>>
  BY <1>8 DEF Expire, syncVars
<1>9. CASE Rate
  BY <1>9 DEF Rate, syncVars
<1>10. CASE ProcessTrades
  BY <1>10 DEF ProcessTrades, syncVars
<1>11. CASE PoolListWatcher
  BY <1>11 DEF PoolListWatcher, syncVars
<1>12. CASE Query
  BY <1>12 DEF Query, syncVars
<1>13. CASE UNCHANGED vars
  BY <1>13 DEF vars, syncVars
<1>14. CASE \E t \in work : Write(t)
  BY <1>4, <1>14
<1>15. CASE \E t \in work : FailUnseen(t)
  BY <1>6, <1>15
<1>16. CASE \E i \in Items : Expire(i)
  BY <1>8, <1>16
<1> QED
  BY <1>1, <1>2, <1>3, <1>5, <1>7, <1>9, <1>10, <1>11, <1>12, <1>13, <1>14, <1>15, <1>16
    DEF Next, Synchronise

\* The chain goes on.
LEMMA Onward ==
  ASSUME ChainType, [Next]_vars
  PROVE  /\ ChainType' /\ This' = This /\ chain' = chain
         /\ best \in Nat /\ best' \in Nat /\ best <= best' /\ best <= LastBlock
         /\ \A h \in Heights : There(h)' = There(h)
<1>1. chain' = chain /\ (Grow \/ best' = best)
  BY Authors
<1>2. This' = This
  BY <1>1 DEF This
<1>3. LastBlock \in Nat /\ best \in Nat /\ best <= LastBlock
  BY HistoryAssumption DEF ChainType
<1>4. ChainType' /\ best' \in Nat /\ best <= best'
  <2>1. CASE Grow
    BY <1>1, <1>3, <2>1 DEF Grow, ChainType
  <2>2. CASE best' = best
    BY <1>1, <1>3, <2>2 DEF ChainType
  <2> QED
    BY <1>1, <2>1, <2>2
<1>5. \A h \in Heights : There(h)' = There(h)
  BY <1>2 DEF There, At
<1> QED
  BY <1>1, <1>2, <1>3, <1>4, <1>5

LEMMA ListStep ==
  ASSUME IInv, ChainType, ListType, [Next]_vars
  PROVE  ListType'
<1>0. /\ \A h \in Heights : There(h)' = There(h)
      /\ best \in Nat /\ best' \in Nat /\ best <= best' /\ best <= LastBlock /\ LastBlock \in Nat
  BY Onward, HistoryAssumption
<1>1. /\ cur \in Heights /\ next \in 1 .. LastBlock + 1 /\ work \subseteq Tasks
      /\ (cur = 0 => work = {}) /\ cur \in Nat /\ next \in Nat
  BY HistoryAssumption DEF IInv, CoreType, PlaceInv
<1>2. 0 .. best \subseteq Heights /\ 0 .. best \subseteq 0 .. best'
  BY <1>0
<1>3. state' \in 0 .. best'
  <2>1. CASE state' = state
    BY <1>2, <2>1 DEF ListType
  <2>2. ASSUME NEW t \in work, Write(t) PROVE state' \in 0 .. best'
    <3>1. state' = cur \/ state' = state
      BY <1>1, <2>2, WriteForms DEF Upsert, Delete, SaveState, SaveRecord
    <3> QED
      BY <1>0, <1>1, <1>2, <3>1 DEF ListType
  <2> QED
    BY <2>1, <2>2, Authors
<1>4. cur' <= best' /\ \A i \in Items : <<"write", i>> \in work' => i \in There(cur')
  <2>1. CASE Begin
    <3>1. cur' = next /\ next <= best /\ work' = WorkOf(next)
      BY <2>1 DEF Begin
    <3>2. next \in Heights
      BY <1>0, <1>1, <3>1
    <3>3. ASSUME NEW i \in Items, <<"write", i>> \in WorkOf(next) PROVE i \in There(next)
      BY <3>3 DEF WorkOf, Rewards
    <3> QED
      BY <1>0, <1>1, <3>1, <3>2, <3>3
  <2>2. CASE work' \subseteq work /\ cur' = cur
    BY <1>0, <1>1, <2>2 DEF ListType
  <2>3. CASE work' = {} /\ cur' = 0
    BY <1>0, <2>3
  <2> QED
    BY <2>1, <2>2, <2>3, Authors
<1>5. /\ listed' \in [Items -> 0 .. best']
      /\ \A i \in Items : listed'[i] # 0 => i \in There(listed'[i])
  <2>0. /\ listed \in [Items -> 0 .. best']
        /\ \A i \in Items : listed[i] # 0 => i \in There(listed[i])
    BY <1>2 DEF ListType
  <2>1. CASE listed' = listed
    BY <2>0, <2>1
  <2>2. ASSUME NEW j \in Items, listed' = [listed EXCEPT ![j] = 0]
        PROVE  <1>5!1 /\ <1>5!2
    BY <1>0, <2>0, <2>2
  <2>3. ASSUME NEW j \in Items, listed' = [listed EXCEPT ![j] = cur], j \in There(cur)
        PROVE  <1>5!1 /\ <1>5!2
    <3>1. cur \in 0 .. best'
      BY <1>0, <1>1 DEF ListType
    <3> QED
      BY <2>0, <2>3, <3>1
  <2>4. ASSUME NEW t \in work, Write(t) PROVE <1>5!1 /\ <1>5!2
    <3>1. CASE \E i \in Items : t = <<"write", i>> /\ Upsert(i)
      BY <2>3, <3>1 DEF Upsert, ListType
    <3>2. CASE \E i \in Items : t = <<"delete", i>> /\ Delete(i)
      BY <2>2, <3>2 DEF Delete
    <3>3. CASE listed' = listed
      BY <2>1, <3>3
    <3> QED
      BY <1>1, <2>4, <3>1, <3>2, <3>3, WriteForms DEF SaveState, SaveRecord
  <2>5. ASSUME NEW i \in Items, Expire(i) PROVE <1>5!1 /\ <1>5!2
    BY <2>2, <2>5 DEF Expire
  <2> QED
    BY <2>1, <2>4, <2>5, Authors
<1>6. \A i \in Items : <<"write", i>> \in work' => (i \in There(cur))'
  <2>1. This' = This
    BY Onward
  <2> QED
    BY <1>4, <2>1 DEF There, At
<1>7. \A i \in Items : listed'[i] # 0 => (i \in There(listed[i]))'
  <2>1. This' = This
    BY Onward
  <2> QED
    BY <1>5, <2>1 DEF There, At
<1> QED
  BY <1>3, <1>4, <1>5, <1>6, <1>7 DEF ListType

LEMMA YieldStep ==
  ASSUME ChainType, ListType, YieldType, [Next]_vars
  PROVE  YieldType'
<1>0. best \in Nat /\ best' \in Nat /\ best <= best'
  BY Onward
<1>1. CASE Rate
  <2>1. /\ state > seen + 1 /\ seen' = state
        /\ yield' = [i \in DOMAIN yield |-> IF i \in There(state) THEN state ELSE yield[i]]
    BY <1>1 DEF Rate, NewState
  <2>2. state \in Nat /\ seen \in Nat /\ state <= best
    BY <1>0 DEF ListType, YieldType
  <2>3. 0 .. seen \subseteq 0 .. state /\ state \in 0 .. state
    BY <2>1, <2>2
  <2> QED
    BY <1>0, <2>1, <2>2, <2>3 DEF YieldType
<1>2. CASE UNCHANGED <<seen, yield>>
  BY <1>0, <1>2 DEF YieldType
<1> QED
  BY <1>1, <1>2, Authors

LEMMA PoolsStep ==
  ASSUME PoolsType, [Next]_vars
  PROVE  PoolsType'
<1>1. CASE PoolListWatcher
  BY <1>1 DEF PoolListWatcher, PoolsType, ReadPools, Publish, PublishPanics, ReadingPools
<1>2. CASE UNCHANGED poolVars
  BY <1>2 DEF PoolsType, poolVars
<1> QED
  BY <1>1, <1>2, Authors

LEMMA FlagStep ==
  ASSUME IInv, ChainType, FlagType, [Next]_vars
  PROVE  FlagType'
<1>1. CASE Begin
  <2>1. clean' = Follows(next) /\ up' = up
    BY <1>1 DEF Begin
  <2>2. Follows(next) \in BOOLEAN
    <3>1. next \in Int /\ best \in Int
      BY Onward, HistoryAssumption DEF IInv, CoreType
    <3>2. (next + 2 > best) \in BOOLEAN
      BY <3>1, SMT
    <3> QED
      BY <3>2 DEF Follows
  <2> QED
    BY <2>1, <2>2 DEF FlagType
<1>2. CASE UNCHANGED up /\ UNCHANGED clean
  BY <1>2 DEF FlagType
<1>3. CASE up' = TRUE /\ UNCHANGED clean
  BY <1>3 DEF FlagType
<1>4. CASE clean' = FALSE /\ (up' = FALSE \/ UNCHANGED up)
  BY <1>4 DEF FlagType
<1>5. CASE Start
  BY <1>3, <1>5 DEF Start
<1>6. CASE End
  BY <1>4, <1>6 DEF End
<1>7. CASE \E t \in work : FailUnseen(t)
  BY <1>4, <1>7 DEF FailUnseen
<1>8. CASE (\E t \in work : Write(t)) \/ Finish
  BY <1>2, <1>8 DEF Write, Finish
<1>9. CASE \/ Grow \/ (\E i \in Items : Expire(i)) \/ Rate \/ ProcessTrades
           \/ PoolListWatcher \/ Query \/ UNCHANGED vars
  BY <1>2, <1>9 DEF Grow, Expire, Rate, ProcessTrades, PoolListWatcher, Query, vars, syncVars
<1> QED
  BY <1>1, <1>5, <1>6, <1>7, <1>8, <1>9 DEF Next, Synchronise

LEMMA FaultStep ==
  ASSUME IInv, ChainType, FaultType, [Next]_vars
  PROVE  FaultType'
<1>0. /\ This' = This /\ This.maxFaults \in Nat /\ ends \in Nat /\ fails \in Nat
      /\ ends + fails <= This.maxFaults
  BY Onward, HistoryFacts DEF ChainType, IInv, CoreType, FaultType
<1>1. CASE UNCHANGED <<ends, fails>>
  BY <1>0, <1>1 DEF FaultType
<1>2. CASE End
  BY <1>0, <1>2 DEF FaultType, End
<1>3. CASE PoolListWatcher
  BY <1>0, <1>3 DEF FaultType, PoolListWatcher, PublishPanics
<1>4. ASSUME NEW t \in work, FailUnseen(t) PROVE FaultType'
  BY <1>0, <1>4 DEF FaultType, FailUnseen
<1> QED
  BY <1>1, <1>2, <1>3, <1>4, Authors

LEMMA TradeStep ==
  ASSUME ChainType, TradeInv, [Next]_vars
  PROVE  /\ TradeInv'
         /\ placed \subseteq placed' /\ asked \subseteq asked' /\ answered \subseteq answered'
<1>0. /\ This' = This /\ best \in Nat /\ best' \in Nat /\ best <= best'
      /\ This.withdrawals \subseteq Withdraw
  BY Onward, HistoryFacts DEF ChainType
<1>1. \A w \in Withdraw : w.block \in Nat
  BY HistoryAssumption DEF Withdraw
<1>2. CASE UNCHANGED tradeVars
  BY <1>0, <1>1, <1>2 DEF TradeInv, tradeVars
<1>3. ASSUME NEW o \in Orders, Place(o), best' = best PROVE TradeInv'
  BY <1>0, <1>3 DEF TradeInv, Place
<1>4. ASSUME NEW w \in This.withdrawals, Ask(w), best' = best PROVE TradeInv'
  BY <1>0, <1>4 DEF TradeInv, Ask
<1>5. ASSUME NEW w \in This.withdrawals, Answer(w), best' = best PROVE TradeInv'
  BY <1>0, <1>5 DEF TradeInv, Answer
<1>6. CASE ProcessTrades
  <2>1. best' = best
    BY <1>6 DEF ProcessTrades
  <2> QED
    BY <1>3, <1>4, <1>5, <1>6, <2>1 DEF ProcessTrades, Place, Ask, Answer
<1> QED
  BY <1>2, <1>6, Authors DEF tradeVars

\* A request, and the answer it gets.
LEMMA AskStep ==
  ASSUME ChainType, ListType, TradeInv, AskInv, [Next]_vars
  PROVE  AskInv'
<1>0. /\ This' = This /\ asked \subseteq asked' /\ answered \subseteq answered'
      /\ Question' = Question
      /\ \A h \in Heights : There(h)' = There(h)
  BY Onward, TradeStep DEF Question
<1>1. CASE asking' = asking
  <2>1. \A o : Of(asked, o) \subseteq Of(asked', o) /\ Of(answered, o) \subseteq Of(answered', o)
    BY <1>0 DEF Of
  <2>2. asking.kind = "book" => There(asking.height)' = There(asking.height)
    BY <1>0, <1>1 DEF There, At
  <2> QED
    BY <1>0, <1>1, <2>1, <2>2 DEF AskInv
<1>2. CASE asking' = Nobody
  BY <1>0, <1>2 DEF AskInv, Question, Nobody
<1>3. ASSUME NEW o \in Orders, AskStatus(o), UNCHANGED tradeVars PROVE AskInv'
  <2> DEFINE q == [kind |-> "status", order |-> o, asked |-> Of(asked, o), answered |-> Of(answered, o)]
  <2>1. asking' = q /\ asked' = asked /\ answered' = answered
    BY <1>3 DEF AskStatus, tradeVars
  <2>2. Of(asked, o) \subseteq This.withdrawals /\ Of(answered, o) \subseteq Of(asked, o)
    BY DEF Of, TradeInv
  <2>3. q \in Question
    BY <2>2 DEF Question
  <2> QED
    BY <1>0, <2>1, <2>2, <2>3 DEF AskInv
<1>4. ASSUME NEW o \in Orders, AskBook(o) PROVE AskInv'
  <2> DEFINE q == [kind |-> "book", order |-> o, height |-> listed[o]]
  <2>1. asking' = q /\ listed[o] # 0 /\ o \in Items
    BY <1>4 DEF AskBook, Items
  <2>2. listed[o] \in Heights /\ o \in There(listed[o])
    BY <2>1, Onward, HistoryAssumption DEF ListType
  <2>3. q \in Question
    BY <2>2 DEF Question
  <2>4. (asking.order \in There(asking.height))'
    BY <1>0, <2>1, <2>2 DEF There, At
  <2> QED
    BY <1>0, <2>1, <2>3, <2>4 DEF AskInv
<1>5. CASE Query
  <2>1. UNCHANGED tradeVars
    BY <1>5 DEF Query
  <2> QED
    BY <1>2, <1>3, <1>4, <1>5, <2>1 DEF Query, TellStatus, TellBook
<1> QED
  BY <1>1, <1>5, Authors DEF askVars

LEMMA NoSells == Sells({}) = 0
<1>1. PICK g : Adds(g, SellOf, SUBSET {}) /\ Sells({}) = g[{}]
  BY SellsFact, FS_EmptySet
<1>2. {} \in SUBSET {}
  OBVIOUS
<1> QED
  BY <1>1, <1>2 DEF Adds

\* What the answer to a status adds up to.
StatusRight(r) ==
  /\ r.height = 0 => r.matched \in 0 .. Amount
  /\ r.height # 0 => \/ \E w \in r.answered : w.block > r.height
                     \/ r.matched \in Sold(r.order, r.height) .. Amount
  /\ r.done /\ r.height # 0 =>
       \E w \in This.withdrawals : w.order = r.order /\ w.own /\ ~w.refused /\ w.block <= best
BookRight(r) == r.known => r.remain \in SellTokenBalance(r.order, r.height) .. Amount

LEMMA StatusType ==
  ASSUME ChainType, ListType, AskInv, asking.kind = "status"
  PROVE  LET o == asking.order
             x == (IF listed[o] = 0 /\ asking.asked = {} THEN 0 ELSE Amount) + 2 * Word
                    - SellTokenBalance(o, listed[o]) - Sells(asking.answered)
             r == GetTradeStatus(o, asking, listed[o])
         IN  /\ asking.order \in Orders /\ listed[o] \in Heights
             /\ asking.answered \subseteq This.withdrawals
             /\ r \in Answers /\ r.matched = x % Word /\ x \in Int
             /\ r.order = o /\ r.height = listed[o] /\ r.answered = asking.answered
             /\ r.kind = "status"
<1> DEFINE o == asking.order
           x == (IF listed[o] = 0 /\ asking.asked = {} THEN 0 ELSE Amount) + 2 * Word
                  - SellTokenBalance(o, listed[o]) - Sells(asking.answered)
           r == GetTradeStatus(o, asking, listed[o])
<1>1. o \in Orders /\ asking.answered \subseteq This.withdrawals /\ o \in Items
  BY DEF AskInv, Question, Nobody, Items
<1>2. listed[o] \in Heights
  BY <1>1, HistoryAssumption DEF ListType, ChainType
<1>3. This.withdrawals \subseteq Withdraw /\ IsFiniteSet(This.withdrawals)
  BY HistoryFacts DEF ChainType
<1>4. Sells(asking.answered) \in Nat
  BY <1>1, <1>3, TakenFacts
<1>5. Amount \in Nat /\ Word \in Nat \ {0}
  BY HistoryAssumption
<1>6. SellTokenBalance(o, listed[o]) \in Int
  BY <1>1, <1>2, BalanceTypes DEF ChainType
<1>7. x \in Int
  BY <1>4, <1>5, <1>6
<1>8. x % Word \in 0 .. Word - 1
  BY <1>5, <1>7, RemainderType
<1>9. /\ r.matched = x % Word /\ r.order = o /\ r.height = listed[o] /\ r.kind = "status"
      /\ r.answered = asking.answered
  BY DEF GetTradeStatus
<1>10. r \in Answers
  BY <1>1, <1>2, <1>8 DEF GetTradeStatus, Answers
<1> QED
  BY <1>1, <1>2, <1>7, <1>9, <1>10

LEMMA StatusSum ==
  ASSUME BookKept, ChainType, ListType, TradeInv, AskInv, asking.kind = "status"
  PROVE  StatusRight(GetTradeStatus(asking.order, asking, listed[asking.order]))
<1> DEFINE o == asking.order
           h == listed[o]
           a == asking.answered
           n == IF h = 0 /\ asking.asked = {} THEN 0 ELSE Amount
           x == n + 2 * Word - SellTokenBalance(o, h) - Sells(a)
           r == GetTradeStatus(o, asking, h)
<1>1. /\ o \in Orders /\ h \in Heights /\ a \subseteq This.withdrawals
      /\ r.matched = x % Word /\ r.order = o /\ r.height = h /\ r.answered = a
  BY StatusType
<1>2. Amount \in Nat /\ Word \in Nat \ {0} /\ Amount < Word /\ best \in Nat /\ best \in Blocks
      /\ Blocks \subseteq Heights
  BY HistoryAssumption DEF ChainType
<1>3. ASSUME NEW v \in 0 .. Amount, v = n - SellTokenBalance(o, h) - Sells(a),
             SellTokenBalance(o, h) \in Int, Sells(a) \in Nat
      PROVE  r.matched = v
  <2>1. v \in 0 .. Word - 1 /\ 2 \in Nat
    BY <1>2
  <2>2. (v + 2 * Word) % Word = v
    BY <1>2, <2>1, Remainder
  <2>3. x = v + 2 * Word
    BY <1>2, <1>3
  <2> QED
    BY <1>1, <2>2, <2>3
<1>4. ASSUME NEW g \in Blocks, \A w \in a : w.block <= g
      PROVE  /\ Sells(a) \in Nat /\ Sells(Granted(o, g)) \in Nat
             /\ Sells(a) <= Sells(Granted(o, g))
             /\ Sold(o, g) + Sells(Granted(o, g)) <= Amount
             /\ Sold(o, g) \in 0 .. Amount
  <2>1. ASSUME NEW w \in a PROVE w \in Granted(o, g)
    <3>1. w \in Of(answered, o)
      BY StatusType DEF AskInv
    <3>2. w \in This.withdrawals /\ ~w.refused /\ w.order = o
      BY <1>1, <3>1 DEF Of, TradeInv
    <3> QED
      BY <1>4, <3>2 DEF Granted, Of
  <2>2. g \in Heights /\ chain \in DOMAIN Histories
    BY <1>2 DEF ChainType
  <2>3. Granted(o, g) \subseteq Withdraw /\ IsFiniteSet(Granted(o, g))
    BY <1>1, <2>2, GrantedFacts
  <2>4. /\ Sells(a) \in Nat /\ Sells(Granted(o, g)) \in Nat
        /\ Sells(a) <= Sells(Granted(o, g))
    BY <2>1, <2>3, TakenFacts
  <2> QED
    BY <1>1, <2>2, <2>4, BookFacts, BalanceTypes
<1>5. ASSUME h = 0 PROVE r.matched \in 0 .. Amount
  <2>1. SellTokenBalance(o, h) = 0
    BY <1>5 DEF SellTokenBalance
  <2>2. CASE asking.asked = {}
    <3>1. a = {}
      BY <2>2 DEF AskInv
    <3>2. Sells(a) = 0 /\ n = 0
      BY <1>5, <2>2, <3>1, NoSells
    <3>3. r.matched = 0
      BY <1>2, <1>3, <2>1, <3>2
    <3> QED
      BY <1>2, <3>3
  <2>3. CASE asking.asked # {}
    <3>1. \A w \in a : w.block <= best
      BY DEF AskInv, TradeInv, Of
    <3>2. /\ Sells(a) \in Nat /\ Sells(a) <= Sells(Granted(o, best))
          /\ Sells(Granted(o, best)) \in Nat
          /\ Sold(o, best) + Sells(Granted(o, best)) <= Amount /\ Sold(o, best) \in 0 .. Amount
      BY <1>2, <1>4, <3>1
    <3>3. Amount - Sells(a) \in 0 .. Amount
      BY <1>2, <3>2
    <3>4. n = Amount
      BY <2>3
    <3>5. r.matched = Amount - Sells(a)
      BY <1>2, <1>3, <2>1, <3>2, <3>3, <3>4
    <3> QED
      BY <3>3, <3>5
  <2> QED
    BY <2>2, <2>3
<1>6. ASSUME h # 0, \A w \in a : w.block <= h PROVE r.matched \in Sold(o, h) .. Amount
  <2>1. h \in Blocks /\ chain \in DOMAIN Histories
    BY <1>1, <1>6, HistoryAssumption DEF ChainType
  <2>2. /\ Sells(a) \in Nat /\ Sells(a) <= Sells(Granted(o, h)) /\ Sells(Granted(o, h)) \in Nat
        /\ Sold(o, h) + Sells(Granted(o, h)) <= Amount /\ Sold(o, h) \in 0 .. Amount
    BY <1>4, <1>6, <2>1
  <2>3. SellTokenBalance(o, h) = Amount - Sold(o, h) - Sells(Granted(o, h))
    BY <1>1, <1>6, <2>1, BalanceTypes DEF ToSell
  <2> DEFINE v == Sold(o, h) + Sells(Granted(o, h)) - Sells(a)
  <2>4. v \in Sold(o, h) .. Amount /\ v \in 0 .. Amount
    BY <1>2, <2>2
  <2>5. v = Amount - SellTokenBalance(o, h) - Sells(a) /\ SellTokenBalance(o, h) \in Int
    BY <1>2, <2>2, <2>3
  <2>6. n = Amount
    BY <1>6
  <2> HIDE DEF v
  <2>7. r.matched = v
    BY <1>3, <2>2, <2>4, <2>5, <2>6
  <2> QED
    BY <2>4, <2>7
<1>7. ASSUME r.done, h # 0
      PROVE  \E w \in This.withdrawals : w.order = o /\ w.own /\ ~w.refused /\ w.block <= best
  <2>1. h \in Blocks /\ o \in There(h) /\ chain \in DOMAIN Histories
    BY <1>1, <1>7, HistoryAssumption DEF ChainType, ListType, Items
  <2>2. SellTokenBalance(o, h) # 0 \/ BuyTokenBalance(o, h) # 0
    BY <1>1, <2>1, BookFacts
  <2>3. PICK w \in asking.asked : w.own
    BY <1>7, <2>2 DEF GetTradeStatus
  <2>4. w \in asked /\ w.order = o
    BY StatusType DEF AskInv, Of
  <2> QED
    BY <2>3, <2>4 DEF TradeInv
<1>8. \A w \in a : w.block \in Nat
  <2>1. This.withdrawals \subseteq Withdraw
    BY HistoryFacts DEF ChainType
  <2> QED
    BY <1>1, <2>1, HistoryAssumption DEF Withdraw
<1>9. h \in Nat
  BY <1>1, HistoryAssumption
<1> HIDE DEF r, a, h, o
<1>10. ASSUME h # 0 PROVE (\E w \in a : w.block > h) \/ r.matched \in Sold(o, h) .. Amount
  BY <1>6, <1>8, <1>9, <1>10
<1>11. StatusRight(r)
  BY <1>1, <1>5, <1>7, <1>10 DEF StatusRight
<1> QED
  BY <1>11 DEF r, o, h

LEMMA BookSum ==
  ASSUME BookKept, ChainType, NEW o \in Orders, NEW h \in Blocks
  PROVE  (Amount + Word - BuyTokenBalance(o, h)) % Word \in SellTokenBalance(o, h) .. Amount
<1>0. /\ Amount \in Nat /\ Word \in Nat \ {0} /\ Amount < Word
      /\ h \in Heights /\ h # 0 /\ chain \in DOMAIN Histories
  BY HistoryAssumption DEF ChainType
<1>1. /\ Sold(o, h) \in 0 .. Amount
      /\ SellTokenBalance(o, h) = Amount - Sold(o, h) - Sells(Granted(o, h))
      /\ BuyTokenBalance(o, h) = Sold(o, h) - Buys(Granted(o, h))
  BY <1>0, BalanceTypes DEF ToSell, Bought
<1>2. Sells(Granted(o, h)) \in Nat /\ Buys(Granted(o, h)) \in Nat
  BY <1>0, GrantedFacts
<1>3. Buys(Granted(o, h)) <= Sold(o, h)
  BY <1>0, BookFacts
<1> DEFINE v == Amount - BuyTokenBalance(o, h)
<1>4. v \in 0 .. Word - 1 /\ v \in SellTokenBalance(o, h) .. Amount /\ 1 \in Nat
  BY <1>0, <1>1, <1>2, <1>3
<1>5. Amount + Word - BuyTokenBalance(o, h) = v + 1 * Word
  BY <1>0, <1>1, <1>2
<1> HIDE DEF v
<1>6. (v + 1 * Word) % Word = v
  BY <1>0, <1>4, Remainder
<1> QED
  BY <1>4, <1>5, <1>6

AnswerInv ==
  /\ report.kind = "status" => StatusRight(report)
  /\ report.kind = "book" => BookRight(report)

LEMMA ReportStep ==
  ASSUME ChainType, ListType, AskInv, report \in Answers, [Next]_vars
  PROVE  (report \in Answers)'
<1>0. Answers' = Answers
  BY Onward DEF Answers
<1>1. CASE report' = Nobody
  BY <1>0, <1>1 DEF Answers
<1>2. CASE TellStatus
  BY <1>0, <1>2, StatusType DEF TellStatus
<1>3. CASE TellBook
  <2> DEFINE o == asking.order
             x == (IF o \in placed THEN Amount ELSE 0) + Word - BuyTokenBalance(o, asking.height)
  <2>1. o \in Orders /\ asking.height \in Heights
    BY <1>3 DEF TellBook, AskInv, Question, Nobody
  <2>2. Amount \in Nat /\ Word \in Nat \ {0}
    BY HistoryAssumption
  <2>3. BuyTokenBalance(o, asking.height) \in Int
    BY <2>1, BalanceTypes DEF ChainType
  <2>4. x \in Int
    BY <2>2, <2>3
  <2>5. x % Word \in 0 .. Word - 1
    BY <2>2, <2>4, RemainderType
  <2>6. report' = [kind |-> "book", order |-> o, height |-> asking.height,
                   known |-> o \in placed, remain |-> x % Word]
    BY <1>3 DEF TellBook
  <2>7. (o \in placed) \in BOOLEAN
    OBVIOUS
  <2> HIDE DEF x
  <2>8. report' \in Answers
    BY <2>1, <2>5, <2>6, <2>7 DEF Answers
  <2> QED
    BY <1>0, <2>8
<1>4. CASE Query
  BY <1>1, <1>2, <1>3, <1>4 DEF Query, AskStatus, AskBook
<1> QED
  BY <1>0, <1>4, Authors DEF askVars

LEMMA AnswerStep ==
  ASSUME BookKept, ChainType, ListType, TradeInv, AskInv, report \in Answers, AnswerInv,
         [Next]_vars
  PROVE  AnswerInv'
<1>0. This' = This /\ best \in Nat /\ best' \in Nat /\ best <= best'
  BY Onward
<1>1. ASSUME NEW r, StatusRight(r) PROVE StatusRight(r)'
  <2>1. /\ This.withdrawals \subseteq Withdraw
        /\ \A w \in Withdraw : w.block \in Nat
    BY HistoryFacts, HistoryAssumption DEF ChainType, Withdraw
  <2>2. \A w \in This.withdrawals : w.block <= best => w.block <= best'
    BY <1>0, <2>1
  <2> QED
    BY <1>0, <1>1, <2>2 DEF StatusRight, Sold
<1>2. ASSUME NEW r, BookRight(r) PROVE BookRight(r)'
  BY <1>0, <1>2 DEF BookRight, SellTokenBalance, Token1Balance, Token2Balance, ToSell, Bought,
                    Sold, Granted
<1>3. CASE report' = report
  <2>1. StatusRight(report)' <=> \E r : r = report' /\ StatusRight(r)'
    BY DEF StatusRight, Sold
  <2>2. BookRight(report)' <=> \E r : r = report' /\ BookRight(r)'
    BY DEF BookRight, SellTokenBalance, Token1Balance, Token2Balance, ToSell, Bought, Sold, Granted
  <2> QED
    BY <1>1, <1>2, <1>3, <2>1, <2>2 DEF AnswerInv
<1>4. CASE report' = Nobody
  BY <1>4 DEF AnswerInv, Nobody
<1>5. CASE TellStatus
  <2> DEFINE r == GetTradeStatus(asking.order, asking, listed[asking.order])
  <2>1. report' = r /\ StatusRight(r) /\ r.kind = "status"
    BY <1>5, StatusSum, StatusType DEF TellStatus
  <2> HIDE DEF r
  <2>2. PICK s : s = r
    OBVIOUS
  <2>3. StatusRight(s)'
    BY <1>1, <2>1, <2>2
  <2>4. StatusRight(report)'
    BY <2>1, <2>2, <2>3 DEF StatusRight, Sold
  <2> QED
    BY <2>1, <2>4 DEF AnswerInv
<1>6. CASE TellBook
  <2> DEFINE o == asking.order
             h == asking.height
  <2>1. o \in Orders /\ h \in Blocks
    BY <1>6, HistoryAssumption DEF TellBook, AskInv, Question, Nobody
  <2> DEFINE r == [kind |-> "book", order |-> o, height |-> h, known |-> o \in placed,
                   remain |-> ((IF o \in placed THEN Amount ELSE 0) + Word
                                 - BuyTokenBalance(o, h)) % Word]
  <2>2. report' = r
    BY <1>6 DEF TellBook
  <2>3. o \in placed => r.remain \in SellTokenBalance(o, h) .. Amount
    BY <2>1, BookSum
  <2>4. BookRight(r) /\ r.kind = "book"
    BY <2>3 DEF BookRight
  <2> HIDE DEF r
  <2>5. PICK s : s = r
    OBVIOUS
  <2>6. BookRight(s)'
    BY <1>2, <2>4, <2>5
  <2>7. BookRight(report)'
    BY <2>2, <2>5, <2>6
      DEF BookRight, SellTokenBalance, Token1Balance, Token2Balance, ToSell, Bought, Sold, Granted
  <2> QED
    BY <2>2, <2>4, <2>7 DEF AnswerInv
<1>7. CASE Query
  BY <1>4, <1>5, <1>6, <1>7 DEF Query, AskStatus, AskBook
<1> QED
  BY <1>3, <1>7, Authors DEF askVars

-----------------------------------------------------------------------------
LEMMA InitDataInv ==
  ASSUME Init
  PROVE  DataInv /\ AnswerInv
<1>0. LastBlock \in Nat \ {0} /\ FirstCompared \in 1 .. LastBlock
  BY HistoryAssumption
<1>1. ChainType
  BY <1>0 DEF Init, ChainType
<1>2. ListType
  BY <1>0 DEF Init, ListType
<1>3. YieldType /\ PoolsType /\ TradeInv
  BY DEF Init, YieldType, PoolsType, TradeInv
<1>6. FlagType
  BY Zenon DEF Init, FlagType
<1>4. FaultType
  BY <1>1, HistoryFacts DEF Init, FaultType, ChainType
<1>5. AskInv /\ report \in Answers /\ AnswerInv
  BY DEF Init, AskInv, Question, Answers, AnswerInv, Nobody
<1> QED
  BY <1>1, <1>2, <1>3, <1>4, <1>5, <1>6 DEF DataInv

LEMMA NextDataInv ==
  ASSUME IInv, DataInv, [Next]_vars
  PROVE  DataInv'
<1> USE DEF DataInv
<1>1. ChainType' /\ ListType' /\ YieldType' /\ PoolsType' /\ FlagType' /\ FaultType'
  BY Onward, ListStep, YieldStep, PoolsStep, FlagStep, FaultStep
<1>2. TradeInv' /\ AskInv' /\ (report \in Answers)'
  BY TradeStep, AskStep, ReportStep
<1> QED
  BY <1>1, <1>2

LEMMA DataInvTypes ==
  ASSUME IInv, DataInv
  PROVE  TypeOK
<1>1. /\ chain \in DOMAIN Histories /\ best \in Heights /\ height \in Heights /\ cur \in Heights
      /\ next \in 1 .. LastBlock + 1 /\ ends \in Nat
  BY HistoryAssumption DEF IInv, CoreType, DataInv, ChainType
<1>2. work \subseteq Tasks /\ (cur = 0 => work = {})
  BY DEF IInv, PlaceInv
<1>3. up \in BOOLEAN /\ clean \in BOOLEAN
  BY DEF DataInv, FlagType
<1>4. records \in [1 .. LastBlock -> 0 .. ends + 1]
  <2>1. \A h \in Blocks : records[h] \in 0 .. ends + 1
    BY <1>1 DEF IInv, RecordsInv, RecordsAt, CoreType
  <2>2. records \in [Blocks -> Nat]
    BY DEF IInv, CoreType
  <2> QED
    BY <2>1, <2>2
<1>5. /\ listed \in [Items -> 0 .. best] /\ state \in 0 .. best
      /\ seen \in 0 .. best /\ yield \in [Pools \union StakePools -> 0 .. seen]
  BY DEF DataInv, ListType, YieldType
<1>6. /\ placed \subseteq Orders /\ answered \subseteq asked /\ asked \subseteq This.withdrawals
      /\ (fetched = {NoItem} \/ fetched \subseteq Pools) /\ served \subseteq Pools
      /\ asking \in Question /\ report \in Answers
      /\ fails \in Nat /\ ends + fails <= This.maxFaults
  BY DEF DataInv, TradeInv, PoolsType, AskInv, FaultType
<1> QED
  BY <1>1, <1>2, <1>3, <1>4, <1>5, <1>6 DEF TypeOK

\* The types of all variables, whatever the chain does: the heights in the lists,
\* in the saved state and in the yields that the handlers of pDEX v3 read never
\* run ahead of the chain, and the rewards of a block are recorded at most once
\* more than the process has ended.
THEOREM SpecTypeOK == Spec => []TypeOK
<1>1. Init => IInv /\ DataInv
  BY InitIInv, InitDataInv
<1>2. IInv /\ DataInv /\ [Next]_vars => IInv' /\ DataInv'
  BY NextIInv, NextDataInv
<1>3. IInv /\ DataInv => TypeOK
  BY DataInvTypes
<1> QED
  BY <1>1, <1>2, <1>3, PTL DEF Spec

LEMMA AnswersAddUp ==
  ASSUME BookKept, DataInv, AnswerInv
  PROVE  ReportsAddUp
<1>1. ASSUME report.kind = "status", report.done, report.height # 0 PROVE IsOver(report.order)
  <2>1. PICK w \in This.withdrawals :
          w.order = report.order /\ w.own /\ ~w.refused /\ w.block <= best
    BY <1>1 DEF AnswerInv, StatusRight
  <2> QED
    BY <2>1, PaidIsOver DEF DataInv, ChainType
<1>2. ASSUME report.kind = "book", report.known
      PROVE  report.remain \in SellTokenBalance(report.order, report.height) .. Amount
  BY <1>2 DEF AnswerInv, BookRight
<1>3. ASSUME report.kind = "status"
      PROVE  LET o == report.order
                 newest == IF report.height = 0 THEN best ELSE report.height
             IN  \/ \E w \in report.answered : w.block > newest
                 \/ report.height = 0 /\ report.matched = 0
                 \/ report.height = 0 /\ report.matched \in 0 .. Amount
                 \/ report.matched \in Sold(o, newest) .. Amount
  BY <1>3 DEF AnswerInv, StatusRight
<1> QED
  BY <1>1, <1>2, <1>3 DEF ReportsAddUp

\* What getTradeStatus and PendingOrder answer adds up, though they read the
\* order and its status one after the other, and the synchroniser and the trade
\* processor write in between: whatever the chain does with the orders, as long
\* as its book never gives out more than an order has.
THEOREM SpecReportsAddUp ==
  ASSUME BookKept
  PROVE  Spec => []ReportsAddUp
<1>1. Init => IInv /\ DataInv /\ AnswerInv
  BY InitIInv, InitDataInv
<1>2. IInv /\ DataInv /\ AnswerInv /\ [Next]_vars => IInv' /\ DataInv' /\ AnswerInv'
  BY NextIInv, NextDataInv, AnswerStep DEF DataInv
<1>3. DataInv /\ AnswerInv => ReportsAddUp
  BY AnswersAddUp
<1> QED
  BY <1>1, <1>2, <1>3, PTL DEF Spec

\* The estimates of trades and rates read the saved state and leave it alone: all
\* of this holds of the lists with EstimateTrade and GetRate beside them.
THEOREM ServiceKeepsLists == ServiceSpec => Spec
<1>1. ServiceInit => Init
  BY DEF ServiceInit
<1>2. [ServiceNext]_<<vars, estimateVars>> => [Next]_vars
  BY DEF ServiceNext
<1> QED
  BY <1>1, <1>2, PTL DEF ServiceSpec, Spec
=============================================================================
