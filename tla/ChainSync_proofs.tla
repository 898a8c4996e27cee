------------------------- MODULE ChainSync_proofs --------------------------
(***************************************************************************)
(* Proofs about ChainSync: its types, the inductive invariant that ties    *)
(* the recorded heights to the data, and that it implements CausalLog.     *)
(***************************************************************************)
EXTENDS ChainSync, TLAPS

\* The goroutine is in the writes of a block: the waiting is behind it.
Writing == {"txs", "coins", "keyimages", "coinv1", "bridge", "parallel",
            "leveldb", "processed", "persist"}

\* The parts that must be stored when the goroutine is at a step.
Done(c, at) ==
  CASE at = "coins"     -> {"txs"}
    [] at = "keyimages" -> {"txs", "coins"}
    [] at \in {"coinv1", "leveldb", "processed", "persist"} -> Parts(c)
    [] OTHER -> {}

\* Where each kind of goroutine can be, and at which height.
PcAt(c) ==
  /\ pc[c] \in {"txs", "coins", "keyimages", "coinv1"} => c \in Shards
  /\ pc[c] \in {"bridge", "parallel"} => c = Beacon
  /\ ~up => pc[c] = "idle"
  /\ up => BlockProcessed[c] <= cur[c] /\ cur[c] <= BlockProcessed[c] + 1
  /\ pc[c] \in Writing \union {"waiting"} => cur[c] \in Heights
  /\ pc[c] = "persist" => cur[c] = BlockProcessed[c]

PcInv == \A c \in Chains : PcAt(c)

\* Only a started process has written a height.
StateInv ==
  /\ up => hasState
  /\ ~hasState => \A c \in Chains : leveldb[c] = First /\ persisted[c] = First

\* Heights in Mongo are heights that were in memory.
PersistedInv == up => \A c \in Chains : persisted[c] <= BlockProcessed[c]

\* What the step of a goroutine says about the block it is writing.
WritingAt(c) ==
  /\ Done(c, pc[c]) \subseteq stored[<<c, cur[c]>>]
  /\ \A r \in Refs[<<c, cur[c]>>] : r[2] <= BlockProcessed[r[1]]

WritingInv == \A c \in Chains : pc[c] \in Writing => WritingAt(c)

StoredInv == \A c \in Chains, h \in Heights : stored[<<c, h>>] \subseteq Parts(c)

\* A processed block's references are processed.
RefsAt(c, h, r) ==
  /\ h <= persisted[c] => r[2] <= persisted[r[1]]
  /\ up /\ h <= BlockProcessed[c] => r[2] <= BlockProcessed[r[1]]

RefsInv ==
  \A c \in Chains, h \in Heights : \A r \in Refs[<<c, h>>] : RefsAt(c, h, r)

IInv ==
  /\ TypeOK /\ PcInv /\ StateInv /\ PersistedInv /\ WritingInv /\ StoredInv
  /\ RefsInv /\ HeightsCoverData

USE DEF Chains, Heights, First

-----------------------------------------------------------------------------
LEMMA RefsFact ==
  ASSUME NEW c \in Chains, NEW h \in Heights, NEW r \in Refs[<<c, h>>]
  PROVE  r[1] \in Shards /\ r[1] \in Chains /\ r[2] \in Heights
<1>1. <<c, h>> \in Chains \X Heights
  OBVIOUS
<1>2. Refs[<<c, h>>] \in SUBSET (Shards \X Heights)
  BY <1>1, RefsAssumption
<1>3. r \in Shards \X Heights
  BY <1>2
<1> QED
  BY <1>3

\* Changing one value of a function keeps its type.
LEMMA ExceptType ==
  ASSUME NEW S, NEW T, NEW f \in [S -> T], NEW x, NEW v \in T
  PROVE  [f EXCEPT ![x] = v] \in [S -> T]
OBVIOUS

\* Every step respects the types of the variables.
LEMMA TypeStep == TypeOK /\ PcInv /\ [Next]_vars => TypeOK'
<1> SUFFICES ASSUME TypeOK, PcInv, [Next]_vars PROVE TypeOK'
  OBVIOUS
<1> USE BoundsAssumption, ChainsAssumption DEF TypeOK
<1>1. CASE Start
  BY <1>1 DEF Start, pauseVars
<1>2. CASE Crash
  <2>1. orders' \in Seq({"pause", "resume"})
    BY <1>2 DEF Crash
  <2>2. pc' \in [Chains -> PcValues] /\ cur' \in [Chains -> First .. MaxHeight + 1]
    BY <1>2 DEF Crash, Fresh, PcValues
  <2>3. BlockProcessed' \in [Chains -> Heights]
        /\ chainSyncStatus' \in [Chains -> {"pause", "resume"}]
    BY <1>2 DEF Crash, Fresh
  <2>4. crashes' \in 0 .. MaxCrash
    <3>1. crashes \in 0 .. MaxCrash /\ crashes < MaxCrash /\ crashes' = crashes + 1
      BY <1>2 DEF Crash
    <3> QED
      BY <3>1
  <2>6. up' \in BOOLEAN /\ pauseChainSync' \in BOOLEAN
        /\ handling' \in {"idle", "pause", "resume"}
    BY <1>2, Zenon DEF Crash, Fresh
  <2>5. UNCHANGED dbVars
    BY <1>2 DEF Crash
  <2> QED
    BY <2>1, <2>2, <2>3, <2>4, <2>5, <2>6 DEF dbVars
<1>3. CASE TakeOrder
  BY <1>3 DEF TakeOrder, dbVars
<1>4. CASE OrderDone
  BY <1>4 DEF OrderDone, dbVars
<1>5. ASSUME NEW c \in Chains, ChainStep(c) PROVE TypeOK'
  <2>1. CASE Deliver(c) \/ Park(c) \/ SeeResume(c) \/ Pass(c) \/ StopWaiting(c)
    BY <2>1 DEF Deliver, Park, SeeResume, Pass, StopWaiting, Goto, At, dbVars,
                pauseVars, PcValues
  <2>2. ASSUME NEW part \in ShardParts, NEW next \in PcValues,
               SaveShardPart(c, part, next)
        PROVE  TypeOK'
    <3>1. stored' \in [Chains \X Heights -> SUBSET (ShardParts \union BeaconParts)]
      BY <2>2 DEF SaveShardPart, Store
    <3> QED
      BY <3>1, <2>2 DEF SaveShardPart, Goto, pauseVars
  <2>3. CASE DBUpdateCoinV1PubkeyInfo(c)
    <3>1. c \in Shards /\ cur[c] \in Heights
      BY <2>3 DEF DBUpdateCoinV1PubkeyInfo, At, PcInv, PcAt, Writing
    <3>2. counted[<<c, cur[c]>>] \in Nat
      BY <3>1
    <3>3. counted' \in [Shards \X Heights -> Nat]
      <4>2. counted \in [Shards \X Heights -> Nat]
        OBVIOUS
      <4>1. [counted EXCEPT ![<<c, cur[c]>>] = @ + 1] \in [Shards \X Heights -> Nat]
        <5>1. counted[<<c, cur[c]>>] + 1 \in Nat
          BY <3>2
        <5> QED
          BY <4>2, <5>1, ExceptType, Zenon
      <4>3. counted' \in {[counted EXCEPT ![<<c, cur[c]>>] = @ + 1], counted}
        BY <2>3, Zenon DEF DBUpdateCoinV1PubkeyInfo
      <4> QED
        BY <4>1, <4>2, <4>3
    <3> QED
      BY <3>3, <2>3 DEF DBUpdateCoinV1PubkeyInfo, Goto, pauseVars, PcValues
  <2>4. CASE PutHeight(c) \/ SetProcessed(c) \/ UpdateState(c)
    <3>1. cur[c] \in Heights
      BY <2>4 DEF PutHeight, SetProcessed, UpdateState, At, PcInv, PcAt, Writing
    <3>2. cur[c] + 1 \in First .. MaxHeight + 1
      BY <3>1
    <3>3. CASE PutHeight(c)
      BY <3>1, <3>3 DEF PutHeight, Goto, pauseVars, PcValues
    <3>4. CASE SetProcessed(c)
      BY <3>1, <3>4 DEF SetProcessed, Goto, dbVars, pauseVars, PcValues
    <3>5. CASE UpdateState(c)
      BY <3>2, <3>5 DEF UpdateState, Goto, pauseVars, PcValues
    <3> QED
      BY <2>4, <3>3, <3>4, <3>5
  <2>5. CASE c = Beacon /\ BeaconStep
    <3>1. ASSUME NEW part \in BeaconParts, Store(Beacon, part)
          PROVE  stored' \in [Chains \X Heights -> SUBSET (ShardParts \union BeaconParts)]
      BY <3>1 DEF Store
    <3>2. CASE DBSaveBridgeState
      BY <3>1, <3>2 DEF DBSaveBridgeState, Goto, pauseVars, PcValues, BeaconParts
    <3>3. ASSUME NEW part \in BeaconParts, SaveBeaconPart(part)
          PROVE  TypeOK'
      BY <3>1, <3>3 DEF SaveBeaconPart, pauseVars
    <3>4. CASE BeaconPartsSaved
      BY <3>4 DEF BeaconPartsSaved, Goto, dbVars, pauseVars, PcValues
    <3> QED
      BY <2>5, <3>2, <3>3, <3>4 DEF BeaconStep
  <2> QED
    BY <1>5, <2>1, <2>2, <2>3, <2>4, <2>5
    DEF ChainStep, BlockStep, DBSaveTXs, DBSaveCoins, DBSaveUsedKeyimage,
        ShardParts, PcValues
<1>6. CASE UNCHANGED vars
  BY <1>6 DEF vars, dbVars, pauseVars
<1> QED
  BY <1>1, <1>2, <1>3, <1>4, <1>5, <1>6 DEF Next, OrderStep

-----------------------------------------------------------------------------
\* What a step does, as far as the invariant is concerned: the process starts or
\* ends, a goroutine steps, or nothing the invariant speaks of changes.
Quiet == UNCHANGED <<up, pc, cur, BlockProcessed, dbVars>>

\* A goroutine takes the next step without writing a height or data.
Moves(c) ==
  /\ up
  /\ \/ pc[c] = "idle" /\ Goto(c, "gate")
     \/ pc[c] = "gate" /\ Goto(c, "leaving")
     \/ pc[c] = "leaving" /\ Goto(c, IF cur[c] \in Heights THEN "waiting" ELSE "idle")
     \/ StopWaiting(c)
     \/ c \in Shards /\ pc[c] = "coinv1" /\ Goto(c, "leveldb")
     \/ c = Beacon /\ BeaconPartsSaved
  /\ UNCHANGED <<up, cur, BlockProcessed, hasState, persisted, leveldb, stored>>

\* A goroutine writes a part of its block.
Stores(c, part, next) ==
  /\ up
  /\ \/ c \in Shards /\ <<pc[c], part, next>> \in
          {<<"txs", "txs", "coins">>, <<"coins", "coins", "keyimages">>,
           <<"keyimages", "keyimages", "coinv1">>}
     \/ c = Beacon /\ pc[c] \in {"bridge", "parallel"} /\ next = "parallel"
  /\ part \in Parts(c)
  /\ Store(c, part)
  /\ Goto(c, next)
  /\ UNCHANGED <<up, cur, BlockProcessed, hasState, persisted, leveldb>>

LEMMA StepKinds ==
  ASSUME TypeOK, [Next]_vars
  PROVE  \/ Start \/ Crash \/ Quiet
         \/ \E c \in Chains :
              \/ Moves(c) \/ PutHeight(c) \/ SetProcessed(c) \/ UpdateState(c)
              \/ \E part \in Parts(c), next \in PcValues : Stores(c, part, next)
<1>1. CASE TakeOrder \/ OrderDone \/ UNCHANGED vars
  BY <1>1 DEF TakeOrder, OrderDone, vars, Quiet
<1>2. ASSUME NEW c \in Chains, Park(c) PROVE Quiet
  BY <1>2 DEF Park, Quiet
<1>3. ASSUME NEW c \in Chains,
             Deliver(c) \/ SeeResume(c) \/ Pass(c) \/ StopWaiting(c)
               \/ DBUpdateCoinV1PubkeyInfo(c)
      PROVE  Moves(c)
  BY <1>3 DEF Deliver, SeeResume, Pass, StopWaiting, DBUpdateCoinV1PubkeyInfo, Moves,
              At, dbVars
<1>4. ASSUME NEW c \in Chains, DBSaveTXs(c)
      PROVE  Stores(c, "txs", "coins") /\ "txs" \in Parts(c)
  BY <1>4, ChainsAssumption
  DEF DBSaveTXs, SaveShardPart, Stores, At, Parts, ShardParts
<1>5. ASSUME NEW c \in Chains, DBSaveCoins(c)
      PROVE  Stores(c, "coins", "keyimages") /\ "coins" \in Parts(c)
  BY <1>5, ChainsAssumption
  DEF DBSaveCoins, SaveShardPart, Stores, At, Parts, ShardParts
<1>6. ASSUME NEW c \in Chains, DBSaveUsedKeyimage(c)
      PROVE  Stores(c, "keyimages", "coinv1") /\ "keyimages" \in Parts(c)
  BY <1>6, ChainsAssumption
  DEF DBSaveUsedKeyimage, SaveShardPart, Stores, At, Parts, ShardParts
<1>7. ASSUME DBSaveBridgeState
      PROVE  Stores(Beacon, "bridge", "parallel") /\ "bridge" \in Parts(Beacon)
  BY <1>7 DEF DBSaveBridgeState, Stores, At, Parts, BeaconParts
<1>8. ASSUME NEW part \in BeaconParts, SaveBeaconPart(part)
      PROVE  Stores(Beacon, part, "parallel") /\ part \in Parts(Beacon)
  <2>1. Goto(Beacon, "parallel")
    BY <1>8 DEF SaveBeaconPart, Goto, At, TypeOK
  <2> QED
    BY <1>8, <2>1 DEF SaveBeaconPart, Stores, At, Parts
<1>9. ASSUME BeaconPartsSaved PROVE Moves(Beacon)
  BY <1>9 DEF BeaconPartsSaved, Moves, At, dbVars
<1>10. "coins" \in PcValues /\ "keyimages" \in PcValues /\ "coinv1" \in PcValues
       /\ "parallel" \in PcValues /\ Beacon \in Chains
  BY DEF PcValues
<1>11. ASSUME NEW c \in Chains, ChainStep(c)
       PROVE  \/ Quiet \/ Moves(c) \/ PutHeight(c) \/ SetProcessed(c) \/ UpdateState(c)
              \/ \E part \in Parts(c), next \in PcValues : Stores(c, part, next)
  <2>1. CASE Deliver(c) \/ Park(c) \/ SeeResume(c) \/ Pass(c)
    BY <2>1, <1>2, <1>3
  <2>2. CASE BlockStep(c)
    BY <2>2, <1>3, <1>4, <1>5, <1>6, <1>10 DEF BlockStep
  <2>3. CASE c = Beacon /\ BeaconStep
    BY <2>3, <1>7, <1>8, <1>9, <1>10 DEF BeaconStep
  <2> QED
    BY <1>11, <2>1, <2>2, <2>3 DEF ChainStep
<1> QED
  BY <1>1, <1>11 DEF Next, OrderStep

-----------------------------------------------------------------------------
LEMMA InitIInv == Init => IInv
<1> SUFFICES ASSUME Init PROVE IInv
  OBVIOUS
<1> USE BoundsAssumption
<1>1. TypeOK
  <2>1. MaxHeight \in Nat /\ First \in Heights /\ First \in First .. MaxHeight + 1
        /\ 0 \in 0 .. MaxCrash
    OBVIOUS
  <2>2. stored \in [Chains \X Heights -> SUBSET (ShardParts \union BeaconParts)]
        /\ counted \in [Shards \X Heights -> Nat]
    BY DEF Init
  <2>3. up \in BOOLEAN /\ hasState \in BOOLEAN /\ pauseChainSync \in BOOLEAN
        /\ handling \in {"idle", "pause", "resume"}
    BY Zenon DEF Init
  <2>4. pc \in [Chains -> PcValues] /\ cur \in [Chains -> First .. MaxHeight + 1]
        /\ chainSyncStatus \in [Chains -> {"pause", "resume"}]
    BY <2>1 DEF Init, PcValues
  <2>5. BlockProcessed \in [Chains -> Heights] /\ persisted \in [Chains -> Heights]
        /\ leveldb \in [Chains -> Heights]
    BY <2>1 DEF Init
  <2>6. orders \in Seq({"pause", "resume"}) /\ crashes \in 0 .. MaxCrash
    BY <2>1, OrdersAssumption DEF Init
  <2> QED
    BY <2>2, <2>3, <2>4, <2>5, <2>6 DEF TypeOK
<1>2. PcInv /\ StateInv /\ PersistedInv /\ WritingInv /\ StoredInv
  BY DEF Init, PcInv, PcAt, StateInv, PersistedInv, WritingInv, Writing,
         StoredInv
<1>3. RefsInv
  <2> SUFFICES ASSUME NEW c \in Chains, NEW h \in Heights, NEW r \in Refs[<<c, h>>],
                      h <= persisted[c]
               PROVE  FALSE
    BY DEF Init, RefsInv, RefsAt
  <2>1. h = First
    BY DEF Init
  <2> QED
    BY <2>1, RefsAssumption
<1>4. HeightsCoverData
  BY DEF Init, HeightsCoverData
<1> QED
  BY <1>1, <1>2, <1>3, <1>4 DEF IInv

LEMMA PcStep == TypeOK /\ PcInv /\ [Next]_vars => PcInv'
<1> SUFFICES ASSUME TypeOK, PcInv, [Next]_vars, NEW d \in Chains PROVE PcAt(d)'
  BY DEF PcInv
<1>0. PcAt(d)
  BY DEF PcInv
<1> USE BoundsAssumption, ChainsAssumption
<1>1. CASE Start
  <2>1. \A n \in Heights : n <= n /\ n <= n + 1
    OBVIOUS
  <2> QED
    BY <1>0, <1>1, <2>1 DEF Start, PcAt, TypeOK, Writing
<1>2. CASE Crash
  BY <1>2 DEF Crash, Fresh, PcAt, Writing
<1>3. CASE Quiet
  BY <1>0, <1>3 DEF Quiet, PcAt
<1>4. ASSUME NEW c \in Chains, Moves(c) PROVE PcAt(d)'
  <2>1. CASE c = d
    BY <1>0, <1>4, <2>1
    DEF Moves, StopWaiting, BeaconPartsSaved, Goto, At, PcAt, TypeOK, Writing
  <2>2. CASE c # d
    BY <1>0, <1>4, <2>2 DEF Moves, StopWaiting, BeaconPartsSaved, Goto, At, PcAt, TypeOK
  <2> QED
    BY <2>1, <2>2
<1>5. ASSUME NEW c \in Chains, PutHeight(c) PROVE PcAt(d)'
  BY <1>0, <1>5 DEF PutHeight, Goto, At, PcAt, TypeOK, Writing
<1>6. ASSUME NEW c \in Chains, SetProcessed(c) PROVE PcAt(d)'
  BY <1>0, <1>6 DEF SetProcessed, Goto, At, PcAt, TypeOK, Writing
<1>7. ASSUME NEW c \in Chains, UpdateState(c) PROVE PcAt(d)'
  <2>1. CASE c = d
    <3>1. cur[d] = BlockProcessed[d] /\ BlockProcessed[d] \in Nat
      BY <1>0, <1>7, <2>1 DEF UpdateState, At, PcAt, TypeOK
    <3>2. cur'[d] = cur[d] + 1 /\ pc'[d] = "idle" /\ up' /\ UNCHANGED BlockProcessed
      BY <1>7, <2>1 DEF UpdateState, At, Goto, TypeOK
    <3> QED
      BY <3>1, <3>2 DEF PcAt, Writing
  <2>2. CASE c # d
    BY <1>0, <1>7, <2>2 DEF UpdateState, Goto, At, PcAt, TypeOK
  <2> QED
    BY <2>1, <2>2
<1>8. ASSUME NEW c \in Chains, NEW part \in Parts(c), NEW next \in PcValues,
             Stores(c, part, next)
      PROVE  PcAt(d)'
  BY <1>0, <1>8 DEF Stores, Goto, At, PcAt, TypeOK, Writing
<1> QED
  BY <1>1, <1>2, <1>3, <1>4, <1>5, <1>6, <1>7, <1>8, StepKinds

LEMMA StateStep == TypeOK /\ StateInv /\ [Next]_vars => StateInv'
<1> SUFFICES ASSUME TypeOK, StateInv, [Next]_vars PROVE StateInv'
  OBVIOUS
<1>1. CASE Start
  BY <1>1 DEF Start, StateInv
<1>2. CASE Crash
  BY <1>2 DEF Crash, dbVars, StateInv
<1>3. CASE Quiet
  BY <1>3 DEF Quiet, dbVars, StateInv
<1>4. ASSUME up, UNCHANGED <<up, hasState>> PROVE StateInv'
  BY <1>4 DEF StateInv
<1>5. ASSUME NEW c \in Chains, NEW part \in Parts(c), NEW next \in PcValues,
             \/ Moves(c) \/ PutHeight(c) \/ SetProcessed(c) \/ UpdateState(c)
             \/ Stores(c, part, next)
      PROVE  up /\ UNCHANGED <<up, hasState>>
  BY <1>5 DEF Moves, PutHeight, SetProcessed, UpdateState, Stores, At, dbVars
<1>6. \A c \in Chains : "bridge" \in Parts(c) \/ "txs" \in Parts(c)
  BY DEF Parts, ShardParts, BeaconParts
<1>7. "idle" \in PcValues
  BY DEF PcValues
<1> QED
  BY <1>1, <1>2, <1>3, <1>4, <1>5, <1>6, <1>7, StepKinds

LEMMA PersistedStep ==
  TypeOK /\ PcInv /\ PersistedInv /\ [Next]_vars => PersistedInv'
<1> SUFFICES ASSUME TypeOK, PcInv, PersistedInv, [Next]_vars PROVE PersistedInv'
  OBVIOUS
<1>1. CASE Start
  BY <1>1 DEF Start, PersistedInv, TypeOK
<1>2. CASE Crash
  BY <1>2 DEF Crash, PersistedInv
<1>3. CASE Quiet
  BY <1>3 DEF Quiet, dbVars, PersistedInv
<1>4. ASSUME NEW c \in Chains, SetProcessed(c) PROVE PersistedInv'
  BY <1>4 DEF SetProcessed, At, dbVars, PersistedInv, PcInv, PcAt, TypeOK
<1>5. ASSUME NEW c \in Chains, UpdateState(c) PROVE PersistedInv'
  BY <1>5 DEF UpdateState, PersistedInv, TypeOK
<1>6. ASSUME NEW c \in Chains, NEW part \in Parts(c), NEW next \in PcValues,
             Moves(c) \/ PutHeight(c) \/ Stores(c, part, next)
      PROVE  PersistedInv'
  BY <1>6 DEF Moves, PutHeight, Stores, At, PersistedInv
<1> QED
  <2>1. \A c \in Chains : \E part \in Parts(c), next \in PcValues : TRUE
    BY DEF Parts, ShardParts, BeaconParts, PcValues
  <2> QED
    BY <1>1, <1>2, <1>3, <1>4, <1>5, <1>6, <2>1, StepKinds

LEMMA StoredStep == TypeOK /\ StoredInv /\ [Next]_vars => StoredInv'
<1> SUFFICES ASSUME TypeOK, StoredInv, [Next]_vars PROVE StoredInv'
  OBVIOUS
<1>1. ASSUME UNCHANGED stored PROVE StoredInv'
  BY <1>1 DEF StoredInv
<1>2. CASE Start \/ Crash \/ Quiet
  BY <1>1, <1>2 DEF Start, Crash, Quiet, dbVars
<1>3. ASSUME NEW c \in Chains,
             Moves(c) \/ PutHeight(c) \/ SetProcessed(c) \/ UpdateState(c)
      PROVE  StoredInv'
  BY <1>1, <1>3 DEF Moves, PutHeight, SetProcessed, UpdateState, dbVars
<1>4. ASSUME NEW c \in Chains, NEW part \in Parts(c), NEW next \in PcValues,
             Stores(c, part, next)
      PROVE  StoredInv'
  BY <1>4 DEF Stores, Store, StoredInv, TypeOK
<1> QED
  BY <1>2, <1>3, <1>4, StepKinds

\* Processed heights never fall while a goroutine steps.
LEMMA ProcessedGrows ==
  ASSUME TypeOK, PcInv, NEW c \in Chains, SetProcessed(c), NEW d \in Chains
  PROVE  BlockProcessed[d] <= BlockProcessed'[d] /\ BlockProcessed'[d] \in Heights
BY DEF SetProcessed, At, PcInv, PcAt, TypeOK, Writing

LEMMA WritingStep ==
  TypeOK /\ PcInv /\ WritingInv /\ [Next]_vars => WritingInv'
<1> SUFFICES ASSUME TypeOK, PcInv, WritingInv, [Next]_vars,
                    NEW d \in Chains, pc'[d] \in Writing
             PROVE  WritingAt(d)'
  BY DEF WritingInv
<1>0. PcAt(d) /\ (pc[d] \in Writing => WritingAt(d))
  BY DEF PcInv, WritingInv
<1> USE ChainsAssumption, BoundsAssumption
<1>1. CASE Start
  BY <1>1 DEF Start, PcInv, PcAt, Writing
<1>2. CASE Crash
  BY <1>2 DEF Crash, Fresh, Writing
<1>3. CASE Quiet
  BY <1>0, <1>3 DEF Quiet, dbVars, WritingAt
\* Another goroutine's step leaves the block alone.
<1>4. ASSUME UNCHANGED <<pc, cur, BlockProcessed, stored>> PROVE WritingAt(d)'
  BY <1>0, <1>4 DEF WritingAt
<1>5. ASSUME NEW c \in Chains, Moves(c) PROVE WritingAt(d)'
  <2>1. CASE c # d
    BY <1>0, <1>5, <2>1 DEF Moves, StopWaiting, BeaconPartsSaved, Goto, WritingAt, TypeOK
  <2>2. CASE c = d /\ StopWaiting(d)
    BY <2>2 DEF StopWaiting, RefsProcessed, Goto, dbVars, WritingAt, Done, TypeOK
  <2>3. CASE c = d /\ c \in Shards /\ pc[c] = "coinv1" /\ Goto(c, "leveldb")
    BY <1>0, <1>5, <2>3 DEF Moves, Goto, WritingAt, Done, Writing, TypeOK
  <2>4. CASE c = d /\ c = Beacon /\ BeaconPartsSaved
    BY <1>0, <1>5, <2>4
    DEF BeaconPartsSaved, At, Goto, dbVars, WritingAt, Done, Parts, Writing, TypeOK
  <2> QED
    BY <1>5, <2>1, <2>2, <2>3, <2>4 DEF Moves, Goto, Writing, TypeOK
<1>6. ASSUME NEW c \in Chains, PutHeight(c) PROVE WritingAt(d)'
  BY <1>0, <1>6 DEF PutHeight, At, Goto, WritingAt, Done, Writing, TypeOK
<1>7. ASSUME NEW c \in Chains, SetProcessed(c) PROVE WritingAt(d)'
  <2>1. pc[d] \in Writing /\ Done(d, pc'[d]) = Done(d, pc[d])
    BY <1>7 DEF SetProcessed, At, Goto, Done, Writing, TypeOK
  <2>2. cur[d] \in Heights
    BY <1>0, <2>1 DEF PcAt
  <2>3. ASSUME NEW r \in Refs[<<d, cur[d]>>] PROVE r[2] <= BlockProcessed'[r[1]]
    <3>1. r[2] <= BlockProcessed[r[1]]
      BY <1>0, <2>1 DEF WritingAt
    <3>2. r[1] \in Chains /\ r[2] \in Heights
      BY <2>2, RefsFact
    <3>3. BlockProcessed[r[1]] <= BlockProcessed'[r[1]] /\ BlockProcessed'[r[1]] \in Heights
      BY <1>7, <3>2, ProcessedGrows
    <3>4. BlockProcessed[r[1]] \in Heights
      BY <3>2 DEF TypeOK
    <3> QED
      BY <3>1, <3>2, <3>3, <3>4
  <2> QED
    BY <1>0, <1>7, <2>1, <2>3 DEF SetProcessed, dbVars, WritingAt
<1>8. ASSUME NEW c \in Chains, UpdateState(c) PROVE WritingAt(d)'
  BY <1>0, <1>8 DEF UpdateState, Goto, WritingAt, Writing, TypeOK
<1>9. ASSUME NEW c \in Chains, NEW part \in Parts(c), NEW next \in PcValues,
             Stores(c, part, next)
      PROVE  WritingAt(d)'
  <2>1. CASE c # d
    <3>1. pc'[d] = pc[d] /\ UNCHANGED <<cur, BlockProcessed>>
      BY <1>9, <2>1 DEF Stores, Goto, TypeOK
    <3>2. stored'[<<d, cur[d]>>] = stored[<<d, cur[d]>>]
      <4>1. <<c, cur[c]>> # <<d, cur[d]>>
        BY <2>1
      <4>2. cur[d] \in Heights
        BY <1>0, <3>1 DEF PcAt
      <4> QED
        BY <1>9, <4>1, <4>2 DEF Stores, Store, TypeOK
    <3> QED
      BY <1>0, <3>1, <3>2 DEF WritingAt
  <2>2. CASE c = d
    <3>1. pc[d] \in Writing /\ pc'[d] = next /\ cur[d] \in Heights
      BY <1>0, <1>9, <2>2 DEF Stores, Goto, Writing, TypeOK, PcAt
    <3>2. stored'[<<d, cur[d]>>] = stored[<<d, cur[d]>>] \union {part}
      BY <1>9, <2>2, <3>1 DEF Stores, Store, TypeOK
    <3>3. Done(d, next) \subseteq Done(d, pc[d]) \union {part}
      BY <1>9, <2>2 DEF Stores, Done, Parts, ShardParts
    <3> QED
      BY <1>0, <1>9, <2>2, <3>1, <3>2, <3>3 DEF Stores, WritingAt
  <2> QED
    BY <2>1, <2>2
<1> QED
  BY <1>1, <1>2, <1>3, <1>5, <1>6, <1>7, <1>8, <1>9, StepKinds

\* What is stored stays stored, and no block gains a part it does not have.
LEMMA SavedStays ==
  ASSUME TypeOK, StoredInv, NEW c \in Chains, NEW part \in Parts(c),
         NEW next \in PcValues, Stores(c, part, next),
         NEW d \in Chains, NEW h \in Heights, Saved(d, h)
  PROVE  Saved(d, h)'
<1>1. CASE <<d, h>> = <<c, cur[c]>>
  <2>1. stored'[<<d, h>>] = stored[<<d, h>>] \union {part}
    BY <1>1 DEF Stores, Store, TypeOK
  <2>2. c = d
    BY <1>1
  <2> QED
    BY <2>1, <2>2 DEF Saved
<1>2. CASE <<d, h>> # <<c, cur[c]>>
  <2>1. stored'[<<d, h>>] = stored[<<d, h>>]
    BY <1>2 DEF Stores, Store, TypeOK
  <2> QED
    BY <2>1 DEF Saved
<1> QED
  BY <1>1, <1>2

LEMMA CoverStep ==
  TypeOK /\ PcInv /\ StateInv /\ WritingInv /\ StoredInv /\ HeightsCoverData
    /\ [Next]_vars => HeightsCoverData'
<1> SUFFICES ASSUME TypeOK, PcInv, StateInv, WritingInv, StoredInv, HeightsCoverData,
                    [Next]_vars, NEW d \in Chains, NEW h \in Heights, First < h,
                    \/ h <= persisted'[d]
                    \/ up' /\ h <= BlockProcessed'[d]
             PROVE  Saved(d, h)'
  BY DEF HeightsCoverData
<1>0. h <= persisted[d] \/ (up /\ h <= BlockProcessed[d]) => Saved(d, h)
  BY DEF HeightsCoverData
<1>1. CASE Start
  BY <1>0, <1>1 DEF Start, StateInv, Saved, TypeOK
<1>2. CASE Crash
  BY <1>0, <1>2 DEF Crash, dbVars, Saved
<1>3. CASE Quiet
  BY <1>0, <1>3 DEF Quiet, dbVars, Saved
<1>4. ASSUME NEW c \in Chains, Moves(c) \/ PutHeight(c) PROVE Saved(d, h)'
  BY <1>0, <1>4 DEF Moves, PutHeight, Saved
<1>5. ASSUME NEW c \in Chains, SetProcessed(c) PROVE Saved(d, h)'
  <2>1. UNCHANGED <<persisted, stored>> /\ up
    BY <1>5 DEF SetProcessed, At, dbVars
  <2>2. CASE h <= persisted[d] \/ h <= BlockProcessed[d]
    BY <1>0, <2>1, <2>2 DEF Saved
  <2>3. CASE ~(h <= persisted[d] \/ h <= BlockProcessed[d])
    <3>1. c = d /\ h <= cur[d]
      BY <1>5, <2>1, <2>3 DEF SetProcessed, TypeOK
    <3>2. h = cur[d]
      BY <1>5, <2>1, <2>3, <3>1 DEF PcInv, PcAt, TypeOK
    <3>3. Parts(d) \subseteq stored[<<d, cur[d]>>]
      BY <1>5, <3>1 DEF SetProcessed, At, WritingInv, WritingAt, Writing, Done
    <3> QED
      BY <2>1, <3>2, <3>3 DEF StoredInv, Saved
  <2> QED
    BY <2>2, <2>3
<1>6. ASSUME NEW c \in Chains, UpdateState(c) PROVE Saved(d, h)'
  BY <1>0, <1>6 DEF UpdateState, At, Saved
<1>7. ASSUME NEW c \in Chains, NEW part \in Parts(c), NEW next \in PcValues,
             Stores(c, part, next)
      PROVE  Saved(d, h)'
  BY <1>0, <1>7, SavedStays DEF Stores
<1> QED
  BY <1>1, <1>2, <1>3, <1>4, <1>5, <1>6, <1>7, StepKinds

LEMMA RefsStep ==
  TypeOK /\ PcInv /\ StateInv /\ WritingInv /\ RefsInv /\ [Next]_vars => RefsInv'
<1> SUFFICES ASSUME TypeOK, PcInv, StateInv, WritingInv, RefsInv, [Next]_vars,
                    NEW d \in Chains, NEW h \in Heights, NEW r \in Refs[<<d, h>>]
             PROVE  RefsAt(d, h, r)'
  BY DEF RefsInv
<1>0. RefsAt(d, h, r) /\ r[1] \in Chains /\ r[2] \in Heights
  BY RefsFact DEF RefsInv
<1>1. CASE Start
  <2>1. CASE hasState
    BY <1>0, <1>1, <2>1 DEF Start, RefsAt
  <2>2. CASE ~hasState
    <3>1. CASE h = First
      BY <3>1, RefsAssumption
    <3>2. CASE h # First
      BY <1>1, <2>2, <3>2 DEF Start, RefsAt, StateInv
    <3> QED
      BY <3>1, <3>2
  <2> QED
    BY <2>1, <2>2
<1>2. CASE Crash
  BY <1>0, <1>2 DEF Crash, dbVars, RefsAt
<1>3. CASE Quiet
  BY <1>0, <1>3 DEF Quiet, dbVars, RefsAt
<1>4. ASSUME NEW c \in Chains, NEW part \in Parts(c), NEW next \in PcValues,
             Moves(c) \/ PutHeight(c) \/ Stores(c, part, next)
      PROVE  RefsAt(d, h, r)'
  BY <1>0, <1>4 DEF Moves, PutHeight, Stores, RefsAt
<1>5. ASSUME NEW c \in Chains, SetProcessed(c) PROVE RefsAt(d, h, r)'
  <2>1. up /\ UNCHANGED persisted
    BY <1>5 DEF SetProcessed, At, dbVars
  <2>2. ASSUME h <= BlockProcessed'[d] PROVE r[2] <= BlockProcessed[r[1]]
    <3>1. CASE h <= BlockProcessed[d]
      BY <1>0, <2>1, <3>1 DEF RefsAt
    <3>2. CASE ~(h <= BlockProcessed[d])
      <4>1. c = d /\ h <= cur[d]
        BY <1>5, <2>2, <3>2 DEF SetProcessed, TypeOK
      <4>2. h = cur[d]
        BY <1>5, <3>2, <4>1, <2>1 DEF PcInv, PcAt, TypeOK
      <4> QED
        BY <1>5, <4>1, <4>2 DEF SetProcessed, At, WritingInv, WritingAt, Writing
    <3> QED
      BY <3>1, <3>2
  <2>3. BlockProcessed[r[1]] <= BlockProcessed'[r[1]] /\ BlockProcessed'[r[1]] \in Heights
        /\ BlockProcessed[r[1]] \in Heights
    BY <1>0, <1>5, ProcessedGrows DEF TypeOK
  <2> QED
    BY <1>0, <2>1, <2>2, <2>3 DEF RefsAt
<1>6. ASSUME NEW c \in Chains, UpdateState(c) PROVE RefsAt(d, h, r)'
  BY <1>0, <1>6 DEF UpdateState, At, RefsAt
<1>7. \A c \in Chains : \E part \in Parts(c), next \in PcValues : TRUE
  BY DEF Parts, ShardParts, BeaconParts, PcValues
<1> QED
  BY <1>1, <1>2, <1>3, <1>4, <1>5, <1>6, <1>7, StepKinds

-----------------------------------------------------------------------------
LEMMA NextIInv == IInv /\ [Next]_vars => IInv'
BY TypeStep, PcStep, StateStep, PersistedStep, WritingStep, StoredStep, RefsStep,
   CoverStep DEF IInv

LEMMA SpecIInv == Spec => []IInv
<1> QED
  BY InitIInv, NextIInv, PTL DEF Spec

\* Every variable of the synchroniser keeps its type.
THEOREM SpecTypeOK == Spec => []TypeOK
<1>1. IInv => TypeOK
  BY DEF IInv
<1> QED
  BY <1>1, SpecIInv, PTL

\* The recorded heights of every chain never run ahead of the data, whatever the
\* number of shards, the references and the ends of the process.
THEOREM SpecHeightsCoverData == Spec => []HeightsCoverData
<1>1. IInv => HeightsCoverData
  BY DEF IInv
<1> QED
  BY <1>1, SpecIInv, PTL

\* The beacon never runs ahead of the shard blocks it confirms.
THEOREM SpecBeaconBehindShards == Spec => []BeaconBehindShards
<1>1. IInv => BeaconBehindShards
  BY DEF IInv, RefsInv, RefsAt, BeaconBehindShards
<1> QED
  BY <1>1, SpecIInv, PTL

\* No step of the synchroniser takes a height in Mongo back.
THEOREM SpecPersistedNeverDecreases == Spec => PersistedNeverDecreases
<1>1. IInv /\ [Next]_vars => [\A c \in Chains : persisted[c] <= persisted'[c]]_vars
  <2> SUFFICES ASSUME IInv, [Next]_vars, NEW c \in Chains
               PROVE  persisted[c] <= persisted'[c]
    OBVIOUS
  <2> USE DEF IInv, TypeOK
  <2>1. CASE Start
    BY <2>1 DEF Start, StateInv
  <2>2. CASE Crash \/ Quiet
    BY <2>2 DEF Crash, Quiet, dbVars
  <2>3. ASSUME NEW d \in Chains, UpdateState(d) PROVE persisted[c] <= persisted'[c]
    BY <2>3 DEF UpdateState, At, PersistedInv
  <2>4. ASSUME NEW d \in Chains, NEW part \in Parts(d), NEW next \in PcValues,
               Moves(d) \/ PutHeight(d) \/ SetProcessed(d) \/ Stores(d, part, next)
        PROVE  persisted[c] <= persisted'[c]
    BY <2>4 DEF Moves, PutHeight, SetProcessed, Stores, dbVars
  <2>5. \A d \in Chains : \E part \in Parts(d), next \in PcValues : TRUE
    BY DEF Parts, ShardParts, BeaconParts, PcValues
  <2> QED
    BY <2>1, <2>2, <2>3, <2>4, <2>5, StepKinds
<1> QED
  BY <1>1, SpecIInv, PTL DEF Spec, PersistedNeverDecreases

-----------------------------------------------------------------------------
\* The synchroniser implements CausalLog.

LEMMA InSavedBlocks ==
  ASSUME NEW c \in Chains, NEW h \in Heights
  PROVE  <<c, h>> \in SavedBlocks <=> Saved(c, h)
BY DEF SavedBlocks

LEMMA LogInit == Init => Log!Init
<1> SUFFICES ASSUME Init, NEW b \in SavedBlocks PROVE FALSE
  BY DEF Log!Init
<1>1. b \in Chains \X Heights /\ Saved(b[1], b[2])
  BY DEF SavedBlocks
<1>2. stored[<<b[1], b[2]>>] = {}
  BY <1>1 DEF Init
<1> QED
  BY <1>1, <1>2 DEF Saved, Parts, ShardParts, BeaconParts

\* The step that completes a block finds its predecessor and its references
\* complete, because the goroutine has waited for them.
LEMMA SaveAllowed ==
  ASSUME IInv, NEW c \in Chains, pc[c] \in Writing, up
  PROVE  /\ cur[c] \in Heights
         /\ Log!Available(c, cur[c] - 1)
         /\ \A r \in Refs[<<c, cur[c]>>] : Log!Available(r[1], r[2])
<1>1. PcAt(c) /\ WritingAt(c) /\ cur[c] \in Heights
  BY DEF IInv, PcInv, PcAt, WritingInv
<1>2. ASSUME NEW d \in Chains, NEW h \in Heights, h <= BlockProcessed[d]
      PROVE  Log!Available(d, h)
  BY <1>2, InSavedBlocks DEF IInv, HeightsCoverData, Log!Available
<1>3. Log!Available(c, cur[c] - 1)
  <2>1. CASE cur[c] - 1 <= First
    BY <2>1 DEF Log!Available
  <2>2. CASE ~(cur[c] - 1 <= First)
    <3>1. cur[c] - 1 \in Heights /\ cur[c] - 1 <= BlockProcessed[c]
      BY <1>1, <2>2, BoundsAssumption DEF PcAt, IInv, TypeOK
    <3> QED
      BY <1>2, <3>1
  <2> QED
    BY <2>1, <2>2
<1>4. ASSUME NEW r \in Refs[<<c, cur[c]>>] PROVE Log!Available(r[1], r[2])
  BY <1>1, <1>2, RefsFact DEF WritingAt
<1> QED
  BY <1>1, <1>3, <1>4

LEMMA LogNext == IInv /\ [Next]_vars => [Log!Next]_SavedBlocks
<1> SUFFICES ASSUME IInv, [Next]_vars PROVE [Log!Next]_SavedBlocks
  OBVIOUS
<1>1. TypeOK /\ StoredInv
  BY DEF IInv
<1>2. ASSUME UNCHANGED stored PROVE UNCHANGED SavedBlocks
  BY <1>2 DEF SavedBlocks, Saved
<1>3. CASE Start \/ Crash \/ Quiet
  BY <1>2, <1>3 DEF Start, Crash, Quiet, dbVars
<1>4. ASSUME NEW c \in Chains,
             Moves(c) \/ PutHeight(c) \/ SetProcessed(c) \/ UpdateState(c)
      PROVE  UNCHANGED SavedBlocks
  BY <1>2, <1>4 DEF Moves, PutHeight, SetProcessed, UpdateState, dbVars
<1>5. ASSUME NEW c \in Chains, NEW part \in Parts(c), NEW next \in PcValues,
             Stores(c, part, next)
      PROVE  [Log!Next]_SavedBlocks
  <2>1. up /\ pc[c] \in Writing
    BY <1>5 DEF Stores, Writing
  <2>2. ASSUME NEW b \in Chains \X Heights, b # <<c, cur[c]>>
        PROVE  b \in SavedBlocks' <=> b \in SavedBlocks
    <3>1. stored'[<<b[1], b[2]>>] = stored[<<b[1], b[2]>>]
      BY <1>1, <1>5, <2>2 DEF Stores, Store, TypeOK
    <3> QED
      BY <3>1 DEF SavedBlocks, Saved
  <2>3. ASSUME <<c, cur[c]>> \in SavedBlocks PROVE <<c, cur[c]>> \in SavedBlocks'
    BY <1>1, <1>5, <2>1, <2>3, SaveAllowed, InSavedBlocks, SavedStays
    DEF SavedBlocks
  <2>4. SavedBlocks \subseteq Chains \X Heights /\ SavedBlocks' \subseteq Chains \X Heights
    BY DEF SavedBlocks
  <2>5. SavedBlocks' = SavedBlocks \/ SavedBlocks' = SavedBlocks \union {<<c, cur[c]>>}
    BY <2>2, <2>3, <2>4
  <2>6. cur[c] \in First .. MaxHeight /\ Log!Available(c, cur[c] - 1)
        /\ \A r \in Refs[<<c, cur[c]>>] : Log!Available(r[1], r[2])
    BY <2>1, SaveAllowed
  <2>7. CASE SavedBlocks' = SavedBlocks \union {<<c, cur[c]>>}
    BY <2>6, <2>7 DEF Log!Next, Log!Save
  <2> QED
    BY <2>5, <2>7
<1> QED
  BY <1>1, <1>3, <1>4, <1>5, StepKinds

\* Blocks become complete in causal order, for every number of shards, every
\* pattern of references and any number of ends of the process.
THEOREM SpecKeepsCausalOrder == Spec => KeepsCausalOrder
BY LogInit, LogNext, SpecIInv, PTL DEF Spec, KeepsCausalOrder, Log!Spec

-----------------------------------------------------------------------------
\* The handshake of pauseOperation and resumeOperation with willPauseOperation.

\* A chain whose goroutine is at the arrival of a block or before it.
Parked(c) == chainSyncStatus[c] = "pause" /\ pc[c] \in {"idle", "gate"}

\* While a pause is being obtained, "pause" is only ever the status of a parked
\* chain; a resume ends only when no chain's status is "pause" any more, so that
\* none is then about to leave willPauseOperation behind a stale "pause".
HandshakeAt(c) ==
  /\ handling = "idle" /\ pauseChainSync => Parked(c)
  /\ handling = "idle" /\ ~pauseChainSync => chainSyncStatus[c] = "resume"
  /\ handling = "pause" =>
       pauseChainSync /\ (chainSyncStatus[c] = "pause" => Parked(c))
  /\ handling = "resume" => ~pauseChainSync

HandshakeInv == \A c \in Chains : HandshakeAt(c)

\* A goroutine that is waiting or writing touches no other goroutine's place and
\* nothing of the handshake.
LEMMA BlockFrame ==
  ASSUME TypeOK, NEW c \in Chains, BlockStep(c) \/ (c = Beacon /\ BeaconStep)
  PROVE  /\ pc[c] \notin {"idle", "gate"}
         /\ \A d \in Chains : d # c => pc'[d] = pc[d]
         /\ UNCHANGED pauseVars
<1>1. CASE StopWaiting(c) \/ PutHeight(c) \/ SetProcessed(c) \/ UpdateState(c)
  BY <1>1 DEF StopWaiting, PutHeight, SetProcessed, UpdateState, Goto, At, TypeOK
<1>2. CASE \/ DBSaveTXs(c) \/ DBSaveCoins(c) \/ DBSaveUsedKeyimage(c)
           \/ DBUpdateCoinV1PubkeyInfo(c)
  BY <1>2 DEF DBSaveTXs, DBSaveCoins, DBSaveUsedKeyimage, SaveShardPart,
              DBUpdateCoinV1PubkeyInfo, Goto, At, TypeOK
<1>3. CASE c = Beacon /\ BeaconStep
  BY <1>3 DEF BeaconStep, DBSaveBridgeState, SaveBeaconPart, BeaconPartsSaved,
              Goto, At, TypeOK
<1> QED
  BY <1>1, <1>2, <1>3 DEF BlockStep

LEMMA HandshakeStep ==
  ASSUME TypeOK, PcInv, HandshakeInv, [Next]_vars
  PROVE  HandshakeInv'
<1> SUFFICES ASSUME NEW d \in Chains PROVE HandshakeAt(d)'
  BY DEF HandshakeInv
<1>0. HandshakeAt(d) /\ PcAt(d)
  BY DEF HandshakeInv, PcInv
<1>1. CASE Start
  BY <1>0, <1>1 DEF Start, pauseVars, HandshakeAt, Parked
<1>2. CASE Crash
  BY <1>2 DEF Crash, Fresh, HandshakeAt, Parked
<1>3. CASE TakeOrder
  <2>1. Head(orders) \in {"pause", "resume"}
    BY <1>3 DEF TakeOrder, TypeOK
  <2>2. CASE Head(orders) = "pause"
    <3>1. handling' = "pause" /\ pauseChainSync' = TRUE
      BY <1>3, <2>2, Zenon DEF TakeOrder
    <3> QED
      BY <1>0, <1>3, <3>1 DEF TakeOrder, HandshakeAt, Parked, TypeOK
  <2>3. CASE Head(orders) = "resume"
    <3>1. handling' = "resume"
      BY <1>3, <2>3 DEF TakeOrder
    <3>2. pauseChainSync' = FALSE
      BY <1>3, <2>3 DEF TakeOrder
    <3> QED
      BY <3>1, <3>2 DEF HandshakeAt
  <2> QED
    BY <2>1, <2>2, <2>3
<1>4. CASE OrderDone
  BY <1>0, <1>4 DEF OrderDone, HandshakeAt, Parked, TypeOK
<1>5. ASSUME NEW c \in Chains, Deliver(c) \/ SeeResume(c) PROVE HandshakeAt(d)'
  BY <1>0, <1>5 DEF Deliver, SeeResume, At, Goto, pauseVars, HandshakeAt, Parked, TypeOK
<1>6. ASSUME NEW c \in Chains, Park(c) PROVE HandshakeAt(d)'
  BY <1>0, <1>6 DEF Park, At, HandshakeAt, Parked, TypeOK
<1>7. ASSUME NEW c \in Chains, Pass(c) PROVE HandshakeAt(d)'
  BY <1>0, <1>7 DEF Pass, At, Goto, HandshakeAt, Parked, TypeOK
<1>8. ASSUME NEW c \in Chains, BlockStep(c) \/ (c = Beacon /\ BeaconStep)
      PROVE  HandshakeAt(d)'
  <2>1. /\ pc[c] \notin {"idle", "gate"} /\ UNCHANGED pauseVars
        /\ d # c => pc'[d] = pc[d]
    BY <1>8, BlockFrame
  <2> QED
    BY <1>0, <2>1 DEF pauseVars, HandshakeAt, Parked
<1>9. CASE UNCHANGED vars
  BY <1>0, <1>9 DEF vars, pauseVars, HandshakeAt, Parked
<1>10. ASSUME NEW c \in Chains, ChainStep(c) PROVE HandshakeAt(d)'
  BY <1>5, <1>6, <1>7, <1>8, <1>10 DEF ChainStep
<1> QED
  BY <1>1, <1>2, <1>3, <1>4, <1>9, <1>10 DEF Next, OrderStep

\* Once pauseOperation has reported the pause, no chain writes until an order to
\* resume arrives.
THEOREM SpecNoWriteWhilePaused == Spec => []NoWriteWhilePaused
<1>1. Init => HandshakeInv
  BY DEF Init, HandshakeInv, HandshakeAt, Parked
<1>2. IInv /\ HandshakeInv /\ [Next]_vars => HandshakeInv'
  BY HandshakeStep DEF IInv
<1>3. HandshakeInv => NoWriteWhilePaused
  BY DEF HandshakeInv, HandshakeAt, Parked, NoWriteWhilePaused
<1> QED
  BY <1>1, <1>2, <1>3, SpecIInv, PTL DEF Spec

-----------------------------------------------------------------------------
\* The totals of version-1 keys.

\* The goroutine is behind DBUpdateCoinV1PubkeyInfo in its block.
Counting == {"leveldb", "processed", "persist"}

\* This life of the process has not counted block h of shard d.
Ahead(d, h) == ~up \/ cur[d] < h \/ (cur[d] = h /\ pc[d] \notin Counting)

\* A block that is recorded, or about to be, is counted; and it is counted once in
\* each life that ended, and once in this one if its goroutine has come so far.
CountAt(d, h) ==
  /\ First < h /\ (\/ h <= persisted[d]
                   \/ up /\ h <= BlockProcessed[d]
                   \/ up /\ cur[d] = h /\ pc[d] \in Counting)
       => counted[<<d, h>>] >= 1
  /\ counted[<<d, h>>] <= 1 + crashes
  /\ Ahead(d, h) => counted[<<d, h>>] <= crashes

CountInv == \A b \in HasCoinV1 : CountAt(b[1], b[2])

\* Counting a block.
LEMMA CountOne ==
  ASSUME IInv, NEW d \in Shards, NEW h \in Heights, <<d, h>> \in HasCoinV1, CountAt(d, h),
         DBUpdateCoinV1PubkeyInfo(d)
  PROVE  CountAt(d, h)'
<1>1. /\ up /\ up' /\ pc[d] = "coinv1" /\ pc'[d] = "leveldb"
      /\ UNCHANGED <<cur, BlockProcessed, persisted, crashes>>
  BY DEF DBUpdateCoinV1PubkeyInfo, At, Goto, IInv, TypeOK
<1>2. counted[<<d, h>>] \in Nat /\ crashes \in Nat /\ cur[d] \in Nat
  BY DEF IInv, TypeOK
<1>3. CASE cur[d] = h
  <2>1. counted' = [counted EXCEPT ![<<d, h>>] = @ + 1]
    BY <1>3 DEF DBUpdateCoinV1PubkeyInfo
  <2>2. counted'[<<d, h>>] = counted[<<d, h>>] + 1
    BY <2>1 DEF IInv, TypeOK
  <2>3. Ahead(d, h) /\ ~Ahead(d, h)'
    BY <1>1, <1>2, <1>3 DEF Ahead, Counting
  <2> QED
    BY <1>1, <1>2, <2>2, <2>3 DEF CountAt
<1>4. CASE cur[d] # h
  <2>1. counted'[<<d, h>>] = counted[<<d, h>>]
    <3>1. counted' \in {[counted EXCEPT ![<<d, cur[d]>>] = @ + 1], counted}
      BY Zenon DEF DBUpdateCoinV1PubkeyInfo
    <3>2. <<d, cur[d]>> # <<d, h>>
      BY <1>4
    <3> QED
      BY <3>1, <3>2 DEF IInv, TypeOK
  <2> QED
    BY <1>1, <1>4, <2>1 DEF CountAt, Ahead
<1> QED
  BY <1>3, <1>4

\* The other steps of a goroutine.
LEMMA CountSame ==
  ASSUME IInv, NEW d \in Shards, NEW h \in Heights, CountAt(d, h),
         ChainStep(d), ~DBUpdateCoinV1PubkeyInfo(d)
  PROVE  CountAt(d, h)'
<1>1. TypeOK /\ PcAt(d) /\ d # Beacon
  BY ChainsAssumption DEF IInv, PcInv
<1>2. cur[d] \in Nat /\ h \in Nat /\ BlockProcessed[d] \in Nat
  BY <1>1 DEF TypeOK
<1>3. CASE Deliver(d) \/ Park(d) \/ SeeResume(d) \/ Pass(d) \/ StopWaiting(d)
  <2>1. /\ UNCHANGED <<up, cur, BlockProcessed, persisted, counted, crashes>>
        /\ pc[d] \notin Counting /\ pc'[d] \notin Counting
    BY <1>1, <1>3 DEF Deliver, Park, SeeResume, Pass, StopWaiting, At, Goto, dbVars, TypeOK,
                      Counting
  <2> QED
    BY <2>1 DEF CountAt, Ahead
<1>4. CASE DBSaveTXs(d) \/ DBSaveCoins(d) \/ DBSaveUsedKeyimage(d)
  <2>1. /\ UNCHANGED <<up, cur, BlockProcessed, persisted, counted, crashes>>
        /\ pc[d] \notin Counting /\ pc'[d] \notin Counting
    BY <1>1, <1>4 DEF DBSaveTXs, DBSaveCoins, DBSaveUsedKeyimage, SaveShardPart, At, Goto,
                      TypeOK, Counting
  <2> QED
    BY <2>1 DEF CountAt, Ahead
<1>5. CASE PutHeight(d)
  <2>1. /\ UNCHANGED <<up, cur, BlockProcessed, persisted, counted, crashes>>
        /\ pc[d] \in Counting /\ pc'[d] \in Counting
    BY <1>1, <1>5 DEF PutHeight, At, Goto, TypeOK, Counting
  <2> QED
    BY <2>1 DEF CountAt, Ahead
<1>6. CASE SetProcessed(d)
  <2>1. /\ up /\ UNCHANGED <<up, cur, persisted, counted, crashes>>
        /\ pc[d] \in Counting /\ pc'[d] \in Counting
        /\ BlockProcessed'[d] = cur[d]
    BY <1>1, <1>6 DEF SetProcessed, At, Goto, dbVars, TypeOK, Counting
  <2>2. h <= cur[d] => h = cur[d] \/ h <= BlockProcessed[d]
    BY <1>1, <1>2, <2>1 DEF PcAt
  <2> QED
    BY <2>1, <2>2 DEF CountAt, Ahead
<1>7. CASE UpdateState(d)
  <2>1. /\ up /\ UNCHANGED <<up, BlockProcessed, counted, crashes>>
        /\ pc[d] \in Counting /\ pc'[d] \notin Counting
        /\ cur'[d] = cur[d] + 1 /\ persisted' = BlockProcessed
    BY <1>1, <1>7 DEF UpdateState, At, Goto, TypeOK, Counting
  <2>2. Ahead(d, h)' => Ahead(d, h)
    BY <1>2, <2>1 DEF Ahead
  <2> QED
    BY <1>2, <2>1, <2>2 DEF CountAt
<1> QED
  BY <1>1, <1>3, <1>4, <1>5, <1>6, <1>7 DEF ChainStep, BlockStep

\* The goroutine of another chain counts another block; the heights that it saves
\* are those in memory.
LEMMA CountOther ==
  ASSUME IInv, NEW d \in Shards, NEW h \in Heights, CountAt(d, h),
         NEW c \in Chains, c # d, ChainStep(c)
  PROVE  CountAt(d, h)'
<1>1. TypeOK
  BY DEF IInv
<1>2. /\ UNCHANGED <<up, crashes>> /\ up
      /\ pc'[d] = pc[d] /\ cur'[d] = cur[d] /\ BlockProcessed'[d] = BlockProcessed[d]
  <2>1. CASE Deliver(c) \/ Park(c) \/ SeeResume(c) \/ Pass(c)
    BY <1>1, <2>1 DEF Deliver, Park, SeeResume, Pass, At, Goto, TypeOK
  <2>2. CASE \/ StopWaiting(c) \/ DBSaveTXs(c) \/ DBSaveCoins(c) \/ DBSaveUsedKeyimage(c)
             \/ DBUpdateCoinV1PubkeyInfo(c)
    BY <1>1, <2>2 DEF StopWaiting, DBSaveTXs, DBSaveCoins, DBSaveUsedKeyimage, SaveShardPart,
                      DBUpdateCoinV1PubkeyInfo, At, Goto, TypeOK
  <2>3. CASE PutHeight(c) \/ SetProcessed(c) \/ UpdateState(c)
    BY <1>1, <2>3 DEF PutHeight, SetProcessed, UpdateState, At, Goto, TypeOK
  <2>4. CASE c = Beacon /\ BeaconStep
    BY <1>1, <2>4 DEF BeaconStep, DBSaveBridgeState, SaveBeaconPart, BeaconPartsSaved, At,
                      Goto, TypeOK
  <2> QED
    BY <2>1, <2>2, <2>3, <2>4 DEF ChainStep, BlockStep
<1>3. persisted'[d] = persisted[d] \/ persisted'[d] = BlockProcessed[d]
  <2>1. CASE UpdateState(c)
    BY <2>1 DEF UpdateState
  <2>2. CASE ~UpdateState(c)
    BY <2>2 DEF ChainStep, BlockStep, BeaconStep, Deliver, Park, SeeResume, Pass, StopWaiting,
                DBSaveTXs, DBSaveCoins, DBSaveUsedKeyimage, SaveShardPart,
                DBUpdateCoinV1PubkeyInfo, PutHeight, SetProcessed, DBSaveBridgeState,
                SaveBeaconPart, BeaconPartsSaved, dbVars
  <2> QED
    BY <2>1, <2>2
<1>4. counted'[<<d, h>>] = counted[<<d, h>>]
  <2>1. CASE DBUpdateCoinV1PubkeyInfo(c)
    <3>1. counted' \in {[counted EXCEPT ![<<c, cur[c]>>] = @ + 1], counted}
      BY <2>1, Zenon DEF DBUpdateCoinV1PubkeyInfo
    <3>2. <<c, cur[c]>> # <<d, h>>
      OBVIOUS
    <3> QED
      BY <1>1, <3>1, <3>2 DEF TypeOK
  <2>2. CASE ~DBUpdateCoinV1PubkeyInfo(c)
    BY <2>2 DEF ChainStep, BlockStep, BeaconStep, Deliver, Park, SeeResume, Pass, StopWaiting,
                DBSaveTXs, DBSaveCoins, DBSaveUsedKeyimage, SaveShardPart,
                UpdateState, PutHeight, SetProcessed, DBSaveBridgeState,
                SaveBeaconPart, BeaconPartsSaved, dbVars
  <2> QED
    BY <2>1, <2>2
<1> QED
  BY <1>2, <1>3, <1>4 DEF CountAt, Ahead

LEMMA CountStep == IInv /\ CountInv /\ [Next]_vars => CountInv'
<1> SUFFICES ASSUME IInv, CountInv, [Next]_vars, NEW b \in HasCoinV1
             PROVE  CountAt(b[1], b[2])'
  BY DEF CountInv
<1> DEFINE d == b[1]
           h == b[2]
<1>0. d \in Shards /\ h \in Heights /\ b = <<d, h>> /\ CountAt(d, h)
  BY CoinV1Assumption DEF CountInv
<1> HIDE DEF d, h
<1>1. counted[<<d, h>>] \in Nat /\ crashes \in Nat /\ h \in Nat
  BY <1>0 DEF IInv, TypeOK
<1>2. CASE Start
  <2>1. UNCHANGED <<counted, crashes>> /\ ~up
    BY <1>2 DEF Start
  <2>2. ASSUME First < h, \/ h <= persisted'[d] \/ h <= BlockProcessed'[d]
                          \/ cur'[d] = h /\ pc'[d] \in Counting
        PROVE  h <= persisted[d]
    <3>1. pc'[d] = "idle"
      BY <1>0, <1>2 DEF Start, IInv, PcInv, PcAt
    <3>2. h <= (IF hasState THEN persisted ELSE leveldb)[d]
      BY <1>2, <2>2, <3>1 DEF Start, Counting
    <3>3. hasState
      BY <1>0, <1>1, <2>2, <3>2 DEF IInv, StateInv
    <3> QED
      BY <3>2, <3>3
  <2>3. counted[<<d, h>>] <= crashes
    BY <1>0, <2>1 DEF CountAt, Ahead
  <2> QED
    BY <1>0, <1>1, <2>1, <2>2, <2>3 DEF CountAt
<1>3. CASE Crash
  <2>1. crashes' = crashes + 1 /\ ~up' /\ UNCHANGED <<persisted, counted>>
    BY <1>3 DEF Crash, dbVars
  <2> QED
    BY <1>0, <1>1, <2>1 DEF CountAt, Ahead
<1>4. CASE OrderStep \/ UNCHANGED vars
  <2>1. UNCHANGED <<up, pc, cur, BlockProcessed, dbVars, crashes>>
    BY <1>4 DEF OrderStep, TakeOrder, OrderDone, vars
  <2> QED
    BY <1>0, <2>1 DEF CountAt, Ahead, dbVars
<1>5. ASSUME NEW c \in Chains, ChainStep(c) PROVE CountAt(d, h)'
  <2>1. CASE c = d /\ DBUpdateCoinV1PubkeyInfo(d)
    BY <1>0, <2>1, CountOne
  <2>2. CASE c = d /\ ~DBUpdateCoinV1PubkeyInfo(d)
    BY <1>0, <1>5, <2>2, CountSame
  <2>3. CASE c # d
    BY <1>0, <1>5, <2>3, CountOther
  <2> QED
    BY <2>1, <2>2, <2>3
<1> QED
  BY <1>2, <1>3, <1>4, <1>5 DEF Next, d, h

\* The coins of a processed block are in the totals of their keys, once more at most
\* than the process has ended.
THEOREM SpecCoinV1OncePerLife == Spec => []CoinV1OncePerLife
<1>1. Init => CountInv
  <2> SUFFICES ASSUME Init, NEW b \in HasCoinV1 PROVE CountAt(b[1], b[2])
    BY DEF CountInv
  <2>1. b[1] \in Shards /\ b[2] \in Heights /\ <<b[1], b[2]>> \in Shards \X Heights
    BY CoinV1Assumption
  <2> QED
    BY <2>1, BoundsAssumption DEF Init, CountAt
<1>2. CountInv => CoinV1OncePerLife
  <2> SUFFICES ASSUME CountInv, NEW b \in HasCoinV1
               PROVE  /\ First < b[2] /\ b[2] <= persisted[b[1]] => counted[b] >= 1
                      /\ counted[b] <= 1 + crashes
    BY DEF CoinV1OncePerLife
  <2>1. b = <<b[1], b[2]>>
    BY CoinV1Assumption
  <2> QED
    BY <2>1 DEF CountInv, CountAt
<1> QED
  BY <1>1, <1>2, CountStep, SpecIInv, PTL DEF Spec
=============================================================================
