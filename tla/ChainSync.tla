----------------------------- MODULE ChainSync -----------------------------
(***************************************************************************)
(* The chain synchroniser (chainsynker/shard.go, beacon.go, state.go,      *)
(* coordinator.go, chainsynker.go).  A goroutine per chain receives the    *)
(* blocks of its chain in order, waits until the blocks of other chains it *)
(* depends on have been processed, writes what the block holds to Mongo,   *)
(* and records its height in leveldb, in memory and in Mongo.  The process *)
(* may end between any two of these steps; when it starts again it loads   *)
(* its heights and is delivered the last processed block once more.        *)
(*                                                                         *)
(* The coordinator pauses the goroutines at the arrival of a block.        *)
(***************************************************************************)
EXTENDS Naturals, Sequences, FiniteSets

CONSTANTS
  Shards,      \* the shard chains
  Beacon,      \* the beacon chain, index -1 in the code
  MaxHeight,   \* bound: the last block with content; empty ones follow it
  Refs,        \* Refs[<<c, h>>]: the blocks that block h of chain c refers to
  HasCoinV1,   \* the blocks with coins of version 1
  Orders,      \* bound: the orders the coordinator has for this service
  MaxCrash     \* bound: ends of the process

Chains  == Shards \union {Beacon}
First   == 1     \* ShardProcessedState and ProcessedBeaconBestState start at 1
Heights == First .. MaxHeight

ASSUME ChainsAssumption == Beacon \notin Shards
ASSUME BoundsAssumption ==
  MaxHeight \in Nat /\ MaxHeight >= First /\ MaxCrash \in Nat
ASSUME RefsAssumption ==
  /\ Refs \in [Chains \X Heights -> SUBSET (Shards \X Heights)]
  /\ \A c \in Chains : Refs[<<c, First>>] = {}
ASSUME CoinV1Assumption == HasCoinV1 \subseteq Shards \X Heights
ASSUME OrdersAssumption == Orders \in Seq({"pause", "resume"})

VARIABLES
  up,             \* the process has started: state loaded, chains subscribed
  pc,             \* where each chain's goroutine is
  cur,            \* the height each chain's goroutine is at
  BlockProcessed, \* currentState.BlockProcessed
  hasState,       \* Mongo holds a processor state for "chainsync"
  persisted,      \* the heights it holds
  leveldb,        \* the heights in the node's user database
  stored,         \* the parts of each block that are in Mongo
  counted,        \* how often each block's coins are in the CoinV1 totals
  pauseChainSync, \* the flag the coordinator's orders set
  chainSyncStatus,
  handling,       \* the order processMsgFromCoordinator is busy with
  orders,         \* the orders to come
  crashes

dbVars    == <<hasState, persisted, leveldb, stored, counted>>
pauseVars == <<pauseChainSync, chainSyncStatus, handling, orders>>
vars == <<up, pc, cur, BlockProcessed, dbVars, pauseVars, crashes>>

\* The writes of OnNewShardBlock, in order, and those of processBeacon.
ShardParts  == {"txs", "coins", "keyimages"}
BeaconParts == {"bridge", "pdexstate", "lists"}
Parts(c)    == IF c = Beacon THEN BeaconParts ELSE ShardParts

PcValues == {"idle", "gate", "leaving", "waiting", "txs", "coins", "keyimages", "coinv1",
             "bridge", "parallel", "leveldb", "processed", "persist"}

TypeOK ==
  /\ up \in BOOLEAN
  /\ pc \in [Chains -> PcValues]
  /\ cur \in [Chains -> First .. MaxHeight + 1]
  /\ BlockProcessed \in [Chains -> Heights]
  /\ hasState \in BOOLEAN
  /\ persisted \in [Chains -> Heights]
  /\ leveldb \in [Chains -> Heights]
  /\ stored \in [Chains \X Heights -> SUBSET (ShardParts \union BeaconParts)]
  /\ counted \in [Shards \X Heights -> Nat]
  /\ pauseChainSync \in BOOLEAN
  /\ chainSyncStatus \in [Chains -> {"pause", "resume"}]
  /\ handling \in {"idle", "pause", "resume"}
  /\ orders \in Seq({"pause", "resume"})
  /\ crashes \in 0 .. MaxCrash

Init ==
  /\ up = FALSE
  /\ pc = [c \in Chains |-> "idle"]
  /\ cur = [c \in Chains |-> First]
  /\ BlockProcessed = [c \in Chains |-> First]
  /\ hasState = FALSE
  /\ persisted = [c \in Chains |-> First]
  /\ leveldb = [c \in Chains |-> First]
  /\ stored = [b \in Chains \X Heights |-> {}]
  /\ counted = [b \in Shards \X Heights |-> 0]
  /\ pauseChainSync = TRUE
  /\ chainSyncStatus = [c \in Chains |-> "pause"]
  /\ handling = "idle"
  /\ orders = Orders
  /\ crashes = 0

-----------------------------------------------------------------------------
(* The process: InitChainSynker, and its end. *)

\* Mutant: the state that loadState read is not used.
MutStartForgets ==
  /\ ~up
  /\ up' = TRUE
  /\ BlockProcessed' = [c \in Chains |-> First]
  /\ hasState' = TRUE
  /\ persisted' = [c \in Chains |-> First]
  /\ cur' = [c \in Chains |-> First]
  /\ UNCHANGED <<pc, leveldb, stored, counted, pauseVars, crashes>>

\* loadState, or leveldb when Mongo has no state; updateState; then every
\* chain is subscribed from its last processed height, that block included.
Start ==
  LET loaded == IF hasState THEN persisted ELSE leveldb IN
  /\ ~up
  /\ up' = TRUE
  /\ BlockProcessed' = loaded
  /\ hasState' = TRUE
  /\ persisted' = loaded
  /\ cur' = loaded
  /\ UNCHANGED <<pc, leveldb, stored, counted, pauseVars, crashes>>

\* What the process holds in memory is gone.
Fresh ==
  /\ pc' = [c \in Chains |-> "idle"]
  /\ cur' = [c \in Chains |-> First]
  /\ BlockProcessed' = [c \in Chains |-> First]
  /\ pauseChainSync' = TRUE
  /\ chainSyncStatus' = [c \in Chains |-> "pause"]

\* The process ends: a panic, a kill.  The coordinator will resume the new one
\* first, because a service that connects is taken for paused.
Crash ==
  /\ up
  /\ crashes < MaxCrash
  /\ crashes' = crashes + 1
  /\ up' = FALSE
  /\ Fresh
  /\ handling' = "idle"
  /\ orders' = <<"resume">> \o orders
  /\ UNCHANGED dbVars

-----------------------------------------------------------------------------
(* The goroutine of a chain. *)

Goto(c, at) == pc' = [pc EXCEPT ![c] = at]

At(c, where) == up /\ pc[c] = where

\* The node hands over the block at cur[c].
Deliver(c) ==
  /\ At(c, "idle")
  /\ Goto(c, "gate")
  /\ UNCHANGED <<up, cur, BlockProcessed, dbVars, pauseVars, crashes>>

\* willPauseOperation while pauseChainSync is set
Park(c) ==
  /\ At(c, "gate")
  /\ pauseChainSync
  /\ chainSyncStatus[c] # "pause"
  /\ chainSyncStatus' = [chainSyncStatus EXCEPT ![c] = "pause"]
  /\ UNCHANGED <<up, pc, cur, BlockProcessed, dbVars, pauseChainSync, handling,
                 orders, crashes>>

\* willPauseOperation finds pauseChainSync clear ...
SeeResume(c) ==
  /\ At(c, "gate")
  /\ ~pauseChainSync
  /\ Goto(c, "leaving")
  /\ UNCHANGED <<up, cur, BlockProcessed, dbVars, pauseVars, crashes>>

\* ... and then sets the chain's status and returns.  An empty block has
\* nothing to wait for or to write.
Pass(c) ==
  /\ At(c, "leaving")
  /\ chainSyncStatus' = [chainSyncStatus EXCEPT ![c] = "resume"]
  /\ Goto(c, IF cur[c] \in Heights THEN "waiting" ELSE "idle")
  /\ UNCHANGED <<up, cur, BlockProcessed, dbVars, pauseChainSync, handling,
                 orders, crashes>>

\* Mutants: the comparison of heights is off by one, one way and the other.
MutRefsLoose(c) == \A r \in Refs[<<c, cur[c]>>] : r[2] <= BlockProcessed[r[1]] + 1
MutRefsStrict(c) == \A r \in Refs[<<c, cur[c]>>] : r[2] < BlockProcessed[r[1]]

\* The tests behind reCheckCrossShardHeight and retry, which poll until the
\* processed heights have reached those the block refers to.
RefsProcessed(c) ==
  \A r \in Refs[<<c, cur[c]>>] : r[2] <= BlockProcessed[r[1]]

\* Mutant: only the beacon checks.
MutShardsDoNotWait(c) ==
  /\ At(c, "waiting")
  /\ c = Beacon => RefsProcessed(c)
  /\ Goto(c, IF c = Beacon THEN "bridge" ELSE "txs")
  /\ UNCHANGED <<up, cur, BlockProcessed, dbVars, pauseVars, crashes>>

StopWaiting(c) ==
  /\ At(c, "waiting")
  /\ RefsProcessed(c)
  /\ Goto(c, IF c = Beacon THEN "bridge" ELSE "txs")
  /\ UNCHANGED <<up, cur, BlockProcessed, dbVars, pauseVars, crashes>>

Store(c, part) == stored' = [stored EXCEPT ![<<c, cur[c]>>] = @ \union {part}]

\* DBSaveTXs, DBSaveCoins and DBSaveUsedKeyimage: insertions that a unique
\* index makes idempotent.
SaveShardPart(c, part, next) ==
  /\ c \in Shards
  /\ At(c, part)
  /\ Store(c, part)
  /\ Goto(c, next)
  /\ UNCHANGED <<up, cur, BlockProcessed, hasState, persisted, leveldb, counted,
                 pauseVars, crashes>>

DBSaveTXs(c)          == SaveShardPart(c, "txs", "coins")
DBSaveCoins(c)        == SaveShardPart(c, "coins", "keyimages")

\* Mutant: a block whose key images are there already is taken for counted.
MutKeyimageSkips(c) ==
  SaveShardPart(c, "keyimages",
                IF "keyimages" \in stored[<<c, cur[c]>>] THEN "leveldb" ELSE "coinv1")

DBSaveUsedKeyimage(c) == SaveShardPart(c, "keyimages", "coinv1")

\* DBUpdateCoinV1PubkeyInfo adds the block's coins to the totals of their
\* keys.  coinV1AlreadyWrite, which would take away the coins written before,
\* is always empty.
DBUpdateCoinV1PubkeyInfo(c) ==
  /\ c \in Shards
  /\ At(c, "coinv1")
  /\ counted' = IF <<c, cur[c]>> \in HasCoinV1
                THEN [counted EXCEPT ![<<c, cur[c]>>] = @ + 1] ELSE counted
  /\ Goto(c, "leveldb")
  /\ UNCHANGED <<up, cur, BlockProcessed, hasState, persisted, leveldb, stored,
                 pauseVars, crashes>>

DBSaveBridgeState ==
  /\ At(Beacon, "bridge")
  /\ Store(Beacon, "bridge")
  /\ Goto(Beacon, "parallel")
  /\ UNCHANGED <<up, cur, BlockProcessed, hasState, persisted, leveldb, counted,
                 pauseVars, crashes>>

\* One of the goroutines that processBeacon starts together.
SaveBeaconPart(part) ==
  /\ At(Beacon, "parallel")
  /\ part \in BeaconParts \ stored[<<Beacon, cur[Beacon]>>]
  /\ Store(Beacon, part)
  /\ UNCHANGED <<up, pc, cur, BlockProcessed, hasState, persisted, leveldb,
                 counted, pauseVars, crashes>>

\* Mutant: processBeacon does not wait for its goroutines.
MutBeaconDoesNotWait ==
  /\ At(Beacon, "parallel")
  /\ Goto(Beacon, "leveldb")
  /\ UNCHANGED <<up, cur, BlockProcessed, dbVars, pauseVars, crashes>>

\* wg.Wait
BeaconPartsSaved ==
  /\ At(Beacon, "parallel")
  /\ BeaconParts \subseteq stored[<<Beacon, cur[Beacon]>>]
  /\ Goto(Beacon, "leveldb")
  /\ UNCHANGED <<up, cur, BlockProcessed, dbVars, pauseVars, crashes>>

PutHeight(c) ==
  /\ At(c, "leveldb")
  /\ leveldb' = [leveldb EXCEPT ![c] = cur[c]]
  /\ Goto(c, "processed")
  /\ UNCHANGED <<up, cur, BlockProcessed, hasState, persisted, stored, counted,
                 pauseVars, crashes>>

\* Mutant: the next height is recorded.
MutSetProcessedNext(c) ==
  /\ At(c, "processed")
  /\ BlockProcessed' = [BlockProcessed EXCEPT ![c] = cur[c] + 1]
  /\ Goto(c, "persist")
  /\ UNCHANGED <<up, cur, dbVars, pauseVars, crashes>>

SetProcessed(c) ==
  /\ At(c, "processed")
  /\ BlockProcessed' = [BlockProcessed EXCEPT ![c] = cur[c]]
  /\ Goto(c, "persist")
  /\ UNCHANGED <<up, cur, dbVars, pauseVars, crashes>>

\* updateState marshals and writes under one read lock, so that what it writes
\* is what BlockProcessed holds at that time.
UpdateState(c) ==
  /\ At(c, "persist")
  /\ persisted' = BlockProcessed
  /\ Goto(c, "idle")
  /\ cur' = [cur EXCEPT ![c] = @ + 1]
  /\ UNCHANGED <<up, BlockProcessed, hasState, leveldb, stored, counted,
                 pauseVars, crashes>>

-----------------------------------------------------------------------------
(* processMsgFromCoordinator. *)

\* pauseOperation and resumeOperation set the flag, then wait ...
TakeOrder ==
  /\ up
  /\ handling = "idle"
  /\ orders # <<>>
  /\ handling' = Head(orders)
  /\ orders' = Tail(orders)
  /\ pauseChainSync' = (Head(orders) = "pause")
  /\ UNCHANGED <<up, pc, cur, BlockProcessed, dbVars, chainSyncStatus, crashes>>

\* Mutant: one chain's status is enough.
MutOrderDoneFirst ==
  /\ up
  /\ handling # "idle"
  /\ \E c \in Chains : chainSyncStatus[c] = handling
  /\ handling' = "idle"
  /\ UNCHANGED <<up, pc, cur, BlockProcessed, dbVars, pauseChainSync,
                 chainSyncStatus, orders, crashes>>

\* ... until the status of every chain is the one asked for.
OrderDone ==
  /\ up
  /\ handling # "idle"
  /\ \A c \in Chains : chainSyncStatus[c] = handling
  /\ handling' = "idle"
  /\ UNCHANGED <<up, pc, cur, BlockProcessed, dbVars, pauseChainSync,
                 chainSyncStatus, orders, crashes>>

-----------------------------------------------------------------------------
BlockStep(c) ==
  \/ StopWaiting(c)
  \/ DBSaveTXs(c) \/ DBSaveCoins(c) \/ DBSaveUsedKeyimage(c)
  \/ DBUpdateCoinV1PubkeyInfo(c)
  \/ PutHeight(c) \/ SetProcessed(c) \/ UpdateState(c)

BeaconStep ==
  \/ DBSaveBridgeState
  \/ \E part \in BeaconParts : SaveBeaconPart(part)
  \/ BeaconPartsSaved

ChainStep(c) ==
  \/ Deliver(c) \/ Park(c) \/ SeeResume(c) \/ Pass(c) \/ BlockStep(c)
  \/ (c = Beacon /\ BeaconStep)

OrderStep == TakeOrder \/ OrderDone

Next == Start \/ Crash \/ OrderStep \/ \E c \in Chains : ChainStep(c)

Spec == Init /\ [][Next]_vars

\* The process is started again when it has ended, its goroutines keep running
\* and the chains keep producing blocks.
Fairness ==
  /\ WF_vars(Start)
  /\ WF_vars(OrderStep)
  /\ \A c \in Chains : WF_vars(ChainStep(c))

FairSpec == Spec /\ Fairness

-----------------------------------------------------------------------------
(* Properties. *)

\* The block is completely in Mongo.
Saved(c, h) == stored[<<c, h>>] = Parts(c)

SavedBlocks == {b \in Chains \X Heights : Saved(b[1], b[2])}

Log == INSTANCE CausalLog WITH Last <- MaxHeight, saved <- SavedBlocks

\* The synchroniser implements CausalLog: whatever the interleaving of the
\* chains and wherever the process ends, blocks become complete in the order of
\* their chain and after the blocks they refer to (reCheckCrossShardHeight, the
\* requirement check of processBeacon, updateState).
KeepsCausalOrder == Log!Spec

\* Neither the heights in Mongo nor those in memory are ever ahead of the
\* data: each block after the first, up to the height recorded, is complete
\* (BlockProcessed and updateState come after the writes).
HeightsCoverData ==
  \A c \in Chains :
    /\ \A h \in Heights : First < h /\ h <= persisted[c] => Saved(c, h)
    /\ up => \A h \in Heights :
               First < h /\ h <= BlockProcessed[c] => Saved(c, h)

\* The beacon is never ahead of the shards: the shard blocks that a processed
\* beacon block refers to are processed, in memory and after a restart from
\* what Mongo holds ("this is a requirement check").
BeaconBehindShards ==
  \A h \in Heights : \A r \in Refs[<<Beacon, h>>] :
    /\ h <= persisted[Beacon] => r[2] <= persisted[r[1]]
    /\ up /\ h <= BlockProcessed[Beacon] => r[2] <= BlockProcessed[r[1]]

\* The heights in Mongo never go back, not even when two goroutines save the
\* state at the same time or the process starts again (updateState).
PersistedNeverDecreases ==
  [][\A c \in Chains : persisted[c] <= persisted'[c]]_vars

\* The coins of version 1 of a processed block are in the totals of their keys at
\* least once, and at most once for each life of the process: only a replay after
\* its end counts a block again. (The subtraction of coinV1AlreadyWrite would have
\* made it exactly once, but DBSaveCoins never puts a coin in that list.)
CoinV1OncePerLife ==
  \A b \in HasCoinV1 :
    /\ First < b[2] /\ b[2] <= persisted[b[1]] => counted[b] >= 1
    /\ counted[b] <= 1 + crashes

\* When the coordinator only resumes, every block is processed in the end: no
\* chain waits forever for another, and no end of the process loses a block.
AllProcessed == <>[](\A c \in Chains : persisted[c] = MaxHeight)

\* Once pauseOperation has reported the pause no chain is between the arrival of
\* a block and the end of its writes, until the next order (pauseOperation,
\* willPauseOperation).
NoWriteWhilePaused ==
  up /\ pauseChainSync /\ handling = "idle"
    => \A c \in Chains : pc[c] \in {"idle", "gate"}

\* The service answers an order of the coordinator.
OrdersAnswered == (handling = "pause") ~> (handling = "idle")
=============================================================================
