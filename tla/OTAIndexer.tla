----------------------------- MODULE OTAIndexer -----------------------------
(***************************************************************************)
(* The index master and the index workers (otaindexer/).  Clients submit   *)
(* their one-time-address keys to the master, which gives each key to a    *)
(* worker over a websocket.  A worker reads the coins that belong to       *)
(* nobody yet, claims those of its keys, and writes for each key how far   *)
(* it has looked (LastScanned) and how many coins it has found (Total).    *)
(*                                                                         *)
(* Three processes write the same document of a key, each from a copy      *)
(* that it has read before: the worker, the master when it starts or       *)
(* accepts a key, and a client's request for a rescan.  And the lock       *)
(* Submitted_OTAKey is held across sends on unbuffered channels, across    *)
(* the whole of a pause, and by a request that panics.  Halted lists what  *)
(* comes of that.                                                          *)
(*                                                                         *)
(* One list of coins is modelled, that of PRV on one shard: coin i has the *)
(* index i.  The other lists have a LastScanned and totals of their own.   *)
(* A worker process is a value of Workers: one that has ended comes back   *)
(* as another.  A batch reads the coins of the assigned keys' shard; tests *)
(* by cryptography are the constant Owner.                                 *)
(***************************************************************************)
EXTENDS Naturals, Sequences, FiniteSets

CONSTANTS
  Workers,     \* lives of worker processes
  Keys,
  Owner,       \* the key of each coin, NoKey if it was never submitted
  NoKey,
  Nobody, Gone,  \* a key that was never assigned; whose worker has left
  Limit,       \* coins in a batch, 10000 in the code
  Window,      \* coins that FromNow looks back, 8000 in the code
  Scenarios    \* bound: the processes, keys, coins, requests and faults that one
               \* behaviour may have

Coins == DOMAIN Owner

ASSUME OwnerAssumption ==
  /\ IsFiniteSet(Coins) /\ Coins = 0 .. Cardinality(Coins) - 1
  /\ \A c \in Coins : Owner[c] \in Keys \union {NoKey}
  /\ NoKey \notin Keys /\ Nobody # Gone /\ {Nobody, Gone} \intersect Workers = {}
  /\ IsFiniteSet(Workers) /\ IsFiniteSet(Keys)
ASSUME ScenariosAssumption ==
  /\ Limit \in Nat \ {0} /\ Window \in Nat \ {0}
  /\ Scenarios \subseteq
       [lives : SUBSET Workers, keys : SUBSET Keys, fromNow : SUBSET BOOLEAN, atOnce : Nat,
        stored : 0 .. Cardinality(Coins), coins : 0 .. Cardinality(Coins), lost : Nat,
        crash : Nat, restart : Nat, rescan : Nat, orders : Seq({"pause", "resume"})]
  /\ \A s \in Scenarios : s.orders # <<>> /\ s.orders[Len(s.orders)] = "resume"

VARIABLES
  (* Mongo *)
  count,         \* the coins that the synchroniser has stored
  claimed,       \* those with an otasecret
  submitted,     \* the submitted keys
  info,          \* KeyInfoDataV2 of each key
  (* the master *)
  mpc,
  known,         \* Submitted_OTAKey.Keys,
  keyInfo,       \* the KeyInfo of each,
  AssignedKey,   \* and its worker
  todo,          \* what is left of the range over AssignedKey, or over workers
  isAllKeyAssigned,
  target,        \* the key and the worker of the send in progress
  submit,        \* the goroutine that listens to OTAAssignChn
  rescan,        \* a request of APIRescanOTA
  leaked,        \* a read lock that nobody will release
  pauseService, serviceStatus,
  handling,      \* the order that pauseOperation or resumeOperation waits for
  orders,        \* of the coordinator, to come
  (* connections *)
  workers,       \* those registered at the master
  conn,          \* as the network has it
  net,           \* messages to a worker
  hand,          \* the message that the reader of a lost connection still has
  (* the workers *)
  life,
  willRun,
  assigned,      \* assignedOTAKeys,
  held,          \* and the KeyInfo of each
  scan,          \* the batch in progress, under the lock of assignedOTAKeys
  (* history and bounds *)
  cut,           \* coins below it are not wanted: FromNow
  guessed,       \* keys whose LastScanned comes from ReCheckOTAKey
  hasty,         \* keys that a worker had before the master stored their document
  disturbed,     \* something has failed, or a client asked for a rescan
  budget         \* the faults and requests left

dbVars     == <<count, claimed, submitted, info>>
passVars   == <<mpc, todo, isAllKeyAssigned, target>>
keyVars    == <<known, keyInfo, AssignedKey>>
askVars    == <<submit, rescan, leaked>>
pauseVars  == <<pauseService, serviceStatus, handling, orders>>
linkVars   == <<workers, conn, net, hand>>
workerVars == <<life, willRun, assigned, held, scan>>
histVars   == <<cut, guessed, hasty, disturbed, budget>>
vars == <<dbVars, passVars, keyVars, askVars, pauseVars, linkVars, workerVars, histVars>>

Info    == [has : BOOLEAN, last : Nat, total : Nat]
NoInfo  == [has |-> FALSE, last |-> 0, total |-> 0]
NoMsg   == [cmd |-> "none", key |-> NoKey, info |-> NoInfo]
Message == [cmd : {"index", "reindex", "run", "none"}, key : Keys \union {NoKey}, info : Info]
NoSend  == [key |-> NoKey, to |-> Nobody]
NoAsk   == [step |-> "idle", key |-> NoKey, info |-> NoInfo, to |-> Nobody]
NoScan  == [step |-> "idle", from |-> 0, new |-> 0, found |-> {}, unsaved |-> {}]

\* Before the master listens to the coordinator and to OTAAssignChn.
Starting == {"down", "load", "recheck", "store"}
\* While it holds Submitted_OTAKey.
Passing  == {"assign", "index", "range", "run", "stuck"}

TypeOK ==
  /\ count \in 0 .. Cardinality(Coins) /\ claimed \subseteq 0 .. count - 1
  /\ submitted \subseteq Keys /\ info \in [Keys -> Info]
  /\ mpc \in Starting \union {"gate", "lock"} \union Passing
  /\ known \subseteq submitted /\ keyInfo \in [Keys -> Info]
  /\ AssignedKey \in [Keys -> Workers \union {Nobody, Gone}]
  /\ \A k \in Keys : AssignedKey[k] \in Workers => AssignedKey[k] \in workers
  /\ {isAllKeyAssigned, leaked, pauseService, disturbed} \subseteq BOOLEAN
  /\ serviceStatus \in {"pause", "resume"} /\ handling \in {"idle", "pause", "resume"}
  /\ life \in [Workers -> {"new", "up", "ended"}]
  /\ conn \in [Workers -> {"off", "on", "lost"}]
  /\ \A w \in Workers :
       /\ conn[w] = "on" => w \in workers /\ life[w] = "up"
       /\ net[w] \in Seq(Message) /\ (net[w] # <<>> => conn[w] = "on")
       /\ hand[w] \in Message
       /\ assigned[w] \subseteq Keys /\ held[w] \in [Keys -> Info]
       /\ scan[w].unsaved \subseteq assigned[w] /\ scan[w].found \subseteq Coins
  /\ guessed \subseteq Keys /\ hasty \subseteq Keys /\ cut \in [Keys -> Nat]

Init ==
  /\ budget \in Scenarios /\ count = budget.stored /\ orders = budget.orders
  /\ claimed = {} /\ submitted = {} /\ info = [k \in Keys |-> NoInfo]
  /\ mpc = "down" /\ todo = {} /\ isAllKeyAssigned = TRUE /\ target = NoSend
  /\ known = {} /\ keyInfo = info /\ AssignedKey = [k \in Keys |-> Nobody]
  /\ submit = NoAsk /\ rescan = NoAsk /\ leaked = FALSE
  /\ pauseService = TRUE /\ serviceStatus = "pause" /\ handling = "idle"
  /\ workers = {} /\ conn = [w \in Workers |-> "off"]
  /\ net = [w \in Workers |-> <<>>] /\ hand = [w \in Workers |-> NoMsg]
  /\ life = [w \in Workers |-> "new"] /\ willRun = [w \in Workers |-> FALSE]
  /\ assigned = [w \in Workers |-> {}] /\ held = [w \in Workers |-> info]
  /\ scan = [w \in Workers |-> NoScan]
  /\ cut = [k \in Keys |-> 0] /\ guessed = {} /\ hasty = {} /\ disturbed = FALSE

\* The locks of the master: pauseOperation and resumeOperation hold both for as
\* long as they wait, a request for a rescan holds the first for a send.
CanRead  == mpc \notin Passing /\ handling = "idle"
CanWrite == CanRead /\ ~leaked /\ rescan.step \notin {"send", "stuck"}
Serving  == mpc # "down" /\ handling = "idle"    \* workerLock

Mine(k)   == {c \in claimed : Owner[c] = k}
First(S)  == CHOOSE i \in S : \A j \in S : i <= j
Last(S)   == CHOOSE i \in S : \A j \in S : j <= i
Spend(what) == budget[what] > 0 /\ budget' = [budget EXCEPT ![what] = @ - 1]

-----------------------------------------------------------------------------
(* The synchroniser. *)

StoreCoin ==
  /\ count < budget.coins
  /\ count' = count + 1
  /\ UNCHANGED <<claimed, submitted, info, passVars, keyVars, askVars, pauseVars,
                 linkVars, workerVars, histVars>>

-----------------------------------------------------------------------------
(* The master: start. *)

\* loadSubmittedOTAKey, addKeys: the documents of all keys are read,
Load ==
  /\ mpc = "down"
  /\ mpc' = "load"
  /\ known' = submitted
  /\ keyInfo' = info
  /\ AssignedKey' = [k \in Keys |-> Nobody]
  /\ UNCHANGED <<dbVars, todo, isAllKeyAssigned, target, askVars, pauseVars, linkVars,
                 workerVars, histVars>>

\* and written back.
StoreLoaded ==
  /\ mpc = "load"
  /\ mpc' = "recheck"
  /\ info' = [k \in Keys |-> IF k \in known THEN keyInfo[k] ELSE info[k]]
  /\ UNCHANGED <<count, claimed, submitted, todo, isAllKeyAssigned, target, keyVars,
                 askVars, pauseVars, linkVars, workerVars, histVars>>

\* Mutant: what is counted again is added to what there is.
MutRecount(k) ==
  IF Mine(k) = {} THEN info[k]
  ELSE [has   |-> TRUE,
        last  |-> IF info[k].has THEN info[k].last ELSE First(Mine(k)),
        total |-> info[k].total + Cardinality(Mine(k))]

\* The loops of ReCheckOTAKey: the claimed coins of the key are counted again. A
\* token without an entry gets one whose LastScanned is its first coin.
Recount(k) ==
  IF Mine(k) = {} THEN info[k]
  ELSE [has   |-> TRUE,
        last  |-> IF info[k].has THEN info[k].last ELSE First(Mine(k)),
        total |-> Cardinality(Mine(k))]

\* ReCheckOTAKey for all keys: read and counted,
Recheck ==
  /\ mpc = "recheck"
  /\ mpc' = "store"
  /\ keyInfo' = [k \in Keys |-> IF k \in known THEN Recount(k) ELSE keyInfo[k]]
  /\ guessed' = guessed \union {k \in known : ~info[k].has /\ Mine(k) # {}}
  /\ UNCHANGED <<dbVars, todo, isAllKeyAssigned, target, known, AssignedKey, askVars,
                 pauseVars, linkVars, workerVars, cut, hasty, disturbed, budget>>

\* and stored; then the master connects to the coordinator, as paused.
StoreRechecked ==
  /\ mpc = "store"
  /\ mpc' = "gate"
  /\ info' = [k \in Keys |-> IF k \in known THEN keyInfo[k] ELSE info[k]]
  /\ UNCHANGED <<count, claimed, submitted, todo, isAllKeyAssigned, target, keyVars,
                 askVars, pauseVars, linkVars, workerVars, histVars>>

-----------------------------------------------------------------------------
(* The master: orders of the coordinator. *)

\* pauseOperation, resumeOperation: take both locks and set the flag,
TakeOrder ==
  /\ mpc \notin Starting
  /\ CanWrite
  /\ orders # <<>>
  /\ handling' = Head(orders)
  /\ orders' = Tail(orders)
  /\ pauseService' = (Head(orders) = "pause")
  /\ UNCHANGED <<dbVars, passVars, keyVars, askVars, serviceStatus, linkVars, workerVars,
                 histVars>>

\* Mutant: the answer does not wait for the loop.
MutOrderDone ==
  /\ handling # "idle"
  /\ handling' = "idle"
  /\ UNCHANGED <<dbVars, passVars, keyVars, askVars, pauseService, serviceStatus, orders,
                 linkVars, workerVars, histVars>>

\* and wait for the loop with both.
OrderDone ==
  /\ handling # "idle"
  /\ serviceStatus = handling
  /\ handling' = "idle"
  /\ UNCHANGED <<dbVars, passVars, keyVars, askVars, pauseService, serviceStatus, orders,
                 linkVars, workerVars, histVars>>

\* RUN is on its way to w, or has arrived: another changes nothing.
Running(w) == willRun[w] \/ \E i \in DOMAIN net[w] : net[w][i].cmd = "run"

\* A pass would send something, or might wait for a handler that ends.
PassMatters ==
  \/ \E k \in known : AssignedKey[k] \in {Nobody, Gone}
  \/ \E w \in workers : conn[w] # "on" \/ ~Running(w)

\* willPauseOperation of the main loop; a pass that would change nothing is left
\* out.
Gate ==
  /\ mpc = "gate"
  /\ serviceStatus' = IF pauseService THEN "pause" ELSE "resume"
  /\ mpc' = IF pauseService THEN "gate" ELSE "lock"
  /\ serviceStatus' # serviceStatus \/ (~pauseService /\ PassMatters)
  /\ UNCHANGED <<dbVars, todo, isAllKeyAssigned, target, keyVars, askVars, pauseService,
                 handling, orders, linkVars, workerVars, histVars>>

-----------------------------------------------------------------------------
(* The master: one pass of StartWorkerAssigner. *)

Lock ==
  /\ mpc = "lock"
  /\ CanWrite
  /\ mpc' = "assign"
  /\ todo' = known
  /\ isAllKeyAssigned' = TRUE
  /\ UNCHANGED <<dbVars, target, keyVars, askVars, pauseVars, linkVars, workerVars, histVars>>

\* Mutant: a key whose worker has left is not given to another.
MutUnassigned == {k \in todo : AssignedKey[k] = Nobody}

\* The keys still to come in the range that have no worker.
Unassigned == {k \in todo : AssignedKey[k] \in {Nobody, Gone}}

\* What the pass does with a key before it looks for a worker: a key that was
\* never assigned holds back RUN, one whose worker has left is read again.
Consider(k) ==
  /\ isAllKeyAssigned' = (isAllKeyAssigned /\ AssignedKey[k] = Gone)
  /\ keyInfo' = IF AssignedKey[k] = Gone THEN [keyInfo EXCEPT ![k] = info[k]] ELSE keyInfo

\* chooseWorker, whose search for the least occupied one depends on the order of
\* a map: it may be any.
Assign(k, w) ==
  /\ mpc = "assign"
  /\ k \in Unassigned
  /\ w \in workers
  /\ Consider(k)
  /\ AssignedKey' = [AssignedKey EXCEPT ![k] = w]
  /\ target' = [key |-> k, to |-> w]
  /\ todo' = todo \ {k}
  /\ mpc' = "index"
  /\ UNCHANGED <<dbVars, known, askVars, pauseVars, linkVars, workerVars, histVars>>

\* No worker: break.
NoWorker(k) ==
  /\ mpc = "assign"
  /\ k \in Unassigned
  /\ workers = {}
  /\ Consider(k)
  /\ todo' = {}
  /\ UNCHANGED <<dbVars, mpc, target, known, AssignedKey, askVars, pauseVars, linkVars,
                 workerVars, histVars>>

EndAssign ==
  /\ mpc = "assign"
  /\ Unassigned = {}
  /\ mpc' = IF isAllKeyAssigned THEN "range" ELSE "gate"
  /\ todo' = workers
  /\ UNCHANGED <<dbVars, isAllKeyAssigned, target, keyVars, askVars, pauseVars, linkVars,
                 workerVars, histVars>>

\* A message for w, which the handler takes from writeCh; it is lost if the
\* connection is.
Sent(w, msg) ==
  net' = IF conn[w] # "on" \/ (msg.cmd = "run" /\ Running(w)) THEN net
         ELSE [net EXCEPT ![w] = Append(@, msg)]

SendIndex ==
  /\ mpc = "index"
  /\ Sent(target.to, [cmd |-> "index", key |-> target.key, info |-> keyInfo[target.key]])
  /\ mpc' = "assign"
  /\ target' = NoSend
  /\ UNCHANGED <<dbVars, todo, isAllKeyAssigned, keyVars, askVars, pauseVars, workers,
                 conn, hand, workerVars, histVars>>

\* The range over workers; those removed meanwhile are not met.
NextRun ==
  /\ mpc = "range"
  /\ IF todo \intersect workers = {}
     THEN mpc' = "gate" /\ todo' = {} /\ UNCHANGED target
     ELSE \E w \in todo \intersect workers :
            /\ mpc' = "run"
            /\ todo' = todo \ {w}
            /\ target' = [key |-> NoKey, to |-> w]
  /\ UNCHANGED <<dbVars, isAllKeyAssigned, keyVars, askVars, pauseVars, linkVars,
                 workerVars, histVars>>

SendRun ==
  /\ mpc = "run"
  /\ Sent(target.to, [cmd |-> "run", key |-> NoKey, info |-> NoInfo])
  /\ mpc' = "range"
  /\ target' = NoSend
  /\ UNCHANGED <<dbVars, todo, isAllKeyAssigned, keyVars, askVars, pauseVars, workers,
                 conn, hand, workerVars, histVars>>

-----------------------------------------------------------------------------
(* Requests of clients. *)

\* A key is submitted: it is inserted, and its document is read. FromNow looks
\* back Window coins from the number that there are.
Submit(k, fromNow) ==
  LET past == IF count < Window THEN 0 ELSE count - Window
  IN /\ mpc \notin Starting
     /\ submit.step = "idle"
     /\ CanRead
     /\ k \in budget.keys \ known
     /\ fromNow \in budget.fromNow
     /\ submitted' = submitted \union {k}
     /\ submit' = [NoAsk EXCEPT !.step = "add", !.key = k,
                     !.info = IF fromNow THEN [has |-> TRUE, last |-> past, total |-> 0]
                              ELSE info[k]]
     /\ cut' = [cut EXCEPT ![k] = IF fromNow /\ past > 0 THEN past + 1 ELSE 0]
     /\ UNCHANGED <<count, claimed, info, passVars, keyVars, rescan, leaked, pauseVars,
                    linkVars, workerVars, guessed, hasty, disturbed, budget>>

\* addKeys: it enters the maps under the lock,
AddKey ==
  /\ submit.step = "add"
  /\ CanWrite
  /\ known' = known \union {submit.key}
  /\ keyInfo' = [keyInfo EXCEPT ![submit.key] = submit.info]
  /\ AssignedKey' = [AssignedKey EXCEPT ![submit.key] = Nobody]
  /\ submit' = [submit EXCEPT !.step = "store"]
  /\ UNCHANGED <<dbVars, passVars, rescan, leaked, pauseVars, linkVars, workerVars, histVars>>

\* and is stored after the lock has been released.
StoreKey ==
  /\ submit.step = "store"
  /\ info' = [info EXCEPT ![submit.key] = submit.info]
  /\ submit' = NoAsk
  /\ UNCHANGED <<count, claimed, submitted, passVars, keyVars, rescan, leaked, pauseVars,
                 linkVars, workerVars, histVars>>

\* APIRescanOTA, ReCheckOTAKey with reIndex: count again, and look from the first
\* coin,
Rescan(k) ==
  /\ mpc # "down"
  /\ rescan.step = "idle"
  /\ CanRead
  /\ k \in known
  /\ Spend("rescan")
  /\ disturbed' = TRUE
  /\ rescan' = [NoAsk EXCEPT !.step = "set", !.key = k,
                  !.info = [Recount(k) EXCEPT !.has = TRUE, !.last = 0]]
  /\ UNCHANGED <<dbVars, passVars, keyVars, submit, leaked, pauseVars, linkVars, workerVars,
                 cut, guessed, hasty>>

\* under the lock,
SetRescanned ==
  /\ rescan.step = "set"
  /\ CanWrite
  /\ keyInfo' = [keyInfo EXCEPT ![rescan.key] = rescan.info]
  /\ rescan' = [rescan EXCEPT !.step = "store"]
  /\ UNCHANGED <<dbVars, passVars, known, AssignedKey, submit, leaked, pauseVars, linkVars,
                 workerVars, histVars>>

\* in Mongo,
StoreRescanned ==
  /\ rescan.step = "store"
  /\ info' = [info EXCEPT ![rescan.key] = rescan.info]
  /\ rescan' = [rescan EXCEPT !.step = "tell"]
  /\ UNCHANGED <<count, claimed, submitted, passVars, keyVars, submit, leaked, pauseVars,
                 linkVars, workerVars, histVars>>

\* and at the worker, under the read lock. A key that no worker has yet makes the
\* handler panic: gin recovers, and the lock stays taken.
TellWorker ==
  LET w == AssignedKey[rescan.key]
  IN /\ rescan.step = "tell"
     /\ CanRead
     /\ leaked' = (leaked \/ w = Nobody)
     /\ rescan' = IF w \in {Nobody, Gone} THEN NoAsk ELSE [rescan EXCEPT !.step = "send", !.to = w]
     /\ UNCHANGED <<dbVars, passVars, keyVars, submit, pauseVars, linkVars, workerVars, histVars>>

SendReindex ==
  /\ rescan.step = "send"
  /\ Sent(rescan.to, [cmd |-> "reindex", key |-> rescan.key, info |-> keyInfo[rescan.key]])
  /\ rescan' = NoAsk
  /\ UNCHANGED <<dbVars, passVars, keyVars, submit, leaked, pauseVars, workers, conn, hand,
                 workerVars, histVars>>

-----------------------------------------------------------------------------
(* Connections. *)

\* WorkerRegisterHandler, registerWorker; while an older connection of the same id
\* is registered it is refused, and the worker tries again.
Register(w) ==
  /\ Serving
  /\ life[w] = "up"
  /\ conn[w] = "off"
  /\ w \notin workers
  /\ workers' = workers \union {w}
  /\ conn' = [conn EXCEPT ![w] = "on"]
  /\ UNCHANGED <<dbVars, passVars, keyVars, askVars, pauseVars, net, hand, workerVars, histVars>>

\* The connections of the workers in W fail. The reader of a worker may have a
\* message in its hand, for which readCh has no room.
Cut(W) ==
  /\ conn' = [w \in Workers |-> IF w \in W /\ conn[w] = "on" THEN "lost" ELSE conn[w]]
  /\ net' = [w \in Workers |-> IF w \in W THEN <<>> ELSE net[w]]
  /\ \E kept \in SUBSET {w \in W : net[w] # <<>> /\ hand[w] = NoMsg} :
       hand' = [w \in Workers |-> IF w \in kept THEN Head(net[w]) ELSE hand[w]]

LoseLink(w) ==
  /\ conn[w] = "on"
  /\ Cut({w})
  /\ Spend("lost")
  /\ disturbed' = TRUE
  /\ UNCHANGED <<dbVars, passVars, keyVars, askVars, pauseVars, workers, workerVars,
                 cut, guessed, hasty>>

\* Mutant: Heartbeat is not reset, and the keys stay with the old worker.
MutHandlerEnds(w) ==
  /\ Serving
  /\ w \in workers /\ conn[w] # "on"
  /\ workers' = workers \ {w}
  /\ mpc' = IF target.to = w THEN "stuck" ELSE mpc
  /\ UNCHANGED <<dbVars, todo, isAllKeyAssigned, target, keyVars, askVars, pauseVars, conn,
                 net, hand, workerVars, histVars>>

\* The handler of a connection sees that it is lost: Heartbeat becomes 0, and
\* removeWorker. Nobody reads its writeCh any more: who sends on it waits for ever.
HandlerEnds(w) ==
  /\ Serving
  /\ w \in workers /\ conn[w] # "on"
  /\ workers' = workers \ {w}
  /\ AssignedKey' = [k \in Keys |-> IF AssignedKey[k] = w THEN Gone ELSE AssignedKey[k]]
  /\ mpc' = IF target.to = w THEN "stuck" ELSE mpc
  /\ rescan' = IF rescan.to = w THEN [rescan EXCEPT !.step = "stuck"] ELSE rescan
  /\ UNCHANGED <<dbVars, todo, isAllKeyAssigned, target, known, keyInfo, submit, leaked,
                 pauseVars, conn, net, hand, workerVars, histVars>>

-----------------------------------------------------------------------------
(* A worker. *)

\* StartOTAIndexing
StartWorker(w) ==
  /\ life[w] = "new"
  /\ w \in budget.lives
  /\ Cardinality({v \in Workers : life[v] = "up"}) < budget.atOnce
  /\ life' = [life EXCEPT ![w] = "up"]
  /\ UNCHANGED <<dbVars, passVars, keyVars, askVars, pauseVars, linkVars, willRun, assigned,
                 held, scan, histVars>>

\* connectMasterIndexer has seen that the connection is lost: cleanAssignedOTA, as
\* soon as no scan has the lock, and another try. (When its write fails before its
\* reader's read, both close done: the panic is one of the ends of CrashWorker.)
SeeLoss(w) ==
  /\ life[w] = "up"
  /\ conn[w] = "lost"
  /\ scan[w] = NoScan
  /\ conn' = [conn EXCEPT ![w] = "off"]
  /\ assigned' = [assigned EXCEPT ![w] = {}]
  /\ UNCHANGED <<dbVars, passVars, keyVars, askVars, pauseVars, workers, net, hand, life,
                 willRun, held, scan, histVars>>

\* processMsgFromMaster: a key that is assigned already keeps its KeyInfo, a rescan
\* replaces it.
Handle(w, msg) ==
  LET k == msg.key
  IN /\ willRun' = [willRun EXCEPT ![w] = @ \/ msg.cmd = "run"]
     /\ assigned' = [assigned EXCEPT ![w] = IF msg.cmd = "index" THEN @ \union {k} ELSE @]
     /\ held' = IF \/ msg.cmd = "index" /\ k \notin assigned[w]
                   \/ msg.cmd = "reindex" /\ k \in assigned[w]
                THEN [held EXCEPT ![w][k] = msg.info] ELSE held
     /\ hasty' = IF submit.step = "store" /\ msg.key = submit.key THEN hasty \union {k} ELSE hasty

\* The message at the head of the connection, or the one in the hand of the reader
\* of the last.
Process(w) ==
  /\ life[w] = "up"
  /\ scan[w] = NoScan
  /\ \/ /\ net[w] # <<>>
        /\ Handle(w, Head(net[w]))
        /\ net' = [net EXCEPT ![w] = Tail(@)]
        /\ UNCHANGED hand
     \/ /\ hand[w] # NoMsg
        /\ Handle(w, hand[w])
        /\ hand' = [hand EXCEPT ![w] = NoMsg]
        /\ UNCHANGED net
  /\ UNCHANGED <<dbVars, passVars, keyVars, askVars, pauseVars, workers, conn, life, scan,
                 cut, guessed, disturbed, budget>>

\* GetOTAKeyListMinScannedCoinIndex
MinScanned(w) == First({IF held[w][k].has THEN held[w][k].last ELSE 0 : k \in assigned[w]})

\* GetUnknownCoinsFromDB: the first coins that nobody has claimed; 0 is also the
\* index to start from when nothing has been looked at.
Unknown(from) ==
  LET all == {c \in 0 .. count - 1 : c \notin claimed /\ (from = 0 \/ c > from)}
  IN {c \in all : Cardinality({d \in all : d <= c}) <= Limit}

\* filterCoinsByOTAKey: a key passes over the coins below its LastScanned.
Filtered(w, coins) ==
  {c \in coins : /\ Owner[c] \in assigned[w]
                 /\ ~(held[w][Owner[c]].has /\ c < held[w][Owner[c]].last)}

\* Mutant: one is added for a batch, not for a coin.
MutScanBatch(w, from) ==
  LET coins == Unknown(from)
      found == Filtered(w, coins)
      new   == Last(coins)
  IN /\ held' = [held EXCEPT ![w] = [k \in Keys |->
                   IF k \notin assigned[w] THEN @[k]
                   ELSE [has   |-> TRUE,
                         last  |-> IF @[k].last < new THEN new ELSE @[k].last,
                         total |-> IF \E c \in found : Owner[c] = k THEN @[k].total + 1
                                   ELSE @[k].total]]]
     /\ scan' = [scan EXCEPT ![w] = [step |-> "write", from |-> from, new |-> new,
                                     found |-> found, unsaved |-> assigned[w]]]

\* One turn of the loop of scanOTACoins and the first part of updateCoinState: the
\* copies of the keys that the worker holds.
ScanBatch(w, from) ==
  LET coins == Unknown(from)
      found == Filtered(w, coins)
      new   == Last(coins)
  IN /\ held' = [held EXCEPT ![w] = [k \in Keys |->
                   IF k \notin assigned[w] THEN @[k]
                   ELSE [has   |-> TRUE,
                         last  |-> IF @[k].last < new THEN new ELSE @[k].last,
                         total |-> @[k].total + Cardinality({c \in found : Owner[c] = k})]]]
     /\ scan' = [scan EXCEPT ![w] = [step |-> "write", from |-> from, new |-> new,
                                     found |-> found, unsaved |-> assigned[w]]]

\* A round of StartOTAIndexing that does not leave everything as it is.
Scan(w) ==
  /\ life[w] = "up"
  /\ willRun[w]
  /\ scan[w] = NoScan
  /\ assigned[w] # {}
  /\ \E c \in Unknown(MinScanned(w)) : c > MinScanned(w) \/ c \in Filtered(w, {c})
  /\ ScanBatch(w, MinScanned(w))
  /\ UNCHANGED <<dbVars, passVars, keyVars, askVars, pauseVars, linkVars, life, willRun,
                 assigned, histVars>>

\* DBUpdateCoins, in the order in which goroutines have found them,
Claim(w) ==
  /\ scan[w].step = "write"
  /\ \E c \in scan[w].found :
       /\ claimed' = claimed \union {c}
       /\ scan' = [scan EXCEPT ![w].found = @ \ {c}]
  /\ UNCHANGED <<count, submitted, info, passVars, keyVars, askVars, pauseVars, linkVars,
                 life, willRun, assigned, held, histVars>>

\* Mutant: it does not wait for the coins.
MutSave(w) ==
  /\ scan[w].step = "write"
  /\ \E k \in scan[w].unsaved :
       /\ info' = [info EXCEPT ![k] = held[w][k]]
       /\ scan' = [scan EXCEPT ![w].unsaved = @ \ {k}]
  /\ UNCHANGED <<count, claimed, submitted, passVars, keyVars, askVars, pauseVars, linkVars,
                 life, willRun, assigned, held, histVars>>

\* then updateSubmittedOTAKey, for every key that it has.
Save(w) ==
  /\ scan[w].step = "write"
  /\ scan[w].found = {}
  /\ \E k \in scan[w].unsaved :
       /\ info' = [info EXCEPT ![k] = held[w][k]]
       /\ scan' = [scan EXCEPT ![w].unsaved = @ \ {k}]
  /\ UNCHANGED <<count, claimed, submitted, passVars, keyVars, askVars, pauseVars, linkVars,
                 life, willRun, assigned, held, histVars>>

\* The loop of scanOTACoins goes on unless it stands still or has read everything.
EndBatch(w) ==
  /\ scan[w].step = "write"
  /\ scan[w].found = {} /\ scan[w].unsaved = {}
  /\ IF scan[w].new # scan[w].from /\ Unknown(scan[w].new) # {}
     THEN ScanBatch(w, scan[w].new)
     ELSE scan' = [scan EXCEPT ![w] = NoScan] /\ UNCHANGED held
  /\ UNCHANGED <<dbVars, passVars, keyVars, askVars, pauseVars, linkVars, life, willRun,
                 assigned, histVars>>

-----------------------------------------------------------------------------
(* Ends of processes. *)

\* A failed read or write panics, and so does scanTxsSwap whenever there is a trade
\* that nobody has claimed; or a kill.
CrashWorker(w) ==
  /\ life[w] = "up"
  /\ Spend("crash")
  /\ disturbed' = TRUE
  /\ life' = [life EXCEPT ![w] = "ended"]
  /\ conn' = [conn EXCEPT ![w] = "off"]
  /\ net' = [net EXCEPT ![w] = <<>>]
  /\ hand' = [hand EXCEPT ![w] = NoMsg]
  /\ assigned' = [assigned EXCEPT ![w] = {}]
  /\ scan' = [scan EXCEPT ![w] = NoScan]
  /\ UNCHANGED <<dbVars, passVars, keyVars, askVars, pauseVars, workers, willRun, held,
                 cut, guessed, hasty>>

\* The master ends, and with it all connections. Its coordinator will resume it.
CrashMaster ==
  /\ mpc # "down"
  /\ Spend("restart")
  /\ disturbed' = TRUE
  /\ mpc' = "down" /\ todo' = {} /\ isAllKeyAssigned' = TRUE /\ target' = NoSend
  /\ known' = {} /\ workers' = {}
  /\ AssignedKey' = [k \in Keys |-> Nobody]
  /\ submit' = NoAsk /\ rescan' = NoAsk /\ leaked' = FALSE
  /\ pauseService' = TRUE /\ serviceStatus' = "pause" /\ handling' = "idle"
  /\ orders' = IF orders = <<>> THEN <<"resume">> ELSE orders
  /\ Cut(Workers)
  /\ UNCHANGED <<dbVars, keyInfo, workerVars, cut, guessed, hasty>>

-----------------------------------------------------------------------------
Start     == Load \/ StoreLoaded \/ Recheck \/ StoreRechecked
Pass      == \/ Gate \/ Lock \/ EndAssign \/ SendIndex \/ NextRun \/ SendRun
             \/ \E k \in Keys : NoWorker(k) \/ \E w \in Workers : Assign(k, w)
Requests  == \E k \in Keys : Rescan(k) \/ \E fromNow \in BOOLEAN : Submit(k, fromNow)
Adding    == AddKey \/ StoreKey
Rescanning == SetRescanned \/ StoreRescanned \/ TellWorker \/ SendReindex
Order     == TakeOrder \/ OrderDone
Scanning(w) == Scan(w) \/ Claim(w) \/ Save(w) \/ EndBatch(w)
Faults    == CrashMaster \/ \E w \in Workers : LoseLink(w) \/ CrashWorker(w)

Next ==
  \/ StoreCoin \/ Requests \/ Faults
  \/ Start \/ Pass \/ Adding \/ Rescanning \/ Order
  \/ \E w \in Workers :
       \/ Register(w) \/ HandlerEnds(w)
       \/ StartWorker(w) \/ SeeLoss(w) \/ Process(w) \/ Scanning(w)

Spec == Init /\ [][Next]_vars

\* Processes keep running and are started again, and a lost connection is noticed.
Fairness ==
  /\ WF_vars(Start) /\ WF_vars(Pass) /\ WF_vars(Order)
  /\ WF_vars(Adding) /\ WF_vars(Rescanning)
  /\ \A w \in Workers :
       /\ WF_vars(Register(w)) /\ WF_vars(HandlerEnds(w))
       /\ WF_vars(StartWorker(w)) /\ WF_vars(SeeLoss(w))
       /\ WF_vars(Process(w)) /\ WF_vars(Scanning(w))

FairSpec == Spec /\ Fairness

-----------------------------------------------------------------------------
(* Properties. *)

\* LastScanned never passes a coin that its key still has to claim, in Mongo or in
\* the copy of a worker between two scans: the coins are written before the
\* documents of the keys (updateCoinState), so that no end of a process, no second
\* owner of the key and no late write loses a coin. Except for a LastScanned that
\* ReCheckOTAKey has made up from a first batch that was cut off.
ScannedIsClaimed ==
  \A c \in (0 .. count - 1) \ claimed : \A k \in {Owner[c]} \ (guessed \union {NoKey}) :
    c >= cut[k] =>
      /\ info[k].last = 0 \/ info[k].last < c
      /\ \A w \in Workers :
           k \in assigned[w] /\ scan[w] = NoScan => held[w][k].last = 0 \/ held[w][k].last < c

\* A coin is counted once: whatever was restarted, assigned twice or counted again,
\* the total of a key is at most the number of its coins.
CountIsBacked == \A k \in Keys : info[k].total <= Cardinality(Mine(k))

\* Without a fault or a rescan the total is exact between two scans, unless the key
\* reached its worker before the master stored its document (addKeys stores it after
\* it has released the lock).
CountIsExact ==
  ~disturbed => \A k \in Keys \ hasty :
    (\A w \in Workers : k \in assigned[w] => scan[w] = NoScan)
      => info[k].total = Cardinality(Mine(k))

\* After a reported pause no key is assigned until the next order (pauseOperation,
\* willPauseOperation).
NoPassWhilePaused ==
  pauseService /\ handling = "idle" => mpc \notin {"lock"} \union Passing

\* What stops the assignment of keys until the master is restarted: a send to a
\* worker whose handler has ended, under the lock; the read lock of a rescan that
\* panicked; a pause that took the locks after the main loop had passed
\* willPauseOperation.
Halted ==
  \/ mpc = "stuck" \/ rescan.step = "stuck" \/ leaked
  \/ mpc = "lock" /\ handling = "pause"

\* Every coin of a submitted key is found in the end, although workers come, go and
\* lose their connection, and the master is restarted and paused.
AllClaimed ==
  <>[](\/ Halted
       \/ \A c \in 0 .. count - 1 :
            \/ c \in claimed
            \/ Owner[c] \notin submitted \ guessed
            \/ c < cut[Owner[c]])
=============================================================================
