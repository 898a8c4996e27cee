------------------------- MODULE OTAIndexer_proofs -------------------------
(***************************************************************************)
(* Proofs about OTAIndexer: the pause of the index master, the types, and  *)
(* what LastScanned and Total of a key say of its coins, for any workers,  *)
(* keys, coins and sizes of a batch, and any number of faults.             *)
(***************************************************************************)
EXTENDS OTAIndexer, NaturalFacts

\* Where the main loop is when it neither assigns keys nor is about to.
Resting == Starting \union {"gate"}

\* The handshake of the handler of orders with willPauseOperation: the status says
\* "pause" only while the main loop rests, and whenever an order has been answered
\* the status is the one that the flag asks for.
StatusInv == serviceStatus = "pause" => mpc \in Resting
FlagInv ==
  /\ handling = "idle" /\ pauseService => serviceStatus = "pause"
  /\ handling = "resume" => ~pauseService
HandshakeInv == StatusInv /\ FlagInv

\* What the handshake needs of the types: the orders, and that only a pass has a
\* worker to send to (a handler that ends can then stop nothing else).
TargetInv == target.to \in Workers => mpc \in {"index", "run", "stuck"}
OrdersInv ==
  /\ orders \in Seq({"pause", "resume"})
  /\ handling \in {"idle", "pause", "resume"}

PauseInv == HandshakeInv /\ TargetInv /\ OrdersInv

\* A step that does not touch the pause, after which the main loop rests or was
\* already not resting.
Aside ==
  /\ UNCHANGED pauseVars
  /\ mpc' \in Resting \/ mpc \notin Resting

-----------------------------------------------------------------------------
LEMMA AsideKeeps == HandshakeInv /\ OrdersInv /\ Aside => HandshakeInv' /\ OrdersInv'
BY DEF HandshakeInv, StatusInv, FlagInv, OrdersInv, Aside, pauseVars

\* The master's start, its passes and its handlers.
LEMMA MasterAside ==
  ASSUME TargetInv, Start \/ Pass, ~Gate
  PROVE  Aside /\ TargetInv'
<1> USE OwnerAssumption DEF Aside, TargetInv, Resting, Starting, NoSend
<1>1. CASE Start
  BY <1>1 DEF Start, Load, StoreLoaded, Recheck, StoreRechecked
<1>2. CASE Lock
  BY <1>2 DEF Lock
<1>3. CASE EndAssign
  BY <1>3 DEF EndAssign
<1>4. CASE SendIndex
  BY <1>4 DEF SendIndex
<1>5. CASE NextRun
  BY <1>5 DEF NextRun
<1>6. CASE SendRun
  BY <1>6 DEF SendRun
<1>7. ASSUME NEW k \in Keys, NoWorker(k) PROVE Aside /\ TargetInv'
  BY <1>7 DEF NoWorker
<1>8. ASSUME NEW k \in Keys, NEW w \in Workers, Assign(k, w) PROVE Aside /\ TargetInv'
  BY <1>8 DEF Assign
<1> QED
  BY <1>1, <1>2, <1>3, <1>4, <1>5, <1>6, <1>7, <1>8 DEF Pass

\* Requests of clients and the steps of workers leave the main loop alone.
LEMMA OthersAside ==
  ASSUME TargetInv,
         \/ StoreCoin \/ Requests \/ Adding \/ Rescanning
         \/ \E w \in Workers :
              \/ Register(w) \/ StartWorker(w) \/ SeeLoss(w) \/ Process(w) \/ Scanning(w)
              \/ LoseLink(w) \/ CrashWorker(w)
  PROVE  Aside /\ TargetInv'
<1> SUFFICES UNCHANGED <<pauseVars, passVars>>
  BY DEF Aside, TargetInv, passVars
<1>1. CASE StoreCoin \/ Requests \/ Adding
  BY <1>1 DEF StoreCoin, Requests, Adding, Rescan, Submit, AddKey, StoreKey
<1>2. CASE Rescanning
  BY <1>2 DEF Rescanning, SetRescanned, StoreRescanned, TellWorker, SendReindex
<1>3. ASSUME NEW w \in Workers,
             \/ Register(w) \/ StartWorker(w) \/ SeeLoss(w) \/ LoseLink(w) \/ CrashWorker(w)
             \/ Process(w)
      PROVE  UNCHANGED <<pauseVars, passVars>>
  BY <1>3 DEF Register, StartWorker, SeeLoss, LoseLink, CrashWorker, Process
<1>4. ASSUME NEW w \in Workers, Scanning(w) PROVE UNCHANGED <<pauseVars, passVars>>
  BY <1>4 DEF Scanning, Scan, Claim, Save, EndBatch
<1> QED
  BY <1>1, <1>2, <1>3, <1>4

\* A handler that ends stops the main loop only in a pass.
LEMMA HandlerAside ==
  ASSUME TargetInv, NEW w \in Workers, HandlerEnds(w)
  PROVE  Aside /\ TargetInv'
BY DEF HandlerEnds, Aside, TargetInv, Resting, Starting

\* The main loop leaves willPauseOperation only as "resume".
LEMMA GateStep ==
  ASSUME HandshakeInv, TargetInv, OrdersInv, Gate
  PROVE  HandshakeInv' /\ TargetInv' /\ OrdersInv'
<1>1. /\ mpc = "gate" /\ UNCHANGED <<target, pauseService, handling, orders>>
      /\ serviceStatus' = IF pauseService THEN "pause" ELSE "resume"
      /\ mpc' = IF pauseService THEN "gate" ELSE "lock"
  BY DEF Gate
<1>2. CASE pauseService
  BY <1>1, <1>2
  DEF HandshakeInv, StatusInv, FlagInv, TargetInv, OrdersInv, Resting, Starting
<1>3. CASE ~pauseService
  BY <1>1, <1>3
  DEF HandshakeInv, StatusInv, FlagInv, TargetInv, OrdersInv, Resting, Starting
<1> QED
  BY <1>2, <1>3

\* pauseOperation and resumeOperation set the flag, and wait for the status.
LEMMA OrderStep ==
  ASSUME HandshakeInv, TargetInv, OrdersInv, Order
  PROVE  HandshakeInv' /\ TargetInv' /\ OrdersInv'
<1>1. CASE TakeOrder
  <2>1. UNCHANGED <<mpc, target, serviceStatus>>
    BY <1>1 DEF TakeOrder, passVars
  <2>2. Head(orders) \in {"pause", "resume"} /\ orders' \in Seq({"pause", "resume"})
    BY <1>1 DEF TakeOrder, OrdersInv
  <2>3. handling' = Head(orders)
    BY <1>1 DEF TakeOrder
  <2>4. handling' = "resume" => ~pauseService'
    BY <1>1, <2>3 DEF TakeOrder
  <2> QED
    BY <2>1, <2>2, <2>3, <2>4
    DEF HandshakeInv, StatusInv, FlagInv, TargetInv, OrdersInv
<1>2. CASE OrderDone
  <2>1. /\ UNCHANGED <<mpc, target, serviceStatus, pauseService, orders>>
        /\ handling \in {"pause", "resume"} /\ serviceStatus = handling /\ handling' = "idle"
    BY <1>2 DEF OrderDone, passVars, OrdersInv
  <2> QED
    BY <2>1 DEF HandshakeInv, StatusInv, FlagInv, TargetInv, OrdersInv
<1> QED
  BY <1>1, <1>2 DEF Order

\* A master that has ended comes back as paused.
LEMMA RestartStep ==
  ASSUME OrdersInv, CrashMaster
  PROVE  HandshakeInv' /\ TargetInv' /\ OrdersInv'
<1>1. /\ mpc' = "down" /\ target' = NoSend /\ pauseService' = TRUE
      /\ serviceStatus' = "pause" /\ handling' = "idle"
      /\ orders' = IF orders = <<>> THEN <<"resume">> ELSE orders
  BY DEF CrashMaster
<1>2. orders' \in Seq({"pause", "resume"})
  <2>1. <<"resume">> \in Seq({"pause", "resume"}) /\ orders \in Seq({"pause", "resume"})
    BY DEF OrdersInv
  <2> QED
    BY <1>1, <2>1
<1>3. NoSend.to \notin Workers
  BY OwnerAssumption DEF NoSend
<1> QED
  BY <1>1, <1>2, <1>3
  DEF HandshakeInv, StatusInv, FlagInv, TargetInv, OrdersInv, Resting, Starting

LEMMA InitPauseInv == Init => PauseInv
<1> SUFFICES ASSUME Init PROVE PauseInv
  OBVIOUS
<1>1. /\ mpc = "down" /\ target = NoSend /\ pauseService = TRUE
      /\ serviceStatus = "pause" /\ handling = "idle"
  BY DEF Init
<1>2. orders \in Seq({"pause", "resume"})
  BY ScenariosAssumption DEF Init
<1> QED
  BY <1>1, <1>2, OwnerAssumption
  DEF PauseInv, HandshakeInv, StatusInv, FlagInv, TargetInv, OrdersInv, Resting, Starting,
      NoSend

LEMMA NextPauseInv == PauseInv /\ [Next]_vars => PauseInv'
<1> SUFFICES ASSUME PauseInv, [Next]_vars PROVE PauseInv'
  OBVIOUS
<1>0. HandshakeInv /\ TargetInv /\ OrdersInv
  BY DEF PauseInv
<1>1. CASE Aside /\ TargetInv'
  BY <1>0, <1>1, AsideKeeps DEF PauseInv
<1>2. CASE Gate
  BY <1>0, <1>2, GateStep DEF PauseInv
<1>3. CASE Order
  BY <1>0, <1>3, OrderStep DEF PauseInv
<1>4. CASE CrashMaster
  BY <1>0, <1>4, RestartStep DEF PauseInv
<1>5. CASE Start \/ Pass
  BY <1>0, <1>1, <1>2, <1>5, MasterAside
<1>6. ASSUME NEW w \in Workers, HandlerEnds(w) PROVE PauseInv'
  BY <1>0, <1>1, <1>6, HandlerAside
<1>7. CASE \/ StoreCoin \/ Requests \/ Adding \/ Rescanning
           \/ \E w \in Workers :
                \/ Register(w) \/ StartWorker(w) \/ SeeLoss(w) \/ Process(w) \/ Scanning(w)
                \/ LoseLink(w) \/ CrashWorker(w)
  BY <1>0, <1>1, <1>7, OthersAside
<1>8. CASE UNCHANGED vars
  BY <1>0, <1>1, <1>8 DEF vars, passVars, pauseVars, Aside, TargetInv
<1> QED
  BY <1>2, <1>3, <1>4, <1>5, <1>6, <1>7, <1>8 DEF Next, Faults

\* After a reported pause the master assigns no key until the next order, whatever
\* the workers, keys and requests, and whatever fails or is restarted.
THEOREM SpecNoPassWhilePaused == Spec => []NoPassWhilePaused
<1>1. PauseInv => NoPassWhilePaused
  BY DEF PauseInv, HandshakeInv, StatusInv, FlagInv, NoPassWhilePaused, Resting, Starting,
         Passing
<1> QED
  BY <1>1, InitPauseInv, NextPauseInv, PTL DEF Spec

-----------------------------------------------------------------------------
(* Types. *)

\* A message that names a key is about a submitted one.
Mail == {m \in Message : m.cmd \in {"index", "reindex"} => m.key \in Keys}

Asked(steps) ==
  [step : steps, key : Keys \union {NoKey}, info : Info, to : Workers \union {Nobody, Gone}]

Batch ==
  [step : {"idle", "write"}, from : Nat, new : Nat, found : SUBSET Coins, unsaved : SUBSET Keys]

Bounds ==
  [lives : SUBSET Workers, keys : SUBSET Keys, fromNow : SUBSET BOOLEAN, atOnce : Nat,
   stored : 0 .. Cardinality(Coins), coins : 0 .. Cardinality(Coins), lost : Nat,
   crash : Nat, restart : Nat, rescan : Nat, orders : Seq({"pause", "resume"})]

DbTypes ==
  /\ count \in 0 .. Cardinality(Coins) /\ claimed \subseteq 0 .. count - 1
  /\ submitted \subseteq Keys /\ info \in [Keys -> Info]
  /\ budget \in Bounds

\* While the main loop sends, it has a worker to send to, and a key to give it.
PassTypes ==
  /\ mpc \in Starting \union {"gate", "lock"} \union Passing
  /\ isAllKeyAssigned \in BOOLEAN
  /\ target \in [key : Keys \union {NoKey}, to : Workers \union {Nobody}]
  /\ mpc = "index" => target.key \in Keys
  /\ mpc \in {"index", "run"} => target.to \in Workers

\* A key is assigned only to a registered worker.
KeyTypes ==
  /\ known \subseteq submitted /\ keyInfo \in [Keys -> Info]
  /\ AssignedKey \in [Keys -> Workers \union {Nobody, Gone}]
  /\ workers \subseteq Workers
  /\ \A k \in Keys : AssignedKey[k] \in Workers => AssignedKey[k] \in workers

AskTypes ==
  /\ submit \in Asked({"idle", "add", "store"})
  /\ submit.step = "idle" => submit = NoAsk
  /\ submit.step # "idle" => submit.key \in submitted
  /\ rescan \in Asked({"idle", "set", "store", "tell", "send", "stuck"})
  /\ rescan.step \in {"set", "store", "tell", "send"} => rescan.key \in Keys
  /\ rescan.step = "send" => rescan.to \in Workers
  /\ leaked \in BOOLEAN

PauseTypes ==
  /\ pauseService \in BOOLEAN /\ serviceStatus \in {"pause", "resume"}
  /\ handling \in {"idle", "pause", "resume"} /\ orders \in Seq({"pause", "resume"})

\* Messages are only on a connection, which the master has registered.
LinkTypes ==
  /\ conn \in [Workers -> {"off", "on", "lost"}]
  /\ net \in [Workers -> Seq(Mail)] /\ hand \in [Workers -> Mail]
  /\ life \in [Workers -> {"new", "up", "ended"}]
  /\ \A w \in Workers :
       /\ conn[w] = "on" => w \in workers /\ life[w] = "up"
       /\ net[w] # <<>> => conn[w] = "on"

\* A batch has coins of the worker's keys, and saves the documents of these.
WorkTypes ==
  /\ assigned \in [Workers -> SUBSET Keys] /\ held \in [Workers -> [Keys -> Info]]
  /\ scan \in [Workers -> Batch]
  /\ \A w \in Workers :
       /\ scan[w].unsaved \subseteq assigned[w]
       /\ scan[w].found \subseteq 0 .. count - 1
       /\ \A c \in scan[w].found : Owner[c] \in assigned[w]
       /\ scan[w].step = "idle" => scan[w] = NoScan

HistTypes ==
  /\ guessed \subseteq Keys /\ hasty \subseteq Keys /\ cut \in [Keys -> Nat]
  /\ disturbed \in BOOLEAN

Types ==
  /\ DbTypes /\ PassTypes /\ KeyTypes /\ AskTypes
  /\ PauseTypes /\ LinkTypes /\ WorkTypes /\ HistTypes

\* Parts of the state that a step leaves alone.
LEMMA DbFrame == DbTypes /\ UNCHANGED <<dbVars, budget>> => DbTypes'
BY DEF DbTypes, dbVars

LEMMA PassFrame == PassTypes /\ UNCHANGED passVars => PassTypes'
BY DEF PassTypes, passVars

LEMMA KeyFrame == KeyTypes /\ UNCHANGED <<keyVars, submitted, workers>> => KeyTypes'
BY DEF KeyTypes, keyVars

LEMMA AskFrame ==
  AskTypes /\ submitted \subseteq submitted' /\ UNCHANGED askVars => AskTypes'
BY DEF AskTypes, askVars

LEMMA PauseFrame == PauseTypes /\ UNCHANGED pauseVars => PauseTypes'
BY DEF PauseTypes, pauseVars

LEMMA LinkFrame == LinkTypes /\ UNCHANGED <<linkVars, life>> => LinkTypes'
BY DEF LinkTypes, linkVars

LEMMA WorkFrame == WorkTypes /\ UNCHANGED <<count, assigned, held, scan>> => WorkTypes'
BY DEF WorkTypes

LEMMA HistFrame == HistTypes /\ UNCHANGED <<guessed, hasty, cut, disturbed>> => HistTypes'
BY DEF HistTypes

LEMMA FirstIsLeast ==
  ASSUME NEW S, S \subseteq Nat, S # {}
  PROVE  First(S) \in S /\ \A j \in S : First(S) <= j
BY LeastNatural DEF First

LEMMA LastIsGreatest ==
  ASSUME NEW n \in Nat, NEW S, S \subseteq 0 .. n, S # {}
  PROVE  Last(S) \in S /\ \A j \in S : j <= Last(S)
BY GreatestNatural DEF Last

LEMMA CoinFacts ==
  /\ Cardinality(Coins) \in Nat /\ IsFiniteSet(Coins)
  /\ Coins = 0 .. Cardinality(Coins) - 1
  /\ \A c \in Coins : Owner[c] \in Keys \union {NoKey}
BY OwnerAssumption, FS_CardinalityType

\* What DBGetCoins has claimed for a key is a finite set of stored coins.
LEMMA MineType ==
  ASSUME DbTypes, NEW k
  PROVE  /\ Mine(k) \subseteq claimed /\ Mine(k) \subseteq Nat /\ IsFiniteSet(Mine(k))
         /\ Cardinality(Mine(k)) \in Nat
         /\ Mine(k) # {} => First(Mine(k)) \in Mine(k) /\ First(Mine(k)) < count
<1>0. claimed \subseteq 0 .. count - 1 /\ Mine(k) \subseteq claimed
  BY DEF DbTypes, Mine
<1>1. Mine(k) \subseteq 0 .. count - 1 /\ count \in Nat
  <2>1. count \in 0 .. Cardinality(Coins) /\ Cardinality(Coins) \in Nat
    BY CoinFacts DEF DbTypes
  <2>2. count \in Nat
    BY <2>1
  <2> QED
    BY <1>0, <2>2
<1>2. Mine(k) \subseteq Coins /\ Mine(k) \subseteq claimed
  BY <1>1, CoinFacts DEF DbTypes, Mine
<1>3. IsFiniteSet(Mine(k)) /\ Cardinality(Mine(k)) \in Nat
  BY <1>2, CoinFacts, FS_Subset, FS_CardinalityType
<1>4. Mine(k) \subseteq Nat
  BY <1>1
<1>5. ASSUME Mine(k) # {} PROVE First(Mine(k)) \in Mine(k)
  BY <1>4, <1>5, FirstIsLeast
<1>6. \A i \in Mine(k) : i < count
  BY <1>1
<1> QED
  BY <1>2, <1>3, <1>4, <1>5, <1>6

LEMMA RecountType ==
  ASSUME DbTypes, NEW k \in Keys
  PROVE  Recount(k) \in Info
<1>1. info[k] \in Info /\ info[k].last \in Nat /\ info[k].has \in BOOLEAN
  BY DEF DbTypes, Info
<1>2. Cardinality(Mine(k)) \in Nat
  BY MineType
<1>3. Mine(k) # {} => First(Mine(k)) \in Nat
  BY MineType
<1> QED
  BY <1>1, <1>2, <1>3 DEF Recount, Info

\* A fault or a request that is left is used.
LEMMA SpendType ==
  ASSUME budget \in Bounds, NEW what \in {"lost", "crash", "restart", "rescan"}, Spend(what)
  PROVE  budget' \in Bounds
<1>1. CASE what = "lost"
  <2>1. budget' = [budget EXCEPT !.lost = @ - 1] /\ budget.lost \in Nat /\ budget.lost > 0
    BY <1>1 DEF Spend, Bounds
  <2>2. budget.lost - 1 \in Nat
    BY <2>1
  <2> QED
    BY <2>1, <2>2 DEF Bounds
<1>2. CASE what = "crash"
  <2>1. budget' = [budget EXCEPT !.crash = @ - 1] /\ budget.crash \in Nat /\ budget.crash > 0
    BY <1>2 DEF Spend, Bounds
  <2>2. budget.crash - 1 \in Nat
    BY <2>1
  <2> QED
    BY <2>1, <2>2 DEF Bounds
<1>3. CASE what = "restart"
  <2>1. /\ budget' = [budget EXCEPT !.restart = @ - 1]
        /\ budget.restart \in Nat /\ budget.restart > 0
    BY <1>3 DEF Spend, Bounds
  <2>2. budget.restart - 1 \in Nat
    BY <2>1
  <2> QED
    BY <2>1, <2>2 DEF Bounds
<1>4. CASE what = "rescan"
  <2>1. budget' = [budget EXCEPT !.rescan = @ - 1] /\ budget.rescan \in Nat /\ budget.rescan > 0
    BY <1>4 DEF Spend, Bounds
  <2>2. budget.rescan - 1 \in Nat
    BY <2>1
  <2> QED
    BY <2>1, <2>2 DEF Bounds
<1> QED
  BY <1>1, <1>2, <1>3, <1>4

\* The steps of the master: its start,
LEMMA StartTypes ==
  ASSUME Types, Start
  PROVE  Types'
<1>0. /\ DbTypes /\ PassTypes /\ KeyTypes /\ AskTypes
      /\ PauseTypes /\ LinkTypes /\ WorkTypes /\ HistTypes
  BY DEF Types
<1>1. /\ UNCHANGED <<askVars, pauseVars, linkVars, workerVars, submitted, count, claimed>>
      /\ UNCHANGED <<target, isAllKeyAssigned, budget, cut, hasty, disturbed>>
  BY DEF Start, Load, StoreLoaded, Recheck, StoreRechecked, dbVars, keyVars, histVars
<1>2. AskTypes' /\ PauseTypes' /\ LinkTypes' /\ WorkTypes'
  BY <1>0, <1>1, AskFrame, PauseFrame, LinkFrame, WorkFrame DEF workerVars
<1>3. PassTypes'
  <2>1. mpc' \in {"load", "recheck", "store", "gate"}
    BY DEF Start, Load, StoreLoaded, Recheck, StoreRechecked
  <2> QED
    BY <1>0, <1>1, <2>1 DEF PassTypes, Starting, Passing
<1>4. CASE Load
  <2>1. DbTypes' /\ HistTypes'
    BY <1>0, <1>1, <1>4, DbFrame, HistFrame DEF Load, dbVars, histVars
  <2>2. KeyTypes'
    BY <1>0, <1>1, <1>4, OwnerAssumption DEF Load, KeyTypes, DbTypes, linkVars
  <2> QED
    BY <1>2, <1>3, <2>1, <2>2 DEF Types
<1>5. CASE StoreLoaded \/ StoreRechecked
  <2>1. /\ info' = [k \in Keys |-> IF k \in known THEN keyInfo[k] ELSE info[k]]
        /\ UNCHANGED <<keyVars, guessed>>
    BY <1>5 DEF StoreLoaded, StoreRechecked, histVars
  <2>2. info' \in [Keys -> Info]
    BY <1>0, <2>1 DEF DbTypes, KeyTypes
  <2>3. DbTypes' /\ HistTypes' /\ KeyTypes'
    BY <1>0, <1>1, <2>1, <2>2, HistFrame, KeyFrame DEF DbTypes, linkVars
  <2> QED
    BY <1>2, <1>3, <2>3 DEF Types
<1>6. CASE Recheck
  <2>1. /\ keyInfo' = [k \in Keys |-> IF k \in known THEN Recount(k) ELSE keyInfo[k]]
        /\ guessed' = guessed \union {k \in known : ~info[k].has /\ Mine(k) # {}}
        /\ UNCHANGED <<dbVars, known, AssignedKey>>
    BY <1>6 DEF Recheck
  <2>2. keyInfo' \in [Keys -> Info]
    BY <1>0, <2>1, RecountType DEF KeyTypes
  <2>3. DbTypes' /\ KeyTypes'
    BY <1>0, <1>1, <2>1, <2>2, DbFrame DEF KeyTypes, linkVars
  <2>4. HistTypes'
    BY <1>0, <1>1, <2>1 DEF HistTypes, KeyTypes, DbTypes
  <2> QED
    BY <1>2, <1>3, <2>3, <2>4 DEF Types
<1> QED
  BY <1>4, <1>5, <1>6 DEF Start

\* What a pass sends is mail, and is sent to a worker.
LEMMA SentType ==
  ASSUME NEW w \in Workers, NEW msg \in Mail, net \in [Workers -> Seq(Mail)], Sent(w, msg)
  PROVE  /\ net' \in [Workers -> Seq(Mail)]
         /\ \A v \in Workers : net'[v] # <<>> => net[v] # <<>> \/ conn[v] = "on"
<1>1. CASE net' = net
  BY <1>1
<1>2. CASE conn[w] = "on" /\ net' = [net EXCEPT ![w] = Append(@, msg)]
  BY <1>2
<1> QED
  BY <1>1, <1>2 DEF Sent

\* a pass of the main loop,
LEMMA PassTypesKept ==
  ASSUME Types, Pass
  PROVE  Types'
<1>0. /\ DbTypes /\ PassTypes /\ KeyTypes /\ AskTypes
      /\ PauseTypes /\ LinkTypes /\ WorkTypes /\ HistTypes
  BY DEF Types
<1>1. UNCHANGED <<dbVars, askVars, workers, conn, hand, workerVars, histVars, known>>
  BY DEF Pass, Gate, Lock, EndAssign, SendIndex, NextRun, SendRun, NoWorker, Assign, keyVars,
         linkVars
<1>2. DbTypes' /\ AskTypes' /\ WorkTypes' /\ HistTypes'
  BY <1>0, <1>1, DbFrame, AskFrame, WorkFrame, HistFrame DEF dbVars, workerVars, histVars
<1>3. CASE Gate
  <2>1. /\ UNCHANGED <<isAllKeyAssigned, target, keyVars, linkVars, life>>
        /\ UNCHANGED <<pauseService, handling, orders, submitted, workers>>
        /\ mpc' \in {"gate", "lock"} /\ serviceStatus' \in {"pause", "resume"}
    BY <1>1, <1>3 DEF Gate, workerVars, dbVars, linkVars
  <2>2. PassTypes' /\ PauseTypes'
    BY <1>0, <2>1 DEF PassTypes, PauseTypes, Starting, Passing
  <2> QED
    BY <1>0, <1>2, <2>1, <2>2, KeyFrame, LinkFrame DEF Types
<1>4. CASE Lock \/ EndAssign
  <2>1. /\ UNCHANGED <<target, keyVars, linkVars, life, pauseVars, submitted, workers>>
        /\ mpc' \in {"assign", "gate", "range"}
        /\ isAllKeyAssigned' \in {TRUE, isAllKeyAssigned}
    BY <1>1, <1>4 DEF Lock, EndAssign, workerVars, dbVars, linkVars
  <2>2. PassTypes'
    BY <1>0, <2>1 DEF PassTypes, Starting, Passing
  <2> QED
    BY <1>0, <1>2, <2>1, <2>2, KeyFrame, LinkFrame, PauseFrame DEF Types
<1>5. CASE SendIndex
  <2> DEFINE msg == [cmd |-> "index", key |-> target.key, info |-> keyInfo[target.key]]
  <2>1. /\ mpc = "index" /\ mpc' = "assign" /\ target' = NoSend
        /\ Sent(target.to, msg)
        /\ UNCHANGED <<isAllKeyAssigned, keyVars, life, pauseVars, submitted, workers, conn, hand>>
    BY <1>1, <1>5 DEF SendIndex, workerVars, dbVars
  <2>2. target.key \in Keys /\ target.to \in Workers /\ keyInfo[target.key] \in Info
    BY <1>0, <2>1 DEF PassTypes, KeyTypes
  <2>3. msg \in Mail
    BY <2>2 DEF Mail, Message
  <2> HIDE DEF msg
  <2>4. LinkTypes'
    BY <1>0, <2>1, <2>2, <2>3, SentType DEF LinkTypes
  <2>5. PassTypes'
    BY <1>0, <2>1 DEF PassTypes, Passing, Starting, NoSend
  <2> QED
    BY <1>0, <1>2, <2>1, <2>4, <2>5, KeyFrame, PauseFrame DEF Types
<1>6. CASE SendRun
  <2> DEFINE msg == [cmd |-> "run", key |-> NoKey, info |-> NoInfo]
  <2>1. /\ mpc = "run" /\ mpc' = "range" /\ target' = NoSend
        /\ Sent(target.to, msg)
        /\ UNCHANGED <<isAllKeyAssigned, keyVars, life, pauseVars, submitted, workers, conn, hand>>
    BY <1>1, <1>6 DEF SendRun, workerVars, dbVars
  <2>2. target.to \in Workers
    BY <1>0, <2>1 DEF PassTypes
  <2>3. msg \in Mail
    BY DEF Mail, Message, NoInfo, Info
  <2> HIDE DEF msg
  <2>4. LinkTypes'
    BY <1>0, <2>1, <2>2, <2>3, SentType DEF LinkTypes
  <2>5. PassTypes'
    BY <1>0, <2>1 DEF PassTypes, Passing, Starting, NoSend
  <2> QED
    BY <1>0, <1>2, <2>1, <2>4, <2>5, KeyFrame, PauseFrame DEF Types
<1>7. CASE NextRun
  <2>1. /\ UNCHANGED <<isAllKeyAssigned, keyVars, linkVars, life, pauseVars, submitted, workers>>
        /\ mpc = "range"
        /\ \/ mpc' = "gate" /\ UNCHANGED target
           \/ \E w \in todo \intersect workers : mpc' = "run" /\ target' = [key |-> NoKey, to |-> w]
    BY <1>1, <1>7 DEF NextRun, workerVars, dbVars, linkVars
  <2>2. workers \subseteq Workers
    BY <1>0 DEF KeyTypes
  <2>3. PassTypes'
    BY <1>0, <2>1, <2>2 DEF PassTypes, Passing, Starting
  <2> QED
    BY <1>0, <1>2, <2>1, <2>3, KeyFrame, LinkFrame, PauseFrame DEF Types
<1>8. ASSUME NEW k \in Keys, NoWorker(k) \/ \E w \in Workers : Assign(k, w) PROVE Types'
  <2>1. /\ UNCHANGED <<linkVars, life, pauseVars, submitted, workers, conn, hand>>
        /\ isAllKeyAssigned' = (isAllKeyAssigned /\ AssignedKey[k] = Gone)
        /\ keyInfo' = IF AssignedKey[k] = Gone THEN [keyInfo EXCEPT ![k] = info[k]] ELSE keyInfo
    BY <1>1, <1>8 DEF NoWorker, Assign, Consider, workerVars, dbVars, linkVars
  <2>2. keyInfo' \in [Keys -> Info]
    BY <1>0, <2>1 DEF KeyTypes, DbTypes
  <2>3. isAllKeyAssigned' \in BOOLEAN
    BY <1>0, <2>1 DEF PassTypes
  <2>4. CASE NoWorker(k)
    <3>1. UNCHANGED <<mpc, target, AssignedKey, known>>
      BY <2>4 DEF NoWorker
    <3>2. PassTypes' /\ KeyTypes'
      BY <1>0, <2>1, <2>2, <2>3, <3>1 DEF PassTypes, KeyTypes
    <3> QED
      BY <1>0, <1>2, <2>1, <3>2, LinkFrame, PauseFrame DEF Types
  <2>5. ASSUME NEW w \in Workers, Assign(k, w) PROVE Types'
    <3>1. /\ AssignedKey' = [AssignedKey EXCEPT ![k] = w] /\ UNCHANGED known
          /\ target' = [key |-> k, to |-> w] /\ mpc' = "index" /\ w \in workers
      BY <2>5 DEF Assign
    <3>2. PassTypes' /\ KeyTypes'
      BY <1>0, <2>1, <2>2, <2>3, <3>1 DEF PassTypes, KeyTypes, Passing
    <3> QED
      BY <1>0, <1>2, <2>1, <3>2, LinkFrame, PauseFrame DEF Types
  <2> QED
    BY <1>8, <2>4, <2>5
<1> QED
  BY <1>3, <1>4, <1>5, <1>6, <1>7, <1>8 DEF Pass

\* the requests of clients,
LEMMA RequestTypes ==
  ASSUME Types, Requests \/ Adding
  PROVE  Types'
<1>0. /\ DbTypes /\ PassTypes /\ KeyTypes /\ AskTypes
      /\ PauseTypes /\ LinkTypes /\ WorkTypes /\ HistTypes
  BY DEF Types
<1>1. UNCHANGED <<passVars, pauseVars, linkVars, workerVars, count, claimed, guessed, hasty>>
  BY DEF Requests, Adding, Rescan, Submit, AddKey, StoreKey, dbVars, histVars
<1>2. PassTypes' /\ PauseTypes' /\ LinkTypes' /\ WorkTypes'
  BY <1>0, <1>1, PassFrame, PauseFrame, LinkFrame, WorkFrame DEF workerVars
<1>3. ASSUME NEW k \in Keys, NEW fromNow \in BOOLEAN, Submit(k, fromNow) PROVE Types'
  <2> DEFINE past == IF count < Window THEN 0 ELSE count - Window
             new  == IF fromNow THEN [has |-> TRUE, last |-> past, total |-> 0] ELSE info[k]
             from == IF fromNow /\ past > 0 THEN past + 1 ELSE 0
  <2>1. /\ UNCHANGED <<info, keyVars, workers, rescan, leaked, disturbed, budget>>
        /\ submitted' = submitted \union {k}
        /\ submit' = [NoAsk EXCEPT !.step = "add", !.key = k, !.info = new]
        /\ cut' = [cut EXCEPT ![k] = from]
    BY <1>1, <1>3 DEF Submit, linkVars
  <2>2. past \in Nat
    BY <1>0, CoinFacts, ScenariosAssumption DEF DbTypes
  <2>3. new \in Info /\ from \in Nat
    <3>1. info[k] \in Info
      BY <1>0 DEF DbTypes
    <3> HIDE DEF past
    <3> QED
      BY <2>2, <3>1 DEF Info
  <2> HIDE DEF new, from
  <2>4. submit' = [step |-> "add", key |-> k, info |-> new, to |-> Nobody]
    BY <2>1 DEF NoAsk
  <2>5. AskTypes'
    <3>1. submit' \in Asked({"idle", "add", "store"})
      BY <2>3, <2>4 DEF Asked
    <3>2. submit'.step = "add" /\ submit'.key \in submitted'
      BY <2>1, <2>4
    <3> QED
      BY <1>0, <2>1, <3>1, <3>2 DEF AskTypes
  <2>6. DbTypes' /\ KeyTypes' /\ HistTypes'
    BY <1>0, <1>1, <2>1, <2>3 DEF DbTypes, KeyTypes, HistTypes, keyVars
  <2> QED
    BY <1>2, <2>5, <2>6 DEF Types
<1>4. CASE AddKey
  <2>1. /\ UNCHANGED <<dbVars, workers, rescan, leaked, cut, disturbed, budget>>
        /\ submit.step = "add"
        /\ known' = known \union {submit.key}
        /\ keyInfo' = [keyInfo EXCEPT ![submit.key] = submit.info]
        /\ AssignedKey' = [AssignedKey EXCEPT ![submit.key] = Nobody]
        /\ submit' = [submit EXCEPT !.step = "store"]
    BY <1>1, <1>4 DEF AddKey, linkVars, histVars
  <2>2. submit.key \in submitted /\ submit.key \in Keys /\ submit.info \in Info
    BY <1>0, <2>1 DEF AskTypes, Asked, DbTypes
  <2>3. AskTypes'
    <3>1. submit' \in Asked({"idle", "add", "store"})
      BY <1>0, <2>1 DEF AskTypes, Asked
    <3>2. submit'.step = "store" /\ submit'.key = submit.key
      BY <1>0, <2>1 DEF AskTypes, Asked
    <3> QED
      BY <1>0, <2>1, <2>2, <3>1, <3>2 DEF AskTypes, dbVars
  <2>4. KeyTypes'
    BY <1>0, <2>1, <2>2, OwnerAssumption DEF KeyTypes, dbVars
  <2> QED
    BY <1>0, <1>1, <1>2, <2>1, <2>3, <2>4, DbFrame, HistFrame DEF Types
<1>5. CASE StoreKey
  <2>1. /\ UNCHANGED <<submitted, keyVars, workers, rescan, leaked, cut, disturbed, budget>>
        /\ submit.step = "store"
        /\ info' = [info EXCEPT ![submit.key] = submit.info]
        /\ submit' = NoAsk
    BY <1>1, <1>5 DEF StoreKey, linkVars, histVars
  <2>2. submit.key \in Keys /\ submit.info \in Info
    BY <1>0, <2>1 DEF AskTypes, Asked, DbTypes
  <2>3. AskTypes'
    <3>1. submit' \in Asked({"idle", "add", "store"}) /\ submit'.step = "idle"
      BY <2>1 DEF Asked, NoAsk, NoInfo, Info
    <3> QED
      BY <1>0, <2>1, <3>1 DEF AskTypes
  <2>4. DbTypes'
    BY <1>0, <1>1, <2>1, <2>2 DEF DbTypes
  <2> QED
    BY <1>0, <1>1, <1>2, <2>1, <2>3, <2>4, KeyFrame, HistFrame DEF Types
<1>6. ASSUME NEW k \in Keys, Rescan(k) PROVE Types'
  <2> DEFINE new == [Recount(k) EXCEPT !.has = TRUE, !.last = 0]
  <2>1. /\ UNCHANGED <<dbVars, keyVars, workers, submit, leaked, cut>>
        /\ rescan' = [NoAsk EXCEPT !.step = "set", !.key = k, !.info = new]
        /\ disturbed' = TRUE /\ Spend("rescan")
    BY <1>1, <1>6 DEF Rescan, linkVars
  <2>2. new \in Info
    BY <1>0, RecountType DEF Info
  <2> HIDE DEF new
  <2>3. rescan' = [step |-> "set", key |-> k, info |-> new, to |-> Nobody]
    BY <2>1 DEF NoAsk
  <2>4. AskTypes'
    <3>1. rescan' \in Asked({"idle", "set", "store", "tell", "send", "stuck"})
      BY <2>2, <2>3 DEF Asked
    <3>2. rescan'.step = "set" /\ rescan'.key \in Keys
      BY <2>3
    <3> QED
      BY <1>0, <2>1, <3>1, <3>2 DEF AskTypes, dbVars
  <2>5. budget' \in Bounds
    BY <1>0, <2>1, SpendType DEF DbTypes
  <2>6. DbTypes' /\ HistTypes' /\ KeyTypes'
    BY <1>0, <1>1, <2>1, <2>5, KeyFrame DEF DbTypes, HistTypes, dbVars
  <2> QED
    BY <1>2, <2>4, <2>6 DEF Types
<1> QED
  BY <1>3, <1>4, <1>5, <1>6 DEF Requests, Adding

\* a rescan,
LEMMA RescanTypes ==
  ASSUME Types, Rescanning
  PROVE  Types'
<1>0. /\ DbTypes /\ PassTypes /\ KeyTypes /\ AskTypes
      /\ PauseTypes /\ LinkTypes /\ WorkTypes /\ HistTypes
  BY DEF Types
<1>1. /\ UNCHANGED <<passVars, pauseVars, workerVars, histVars, submitted, count, claimed>>
      /\ UNCHANGED <<known, AssignedKey, submit, workers, conn, hand>>
  BY DEF Rescanning, SetRescanned, StoreRescanned, TellWorker, SendReindex, dbVars, keyVars,
         linkVars
<1>2. PassTypes' /\ PauseTypes' /\ WorkTypes' /\ HistTypes'
  BY <1>0, <1>1, PassFrame, PauseFrame, WorkFrame, HistFrame DEF workerVars, histVars
<1>3. rescan.info \in Info /\ rescan.to \in Workers \union {Nobody, Gone}
  BY <1>0 DEF AskTypes, Asked
<1>4. ASSUME rescan' \in Asked({"idle", "set", "store", "tell", "send", "stuck"}),
             rescan'.step \in {"store", "tell", "send"} => rescan'.key \in Keys,
             rescan'.step = "send" => rescan'.to \in Workers,
             rescan'.step # "set", leaked' \in BOOLEAN
      PROVE  AskTypes'
  BY <1>0, <1>1, <1>4 DEF AskTypes
<1>5. CASE SetRescanned
  <2>1. /\ UNCHANGED <<dbVars, linkVars, leaked, life, budget>> /\ rescan.step = "set"
        /\ keyInfo' = [keyInfo EXCEPT ![rescan.key] = rescan.info]
        /\ rescan' = [rescan EXCEPT !.step = "store"]
    BY <1>1, <1>5 DEF SetRescanned, workerVars, histVars
  <2>2. rescan.key \in Keys
    BY <1>0, <2>1 DEF AskTypes
  <2>3. AskTypes'
    <3>1. /\ rescan' \in Asked({"idle", "set", "store", "tell", "send", "stuck"})
          /\ rescan'.step = "store" /\ rescan'.key = rescan.key
      BY <1>0, <2>1 DEF AskTypes, Asked
    <3> QED
      BY <1>0, <1>4, <2>1, <2>2, <3>1 DEF AskTypes
  <2>4. KeyTypes'
    BY <1>0, <1>1, <1>3, <2>1 DEF KeyTypes
  <2> QED
    BY <1>0, <1>2, <2>1, <2>3, <2>4, DbFrame, LinkFrame DEF Types
<1>6. CASE StoreRescanned
  <2>1. /\ UNCHANGED <<keyVars, linkVars, leaked, life, budget>> /\ rescan.step = "store"
        /\ info' = [info EXCEPT ![rescan.key] = rescan.info]
        /\ rescan' = [rescan EXCEPT !.step = "tell"]
    BY <1>1, <1>6 DEF StoreRescanned, workerVars, histVars
  <2>2. rescan.key \in Keys
    BY <1>0, <2>1 DEF AskTypes
  <2>3. AskTypes'
    <3>1. /\ rescan' \in Asked({"idle", "set", "store", "tell", "send", "stuck"})
          /\ rescan'.step = "tell" /\ rescan'.key = rescan.key
      BY <1>0, <2>1 DEF AskTypes, Asked
    <3> QED
      BY <1>0, <1>4, <2>1, <2>2, <3>1 DEF AskTypes
  <2>4. DbTypes'
    BY <1>0, <1>1, <1>3, <2>1 DEF DbTypes
  <2> QED
    BY <1>0, <1>1, <1>2, <2>1, <2>3, <2>4, KeyFrame, LinkFrame DEF Types
<1>7. CASE TellWorker
  <2> DEFINE w == AssignedKey[rescan.key]
  <2>1. /\ UNCHANGED <<dbVars, keyVars, linkVars, life, budget>> /\ rescan.step = "tell"
        /\ leaked' = (leaked \/ w = Nobody)
        /\ rescan' = IF w \in {Nobody, Gone} THEN NoAsk
                     ELSE [rescan EXCEPT !.step = "send", !.to = w]
    BY <1>1, <1>7 DEF TellWorker, workerVars, histVars
  <2>2. rescan.key \in Keys /\ w \in Workers \union {Nobody, Gone}
    BY <1>0, <2>1 DEF AskTypes, KeyTypes
  <2> HIDE DEF w
  <2>3. AskTypes'
    <3>0. leaked' \in BOOLEAN
      BY <1>0, <2>1 DEF AskTypes
    <3>1. CASE w \in {Nobody, Gone}
      <4>1. /\ rescan' \in Asked({"idle", "set", "store", "tell", "send", "stuck"})
            /\ rescan'.step = "idle"
        BY <2>1, <3>1 DEF Asked, NoAsk, NoInfo, Info
      <4> QED
        BY <1>4, <3>0, <4>1
    <3>2. CASE w \notin {Nobody, Gone}
      <4>1. /\ rescan' \in Asked({"idle", "set", "store", "tell", "send", "stuck"})
            /\ rescan'.step = "send" /\ rescan'.key = rescan.key /\ rescan'.to = w
        BY <1>0, <2>1, <2>2, <3>2 DEF AskTypes, Asked
      <4> QED
        BY <1>4, <2>2, <3>0, <3>2, <4>1
    <3> QED
      BY <3>1, <3>2
  <2> QED
    BY <1>0, <1>1, <1>2, <2>1, <2>3, DbFrame, KeyFrame, LinkFrame DEF Types
<1>8. CASE SendReindex
  <2> DEFINE msg == [cmd |-> "reindex", key |-> rescan.key, info |-> keyInfo[rescan.key]]
  <2>1. /\ UNCHANGED <<dbVars, keyVars, life, leaked, budget>> /\ rescan.step = "send"
        /\ Sent(rescan.to, msg)
        /\ rescan' = NoAsk
    BY <1>1, <1>8 DEF SendReindex, workerVars, histVars
  <2>2. rescan.key \in Keys /\ rescan.to \in Workers /\ keyInfo[rescan.key] \in Info
    BY <1>0, <2>1 DEF AskTypes, KeyTypes
  <2>3. msg \in Mail
    BY <2>2 DEF Mail, Message
  <2> HIDE DEF msg
  <2>4. LinkTypes'
    BY <1>0, <1>1, <2>1, <2>2, <2>3, SentType DEF LinkTypes
  <2>5. AskTypes'
    <3>1. /\ rescan' \in Asked({"idle", "set", "store", "tell", "send", "stuck"})
          /\ rescan'.step = "idle"
      BY <2>1 DEF Asked, NoAsk, NoInfo, Info
    <3> QED
      BY <1>0, <1>4, <2>1, <3>1 DEF AskTypes
  <2> QED
    BY <1>0, <1>1, <1>2, <2>1, <2>4, <2>5, DbFrame, KeyFrame DEF Types
<1> QED
  BY <1>5, <1>6, <1>7, <1>8 DEF Rescanning

\* the orders of the coordinator, and the synchroniser,
LEMMA OrderTypes ==
  ASSUME Types, Order \/ StoreCoin
  PROVE  Types'
<1>0. /\ DbTypes /\ PassTypes /\ KeyTypes /\ AskTypes
      /\ PauseTypes /\ LinkTypes /\ WorkTypes /\ HistTypes
  BY DEF Types
<1>1. /\ UNCHANGED <<passVars, keyVars, askVars, linkVars, workerVars, histVars>>
      /\ UNCHANGED <<claimed, submitted, info>>
  BY DEF Order, TakeOrder, OrderDone, StoreCoin, dbVars
<1>2. PassTypes' /\ KeyTypes' /\ AskTypes' /\ LinkTypes' /\ HistTypes'
  BY <1>0, <1>1, PassFrame, KeyFrame, AskFrame, LinkFrame, HistFrame
  DEF linkVars, workerVars, histVars
<1>3. CASE TakeOrder
  <2>1. /\ handling' = Head(orders) /\ orders' = Tail(orders) /\ orders # <<>>
        /\ pauseService' = (Head(orders) = "pause")
        /\ UNCHANGED <<dbVars, serviceStatus>>
    BY <1>3 DEF TakeOrder
  <2>2. Head(orders) \in {"pause", "resume"} /\ Tail(orders) \in Seq({"pause", "resume"})
    BY <1>0, <2>1 DEF PauseTypes
  <2>3. PauseTypes'
    BY <1>0, <2>1, <2>2 DEF PauseTypes
  <2> QED
    BY <1>0, <1>1, <1>2, <2>1, <2>3, DbFrame, WorkFrame DEF Types, dbVars, histVars, workerVars
<1>4. CASE OrderDone
  <2>1. /\ handling' = "idle" /\ UNCHANGED <<pauseService, serviceStatus, orders, dbVars>>
    BY <1>4 DEF OrderDone
  <2>2. PauseTypes'
    BY <1>0, <2>1 DEF PauseTypes
  <2> QED
    BY <1>0, <1>1, <1>2, <2>1, <2>2, DbFrame, WorkFrame DEF Types, dbVars, histVars, workerVars
<1>5. CASE StoreCoin
  <2>1. /\ count < budget.coins /\ count' = count + 1 /\ UNCHANGED <<pauseVars, budget>>
    BY <1>1, <1>5 DEF StoreCoin, histVars
  <2>2. /\ budget.coins \in 0 .. Cardinality(Coins) /\ Cardinality(Coins) \in Nat
        /\ count \in 0 .. Cardinality(Coins)
    BY <1>0, CoinFacts DEF DbTypes, Bounds
  <2>3. /\ count' \in 0 .. Cardinality(Coins)
        /\ 0 .. count - 1 \subseteq 0 .. count' - 1
    BY <2>1, <2>2
  <2>4. DbTypes'
    BY <1>0, <1>1, <2>1, <2>3 DEF DbTypes
  <2>5. WorkTypes'
    <3>1. UNCHANGED <<assigned, held, scan>>
      BY <1>1 DEF workerVars
    <3>2. \A w \in Workers : scan[w].found \subseteq 0 .. count' - 1
      BY <1>0, <2>3 DEF WorkTypes
    <3> QED
      BY <1>0, <3>1, <3>2 DEF WorkTypes
  <2> QED
    BY <1>0, <1>2, <2>1, <2>4, <2>5, PauseFrame DEF Types
<1> QED
  BY <1>3, <1>4, <1>5 DEF Order

\* Connections fail.
LEMMA CutType ==
  ASSUME LinkTypes, NEW W \in SUBSET Workers, Cut(W)
  PROVE  /\ conn' \in [Workers -> {"off", "on", "lost"}]
         /\ net' \in [Workers -> Seq(Mail)] /\ hand' \in [Workers -> Mail]
         /\ \A w \in Workers :
              /\ conn'[w] = "on" => conn[w] = "on" /\ w \notin W
              /\ net'[w] # <<>> => conn'[w] = "on"
<1>1. conn' = [w \in Workers |-> IF w \in W /\ conn[w] = "on" THEN "lost" ELSE conn[w]]
  BY DEF Cut
<1>2. net' = [w \in Workers |-> IF w \in W THEN <<>> ELSE net[w]]
  BY DEF Cut
<1>3. PICK kept \in SUBSET {w \in W : net[w] # <<>> /\ hand[w] = NoMsg} :
         hand' = [w \in Workers |-> IF w \in kept THEN Head(net[w]) ELSE hand[w]]
  BY DEF Cut
<1>4. \A w \in kept : Head(net[w]) \in Mail
  BY <1>3 DEF LinkTypes
<1>5. net' \in [Workers -> Seq(Mail)] /\ hand' \in [Workers -> Mail]
  BY <1>2, <1>3, <1>4 DEF LinkTypes
<1>6. conn' \in [Workers -> {"off", "on", "lost"}]
  BY <1>1 DEF LinkTypes
<1>7. ASSUME NEW w \in Workers
      PROVE  /\ conn'[w] = "on" => conn[w] = "on" /\ w \notin W
             /\ net'[w] # <<>> => conn'[w] = "on"
  <2>1. conn'[w] = IF w \in W /\ conn[w] = "on" THEN "lost" ELSE conn[w]
    BY <1>1
  <2>2. net'[w] = IF w \in W THEN <<>> ELSE net[w]
    BY <1>2
  <2> QED
    BY <2>1, <2>2 DEF LinkTypes
<1> QED
  BY <1>5, <1>6, <1>7

LEMMA EmptyTypes == NoMsg \in Mail /\ <<>> \in Seq(Mail) /\ NoScan \in Batch
BY DEF NoMsg, Mail, Message, NoInfo, Info, NoScan, Batch

\* connections,
LEMMA ConnectionTypes ==
  ASSUME Types, NEW w \in Workers,
         Register(w) \/ HandlerEnds(w) \/ LoseLink(w) \/ SeeLoss(w) \/ StartWorker(w)
  PROVE  Types'
<1>0. /\ DbTypes /\ PassTypes /\ KeyTypes /\ AskTypes
      /\ PauseTypes /\ LinkTypes /\ WorkTypes /\ HistTypes
  BY DEF Types
<1>1. /\ UNCHANGED <<dbVars, pauseVars, known, keyInfo, todo, isAllKeyAssigned, target>>
      /\ UNCHANGED <<submit, leaked, held, scan, guessed, hasty, cut>>
  BY DEF Register, HandlerEnds, LoseLink, SeeLoss, StartWorker, passVars, keyVars, askVars,
         workerVars, histVars
<1>2. PauseTypes'
  BY <1>0, <1>1, PauseFrame
<1>3. CASE Register(w)
  <2>1. /\ life[w] = "up" /\ workers' = workers \union {w}
        /\ conn' = [conn EXCEPT ![w] = "on"]
        /\ UNCHANGED <<budget, disturbed, mpc, AssignedKey, rescan, net, hand, life, assigned>>
    BY <1>3 DEF Register, passVars, keyVars, askVars, workerVars, histVars
  <2>2. LinkTypes' /\ KeyTypes'
    BY <1>0, <1>1, <2>1 DEF LinkTypes, KeyTypes, dbVars
  <2> QED
    BY <1>0, <1>1, <1>2, <2>1, <2>2, DbFrame, PassFrame, AskFrame, WorkFrame, HistFrame
    DEF Types, dbVars, passVars, askVars
<1>4. CASE HandlerEnds(w)
  <2>1. /\ conn[w] # "on" /\ workers' = workers \ {w}
        /\ AssignedKey' = [k \in Keys |-> IF AssignedKey[k] = w THEN Gone ELSE AssignedKey[k]]
        /\ mpc' \in {"stuck", mpc}
        /\ rescan' = IF rescan.to = w THEN [rescan EXCEPT !.step = "stuck"] ELSE rescan
        /\ UNCHANGED <<budget, disturbed, conn, net, hand, life, assigned>>
    BY <1>4 DEF HandlerEnds, workerVars, histVars
  <2>2. LinkTypes'
    BY <1>0, <2>1 DEF LinkTypes
  <2>3. KeyTypes'
    BY <1>0, <1>1, <2>1, OwnerAssumption DEF KeyTypes, dbVars
  <2>4. PassTypes'
    BY <1>0, <1>1, <2>1 DEF PassTypes, Passing
  <2>5. AskTypes'
    <3>1. CASE rescan.to = w
      <4>1. /\ rescan' \in Asked({"idle", "set", "store", "tell", "send", "stuck"})
            /\ rescan'.step = "stuck"
        BY <1>0, <2>1, <3>1 DEF AskTypes, Asked
      <4> QED
        BY <1>0, <1>1, <4>1 DEF AskTypes, dbVars
    <3>2. CASE rescan.to # w
      BY <1>0, <1>1, <2>1, <3>2, AskFrame DEF askVars, dbVars
    <3> QED
      BY <3>1, <3>2
  <2> QED
    BY <1>0, <1>1, <1>2, <2>1, <2>2, <2>3, <2>4, <2>5, DbFrame, WorkFrame, HistFrame
    DEF Types, dbVars
<1>5. CASE LoseLink(w)
  <2>1. /\ Cut({w}) /\ Spend("lost") /\ disturbed' = TRUE
        /\ UNCHANGED <<mpc, AssignedKey, workers, rescan, life, assigned>>
    BY <1>5 DEF LoseLink, passVars, keyVars, askVars, workerVars
  <2>2. LinkTypes'
    BY <1>0, <2>1, CutType DEF LinkTypes
  <2>3. DbTypes' /\ HistTypes'
    BY <1>0, <1>1, <2>1, SpendType DEF DbTypes, HistTypes, dbVars
  <2> QED
    BY <1>0, <1>1, <1>2, <2>1, <2>2, <2>3, PassFrame, KeyFrame, AskFrame, WorkFrame
    DEF Types, dbVars, passVars, keyVars, askVars
<1>6. CASE SeeLoss(w)
  <2>1. /\ conn[w] = "lost" /\ scan[w] = NoScan
        /\ conn' = [conn EXCEPT ![w] = "off"] /\ assigned' = [assigned EXCEPT ![w] = {}]
        /\ UNCHANGED <<mpc, AssignedKey, workers, rescan, life, net, hand, budget, disturbed>>
    BY <1>6 DEF SeeLoss, passVars, keyVars, askVars, histVars
  <2>2. LinkTypes'
    BY <1>0, <2>1 DEF LinkTypes
  <2>3. WorkTypes'
    BY <1>0, <1>1, <2>1 DEF WorkTypes, NoScan, dbVars
  <2> QED
    BY <1>0, <1>1, <1>2, <2>1, <2>2, <2>3, DbFrame, PassFrame, KeyFrame, AskFrame, HistFrame
    DEF Types, dbVars, passVars, keyVars, askVars
<1>7. CASE StartWorker(w)
  <2>1. /\ life[w] = "new" /\ life' = [life EXCEPT ![w] = "up"]
        /\ UNCHANGED <<mpc, AssignedKey, workers, rescan, conn, net, hand, assigned>>
        /\ UNCHANGED <<budget, disturbed>>
    BY <1>7 DEF StartWorker, passVars, keyVars, askVars, linkVars, histVars
  <2>2. LinkTypes'
    BY <1>0, <2>1 DEF LinkTypes
  <2> QED
    BY <1>0, <1>1, <1>2, <2>1, <2>2, DbFrame, PassFrame, KeyFrame, AskFrame, WorkFrame,
       HistFrame
    DEF Types, dbVars, passVars, keyVars, askVars
<1> QED
  BY <1>3, <1>4, <1>5, <1>6, <1>7

\* and the ends of processes.
LEMMA CrashTypes ==
  ASSUME Types, CrashMaster \/ \E w \in Workers : CrashWorker(w)
  PROVE  Types'
<1>0. /\ DbTypes /\ PassTypes /\ KeyTypes /\ AskTypes
      /\ PauseTypes /\ LinkTypes /\ WorkTypes /\ HistTypes
  BY DEF Types
<1>1. /\ UNCHANGED <<dbVars, keyInfo, held, guessed, hasty, cut>> /\ disturbed' = TRUE
      /\ Spend("restart") \/ Spend("crash")
  BY DEF CrashMaster, CrashWorker, keyVars, workerVars
<1>2. DbTypes' /\ HistTypes'
  BY <1>0, <1>1, SpendType DEF DbTypes, HistTypes, dbVars
<1>3. CASE CrashMaster
  <2>1. /\ mpc' = "down" /\ isAllKeyAssigned' = TRUE /\ target' = NoSend
        /\ known' = {} /\ workers' = {} /\ AssignedKey' = [k \in Keys |-> Nobody]
        /\ submit' = NoAsk /\ rescan' = NoAsk /\ leaked' = FALSE
        /\ pauseService' = TRUE /\ serviceStatus' = "pause" /\ handling' = "idle"
        /\ orders' = IF orders = <<>> THEN <<"resume">> ELSE orders
        /\ Cut(Workers) /\ UNCHANGED workerVars
    BY <1>3 DEF CrashMaster
  <2>2. PassTypes'
    BY <2>1 DEF PassTypes, Starting, Passing, NoSend
  <2>3. KeyTypes'
    BY <1>0, <1>1, <2>1, OwnerAssumption DEF KeyTypes
  <2>4. AskTypes'
    <3>1. NoAsk \in Asked({"idle"}) /\ NoAsk.step = "idle"
      BY DEF Asked, NoAsk, NoInfo, Info
    <3> QED
      BY <2>1, <3>1 DEF AskTypes, Asked
  <2>5. PauseTypes'
    <3>1. <<"resume">> \in Seq({"pause", "resume"})
      OBVIOUS
    <3> QED
      BY <1>0, <2>1, <3>1 DEF PauseTypes
  <2>6. LinkTypes'
    BY <1>0, <2>1, CutType DEF LinkTypes, workerVars
  <2>7. WorkTypes'
    BY <1>0, <1>1, <2>1, WorkFrame DEF workerVars, dbVars
  <2> QED
    BY <1>2, <2>2, <2>3, <2>4, <2>5, <2>6, <2>7 DEF Types
<1>4. ASSUME NEW w \in Workers, CrashWorker(w) PROVE Types'
  <2>1. /\ life' = [life EXCEPT ![w] = "ended"] /\ conn' = [conn EXCEPT ![w] = "off"]
        /\ net' = [net EXCEPT ![w] = <<>>] /\ hand' = [hand EXCEPT ![w] = NoMsg]
        /\ assigned' = [assigned EXCEPT ![w] = {}] /\ scan' = [scan EXCEPT ![w] = NoScan]
        /\ UNCHANGED <<passVars, keyVars, askVars, pauseVars, workers>>
    BY <1>4 DEF CrashWorker
  <2>2. LinkTypes'
    BY <1>0, <2>1, EmptyTypes DEF LinkTypes
  <2>3. WorkTypes'
    <3>1. assigned' \in [Workers -> SUBSET Keys] /\ scan' \in [Workers -> Batch]
      BY <1>0, <2>1, EmptyTypes DEF WorkTypes
    <3> QED
      BY <1>0, <1>1, <2>1, <3>1 DEF WorkTypes, NoScan, dbVars
  <2> QED
    BY <1>0, <1>1, <1>2, <2>1, <2>2, <2>3, PassFrame, KeyFrame, AskFrame, PauseFrame
    DEF Types, dbVars
<1> QED
  BY <1>3, <1>4

\* A worker takes a message,
LEMMA ProcessTypes ==
  ASSUME Types, NEW w \in Workers, Process(w)
  PROVE  Types'
<1>0. /\ DbTypes /\ PassTypes /\ KeyTypes /\ AskTypes
      /\ PauseTypes /\ LinkTypes /\ WorkTypes /\ HistTypes
  BY DEF Types
<1>1. /\ UNCHANGED <<dbVars, passVars, keyVars, askVars, pauseVars, workers, conn, life, scan>>
      /\ UNCHANGED <<cut, guessed, disturbed, budget>> /\ scan[w] = NoScan
  BY DEF Process
<1>2. PICK msg \in Mail :
         /\ Handle(w, msg)
         /\ net' \in [Workers -> Seq(Mail)] /\ hand' \in [Workers -> Mail]
         /\ \A v \in Workers : net'[v] # <<>> => net[v] # <<>>
  <2>1. CASE net[w] # <<>> /\ Handle(w, Head(net[w])) /\ net' = [net EXCEPT ![w] = Tail(@)]
             /\ UNCHANGED hand
    <3>1. Head(net[w]) \in Mail /\ Tail(net[w]) \in Seq(Mail)
      BY <1>0, <2>1 DEF LinkTypes
    <3>2. net' \in [Workers -> Seq(Mail)] /\ \A v \in Workers : net'[v] # <<>> => net[v] # <<>>
      BY <1>0, <2>1, <3>1 DEF LinkTypes
    <3> QED
      BY <1>0, <2>1, <3>1, <3>2 DEF LinkTypes
  <2>2. CASE Handle(w, hand[w]) /\ hand' = [hand EXCEPT ![w] = NoMsg] /\ UNCHANGED net
    BY <1>0, <2>2, EmptyTypes DEF LinkTypes
  <2> QED
    BY <2>1, <2>2 DEF Process
<1>3. LinkTypes'
  BY <1>0, <1>1, <1>2 DEF LinkTypes
<1>4. msg.cmd \in {"index", "reindex"} => msg.key \in Keys
  BY DEF Mail
<1>5. msg.info \in Info
  BY DEF Mail, Message
<1>6. assigned' \in [Workers -> SUBSET Keys] /\ \A v \in Workers : assigned[v] \subseteq assigned'[v]
  <2>1. assigned' = [assigned EXCEPT ![w] = IF msg.cmd = "index" THEN @ \union {msg.key} ELSE @]
    BY <1>2 DEF Handle
  <2> QED
    BY <1>0, <1>4, <2>1 DEF WorkTypes
<1>7. held' \in [Workers -> [Keys -> Info]]
  <2>1. CASE held' = held
    BY <1>0, <2>1 DEF WorkTypes
  <2>2. CASE held' = [held EXCEPT ![w][msg.key] = msg.info]
    BY <1>0, <1>5, <2>2 DEF WorkTypes
  <2> QED
    BY <1>2, <2>1, <2>2 DEF Handle
<1>8. WorkTypes'
  BY <1>0, <1>1, <1>6, <1>7 DEF WorkTypes, dbVars
<1>9. HistTypes'
  <2>1. CASE hasty' = hasty
    BY <1>0, <1>1, <2>1, HistFrame
  <2>2. CASE submit.step = "store" /\ hasty' = hasty \union {msg.key} /\ msg.key = submit.key
    <3>1. msg.key \in Keys
      BY <1>0, <2>2 DEF AskTypes, DbTypes
    <3> QED
      BY <1>0, <1>1, <2>2, <3>1 DEF HistTypes
  <2> QED
    BY <1>2, <2>1, <2>2 DEF Handle
<1> QED
  BY <1>0, <1>1, <1>3, <1>8, <1>9, DbFrame, PassFrame, KeyFrame, AskFrame, PauseFrame
  DEF Types, dbVars

\* The coins of a batch are stored ones that nobody has claimed: all from the
\* beginning of the batch to its last coin.
LEMMA UnknownFacts ==
  ASSUME DbTypes, NEW from \in Nat
  PROVE  /\ Unknown(from) \subseteq 0 .. count - 1 /\ Unknown(from) \intersect claimed = {}
         /\ Unknown(from) \subseteq Coins
         /\ Unknown(from) # {} =>
              /\ Last(Unknown(from)) \in Unknown(from)
              /\ \A c \in (0 .. count - 1) \ claimed :
                   (from = 0 \/ c > from) /\ c <= Last(Unknown(from)) => c \in Unknown(from)
<1> DEFINE all == {c \in 0 .. count - 1 : c \notin claimed /\ (from = 0 \/ c > from)}
           below(c) == {d \in all : d <= c}
<1>1. Unknown(from) = {c \in all : Cardinality(below(c)) <= Limit}
  BY DEF Unknown
<1>2. count \in 0 .. Cardinality(Coins) /\ Cardinality(Coins) \in Nat /\ count \in Nat
  <2>1. count \in 0 .. Cardinality(Coins) /\ Cardinality(Coins) \in Nat
    BY CoinFacts DEF DbTypes
  <2> QED
    BY <2>1
<1>3. 0 .. count - 1 \subseteq Coins
  <2>1. 0 .. count - 1 \subseteq 0 .. Cardinality(Coins) - 1
    BY <1>2
  <2> QED
    BY <2>1, CoinFacts
<1>4. all \subseteq 0 .. count - 1 /\ all \intersect claimed = {}
  OBVIOUS
<1>5. all \subseteq Nat /\ all \subseteq 0 .. count
  BY <1>2, <1>4
<1>6. ASSUME NEW c \in all, NEW d \in all, d <= c, Cardinality(below(c)) <= Limit
      PROVE  Cardinality(below(d)) <= Limit
  <2>1. c \in Nat /\ d \in Nat
    BY <1>5
  <2>2. below(d) \subseteq below(c)
    <3>1. ASSUME NEW e \in all, e <= d PROVE e <= c
      <4>1. e \in Nat
        BY <1>5
      <4> QED
        BY <1>6, <2>1, <3>1, <4>1
    <3> QED
      BY <3>1
  <2>3. below(c) \subseteq Coins
    BY <1>3, <1>4
  <2>4. IsFiniteSet(below(c))
    BY <2>3, CoinFacts, FS_Subset
  <2>5. Cardinality(below(d)) <= Cardinality(below(c))
    BY <2>2, <2>4, FS_Subset
  <2>6. Cardinality(below(d)) \in Nat /\ Cardinality(below(c)) \in Nat
    BY <2>2, <2>4, FS_Subset, FS_CardinalityType
  <2> HIDE DEF below, all
  <2> QED
    BY <1>6, <2>5, <2>6, ScenariosAssumption
<1> HIDE DEF below
<1>7. Unknown(from) \subseteq all /\ Unknown(from) \subseteq 0 .. count
  BY <1>1, <1>5
<1>8. ASSUME Unknown(from) # {}
      PROVE  /\ Last(Unknown(from)) \in Unknown(from)
             /\ \A c \in all : c <= Last(Unknown(from)) => c \in Unknown(from)
  <2>1. Last(Unknown(from)) \in Unknown(from)
    BY <1>2, <1>7, <1>8, LastIsGreatest
  <2> HIDE DEF all
  <2> QED
    BY <1>1, <1>6, <2>1
<1>9. ASSUME NEW c \in (0 .. count - 1) \ claimed, from = 0 \/ c > from
      PROVE  c \in all
  BY <1>9
<1> HIDE DEF all
<1> QED
  BY <1>3, <1>4, <1>7, <1>8, <1>9

\* A batch starts at or before the LastScanned of each key.
LEMMA MinScannedFacts ==
  ASSUME WorkTypes, NEW w \in Workers, assigned[w] # {}
  PROVE  /\ MinScanned(w) \in Nat
         /\ \A k \in assigned[w] : MinScanned(w) <= held[w][k].last
<1> DEFINE at(k) == IF held[w][k].has THEN held[w][k].last ELSE 0
           S == {at(k) : k \in assigned[w]}
<1>1. \A k \in assigned[w] : held[w][k].last \in Nat /\ at(k) \in Nat /\ at(k) <= held[w][k].last
  BY DEF WorkTypes, Info
<1>2. S \subseteq Nat /\ S # {}
  BY <1>1
<1>3. MinScanned(w) = First(S)
  BY DEF MinScanned
<1>4. \A k \in assigned[w] : at(k) \in S
  OBVIOUS
<1> HIDE DEF S, at
<1>5. MinScanned(w) \in S /\ \A j \in S : MinScanned(w) <= j
  BY <1>2, <1>3, FirstIsLeast
<1>6. ASSUME NEW k \in assigned[w] PROVE MinScanned(w) <= held[w][k].last
  <2>1. MinScanned(w) <= at(k) /\ MinScanned(w) \in Nat
    BY <1>2, <1>4, <1>5
  <2> QED
    BY <1>1, <2>1
<1> QED
  BY <1>2, <1>5, <1>6

\* What a batch does to the copies of the worker.
LEMMA BatchFacts ==
  ASSUME DbTypes, WorkTypes, NEW w \in Workers, NEW from \in Nat, Unknown(from) # {},
         ScanBatch(w, from)
  PROVE  LET found == Filtered(w, Unknown(from))
             new   == Last(Unknown(from))
         IN  /\ new \in Unknown(from) /\ new \in Nat
             /\ found \subseteq Unknown(from) /\ IsFiniteSet(found)
             /\ scan' = [scan EXCEPT ![w] = [step |-> "write", from |-> from, new |-> new,
                                             found |-> found, unsaved |-> assigned[w]]]
             /\ \A v \in Workers \ {w} : held'[v] = held[v]
             /\ \A k \in assigned[w] :
                  /\ held'[w][k].last = IF held[w][k].last < new THEN new ELSE held[w][k].last
                  /\ held'[w][k].total =
                       held[w][k].total + Cardinality({c \in found : Owner[c] = k})
             /\ held' \in [Workers -> [Keys -> Info]]
<1> DEFINE found == Filtered(w, Unknown(from))
           new   == Last(Unknown(from))
           more(k) == Cardinality({c \in found : Owner[c] = k})
           next(k) == [has   |-> TRUE,
                       last  |-> IF held[w][k].last < new THEN new ELSE held[w][k].last,
                       total |-> held[w][k].total + more(k)]
<1>1. /\ held' = [held EXCEPT ![w] = [k \in Keys |->
                   IF k \notin assigned[w] THEN @[k] ELSE next(k)]]
      /\ scan' = [scan EXCEPT ![w] = [step |-> "write", from |-> from, new |-> new,
                                      found |-> found, unsaved |-> assigned[w]]]
  BY DEF ScanBatch
<1>2. /\ new \in Unknown(from) /\ Unknown(from) \subseteq 0 .. count - 1
      /\ Unknown(from) \subseteq Coins
  BY UnknownFacts
<1>3. found \subseteq Unknown(from)
  BY DEF Filtered
<1>4. new \in Nat
  BY <1>2
<1>5. found \subseteq Coins /\ IsFiniteSet(found)
  BY <1>2, <1>3, CoinFacts, FS_Subset
<1> HIDE DEF found, new
<1>6. ASSUME NEW k PROVE more(k) \in Nat
  <2>1. {c \in found : Owner[c] = k} \in SUBSET found
    OBVIOUS
  <2> QED
    BY <1>5, <2>1, FS_Subset, FS_CardinalityType
<1> HIDE DEF more
<1>7. ASSUME NEW k \in Keys
      PROVE  /\ held[w][k] \in Info /\ next(k) \in Info
  <2>1. held[w][k] \in Info /\ held[w][k].last \in Nat /\ held[w][k].total \in Nat
    BY DEF WorkTypes, Info
  <2>2. held[w][k].total + more(k) \in Nat
    BY <1>6, <2>1
  <2> QED
    BY <1>4, <2>1, <2>2 DEF Info
<1>8. held' \in [Workers -> [Keys -> Info]]
  <2> HIDE DEF next
  <2> QED
    BY <1>1, <1>7 DEF WorkTypes
<1>9. ASSUME NEW k \in assigned[w] PROVE held'[w][k] = next(k)
  <2>1. k \in Keys
    BY DEF WorkTypes
  <2> HIDE DEF next
  <2> QED
    BY <1>1, <2>1 DEF WorkTypes
<1>10. \A v \in Workers \ {w} : held'[v] = held[v]
  BY <1>1 DEF WorkTypes
<1>11. ASSUME NEW k \in assigned[w]
       PROVE  /\ held'[w][k].last = IF held[w][k].last < new THEN new ELSE held[w][k].last
              /\ held'[w][k].total = held[w][k].total + more(k)
  <2>1. held'[w][k] = next(k)
    BY <1>9
  <2>2. next(k).last = IF held[w][k].last < new THEN new ELSE held[w][k].last
    OBVIOUS
  <2>3. next(k).total = held[w][k].total + more(k)
    OBVIOUS
  <2> HIDE DEF next
  <2> QED
    BY <2>1, <2>2, <2>3
<1>12. \A k : more(k) = Cardinality({c \in found : Owner[c] = k})
  BY DEF more
<1>13. scan' = [scan EXCEPT ![w] = [step |-> "write", from |-> from, new |-> new,
                                    found |-> found, unsaved |-> assigned[w]]]
  BY <1>1
<1> HIDE DEF next
<1>14. \A k \in assigned[w] :
         /\ held'[w][k].last = IF held[w][k].last < new THEN new ELSE held[w][k].last
         /\ held'[w][k].total = held[w][k].total + Cardinality({c \in found : Owner[c] = k})
  BY <1>11, <1>12, Zenon
<1> QED
  BY <1>2, <1>3, <1>4, <1>5, <1>8, <1>10, <1>13, <1>14, Zenon DEF found, new

\* and scans.
LEMMA ScanningTypes ==
  ASSUME Types, NEW w \in Workers, Scanning(w)
  PROVE  Types'
<1>0. /\ DbTypes /\ PassTypes /\ KeyTypes /\ AskTypes
      /\ PauseTypes /\ LinkTypes /\ WorkTypes /\ HistTypes
  BY DEF Types
<1>1. /\ UNCHANGED <<passVars, keyVars, askVars, pauseVars, linkVars, life, histVars>>
      /\ UNCHANGED <<count, submitted, assigned>>
  BY DEF Scanning, Scan, Claim, Save, EndBatch, dbVars
<1>2. PassTypes' /\ KeyTypes' /\ AskTypes' /\ PauseTypes' /\ LinkTypes' /\ HistTypes'
  BY <1>0, <1>1, PassFrame, KeyFrame, AskFrame, PauseFrame, LinkFrame, HistFrame
  DEF linkVars, histVars
<1>3. ASSUME NEW from \in Nat, Unknown(from) # {}, ScanBatch(w, from), UNCHANGED dbVars
      PROVE  Types'
  <2> DEFINE found == Filtered(w, Unknown(from))
             new   == Last(Unknown(from))
             batch == [step |-> "write", from |-> from, new |-> new,
                       found |-> found, unsaved |-> assigned[w]]
  <2>1. /\ found \subseteq Unknown(from) /\ scan' = [scan EXCEPT ![w] = batch] /\ new \in Nat
        /\ held' \in [Workers -> [Keys -> Info]]
    BY <1>0, <1>3, BatchFacts
  <2>2. Unknown(from) \subseteq 0 .. count - 1 /\ Unknown(from) \subseteq Coins
    BY <1>0, UnknownFacts
  <2>3. \A c \in found : Owner[c] \in assigned[w]
    BY DEF Filtered
  <2>4. assigned[w] \subseteq Keys
    BY <1>0 DEF WorkTypes
  <2> HIDE DEF found, new
  <2>5. batch \in Batch
    BY <2>1, <2>2, <2>4 DEF Batch
  <2>6. WorkTypes'
    <3>1. scan' \in [Workers -> Batch]
      BY <1>0, <2>1, <2>5 DEF WorkTypes
    <3>2. ASSUME NEW v \in Workers
          PROVE  /\ scan'[v].unsaved \subseteq assigned[v]
                 /\ scan'[v].found \subseteq 0 .. count - 1
                 /\ \A c \in scan'[v].found : Owner[c] \in assigned[v]
                 /\ scan'[v].step = "idle" => scan'[v] = NoScan
      <4>1. CASE v = w
        <5>1. scan'[v] = batch
          BY <1>0, <2>1, <4>1 DEF WorkTypes
        <5> QED
          BY <2>1, <2>2, <2>3, <4>1, <5>1
      <4>2. CASE v # w
        <5>1. scan'[v] = scan[v]
          BY <1>0, <2>1, <4>2 DEF WorkTypes
        <5> QED
          BY <1>0, <5>1 DEF WorkTypes
      <4> QED
        BY <4>1, <4>2
    <3> QED
      BY <1>0, <1>1, <2>1, <3>1, <3>2 DEF WorkTypes
  <2> QED
    BY <1>0, <1>1, <1>2, <1>3, <2>6, DbFrame DEF Types, histVars
<1>4. CASE Scan(w)
  <2>1. assigned[w] # {} /\ Unknown(MinScanned(w)) # {} /\ ScanBatch(w, MinScanned(w))
    BY <1>4 DEF Scan
  <2>2. MinScanned(w) \in Nat
    BY <1>0, <2>1, MinScannedFacts
  <2>3. UNCHANGED dbVars
    BY <1>4 DEF Scan
  <2> QED
    BY <1>3, <2>1, <2>2, <2>3
<1>5. CASE Claim(w)
  <2>1. PICK c \in scan[w].found :
           claimed' = claimed \union {c} /\ scan' = [scan EXCEPT ![w].found = @ \ {c}]
    BY <1>5 DEF Claim
  <2>2. UNCHANGED <<held, info>>
    BY <1>5 DEF Claim
  <2>3. scan[w].found \subseteq 0 .. count - 1
    BY <1>0 DEF WorkTypes
  <2>4. DbTypes'
    BY <1>0, <1>1, <2>1, <2>2, <2>3 DEF DbTypes, histVars
  <2>5. WorkTypes'
    <3>1. scan[w] \in Batch /\ scan[w].found \subseteq Coins
      BY <1>0 DEF WorkTypes, Batch
    <3>2. scan' \in [Workers -> Batch]
      BY <1>0, <2>1 DEF WorkTypes, Batch
    <3>3. scan[w].step = "write"
      BY <1>5 DEF Claim
    <3>4. ASSUME NEW v \in Workers
          PROVE  /\ scan'[v].found \subseteq scan[v].found
                 /\ scan'[v].unsaved = scan[v].unsaved
                 /\ scan'[v].step = "idle" => scan'[v] = scan[v] /\ scan[v].step = "idle"
      BY <1>0, <2>1, <3>1, <3>3 DEF WorkTypes, Batch
    <3> QED
      BY <1>0, <1>1, <2>2, <3>2, <3>4 DEF WorkTypes
  <2> QED
    BY <1>2, <2>4, <2>5 DEF Types
<1>6. CASE Save(w)
  <2>1. PICK k \in scan[w].unsaved :
           info' = [info EXCEPT ![k] = held[w][k]] /\ scan' = [scan EXCEPT ![w].unsaved = @ \ {k}]
    BY <1>6 DEF Save
  <2>2. UNCHANGED <<held, claimed>> /\ scan[w].step = "write"
    BY <1>6 DEF Save
  <2>3. k \in Keys /\ held[w][k] \in Info
    BY <1>0 DEF WorkTypes, Batch
  <2>4. DbTypes'
    BY <1>0, <1>1, <2>1, <2>2, <2>3 DEF DbTypes, histVars
  <2>5. WorkTypes'
    <3>1. scan' \in [Workers -> Batch]
      BY <1>0, <2>1 DEF WorkTypes, Batch
    <3>2. ASSUME NEW v \in Workers
          PROVE  /\ scan'[v].found = scan[v].found
                 /\ scan'[v].unsaved \subseteq scan[v].unsaved
                 /\ scan'[v].step = "idle" => scan'[v] = scan[v] /\ scan[v].step = "idle"
      BY <1>0, <2>1, <2>2 DEF WorkTypes, Batch
    <3> QED
      BY <1>0, <1>1, <2>2, <3>1, <3>2 DEF WorkTypes
  <2> QED
    BY <1>2, <2>4, <2>5 DEF Types
<1>7. CASE EndBatch(w)
  <2>1. UNCHANGED dbVars
    BY <1>7 DEF EndBatch
  <2>2. CASE Unknown(scan[w].new) # {} /\ ScanBatch(w, scan[w].new)
    <3>1. scan[w].new \in Nat
      BY <1>0 DEF WorkTypes, Batch
    <3> QED
      BY <1>3, <2>1, <2>2, <3>1
  <2>3. CASE scan' = [scan EXCEPT ![w] = NoScan] /\ UNCHANGED held
    <3>1. scan' \in [Workers -> Batch]
      BY <1>0, <2>3, EmptyTypes DEF WorkTypes
    <3>2. WorkTypes'
      BY <1>0, <1>1, <2>3, <3>1 DEF WorkTypes, NoScan
    <3> QED
      BY <1>0, <1>1, <1>2, <2>1, <3>2, DbFrame DEF Types, histVars
  <2> QED
    BY <1>7, <2>2, <2>3 DEF EndBatch
<1> QED
  BY <1>4, <1>5, <1>6, <1>7 DEF Scanning

LEMMA InitTypes == Init => Types
<1> SUFFICES ASSUME Init PROVE Types
  OBVIOUS
<1> USE DEF Init
<1>0. Cardinality(Coins) \in Nat /\ NoInfo \in Info
  BY CoinFacts DEF NoInfo, Info
<1>1. budget \in Bounds
  BY ScenariosAssumption DEF Bounds
<1>2. DbTypes
  <2>1. count \in 0 .. Cardinality(Coins) /\ info \in [Keys -> Info]
    BY <1>0, <1>1 DEF Bounds
  <2> QED
    BY <1>1, <2>1 DEF DbTypes
<1>3. PassTypes
  BY DEF PassTypes, Starting, NoSend
<1>4. KeyTypes
  BY <1>0, OwnerAssumption DEF KeyTypes
<1>5. AskTypes
  BY <1>0 DEF AskTypes, Asked, NoAsk
<1>6. PauseTypes
  <2>1. orders \in Seq({"pause", "resume"})
    BY <1>1 DEF Bounds
  <2> QED
    BY <2>1 DEF PauseTypes
<1>7. LinkTypes
  BY EmptyTypes DEF LinkTypes
<1>8. WorkTypes
  <2>1. /\ assigned \in [Workers -> SUBSET Keys] /\ held \in [Workers -> [Keys -> Info]]
        /\ scan \in [Workers -> Batch]
    BY <1>0, EmptyTypes
  <2> QED
    BY <2>1 DEF WorkTypes, NoScan
<1>9. HistTypes
  BY DEF HistTypes
<1> QED
  BY <1>2, <1>3, <1>4, <1>5, <1>6, <1>7, <1>8, <1>9 DEF Types

LEMMA NextTypes == Types /\ [Next]_vars => Types'
<1> SUFFICES ASSUME Types, [Next]_vars PROVE Types'
  OBVIOUS
<1>1. CASE UNCHANGED vars
  <2>1. UNCHANGED <<dbVars, passVars, keyVars, askVars, pauseVars, linkVars, workerVars, histVars>>
    BY <1>1 DEF vars
  <2>2. /\ DbTypes /\ PassTypes /\ KeyTypes /\ AskTypes
        /\ PauseTypes /\ LinkTypes /\ WorkTypes /\ HistTypes
    BY DEF Types
  <2>3. UNCHANGED <<budget, submitted, workers, life, count, assigned, held, scan>>
    BY <2>1 DEF dbVars, histVars, linkVars, workerVars
  <2>4. UNCHANGED <<guessed, hasty, cut, disturbed>>
    BY <2>1 DEF histVars
  <2> QED
    BY <2>1, <2>2, <2>3, <2>4, DbFrame, PassFrame, KeyFrame, AskFrame, PauseFrame, LinkFrame,
       WorkFrame, HistFrame
    DEF Types
<1>2. CASE StoreCoin \/ Requests \/ Faults
  <2>1. ASSUME NEW w \in Workers, LoseLink(w) PROVE Types'
    BY <2>1, ConnectionTypes
  <2> QED
    BY <1>2, <2>1, OrderTypes, RequestTypes, CrashTypes DEF Faults
<1>3. CASE Start \/ Pass \/ Adding \/ Rescanning \/ Order
  BY <1>3, StartTypes, PassTypesKept, RequestTypes, RescanTypes, OrderTypes
<1>4. ASSUME NEW w \in Workers,
             \/ Register(w) \/ HandlerEnds(w)
             \/ StartWorker(w) \/ SeeLoss(w) \/ Process(w) \/ Scanning(w)
      PROVE  Types'
  BY <1>4, ConnectionTypes, ProcessTypes, ScanningTypes
<1> QED
  BY <1>1, <1>2, <1>3, <1>4 DEF Next

LEMMA TypesImply == Types => TypeOK
<1> SUFFICES ASSUME Types PROVE TypeOK
  OBVIOUS
<1>0. /\ DbTypes /\ PassTypes /\ KeyTypes /\ AskTypes
      /\ PauseTypes /\ LinkTypes /\ WorkTypes /\ HistTypes
  BY DEF Types
<1>1. Mail \subseteq Message
  BY DEF Mail
<1>2. ASSUME NEW w \in Workers
      PROVE  /\ conn[w] = "on" => w \in workers /\ life[w] = "up"
             /\ net[w] \in Seq(Message) /\ (net[w] # <<>> => conn[w] = "on")
             /\ hand[w] \in Message
             /\ assigned[w] \subseteq Keys /\ held[w] \in [Keys -> Info]
             /\ scan[w].unsaved \subseteq assigned[w] /\ scan[w].found \subseteq Coins
  <2>1. net[w] \in Seq(Mail)
    BY <1>0 DEF LinkTypes
  <2>2. net[w] \in Seq(Message)
    BY <1>1, <2>1
  <2>3. scan[w] \in Batch
    BY <1>0 DEF WorkTypes
  <2> QED
    BY <1>0, <1>1, <2>2, <2>3 DEF LinkTypes, WorkTypes, Batch
<1>3. {isAllKeyAssigned, leaked, pauseService, disturbed} \subseteq BOOLEAN
  BY <1>0 DEF PassTypes, AskTypes, PauseTypes, HistTypes
<1>4. /\ mpc \in Starting \union {"gate", "lock"} \union Passing
      /\ known \subseteq submitted /\ keyInfo \in [Keys -> Info]
      /\ AssignedKey \in [Keys -> Workers \union {Nobody, Gone}]
      /\ \A k \in Keys : AssignedKey[k] \in Workers => AssignedKey[k] \in workers
  BY <1>0 DEF PassTypes, KeyTypes
<1> QED
  BY <1>0, <1>2, <1>3, <1>4 DEF TypeOK, DbTypes, PauseTypes, LinkTypes, HistTypes

\* The variables keep their types, and what they say of each other: only a
\* registered worker has a key or a connection, and only a connection has messages.
THEOREM SpecTypeOK == Spec => []TypeOK
BY InitTypes, NextTypes, TypesImply, PTL DEF Spec

-----------------------------------------------------------------------------
(* LastScanned and Total. *)

Of(k, S) == {c \in S : Owner[c] = k}

\* The stored coins that a worker still has to find.
Wanted ==
  {c \in (0 .. count - 1) \ claimed : Owner[c] \in Keys \ guessed /\ c >= cut[Owner[c]]}

\* A KeyInfo of k that passes over no coin of W, and counts no more than C has.
Backed(k, i, n, C, W) ==
  /\ i.last = 0 \/ (i.last < n /\ \A c \in Of(k, W) : i.last < c)
  /\ i.total <= Cardinality(Of(k, C))

\* Every copy of a KeyInfo may be the next that is written to Mongo: so it holds of
\* each, wherever it is and however old.
DbCopies     == \A k \in Keys : Backed(k, info[k], count, claimed, Wanted)
MasterCopies == \A k \in Keys : Backed(k, keyInfo[k], count, claimed, Wanted)
AskCopies ==
  /\ Backed(submit.key, submit.info, count, claimed, Wanted)
  /\ Backed(rescan.key, rescan.info, count, claimed, Wanted)
NetCopies ==
  \A w \in Workers :
    /\ \A i \in DOMAIN net[w] : Backed(net[w][i].key, net[w][i].info, count, claimed, Wanted)
    /\ Backed(hand[w].key, hand[w].info, count, claimed, Wanted)

\* In a batch the copies of a worker are ahead by the coins that it has found and
\* has not claimed yet.
HeldCopies ==
  \A w \in Workers : \A k \in assigned[w] :
    /\ Backed(k, held[w][k], count, claimed \union scan[w].found, Wanted \ scan[w].found)
    /\ scan[w].step = "write" => scan[w].new <= held[w][k].last

\* Nobody has looked for a key that is being submitted: FromNow may set where its
\* search begins.
SubmitInv ==
  /\ \A k \in Keys \ submitted : cut[k] = 0
  /\ mpc # "down" => \A k \in submitted : k \in known \/ (submit.step = "add" /\ k = submit.key)
  /\ mpc \in Starting => submit.step = "idle"

CopyInv == DbCopies /\ MasterCopies /\ AskCopies /\ NetCopies /\ HeldCopies /\ SubmitInv

\* Coins are stored and claimed, and no coin that was not wanted becomes so.
Forward ==
  /\ count <= count' /\ claimed \subseteq claimed'
  /\ \A c \in Wanted' : c \in Wanted \/ count <= c

LEMMA WantedType == DbTypes => Wanted \subseteq Nat /\ count \in Nat
<1> SUFFICES ASSUME DbTypes PROVE Wanted \subseteq Nat /\ count \in Nat
  OBVIOUS
<1>1. count \in 0 .. Cardinality(Coins) /\ Cardinality(Coins) \in Nat
  BY CoinFacts DEF DbTypes
<1>2. count \in Nat
  BY <1>1
<1> QED
  BY <1>2 DEF Wanted

LEMMA OfFinite ==
  ASSUME NEW S, IsFiniteSet(S), NEW k
  PROVE  IsFiniteSet(Of(k, S)) /\ Cardinality(Of(k, S)) \in Nat
<1>1. Of(k, S) \subseteq S
  BY DEF Of
<1> QED
  BY <1>1, FS_Subset, FS_CardinalityType

LEMMA DisjointUnion ==
  ASSUME NEW A, IsFiniteSet(A), NEW B, IsFiniteSet(B), A \intersect B = {}
  PROVE  Cardinality(A \union B) = Cardinality(A) + Cardinality(B)
<1>1. Cardinality(A \union B) = Cardinality(A) + Cardinality(B) - Cardinality(A \intersect B)
  BY FS_Union
<1>2. Cardinality(A \intersect B) = 0
  BY FS_EmptySet, Zenon
<1>3. Cardinality(A) \in Nat /\ Cardinality(B) \in Nat
  BY FS_CardinalityType
<1> QED
  BY <1>1, <1>2, <1>3

LEMMA ClaimedFinite == DbTypes => IsFiniteSet(claimed) /\ claimed \subseteq Coins
<1> SUFFICES ASSUME DbTypes PROVE claimed \subseteq Coins
  BY CoinFacts, FS_Subset
<1>1. count \in 0 .. Cardinality(Coins) /\ Cardinality(Coins) \in Nat /\ claimed \subseteq 0 .. count - 1
  BY CoinFacts DEF DbTypes
<1>2. 0 .. count - 1 \subseteq 0 .. Cardinality(Coins) - 1
  BY <1>1
<1> QED
  BY <1>1, <1>2, CoinFacts

DbFacts == Wanted \subseteq Nat /\ count \in Nat /\ IsFiniteSet(claimed)

LEMMA DbFactsHold == DbTypes => DbFacts
BY WantedType, ClaimedFinite DEF DbFacts

LEMMA DbFactsNext == DbTypes' => DbFacts'
BY DbFactsHold, PTL

\* What is backed stays so while coins are stored and claimed.
LEMMA BackedKept ==
  ASSUME NEW k, NEW i \in Info, NEW n \in Nat, NEW m \in Nat, n <= m,
         NEW C, NEW D, C \subseteq D, IsFiniteSet(D),
         NEW V, NEW W, W \subseteq Nat, \A c \in W : c \in V \/ n <= c,
         Backed(k, i, n, C, V)
  PROVE  Backed(k, i, m, D, W)
<1>1. i.last \in Nat /\ i.total \in Nat
  BY DEF Info
<1>2. i.total <= Cardinality(Of(k, D))
  <2>1. Of(k, C) \subseteq Of(k, D)
    BY DEF Of
  <2>2. IsFiniteSet(Of(k, D)) /\ Cardinality(Of(k, D)) \in Nat
    BY OfFinite
  <2>3. Cardinality(Of(k, C)) <= Cardinality(Of(k, D)) /\ Cardinality(Of(k, C)) \in Nat
    BY <2>1, <2>2, FS_Subset, FS_CardinalityType
  <2>4. i.total <= Cardinality(Of(k, C))
    BY DEF Backed
  <2> QED
    BY <1>1, <2>2, <2>3, <2>4
<1>3. ASSUME i.last # 0 PROVE i.last < m /\ \A c \in Of(k, W) : i.last < c
  <2>1. i.last < n /\ \A c \in Of(k, V) : i.last < c
    BY <1>3 DEF Backed
  <2>2. ASSUME NEW c \in Of(k, W) PROVE i.last < c
    <3>1. c \in Nat /\ (c \in Of(k, V) \/ n <= c)
      BY DEF Of
    <3> QED
      BY <1>1, <2>1, <3>1
  <2> QED
    BY <1>1, <2>1, <2>2
<1> QED
  BY <1>2, <1>3 DEF Backed

LEMMA Carried ==
  ASSUME DbTypes, DbTypes', Forward, NEW k, NEW i \in Info,
         Backed(k, i, count, claimed, Wanted)
  PROVE  Backed(k, i, count', claimed', Wanted')
<1>1. count \in Nat /\ count' \in Nat /\ Wanted' \subseteq Nat /\ IsFiniteSet(claimed')
  BY WantedType, DbFactsNext DEF DbFacts
<1>2. count <= count' /\ claimed \subseteq claimed' /\ \A c \in Wanted' : c \in Wanted \/ count <= c
  BY DEF Forward
<1> QED
  BY <1>1, <1>2, BackedKept

\* A KeyInfo that says nothing is backed.
LEMMA EmptyBacked ==
  ASSUME NEW k, NEW n, NEW C, IsFiniteSet(C), NEW W
  PROVE  Backed(k, NoInfo, n, C, W)
BY OfFinite DEF Backed, NoInfo

LEMMA ForwardSame ==
  UNCHANGED <<count, claimed, cut>> /\ guessed \subseteq guessed' /\ DbTypes => Forward
<1> SUFFICES ASSUME UNCHANGED <<count, claimed, cut>>, guessed \subseteq guessed', DbTypes
             PROVE  Forward
  OBVIOUS
<1>1. count \in Nat
  BY WantedType
<1>2. Wanted' \subseteq Wanted
  BY DEF Wanted
<1> QED
  BY <1>1, <1>2 DEF Forward

\* Copies that a step leaves alone.
LEMMA DbCopiesFrame ==
  ASSUME Types, Types', Forward, DbCopies, UNCHANGED info
  PROVE  DbCopies'
BY Carried DEF Types, DbTypes, DbCopies

LEMMA MasterCopiesFrame ==
  ASSUME Types, Types', Forward, MasterCopies, UNCHANGED keyInfo
  PROVE  MasterCopies'
BY Carried DEF Types, KeyTypes, MasterCopies

LEMMA AskCopiesFrame ==
  ASSUME Types, Types', Forward, AskCopies,
         UNCHANGED <<submit, rescan>>
  PROVE  AskCopies'
<1>1. submit.info \in Info /\ rescan.info \in Info
  BY DEF Types, AskTypes, Asked
<1> QED
  BY <1>1, Carried DEF Types, AskCopies

LEMMA NetCopiesFrame ==
  ASSUME Types, Types', Forward, NetCopies, UNCHANGED <<net, hand>>
  PROVE  NetCopies'
<1>1. ASSUME NEW w \in Workers
      PROVE  /\ hand[w].info \in Info
             /\ \A i \in DOMAIN net[w] : net[w][i].info \in Info
  <2>1. hand[w] \in Mail /\ net[w] \in Seq(Mail)
    BY DEF Types, LinkTypes
  <2>2. \A i \in DOMAIN net[w] : net[w][i] \in Mail
    BY <2>1
  <2> QED
    BY <2>1, <2>2 DEF Mail, Message
<1> QED
  BY <1>1, Carried DEF Types, NetCopies

\* The copies of a worker v that this step does not change.
LEMMA HeldKept ==
  ASSUME Types, Types', Forward, HeldCopies, NEW v \in Workers, NEW k \in assigned[v],
         held'[v][k] = held[v][k],
         claimed \union scan[v].found \subseteq claimed' \union scan'[v].found,
         scan'[v].step = "write" => scan[v].step = "write" /\ scan'[v].new = scan[v].new
  PROVE  /\ Backed(k, held'[v][k], count', claimed' \union scan'[v].found,
                   Wanted' \ scan'[v].found)
         /\ scan'[v].step = "write" => scan'[v].new <= held'[v][k].last
<1>1. count \in Nat /\ count' \in Nat /\ Wanted' \subseteq Nat /\ IsFiniteSet(claimed')
  BY WantedType, DbFactsNext DEF DbFacts, Types
<1>2. count <= count' /\ claimed \subseteq claimed' /\ \A c \in Wanted' : c \in Wanted \/ count <= c
  BY DEF Forward
<1>3. held[v][k] \in Info
  BY DEF Types, WorkTypes
<1>4. IsFiniteSet(claimed' \union scan'[v].found)
  <2>1. scan'[v].found \subseteq Coins
    BY DEF Types, WorkTypes, Batch
  <2>2. IsFiniteSet(scan'[v].found)
    BY <2>1, CoinFacts, FS_Subset
  <2> QED
    BY <1>1, <2>2, FS_Union
<1>5. Backed(k, held[v][k], count, claimed \union scan[v].found, Wanted \ scan[v].found)
  BY DEF HeldCopies
<1>6. \A c \in Wanted' : c \notin claimed'
  BY DEF Wanted
<1>7. \A c \in Wanted' \ scan'[v].found : c \in Wanted \ scan[v].found \/ count <= c
  BY <1>2, <1>6
<1>8. Wanted' \ scan'[v].found \subseteq Nat
  BY <1>1
<1> DEFINE C == claimed \union scan[v].found
           D == claimed' \union scan'[v].found
           V == Wanted \ scan[v].found
           W == Wanted' \ scan'[v].found
<1>9. /\ C \subseteq D /\ IsFiniteSet(D) /\ W \subseteq Nat
      /\ \A c \in W : c \in V \/ count <= c
      /\ Backed(k, held[v][k], count, C, V)
  BY <1>4, <1>5, <1>7, <1>8
<1> HIDE DEF C, D, V, W
<1>10. Backed(k, held[v][k], count', D, W)
  BY <1>1, <1>2, <1>3, <1>9, BackedKept
<1>11. scan'[v].step = "write" => scan'[v].new <= held'[v][k].last
  BY DEF HeldCopies
<1> QED
  BY <1>10, <1>11 DEF D, W

LEMMA HeldCopiesFrame ==
  ASSUME Types, Types', Forward, HeldCopies, UNCHANGED <<held, scan>>,
         \A v \in Workers : assigned'[v] \subseteq assigned[v]
  PROVE  HeldCopies'
<1>1. ASSUME NEW v \in Workers, NEW k \in assigned[v]
      PROVE  /\ Backed(k, held'[v][k], count', claimed' \union scan'[v].found,
                       Wanted' \ scan'[v].found)
             /\ scan'[v].step = "write" => scan'[v].new <= held'[v][k].last
  BY HeldKept DEF Forward
<1> QED
  BY <1>1 DEF HeldCopies

LEMMA SubmitInvFrame ==
  ASSUME SubmitInv, UNCHANGED <<submitted, cut, known, submit>>,
         mpc = "down" => mpc' = "down", mpc' \in Starting => mpc \in Starting
  PROVE  SubmitInv'
BY DEF SubmitInv

\* ReCheckOTAKey counts what is claimed, and makes up a LastScanned only for a key
\* that it adds to those it has guessed.
LEMMA RecountBacked ==
  ASSUME Types, DbCopies, NEW k \in Keys,
         NEW W, W \subseteq Wanted, ~info[k].has /\ Mine(k) # {} => Of(k, W) = {}
  PROVE  Backed(k, Recount(k), count, claimed, W)
<1>0. DbTypes
  BY DEF Types
<1>1. Backed(k, info[k], count, claimed, Wanted)
  BY DEF DbCopies
<1>2. /\ info[k].last = 0 \/ (info[k].last < count /\ \A c \in Of(k, W) : info[k].last < c)
      /\ info[k].total <= Cardinality(Mine(k))
  BY <1>1 DEF Backed, Of, Mine
<1>3. CASE Mine(k) = {}
  BY <1>2, <1>3 DEF Recount, Backed, Of, Mine
<1>4. CASE Mine(k) # {}
  <2> DEFINE last == IF info[k].has THEN info[k].last ELSE First(Mine(k))
  <2>1. Recount(k) = [has |-> TRUE, last |-> last, total |-> Cardinality(Mine(k))]
    BY <1>4 DEF Recount
  <2>2. last = 0 \/ (last < count /\ \A c \in Of(k, W) : last < c)
    BY <1>0, <1>2, <1>4, MineType
  <2>3. Cardinality(Mine(k)) \in Nat /\ Mine(k) = Of(k, claimed)
    BY <1>0, MineType DEF Mine, Of
  <2>4. Cardinality(Mine(k)) <= Cardinality(Of(k, claimed))
    BY <2>3
  <2>5. Recount(k).last = last /\ Recount(k).total = Cardinality(Mine(k))
    BY <2>1
  <2> HIDE DEF last
  <2> QED
    BY <2>2, <2>4, <2>5 DEF Backed
<1> QED
  BY <1>3, <1>4

\* The start of the master writes back what it has read and counted.
LEMMA StartCopies ==
  ASSUME Types, Types', CopyInv, Start
  PROVE  CopyInv'
<1>0. /\ DbCopies /\ MasterCopies /\ AskCopies /\ NetCopies /\ HeldCopies /\ SubmitInv
      /\ DbTypes /\ KeyTypes
  BY DEF CopyInv, Types
<1>1. /\ UNCHANGED <<submit, rescan, net, hand, held, scan, assigned>>
      /\ UNCHANGED <<count, claimed, submitted, cut>>
  BY DEF Start, Load, StoreLoaded, Recheck, StoreRechecked, dbVars, askVars, linkVars,
         workerVars, histVars
<1>2. guessed \subseteq guessed'
  BY DEF Start, Load, StoreLoaded, Recheck, StoreRechecked, histVars
<1>3. Forward
  BY <1>0, <1>1, <1>2, ForwardSame
<1>4. AskCopies' /\ NetCopies' /\ HeldCopies'
  BY <1>0, <1>1, <1>3, AskCopiesFrame, NetCopiesFrame, HeldCopiesFrame
<1>5. CASE Load
  <2>1. /\ known' = submitted /\ keyInfo' = info /\ mpc = "down" /\ mpc' = "load"
        /\ UNCHANGED info
    BY <1>5 DEF Load, dbVars
  <2>2. DbCopies'
    BY <1>0, <1>3, <2>1, DbCopiesFrame
  <2>3. MasterCopies'
    BY <2>1, <2>2 DEF DbCopies, MasterCopies
  <2>4. SubmitInv'
    BY <1>0, <1>1, <2>1 DEF SubmitInv, Starting
  <2> QED
    BY <1>4, <2>2, <2>3, <2>4 DEF CopyInv
<1>6. CASE StoreLoaded \/ StoreRechecked
  <2>1. /\ info' = [k \in Keys |-> IF k \in known THEN keyInfo[k] ELSE info[k]]
        /\ UNCHANGED <<known, keyInfo>> /\ mpc \in Starting /\ mpc # "down"
    BY <1>6 DEF StoreLoaded, StoreRechecked, keyVars, Starting
  <2>2. MasterCopies'
    BY <1>0, <1>3, <2>1, MasterCopiesFrame
  <2>3. ASSUME NEW k \in Keys PROVE Backed(k, info'[k], count', claimed', Wanted')
    <3>1. CASE k \in known
      <4>1. info'[k] = keyInfo'[k]
        BY <2>1, <3>1
      <4> QED
        BY <2>2, <4>1 DEF MasterCopies
    <3>2. CASE k \notin known
      <4>1. info'[k] = info[k] /\ info[k] \in Info
        BY <1>0, <2>1, <3>2 DEF DbTypes
      <4> QED
        BY <1>0, <1>3, <4>1, Carried DEF DbCopies, Types
    <3> QED
      BY <3>1, <3>2
  <2>4. SubmitInv'
    BY <1>0, <1>1, <2>1 DEF SubmitInv
  <2> QED
    BY <1>4, <2>2, <2>3, <2>4 DEF CopyInv, DbCopies
<1>7. CASE Recheck
  <2>1. /\ keyInfo' = [k \in Keys |-> IF k \in known THEN Recount(k) ELSE keyInfo[k]]
        /\ guessed' = guessed \union {k \in known : ~info[k].has /\ Mine(k) # {}}
        /\ UNCHANGED <<known, info>> /\ mpc \in Starting /\ mpc # "down"
    BY <1>7 DEF Recheck, dbVars, Starting
  <2>2. DbCopies'
    BY <1>0, <1>3, <2>1, DbCopiesFrame
  <2>3. ASSUME NEW k \in Keys PROVE Backed(k, keyInfo'[k], count', claimed', Wanted')
    <3>1. CASE k \in known
      <4>1. keyInfo'[k] = Recount(k)
        BY <2>1, <3>1
      <4>2. Wanted' \subseteq Wanted /\ (k \in guessed' => Of(k, Wanted') = {})
        BY <1>1, <1>2 DEF Wanted, Of
      <4>3. ~info[k].has /\ Mine(k) # {} => k \in guessed'
        BY <2>1, <3>1
      <4> QED
        BY <1>0, <1>1, <4>1, <4>2, <4>3, RecountBacked
    <3>2. CASE k \notin known
      <4>1. keyInfo'[k] = keyInfo[k] /\ keyInfo[k] \in Info
        BY <1>0, <2>1, <3>2 DEF KeyTypes
      <4> QED
        BY <1>0, <1>3, <4>1, Carried DEF MasterCopies, Types
    <3> QED
      BY <3>1, <3>2
  <2>4. SubmitInv'
    BY <1>0, <1>1, <2>1 DEF SubmitInv
  <2> QED
    BY <1>4, <2>2, <2>3, <2>4 DEF CopyInv, MasterCopies
<1> QED
  BY <1>5, <1>6, <1>7 DEF Start

\* What is sent is a copy too.
LEMMA SentCopies ==
  ASSUME Types, Types', Forward, NetCopies, UNCHANGED hand, NEW w \in Workers, NEW msg \in Mail,
         Backed(msg.key, msg.info, count, claimed, Wanted), Sent(w, msg)
  PROVE  NetCopies'
<1>1. CASE net' = net
  BY <1>1, NetCopiesFrame
<1>2. CASE net' = [net EXCEPT ![w] = Append(@, msg)]
  <2>1. \A v \in Workers : net[v] \in Seq(Mail) /\ hand[v] \in Mail
    BY DEF Types, LinkTypes
  <2>2. \A m \in Mail : m.info \in Info
    BY DEF Mail, Message
  <2>3. ASSUME NEW v \in Workers
        PROVE  Backed(hand'[v].key, hand'[v].info, count', claimed', Wanted')
    BY <2>1, <2>2, <2>3, Carried DEF Types, NetCopies
  <2>4. ASSUME NEW v \in Workers, NEW i \in DOMAIN net'[v]
        PROVE  Backed(net'[v][i].key, net'[v][i].info, count', claimed', Wanted')
    <3>1. PICK m \in Mail : /\ net'[v][i] = m
                            /\ Backed(m.key, m.info, count, claimed, Wanted)
      <4>1. CASE v = w
        <5>1. net'[v] = Append(net[v], msg)
          BY <1>2, <4>1 DEF Types, LinkTypes
        <5>2. CASE i \in DOMAIN net[v]
          <6>1. net'[v][i] = net[v][i] /\ net[v][i] \in Mail
            BY <2>1, <5>1, <5>2
          <6> QED
            BY <5>2, <6>1 DEF NetCopies
        <5>3. CASE i \notin DOMAIN net[v]
          <6>1. net'[v][i] = msg
            BY <2>1, <5>1, <5>3
          <6> QED
            BY <6>1
        <5> QED
          BY <5>2, <5>3
      <4>2. CASE v # w
        <5>1. net'[v] = net[v]
          BY <1>2, <4>2 DEF Types, LinkTypes
        <5>2. net[v][i] \in Mail /\ i \in DOMAIN net[v]
          BY <2>1, <5>1
        <5> QED
          BY <5>1, <5>2 DEF NetCopies
      <4> QED
        BY <4>1, <4>2
    <3> QED
      BY <2>2, <3>1, Carried DEF Types
  <2> QED
    BY <2>3, <2>4 DEF NetCopies
<1> QED
  BY <1>1, <1>2 DEF Sent

\* A pass reads the document of a key whose worker has left, and sends.
LEMMA PassCopies ==
  ASSUME Types, Types', CopyInv, Pass
  PROVE  CopyInv'
<1>0. /\ DbCopies /\ MasterCopies /\ AskCopies /\ NetCopies /\ HeldCopies /\ SubmitInv
      /\ DbTypes /\ KeyTypes /\ PassTypes
  BY DEF CopyInv, Types
<1>1. UNCHANGED <<dbVars, askVars, hand, workerVars, histVars, known>>
  BY DEF Pass, Gate, Lock, EndAssign, SendIndex, NextRun, SendRun, NoWorker, Assign, keyVars,
         linkVars
<1>2. UNCHANGED <<submit, rescan, held, scan, assigned, info, count, claimed, submitted, cut>>
      /\ UNCHANGED guessed
  BY <1>1 DEF dbVars, askVars, workerVars, histVars
<1>3. Forward
  BY <1>0, <1>2, ForwardSame
<1>4. DbCopies' /\ AskCopies' /\ HeldCopies'
  BY <1>0, <1>2, <1>3, DbCopiesFrame, AskCopiesFrame, HeldCopiesFrame
<1>5. SubmitInv'
  <2>1. mpc \notin Starting /\ mpc' \notin Starting
    BY DEF Pass, Gate, Lock, EndAssign, SendIndex, NextRun, SendRun, NoWorker, Assign, Starting
  <2> QED
    BY <1>0, <1>1, <1>2, <2>1, SubmitInvFrame DEF Starting
<1>6. CASE SendIndex
  <2> DEFINE msg == [cmd |-> "index", key |-> target.key, info |-> keyInfo[target.key]]
  <2>1. Sent(target.to, msg) /\ UNCHANGED keyInfo /\ mpc = "index"
    BY <1>6 DEF SendIndex, keyVars
  <2>2. target.key \in Keys /\ target.to \in Workers /\ keyInfo[target.key] \in Info
    BY <1>0, <2>1 DEF PassTypes, KeyTypes
  <2>3. msg \in Mail /\ msg.key = target.key /\ msg.info = keyInfo[target.key]
    BY <2>2 DEF Mail, Message
  <2>4. Backed(msg.key, msg.info, count, claimed, Wanted)
    BY <1>0, <2>2, <2>3 DEF MasterCopies
  <2> HIDE DEF msg
  <2>5. NetCopies'
    BY <1>0, <1>1, <1>3, <2>1, <2>2, <2>3, <2>4, SentCopies
  <2> QED
    BY <1>0, <1>3, <1>4, <1>5, <2>1, <2>5, MasterCopiesFrame DEF CopyInv
<1>7. CASE SendRun
  <2> DEFINE msg == [cmd |-> "run", key |-> NoKey, info |-> NoInfo]
  <2>1. Sent(target.to, msg) /\ UNCHANGED keyInfo /\ mpc = "run"
    BY <1>7 DEF SendRun, keyVars
  <2>2. target.to \in Workers
    BY <1>0, <2>1 DEF PassTypes
  <2>3. msg \in Mail /\ msg.info = NoInfo
    BY DEF Mail, Message, NoInfo, Info
  <2> HIDE DEF msg
  <2>4. Backed(msg.key, msg.info, count, claimed, Wanted)
    BY <1>0, <2>3, EmptyBacked, ClaimedFinite
  <2>5. NetCopies'
    BY <1>0, <1>1, <1>3, <2>1, <2>2, <2>3, <2>4, SentCopies
  <2> QED
    BY <1>0, <1>3, <1>4, <1>5, <2>1, <2>5, MasterCopiesFrame DEF CopyInv
<1>8. CASE Gate \/ Lock \/ EndAssign \/ NextRun
  <2>1. UNCHANGED <<keyInfo, net>>
    BY <1>8 DEF Gate, Lock, EndAssign, NextRun, keyVars, linkVars
  <2> QED
    BY <1>0, <1>1, <1>3, <1>4, <1>5, <2>1, MasterCopiesFrame, NetCopiesFrame DEF CopyInv
<1>9. ASSUME NEW k \in Keys, NoWorker(k) \/ \E w \in Workers : Assign(k, w) PROVE CopyInv'
  <2>1. /\ UNCHANGED net
        /\ keyInfo' = IF AssignedKey[k] = Gone THEN [keyInfo EXCEPT ![k] = info[k]] ELSE keyInfo
    BY <1>9 DEF NoWorker, Assign, Consider, linkVars
  <2>2. ASSUME NEW j \in Keys PROVE Backed(j, keyInfo'[j], count', claimed', Wanted')
    <3>1. keyInfo'[j] = keyInfo[j] \/ (j = k /\ keyInfo'[j] = info'[j])
      BY <1>0, <1>2, <2>1 DEF KeyTypes
    <3>2. CASE keyInfo'[j] = keyInfo[j]
      <4>1. keyInfo[j] \in Info
        BY <1>0 DEF KeyTypes
      <4> QED
        BY <1>0, <1>3, <3>2, <4>1, Carried DEF MasterCopies, Types
    <3>3. CASE keyInfo'[j] = info'[j]
      BY <1>4, <3>3 DEF DbCopies
    <3> QED
      BY <3>1, <3>2, <3>3
  <2> QED
    BY <1>0, <1>1, <1>3, <1>4, <1>5, <2>1, <2>2, NetCopiesFrame DEF CopyInv, MasterCopies
<1> QED
  BY <1>6, <1>7, <1>8, <1>9 DEF Pass

\* A client submits a key: with FromNow its search begins at the coins to come, less
\* the Window.
LEMMA SubmitCopies ==
  ASSUME Types, Types', CopyInv, NEW k \in Keys, NEW fromNow \in BOOLEAN, Submit(k, fromNow)
  PROVE  CopyInv'
<1>0. /\ DbCopies /\ MasterCopies /\ AskCopies /\ NetCopies /\ HeldCopies /\ SubmitInv
      /\ DbTypes /\ KeyTypes /\ HistTypes
  BY DEF CopyInv, Types
<1> DEFINE past == IF count < Window THEN 0 ELSE count - Window
           new  == IF fromNow THEN [has |-> TRUE, last |-> past, total |-> 0] ELSE info[k]
           from == IF fromNow /\ past > 0 THEN past + 1 ELSE 0
<1>1. /\ UNCHANGED <<mpc, known, keyInfo, rescan, net, hand, held, scan, assigned, info>>
      /\ UNCHANGED <<count, claimed, guessed>>
      /\ submitted' = submitted \union {k} /\ cut' = [cut EXCEPT ![k] = from]
      /\ submit' = [NoAsk EXCEPT !.step = "add", !.key = k, !.info = new]
      /\ mpc \notin Starting /\ submit.step = "idle" /\ k \notin known
  BY DEF Submit, passVars, keyVars, linkVars, workerVars
<1>2. count \in Nat /\ Window \in Nat \ {0}
  BY <1>0, WantedType, ScenariosAssumption
<1>3. past \in Nat /\ (past # 0 => past < count)
  BY <1>2
<1> HIDE DEF past
<1>4. from \in Nat
  BY <1>3
<1>5. k \notin submitted /\ cut[k] = 0
  BY <1>0, <1>1 DEF SubmitInv, Starting
<1>6. Wanted' \subseteq Wanted
  <2> SUFFICES ASSUME NEW c \in Wanted' PROVE c \in Wanted
    OBVIOUS
  <2>1. c \in (0 .. count - 1) \ claimed /\ Owner[c] \in Keys \ guessed /\ c >= cut'[Owner[c]]
    BY <1>1 DEF Wanted
  <2>2. CASE Owner[c] = k
    BY <1>2, <1>5, <2>1, <2>2 DEF Wanted
  <2>3. CASE Owner[c] # k
    <3>1. cut'[Owner[c]] = cut[Owner[c]]
      BY <1>0, <1>1, <2>3, <2>1 DEF HistTypes
    <3> QED
      BY <2>1, <3>1 DEF Wanted
  <2> QED
    BY <2>2, <2>3
<1>7. Forward
  BY <1>1, <1>2, <1>6 DEF Forward
<1>8. DbCopies' /\ MasterCopies' /\ NetCopies' /\ HeldCopies'
  BY <1>0, <1>1, <1>7, DbCopiesFrame, MasterCopiesFrame, NetCopiesFrame, HeldCopiesFrame
<1>9. Backed(k, new, count', claimed', Wanted')
  <2>1. CASE ~fromNow
    <3>1. new = info'[k]
      BY <1>1, <2>1
    <3> QED
      BY <1>8, <3>1 DEF DbCopies
  <2>2. CASE fromNow
    <3>1. new.last = past /\ new.total = 0
      BY <2>2
    <3>2. ASSUME past # 0, NEW c \in Of(k, Wanted') PROVE past < c
      <4>1. c >= cut'[k] /\ c \in 0 .. count - 1
        BY <1>1 DEF Wanted, Of
      <4>2. cut'[k] = past + 1
        BY <1>0, <1>1, <1>3, <2>2, <3>2 DEF HistTypes
      <4> QED
        BY <1>2, <1>3, <4>1, <4>2
    <3>3. Cardinality(Of(k, claimed')) \in Nat
      BY <1>0, <1>1, OfFinite, ClaimedFinite
    <3> HIDE DEF new
    <3>4. new.total <= Cardinality(Of(k, claimed'))
      BY <3>1, <3>3
    <3>5. new.last = 0 \/ (new.last < count' /\ \A c \in Of(k, Wanted') : new.last < c)
      BY <1>1, <1>3, <3>1, <3>2
    <3> QED
      BY <3>4, <3>5 DEF Backed
  <2> QED
    BY <2>1, <2>2
<1>10. submit' = [step |-> "add", key |-> k, info |-> new, to |-> Nobody]
  <2> HIDE DEF new
  <2> QED
    BY <1>1 DEF NoAsk
<1> HIDE DEF new, from
<1>11. AskCopies'
  <2>1. submit'.key = k /\ submit'.info = new
    BY <1>10
  <2>2. rescan.info \in Info
    BY DEF Types, AskTypes, Asked
  <2>3. Backed(rescan.key, rescan.info, count', claimed', Wanted')
    BY <1>0, <1>7, <2>2, Carried DEF Types, AskCopies
  <2> QED
    BY <1>1, <1>9, <2>1, <2>3 DEF AskCopies
<1>12. SubmitInv'
  <2>1. submit'.step = "add" /\ submit'.key = k
    BY <1>10
  <2>2. \A j \in Keys \ submitted' : cut'[j] = 0
    BY <1>0, <1>1 DEF SubmitInv, HistTypes
  <2> QED
    BY <1>0, <1>1, <2>1, <2>2 DEF SubmitInv, Starting
<1> QED
  BY <1>8, <1>11, <1>12 DEF CopyInv

\* The key enters the maps and is stored, and a client asks for a rescan.
LEMMA RequestCopies ==
  ASSUME Types, Types', CopyInv, Adding \/ \E k \in Keys : Rescan(k)
  PROVE  CopyInv'
<1>0. /\ DbCopies /\ MasterCopies /\ AskCopies /\ NetCopies /\ HeldCopies /\ SubmitInv
      /\ DbTypes /\ KeyTypes /\ AskTypes
  BY DEF CopyInv, Types
<1>1. /\ UNCHANGED <<mpc, net, hand, held, scan, assigned, count, claimed, guessed>>
      /\ UNCHANGED <<submitted, cut>>
  BY DEF Adding, Rescan, AddKey, StoreKey, passVars, linkVars, workerVars, dbVars, histVars
<1>2. Forward
  BY <1>0, <1>1, ForwardSame
<1>3. NetCopies' /\ HeldCopies'
  BY <1>0, <1>1, <1>2, NetCopiesFrame, HeldCopiesFrame
<1>4. submit.info \in Info /\ rescan.info \in Info
  BY <1>0 DEF AskTypes, Asked
<1>5. /\ Backed(submit.key, submit.info, count', claimed', Wanted')
      /\ Backed(rescan.key, rescan.info, count', claimed', Wanted')
  BY <1>0, <1>2, <1>4, Carried DEF Types, AskCopies
<1>6. CASE AddKey
  <2>1. /\ UNCHANGED <<info, rescan>> /\ submit.step = "add"
        /\ known' = known \union {submit.key}
        /\ keyInfo' = [keyInfo EXCEPT ![submit.key] = submit.info]
        /\ submit' = [submit EXCEPT !.step = "store"]
    BY <1>6 DEF AddKey, dbVars
  <2>2. submit'.step = "store" /\ submit'.key = submit.key /\ submit'.info = submit.info
    BY <1>0, <2>1 DEF AskTypes, Asked
  <2>3. ASSUME NEW j \in Keys PROVE Backed(j, keyInfo'[j], count', claimed', Wanted')
    <3>1. CASE j = submit.key
      <4>1. keyInfo'[j] = submit.info
        BY <1>0, <2>1, <3>1 DEF KeyTypes
      <4> QED
        BY <1>5, <3>1, <4>1
    <3>2. CASE j # submit.key
      <4>1. keyInfo'[j] = keyInfo[j] /\ keyInfo[j] \in Info
        BY <1>0, <2>1, <3>2 DEF KeyTypes
      <4> QED
        BY <1>0, <1>2, <4>1, Carried DEF MasterCopies, Types
    <3> QED
      BY <3>1, <3>2
  <2>4. AskCopies'
    BY <1>5, <2>1, <2>2 DEF AskCopies
  <2>5. SubmitInv'
    BY <1>0, <1>1, <2>1, <2>2 DEF SubmitInv
  <2> QED
    BY <1>0, <1>2, <1>3, <2>1, <2>3, <2>4, <2>5, DbCopiesFrame DEF CopyInv, MasterCopies
<1>7. CASE StoreKey
  <2>1. /\ UNCHANGED <<known, keyInfo, rescan>> /\ submit.step = "store"
        /\ info' = [info EXCEPT ![submit.key] = submit.info] /\ submit' = NoAsk
    BY <1>7 DEF StoreKey, keyVars
  <2>2. submit'.step = "idle" /\ submit'.info = NoInfo
    BY <2>1 DEF NoAsk
  <2>3. ASSUME NEW j \in Keys PROVE Backed(j, info'[j], count', claimed', Wanted')
    <3>1. CASE j = submit.key
      <4>1. info'[j] = submit.info
        BY <1>0, <2>1, <3>1 DEF DbTypes
      <4> QED
        BY <1>5, <3>1, <4>1
    <3>2. CASE j # submit.key
      <4>1. info'[j] = info[j] /\ info[j] \in Info
        BY <1>0, <2>1, <3>2 DEF DbTypes
      <4> QED
        BY <1>0, <1>2, <4>1, Carried DEF DbCopies, Types
    <3> QED
      BY <3>1, <3>2
  <2>4. Backed(submit'.key, submit'.info, count', claimed', Wanted')
    BY <1>0, <1>1, <2>2, EmptyBacked, ClaimedFinite
  <2>5. AskCopies'
    BY <1>5, <2>1, <2>4 DEF AskCopies
  <2>6. SubmitInv'
    BY <1>0, <1>1, <2>1, <2>2 DEF SubmitInv
  <2> QED
    BY <1>0, <1>2, <1>3, <2>1, <2>3, <2>5, <2>6, MasterCopiesFrame DEF CopyInv, DbCopies
<1>8. ASSUME NEW k \in Keys, Rescan(k) PROVE CopyInv'
  <2> DEFINE new == [Recount(k) EXCEPT !.has = TRUE, !.last = 0]
  <2>1. /\ UNCHANGED <<info, keyInfo, known, submit>>
        /\ rescan' = [NoAsk EXCEPT !.step = "set", !.key = k, !.info = new]
    BY <1>8 DEF Rescan, keyVars, dbVars
  <2>2. Recount(k) \in Info
    BY <1>0, RecountType
  <2>3. new.last = 0 /\ new.total = Recount(k).total
    BY <2>2 DEF Info
  <2>4. Recount(k).total <= Cardinality(Of(k, claimed))
    <3>1. Backed(k, Recount(k), count, claimed, {})
      BY <1>0, RecountBacked DEF Of
    <3> QED
      BY <3>1 DEF Backed
  <2> HIDE DEF new
  <2>5. Backed(k, new, count', claimed', Wanted')
    BY <1>1, <2>3, <2>4 DEF Backed
  <2>6. rescan'.key = k /\ rescan'.info = new
    BY <2>1 DEF NoAsk
  <2>7. AskCopies'
    BY <1>5, <2>1, <2>5, <2>6 DEF AskCopies
  <2>8. SubmitInv'
    BY <1>0, <1>1, <2>1, SubmitInvFrame
  <2> QED
    BY <1>0, <1>2, <1>3, <2>1, <2>7, <2>8, DbCopiesFrame, MasterCopiesFrame DEF CopyInv
<1> QED
  BY <1>6, <1>7, <1>8 DEF Adding

\* The rescan is written to the master, to Mongo and to the worker.
LEMMA RescanCopies ==
  ASSUME Types, Types', CopyInv, Rescanning
  PROVE  CopyInv'
<1>0. /\ DbCopies /\ MasterCopies /\ AskCopies /\ NetCopies /\ HeldCopies /\ SubmitInv
      /\ DbTypes /\ KeyTypes /\ AskTypes
  BY DEF CopyInv, Types
<1>1. /\ UNCHANGED <<mpc, known, submit, hand, held, scan, assigned, count, claimed, guessed>>
      /\ UNCHANGED <<submitted, cut>>
  BY DEF Rescanning, SetRescanned, StoreRescanned, TellWorker, SendReindex, passVars, keyVars,
         linkVars, workerVars, dbVars, histVars
<1>2. Forward
  BY <1>0, <1>1, ForwardSame
<1>3. HeldCopies' /\ SubmitInv'
  BY <1>0, <1>1, <1>2, HeldCopiesFrame, SubmitInvFrame
<1>4. submit.info \in Info /\ rescan.info \in Info
  BY <1>0 DEF AskTypes, Asked
<1>5. /\ Backed(submit.key, submit.info, count', claimed', Wanted')
      /\ Backed(rescan.key, rescan.info, count', claimed', Wanted')
  BY <1>0, <1>2, <1>4, Carried DEF Types, AskCopies
<1>6. AskCopies'
  <2>1. CASE rescan' = NoAsk
    <3>1. rescan'.info = NoInfo
      BY <2>1 DEF NoAsk
    <3>2. Backed(rescan'.key, rescan'.info, count', claimed', Wanted')
      BY <1>0, <1>1, <3>1, EmptyBacked, ClaimedFinite
    <3> QED
      BY <1>1, <1>5, <3>2 DEF AskCopies
  <2>2. CASE rescan' # NoAsk
    <3>1. rescan'.key = rescan.key /\ rescan'.info = rescan.info
      BY <1>0, <2>2
      DEF Rescanning, SetRescanned, StoreRescanned, TellWorker, SendReindex, AskTypes, Asked
    <3> QED
      BY <1>1, <1>5, <3>1 DEF AskCopies
  <2> QED
    BY <2>1, <2>2
<1>7. CASE SetRescanned
  <2>1. /\ UNCHANGED <<info, net>> /\ rescan.step = "set"
        /\ keyInfo' = [keyInfo EXCEPT ![rescan.key] = rescan.info]
    BY <1>7 DEF SetRescanned, dbVars, linkVars
  <2>2. ASSUME NEW j \in Keys PROVE Backed(j, keyInfo'[j], count', claimed', Wanted')
    <3>1. CASE j = rescan.key
      <4>1. keyInfo'[j] = rescan.info
        BY <1>0, <2>1, <3>1 DEF KeyTypes
      <4> QED
        BY <1>5, <3>1, <4>1
    <3>2. CASE j # rescan.key
      <4>1. keyInfo'[j] = keyInfo[j] /\ keyInfo[j] \in Info
        BY <1>0, <2>1, <3>2 DEF KeyTypes
      <4> QED
        BY <1>0, <1>2, <4>1, Carried DEF MasterCopies, Types
    <3> QED
      BY <3>1, <3>2
  <2> QED
    BY <1>0, <1>1, <1>2, <1>3, <1>6, <2>1, <2>2, DbCopiesFrame, NetCopiesFrame
    DEF CopyInv, MasterCopies
<1>8. CASE StoreRescanned
  <2>1. /\ UNCHANGED <<keyInfo, net>> /\ rescan.step = "store"
        /\ info' = [info EXCEPT ![rescan.key] = rescan.info]
    BY <1>8 DEF StoreRescanned, keyVars, linkVars
  <2>2. ASSUME NEW j \in Keys PROVE Backed(j, info'[j], count', claimed', Wanted')
    <3>1. CASE j = rescan.key
      <4>1. info'[j] = rescan.info
        BY <1>0, <2>1, <3>1 DEF DbTypes
      <4> QED
        BY <1>5, <3>1, <4>1
    <3>2. CASE j # rescan.key
      <4>1. info'[j] = info[j] /\ info[j] \in Info
        BY <1>0, <2>1, <3>2 DEF DbTypes
      <4> QED
        BY <1>0, <1>2, <4>1, Carried DEF DbCopies, Types
    <3> QED
      BY <3>1, <3>2
  <2> QED
    BY <1>0, <1>1, <1>2, <1>3, <1>6, <2>1, <2>2, MasterCopiesFrame, NetCopiesFrame
    DEF CopyInv, DbCopies
<1>9. CASE TellWorker
  <2>1. UNCHANGED <<info, keyInfo, net>>
    BY <1>9 DEF TellWorker, dbVars, keyVars, linkVars
  <2> QED
    BY <1>0, <1>1, <1>2, <1>3, <1>6, <2>1, DbCopiesFrame, MasterCopiesFrame, NetCopiesFrame
    DEF CopyInv
<1>10. CASE SendReindex
  <2> DEFINE msg == [cmd |-> "reindex", key |-> rescan.key, info |-> keyInfo[rescan.key]]
  <2>1. Sent(rescan.to, msg) /\ UNCHANGED <<info, keyInfo>> /\ rescan.step = "send"
    BY <1>10 DEF SendReindex, keyVars, dbVars
  <2>2. rescan.key \in Keys /\ rescan.to \in Workers /\ keyInfo[rescan.key] \in Info
    BY <1>0, <2>1 DEF AskTypes, KeyTypes
  <2>3. msg \in Mail /\ msg.key = rescan.key /\ msg.info = keyInfo[rescan.key]
    BY <2>2 DEF Mail, Message
  <2>4. Backed(msg.key, msg.info, count, claimed, Wanted)
    BY <1>0, <2>2, <2>3 DEF MasterCopies
  <2> HIDE DEF msg
  <2>5. NetCopies'
    BY <1>0, <1>1, <1>2, <2>1, <2>2, <2>3, <2>4, SentCopies
  <2> QED
    BY <1>0, <1>2, <1>3, <1>6, <2>1, <2>5, DbCopiesFrame, MasterCopiesFrame DEF CopyInv
<1> QED
  BY <1>7, <1>8, <1>9, <1>10 DEF Rescanning

\* Copies stay where they are while the coordinator gives its orders, coins are stored,
\* and workers come and see that they have lost their connection.
LEMMA AsideCopies ==
  ASSUME Types, Types', CopyInv,
         \/ Order \/ StoreCoin
         \/ \E w \in Workers : Register(w) \/ HandlerEnds(w) \/ SeeLoss(w) \/ StartWorker(w)
  PROVE  CopyInv'
<1>0. /\ DbCopies /\ MasterCopies /\ AskCopies /\ NetCopies /\ HeldCopies /\ SubmitInv
      /\ DbTypes /\ AskTypes
  BY DEF CopyInv, Types
<1>1. /\ UNCHANGED <<info, keyInfo, net, hand, submit, held, scan, known, submitted, cut>>
      /\ UNCHANGED <<claimed, guessed>>
  BY DEF Order, TakeOrder, OrderDone, StoreCoin, Register, HandlerEnds, SeeLoss, StartWorker,
         dbVars, keyVars, linkVars, askVars, workerVars, histVars
<1>2. Forward
  <2>1. CASE UNCHANGED count
    BY <1>0, <1>1, <2>1, ForwardSame
  <2>2. CASE StoreCoin
    <3>1. count' = count + 1 /\ count \in Nat
      BY <1>0, <2>2, WantedType DEF StoreCoin
    <3>2. \A c \in Wanted' : c \in Wanted \/ count <= c
      BY <1>1, <3>1 DEF Wanted
    <3> QED
      BY <1>1, <3>1, <3>2 DEF Forward
  <2>3. StoreCoin \/ UNCHANGED count
    BY DEF Order, TakeOrder, OrderDone, Register, HandlerEnds, SeeLoss, StartWorker, dbVars
  <2> QED
    BY <2>1, <2>2, <2>3
<1>3. AskCopies'
  <2>1. rescan' = rescan \/ rescan' = [rescan EXCEPT !.step = "stuck"]
    BY DEF Order, TakeOrder, OrderDone, StoreCoin, Register, HandlerEnds, SeeLoss, StartWorker,
           askVars
  <2>2. rescan'.key = rescan.key /\ rescan'.info = rescan.info
    BY <1>0, <2>1 DEF AskTypes, Asked
  <2>3. submit.info \in Info /\ rescan.info \in Info
    BY <1>0 DEF AskTypes, Asked
  <2>4. /\ Backed(submit.key, submit.info, count', claimed', Wanted')
        /\ Backed(rescan.key, rescan.info, count', claimed', Wanted')
    BY <1>0, <1>2, <2>3, Carried DEF Types, AskCopies
  <2> QED
    BY <1>1, <2>2, <2>4 DEF AskCopies
<1>4. HeldCopies'
  <2>1. \A v \in Workers : assigned'[v] \subseteq assigned[v]
    <3>1. CASE UNCHANGED assigned
      BY <3>1
    <3>2. ASSUME NEW w \in Workers, SeeLoss(w) PROVE \A v \in Workers : assigned'[v] \subseteq assigned[v]
      BY <3>2 DEF SeeLoss, Types, WorkTypes
    <3> QED
      BY <3>1, <3>2 DEF Order, TakeOrder, OrderDone, StoreCoin, Register, HandlerEnds,
         StartWorker, workerVars
  <2> QED
    BY <1>0, <1>1, <1>2, <2>1, HeldCopiesFrame
<1>5. SubmitInv'
  <2>1. mpc' \in {mpc, "stuck"}
    BY DEF Order, TakeOrder, OrderDone, StoreCoin, Register, HandlerEnds, SeeLoss, StartWorker,
           passVars
  <2>2. CASE mpc' = mpc
    BY <1>0, <1>1, <2>2, SubmitInvFrame
  <2>3. CASE mpc' = "stuck"
    <3>1. ASSUME NEW w \in Workers, HandlerEnds(w) PROVE mpc # "down"
      BY <3>1 DEF HandlerEnds, Serving
    <3>2. mpc' = mpc \/ mpc # "down"
      BY <3>1 DEF Order, TakeOrder, OrderDone, StoreCoin, Register, SeeLoss, StartWorker, passVars
    <3> QED
      BY <1>0, <1>1, <2>2, <2>3, <3>2, SubmitInvFrame DEF Starting
  <2> QED
    BY <2>1, <2>2, <2>3
<1> QED
  BY <1>0, <1>1, <1>2, <1>3, <1>4, <1>5, DbCopiesFrame, MasterCopiesFrame, NetCopiesFrame
  DEF CopyInv

\* Connections fail: a message is at most in the hand of its reader.
LEMMA CutCopies ==
  ASSUME Types, Types', Forward, NetCopies, NEW W \in SUBSET Workers, Cut(W)
  PROVE  NetCopies'
<1>1. net' = [w \in Workers |-> IF w \in W THEN <<>> ELSE net[w]]
  BY DEF Cut
<1>2. PICK kept \in SUBSET {w \in W : net[w] # <<>> /\ hand[w] = NoMsg} :
         hand' = [w \in Workers |-> IF w \in kept THEN Head(net[w]) ELSE hand[w]]
  BY DEF Cut
<1>3. \A m \in Mail : m.info \in Info
  BY DEF Mail, Message
<1>4. ASSUME NEW v \in Workers, NEW i \in DOMAIN net'[v]
      PROVE  Backed(net'[v][i].key, net'[v][i].info, count', claimed', Wanted')
  <2>1. net'[v] = net[v]
    BY <1>1
  <2>2. net[v] \in Seq(Mail)
    BY DEF Types, LinkTypes
  <2>3. i \in DOMAIN net[v] /\ net[v][i] \in Mail
    BY <2>1, <2>2
  <2> QED
    BY <1>3, <2>1, <2>3, Carried DEF Types, NetCopies
<1>5. ASSUME NEW v \in Workers
      PROVE  Backed(hand'[v].key, hand'[v].info, count', claimed', Wanted')
  <2>1. PICK m \in Mail : /\ hand'[v] = m
                          /\ Backed(m.key, m.info, count, claimed, Wanted)
    <3>1. CASE v \in kept
      <4>1. net[v] \in Seq(Mail) /\ net[v] # <<>>
        BY <1>2, <3>1 DEF Types, LinkTypes
      <4>2. 1 \in DOMAIN net[v] /\ Head(net[v]) = net[v][1] /\ Head(net[v]) \in Mail
        BY <4>1
      <4>3. hand'[v] = net[v][1]
        BY <1>2, <3>1, <4>2
      <4> QED
        BY <4>2, <4>3 DEF NetCopies
    <3>2. CASE v \notin kept
      <4>1. hand'[v] = hand[v] /\ hand[v] \in Mail
        BY <1>2, <3>2 DEF Types, LinkTypes
      <4> QED
        BY <4>1 DEF NetCopies
    <3> QED
      BY <3>1, <3>2
  <2> QED
    BY <1>3, <2>1, Carried DEF Types
<1> QED
  BY <1>4, <1>5 DEF NetCopies

\* A connection is lost, or a process ends: the other copies stay.
LEMMA FaultCopies ==
  ASSUME Types, Types', CopyInv, Faults
  PROVE  CopyInv'
<1>0. /\ DbCopies /\ MasterCopies /\ AskCopies /\ NetCopies /\ HeldCopies /\ SubmitInv
      /\ DbTypes /\ AskTypes
  BY DEF CopyInv, Types
<1>1. /\ UNCHANGED <<info, keyInfo, held, submitted, cut, count, claimed, guessed>>
  BY DEF Faults, CrashMaster, LoseLink, CrashWorker, dbVars, keyVars, workerVars
<1>2. Forward
  BY <1>0, <1>1, ForwardSame
<1>3. DbCopies' /\ MasterCopies'
  BY <1>0, <1>1, <1>2, DbCopiesFrame, MasterCopiesFrame
<1>4. CASE CrashMaster
  <2>1. /\ mpc' = "down" /\ submit' = NoAsk /\ rescan' = NoAsk /\ Cut(Workers)
        /\ UNCHANGED <<scan, assigned>>
    BY <1>4 DEF CrashMaster, workerVars
  <2>2. NetCopies'
    BY <1>0, <1>2, <2>1, CutCopies
  <2>3. submit'.info = NoInfo /\ rescan'.info = NoInfo /\ submit'.step = "idle"
    BY <2>1 DEF NoAsk
  <2>4. AskCopies'
    <3>1. /\ Backed(submit'.key, submit'.info, count', claimed', Wanted')
          /\ Backed(rescan'.key, rescan'.info, count', claimed', Wanted')
      BY <1>0, <1>1, <2>3, EmptyBacked, ClaimedFinite
    <3> QED
      BY <3>1 DEF AskCopies
  <2>5. HeldCopies'
    BY <1>0, <1>1, <1>2, <2>1, HeldCopiesFrame
  <2>6. SubmitInv'
    BY <1>0, <1>1, <2>1, <2>3 DEF SubmitInv
  <2> QED
    BY <1>3, <2>2, <2>4, <2>5, <2>6 DEF CopyInv
<1>5. ASSUME NEW w \in Workers, LoseLink(w) PROVE CopyInv'
  <2>1. Cut({w}) /\ UNCHANGED <<mpc, known, submit, rescan, scan, assigned>>
    BY <1>5 DEF LoseLink, passVars, keyVars, askVars, workerVars
  <2>2. NetCopies'
    BY <1>0, <1>2, <2>1, CutCopies
  <2>3. AskCopies' /\ HeldCopies' /\ SubmitInv'
    BY <1>0, <1>1, <1>2, <2>1, AskCopiesFrame, HeldCopiesFrame, SubmitInvFrame
  <2> QED
    BY <1>3, <2>2, <2>3 DEF CopyInv
<1>6. ASSUME NEW w \in Workers, CrashWorker(w) PROVE CopyInv'
  <2>1. /\ UNCHANGED <<mpc, known, submit, rescan>>
        /\ net' = [net EXCEPT ![w] = <<>>] /\ hand' = [hand EXCEPT ![w] = NoMsg]
        /\ assigned' = [assigned EXCEPT ![w] = {}] /\ scan' = [scan EXCEPT ![w] = NoScan]
    BY <1>6 DEF CrashWorker, passVars, keyVars, askVars
  <2>2. AskCopies' /\ SubmitInv'
    BY <1>0, <1>1, <1>2, <2>1, AskCopiesFrame, SubmitInvFrame
  <2>3. NetCopies'
    <3>1. ASSUME NEW v \in Workers
          PROVE  /\ \A i \in DOMAIN net'[v] :
                      Backed(net'[v][i].key, net'[v][i].info, count', claimed', Wanted')
                 /\ Backed(hand'[v].key, hand'[v].info, count', claimed', Wanted')
      <4>1. CASE v = w
        <5>1. net'[v] = <<>> /\ hand'[v] = NoMsg
          BY <2>1, <4>1 DEF Types, LinkTypes
        <5>2. hand'[v].info = NoInfo
          BY <5>1 DEF NoMsg
        <5>3. Backed(hand'[v].key, hand'[v].info, count', claimed', Wanted')
          BY <1>0, <1>1, <5>2, EmptyBacked, ClaimedFinite
        <5> QED
          BY <5>1, <5>3
      <4>2. CASE v # w
        <5>1. net'[v] = net[v] /\ hand'[v] = hand[v]
          BY <2>1, <4>2 DEF Types, LinkTypes
        <5>2. net[v] \in Seq(Mail) /\ hand[v] \in Mail
          BY DEF Types, LinkTypes
        <5>3. \A i \in DOMAIN net[v] : net[v][i] \in Mail
          BY <5>2
        <5>4. \A m \in Mail : m.info \in Info
          BY DEF Mail, Message
        <5> QED
          BY <1>0, <1>2, <5>1, <5>2, <5>3, <5>4, Carried DEF Types, NetCopies
      <4> QED
        BY <4>1, <4>2
    <3> QED
      BY <3>1 DEF NetCopies
  <2>4. HeldCopies'
    <3>1. ASSUME NEW v \in Workers, NEW k \in assigned'[v]
          PROVE  /\ Backed(k, held'[v][k], count', claimed' \union scan'[v].found,
                           Wanted' \ scan'[v].found)
                 /\ scan'[v].step = "write" => scan'[v].new <= held'[v][k].last
      <4>1. v # w /\ k \in assigned[v]
        BY <2>1, <3>1 DEF Types, WorkTypes
      <4>2. scan'[v] = scan[v]
        BY <2>1, <4>1 DEF Types, WorkTypes
      <4> QED
        BY <1>0, <1>1, <1>2, <4>1, <4>2, HeldKept
    <3> QED
      BY <3>1 DEF HeldCopies
  <2> QED
    BY <1>3, <2>2, <2>3, <2>4 DEF CopyInv
<1> QED
  BY <1>4, <1>5, <1>6 DEF Faults

\* A worker takes the copy that a message has.
LEMMA ProcessCopies ==
  ASSUME Types, Types', CopyInv, NEW w \in Workers, Process(w)
  PROVE  CopyInv'
<1>0. /\ DbCopies /\ MasterCopies /\ AskCopies /\ NetCopies /\ HeldCopies /\ SubmitInv
      /\ DbTypes /\ AskTypes
  BY DEF CopyInv, Types
<1>1. /\ UNCHANGED <<mpc, known, submit, rescan, info, keyInfo, scan, submitted>>
      /\ UNCHANGED <<cut, count, claimed, guessed>>
      /\ scan[w] = NoScan
  BY DEF Process, passVars, keyVars, askVars, dbVars
<1>2. Forward
  BY <1>0, <1>1, ForwardSame
<1>3. DbCopies' /\ MasterCopies' /\ AskCopies' /\ SubmitInv'
  BY <1>0, <1>1, <1>2, DbCopiesFrame, MasterCopiesFrame, AskCopiesFrame, SubmitInvFrame
<1>4. \A v \in Workers : net[v] \in Seq(Mail) /\ hand[v] \in Mail
  BY DEF Types, LinkTypes
<1>5. \A m \in Mail : m.info \in Info
  BY DEF Mail, Message
<1>6. PICK msg \in Mail : /\ Handle(w, msg)
                          /\ Backed(msg.key, msg.info, count, claimed, Wanted)
  <2>1. CASE net[w] # <<>> /\ Handle(w, Head(net[w]))
    <3>1. 1 \in DOMAIN net[w] /\ Head(net[w]) = net[w][1] /\ Head(net[w]) \in Mail
      BY <1>4, <2>1
    <3>2. Backed(net[w][1].key, net[w][1].info, count, claimed, Wanted)
      BY <1>0, <3>1 DEF NetCopies
    <3> QED
      BY <2>1, <3>1, <3>2
  <2>2. CASE Handle(w, hand[w])
    BY <1>0, <1>4, <2>2 DEF NetCopies
  <2> QED
    BY <2>1, <2>2 DEF Process
<1>7. Backed(msg.key, msg.info, count', claimed', Wanted')
  BY <1>2, <1>5, <1>6, Carried DEF Types
<1>8. NetCopies'
  <2>1. ASSUME NEW v \in Workers
        PROVE  Backed(hand'[v].key, hand'[v].info, count', claimed', Wanted')
    <3>1. hand'[v] = hand[v] \/ hand'[v] = NoMsg
      BY DEF Process, Types, LinkTypes
    <3>2. CASE hand'[v] = hand[v]
      BY <1>0, <1>2, <1>4, <1>5, <3>2, Carried DEF Types, NetCopies
    <3>3. CASE hand'[v] = NoMsg
      <4>1. hand'[v].info = NoInfo
        BY <3>3 DEF NoMsg
      <4> QED
        BY <1>0, <1>1, <4>1, EmptyBacked, ClaimedFinite
    <3> QED
      BY <3>1, <3>2, <3>3
  <2>2. ASSUME NEW v \in Workers, NEW i \in DOMAIN net'[v]
        PROVE  Backed(net'[v][i].key, net'[v][i].info, count', claimed', Wanted')
    <3>1. PICK j \in DOMAIN net[v] : net'[v][i] = net[v][j]
      <4>1. CASE net'[v] = net[v]
        BY <4>1
      <4>2. CASE net[v] # <<>> /\ net'[v] = Tail(net[v])
        <5>1. i \in 1 .. Len(net[v]) - 1 /\ net'[v][i] = net[v][i + 1]
          BY <1>4, <4>2
        <5>2. i + 1 \in DOMAIN net[v]
          BY <1>4, <5>1
        <5> QED
          BY <5>1, <5>2
      <4>3. net'[v] = net[v] \/ (net[v] # <<>> /\ net'[v] = Tail(net[v]))
        BY DEF Process, Types, LinkTypes
      <4> QED
        BY <4>1, <4>2, <4>3
    <3>2. net[v][j] \in Mail
      BY <1>4
    <3> QED
      BY <1>0, <1>2, <1>5, <3>1, <3>2, Carried DEF Types, NetCopies
  <2> QED
    BY <2>1, <2>2 DEF NetCopies
<1>9. HeldCopies'
  <2>1. ASSUME NEW v \in Workers, NEW k \in assigned'[v]
        PROVE  /\ Backed(k, held'[v][k], count', claimed' \union scan'[v].found,
                         Wanted' \ scan'[v].found)
               /\ scan'[v].step = "write" => scan'[v].new <= held'[v][k].last
    <3>1. /\ assigned' = [assigned EXCEPT ![w] =
                            IF msg.cmd = "index" THEN @ \union {msg.key} ELSE @]
          /\ held' = IF \/ msg.cmd = "index" /\ msg.key \notin assigned[w]
                        \/ msg.cmd = "reindex" /\ msg.key \in assigned[w]
                     THEN [held EXCEPT ![w][msg.key] = msg.info] ELSE held
      BY <1>6 DEF Handle
    <3>2. held \in [Workers -> [Keys -> Info]] /\ assigned \in [Workers -> SUBSET Keys]
      BY DEF Types, WorkTypes
    <3>3. k \in Keys
      BY DEF Types, WorkTypes
    <3>4. CASE k \in assigned[v] /\ held'[v][k] = held[v][k]
      BY <1>0, <1>1, <1>2, <3>4, HeldKept
    <3>5. CASE v = w /\ k = msg.key /\ held'[v][k] = msg.info
      <4>1. scan'[v].found = {} /\ scan'[v].step = "idle"
        BY <1>1, <3>5 DEF NoScan
      <4>2. claimed' \union {} = claimed' /\ Wanted' \ {} = Wanted'
        OBVIOUS
      <4> QED
        BY <1>7, <3>5, <4>1, <4>2
    <3>6. CASE v # w
      <4>1. k \in assigned[v] /\ held'[v] = held[v]
        BY <3>1, <3>2, <3>6
      <4> QED
        BY <3>4, <4>1
    <3>7. CASE v = w /\ k # msg.key
      <4>1. k \in assigned[v] /\ held'[v][k] = held[v][k]
        BY <3>1, <3>2, <3>3, <3>7
      <4> QED
        BY <3>4, <4>1
    <3>8. CASE v = w /\ k = msg.key
      <4>1. CASE held' = [held EXCEPT ![w][msg.key] = msg.info]
        <5>1. held'[v][k] = msg.info
          BY <3>2, <3>3, <3>8, <4>1
        <5> QED
          BY <3>5, <3>8, <5>1
      <4>2. CASE held' = held /\ msg.key \in assigned[w]
        BY <3>4, <3>8, <4>2
      <4>3. msg.key \notin assigned[w] => msg.cmd = "index"
        BY <3>1, <3>2, <3>8, <2>1
      <4> QED
        BY <3>1, <4>1, <4>2, <4>3
    <3> QED
      BY <3>6, <3>7, <3>8
  <2> QED
    BY <2>1 DEF HeldCopies
<1> QED
  BY <1>3, <1>8, <1>9 DEF CopyInv

\* A copy counts what the batch has found on top of what was claimed before.
LEMMA BatchTotal ==
  ASSUME DbTypes, WorkTypes, NEW w \in Workers, NEW from \in Nat, Unknown(from) # {},
         ScanBatch(w, from), NEW k \in assigned[w]
  PROVE  \E more \in Nat :
           /\ held'[w][k].total = held[w][k].total + more
           /\ Cardinality(Of(k, claimed \union scan'[w].found)) =
                Cardinality(Of(k, claimed)) + more
<1> DEFINE found == Filtered(w, Unknown(from))
           new   == Last(Unknown(from))
           batch == [step |-> "write", from |-> from, new |-> new,
                     found |-> found, unsaved |-> assigned[w]]
<1>1. /\ found \subseteq Unknown(from) /\ IsFiniteSet(found)
      /\ scan' = [scan EXCEPT ![w] = batch]
      /\ held'[w][k].total = held[w][k].total + Cardinality({c \in found : Owner[c] = k})
  BY BatchFacts
<1>2. scan'[w] = batch
  BY <1>1 DEF WorkTypes
<1>3. scan'[w].found = found
  BY <1>2
<1>4. Unknown(from) \intersect claimed = {}
  BY UnknownFacts
<1> HIDE DEF found, new, batch
<1>5. {c \in found : Owner[c] = k} = Of(k, found)
  BY DEF Of
<1>6. Of(k, claimed \union found) = Of(k, claimed) \union Of(k, found)
  BY DEF Of
<1>7. Of(k, claimed) \intersect Of(k, found) = {}
  BY <1>1, <1>4 DEF Of
<1>8. /\ IsFiniteSet(Of(k, claimed)) /\ IsFiniteSet(Of(k, found))
      /\ Cardinality(Of(k, found)) \in Nat
  BY <1>1, OfFinite, ClaimedFinite
<1>9. Cardinality(Of(k, claimed \union found)) =
        Cardinality(Of(k, claimed)) + Cardinality(Of(k, found))
  BY <1>6, <1>7, <1>8, DisjointUnion
<1>10. held'[w][k].total = held[w][k].total + Cardinality(Of(k, found))
  BY <1>1, <1>5
<1> QED
  BY <1>3, <1>8, <1>9, <1>10

\* A batch begins at or before every LastScanned, is without a gap, and keeps all that
\* it does not pass over: so its last coin is a LastScanned that passes over no coin
\* but those it has found.
LEMMA BatchBacked ==
  ASSUME Types, CopyInv, NEW w \in Workers, NEW from \in Nat, Unknown(from) # {},
         ScanBatch(w, from), scan[w].found = {}, UNCHANGED <<dbVars, histVars>>,
         NEW k \in assigned[w], from <= held[w][k].last
  PROVE  /\ Backed(k, held'[w][k], count', claimed' \union scan'[w].found,
                   Wanted' \ scan'[w].found)
         /\ scan'[w].new <= held'[w][k].last
<1> DEFINE found == Filtered(w, Unknown(from))
           new   == Last(Unknown(from))
           i     == held[w][k]
           j     == held'[w][k]
           batch == [step |-> "write", from |-> from, new |-> new,
                     found |-> found, unsaved |-> assigned[w]]
<1>0. DbTypes /\ WorkTypes
  BY DEF Types
<1>1. /\ new \in Unknown(from) /\ new \in Nat
      /\ found \subseteq Unknown(from) /\ IsFiniteSet(found)
      /\ scan' = [scan EXCEPT ![w] = batch]
      /\ j.last = IF i.last < new THEN new ELSE i.last
      /\ j.total = i.total + Cardinality({c \in found : Owner[c] = k})
  BY <1>0, BatchFacts
<1>2. /\ Unknown(from) \subseteq 0 .. count - 1 /\ Unknown(from) \intersect claimed = {}
      /\ \A c \in (0 .. count - 1) \ claimed :
           (from = 0 \/ c > from) /\ c <= new => c \in Unknown(from)
  BY <1>0, UnknownFacts
<1>3. \A c \in Unknown(from) :
        Owner[c] = k /\ ~(i.has /\ c < i.last) => c \in found
  BY DEF Filtered
<1>4. i \in Info /\ i.last \in Nat /\ i.total \in Nat
  BY <1>0 DEF WorkTypes, Info
<1>5. count \in Nat /\ Wanted \subseteq Nat /\ IsFiniteSet(claimed)
  BY <1>0, DbFactsHold DEF DbFacts
<1>6. UNCHANGED <<count, claimed, Wanted>>
  BY DEF dbVars, histVars, Wanted
<1>7. scan'[w] = batch
  BY <1>0, <1>1 DEF WorkTypes
<1>8. scan'[w].found = found /\ scan'[w].new = new
  BY <1>7
<1>9. Backed(k, i, count, claimed, Wanted)
  <2>1. Backed(k, i, count, claimed \union scan[w].found, Wanted \ scan[w].found)
    BY DEF CopyInv, HeldCopies
  <2>2. claimed \union scan[w].found = claimed /\ Wanted \ scan[w].found = Wanted
    OBVIOUS
  <2> QED
    BY <2>1, <2>2
<1> HIDE DEF found, new, i, j, batch
<1>10. new <= j.last
  BY <1>1, <1>4
<1>11. from <= i.last
  BY DEF i
<1>12. \A c \in Of(k, Wanted) : i.last = 0 \/ i.last < c
  BY <1>9 DEF Backed
<1>13. ASSUME NEW c \in Of(k, Wanted \ found) PROVE new < c /\ (i.last = 0 \/ i.last < c)
  <2>1. /\ c \in (0 .. count - 1) \ claimed /\ Owner[c] = k /\ c \notin found /\ c \in Nat
        /\ c \in Of(k, Wanted)
    BY <1>5 DEF Of, Wanted
  <2>2. i.last = 0 \/ i.last < c
    BY <1>12, <2>1
  <2>3. ASSUME c <= new PROVE FALSE
    <3>1. from = 0 \/ c > from
      BY <1>4, <1>11, <2>1, <2>2
    <3>2. c \in Unknown(from)
      BY <1>2, <2>1, <2>3, <3>1
    <3>3. ~(c < i.last)
      BY <1>4, <2>1, <2>2
    <3> QED
      BY <1>3, <2>1, <3>2, <3>3
  <2> QED
    BY <1>1, <2>1, <2>2, <2>3
<1>14. j.last = 0 \/ (j.last < count /\ \A c \in Of(k, Wanted \ found) : j.last < c)
  <2>1. CASE i.last < new
    <3>1. j.last = new
      BY <1>1, <2>1
    <3>2. new < count
      BY <1>1, <1>2, <1>5
    <3> QED
      BY <1>13, <3>1, <3>2
  <2>2. CASE ~(i.last < new)
    <3>1. j.last = i.last
      BY <1>1, <2>2
    <3>2. i.last = 0 \/ i.last < count
      BY <1>9 DEF Backed
    <3> QED
      BY <1>13, <3>1, <3>2
  <2> QED
    BY <2>1, <2>2
<1>15. j.total <= Cardinality(Of(k, claimed \union found))
  <2>1. PICK more \in Nat :
           /\ j.total = i.total + more
           /\ Cardinality(Of(k, claimed \union found)) = Cardinality(Of(k, claimed)) + more
    BY <1>0, <1>8, BatchTotal DEF i, j
  <2>2. Cardinality(Of(k, claimed)) \in Nat
    BY <1>5, OfFinite
  <2>3. i.total <= Cardinality(Of(k, claimed))
    BY <1>9 DEF Backed
  <2> QED
    BY <1>4, <2>1, <2>2, <2>3
<1>16. Backed(k, j, count, claimed \union found, Wanted \ found)
  BY <1>14, <1>15 DEF Backed
<1> QED
  BY <1>6, <1>8, <1>10, <1>16 DEF j

\* A scan: coins are claimed before the copies are saved.
LEMMA ScanningCopies ==
  ASSUME Types, Types', CopyInv, NEW w \in Workers, Scanning(w)
  PROVE  CopyInv'
<1>0. /\ DbCopies /\ MasterCopies /\ AskCopies /\ NetCopies /\ HeldCopies /\ SubmitInv
      /\ DbTypes /\ WorkTypes
  BY DEF CopyInv, Types
<1>1. /\ UNCHANGED <<mpc, known, keyInfo, submit, rescan, net, hand, assigned, submitted>>
      /\ UNCHANGED <<cut, count, guessed>>
  BY DEF Scanning, Scan, Claim, Save, EndBatch, passVars, keyVars, askVars, dbVars, linkVars,
         histVars
<1>2. claimed \subseteq claimed'
  BY DEF Scanning, Scan, Claim, Save, EndBatch, dbVars
<1>3. Forward
  <2>1. count \in Nat
    BY <1>0, WantedType
  <2> QED
    BY <1>1, <1>2, <2>1 DEF Forward, Wanted
<1>4. MasterCopies' /\ AskCopies' /\ NetCopies' /\ SubmitInv'
  BY <1>0, <1>1, <1>3, MasterCopiesFrame, AskCopiesFrame, NetCopiesFrame, SubmitInvFrame
<1>5. ASSUME NEW from \in Nat, Unknown(from) # {}, ScanBatch(w, from), scan[w].found = {},
             UNCHANGED <<dbVars, histVars>>, \A k \in assigned[w] : from <= held[w][k].last
      PROVE  CopyInv'
  <2>1. /\ \A v \in Workers \ {w} : held'[v] = held[v]
        /\ \A v \in Workers \ {w} : scan'[v] = scan[v]
    <3>1. \A v \in Workers \ {w} : held'[v] = held[v]
      BY <1>0, <1>5, BatchFacts
    <3>2. PICK b : scan' = [scan EXCEPT ![w] = b]
      BY <1>5 DEF ScanBatch
    <3> QED
      BY <1>0, <3>1, <3>2 DEF WorkTypes
  <2>2. ASSUME NEW v \in Workers, NEW k \in assigned[v]
        PROVE  /\ Backed(k, held'[v][k], count', claimed' \union scan'[v].found,
                         Wanted' \ scan'[v].found)
               /\ scan'[v].step = "write" => scan'[v].new <= held'[v][k].last
    <3>1. CASE v = w
      BY <1>5, <2>2, <3>1, BatchBacked
    <3>2. CASE v # w
      <4>1. held'[v] = held[v] /\ scan'[v] = scan[v]
        BY <2>1, <3>2
      <4> QED
        BY <1>0, <1>2, <1>3, <4>1, HeldKept
    <3> QED
      BY <3>1, <3>2
  <2>3. HeldCopies'
    BY <1>1, <2>2 DEF HeldCopies
  <2> QED
    BY <1>0, <1>3, <1>4, <1>5, <2>3, DbCopiesFrame DEF CopyInv, dbVars
<1>6. CASE Scan(w)
  <2>1. /\ assigned[w] # {} /\ Unknown(MinScanned(w)) # {} /\ ScanBatch(w, MinScanned(w))
        /\ scan[w] = NoScan /\ UNCHANGED <<dbVars, histVars>>
    BY <1>6 DEF Scan
  <2>2. /\ MinScanned(w) \in Nat
        /\ \A k \in assigned[w] : MinScanned(w) <= held[w][k].last
    BY <1>0, <2>1, MinScannedFacts
  <2>3. scan[w].found = {}
    BY <2>1 DEF NoScan
  <2> QED
    BY <1>5, <2>1, <2>2, <2>3
<1>7. CASE Claim(w)
  <2>1. PICK c \in scan[w].found :
           claimed' = claimed \union {c} /\ scan' = [scan EXCEPT ![w].found = @ \ {c}]
    BY <1>7 DEF Claim
  <2>2. UNCHANGED <<held, info>>
    BY <1>7 DEF Claim
  <2>3. ASSUME NEW v \in Workers, NEW k \in assigned[v]
        PROVE  /\ Backed(k, held'[v][k], count', claimed' \union scan'[v].found,
                         Wanted' \ scan'[v].found)
               /\ scan'[v].step = "write" => scan'[v].new <= held'[v][k].last
    <3>1. /\ scan'[v].step = scan[v].step /\ scan'[v].new = scan[v].new
          /\ scan[v].found \subseteq scan'[v].found \union {c}
      BY <1>0, <2>1 DEF WorkTypes, Batch
    <3>2. claimed \union scan[v].found \subseteq claimed' \union scan'[v].found
      BY <2>1, <3>1
    <3> QED
      BY <1>0, <1>3, <2>2, <3>1, <3>2, HeldKept
  <2>4. HeldCopies'
    BY <1>1, <2>3 DEF HeldCopies
  <2> QED
    BY <1>0, <1>3, <1>4, <2>2, <2>4, DbCopiesFrame DEF CopyInv
<1>8. CASE Save(w)
  <2>1. PICK k \in scan[w].unsaved :
           info' = [info EXCEPT ![k] = held[w][k]] /\ scan' = [scan EXCEPT ![w].unsaved = @ \ {k}]
    BY <1>8 DEF Save
  <2>2. UNCHANGED <<held, claimed>> /\ scan[w].found = {}
    BY <1>8 DEF Save
  <2>3. k \in Keys /\ k \in assigned[w]
    BY <1>0 DEF WorkTypes, Batch
  <2>4. UNCHANGED Wanted
    BY <1>1, <2>2 DEF Wanted
  <2>5. ASSUME NEW l \in Keys PROVE Backed(l, info'[l], count', claimed', Wanted')
    <3>1. CASE l = k
      <4>1. info'[l] = held[w][k]
        BY <1>0, <2>1, <3>1 DEF DbTypes
      <4>2. Backed(k, held[w][k], count, claimed \union scan[w].found, Wanted \ scan[w].found)
        BY <1>0, <2>3 DEF HeldCopies
      <4>3. claimed \union scan[w].found = claimed /\ Wanted \ scan[w].found = Wanted
        BY <2>2
      <4> QED
        BY <1>1, <2>2, <2>4, <3>1, <4>1, <4>2, <4>3
    <3>2. CASE l # k
      <4>1. info'[l] = info[l] /\ info[l] \in Info
        BY <1>0, <2>1, <3>2 DEF DbTypes
      <4> QED
        BY <1>0, <1>3, <4>1, Carried DEF DbCopies, Types
    <3> QED
      BY <3>1, <3>2
  <2>6. ASSUME NEW v \in Workers, NEW l \in assigned[v]
        PROVE  /\ Backed(l, held'[v][l], count', claimed' \union scan'[v].found,
                         Wanted' \ scan'[v].found)
               /\ scan'[v].step = "write" => scan'[v].new <= held'[v][l].last
    <3>1. /\ scan'[v].step = scan[v].step /\ scan'[v].new = scan[v].new
          /\ scan[v].found = scan'[v].found
      BY <1>0, <2>1 DEF WorkTypes, Batch
    <3> QED
      BY <1>0, <1>3, <2>2, <3>1, HeldKept
  <2>7. HeldCopies'
    BY <1>1, <2>6 DEF HeldCopies
  <2> QED
    BY <1>4, <2>5, <2>7 DEF CopyInv, DbCopies
<1>9. CASE EndBatch(w)
  <2>1. UNCHANGED <<dbVars, histVars>> /\ scan[w].found = {} /\ scan[w].step = "write"
    BY <1>9 DEF EndBatch
  <2>2. CASE Unknown(scan[w].new) # {} /\ ScanBatch(w, scan[w].new)
    <3>1. scan[w].new \in Nat
      BY <1>0 DEF WorkTypes, Batch
    <3>2. \A k \in assigned[w] : scan[w].new <= held[w][k].last
      BY <1>0, <2>1 DEF HeldCopies
    <3> QED
      BY <1>5, <2>1, <2>2, <3>1, <3>2
  <2>3. CASE scan' = [scan EXCEPT ![w] = NoScan] /\ UNCHANGED held
    <3>1. ASSUME NEW v \in Workers, NEW k \in assigned[v]
          PROVE  /\ Backed(k, held'[v][k], count', claimed' \union scan'[v].found,
                           Wanted' \ scan'[v].found)
                 /\ scan'[v].step = "write" => scan'[v].new <= held'[v][k].last
      <4>1. /\ scan[v].found \subseteq scan'[v].found
            /\ scan'[v].step = "write" => scan'[v] = scan[v]
        BY <1>0, <2>1, <2>3 DEF WorkTypes, NoScan
      <4>2. claimed \union scan[v].found \subseteq claimed' \union scan'[v].found
        BY <1>2, <4>1
      <4> QED
        BY <1>0, <1>3, <2>3, <4>1, <4>2, HeldKept
    <3>2. HeldCopies'
      BY <1>1, <3>1 DEF HeldCopies
    <3> QED
      BY <1>0, <1>3, <1>4, <2>1, <3>2, DbCopiesFrame DEF CopyInv, dbVars
  <2> QED
    BY <1>9, <2>2, <2>3 DEF EndBatch
<1> QED
  BY <1>6, <1>7, <1>8, <1>9 DEF Scanning

IndexInv == Types /\ CopyInv

LEMMA InitIndexInv == Init => IndexInv
<1> SUFFICES ASSUME Init PROVE CopyInv
  BY InitTypes DEF IndexInv
<1>0. Types /\ DbTypes
  BY InitTypes DEF Types
<1>1. /\ info = [k \in Keys |-> NoInfo] /\ keyInfo = info
      /\ submit = NoAsk /\ rescan = NoAsk /\ mpc = "down" /\ submitted = {}
      /\ net = [w \in Workers |-> <<>>] /\ hand = [w \in Workers |-> NoMsg]
      /\ assigned = [w \in Workers |-> {}] /\ cut = [k \in Keys |-> 0]
  BY DEF Init
<1>2. \A k : Backed(k, NoInfo, count, claimed, Wanted)
  BY <1>0, EmptyBacked, ClaimedFinite
<1>3. submit.info = NoInfo /\ rescan.info = NoInfo /\ NoMsg.info = NoInfo /\ submit.step = "idle"
  BY <1>1 DEF NoAsk, NoMsg
<1>4. DbCopies /\ MasterCopies /\ AskCopies /\ NetCopies
  BY <1>1, <1>2, <1>3 DEF DbCopies, MasterCopies, AskCopies, NetCopies
<1>5. HeldCopies /\ SubmitInv
  BY <1>1, <1>3 DEF HeldCopies, SubmitInv
<1> QED
  BY <1>4, <1>5 DEF CopyInv

LEMMA NextIndexInv == IndexInv /\ [Next]_vars => IndexInv'
<1> SUFFICES ASSUME IndexInv, [Next]_vars PROVE CopyInv'
  BY NextTypes DEF IndexInv
<1>0. Types /\ Types' /\ CopyInv
  BY NextTypes DEF IndexInv
<1>1. CASE UNCHANGED vars
  <2>1. UNCHANGED <<dbVars, passVars, keyVars, askVars, linkVars, workerVars, histVars>>
    BY <1>1 DEF vars
  <2>2. /\ UNCHANGED <<info, keyInfo, submit, rescan, net, hand, held, scan, assigned>>
        /\ UNCHANGED <<mpc, known, submitted, cut, count, claimed, guessed>>
    BY <2>1 DEF dbVars, passVars, keyVars, askVars, linkVars, workerVars, histVars
  <2>3. Forward
    BY <1>0, <2>2, ForwardSame DEF Types
  <2> QED
    BY <1>0, <2>2, <2>3, DbCopiesFrame, MasterCopiesFrame, AskCopiesFrame, NetCopiesFrame,
       HeldCopiesFrame, SubmitInvFrame
    DEF CopyInv
<1>2. CASE StoreCoin \/ Requests \/ Faults
  <2>1. ASSUME NEW k \in Keys, NEW fromNow \in BOOLEAN, Submit(k, fromNow) PROVE CopyInv'
    BY <1>0, <2>1, SubmitCopies
  <2> QED
    BY <1>0, <1>2, <2>1, AsideCopies, RequestCopies, FaultCopies DEF Requests
<1>3. CASE Start \/ Pass \/ Adding \/ Rescanning \/ Order
  BY <1>0, <1>3, StartCopies, PassCopies, RequestCopies, RescanCopies, AsideCopies
<1>4. ASSUME NEW w \in Workers,
             \/ Register(w) \/ HandlerEnds(w)
             \/ StartWorker(w) \/ SeeLoss(w) \/ Process(w) \/ Scanning(w)
      PROVE  CopyInv'
  BY <1>0, <1>4, AsideCopies, ProcessCopies, ScanningCopies
<1> QED
  BY <1>1, <1>2, <1>3, <1>4 DEF Next

\* No end of a process, no second worker for a key and no late write of an old copy
\* makes LastScanned pass over a coin that its key still has to claim.
THEOREM SpecScannedIsClaimed == Spec => []ScannedIsClaimed
<1>1. IndexInv => ScannedIsClaimed
  <2> SUFFICES ASSUME IndexInv,
                      NEW c \in (0 .. count - 1) \ claimed,
                      NEW k \in {Owner[c]} \ (guessed \union {NoKey}), c >= cut[k]
               PROVE  /\ info[k].last = 0 \/ info[k].last < c
                      /\ \A w \in Workers :
                           k \in assigned[w] /\ scan[w] = NoScan =>
                             held[w][k].last = 0 \/ held[w][k].last < c
    BY DEF ScannedIsClaimed
  <2>1. c \in Coins
    <3>1. DbTypes
      BY DEF IndexInv, Types
    <3>2. count \in 0 .. Cardinality(Coins) /\ Cardinality(Coins) \in Nat
      BY <3>1, CoinFacts DEF DbTypes
    <3>3. c \in 0 .. Cardinality(Coins) - 1
      BY <3>2
    <3> QED
      BY <3>3, CoinFacts
  <2>2. k \in Keys /\ k = Owner[c]
    BY <2>1, CoinFacts
  <2>3. c \in Of(k, Wanted)
    BY <2>2 DEF Of, Wanted
  <2>4. info[k].last = 0 \/ info[k].last < c
    BY <2>2, <2>3 DEF IndexInv, CopyInv, DbCopies, Backed
  <2>5. ASSUME NEW w \in Workers, k \in assigned[w], scan[w] = NoScan
        PROVE  held[w][k].last = 0 \/ held[w][k].last < c
    <3>1. Backed(k, held[w][k], count, claimed \union scan[w].found, Wanted \ scan[w].found)
      BY <2>5 DEF IndexInv, CopyInv, HeldCopies
    <3>2. scan[w].found = {}
      BY <2>5 DEF NoScan
    <3>3. c \in Of(k, Wanted \ scan[w].found)
      BY <2>3, <3>2 DEF Of
    <3> QED
      BY <3>1, <3>3 DEF Backed
  <2> QED
    BY <2>4, <2>5
<1> QED
  BY <1>1, InitIndexInv, NextIndexInv, PTL DEF Spec

\* The total of a key is at most the number of the coins that are claimed for it,
\* whatever was restarted, assigned twice, counted again or written late.
THEOREM SpecCountIsBacked == Spec => []CountIsBacked
<1>1. IndexInv => CountIsBacked
  <2> SUFFICES ASSUME IndexInv, NEW k \in Keys PROVE info[k].total <= Cardinality(Mine(k))
    BY DEF CountIsBacked
  <2>1. Backed(k, info[k], count, claimed, Wanted)
    BY DEF IndexInv, CopyInv, DbCopies
  <2>2. Of(k, claimed) = Mine(k)
    BY DEF Of, Mine
  <2> QED
    BY <2>1, <2>2 DEF Backed
<1> QED
  BY <1>1, InitIndexInv, NextIndexInv, PTL DEF Spec

-----------------------------------------------------------------------------
(* The exact count. *)

\* While nothing has failed there is no rescan, and no connection has been lost.
QuietInv ==
  /\ rescan = NoAsk
  /\ mpc \in Starting => submitted = {}
  /\ mpc \in {"assign", "index"} => todo \subseteq known
  /\ submit.step = "add" => submit.key \notin known
  /\ \A w \in Workers :
       /\ hand[w] = NoMsg /\ conn[w] # "lost" /\ (w \in workers => conn[w] = "on")
       /\ \A i \in DOMAIN net[w] : net[w][i].cmd # "reindex"

\* The key k is at the worker w, or on its way.
At(k, w) ==
  \/ k \in assigned[w]
  \/ \E i \in DOMAIN net[w] : net[w][i].key = k
  \/ target.key = k /\ target.to = w

\* A key is at one worker at most, the one that AssignedKey says.
PlaceInv ==
  \A k \in Keys :
    /\ AssignedKey[k] # Gone
    /\ k \notin known => AssignedKey[k] = Nobody
    /\ \A w \in Workers : At(k, w) => AssignedKey[k] = w

\* A key that no worker has got yet has no coin, and nothing else says that it has.
Zero(k) ==
  /\ Mine(k) = {} /\ info[k].total = 0 /\ keyInfo[k].total = 0
  /\ submit.key = k => submit.info.total = 0
  /\ \A w \in Workers : \A i \in DOMAIN net[w] :
       net[w][i].key = k => net[w][i].info.total = 0
FreshInv == \A k \in Keys : (\A w \in Workers : k \notin assigned[w]) => Zero(k)

\* The copy of a worker counts what is claimed and what it is about to claim, and is
\* in Mongo unless it is still to be saved.
Counted(k, w) ==
  /\ submit.key # k
  /\ held[w][k].total = Cardinality(Of(k, claimed \union scan[w].found))
  /\ k \notin scan[w].unsaved => scan[w].found = {} /\ info[k].total = held[w][k].total
ExactInv == \A w \in Workers : \A k \in assigned[w] \ hasty : Counted(k, w)

CalmInv == ~disturbed => QuietInv /\ PlaceInv /\ FreshInv /\ ExactInv

LEMMA ExactFrame ==
  ASSUME ExactInv,
         UNCHANGED <<assigned, hasty, submit, held, claimed, scan, info>>
  PROVE  ExactInv'
BY DEF ExactInv, Counted

LEMMA FreshFrame ==
  ASSUME FreshInv, UNCHANGED <<assigned, claimed, info, keyInfo, submit, net>>
  PROVE  FreshInv'
BY DEF FreshInv, Zero, Mine

LEMMA PlaceFrame ==
  ASSUME PlaceInv, UNCHANGED <<assigned, net, AssignedKey, known>>,
         UNCHANGED target \/ target'.key \notin Keys
  PROVE  PlaceInv'
BY DEF PlaceInv, At

\* Nothing disturbs the orders, the coins that are stored, new workers and new
\* connections.
LEMMA AsideCalm ==
  ASSUME Types, Types', QuietInv, PlaceInv, FreshInv, ExactInv,
         \/ Order \/ StoreCoin \/ Gate \/ Lock \/ EndAssign \/ NextRun
         \/ \E w \in Workers : Register(w) \/ StartWorker(w)
  PROVE  QuietInv' /\ PlaceInv' /\ FreshInv' /\ ExactInv'
<1>1. /\ UNCHANGED <<info, keyInfo, net, hand, submit, held, scan, known, submitted, rescan>>
      /\ UNCHANGED <<claimed, AssignedKey, assigned, hasty>>
  BY DEF Order, TakeOrder, OrderDone, StoreCoin, Gate, Lock, EndAssign, NextRun, Register,
         StartWorker, dbVars, keyVars, linkVars, askVars, workerVars, histVars
<1>2. UNCHANGED target \/ target'.key \notin Keys
  <2>1. CASE NextRun
    <3>1. UNCHANGED target \/ \E w : target' = [key |-> NoKey, to |-> w]
      BY <2>1 DEF NextRun
    <3>2. NoKey \notin Keys
      BY OwnerAssumption
    <3> QED
      BY <3>1, <3>2
  <2> QED
    BY <2>1 DEF Order, TakeOrder, OrderDone, StoreCoin, Gate, Lock, EndAssign, Register,
       StartWorker, passVars
<1>3. PlaceInv' /\ FreshInv' /\ ExactInv'
  BY <1>1, <1>2, PlaceFrame, FreshFrame, ExactFrame
<1>4. \A w \in Workers : conn'[w] # "lost" /\ (w \in workers' => conn'[w] = "on")
  <2>1. CASE UNCHANGED <<conn, workers>>
    BY <2>1 DEF QuietInv
  <2>2. ASSUME NEW v \in Workers, Register(v)
        PROVE  \A w \in Workers : conn'[w] # "lost" /\ (w \in workers' => conn'[w] = "on")
    BY <2>2 DEF Register, QuietInv, Types, LinkTypes
  <2> QED
    BY <2>1, <2>2
    DEF Order, TakeOrder, OrderDone, StoreCoin, Gate, Lock, EndAssign, NextRun, StartWorker,
        linkVars
<1>5. mpc' \in Starting => mpc \in Starting
  BY DEF Order, TakeOrder, OrderDone, StoreCoin, Gate, Lock, EndAssign, NextRun, Register,
         StartWorker, passVars, Starting
<1>6. mpc' \in {"assign", "index"} => todo' \subseteq known
  <2>1. CASE Lock
    BY <2>1 DEF Lock
  <2>2. CASE UNCHANGED <<mpc, todo>>
    BY <2>2 DEF QuietInv
  <2>3. CASE mpc' \notin {"assign", "index"}
    BY <2>3
  <2> QED
    BY <2>1, <2>2, <2>3
    DEF Order, TakeOrder, OrderDone, StoreCoin, Gate, EndAssign, NextRun, Register, StartWorker,
        passVars
<1>7. QuietInv'
  BY <1>1, <1>4, <1>5, <1>6 DEF QuietInv
<1> QED
  BY <1>3, <1>7

\* The first start of the master finds no keys.
LEMMA StartCalm ==
  ASSUME Types, Types', SubmitInv, QuietInv, PlaceInv, FreshInv, ExactInv, Start
  PROVE  QuietInv' /\ PlaceInv' /\ FreshInv' /\ ExactInv'
<1>1. /\ UNCHANGED <<net, hand, conn, workers, submit, held, scan, submitted, rescan, claimed>>
      /\ UNCHANGED <<assigned, target, hasty>>
      /\ mpc \in Starting /\ mpc' \notin {"assign", "index"}
  BY DEF Start, Load, StoreLoaded, Recheck, StoreRechecked, dbVars, linkVars, askVars,
         workerVars, histVars, Starting
<1>2. submitted = {} /\ known = {} /\ submit.step = "idle"
  BY <1>1 DEF QuietInv, SubmitInv, Types, KeyTypes
<1>3. known' = {}
  BY <1>1, <1>2 DEF Types, KeyTypes
<1>4. \A k \in Keys : AssignedKey[k] = Nobody /\ \A w \in Workers : ~At(k, w)
  BY <1>2, OwnerAssumption DEF PlaceInv
<1>5. info' = info
  <2>1. info' = info \/ info' = [k \in Keys |-> IF k \in known THEN keyInfo[k] ELSE info[k]]
    BY DEF Start, Load, StoreLoaded, Recheck, StoreRechecked, dbVars
  <2>2. info \in [Keys -> Info]
    BY DEF Types, DbTypes
  <2> QED
    BY <1>2, <2>1, <2>2
<1>6. \A k \in Keys : keyInfo'[k] \in {keyInfo[k], info[k]}
  BY <1>2 DEF Start, Load, StoreLoaded, Recheck, StoreRechecked, keyVars
<1>7. QuietInv'
  BY <1>1, <1>2 DEF QuietInv
<1>8. PlaceInv'
  <2>1. \A k \in Keys : AssignedKey'[k] = Nobody
    BY <1>4 DEF Start, Load, StoreLoaded, Recheck, StoreRechecked, keyVars
  <2> QED
    BY <1>1, <1>4, <2>1, OwnerAssumption DEF PlaceInv, At
<1>9. FreshInv'
  BY <1>1, <1>5, <1>6 DEF FreshInv, Zero, Mine
<1>10. ExactInv'
  BY <1>1, <1>5, ExactFrame
<1> QED
  BY <1>7, <1>8, <1>9, <1>10

\* A pass gives a key to a worker only when no other has it, and sends what the maps say.
LEMMA PassCalm ==
  ASSUME Types, Types', QuietInv, PlaceInv, FreshInv, ExactInv,
         \/ SendIndex \/ SendRun
         \/ \E k \in Keys : NoWorker(k) \/ \E w \in Workers : Assign(k, w)
  PROVE  QuietInv' /\ PlaceInv' /\ FreshInv' /\ ExactInv'
<1>1. /\ UNCHANGED <<info, hand, conn, workers, submit, held, scan, submitted, rescan, known>>
      /\ UNCHANGED <<claimed, assigned, hasty>> /\ mpc' \notin Starting
  BY DEF SendIndex, SendRun, NoWorker, Assign, dbVars, keyVars, linkVars, askVars, workerVars,
         histVars, Starting
<1>2. ExactInv'
  BY <1>1, ExactFrame
<1>3. \A v \in Workers : net[v] \in Seq(Mail)
  BY DEF Types, LinkTypes
<1>4. ASSUME NEW msg \in Mail, NEW w \in Workers, Sent(w, msg), msg.cmd # "reindex",
             msg.key \notin Keys \/ (msg.key = target.key /\ w = target.to
                                     /\ msg.info = keyInfo[msg.key]),
             UNCHANGED keyVars, target' = NoSend, mpc' \notin {"assign", "index"} \/ UNCHANGED todo,
             mpc = "index" \/ mpc' # "assign", mpc' # "index"
      PROVE  QuietInv' /\ PlaceInv' /\ FreshInv'
  <2>1. ASSUME NEW v \in Workers, NEW i \in DOMAIN net'[v]
        PROVE  \/ \E j \in DOMAIN net[v] : net'[v][i] = net[v][j]
               \/ v = w /\ net'[v][i] = msg
    <3>1. CASE net' = net
      BY <3>1
    <3>2. CASE net' = [net EXCEPT ![w] = Append(@, msg)]
      <4>1. CASE v = w
        <5>1. net'[v] = Append(net[v], msg)
          BY <3>2, <4>1 DEF Types, LinkTypes
        <5> QED
          BY <1>3, <4>1, <5>1
      <4>2. CASE v # w
        <5>1. net'[v] = net[v]
          BY <3>2, <4>2 DEF Types, LinkTypes
        <5> QED
          BY <5>1
      <4> QED
        BY <4>1, <4>2
    <3> QED
      BY <1>4, <3>1, <3>2 DEF Sent
  <2>2. QuietInv'
    <3>1. \A v \in Workers : \A i \in DOMAIN net'[v] : net'[v][i].cmd # "reindex"
      BY <1>4, <2>1 DEF QuietInv
    <3> QED
      BY <1>1, <1>4, <3>1 DEF QuietInv
  <2>3. PlaceInv'
    <3>1. ASSUME NEW k \in Keys, NEW v \in Workers, At(k, v)' PROVE At(k, v)
      <4>1. target'.key # k
        BY <1>4, OwnerAssumption DEF NoSend
      <4>2. k \in assigned[v] \/ \E i \in DOMAIN net'[v] : net'[v][i].key = k
        BY <1>1, <3>1, <4>1 DEF At
      <4>3. ASSUME NEW i \in DOMAIN net'[v], net'[v][i].key = k PROVE At(k, v)
        BY <1>4, <2>1, <4>3 DEF At
      <4> QED
        BY <4>2, <4>3 DEF At
    <3> QED
      BY <1>4, <3>1 DEF PlaceInv, keyVars
  <2>4. FreshInv'
    <3> SUFFICES ASSUME NEW k \in Keys, \A v \in Workers : k \notin assigned[v] PROVE Zero(k)'
      BY <1>1 DEF FreshInv
    <3>1. Zero(k)
      BY DEF FreshInv
    <3>2. ASSUME NEW v \in Workers, NEW i \in DOMAIN net'[v], net'[v][i].key = k
          PROVE  net'[v][i].info.total = 0
      BY <1>4, <2>1, <3>1, <3>2 DEF Zero
    <3> QED
      BY <1>1, <1>4, <3>1, <3>2 DEF Zero, Mine, keyVars
  <2> QED
    BY <2>2, <2>3, <2>4
<1>5. CASE SendIndex
  <2> DEFINE msg == [cmd |-> "index", key |-> target.key, info |-> keyInfo[target.key]]
  <2>1. /\ Sent(target.to, msg) /\ UNCHANGED keyVars /\ mpc = "index" /\ mpc' = "assign"
        /\ target' = NoSend /\ UNCHANGED todo
    BY <1>5 DEF SendIndex
  <2>2. target.key \in Keys /\ target.to \in Workers /\ keyInfo[target.key] \in Info
    BY <2>1 DEF Types, PassTypes, KeyTypes
  <2>3. /\ msg \in Mail /\ msg.cmd = "index" /\ msg.key = target.key
        /\ msg.info = keyInfo[msg.key]
    BY <2>2 DEF Mail, Message
  <2> HIDE DEF msg
  <2> QED
    BY <1>2, <1>4, <2>1, <2>2, <2>3
<1>6. CASE SendRun
  <2> DEFINE msg == [cmd |-> "run", key |-> NoKey, info |-> NoInfo]
  <2>1. /\ Sent(target.to, msg) /\ UNCHANGED keyVars /\ mpc = "run" /\ mpc' = "range"
        /\ target' = NoSend
    BY <1>6 DEF SendRun
  <2>2. target.to \in Workers
    BY <2>1 DEF Types, PassTypes
  <2>3. msg \in Mail /\ msg.cmd = "run" /\ msg.key = NoKey
    BY DEF Mail, Message, NoInfo, Info
  <2>4. NoKey \notin Keys
    BY OwnerAssumption
  <2> HIDE DEF msg
  <2> QED
    BY <1>2, <1>4, <2>1, <2>2, <2>3, <2>4
<1>7. ASSUME NEW k \in Keys, NoWorker(k) \/ \E w \in Workers : Assign(k, w)
      PROVE  QuietInv' /\ PlaceInv' /\ FreshInv'
  <2>1. AssignedKey[k] = Nobody /\ UNCHANGED net /\ mpc = "assign"
    BY <1>7 DEF NoWorker, Assign, Unassigned, PlaceInv, linkVars
  <2>2. UNCHANGED keyInfo
    BY <1>7, <2>1, OwnerAssumption DEF NoWorker, Assign, Consider
  <2>3. FreshInv'
    BY <1>1, <2>1, <2>2, FreshFrame
  <2>4. CASE NoWorker(k)
    <3>1. UNCHANGED <<target, AssignedKey>> /\ todo' = {}
      BY <2>4 DEF NoWorker
    <3>2. PlaceInv'
      BY <1>1, <2>1, <3>1, PlaceFrame
    <3> QED
      BY <1>1, <2>1, <2>3, <3>1, <3>2 DEF QuietInv
  <2>5. ASSUME NEW w \in Workers, Assign(k, w) PROVE QuietInv' /\ PlaceInv'
    <3>1. /\ k \in todo /\ todo' \subseteq todo /\ target' = [key |-> k, to |-> w]
          /\ AssignedKey' = [AssignedKey EXCEPT ![k] = w] /\ todo \subseteq known
      BY <2>1, <2>5 DEF Assign, Unassigned, QuietInv
    <3>2. QuietInv'
      BY <1>1, <2>1, <3>1 DEF QuietInv
    <3>3. \A v \in Workers : ~At(k, v)
      BY <2>1, OwnerAssumption DEF PlaceInv
    <3>4. ASSUME NEW j \in Keys
          PROVE  /\ AssignedKey'[j] # Gone
                 /\ j \notin known' => AssignedKey'[j] = Nobody
                 /\ \A v \in Workers : At(j, v)' => AssignedKey'[j] = v
      <4>1. AssignedKey \in [Keys -> Workers \union {Nobody, Gone}] /\ w # Gone
        BY OwnerAssumption DEF Types, KeyTypes
      <4>2. CASE j = k
        <5>1. AssignedKey'[j] = w /\ j \in known
          BY <3>1, <4>1, <4>2
        <5>2. ASSUME NEW v \in Workers, At(j, v)' PROVE v = w
          BY <1>1, <2>1, <3>1, <3>3, <4>2, <5>2 DEF At
        <5> QED
          BY <1>1, <4>1, <5>1, <5>2
      <4>3. CASE j # k
        <5>1. AssignedKey'[j] = AssignedKey[j]
          BY <3>1, <4>1, <4>3
        <5>2. ASSUME NEW v \in Workers, At(j, v)' PROVE At(j, v)
          BY <1>1, <2>1, <3>1, <4>3, <5>2 DEF At
        <5> QED
          BY <1>1, <5>1, <5>2 DEF PlaceInv
      <4> QED
        BY <4>2, <4>3
    <3> QED
      BY <3>2, <3>4 DEF PlaceInv
  <2> QED
    BY <1>7, <2>3, <2>4, <2>5
<1> QED
  BY <1>2, <1>5, <1>6, <1>7

\* A key that is submitted is at no worker.
LEMMA SubmitCalm ==
  ASSUME Types, Types', QuietInv, PlaceInv, FreshInv, ExactInv,
         NEW k \in Keys, NEW fromNow \in BOOLEAN, Submit(k, fromNow)
  PROVE  QuietInv' /\ PlaceInv' /\ FreshInv' /\ ExactInv'
<1> DEFINE past == IF count < Window THEN 0 ELSE count - Window
           new  == IF fromNow THEN [has |-> TRUE, last |-> past, total |-> 0] ELSE info[k]
<1>1. /\ UNCHANGED <<info, keyInfo, net, hand, conn, workers, held, scan, rescan, known>>
      /\ UNCHANGED <<AssignedKey, target, mpc, todo, claimed, assigned, hasty>>
      /\ mpc \notin Starting /\ k \notin known
      /\ submit' = [NoAsk EXCEPT !.step = "add", !.key = k, !.info = new]
  BY DEF Submit, passVars, keyVars, linkVars, workerVars
<1>2. PlaceInv'
  BY <1>1, PlaceFrame
<1>3. \A w \in Workers : k \notin assigned[w]
  BY <1>1, OwnerAssumption DEF PlaceInv, At
<1>4. Zero(k)
  BY <1>3 DEF FreshInv
<1>5. new.total = 0
  BY <1>4 DEF Zero
<1> HIDE DEF new
<1>6. submit'.step = "add" /\ submit'.key = k /\ submit'.info.total = 0
  BY <1>1, <1>5 DEF NoAsk
<1>7. QuietInv'
  BY <1>1, <1>6 DEF QuietInv
<1>8. FreshInv'
  BY <1>1, <1>6 DEF FreshInv, Zero, Mine
<1>9. ExactInv'
  <2> SUFFICES ASSUME NEW w \in Workers, NEW j \in assigned[w] \ hasty PROVE Counted(j, w)'
    BY <1>1 DEF ExactInv
  <2>1. Counted(j, w) /\ j # k
    BY <1>3 DEF ExactInv
  <2> QED
    BY <1>1, <1>6, <2>1 DEF Counted
<1> QED
  BY <1>2, <1>7, <1>8, <1>9

\* Nor does it get one before it is in the maps; then it is stored, and only a worker
\* that has it already would notice.
LEMMA AddingCalm ==
  ASSUME Types, Types', QuietInv, PlaceInv, FreshInv, ExactInv, Adding
  PROVE  QuietInv' /\ PlaceInv' /\ FreshInv' /\ ExactInv'
<1>1. /\ UNCHANGED <<net, hand, conn, workers, held, scan, rescan, submitted>>
      /\ UNCHANGED <<target, mpc, todo, claimed, assigned, hasty>>
      /\ submit.step # "idle"
  BY DEF Adding, AddKey, StoreKey, passVars, keyVars, linkVars, workerVars, histVars, dbVars
<1>2. submit.key \in Keys
  BY <1>1 DEF Types, AskTypes, DbTypes
<1>3. CASE AddKey
  <2>1. /\ UNCHANGED info /\ submit.step = "add"
        /\ known' = known \union {submit.key}
        /\ keyInfo' = [keyInfo EXCEPT ![submit.key] = submit.info]
        /\ AssignedKey' = [AssignedKey EXCEPT ![submit.key] = Nobody]
        /\ submit' = [submit EXCEPT !.step = "store"]
    BY <1>3 DEF AddKey, dbVars
  <2>2. submit'.step = "store" /\ submit'.key = submit.key /\ submit'.info = submit.info
    BY <2>1 DEF Types, AskTypes, Asked
  <2>3. AssignedKey[submit.key] = Nobody
    BY <1>2, <2>1 DEF QuietInv, PlaceInv
  <2>4. \A k \in Keys : AssignedKey'[k] = AssignedKey[k]
    BY <2>1, <2>3 DEF Types, KeyTypes
  <2>5. PlaceInv'
    BY <1>1, <2>1, <2>4 DEF PlaceInv, At
  <2>6. QuietInv'
    BY <1>1, <2>1, <2>2 DEF QuietInv
  <2>7. FreshInv'
    <3> SUFFICES ASSUME NEW k \in Keys, \A v \in Workers : k \notin assigned[v] PROVE Zero(k)'
      BY <1>1 DEF FreshInv
    <3>1. Zero(k)
      BY DEF FreshInv
    <3>2. keyInfo'[k].total = 0
      BY <2>1, <3>1 DEF Zero, Types, KeyTypes
    <3> QED
      BY <1>1, <2>1, <2>2, <3>1, <3>2 DEF Zero, Mine
  <2>8. ExactInv'
    <3> SUFFICES ASSUME NEW w \in Workers, NEW j \in assigned[w] \ hasty PROVE Counted(j, w)'
      BY <1>1 DEF ExactInv
    <3>1. Counted(j, w)
      BY DEF ExactInv
    <3> QED
      BY <1>1, <2>1, <2>2, <3>1 DEF Counted
  <2> QED
    BY <2>5, <2>6, <2>7, <2>8
<1>4. CASE StoreKey
  <2>1. /\ UNCHANGED <<known, keyInfo, AssignedKey>> /\ submit.step = "store"
        /\ info' = [info EXCEPT ![submit.key] = submit.info] /\ submit' = NoAsk
    BY <1>4 DEF StoreKey, keyVars
  <2>2. submit'.step = "idle" /\ submit'.key = NoKey /\ NoKey \notin Keys
    BY <2>1, OwnerAssumption DEF NoAsk
  <2>3. PlaceInv'
    BY <1>1, <2>1, PlaceFrame
  <2>4. QuietInv'
    BY <1>1, <2>1, <2>2 DEF QuietInv
  <2>5. FreshInv'
    <3> SUFFICES ASSUME NEW k \in Keys, \A v \in Workers : k \notin assigned[v] PROVE Zero(k)'
      BY <1>1 DEF FreshInv
    <3>1. Zero(k)
      BY DEF FreshInv
    <3>2. info'[k].total = 0
      BY <2>1, <3>1 DEF Zero, Types, DbTypes
    <3> QED
      BY <1>1, <2>1, <2>2, <3>1, <3>2 DEF Zero, Mine
  <2>6. ExactInv'
    <3> SUFFICES ASSUME NEW w \in Workers, NEW j \in assigned[w] \ hasty PROVE Counted(j, w)'
      BY <1>1 DEF ExactInv
    <3>1. Counted(j, w) /\ j \in Keys
      BY DEF ExactInv, Types, WorkTypes
    <3>2. info'[j] = info[j]
      BY <2>1, <3>1 DEF Counted, Types, DbTypes
    <3> QED
      BY <1>1, <2>2, <3>1, <3>2 DEF Counted
  <2> QED
    BY <2>3, <2>4, <2>5, <2>6
<1> QED
  BY <1>3, <1>4 DEF Adding

\* A worker gets a key that has no coin yet, and whose document is stored unless the
\* key is hasty.
LEMMA ProcessCalm ==
  ASSUME Types, Types', QuietInv, PlaceInv, FreshInv, ExactInv, NEW w \in Workers, Process(w)
  PROVE  QuietInv' /\ PlaceInv' /\ FreshInv' /\ ExactInv'
<1>1. /\ UNCHANGED <<info, keyInfo, conn, workers, scan, rescan, known, submitted, submit>>
      /\ UNCHANGED <<AssignedKey, target, mpc, todo, claimed>>
      /\ scan[w] = NoScan
  BY DEF Process, passVars, keyVars, dbVars, askVars
<1>2. /\ net[w] # <<>> /\ Handle(w, Head(net[w])) /\ net' = [net EXCEPT ![w] = Tail(@)]
      /\ UNCHANGED hand
  BY DEF Process, QuietInv
<1> DEFINE msg == Head(net[w])
<1>3. net[w] \in Seq(Mail) /\ net \in [Workers -> Seq(Mail)]
  BY DEF Types, LinkTypes
<1>4. /\ msg \in Mail /\ 1 \in DOMAIN net[w] /\ msg = net[w][1]
      /\ \A i \in DOMAIN Tail(net[w]) : \E j \in DOMAIN net[w] : Tail(net[w])[i] = net[w][j]
  <2>1. msg \in Mail /\ 1 \in DOMAIN net[w] /\ msg = net[w][1]
    BY <1>2, <1>3
  <2>2. ASSUME NEW i \in DOMAIN Tail(net[w])
        PROVE  \E j \in DOMAIN net[w] : Tail(net[w])[i] = net[w][j]
    <3>1. i \in 1 .. Len(net[w]) - 1 /\ Tail(net[w])[i] = net[w][i + 1]
      BY <1>2, <1>3
    <3>2. i + 1 \in DOMAIN net[w]
      BY <1>3, <3>1
    <3> QED
      BY <3>1, <3>2
  <2> QED
    BY <2>1, <2>2
<1>5. ASSUME NEW v \in Workers, NEW i \in DOMAIN net'[v]
      PROVE  \E j \in DOMAIN net[v] : net'[v][i] = net[v][j]
  <2>1. CASE v = w
    <3>1. net'[v] = Tail(net[w])
      BY <1>2, <1>3, <2>1
    <3> QED
      BY <1>4, <2>1, <3>1
  <2>2. CASE v # w
    <3>1. net'[v] = net[v]
      BY <1>2, <1>3, <2>2
    <3> QED
      BY <3>1
  <2> QED
    BY <2>1, <2>2
<1>6. /\ assigned' = [assigned EXCEPT ![w] = IF msg.cmd = "index" THEN @ \union {msg.key} ELSE @]
      /\ held' = IF msg.cmd = "index" /\ msg.key \notin assigned[w]
                 THEN [held EXCEPT ![w][msg.key] = msg.info] ELSE held
      /\ hasty' = IF submit.step = "store" /\ msg.key = submit.key
                  THEN hasty \union {msg.key} ELSE hasty
  <2>1. msg.cmd # "reindex"
    BY <1>4 DEF QuietInv
  <2> QED
    BY <1>2, <2>1 DEF Handle
<1> HIDE DEF msg
<1>7. QuietInv'
  <2>1. \A v \in Workers : \A i \in DOMAIN net'[v] : net'[v][i].cmd # "reindex"
    BY <1>5 DEF QuietInv
  <2> QED
    BY <1>1, <1>2, <2>1 DEF QuietInv
<1>8. /\ assigned \in [Workers -> SUBSET Keys] /\ held \in [Workers -> [Keys -> Info]]
      /\ \A v \in Workers : assigned[v] \subseteq assigned'[v]
  BY <1>6 DEF Types, WorkTypes
<1>9. \A k \in Keys : msg.key = k => At(k, w)
  BY <1>4 DEF At
<1>10. ASSUME NEW k \in Keys, NEW v \in Workers, At(k, v)' PROVE At(k, v)
  <2>1. CASE k \in assigned'[v]
    <3>1. k \in assigned[v] \/ (v = w /\ k = msg.key)
      BY <1>6, <1>8, <2>1
    <3> QED
      BY <1>9, <3>1 DEF At
  <2>2. ASSUME NEW i \in DOMAIN net'[v], net'[v][i].key = k PROVE At(k, v)
    BY <1>5, <2>2 DEF At
  <2> QED
    BY <1>1, <1>10, <2>1, <2>2 DEF At
<1>11. PlaceInv'
  BY <1>1, <1>10 DEF PlaceInv
<1>12. FreshInv'
  <2> SUFFICES ASSUME NEW k \in Keys, \A v \in Workers : k \notin assigned'[v] PROVE Zero(k)'
    BY DEF FreshInv
  <2>1. Zero(k)
    BY <1>8 DEF FreshInv
  <2>2. ASSUME NEW v \in Workers, NEW i \in DOMAIN net'[v], net'[v][i].key = k
        PROVE  net'[v][i].info.total = 0
    BY <1>5, <2>1, <2>2 DEF Zero
  <2> QED
    BY <1>1, <2>1, <2>2 DEF Zero, Mine
<1>13. ExactInv'
  <2> SUFFICES ASSUME NEW v \in Workers, NEW k \in assigned'[v] \ hasty' PROVE Counted(k, v)'
    BY DEF ExactInv
  <2>0. k \in Keys /\ k \notin hasty
    BY <1>6 DEF Types, WorkTypes
  <2>1. CASE k \in assigned[v]
    <3>1. held'[v][k] = held[v][k]
      <4>1. CASE v = w /\ k = msg.key
        BY <1>6, <2>1, <4>1
      <4>2. CASE v # w \/ k # msg.key
        BY <1>6, <1>8, <2>0, <4>2
      <4> QED
        BY <4>1, <4>2
    <3>2. Counted(k, v)
      BY <2>0, <2>1 DEF ExactInv
    <3> QED
      BY <1>1, <3>1, <3>2 DEF Counted
  <2>2. CASE k \notin assigned[v]
    <3>1. v = w /\ k = msg.key /\ msg.cmd = "index"
      BY <1>6, <1>8, <2>2
    <3>2. AssignedKey[k] = w
      BY <1>9, <2>0, <3>1 DEF PlaceInv
    <3>3. \A u \in Workers : k \notin assigned[u]
      <4> SUFFICES ASSUME NEW u \in Workers, k \in assigned[u] PROVE FALSE
        OBVIOUS
      <4>1. AssignedKey[k] = u
        BY <2>0 DEF PlaceInv, At
      <4> QED
        BY <2>2, <3>1, <3>2, <4>1
    <3>4. Zero(k)
      BY <2>0, <3>3 DEF FreshInv
    <3>5. held'[v][k] = msg.info /\ msg.info.total = 0
      <4>1. held'[v][k] = msg.info
        BY <1>6, <1>8, <2>0, <2>2, <3>1
      <4>2. msg.info.total = 0
        BY <1>4, <3>1, <3>4 DEF Zero
      <4> QED
        BY <4>1, <4>2
    <3>6. scan[v].found = {} /\ Of(k, claimed \union {}) = {}
      BY <1>1, <3>1, <3>4 DEF NoScan, Zero, Mine, Of
    <3>7. submit.key # k
      <4>1. CASE submit.step = "store"
        BY <1>6, <3>1, <4>1, <2>0
      <4>2. CASE submit.step = "add"
        <5>1. submit.key \notin known
          BY <4>2 DEF QuietInv
        <5>2. k \in known
          BY <2>0, <3>2, OwnerAssumption DEF PlaceInv
        <5> QED
          BY <5>1, <5>2
      <4>3. CASE submit.step = "idle"
        <5>1. submit.key = NoKey
          BY <4>3 DEF Types, AskTypes, NoAsk
        <5> QED
          BY <2>0, <5>1, OwnerAssumption
      <4> QED
        BY <4>1, <4>2, <4>3 DEF Types, AskTypes, Asked
    <3>8. Cardinality(Of(k, claimed \union scan[v].found)) = 0 /\ info[k].total = 0
      BY <3>4, <3>6, FS_EmptySet DEF Zero
    <3> QED
      BY <1>1, <3>5, <3>6, <3>7, <3>8 DEF Counted
  <2> QED
    BY <2>1, <2>2
<1> QED
  BY <1>7, <1>11, <1>12, <1>13

\* A scan changes only what is said of the worker's own keys.
LEMMA ScanningCalm ==
  ASSUME Types, Types', QuietInv, PlaceInv, FreshInv, ExactInv, NEW w \in Workers, Scanning(w)
  PROVE  QuietInv' /\ PlaceInv' /\ FreshInv' /\ ExactInv'
<1>0. DbTypes /\ WorkTypes
  BY DEF Types
<1>1. /\ UNCHANGED <<keyInfo, net, hand, conn, workers, rescan, known, submitted, submit>>
      /\ UNCHANGED <<AssignedKey, target, mpc, todo, assigned, hasty>>
  BY DEF Scanning, Scan, Claim, Save, EndBatch, passVars, keyVars, dbVars, askVars, linkVars,
         histVars
<1>2. QuietInv' /\ PlaceInv'
  BY <1>1, PlaceFrame DEF QuietInv
<1>3. ASSUME NEW k \in Keys, NEW v \in Workers, k \in assigned[v], v # w PROVE k \notin assigned[w]
  <2>1. AssignedKey[k] = v
    BY <1>3 DEF PlaceInv, At
  <2> QED
    BY <1>3, <2>1 DEF PlaceInv, At
<1>4. ASSUME NEW from \in Nat, Unknown(from) # {}, ScanBatch(w, from), scan[w].found = {},
             scan[w].unsaved = {}, UNCHANGED dbVars
      PROVE  FreshInv' /\ ExactInv'
  <2>1. FreshInv'
    BY <1>1, <1>4, FreshFrame DEF dbVars
  <2>2. /\ \A v \in Workers \ {w} : held'[v] = held[v]
        /\ \A v \in Workers \ {w} : scan'[v] = scan[v]
        /\ scan'[w].unsaved = assigned[w]
    <3>1. \A v \in Workers \ {w} : held'[v] = held[v]
      BY <1>0, <1>4, BatchFacts
    <3> DEFINE batch == [step |-> "write", from |-> from, new |-> Last(Unknown(from)),
                         found |-> Filtered(w, Unknown(from)), unsaved |-> assigned[w]]
    <3>2. scan' = [scan EXCEPT ![w] = batch] /\ batch.unsaved = assigned[w]
      BY <1>0, <1>4, BatchFacts
    <3> HIDE DEF batch
    <3> QED
      BY <1>0, <3>1, <3>2 DEF WorkTypes
  <2>3. ExactInv'
    <3> SUFFICES ASSUME NEW v \in Workers, NEW k \in assigned[v] \ hasty PROVE Counted(k, v)'
      BY <1>1 DEF ExactInv
    <3>1. Counted(k, v)
      BY DEF ExactInv
    <3>2. CASE v = w
      <4>1. PICK more \in Nat :
               /\ held'[w][k].total = held[w][k].total + more
               /\ Cardinality(Of(k, claimed \union scan'[w].found)) =
                    Cardinality(Of(k, claimed)) + more
        BY <1>0, <1>4, <3>2, BatchTotal
      <4>2. claimed \union scan[w].found = claimed
        BY <1>4
      <4>3. held[w][k].total = Cardinality(Of(k, claimed))
        BY <3>1, <3>2, <4>2 DEF Counted
      <4>4. held'[w][k].total = Cardinality(Of(k, claimed \union scan'[w].found))
        BY <4>1, <4>3
      <4>5. k \in scan'[w].unsaved
        BY <2>2, <3>2
      <4> QED
        BY <1>1, <1>4, <3>1, <3>2, <4>4, <4>5 DEF Counted, dbVars
    <3>3. CASE v # w
      BY <1>1, <1>4, <2>2, <3>1, <3>3 DEF Counted, dbVars
    <3> QED
      BY <3>2, <3>3
  <2> QED
    BY <2>1, <2>3
<1>5. CASE Scan(w)
  <2>1. /\ assigned[w] # {} /\ Unknown(MinScanned(w)) # {} /\ ScanBatch(w, MinScanned(w))
        /\ scan[w] = NoScan /\ UNCHANGED dbVars
    BY <1>5 DEF Scan
  <2>2. MinScanned(w) \in Nat /\ scan[w].found = {} /\ scan[w].unsaved = {}
    BY <1>0, <2>1, MinScannedFacts DEF NoScan
  <2> QED
    BY <1>2, <1>4, <2>1, <2>2
<1>6. CASE Claim(w)
  <2>1. PICK c \in scan[w].found :
           claimed' = claimed \union {c} /\ scan' = [scan EXCEPT ![w].found = @ \ {c}]
    BY <1>6 DEF Claim
  <2>2. UNCHANGED <<held, info>> /\ Owner[c] \in assigned[w]
    BY <1>0, <1>6 DEF Claim, WorkTypes
  <2>3. FreshInv'
    <3> SUFFICES ASSUME NEW k \in Keys, \A v \in Workers : k \notin assigned[v] PROVE Zero(k)'
      BY <1>1 DEF FreshInv
    <3>1. Zero(k) /\ Owner[c] # k
      BY <2>2 DEF FreshInv
    <3>2. Mine(k)' = Mine(k)
      BY <2>1, <3>1 DEF Mine
    <3> QED
      BY <1>1, <2>2, <3>1, <3>2 DEF Zero
  <2>4. ExactInv'
    <3> SUFFICES ASSUME NEW v \in Workers, NEW k \in assigned[v] \ hasty PROVE Counted(k, v)'
      BY <1>1 DEF ExactInv
    <3>1. Counted(k, v) /\ k \in Keys
      BY <1>0 DEF ExactInv, WorkTypes
    <3>2. scan'[v].unsaved = scan[v].unsaved
      BY <1>0, <2>1 DEF WorkTypes, Batch
    <3>3. CASE v = w
      <4>1. scan'[v].found = scan[v].found \ {c}
        BY <1>0, <2>1, <3>3 DEF WorkTypes, Batch
      <4>2. claimed' \union scan'[v].found = claimed \union scan[v].found
        BY <2>1, <3>3, <4>1
      <4>3. k \in scan[v].unsaved
        BY <2>1, <3>1, <3>3 DEF Counted
      <4> QED
        BY <1>1, <2>2, <3>1, <3>2, <4>2, <4>3 DEF Counted
    <3>4. CASE v # w
      <4>1. scan'[v] = scan[v]
        BY <1>0, <2>1, <3>4 DEF WorkTypes
      <4>2. Owner[c] # k
        BY <1>3, <2>2, <3>1, <3>4
      <4>3. Of(k, claimed' \union scan'[v].found) = Of(k, claimed \union scan[v].found)
        BY <2>1, <4>1, <4>2 DEF Of
      <4> QED
        BY <1>1, <2>2, <3>1, <4>1, <4>3 DEF Counted
    <3> QED
      BY <3>3, <3>4
  <2> QED
    BY <1>2, <2>3, <2>4
<1>7. CASE Save(w)
  <2>1. PICK l \in scan[w].unsaved :
           info' = [info EXCEPT ![l] = held[w][l]] /\ scan' = [scan EXCEPT ![w].unsaved = @ \ {l}]
    BY <1>7 DEF Save
  <2>2. UNCHANGED <<held, claimed>> /\ scan[w].found = {} /\ l \in assigned[w] /\ l \in Keys
    BY <1>0, <1>7 DEF Save, WorkTypes
  <2>3. \A k \in Keys : k # l => info'[k] = info[k]
    BY <1>0, <2>1 DEF DbTypes
  <2>4. info'[l] = held[w][l]
    BY <1>0, <2>1, <2>2 DEF DbTypes
  <2>5. FreshInv'
    <3> SUFFICES ASSUME NEW k \in Keys, \A v \in Workers : k \notin assigned[v] PROVE Zero(k)'
      BY <1>1 DEF FreshInv
    <3>1. Zero(k) /\ k # l
      BY <2>2 DEF FreshInv
    <3> QED
      BY <1>1, <2>2, <2>3, <3>1 DEF Zero, Mine
  <2>6. ExactInv'
    <3> SUFFICES ASSUME NEW v \in Workers, NEW k \in assigned[v] \ hasty PROVE Counted(k, v)'
      BY <1>1 DEF ExactInv
    <3>1. Counted(k, v) /\ k \in Keys
      BY <1>0 DEF ExactInv, WorkTypes
    <3>2. scan'[v].found = scan[v].found
      BY <1>0, <2>1 DEF WorkTypes, Batch
    <3>3. CASE v = w
      <4>1. k # l => (k \in scan'[v].unsaved <=> k \in scan[v].unsaved)
        BY <1>0, <2>1, <3>3 DEF WorkTypes, Batch
      <4>2. CASE k = l
        BY <1>1, <2>2, <2>4, <3>1, <3>2, <3>3, <4>2 DEF Counted
      <4>3. CASE k # l
        BY <1>1, <2>2, <2>3, <3>1, <3>2, <4>1, <4>3 DEF Counted
      <4> QED
        BY <4>2, <4>3
    <3>4. CASE v # w
      <4>1. scan'[v] = scan[v] /\ k # l
        BY <1>0, <1>3, <2>1, <2>2, <3>1, <3>4 DEF WorkTypes
      <4> QED
        BY <1>1, <2>2, <2>3, <3>1, <4>1 DEF Counted
    <3> QED
      BY <3>3, <3>4
  <2> QED
    BY <1>2, <2>5, <2>6
<1>8. CASE EndBatch(w)
  <2>1. UNCHANGED dbVars /\ scan[w].found = {} /\ scan[w].unsaved = {}
    BY <1>8 DEF EndBatch
  <2>2. CASE Unknown(scan[w].new) # {} /\ ScanBatch(w, scan[w].new)
    <3>1. scan[w].new \in Nat
      BY <1>0 DEF WorkTypes, Batch
    <3> QED
      BY <1>2, <1>4, <2>1, <2>2, <3>1
  <2>3. CASE scan' = [scan EXCEPT ![w] = NoScan] /\ UNCHANGED held
    <3>1. \A v \in Workers : scan'[v].found = scan[v].found /\ scan'[v].unsaved = scan[v].unsaved
      BY <1>0, <2>1, <2>3 DEF WorkTypes, NoScan
    <3>2. ExactInv'
      <4> SUFFICES ASSUME NEW v \in Workers, NEW k \in assigned[v] \ hasty PROVE Counted(k, v)'
        BY <1>1 DEF ExactInv
      <4>1. Counted(k, v)
        BY DEF ExactInv
      <4>2. /\ claimed' = claimed /\ held' = held /\ info' = info /\ submit' = submit
            /\ scan'[v].found = scan[v].found /\ scan'[v].unsaved = scan[v].unsaved
        BY <1>1, <2>1, <2>3, <3>1 DEF dbVars
      <4> QED
        BY <1>1, <4>1, <4>2 DEF Counted
    <3>3. FreshInv'
      BY <1>1, <2>1, FreshFrame DEF dbVars
    <3> QED
      BY <1>2, <3>2, <3>3
  <2> QED
    BY <1>8, <2>2, <2>3 DEF EndBatch
<1> QED
  BY <1>5, <1>6, <1>7, <1>8 DEF Scanning

CountInv == IndexInv /\ CalmInv

LEMMA InitCountInv == Init => CountInv
<1> SUFFICES ASSUME Init PROVE QuietInv /\ PlaceInv /\ FreshInv /\ ExactInv
  BY InitIndexInv DEF CountInv, CalmInv
<1> USE DEF Init
<1>0. NoKey \notin Keys /\ Nobody # Gone /\ Nobody \notin Workers
  BY OwnerAssumption
<1>1. QuietInv
  BY DEF QuietInv, NoAsk, Starting
<1>2. PlaceInv
  BY <1>0 DEF PlaceInv, At, NoSend
<1>3. FreshInv
  BY <1>0 DEF FreshInv, Zero, Mine, NoAsk, NoInfo
<1>4. ExactInv
  BY DEF ExactInv
<1> QED
  BY <1>1, <1>2, <1>3, <1>4

LEMMA NextCountInv == CountInv /\ [Next]_vars => CountInv'
<1> SUFFICES ASSUME CountInv, [Next]_vars, ~disturbed'
             PROVE  QuietInv' /\ PlaceInv' /\ FreshInv' /\ ExactInv'
  BY NextIndexInv DEF CountInv, CalmInv
<1>0. Types /\ Types' /\ SubmitInv
  BY NextTypes DEF CountInv, IndexInv, CopyInv
<1>1. CASE UNCHANGED vars
  <2>1. UNCHANGED <<dbVars, passVars, keyVars, askVars, linkVars, workerVars, histVars>>
    BY <1>1 DEF vars
  <2>2. /\ UNCHANGED <<info, keyInfo, submit, rescan, net, hand, held, scan, assigned, conn>>
        /\ UNCHANGED <<mpc, todo, target, known, submitted, claimed, hasty, workers, AssignedKey>>
        /\ UNCHANGED disturbed
    BY <2>1 DEF dbVars, passVars, keyVars, askVars, linkVars, workerVars, histVars
  <2>3. QuietInv /\ PlaceInv /\ FreshInv /\ ExactInv
    BY <2>2 DEF CountInv, CalmInv
  <2> QED
    BY <2>2, <2>3, PlaceFrame, FreshFrame, ExactFrame DEF QuietInv
<1>2. CASE Faults \/ \E k \in Keys : Rescan(k)
  BY <1>2 DEF Faults, CrashMaster, LoseLink, CrashWorker, Rescan
<1>3. CASE StoreCoin \/ Start \/ Pass \/ Adding \/ Order
           \/ \E k \in Keys : \E fromNow \in BOOLEAN : Submit(k, fromNow)
  <2>1. ~disturbed
    BY <1>3
    DEF StoreCoin, Start, Load, StoreLoaded, Recheck, StoreRechecked, Pass, Gate, Lock,
        EndAssign, SendIndex, NextRun, SendRun, NoWorker, Assign, Adding, AddKey, StoreKey,
        Order, TakeOrder, OrderDone, Submit, histVars
  <2>2. QuietInv /\ PlaceInv /\ FreshInv /\ ExactInv
    BY <2>1 DEF CountInv, CalmInv
  <2>3. CASE Pass
    BY <1>0, <2>2, <2>3, PassCalm, AsideCalm DEF Pass
  <2>4. CASE \E k \in Keys : \E fromNow \in BOOLEAN : Submit(k, fromNow)
    BY <1>0, <2>2, <2>4, SubmitCalm
  <2> QED
    BY <1>0, <1>3, <2>2, <2>3, <2>4, AsideCalm, StartCalm, AddingCalm
<1>4. CASE Rescanning \/ \E w \in Workers : HandlerEnds(w) \/ SeeLoss(w)
  <2>1. ~disturbed
    BY <1>4 DEF Rescanning, SetRescanned, StoreRescanned, TellWorker, SendReindex, HandlerEnds,
       SeeLoss, histVars
  <2>2. QuietInv
    BY <2>1 DEF CountInv, CalmInv
  <2>3. rescan.step = "idle"
    BY <2>2 DEF QuietInv, NoAsk
  <2>4. ~Rescanning
    BY <2>3 DEF Rescanning, SetRescanned, StoreRescanned, TellWorker, SendReindex
  <2>5. ASSUME NEW w \in Workers PROVE ~HandlerEnds(w) /\ ~SeeLoss(w)
    BY <2>2 DEF QuietInv, HandlerEnds, SeeLoss
  <2> QED
    BY <1>4, <2>4, <2>5
<1>5. ASSUME NEW w \in Workers, Register(w) \/ StartWorker(w) \/ Process(w) \/ Scanning(w)
      PROVE  QuietInv' /\ PlaceInv' /\ FreshInv' /\ ExactInv'
  <2>1. ~disturbed
    BY <1>5 DEF Register, StartWorker, Process, Scanning, Scan, Claim, Save, EndBatch, histVars
  <2>2. QuietInv /\ PlaceInv /\ FreshInv /\ ExactInv
    BY <2>1 DEF CountInv, CalmInv
  <2> QED
    BY <1>0, <1>5, <2>2, AsideCalm, ProcessCalm, ScanningCalm
<1> QED
  BY <1>1, <1>2, <1>3, <1>4, <1>5 DEF Next, Requests

\* Without a fault or a rescan every coin of a key is counted, and counted once, by the
\* time its worker has saved what it has found: for any number of workers that come,
\* keys that are submitted and batches.
THEOREM SpecCountIsExact == Spec => []CountIsExact
<1>1. CountInv => CountIsExact
  <2> SUFFICES ASSUME CountInv, ~disturbed, NEW k \in Keys \ hasty,
                      \A w \in Workers : k \in assigned[w] => scan[w] = NoScan
               PROVE  info[k].total = Cardinality(Mine(k))
    BY DEF CountIsExact
  <2>1. FreshInv /\ ExactInv
    BY DEF CountInv, CalmInv
  <2>2. CASE \A w \in Workers : k \notin assigned[w]
    BY <2>1, <2>2, FS_EmptySet DEF FreshInv, Zero
  <2>3. ASSUME NEW w \in Workers, k \in assigned[w]
        PROVE  info[k].total = Cardinality(Mine(k))
    <3>1. scan[w].found = {} /\ scan[w].unsaved = {}
      BY <2>3 DEF NoScan
    <3>2. Counted(k, w)
      BY <2>1, <2>3 DEF ExactInv
    <3>3. claimed \union scan[w].found = claimed /\ Of(k, claimed) = Mine(k)
      BY <3>1 DEF Of, Mine
    <3> QED
      BY <3>1, <3>2, <3>3 DEF Counted
  <2> QED
    BY <2>2, <2>3
<1> QED
  BY <1>1, InitCountInv, NextCountInv, PTL DEF Spec
=============================================================================
