---------------------------- MODULE Coordinator ----------------------------
(***************************************************************************)
(* The backup protocol of the coordinator (coordinator/*.go) and of the    *)
(* services connected to it (processors/*/coordinator.go and the index     *)
(* worker's, which are the same code).                                     *)
(*                                                                         *)
(* The coordinator runs one periodic loop (StartCoordinator), one HTTP     *)
(* handler per request and one startBackup goroutine per accepted backup;  *)
(* a service runs a main loop, which parks itself in willPauseOperation,   *)
(* and a handler of the coordinator's commands.  A websocket joins them:   *)
(* two FIFO queues, which a lost connection truncates.                     *)
(***************************************************************************)
EXTENDS Naturals, Sequences, FiniteSets

CONSTANTS
  Services,        \* instances of the services a backup must pause
  Workers,         \* those that start running (otaindexer/worker.go:195)
  Backups,         \* backup requests, each made at most once
  Loop,            \* the thread of StartCoordinator
  NoCtx,           \* state.backupContext == nil
  MaxQueue,        \* bound: messages in flight in one direction
  MaxLost,         \* bound: connections lost, or services restarted
  MaxCancel,       \* bound: calls of CancelBackupHandler
  SerialRequests   \* the operator makes one backup request at a time

ASSUME WorkersAssumption == Workers \subseteq Services
ASSUME ThreadsAssumption == Loop \notin Backups /\ NoCtx \notin Backups
ASSUME BoundsAssumption ==
  MaxQueue \in Nat \ {0} /\ MaxLost \in Nat /\ MaxCancel \in Nat
    /\ SerialRequests \in BOOLEAN

VARIABLES
  conn,       \* ConnectedServices: the state of each service's connection
  isPause,    \* ServiceConn.IsPause, the coordinator's view of the service
  toService,  \* commands in flight to the service
  toCoord,    \* status reports in flight to the coordinator
  flag,       \* the service's pauseService
  status,     \* the service's serviceStatus
  main,       \* where the service's main loop is
  handling,   \* the command processMsgFromCoordinator is busy with
  thread,     \* the coordinator's goroutines
  ctx,        \* state.backupContext
  cancelled,  \* the contexts that are done
  dump,       \* the DumpMongo goroutine of each backup
  recent,     \* the last successful backup is at most 5 minutes old
  lost,       \* connections lost so far
  cancels     \* cancel requests so far

connVars    == <<conn, isPause, toService, toCoord, lost>>
serviceVars == <<flag, status, main, handling>>
backupVars  == <<ctx, cancelled, dump, recent, cancels>>
vars        == <<connVars, serviceVars, thread, backupVars>>

Threads  == Backups \union {Loop}
Commands == {"pause", "resume", "get"}
Statuses == {"pause", "resume"}

\* The handler of commands is sending the report of a status.
Reporting == [pause |-> "paused", resume |-> "resumed"]
Reported  == [paused |-> "pause", resumed |-> "resume"]

\* The four walks over ConnectedServices, which hold its read lock.
Walking == {"getting", "checking", "pausing", "resuming"}

ThreadPcs == Walking \union
  {"sleep", "idle", "asked", "check", "pause", "paused", "dumping",
   "resume", "done"}

TypeOK ==
  /\ conn      \in [Services -> {"none", "dialing", "open", "broken", "stuck"}]
  /\ isPause   \in [Services -> BOOLEAN]
  /\ toService \in [Services -> Seq(Commands)]
  /\ toCoord   \in [Services -> Seq(Statuses)]
  /\ flag      \in [Services -> BOOLEAN]
  /\ status    \in [Services -> Statuses]
  /\ main      \in [Services -> {"head", "leaving", "work"}]
  /\ handling  \in [Services -> {"idle", "pause", "resume", "paused", "resumed"}]
  /\ thread    \in [Threads -> [pc    : ThreadPcs,
                                todo  : SUBSET Services,
                                clean : BOOLEAN]]
  /\ ctx       \in Backups \union {NoCtx}
  /\ cancelled \subseteq Backups
  /\ dump      \in [Backups -> [state : {"none", "running", "success",
                                          "error", "cancelled"},
                                ctx   : Backups \union {NoCtx}]]
  /\ recent    \in BOOLEAN
  /\ lost      \in 0 .. MaxLost
  /\ cancels   \in 0 .. MaxCancel

Connected == {s \in Services : conn[s] \in {"open", "broken", "stuck"}}

\* ConnectedServicesLock can be taken for writing.
Unlocked == \A t \in Threads : thread[t].pc \notin Walking

Init ==
  /\ conn      = [s \in Services |-> "none"]
  /\ isPause   = [s \in Services |-> FALSE]
  /\ toService = [s \in Services |-> <<>>]
  /\ toCoord   = [s \in Services |-> <<>>]
  /\ flag      = [s \in Services |-> s \notin Workers]
  /\ status    = [s \in Services |-> IF s \in Workers THEN "resume" ELSE "pause"]
  /\ main      = [s \in Services |-> "head"]
  /\ handling  = [s \in Services |-> "idle"]
  /\ thread    = [t \in Threads |->
                    [pc    |-> IF t = Loop THEN "sleep" ELSE "idle",
                     todo  |-> {}, clean |-> TRUE]]
  /\ ctx       = NoCtx
  /\ cancelled = {}
  /\ dump      = [b \in Backups |-> [state |-> "none", ctx |-> NoCtx]]
  /\ recent    = FALSE
  /\ lost      = 0
  /\ cancels   = 0

-----------------------------------------------------------------------------
(* The service: its main loop and its handler of commands. *)

\* willPauseOperation while pauseService is set: report the pause and stay.
Park(s) ==
  /\ main[s] = "head"
  /\ flag[s]
  /\ status[s] # "pause"
  /\ status' = [status EXCEPT ![s] = "pause"]
  /\ UNCHANGED <<connVars, flag, main, handling, thread, backupVars>>

\* willPauseOperation reads pauseService and finds it clear ...
SeeResume(s) ==
  /\ main[s] = "head"
  /\ ~flag[s]
  /\ main' = [main EXCEPT ![s] = "leaving"]
  /\ UNCHANGED <<connVars, flag, status, handling, thread, backupVars>>

\* ... and only then writes the status and returns to the loop's work.
Unpark(s) ==
  /\ main[s] = "leaving"
  /\ main'   = [main EXCEPT ![s] = "work"]
  /\ status' = [status EXCEPT ![s] = "resume"]
  /\ UNCHANGED <<connVars, flag, handling, thread, backupVars>>

\* The round of work (reads and writes of Mongo) ends.
FinishRound(s) ==
  /\ main[s] = "work"
  /\ main' = [main EXCEPT ![s] = "head"]
  /\ UNCHANGED <<connVars, flag, status, handling, thread, backupVars>>

\* pauseOperation and resumeOperation set the flag, then wait ...
TakeOrder(s) ==
  /\ handling[s] = "idle"
  /\ toService[s] # <<>>
  /\ Head(toService[s]) \in {"pause", "resume"}
  /\ handling'  = [handling EXCEPT ![s] = Head(toService[s])]
  /\ flag'      = [flag EXCEPT ![s] = Head(toService[s]) = "pause"]
  /\ toService' = [toService EXCEPT ![s] = Tail(@)]
  /\ UNCHANGED <<conn, isPause, toCoord, lost, status, main, thread, backupVars>>

\* Mutant: pauseOperation reports without waiting for the main loop to park.
MutOrderDoneEarly(s) ==
  /\ handling[s] \in Statuses
  /\ handling[s] = "pause" \/ status[s] = handling[s]
  /\ handling' = [handling EXCEPT ![s] = Reporting[@]]
  /\ UNCHANGED <<connVars, flag, status, main, thread, backupVars>>

\* ... until the main loop has written the status the order asks for.
OrderDone(s) ==
  /\ handling[s] \in Statuses
  /\ status[s] = handling[s]
  /\ handling' = [handling EXCEPT ![s] = Reporting[@]]
  /\ UNCHANGED <<connVars, flag, status, main, thread, backupVars>>

\* getOperationStatus reads the status and reports it.
TakeGet(s) ==
  /\ handling[s] = "idle"
  /\ toService[s] # <<>>
  /\ Head(toService[s]) = "get"
  /\ handling'  = [handling EXCEPT ![s] = Reporting[status[s]]]
  /\ toService' = [toService EXCEPT ![s] = Tail(@)]
  /\ UNCHANGED <<conn, isPause, toCoord, lost, flag, status, main, thread,
                 backupVars>>

\* Mutant: the report carries the handler's state and not a status.
MutSendReportRaw(s) ==
  /\ handling[s] \in {"paused", "resumed"}
  /\ conn[s] = "open"
  /\ Len(toCoord[s]) < MaxQueue
  /\ toCoord' = [toCoord EXCEPT ![s] = Append(@, handling[s])]
  /\ handling' = [handling EXCEPT ![s] = "idle"]
  /\ UNCHANGED <<conn, isPause, toService, lost, flag, status, main, thread,
                 backupVars>>

\* sendMsgToCoordinator: the report reaches the socket; a client that has not
\* noticed that its socket is dead loses it; a service that is dialing waits.
SendReport(s) ==
  /\ handling[s] \in {"paused", "resumed"}
  /\ \/ /\ conn[s] = "open"
        /\ Len(toCoord[s]) < MaxQueue
        /\ toCoord' = [toCoord EXCEPT ![s] = Append(@, Reported[handling[s]])]
     \/ /\ conn[s] \in {"broken", "none", "stuck"}
        /\ UNCHANGED toCoord
  /\ handling' = [handling EXCEPT ![s] = "idle"]
  /\ UNCHANGED <<conn, isPause, toService, lost, flag, status, main, thread,
                 backupVars>>

-----------------------------------------------------------------------------
(* Connections: ServiceRegisterHandler and ConnectToCoordinator. *)

\* Mutant: the reader only ever clears IsPause.
MutReadReportClears(s) ==
  /\ conn[s] = "open"
  /\ toCoord[s] # <<>>
  /\ isPause' = [isPause EXCEPT ![s] = @ /\ Head(toCoord[s]) = "pause"]
  /\ toCoord' = [toCoord EXCEPT ![s] = Tail(@)]
  /\ UNCHANGED <<conn, toService, lost, serviceVars, thread, backupVars>>

\* The coordinator's reader goroutine applies a report to IsPause.
ReadReport(s) ==
  /\ conn[s] = "open"
  /\ toCoord[s] # <<>>
  /\ isPause' = [isPause EXCEPT ![s] = Head(toCoord[s]) = "pause"]
  /\ toCoord' = [toCoord EXCEPT ![s] = Tail(@)]
  /\ UNCHANGED <<conn, toService, lost, serviceVars, thread, backupVars>>

\* The service dials once its reader has handed over what it had read; the
\* handler refuses while a backup context exists ...
Dial(s) ==
  /\ conn[s] = "none"
  /\ toService[s] = <<>>
  /\ ctx = NoCtx
  /\ conn' = [conn EXCEPT ![s] = "dialing"]
  /\ UNCHANGED <<isPause, toService, toCoord, lost, serviceVars, thread,
                 backupVars>>

\* ... and registers the service later, as paused, without looking again.
Register(s) ==
  /\ conn[s] = "dialing"
  /\ Unlocked
  /\ conn'    = [conn EXCEPT ![s] = "open"]
  /\ isPause' = [isPause EXCEPT ![s] = TRUE]
  /\ UNCHANGED <<toService, toCoord, lost, serviceVars, thread, backupVars>>

\* The socket dies: reports not yet read are lost, and so is a suffix of
\* the commands.
LoseConnection(s) ==
  /\ conn[s] = "open"
  /\ lost < MaxLost
  /\ lost' = lost + 1
  /\ conn' = [conn EXCEPT ![s] = "broken"]
  /\ toCoord' = [toCoord EXCEPT ![s] = <<>>]
  /\ \E n \in 0 .. Len(toService[s]) :
       toService' = [toService EXCEPT ![s] = SubSeq(@, 1, n)]
  /\ UNCHANGED <<isPause, serviceVars, thread, backupVars>>

\* The service's process restarts: its socket dies and its state is fresh.
RestartService(s) ==
  /\ conn[s] = "open"
  /\ lost < MaxLost
  /\ lost' = lost + 1
  /\ conn' = [conn EXCEPT ![s] = "broken"]
  /\ toCoord'   = [toCoord EXCEPT ![s] = <<>>]
  /\ toService' = [toService EXCEPT ![s] = <<>>]
  /\ flag'      = [flag EXCEPT ![s] = s \notin Workers]
  /\ status'    = [status EXCEPT ![s] = IF s \in Workers THEN "resume"
                                                         ELSE "pause"]
  /\ main'      = [main EXCEPT ![s] = "head"]
  /\ handling'  = [handling EXCEPT ![s] = "idle"]
  /\ UNCHANGED <<isPause, thread, backupVars>>

\* The handler sees done closed: removeService.
RemoveService(s) ==
  /\ conn[s] = "broken"
  /\ Unlocked
  /\ conn' = [conn EXCEPT ![s] = "none"]
  /\ UNCHANGED <<isPause, toService, toCoord, lost, serviceVars, thread,
                 backupVars>>

\* A panic outside the HTTP handlers ends the coordinator's process, and it
\* starts again with nothing: no service connected, no backup.
Crash ==
  /\ conn' = [s \in Services |-> "none"]
  /\ toCoord' = [s \in Services |-> <<>>]
  /\ \E n \in [Services -> 0 .. MaxQueue] :
       /\ \A s \in Services : n[s] <= Len(toService[s])
       /\ toService' = [s \in Services |-> SubSeq(toService[s], 1, n[s])]
  /\ thread' = [t \in Threads |->
                  [pc    |-> IF t = Loop THEN "sleep"
                             ELSE IF thread[t].pc = "idle" THEN "idle" ELSE "done",
                   todo  |-> {}, clean |-> TRUE]]
  /\ ctx' = NoCtx
  /\ dump' = [b \in Backups |-> [state |-> "none", ctx |-> NoCtx]]
  /\ recent' = FALSE
  /\ UNCHANGED <<isPause, lost, serviceVars, cancelled, cancels>>

-----------------------------------------------------------------------------
(* Walks over the connected services, each holding the read lock. *)

BeginWalk(t, at) ==
  thread' = [thread EXCEPT ![t] = [pc |-> at, todo |-> Connected, clean |-> TRUE]]

Goto(t, at) == thread' = [thread EXCEPT ![t].pc = at, ![t].todo = {}]

Visited(t, s, ok) ==
  thread' = [thread EXCEPT ![t].todo = @ \ {s}, ![t].clean = @ /\ ok]

\* sendRequestToService.  On a dead socket the write may seem to work; or it
\* fails and done is closed twice: in the reader goroutine (Crash), or in the
\* HTTP handler, where gin recovers and the service is never removed; a send
\* on the closed WriteCh is a Crash too.  Nobody receives from a stuck one.
Send(t, s, cmd, ok) ==
  \/ /\ conn[s] = "open"
     /\ Len(toService[s]) < MaxQueue
     /\ toService' = [toService EXCEPT ![s] = Append(@, cmd)]
     /\ Visited(t, s, ok)
     /\ UNCHANGED <<conn, isPause, toCoord, lost, serviceVars, backupVars>>
  \/ /\ conn[s] = "broken"
     /\ conn' \in {conn, [conn EXCEPT ![s] = "stuck"]}
     /\ Visited(t, s, ok)
     /\ UNCHANGED <<isPause, toService, toCoord, lost, serviceVars, backupVars>>
  \/ /\ conn[s] = "broken"
     /\ Crash

\* updateAllServiceStatus
GetStatus(s) ==
  /\ thread[Loop].pc = "getting"
  /\ s \in thread[Loop].todo
  /\ Send(Loop, s, "get", TRUE)

\* pauseServices: every service, whatever its status.
PauseService(b, s) ==
  /\ thread[b].pc = "pausing"
  /\ s \in thread[b].todo
  /\ Send(b, s, "pause", TRUE)

\* resumeAllServices: the services believed to be paused.
ResumeService(t, s) ==
  /\ thread[t].pc = "resuming"
  /\ s \in thread[t].todo
  /\ isPause[s]
  /\ Send(t, s, "resume", FALSE)

SkipResumed(t, s) ==
  /\ thread[t].pc = "resuming"
  /\ s \in thread[t].todo
  /\ ~isPause[s]
  /\ Visited(t, s, TRUE)
  /\ UNCHANGED <<connVars, serviceVars, backupVars>>

\* One round of resumeAllServices begins, and another after an unclean one.
BeginResume(t) ==
  /\ thread[t].pc = "resume"
  /\ BeginWalk(t, "resuming")
  /\ UNCHANGED <<connVars, serviceVars, backupVars>>

RoundUnclean(t) ==
  /\ thread[t].pc = "resuming"
  /\ thread[t].todo = {}
  /\ ~thread[t].clean
  /\ Goto(t, "resume")
  /\ UNCHANGED <<connVars, serviceVars, backupVars>>

-----------------------------------------------------------------------------
(* StartCoordinator's loop. *)

WakeUp ==
  /\ thread[Loop].pc = "sleep"
  /\ BeginWalk(Loop, "getting")
  /\ UNCHANGED <<connVars, serviceVars, backupVars>>

\* The loop takes backStatusLock for reading, and keeps it to resume.
LookForBackup ==
  /\ thread[Loop].pc = "getting"
  /\ thread[Loop].todo = {}
  /\ Goto(Loop, IF ctx = NoCtx THEN "resume" ELSE "sleep")
  /\ UNCHANGED <<connVars, serviceVars, backupVars>>

LoopResumedAll ==
  /\ thread[Loop].pc = "resuming"
  /\ thread[Loop].todo = {}
  /\ thread[Loop].clean
  /\ Goto(Loop, "sleep")
  /\ UNCHANGED <<connVars, serviceVars, backupVars>>

-----------------------------------------------------------------------------
(* BackupHandler, CancelBackupHandler and startBackup. *)

\* The handler sees no backup: it has not taken the lock yet.
RequestBackup(b) ==
  /\ thread[b].pc = "idle"
  /\ ctx = NoCtx
  /\ SerialRequests => \A c \in Backups : thread[c].pc # "asked"
  /\ Goto(b, "asked")
  /\ UNCHANGED <<connVars, serviceVars, backupVars>>

\* backStatusLock is free for writing.
StatusUnlocked == thread[Loop].pc \notin {"resume", "resuming"}

\* Mutant: BackupHandler makes the context without backStatusLock.
MutAcceptUnlocked(b) ==
  /\ thread[b].pc = "asked"
  /\ ~recent
  /\ ctx' = b
  /\ Goto(b, "check")
  /\ UNCHANGED <<connVars, serviceVars, cancelled, dump, recent, cancels>>

AcceptBackup(b) ==
  /\ thread[b].pc = "asked"
  /\ StatusUnlocked
  /\ ~recent
  /\ ctx' = b
  /\ Goto(b, "check")
  /\ UNCHANGED <<connVars, serviceVars, cancelled, dump, recent, cancels>>

RefuseRecent(b) ==
  /\ thread[b].pc = "asked"
  /\ StatusUnlocked
  /\ recent
  /\ Goto(b, "done")
  /\ UNCHANGED <<connVars, serviceVars, backupVars>>

\* Five minutes pass since the last success.
RecentExpires ==
  /\ recent
  /\ recent' = FALSE
  /\ UNCHANGED <<connVars, serviceVars, thread, ctx, cancelled, dump, cancels>>

CancelBackup ==
  /\ ctx # NoCtx
  /\ cancels < MaxCancel
  /\ cancels' = cancels + 1
  /\ cancelled' = cancelled \union {ctx}
  /\ UNCHANGED <<connVars, serviceVars, thread, ctx, dump, recent>>

\* checkIfServicePaused, then pauseServices and a sleep when it says no.
BeginCheck(b) ==
  /\ thread[b].pc = "check"
  /\ BeginWalk(b, "checking")
  /\ UNCHANGED <<connVars, serviceVars, backupVars>>

\* Mutant: checkIfServicePaused returns true at the first paused service.
MutCheckFirstOnly(b, s) ==
  /\ thread[b].pc = "checking"
  /\ s \in thread[b].todo
  /\ Goto(b, IF isPause[s] THEN "paused" ELSE "pause")
  /\ UNCHANGED <<connVars, serviceVars, backupVars>>

CheckService(b, s) ==
  /\ thread[b].pc = "checking"
  /\ s \in thread[b].todo
  /\ IF isPause[s] THEN Visited(b, s, TRUE) ELSE Goto(b, "pause")
  /\ UNCHANGED <<connVars, serviceVars, backupVars>>

\* "successfully pause all services"
AllPaused(b) ==
  /\ thread[b].pc = "checking"
  /\ thread[b].todo = {}
  /\ Goto(b, "paused")
  /\ UNCHANGED <<connVars, serviceVars, backupVars>>

BeginPause(b) ==
  /\ thread[b].pc = "pause"
  /\ BeginWalk(b, "pausing")
  /\ UNCHANGED <<connVars, serviceVars, backupVars>>

EndPause(b) ==
  /\ thread[b].pc = "pausing"
  /\ thread[b].todo = {}
  /\ Goto(b, "check")
  /\ UNCHANGED <<connVars, serviceVars, backupVars>>

\* Starts DumpMongo with the context found now, whoever made it.
StartDump(b) ==
  /\ thread[b].pc = "paused"
  /\ ctx # NoCtx
  /\ Goto(b, "dumping")
  /\ dump' = [dump EXCEPT ![b] = [state |-> "running", ctx |-> ctx]]
  /\ UNCHANGED <<connVars, serviceVars, ctx, cancelled, recent, cancels>>

\* Another backup has reset the context: a nil dereference.
StartDumpWithoutContext(b) ==
  /\ thread[b].pc = "paused"
  /\ ctx = NoCtx
  /\ Crash

\* DumpMongo ends: by itself, or because its context is done.
DumpEnds(b, result) ==
  /\ dump[b].state = "running"
  /\ result = "cancelled" => dump[b].ctx \in cancelled
  /\ thread[b].pc = "dumping"
  /\ dump' = [dump EXCEPT ![b].state = result]
  /\ UNCHANGED <<connVars, serviceVars, thread, ctx, cancelled, recent, cancels>>

\* startBackup has left and closed the channel: a send on a closed channel.
DumpEndsTooLate(b) ==
  /\ dump[b].state = "running"
  /\ thread[b].pc = "done"
  /\ Crash

BackupResult(b) ==
  /\ thread[b].pc = "dumping"
  /\ dump[b].state \in {"success", "error", "cancelled"}
  /\ recent' = (recent \/ dump[b].state = "success")
  /\ Goto(b, "resume")
  /\ UNCHANGED <<connVars, serviceVars, ctx, cancelled, dump, cancels>>

\* Mutant: the cancelled startBackup forgets to reset the context.
MutCancelledKeepsContext(b) ==
  /\ thread[b].pc = "dumping"
  /\ dump[b].ctx \in cancelled
  /\ Goto(b, "done")
  /\ UNCHANGED <<connVars, serviceVars, backupVars>>

\* startBackup sees the context done: it leaves without resuming anyone.
BackupCancelled(b) ==
  /\ thread[b].pc = "dumping"
  /\ dump[b].ctx \in cancelled
  /\ Goto(b, "done")
  /\ ctx' = NoCtx
  /\ UNCHANGED <<connVars, serviceVars, cancelled, dump, recent, cancels>>

\* resumeAllServices has returned: backupCancelFn, then the deferred reset.
BackupDone(b) ==
  /\ thread[b].pc = "resuming"
  /\ thread[b].todo = {}
  /\ thread[b].clean
  /\ ctx # NoCtx
  /\ cancelled' = cancelled \union {ctx}
  /\ ctx' = NoCtx
  /\ Goto(b, "done")
  /\ UNCHANGED <<connVars, serviceVars, dump, recent, cancels>>

\* backupCancelFn has been reset by another backup: a nil call.
BackupDoneWithoutContext(b) ==
  /\ thread[b].pc = "resuming"
  /\ thread[b].todo = {}
  /\ thread[b].clean
  /\ ctx = NoCtx
  /\ Crash

-----------------------------------------------------------------------------
ServiceStep(s) ==
  \/ Park(s) \/ SeeResume(s) \/ Unpark(s) \/ FinishRound(s)
  \/ TakeOrder(s) \/ OrderDone(s) \/ TakeGet(s) \/ SendReport(s)

ConnectionStep(s) == ReadReport(s) \/ Dial(s) \/ Register(s) \/ RemoveService(s)

LoopStep ==
  \/ WakeUp \/ LookForBackup \/ LoopResumedAll
  \/ BeginResume(Loop) \/ RoundUnclean(Loop)
  \/ \E s \in Services :
       GetStatus(s) \/ ResumeService(Loop, s) \/ SkipResumed(Loop, s)

BackupStep(b) ==
  \/ AcceptBackup(b) \/ RefuseRecent(b)
  \/ BeginCheck(b) \/ AllPaused(b) \/ BeginPause(b) \/ EndPause(b)
  \/ StartDump(b) \/ StartDumpWithoutContext(b)
  \/ BackupResult(b) \/ BackupCancelled(b)
  \/ BeginResume(b) \/ RoundUnclean(b)
  \/ BackupDone(b) \/ BackupDoneWithoutContext(b)
  \/ \E s \in Services :
       \/ CheckService(b, s) \/ PauseService(b, s)
       \/ ResumeService(b, s) \/ SkipResumed(b, s)

DumpStep(b) ==
  \/ \E r \in {"success", "error", "cancelled"} : DumpEnds(b, r)
  \/ DumpEndsTooLate(b)

Next ==
  \/ \E s \in Services : ServiceStep(s) \/ ConnectionStep(s)
  \/ \E s \in Services : LoseConnection(s) \/ RestartService(s)
  \/ LoopStep
  \/ \E b \in Backups : RequestBackup(b) \/ BackupStep(b) \/ DumpStep(b)
  \/ RecentExpires
  \/ CancelBackup

Spec == Init /\ [][Next]_vars

\* Every goroutine keeps running, a message is delivered, a dump ends; nothing
\* obliges an operator to act or a connection to fail.
Fairness ==
  /\ \A s \in Services :
       /\ WF_vars(Park(s) \/ SeeResume(s) \/ Unpark(s) \/ FinishRound(s))
       /\ WF_vars(TakeOrder(s) \/ OrderDone(s) \/ TakeGet(s) \/ SendReport(s))
       /\ WF_vars(ReadReport(s))
       /\ SF_vars(Dial(s))
       /\ SF_vars(Register(s) \/ RemoveService(s))
  /\ WF_vars(LoopStep)
  /\ \A b \in Backups : SF_vars(BackupStep(b)) /\ WF_vars(DumpStep(b))

FairSpec == Spec /\ Fairness

-----------------------------------------------------------------------------
(* Properties. *)

\* b's dump is being taken: startBackup waits for its result.
Dumping(b) == thread[b].pc = "dumping" /\ dump[b].state = "running"

Promise == INSTANCE BackupPromise WITH
  working <- {s \in Services : main[s] # "head"},
  dumping <- \E b \in Backups : Dumping(b)

\* The coordinator implements the promise of BackupPromise: a dump begins with
\* every service parked, and none leaves willPauseOperation until it has ended
\* (startBackup, pauseServices, resumeAllServices, pauseOperation).
BackupKeepsPromise == Promise!Spec

\* From the acceptance of a backup to the end of its dump the periodic loop
\* never resumes services: backStatusLock orders BackupHandler and the loop's
\* test of backupContext.
NoResumeDuringBackup ==
  \A b \in Backups :
    thread[b].pc \in {"check", "checking", "pause", "pausing", "paused", "dumping"}
      => StatusUnlocked

\* IsPause errs on one side only while connections last: a service the
\* coordinator takes for paused, with no resume order on its way, has its flag
\* set and its main loop parked or never started.
PausedViewIsSafe ==
  \A s \in Connected :
    /\ isPause[s]
    /\ handling[s] \notin {"resume", "resumed"}
    /\ \A i \in DOMAIN toService[s] : toService[s][i] # "resume"
    /\ \A i \in DOMAIN toCoord[s] : toCoord[s][i] # "resume"
    => flag[s] /\ status[s] = "pause" /\ main[s] = "head"

\* A service that pauseOperation reported as paused stays parked until a resume
\* order reaches it: no round of work begins while the flag says pause and no
\* order is being handled (the handshake of pauseOperation, which waits for
\* serviceStatus, with willPauseOperation).
NoWorkOncePaused ==
  \A s \in Services :
    flag[s] /\ handling[s] = "idle" => main[s] = "head" /\ status[s] = "pause"

\* An accepted backup ends: every service answers the pause, the dump's result
\* arrives, everyone is resumed and startBackup returns.
BackupEnds ==
  \A b \in Backups : (thread[b].pc = "check") ~> (thread[b].pc = "done")

\* Once the operator makes no more requests every service ends up running: it
\* is resumed by startBackup or by the periodic loop, which also covers a
\* cancelled backup, a restart of the coordinator and a service that connects.
AllResumed == <>[](\A s \in Services : ~flag[s] /\ status[s] = "resume")

\* When startBackup logs "successfully pause all services" every connected
\* service is parked: IsPause was true of each (checkIfServicePaused).
PausedMeansParked ==
  \A b \in Backups : thread[b].pc = "paused" =>
    \A s \in Connected : main[s] = "head"
=============================================================================
