------------------------- MODULE Coordinator_proofs -------------------------
(***************************************************************************)
(* Proofs about Coordinator: the handshake of a pause and the lock between *)
(* a backup and the periodic loop, for any services, backups and bounds;   *)
(* and, while connections last, the promise of a backup.                   *)
(***************************************************************************)
EXTENDS Coordinator, SequenceTheorems, TLAPS

\* A service's main loop and its handler of commands: between two orders the
\* status is what the last order asked for, and only a resume order lets the
\* main loop leave willPauseOperation.
HandshakeAt(s) ==
  /\ handling[s] = "pause" => flag[s]
  /\ handling[s] = "resume" => ~flag[s]
  /\ handling[s] \notin Statuses /\ flag[s] => status[s] = "pause"
  /\ handling[s] \notin Statuses /\ ~flag[s] => status[s] = "resume"
  /\ main[s] # "head" /\ status[s] = "pause" => handling[s] = "resume"

ServiceType ==
  /\ flag     \in [Services -> BOOLEAN]
  /\ status   \in [Services -> Statuses]
  /\ main     \in [Services -> {"head", "leaving", "work"}]
  /\ handling \in [Services -> {"idle", "pause", "resume", "paused", "resumed"}]

HandshakeInv == ServiceType /\ \A s \in Services : HandshakeAt(s)

-----------------------------------------------------------------------------
\* All steps but those of a service and its restart leave its variables alone.
LEMMA StepKinds ==
  ASSUME [Next]_vars
  PROVE  \/ \E s \in Services : ServiceStep(s)
         \/ \E s \in Services : RestartService(s)
         \/ UNCHANGED serviceVars
<1>1. ASSUME NEW s \in Services, ConnectionStep(s) PROVE UNCHANGED serviceVars
  BY <1>1 DEF ConnectionStep, ReadReport, Dial, Register, RemoveService
<1>2. ASSUME NEW s \in Services, LoseConnection(s) PROVE UNCHANGED serviceVars
  BY <1>2 DEF LoseConnection
<1>3. ASSUME NEW t, NEW s, NEW cmd, NEW ok, Send(t, s, cmd, ok)
      PROVE  UNCHANGED serviceVars
  BY <1>3 DEF Send, Crash
<1>4. CASE LoopStep
  BY <1>4, <1>3 DEF LoopStep, WakeUp, LookForBackup, LoopResumedAll, BeginResume,
                    RoundUnclean, GetStatus, ResumeService, SkipResumed
<1>5. ASSUME NEW b \in Backups, RequestBackup(b) \/ BackupStep(b) \/ DumpStep(b)
      PROVE  UNCHANGED serviceVars
  <2>1. ASSUME Crash PROVE UNCHANGED serviceVars
    BY <2>1 DEF Crash
  <2>2. CASE RequestBackup(b)
    BY <2>2 DEF RequestBackup
  <2>3. CASE BackupStep(b)
    BY <2>1, <2>3, <1>3
       DEF BackupStep, AcceptBackup, RefuseRecent, BeginCheck, AllPaused, BeginPause,
           EndPause, StartDump, StartDumpWithoutContext, BackupResult,
           BackupCancelled, BeginResume, RoundUnclean, BackupDone,
           BackupDoneWithoutContext, CheckService, PauseService, ResumeService,
           SkipResumed
  <2>4. CASE DumpStep(b)
    BY <2>1, <2>4 DEF DumpStep, DumpEnds, DumpEndsTooLate
  <2> QED
    BY <1>5, <2>2, <2>3, <2>4
<1>6. CASE RecentExpires \/ CancelBackup \/ UNCHANGED vars
  BY <1>6 DEF RecentExpires, CancelBackup, vars
<1> QED
  BY <1>1, <1>2, <1>4, <1>5, <1>6 DEF Next

\* The steps of a service respect its types.
LEMMA ServiceTypeStep == ServiceType /\ [Next]_vars => ServiceType'
<1> SUFFICES ASSUME ServiceType, [Next]_vars PROVE ServiceType'
  OBVIOUS
<1> USE DEF ServiceType
<1>1. ASSUME NEW s \in Services, ServiceStep(s) PROVE ServiceType'
  <2>1. CASE Park(s) \/ SeeResume(s) \/ Unpark(s) \/ FinishRound(s)
    BY <2>1 DEF Park, SeeResume, Unpark, FinishRound, Statuses
  <2>2. CASE TakeOrder(s)
    BY <2>2 DEF TakeOrder
  <2>3. CASE OrderDone(s) \/ TakeGet(s) \/ SendReport(s)
    BY <2>3 DEF OrderDone, TakeGet, SendReport, Reporting, Statuses
  <2> QED
    BY <1>1, <2>1, <2>2, <2>3 DEF ServiceStep
<1>2. ASSUME NEW s \in Services, RestartService(s) PROVE ServiceType'
  BY <1>2 DEF RestartService, Statuses
<1>3. CASE UNCHANGED serviceVars
  BY <1>3 DEF serviceVars
<1> QED
  BY <1>1, <1>2, <1>3, StepKinds

LEMMA HandshakeStep == HandshakeInv /\ [Next]_vars => HandshakeInv'
<1> SUFFICES ASSUME HandshakeInv, [Next]_vars PROVE HandshakeInv'
  OBVIOUS
<1>1. ServiceType /\ ServiceType'
  BY ServiceTypeStep DEF HandshakeInv
<1> SUFFICES ASSUME NEW r \in Services PROVE HandshakeAt(r)'
  BY <1>1 DEF HandshakeInv
<1>2. HandshakeAt(r)
  BY DEF HandshakeInv
<1>3. ASSUME UNCHANGED <<flag[r], status[r], main[r], handling[r]>> PROVE HandshakeAt(r)'
  BY <1>2, <1>3 DEF HandshakeAt
<1>4. ASSUME NEW s \in Services, ServiceStep(s) PROVE HandshakeAt(r)'
  <2>1. CASE r # s
    <3>1. UNCHANGED <<flag[r], status[r], main[r], handling[r]>>
      BY <1>1, <1>4, <2>1 DEF ServiceStep, Park, SeeResume, Unpark, FinishRound,
           TakeOrder, OrderDone, TakeGet, SendReport, ServiceType
    <3> QED
      BY <3>1, <1>3
  <2>2. CASE r = s
    <3> USE <1>1, <1>2, <2>2 DEF HandshakeAt, ServiceType, Statuses
    <3>1. CASE Park(s)
      BY <3>1 DEF Park
    <3>2. CASE SeeResume(s)
      BY <3>2 DEF SeeResume
    <3>3. CASE Unpark(s)
      BY <3>3 DEF Unpark
    <3>4. CASE FinishRound(s)
      BY <3>4 DEF FinishRound
    <3>5. CASE TakeOrder(s)
      BY <3>5 DEF TakeOrder
    <3>6. CASE OrderDone(s)
      BY <3>6 DEF OrderDone, Reporting
    <3>7. CASE TakeGet(s)
      BY <3>7 DEF TakeGet, Reporting
    <3>8. CASE SendReport(s)
      BY <3>8 DEF SendReport
    <3> QED
      BY <1>4, <3>1, <3>2, <3>3, <3>4, <3>5, <3>6, <3>7, <3>8 DEF ServiceStep
  <2> QED
    BY <2>1, <2>2
<1>5. ASSUME NEW s \in Services, RestartService(s) PROVE HandshakeAt(r)'
  <2>1. CASE r # s
    BY <1>1, <1>3, <1>5, <2>1 DEF RestartService, ServiceType
  <2>2. CASE r = s
    BY <1>1, <1>5, <2>2 DEF RestartService, ServiceType, HandshakeAt, Statuses
  <2> QED
    BY <2>1, <2>2
<1>6. CASE UNCHANGED serviceVars
  BY <1>3, <1>6 DEF serviceVars
<1> QED
  BY <1>4, <1>5, <1>6, StepKinds

LEMMA InitHandshake == Init => HandshakeInv
<1> SUFFICES ASSUME Init PROVE HandshakeInv
  OBVIOUS
<1>1. /\ flag     = [s \in Services |-> s \notin Workers]
      /\ status   = [s \in Services |-> IF s \in Workers THEN "resume" ELSE "pause"]
      /\ main     = [s \in Services |-> "head"]
      /\ handling = [s \in Services |-> "idle"]
  BY DEF Init
<1>2. flag \in [Services -> BOOLEAN]
  BY <1>1, Zenon
<1>3. ServiceType
  BY <1>1, <1>2 DEF ServiceType, Statuses
<1>4. ASSUME NEW s \in Services PROVE HandshakeAt(s)
  <2>1. flag[s] <=> s \notin Workers
    BY <1>1, Zenon
  <2>2. status[s] = (IF s \in Workers THEN "resume" ELSE "pause")
        /\ main[s] = "head" /\ handling[s] = "idle"
    BY <1>1
  <2> QED
    BY <2>1, <2>2 DEF HandshakeAt
<1> QED
  BY <1>3, <1>4 DEF HandshakeInv

\* A service that pauseOperation reported as paused stays parked until a resume
\* order reaches it, whatever becomes of its connection and of the coordinator.
THEOREM SpecNoWorkOncePaused == Spec => []NoWorkOncePaused
<1>1. Init => HandshakeInv
  BY InitHandshake
<1>2. HandshakeInv /\ [Next]_vars => HandshakeInv'
  BY HandshakeStep
<1>3. HandshakeInv => NoWorkOncePaused
  BY DEF HandshakeInv, HandshakeAt, ServiceType, NoWorkOncePaused, Statuses
<1> QED
  BY <1>1, <1>2, <1>3, PTL DEF Spec

-----------------------------------------------------------------------------
(* The coordinator's goroutines, when backups are requested one at a time. *)

Thread == [pc : ThreadPcs, todo : SUBSET Services, clean : BOOLEAN]

ThreadType == thread \in [Threads -> Thread]

\* Thread t goes to a step, all others stay where they are.
To(t, at) == \A u \in Threads : thread'[u].pc = IF u = t THEN at ELSE thread[u].pc

SamePcs == \A u \in Threads : thread'[u].pc = thread[u].pc

USE DEF ThreadPcs, Walking

LEMMA GotoTo ==
  ASSUME ThreadType, NEW t \in Threads, NEW at \in ThreadPcs, Goto(t, at)
  PROVE  ThreadType' /\ To(t, at)
<1>1. thread' = [thread EXCEPT ![t] = [@ EXCEPT !.pc = at, !.todo = {}]]
  BY DEF Goto, ThreadType, Thread
<1>2. [thread[t] EXCEPT !.pc = at, !.todo = {}] \in Thread
  BY DEF ThreadType, Thread
<1> QED
  BY <1>1, <1>2 DEF ThreadType, To, Thread

LEMMA BeginWalkTo ==
  ASSUME ThreadType, NEW t \in Threads, NEW at \in ThreadPcs, BeginWalk(t, at)
  PROVE  ThreadType' /\ To(t, at)
<1>1. [pc |-> at, todo |-> Connected, clean |-> TRUE] \in Thread
  BY DEF Thread, Connected
<1> QED
  BY <1>1 DEF BeginWalk, ThreadType, To

LEMMA VisitedTo ==
  ASSUME ThreadType, NEW t \in Threads, NEW s, NEW ok \in BOOLEAN, Visited(t, s, ok)
  PROVE  ThreadType' /\ SamePcs
<1> DEFINE r == [thread[t] EXCEPT !.todo = @ \ {s}, !.clean = @ /\ ok]
<1>1. thread' = [thread EXCEPT ![t] = r]
  BY DEF Visited
<1>2. thread[t] \in Thread
  BY DEF ThreadType
<1>3. r.pc = thread[t].pc
  BY <1>2 DEF Thread
<1>4. r \in Thread
  BY <1>2 DEF Thread
<1> HIDE DEF r
<1> QED
  BY <1>1, <1>3, <1>4 DEF ThreadType, SamePcs

LEMMA CrashTo ==
  ASSUME ThreadType, Crash
  PROVE  /\ ThreadType' /\ ctx' = NoCtx
         /\ thread'[Loop].pc = "sleep"
         /\ \A b \in Backups : thread'[b].pc \in {"idle", "done"}
<1> DEFINE At(t) == IF t = Loop THEN "sleep"
                  ELSE IF thread[t].pc = "idle" THEN "idle" ELSE "done"
<1>1. thread' = [t \in Threads |-> [pc |-> At(t), todo |-> {}, clean |-> TRUE]]
  BY DEF Crash
<1>2. At(Loop) = "sleep"
  OBVIOUS
<1>3. \A t \in Threads : t # Loop => At(t) \in {"idle", "done"}
  OBVIOUS
<1>4. Loop \in Threads /\ \A b \in Backups : b \in Threads /\ b # Loop
  BY ThreadsAssumption DEF Threads
<1>5. ctx' = NoCtx
  BY DEF Crash
<1> HIDE DEF At
<1>6. ASSUME NEW t \in Threads PROVE At(t) \in ThreadPcs
  <2>1. CASE t = Loop
    BY <1>2, <2>1
  <2>2. CASE t # Loop
    BY <1>3, <2>2
  <2> QED
    BY <2>1, <2>2
<1>7. \A t \in Threads : [pc |-> At(t), todo |-> {}, clean |-> TRUE] \in Thread
  BY <1>6 DEF Thread
<1>8. ThreadType'
  BY <1>1, <1>7 DEF ThreadType
<1> QED
  BY <1>1, <1>2, <1>3, <1>4, <1>5, <1>8

LEMMA SendTo ==
  ASSUME ThreadType, NEW t \in Threads, NEW s, NEW cmd, NEW ok \in BOOLEAN,
         Send(t, s, cmd, ok)
  PROVE  Crash \/ (ThreadType' /\ SamePcs /\ ctx' = ctx)
BY VisitedTo DEF Send, backupVars

\* What a step does to the threads and to the backup's context.
ThreadStep ==
  \/ SamePcs /\ ctx' = ctx
  \/ thread'[Loop].pc = "sleep" /\ ctx' = NoCtx
     /\ \A b \in Backups : thread'[b].pc \in {"idle", "done"}
  \/ /\ \E at \in {"sleep", "getting"} : To(Loop, at)
     /\ ctx' = ctx
  \/ To(Loop, "resume") /\ ctx = NoCtx /\ ctx' = ctx
  \/ /\ thread[Loop].pc \in {"resume", "resuming"}
     /\ \E at \in {"resume", "resuming"} : To(Loop, at)
     /\ ctx' = ctx
  \/ \E b \in Backups :
       \/ /\ thread[b].pc = "idle" /\ To(b, "asked") /\ ctx = NoCtx /\ ctx' = ctx
          /\ SerialRequests => \A c \in Backups : thread[c].pc # "asked"
       \/ thread[b].pc = "asked" /\ StatusUnlocked /\ To(b, "check") /\ ctx' = b
       \/ thread[b].pc = "asked" /\ To(b, "done") /\ ctx' = ctx
       \/ /\ thread[b].pc \in {"check", "checking", "pause", "pausing", "paused"}
          /\ \E at \in {"check", "checking", "pause", "pausing", "paused", "dumping"} :
               To(b, at)
          /\ ctx' = ctx
       \/ /\ thread[b].pc \in {"dumping", "resume", "resuming"}
          /\ \E at \in {"resume", "resuming"} : To(b, at)
          /\ ctx' = ctx
       \/ /\ thread[b].pc \in {"dumping", "resuming"}
          /\ To(b, "done")
          /\ ctx' = NoCtx

LEMMA ThreadSteps ==
  ASSUME ThreadType, [Next]_vars
  PROVE  ThreadType' /\ ThreadStep
<1> DEFINE Goal == ThreadType' /\ ThreadStep
<1> SUFFICES Goal
  OBVIOUS
<1>1. Loop \in Threads /\ \A b \in Backups : b \in Threads
  BY DEF Threads
<1>2. ASSUME UNCHANGED <<thread, ctx>> PROVE Goal
  BY <1>2 DEF ThreadType, ThreadStep, SamePcs
<1>3. ASSUME Crash PROVE Goal
  BY <1>3, CrashTo DEF ThreadStep
<1>4. ASSUME NEW t \in Threads, NEW s, NEW cmd, NEW ok \in BOOLEAN, Send(t, s, cmd, ok)
      PROVE  Goal
  BY <1>3, <1>4, SendTo DEF ThreadStep
<1>5. ASSUME NEW t \in Threads, NEW s, NEW ok \in BOOLEAN, Visited(t, s, ok), ctx' = ctx
      PROVE  Goal
  BY <1>5, VisitedTo DEF ThreadStep
<1>6. ASSUME NEW s \in Services,
             ServiceStep(s) \/ ConnectionStep(s) \/ LoseConnection(s) \/ RestartService(s)
      PROVE  Goal
  BY <1>2, <1>6 DEF ServiceStep, Park, SeeResume, Unpark, FinishRound, TakeOrder,
       OrderDone, TakeGet, SendReport, ConnectionStep, ReadReport, Dial, Register,
       RemoveService, LoseConnection, RestartService, backupVars
<1>7. CASE LoopStep
  <2>1. CASE WakeUp
    BY <2>1, <1>1, BeginWalkTo DEF WakeUp, backupVars, ThreadStep
  <2>2. CASE LookForBackup
    <3>1. CASE ctx = NoCtx
      BY <2>2, <3>1, <1>1, GotoTo DEF LookForBackup, backupVars, ThreadStep
    <3>2. CASE ctx # NoCtx
      BY <2>2, <3>2, <1>1, GotoTo DEF LookForBackup, backupVars, ThreadStep
    <3> QED
      BY <3>1, <3>2
  <2>3. CASE LoopResumedAll
    BY <2>3, <1>1, GotoTo DEF LoopResumedAll, backupVars, ThreadStep
  <2>4. CASE BeginResume(Loop)
    BY <2>4, <1>1, BeginWalkTo DEF BeginResume, backupVars, ThreadStep
  <2>5. CASE RoundUnclean(Loop)
    BY <2>5, <1>1, GotoTo DEF RoundUnclean, backupVars, ThreadStep
  <2>6. ASSUME NEW s \in Services, GetStatus(s) \/ ResumeService(Loop, s) PROVE Goal
    BY <2>6, <1>1, <1>4 DEF GetStatus, ResumeService
  <2>7. ASSUME NEW s \in Services, SkipResumed(Loop, s) PROVE Goal
    BY <2>7, <1>1, <1>5 DEF SkipResumed, backupVars
  <2> QED
    BY <1>7, <2>1, <2>2, <2>3, <2>4, <2>5, <2>6, <2>7 DEF LoopStep
<1>8. ASSUME NEW b \in Backups, RequestBackup(b) PROVE Goal
  BY <1>8, <1>1, GotoTo DEF RequestBackup, backupVars, ThreadStep
<1>9. ASSUME NEW b \in Backups, DumpStep(b) PROVE Goal
  BY <1>9, <1>2, <1>3 DEF DumpStep, DumpEnds, DumpEndsTooLate
<1>10. ASSUME NEW b \in Backups, BackupStep(b) PROVE Goal
  <2>1. CASE AcceptBackup(b)
    BY <2>1, <1>1, GotoTo DEF AcceptBackup, ThreadStep
  <2>2. CASE RefuseRecent(b)
    BY <2>2, <1>1, GotoTo DEF RefuseRecent, backupVars, ThreadStep
  <2>3. CASE BeginCheck(b) \/ BeginPause(b)
    BY <2>3, <1>1, BeginWalkTo DEF BeginCheck, BeginPause, backupVars, ThreadStep
  <2>4. CASE AllPaused(b) \/ EndPause(b)
    BY <2>4, <1>1, GotoTo DEF AllPaused, EndPause, backupVars, ThreadStep
  <2>5. CASE StartDump(b) \/ BackupResult(b)
    BY <2>5, <1>1, GotoTo DEF StartDump, BackupResult, ThreadStep
  <2>6. CASE BackupCancelled(b) \/ BackupDone(b)
    BY <2>6, <1>1, GotoTo DEF BackupCancelled, BackupDone, ThreadStep
  <2>7. CASE StartDumpWithoutContext(b) \/ BackupDoneWithoutContext(b)
    BY <2>7, <1>3 DEF StartDumpWithoutContext, BackupDoneWithoutContext
  <2>8. CASE BeginResume(b)
    BY <2>8, <1>1, BeginWalkTo DEF BeginResume, backupVars, ThreadStep
  <2>9. CASE RoundUnclean(b)
    BY <2>9, <1>1, GotoTo DEF RoundUnclean, backupVars, ThreadStep
  <2>10. ASSUME NEW s \in Services, CheckService(b, s) PROVE Goal
    <3>1. CASE isPause[s]
      BY <2>10, <3>1, <1>1, <1>5 DEF CheckService, backupVars
    <3>2. CASE ~isPause[s]
      BY <2>10, <3>2, <1>1, GotoTo DEF CheckService, backupVars, ThreadStep
    <3> QED
      BY <3>1, <3>2
  <2>11. ASSUME NEW s \in Services, PauseService(b, s) \/ ResumeService(b, s) PROVE Goal
    BY <2>11, <1>1, <1>4 DEF PauseService, ResumeService
  <2>12. ASSUME NEW s \in Services, SkipResumed(b, s) PROVE Goal
    BY <2>12, <1>1, <1>5 DEF SkipResumed, backupVars
  <2> QED
    BY <1>10, <2>1, <2>2, <2>3, <2>4, <2>5, <2>6, <2>7, <2>8, <2>9, <2>10, <2>11, <2>12
       DEF BackupStep
<1>11. CASE RecentExpires \/ CancelBackup \/ UNCHANGED vars
  BY <1>11, <1>2 DEF RecentExpires, CancelBackup, vars, backupVars
<1> QED
  BY <1>6, <1>7, <1>8, <1>9, <1>10, <1>11 DEF Next

-----------------------------------------------------------------------------
(* The types of the connections and of the backups. *)

ConnType ==
  /\ conn      \in [Services -> {"none", "dialing", "open", "broken", "stuck"}]
  /\ isPause   \in [Services -> BOOLEAN]
  /\ toService \in [Services -> Seq(Commands)]
  /\ toCoord   \in [Services -> Seq(Statuses)]
  /\ lost      \in 0 .. MaxLost

BackupType ==
  /\ ctx       \in Backups \union {NoCtx}
  /\ cancelled \subseteq Backups
  /\ dump      \in [Backups -> [state : {"none", "running", "success",
                                          "error", "cancelled"},
                                ctx   : Backups \union {NoCtx}]]
  /\ recent    \in BOOLEAN
  /\ cancels   \in 0 .. MaxCancel

\* A crash empties the queues to the coordinator and truncates the others.
LEMMA CrashTypes ==
  ASSUME ConnType, BackupType, Crash
  PROVE  ConnType' /\ BackupType'
<1>1. toService' \in [Services -> Seq(Commands)]
  <2>1. PICK n \in [Services -> 0 .. MaxQueue] :
          /\ \A s \in Services : n[s] <= Len(toService[s])
          /\ toService' = [s \in Services |-> SubSeq(toService[s], 1, n[s])]
    BY DEF Crash
  <2>2. ASSUME NEW s \in Services PROVE SubSeq(toService[s], 1, n[s]) \in Seq(Commands)
    <3>1. toService[s] \in Seq(Commands) /\ n[s] \in Nat /\ n[s] <= Len(toService[s])
      BY <2>1, BoundsAssumption DEF ConnType
    <3>2. \A i \in 1 .. n[s] : toService[s][i] \in Commands
      BY <3>1
    <3> QED
      BY <3>1, <3>2
  <2> QED
    BY <2>1, <2>2
<1>2. ConnType'
  BY <1>1 DEF Crash, ConnType
<1>3. BackupType'
  BY DEF Crash, BackupType
<1> QED
  BY <1>2, <1>3

LEMMA SendTypes ==
  ASSUME ConnType, BackupType, NEW t, NEW s \in Services, NEW cmd \in Commands, NEW ok,
         Send(t, s, cmd, ok)
  PROVE  ConnType' /\ BackupType'
<1>1. CASE Crash
  BY <1>1, CrashTypes
<1>2. CASE UNCHANGED <<conn, isPause, toCoord, lost, serviceVars, backupVars>>
           /\ toService' = [toService EXCEPT ![s] = Append(@, cmd)]
  BY <1>2 DEF ConnType, BackupType, backupVars
<1>3. CASE UNCHANGED <<isPause, toService, toCoord, lost, serviceVars, backupVars>>
           /\ conn' \in {conn, [conn EXCEPT ![s] = "stuck"]}
  BY <1>3 DEF ConnType, BackupType, backupVars
<1> QED
  BY <1>1, <1>2, <1>3 DEF Send

\* The steps of a service and of its connection.
LEMMA ServiceConnTypes ==
  ASSUME ConnType, ServiceType, NEW s \in Services,
         ServiceStep(s) \/ ConnectionStep(s) \/ LoseConnection(s) \/ RestartService(s)
  PROVE  ConnType' /\ UNCHANGED backupVars
<1>1. UNCHANGED backupVars
  BY DEF ServiceStep, Park, SeeResume, Unpark, FinishRound, TakeOrder, OrderDone,
         TakeGet, SendReport, ConnectionStep, ReadReport, Dial, Register,
         RemoveService, LoseConnection, RestartService
<1>2. CASE Park(s) \/ SeeResume(s) \/ Unpark(s) \/ FinishRound(s) \/ OrderDone(s)
  BY <1>2 DEF Park, SeeResume, Unpark, FinishRound, OrderDone, connVars, ConnType
<1>3. CASE TakeOrder(s) \/ TakeGet(s)
  <2>1. /\ toService[s] # <<>> /\ toService[s] \in Seq(Commands)
        /\ toService' = [toService EXCEPT ![s] = Tail(@)]
        /\ UNCHANGED <<conn, isPause, toCoord, lost>>
    BY <1>3 DEF TakeOrder, TakeGet, ConnType
  <2>2. Tail(toService[s]) \in Seq(Commands)
    BY <2>1
  <2> QED
    BY <1>1, <2>1, <2>2 DEF ConnType
<1>4. CASE SendReport(s)
  <2>1. handling[s] \in {"paused", "resumed"} => Reported[handling[s]] \in Statuses
    BY DEF Reported, Statuses
  <2>2. \/ UNCHANGED toCoord
        \/ \E r \in Statuses : toCoord' = [toCoord EXCEPT ![s] = Append(@, r)]
    BY <1>4, <2>1 DEF SendReport
  <2>3. \A r \in Statuses : Append(toCoord[s], r) \in Seq(Statuses)
    BY DEF ConnType
  <2>4. toCoord' \in [Services -> Seq(Statuses)]
    BY <2>2, <2>3 DEF ConnType
  <2> QED
    BY <1>4, <2>4 DEF SendReport, ConnType
<1>5. CASE ReadReport(s)
  <2> DEFINE v == Head(toCoord[s]) = "pause"
  <2>1. v \in BOOLEAN
    OBVIOUS
  <2>2. isPause' = [isPause EXCEPT ![s] = v]
    BY <1>5 DEF ReadReport
  <2> HIDE DEF v
  <2>3. isPause' \in [Services -> BOOLEAN]
    BY <2>1, <2>2 DEF ConnType
  <2>4. toCoord' \in [Services -> Seq(Statuses)]
    BY <1>5 DEF ReadReport, ConnType
  <2> QED
    BY <1>5, <2>3, <2>4 DEF ReadReport, ConnType
<1>6. CASE Dial(s) \/ Register(s) \/ RemoveService(s)
  BY <1>6 DEF Dial, Register, RemoveService, ConnType
<1>7. CASE LoseConnection(s) \/ RestartService(s)
  <2>1. /\ conn' = [conn EXCEPT ![s] = "broken"]
        /\ toCoord' = [toCoord EXCEPT ![s] = <<>>]
        /\ lost < MaxLost /\ lost' = lost + 1
        /\ UNCHANGED isPause
    BY <1>7 DEF LoseConnection, RestartService
  <2>2. \E n \in 0 .. Len(toService[s]) :
          toService' = [toService EXCEPT ![s] = SubSeq(@, 1, n)]
    <3>1. CASE LoseConnection(s)
      BY <3>1 DEF LoseConnection
    <3>2. CASE RestartService(s)
      <4>1. SubSeq(toService[s], 1, 0) = <<>> /\ 0 \in 0 .. Len(toService[s])
        BY DEF ConnType
      <4> QED
        BY <3>2, <4>1 DEF RestartService, ConnType
    <3> QED
      BY <1>7, <3>1, <3>2
  <2>3. toService' \in [Services -> Seq(Commands)]
    <3>1. PICK n \in 0 .. Len(toService[s]) :
            toService' = [toService EXCEPT ![s] = SubSeq(@, 1, n)]
      BY <2>2
    <3>2. toService[s] \in Seq(Commands) /\ n \in Nat /\ n <= Len(toService[s])
      BY DEF ConnType
    <3>3. SubSeq(toService[s], 1, n) \in Seq(Commands)
      BY <3>2
    <3> QED
      BY <3>1, <3>3 DEF ConnType
  <2>4. toCoord' \in [Services -> Seq(Statuses)]
    BY <2>1 DEF ConnType
  <2>5. lost' \in 0 .. MaxLost
    BY <2>1, BoundsAssumption DEF ConnType
  <2> QED
    BY <1>1, <2>1, <2>3, <2>4, <2>5 DEF ConnType
<1> QED
  BY <1>1, <1>2, <1>3, <1>4, <1>5, <1>6, <1>7 DEF ServiceStep, ConnectionStep

\* The coordinator's own steps.
LEMMA BackupTypes ==
  ASSUME ConnType, BackupType, NEW b \in Backups,
         RequestBackup(b) \/ BackupStep(b) \/ DumpStep(b)
  PROVE  ConnType' /\ BackupType'
<1> DEFINE Goal == ConnType' /\ BackupType'
<1> SUFFICES Goal
  OBVIOUS
<1>1. ASSUME UNCHANGED <<connVars, backupVars>> PROVE Goal
  BY <1>1 DEF connVars, backupVars, ConnType, BackupType
<1>2. ASSUME Crash PROVE Goal
  BY <1>2, CrashTypes
<1>3. CASE RequestBackup(b)
  BY <1>3, <1>1 DEF RequestBackup
<1>4. CASE DumpStep(b)
  <2>1. ASSUME NEW r \in {"success", "error", "cancelled"}, DumpEnds(b, r) PROVE Goal
    BY <2>1 DEF DumpEnds, connVars, ConnType, BackupType
  <2> QED
    BY <1>4, <1>2, <2>1 DEF DumpStep, DumpEndsTooLate
<1>5. CASE BackupStep(b)
  <2>1. CASE AcceptBackup(b)
    BY <2>1 DEF AcceptBackup, connVars, ConnType, BackupType
  <2>2. CASE StartDump(b)
    BY <2>2 DEF StartDump, connVars, ConnType, BackupType
  <2>3. CASE BackupResult(b)
    <3>1. recent' \in BOOLEAN
      BY <2>3, Zenon DEF BackupResult, BackupType
    <3> QED
      BY <2>3, <3>1 DEF BackupResult, connVars, ConnType, BackupType
  <2>4. CASE BackupCancelled(b)
    BY <2>4 DEF BackupCancelled, connVars, ConnType, BackupType
  <2>5. CASE BackupDone(b)
    BY <2>5 DEF BackupDone, connVars, ConnType, BackupType
  <2>6. CASE StartDumpWithoutContext(b) \/ BackupDoneWithoutContext(b)
    BY <2>6, <1>2 DEF StartDumpWithoutContext, BackupDoneWithoutContext
  <2>7. ASSUME NEW s \in Services, PauseService(b, s) \/ ResumeService(b, s) PROVE Goal
    BY <2>7, SendTypes DEF PauseService, ResumeService, Commands
  <2>8. ASSUME NEW s \in Services, CheckService(b, s) \/ SkipResumed(b, s) PROVE Goal
    BY <2>8, <1>1 DEF CheckService, SkipResumed
  <2>9. CASE \/ RefuseRecent(b) \/ BeginCheck(b) \/ AllPaused(b) \/ BeginPause(b)
             \/ EndPause(b) \/ BeginResume(b) \/ RoundUnclean(b)
    BY <2>9, <1>1 DEF RefuseRecent, BeginCheck, AllPaused, BeginPause, EndPause,
         BeginResume, RoundUnclean
  <2> QED
    BY <1>5, <2>1, <2>2, <2>3, <2>4, <2>5, <2>6, <2>7, <2>8, <2>9 DEF BackupStep
<1> QED
  BY <1>3, <1>4, <1>5

LEMMA TypesStep ==
  ASSUME ConnType, ServiceType, BackupType, [Next]_vars
  PROVE  ConnType' /\ BackupType'
<1> DEFINE Goal == ConnType' /\ BackupType'
<1>1. ASSUME UNCHANGED <<connVars, backupVars>> PROVE Goal
  BY <1>1 DEF connVars, backupVars, ConnType, BackupType
<1>2. ASSUME NEW s \in Services,
             ServiceStep(s) \/ ConnectionStep(s) \/ LoseConnection(s) \/ RestartService(s)
      PROVE  Goal
  BY <1>2, ServiceConnTypes DEF backupVars, BackupType
<1>3. CASE LoopStep
  <2>1. ASSUME NEW s \in Services, GetStatus(s) \/ ResumeService(Loop, s) PROVE Goal
    BY <2>1, SendTypes DEF GetStatus, ResumeService, Commands
  <2>2. ASSUME NEW s \in Services, SkipResumed(Loop, s) PROVE Goal
    BY <2>2, <1>1 DEF SkipResumed
  <2>3. CASE WakeUp \/ LookForBackup \/ LoopResumedAll \/ BeginResume(Loop)
             \/ RoundUnclean(Loop)
    BY <2>3, <1>1 DEF WakeUp, LookForBackup, LoopResumedAll, BeginResume, RoundUnclean
  <2> QED
    BY <1>3, <2>1, <2>2, <2>3 DEF LoopStep
<1>4. ASSUME NEW b \in Backups, RequestBackup(b) \/ BackupStep(b) \/ DumpStep(b)
      PROVE  Goal
  BY <1>4, BackupTypes
<1>5. CASE RecentExpires
  BY <1>5 DEF RecentExpires, connVars, ConnType, BackupType
<1>6. CASE CancelBackup
  BY <1>6, BoundsAssumption DEF CancelBackup, connVars, ConnType, BackupType
<1>7. CASE UNCHANGED vars
  BY <1>7, <1>1 DEF vars
<1> QED
  BY <1>2, <1>3, <1>4, <1>5, <1>6, <1>7 DEF Next

LEMMA InitThreads == Init => ThreadType /\ \A b \in Backups : thread[b].pc = "idle"
<1> SUFFICES ASSUME Init PROVE ThreadType /\ \A b \in Backups : thread[b].pc = "idle"
  OBVIOUS
<1> DEFINE At(t) == IF t = Loop THEN "sleep" ELSE "idle"
<1>1. thread = [t \in Threads |-> [pc |-> At(t), todo |-> {}, clean |-> TRUE]]
  BY DEF Init
<1>2. \A b \in Backups : b \in Threads /\ b # Loop
  BY ThreadsAssumption DEF Threads
<1>3. \A t \in Threads : At(t) \in ThreadPcs
  OBVIOUS
<1>4. \A t \in Threads : t # Loop => At(t) = "idle"
  OBVIOUS
<1> HIDE DEF At
<1>5. \A t \in Threads : [pc |-> At(t), todo |-> {}, clean |-> TRUE] \in Thread
  BY <1>3 DEF Thread
<1> QED
  BY <1>1, <1>2, <1>4, <1>5 DEF ThreadType

LEMMA InitTypes == Init => ConnType /\ BackupType
<1> SUFFICES ASSUME Init PROVE ConnType /\ BackupType
  OBVIOUS
<1>1. ConnType
  <2>1. isPause \in [Services -> BOOLEAN]
    BY Zenon DEF Init
  <2> QED
    BY <2>1, BoundsAssumption DEF Init, ConnType
<1>2. BackupType
  <2>1. dump = [b \in Backups |-> [state |-> "none", ctx |-> NoCtx]]
        /\ ctx = NoCtx /\ cancelled = {} /\ recent = FALSE /\ cancels = 0
    BY DEF Init
  <2>2. dump \in [Backups -> [state : {"none", "running", "success", "error",
                                      "cancelled"},
                             ctx   : Backups \union {NoCtx}]]
    BY <2>1
  <2>3. cancels \in 0 .. MaxCancel
    BY <2>1, BoundsAssumption
  <2>4. recent \in BOOLEAN
    BY <2>1, Zenon
  <2> QED
    BY <2>1, <2>2, <2>3, <2>4, Zenon DEF BackupType
<1> QED
  BY <1>1, <1>2

\* Every variable keeps its type: a report carries a status and never a state of
\* the handler, a truncated queue is a queue, the bounds are kept (SendReport,
\* Crash, LoseConnection).
THEOREM SpecTypeOK == Spec => []TypeOK
<1>1. Init => ServiceType /\ ThreadType /\ ConnType /\ BackupType
  BY InitHandshake, InitThreads, InitTypes DEF HandshakeInv
<1>2. ServiceType /\ ThreadType /\ ConnType /\ BackupType /\ [Next]_vars
      => ServiceType' /\ ThreadType' /\ ConnType' /\ BackupType'
  BY ServiceTypeStep, ThreadSteps, TypesStep
<1>3. ServiceType /\ ThreadType /\ ConnType /\ BackupType => TypeOK
  BY DEF ServiceType, ThreadType, Thread, ConnType, BackupType, TypeOK
<1> QED
  BY <1>1, <1>2, <1>3, PTL DEF Spec

-----------------------------------------------------------------------------
(* One backup at a time. *)

\* At most one backup is asked for or under way, and the context is its own.
SerialInv ==
  /\ \A b, c \in Backups : thread[b].pc = "asked" /\ thread[c].pc = "asked" => b = c
  /\ \A b \in Backups : thread[b].pc = "asked" => ctx = NoCtx
  /\ \A b \in Backups :
       thread[b].pc \in {"check", "checking", "pause", "pausing", "paused",
                         "dumping", "resume", "resuming"} => ctx = b

LEMMA SerialStep ==
  ASSUME SerialRequests, ThreadType, SerialInv, NoResumeDuringBackup, [Next]_vars
  PROVE  SerialInv' /\ NoResumeDuringBackup'
<1>1. ThreadStep
  BY ThreadSteps
<1>2. Loop \in Threads /\ \A b \in Backups : b \in Threads /\ b # Loop /\ b # NoCtx
  BY ThreadsAssumption DEF Threads
<1>3. SerialInv'
  BY <1>1, <1>2 DEF ThreadStep, SerialInv, To, SamePcs
<1>4. NoResumeDuringBackup'
  BY <1>1, <1>2 DEF ThreadStep, SerialInv, NoResumeDuringBackup, StatusUnlocked, To, SamePcs
<1> QED
  BY <1>3, <1>4

\* If backups are requested one at a time, the periodic loop never resumes
\* services from the acceptance of a backup to the end of its dump, whatever
\* fails (coordinator.go: backStatusLock).
THEOREM SpecNoResumeDuringBackup ==
  ASSUME SerialRequests
  PROVE  Spec => []NoResumeDuringBackup
<1>1. Init => ThreadType /\ SerialInv /\ NoResumeDuringBackup
  BY InitThreads DEF SerialInv, NoResumeDuringBackup
<1>2. ThreadType /\ SerialInv /\ NoResumeDuringBackup /\ [Next]_vars
      => ThreadType' /\ SerialInv' /\ NoResumeDuringBackup'
  BY SerialStep, ThreadSteps
<1> QED
  BY <1>1, <1>2, PTL DEF Spec

-----------------------------------------------------------------------------
(* While connections last: the coordinator's view of who is paused is     *)
(* safe, and a backup keeps the promise of BackupPromise, for any services, *)
(* any number of backups, one after the other, and any length of the       *)
(* queues.                                                                 *)

\* What the promise rests on: no connection is lost and no service restarts, no
\* backup is cancelled (its dump ends after startBackup has left, and the process
\* with it), backups do not overlap, and every service starts parked.
Lasting == MaxLost = 0 /\ MaxCancel = 0 /\ SerialRequests /\ Workers = {}

Types == ServiceType /\ ThreadType /\ ConnType /\ BackupType

Pausing  == {"check", "checking", "pause", "pausing", "paused", "dumping"}
Resuming == {"resume", "resuming"}

-----------------------------------------------------------------------------
(* The invariant. *)

\* The periodic loop resumes nobody while a backup does.
ResumeAlone == \A b \in Backups : thread[b].pc \in Resuming => StatusUnlocked

\* A dump belongs to its backup, which waits for it and is not cancelled before
\* it has ended.
DumpAt(b) ==
  /\ b \in cancelled => thread[b].pc = "done"
  /\ thread[b].pc = "dumping" => dump[b].ctx = b
  /\ dump[b].state # "none" => thread[b].pc \in {"dumping", "resume", "resuming", "done"}
  /\ thread[b].pc \in {"resume", "resuming", "done"} => dump[b].state # "running"

\* A service that has yet to connect is parked and has nothing on its way.
Fresh(s) ==
  /\ conn[s] \in {"none", "dialing"}
  /\ toService[s] = <<>> /\ toCoord[s] = <<>>
  /\ flag[s] /\ status[s] = "pause" /\ main[s] = "head" /\ handling[s] = "idle"

\* What the coordinator will think once it has read every report on its way.
LastSaid(s) == IF toCoord[s] = <<>> THEN isPause[s]
               ELSE toCoord[s][Len(toCoord[s])] = "pause"

\* The reports of a service end with what its flag says.
Honest(s) ==
  /\ conn[s] = "open"
  /\ handling[s] = "idle" => (flag[s] <=> LastSaid(s))
  /\ handling[s] = "paused" => flag[s]
  /\ handling[s] = "resumed" => ~flag[s]
  /\ handling[s] = "pause" /\ LastSaid(s) => status[s] = "pause"

\* On the way from the coordinator's orders through the handler and its reports
\* to IsPause, what comes after an x is never a y.
About == [pause |-> {"pause", "paused"}, resume |-> {"resume", "resumed"}]

NoneOrdered(s, y) == \A i \in DOMAIN toService[s] : toService[s][i] # y
NoneHandled(s, y) == NoneOrdered(s, y) /\ handling[s] \notin About[y]
NoneComing(s, y)  == NoneHandled(s, y) /\ \A i \in DOMAIN toCoord[s] : toCoord[s][i] # y

Final(s, x, y) ==
  /\ \A i, j \in DOMAIN toService[s] :
       i < j /\ toService[s][i] = x => toService[s][j] # y
  /\ handling[s] \in About[x] => NoneOrdered(s, y)
  /\ \A i \in DOMAIN toCoord[s] : toCoord[s][i] = x =>
       /\ NoneHandled(s, y)
       /\ \A j \in DOMAIN toCoord[s] : i < j => toCoord[s][j] # y
  /\ (isPause[s] <=> x = "pause") => NoneComing(s, y)

\* Unless a backup is pausing a resume is final, unless somebody resumes a pause.
PhaseInv ==
  /\ (\A b \in Backups : thread[b].pc \notin Pausing)
       => \A s \in Services : Final(s, "resume", "pause")
  /\ (\A t \in Threads : thread[t].pc \notin Resuming)
       => \A s \in Services : Final(s, "pause", "resume")

\* What a walk has found of the services it has visited is still so.
WalkInv ==
  /\ \A t \in Threads : thread[t].pc = "resuming" /\ thread[t].clean =>
       \A s \in Services : conn[s] = "open" /\ s \notin thread[t].todo => ~isPause[s]
  /\ \A b \in Backups : thread[b].pc = "checking" =>
       \A s \in Services : conn[s] = "open" /\ s \notin thread[b].todo => isPause[s]
  /\ \A b \in Backups : thread[b].pc \in {"paused", "dumping"} =>
       \A s \in Services : conn[s] = "open" => isPause[s]

Calm ==
  /\ \A s \in Services : HandshakeAt(s)
  /\ SerialInv /\ NoResumeDuringBackup /\ ResumeAlone
  /\ \A b \in Backups : DumpAt(b)
  /\ \A s \in Services : Honest(s) \/ Fresh(s)

IInv == Types /\ Calm /\ PhaseInv /\ WalkInv

-----------------------------------------------------------------------------
(* What a step can do while connections last. *)

Quiet == UNCHANGED <<conn, isPause, toService, toCoord, serviceVars>>

Life(s) ==
  /\ ServiceStep(s) \/ ReadReport(s) \/ Dial(s) \/ Register(s)
  /\ UNCHANGED <<thread, cancelled, dump>>

Sent(s, cmd) ==
  /\ conn[s] = "open"
  /\ toService' = [toService EXCEPT ![s] = Append(@, cmd)]
  /\ UNCHANGED <<conn, isPause, toCoord, serviceVars>>

Alone(t) == \A u \in Threads : u # t => thread'[u] = thread[u]

GoesTo(t, at) == thread'[t].pc = at /\ Alone(t)

Visits(t, s, ok) ==
  /\ thread'[t].pc = thread[t].pc
  /\ thread'[t].todo = thread[t].todo \ {s}
  /\ thread'[t].clean => thread[t].clean /\ ok
  /\ Alone(t)

\* A thread sends an order to a service it visits.
SendStep(t, s) ==
  \/ \E ok \in BOOLEAN : thread[t].pc = "getting" /\ Sent(s, "get") /\ Visits(t, s, ok)
  \/ t \in Backups /\ thread[t].pc = "pausing" /\ Sent(s, "pause") /\ Visits(t, s, TRUE)
  \/ thread[t].pc = "resuming" /\ Sent(s, "resume") /\ Visits(t, s, FALSE)

\* A thread only looks at a service.
LookStep(t, s) ==
  /\ Quiet
  /\ Visits(t, s, TRUE)
  /\ \/ thread[t].pc = "resuming" /\ ~isPause[s]
     \/ t \in Backups /\ thread[t].pc = "checking" /\ isPause[s]

LoopTurn(pc, at) ==
  \/ pc = "sleep" /\ at = "getting"
  \/ pc = "getting" /\ at \in {"sleep", "resume"}

BackupTurn(pc, at) ==
  \/ pc = "idle" /\ at = "asked"
  \/ pc = "asked" /\ at \in {"check", "done"}
  \/ pc = "checking" /\ at = "pause"
  \/ pc = "pause" /\ at = "pausing"
  \/ pc = "pausing" /\ at = "check"

Finished(t) == thread[t].pc = "resuming" /\ thread[t].todo = {} /\ thread[t].clean

\* A thread goes on to its next walk or from one to the other.
TurnStep(t) ==
  /\ Quiet
  /\ \/ \E at \in ThreadPcs :
          /\ GoesTo(t, at)
          /\ \/ t = Loop /\ LoopTurn(thread[t].pc, at)
             \/ t \in Backups /\ BackupTurn(thread[t].pc, at)
     \/ thread[t].pc = "resume" /\ GoesTo(t, "resuming") /\ thread'[t].todo = Connected
     \/ thread[t].pc = "resuming" /\ GoesTo(t, "resume")
     \/ t = Loop /\ Finished(t) /\ GoesTo(t, "sleep")
     \/ /\ t \in Backups /\ thread[t].pc = "check" /\ GoesTo(t, "checking")
        /\ thread'[t].todo = Connected
     \/ /\ t \in Backups /\ thread[t].pc = "checking" /\ thread[t].todo = {}
        /\ GoesTo(t, "paused")
     \/ /\ t \in Backups /\ thread[t].pc = "dumping" /\ dump[t].state # "running"
        /\ GoesTo(t, "resume")

DumpTurn(b) ==
  /\ Quiet
  /\ \/ /\ Finished(b) /\ GoesTo(b, "done")
        /\ cancelled' = cancelled \union {b} /\ UNCHANGED dump
     \/ /\ thread[b].pc = "paused" /\ GoesTo(b, "dumping")
        /\ dump' = [dump EXCEPT ![b] = [state |-> "running", ctx |-> b]]
        /\ UNCHANGED cancelled
     \/ /\ thread[b].pc = "dumping" /\ UNCHANGED <<thread, cancelled>>
        /\ dump[b].state = "running"
        /\ \E r \in {"success", "error", "cancelled"} :
             dump' = [dump EXCEPT ![b].state = r]

CalmStep ==
  \/ \E s \in Services : Life(s)
  \/ /\ \/ \E t \in Threads, s \in Services : SendStep(t, s) \/ LookStep(t, s)
        \/ \E t \in Threads : TurnStep(t)
        \/ Quiet /\ UNCHANGED thread
     /\ UNCHANGED <<cancelled, dump>>
  \/ \E b \in Backups : DumpTurn(b)

USE DEF ThreadPcs, Walking

LEMMA GotoGoes ==
  ASSUME ThreadType, NEW t \in Threads, NEW at \in ThreadPcs, Goto(t, at)
  PROVE  GoesTo(t, at)
<1>1. thread' = [thread EXCEPT ![t] = [@ EXCEPT !.pc = at, !.todo = {}]]
  BY DEF Goto, ThreadType, Thread
<1> QED
  BY <1>1 DEF ThreadType, Thread, GoesTo, Alone

LEMMA WalkGoes ==
  ASSUME ThreadType, NEW t \in Threads, NEW at \in ThreadPcs, BeginWalk(t, at)
  PROVE  GoesTo(t, at) /\ thread'[t].todo = Connected
BY DEF BeginWalk, ThreadType, GoesTo, Alone

LEMMA VisitedVisits ==
  ASSUME ThreadType, NEW t \in Threads, NEW s, NEW ok \in BOOLEAN, Visited(t, s, ok)
  PROVE  Visits(t, s, ok)
<1> DEFINE r == [thread[t] EXCEPT !.todo = @ \ {s}, !.clean = @ /\ ok]
<1>1. thread' = [thread EXCEPT ![t] = r]
  BY DEF Visited
<1>2. thread[t] \in Thread
  BY DEF ThreadType
<1>3. r.pc = thread[t].pc /\ r.todo = thread[t].todo \ {s}
  BY <1>2 DEF Thread
<1>4. r.clean => thread[t].clean /\ ok
  BY <1>2 DEF Thread
<1> HIDE DEF r
<1> QED
  BY <1>1, <1>3, <1>4 DEF ThreadType, Visits, Alone

\* No socket is dead, so that a send is nothing but a message in the queue.
LEMMA SendIsSent ==
  ASSUME Types, Calm, NEW t \in Threads, NEW s \in Services, NEW cmd,
         NEW ok \in BOOLEAN, Send(t, s, cmd, ok)
  PROVE  /\ Sent(s, cmd) /\ Visits(t, s, ok)
         /\ UNCHANGED <<cancelled, dump>>
<1>1. conn[s] # "broken"
  BY DEF Calm, Honest, Fresh
<1> QED
  BY <1>1, VisitedVisits DEF Send, Sent, Types, backupVars

LEMMA CalmSteps ==
  ASSUME Lasting, Types, Calm, [Next]_vars
  PROVE  CalmStep
<1> USE DEF Types
<1>1. Loop \in Threads /\ \A b \in Backups : b \in Threads
  BY DEF Threads
<1>2. \A s \in Services : conn[s] # "broken"
  BY DEF Calm, Honest, Fresh
<1>3. ~(lost < MaxLost) /\ ~(cancels < MaxCancel)
  BY DEF Lasting, ConnType, BackupType
<1>4. ASSUME NEW s \in Services, ServiceStep(s) \/ ConnectionStep(s) PROVE Life(s)
  <2>1. UNCHANGED <<thread, cancelled, dump>>
    BY <1>4 DEF ServiceStep, Park, SeeResume, Unpark, FinishRound, TakeOrder, OrderDone,
         TakeGet, SendReport, ConnectionStep, ReadReport, Dial, Register,
         RemoveService, backupVars
  <2> QED
    BY <1>2, <1>4, <2>1 DEF Life, ConnectionStep, RemoveService
<1>5. ASSUME NEW s \in Services, LoseConnection(s) \/ RestartService(s) PROVE FALSE
  BY <1>3, <1>5 DEF LoseConnection, RestartService
<1>6. ASSUME UNCHANGED <<connVars, serviceVars, cancelled, dump>> PROVE Quiet
  BY <1>6 DEF Quiet, connVars
<1>7. CASE LoopStep
  <2> USE DEF backupVars
  <2>1. CASE WakeUp
    <3>1. GoesTo(Loop, "getting")
      BY <1>1, <2>1, WalkGoes DEF WakeUp
    <3>2. TurnStep(Loop)
      BY <1>1, <1>6, <2>1, <3>1 DEF WakeUp, TurnStep, LoopTurn
    <3> QED
      BY <1>1, <2>1, <3>2 DEF WakeUp, CalmStep
  <2>2. CASE LookForBackup
    <3>1. PICK at \in {"sleep", "resume"} : GoesTo(Loop, at)
      <4>1. CASE ctx = NoCtx
        BY <1>1, <2>2, <4>1, GotoGoes DEF LookForBackup
      <4>2. CASE ctx # NoCtx
        BY <1>1, <2>2, <4>2, GotoGoes DEF LookForBackup
      <4> QED
        BY <4>1, <4>2
    <3>2. TurnStep(Loop)
      BY <1>1, <1>6, <2>2, <3>1 DEF LookForBackup, TurnStep, LoopTurn
    <3> QED
      BY <1>1, <2>2, <3>2 DEF LookForBackup, CalmStep
  <2>3. CASE LoopResumedAll
    <3>1. GoesTo(Loop, "sleep")
      BY <1>1, <2>3, GotoGoes DEF LoopResumedAll
    <3>2. TurnStep(Loop)
      BY <1>1, <1>6, <2>3, <3>1 DEF LoopResumedAll, TurnStep, Finished
    <3> QED
      BY <1>1, <2>3, <3>2 DEF LoopResumedAll, CalmStep
  <2>4. CASE BeginResume(Loop) \/ RoundUnclean(Loop)
    <3>1. TurnStep(Loop)
      BY <1>1, <1>6, <2>4, GotoGoes, WalkGoes DEF BeginResume, RoundUnclean, TurnStep
    <3> QED
      BY <1>1, <2>4, <3>1 DEF BeginResume, RoundUnclean, CalmStep
  <2>5. ASSUME NEW s \in Services, GetStatus(s) PROVE CalmStep
    <3>1. SendStep(Loop, s) /\ UNCHANGED <<cancelled, dump>>
      BY <1>1, <2>5, SendIsSent DEF GetStatus, SendStep
    <3> QED
      BY <1>1, <3>1 DEF CalmStep
  <2>6. ASSUME NEW s \in Services, ResumeService(Loop, s) PROVE CalmStep
    <3>1. SendStep(Loop, s) /\ UNCHANGED <<cancelled, dump>>
      BY <1>1, <2>6, SendIsSent DEF ResumeService, SendStep
    <3> QED
      BY <1>1, <3>1 DEF CalmStep
  <2>7. ASSUME NEW s \in Services, SkipResumed(Loop, s) PROVE CalmStep
    <3>1. LookStep(Loop, s)
      BY <1>1, <1>6, <2>7, VisitedVisits DEF SkipResumed, LookStep
    <3> QED
      BY <1>1, <2>7, <3>1 DEF SkipResumed, CalmStep
  <2> QED
    BY <1>7, <2>1, <2>2, <2>3, <2>4, <2>5, <2>6, <2>7 DEF LoopStep
<1>8. ASSUME NEW b \in Backups, RequestBackup(b) PROVE CalmStep
  <2>1. GoesTo(b, "asked")
    BY <1>1, <1>8, GotoGoes DEF RequestBackup
  <2>2. TurnStep(b)
    BY <1>6, <1>8, <2>1 DEF RequestBackup, TurnStep, BackupTurn, backupVars
  <2> QED
    BY <1>1, <1>8, <2>2 DEF RequestBackup, CalmStep, backupVars
<1>9. ASSUME NEW b \in Backups, DumpStep(b) PROVE CalmStep
  <2>1. DumpAt(b)
    BY DEF Calm
  <2>2. ~DumpEndsTooLate(b)
    BY <2>1 DEF DumpAt, DumpEndsTooLate
  <2>3. PICK r \in {"success", "error", "cancelled"} : DumpEnds(b, r)
    BY <1>9, <2>2 DEF DumpStep
  <2>4. DumpTurn(b)
    BY <2>3 DEF DumpEnds, DumpTurn, Quiet, connVars
  <2> QED
    BY <2>4 DEF CalmStep
<1>10. ASSUME NEW b \in Backups, BackupStep(b) PROVE CalmStep
  <2> USE DEF backupVars
  <2>1. CASE AcceptBackup(b) \/ RefuseRecent(b)
    <3>1. PICK at \in {"check", "done"} : GoesTo(b, at)
      BY <1>1, <2>1, GotoGoes DEF AcceptBackup, RefuseRecent
    <3>2. Quiet /\ thread[b].pc = "asked" /\ UNCHANGED <<cancelled, dump>>
      BY <1>6, <2>1 DEF AcceptBackup, RefuseRecent
    <3>3. TurnStep(b)
      BY <3>1, <3>2 DEF TurnStep, BackupTurn
    <3> QED
      BY <1>1, <3>2, <3>3 DEF CalmStep
  <2>2. CASE BeginCheck(b)
    <3>1. Quiet /\ thread[b].pc = "check" /\ UNCHANGED <<cancelled, dump>>
      BY <1>6, <2>2 DEF BeginCheck
    <3>2. GoesTo(b, "checking") /\ thread'[b].todo = Connected
      BY <1>1, <2>2, WalkGoes DEF BeginCheck
    <3>3. TurnStep(b)
      BY <3>1, <3>2 DEF TurnStep
    <3> QED
      BY <1>1, <3>1, <3>3 DEF CalmStep
  <2>3. CASE AllPaused(b)
    <3>1. Quiet /\ thread[b].pc = "checking" /\ thread[b].todo = {}
          /\ UNCHANGED <<cancelled, dump>>
      BY <1>6, <2>3 DEF AllPaused
    <3>2. GoesTo(b, "paused")
      BY <1>1, <2>3, GotoGoes DEF AllPaused
    <3>3. TurnStep(b)
      BY <3>1, <3>2 DEF TurnStep
    <3> QED
      BY <1>1, <3>1, <3>3 DEF CalmStep
  <2>4. CASE BeginPause(b)
    <3>1. Quiet /\ thread[b].pc = "pause" /\ UNCHANGED <<cancelled, dump>>
      BY <1>6, <2>4 DEF BeginPause
    <3>2. GoesTo(b, "pausing")
      BY <1>1, <2>4, WalkGoes DEF BeginPause
    <3>3. TurnStep(b)
      BY <3>1, <3>2 DEF TurnStep, BackupTurn
    <3> QED
      BY <1>1, <3>1, <3>3 DEF CalmStep
  <2>5. CASE EndPause(b)
    <3>1. Quiet /\ thread[b].pc = "pausing" /\ UNCHANGED <<cancelled, dump>>
      BY <1>6, <2>5 DEF EndPause
    <3>2. GoesTo(b, "check")
      BY <1>1, <2>5, GotoGoes DEF EndPause
    <3>3. TurnStep(b)
      BY <3>1, <3>2 DEF TurnStep, BackupTurn
    <3> QED
      BY <1>1, <3>1, <3>3 DEF CalmStep
  <2>6. CASE StartDump(b)
    <3>1. ctx = b
      BY <2>6 DEF Calm, SerialInv, StartDump
    <3>2. GoesTo(b, "dumping")
      BY <1>1, <2>6, GotoGoes DEF StartDump
    <3>3. DumpTurn(b)
      BY <2>6, <3>1, <3>2 DEF StartDump, DumpTurn, Quiet, connVars
    <3> QED
      BY <3>3 DEF CalmStep
  <2>7. CASE BackupResult(b)
    <3>1. Quiet /\ thread[b].pc = "dumping" /\ dump[b].state # "running"
          /\ UNCHANGED <<cancelled, dump>>
      BY <1>6, <2>7 DEF BackupResult
    <3>2. GoesTo(b, "resume")
      BY <1>1, <2>7, GotoGoes DEF BackupResult
    <3>3. TurnStep(b)
      BY <3>1, <3>2 DEF TurnStep
    <3> QED
      BY <1>1, <3>1, <3>3 DEF CalmStep
  <2>8. CASE BackupCancelled(b)
    <3>1. DumpAt(b)
      BY DEF Calm
    <3> QED
      BY <2>8, <3>1 DEF BackupCancelled, DumpAt
  <2>9. CASE BackupDone(b)
    <3>1. ctx = b
      BY <2>9 DEF Calm, SerialInv, BackupDone
    <3>2. GoesTo(b, "done")
      BY <1>1, <2>9, GotoGoes DEF BackupDone
    <3>3. DumpTurn(b)
      BY <2>9, <3>1, <3>2 DEF BackupDone, DumpTurn, Finished, Quiet, connVars
    <3> QED
      BY <3>3 DEF CalmStep
  <2>10. CASE StartDumpWithoutContext(b) \/ BackupDoneWithoutContext(b)
    BY <2>10, ThreadsAssumption
       DEF StartDumpWithoutContext, BackupDoneWithoutContext, Calm, SerialInv
  <2>11. CASE BeginResume(b)
    <3>1. Quiet /\ thread[b].pc = "resume" /\ UNCHANGED <<cancelled, dump>>
      BY <1>6, <2>11 DEF BeginResume
    <3>2. GoesTo(b, "resuming") /\ thread'[b].todo = Connected
      BY <1>1, <2>11, WalkGoes DEF BeginResume
    <3>3. TurnStep(b)
      BY <3>1, <3>2 DEF TurnStep
    <3> QED
      BY <1>1, <3>1, <3>3 DEF CalmStep
  <2>12. CASE RoundUnclean(b)
    <3>1. Quiet /\ thread[b].pc = "resuming" /\ UNCHANGED <<cancelled, dump>>
      BY <1>6, <2>12 DEF RoundUnclean
    <3>2. GoesTo(b, "resume")
      BY <1>1, <2>12, GotoGoes DEF RoundUnclean
    <3>3. TurnStep(b)
      BY <3>1, <3>2 DEF TurnStep
    <3> QED
      BY <1>1, <3>1, <3>3 DEF CalmStep
  <2>13. ASSUME NEW s \in Services, CheckService(b, s) PROVE CalmStep
    <3>1. Quiet /\ thread[b].pc = "checking" /\ UNCHANGED <<cancelled, dump>>
      BY <1>6, <2>13 DEF CheckService
    <3>2. CASE isPause[s]
      <4>1. LookStep(b, s)
        BY <1>1, <2>13, <3>1, <3>2, VisitedVisits DEF CheckService, LookStep
      <4> QED
        BY <1>1, <3>1, <4>1 DEF CalmStep
    <3>3. CASE ~isPause[s]
      <4>1. GoesTo(b, "pause")
        BY <1>1, <2>13, <3>3, GotoGoes DEF CheckService
      <4>2. TurnStep(b)
        BY <3>1, <4>1 DEF TurnStep, BackupTurn
      <4> QED
        BY <1>1, <3>1, <4>2 DEF CalmStep
    <3> QED
      BY <3>2, <3>3
  <2>14. ASSUME NEW s \in Services, PauseService(b, s) \/ ResumeService(b, s)
         PROVE  CalmStep
    <3>1. SendStep(b, s) /\ UNCHANGED <<cancelled, dump>>
      BY <1>1, <2>14, SendIsSent DEF PauseService, ResumeService, SendStep
    <3> QED
      BY <1>1, <3>1 DEF CalmStep
  <2>15. ASSUME NEW s \in Services, SkipResumed(b, s) PROVE CalmStep
    <3>1. LookStep(b, s)
      BY <1>1, <1>6, <2>15, VisitedVisits DEF SkipResumed, LookStep
    <3> QED
      BY <1>1, <2>15, <3>1 DEF SkipResumed, CalmStep
  <2> QED
    BY <1>10, <2>1, <2>2, <2>3, <2>4, <2>5, <2>6, <2>7, <2>8, <2>9, <2>10, <2>11,
       <2>12, <2>13, <2>14, <2>15 DEF BackupStep
<1>11. CASE RecentExpires \/ CancelBackup \/ UNCHANGED vars
  <2>1. Quiet /\ UNCHANGED <<thread, cancelled, dump>>
    BY <1>3, <1>11 DEF RecentExpires, CancelBackup, vars, backupVars, Quiet, connVars
  <2> QED
    BY <2>1 DEF CalmStep
<1> QED
  BY <1>4, <1>5, <1>7, <1>8, <1>9, <1>10, <1>11 DEF Next, CalmStep

-----------------------------------------------------------------------------
(* A service's queues, flag and reports. *)

\* The services other than the one that moves.
LEMMA LifeOthers ==
  ASSUME Types, NEW s \in Services, Life(s), NEW r \in Services, r # s
  PROVE  UNCHANGED <<conn[r], isPause[r], toService[r], toCoord[r],
                     flag[r], status[r], main[r], handling[r]>>
<1> USE DEF Types, ServiceType, ConnType
<1>1. CASE Park(s) \/ SeeResume(s) \/ Unpark(s) \/ FinishRound(s) \/ OrderDone(s)
  BY <1>1 DEF Park, SeeResume, Unpark, FinishRound, OrderDone, connVars
<1>2. CASE TakeOrder(s) \/ TakeGet(s) \/ SendReport(s)
  BY <1>2 DEF TakeOrder, TakeGet, SendReport
<1>3. CASE ReadReport(s) \/ Dial(s) \/ Register(s)
  BY <1>3 DEF ReadReport, Dial, Register, serviceVars
<1> QED
  BY <1>1, <1>2, <1>3 DEF Life, ServiceStep

LEMMA SentOthers ==
  ASSUME Types, NEW s \in Services, NEW cmd, Sent(s, cmd), NEW r \in Services, r # s
  PROVE  UNCHANGED <<conn[r], isPause[r], toService[r], toCoord[r],
                     flag[r], status[r], main[r], handling[r]>>
BY DEF Types, ServiceType, ConnType, Sent, serviceVars

\* What is said of a service depends on that service only.
LEMMA SameService ==
  ASSUME NEW r \in Services, NEW x, NEW y,
         UNCHANGED <<conn[r], isPause[r], toService[r], toCoord[r],
                     flag[r], status[r], main[r], handling[r]>>
  PROVE  /\ Honest(r) \/ Fresh(r) => (Honest(r) \/ Fresh(r))'
         /\ Final(r, x, y) => Final(r, x, y)'
<1>1. Honest(r) => Honest(r)'
  BY DEF Honest, LastSaid
<1>2. Fresh(r) => Fresh(r)'
  BY DEF Fresh
<1>3. Final(r, x, y) => Final(r, x, y)'
  BY DEF Final, NoneComing, NoneHandled, NoneOrdered
<1> QED
  BY <1>1, <1>2, <1>3

\* The queues of a service as functions of its steps.
LEMMA Queues ==
  ASSUME Types, NEW s \in Services
  PROVE  /\ toService[s] \in Seq(Commands) /\ toCoord[s] \in Seq(Statuses)
         /\ flag[s] \in BOOLEAN /\ isPause[s] \in BOOLEAN
         /\ handling[s] \in {"idle", "pause", "resume", "paused", "resumed"}
         /\ status[s] \in {"pause", "resume"}
BY DEF Types, ServiceType, ConnType, Statuses

LEMMA AppendFacts ==
  ASSUME NEW S, NEW q \in Seq(S), NEW e \in S
  PROVE  /\ Append(q, e) # <<>> /\ Len(Append(q, e)) = Len(q) + 1
         /\ Append(q, e)[Len(q) + 1] = e
         /\ DOMAIN Append(q, e) = DOMAIN q \union {Len(q) + 1}
         /\ \A i \in DOMAIN q : i \in Nat /\ i < Len(q) + 1 /\ Append(q, e)[i] = q[i]
OBVIOUS

LEMMA TailFacts ==
  ASSUME NEW S, NEW q \in Seq(S), q # <<>>
  PROVE  /\ Head(q) = q[1] /\ 1 \in DOMAIN q
         /\ Tail(q) \in Seq(S) /\ Len(Tail(q)) = Len(q) - 1
         /\ \A i \in DOMAIN Tail(q) :
              /\ i \in Nat /\ 1 < i + 1 /\ i + 1 \in DOMAIN q /\ Tail(q)[i] = q[i + 1]
         /\ Tail(q) = <<>> => Len(q) = 1
<1>1. Len(q) \in Nat /\ Len(q) # 0 /\ DOMAIN q = 1 .. Len(q)
  OBVIOUS
<1>2. Tail(q) \in Seq(S) /\ Len(Tail(q)) = Len(q) - 1
  OBVIOUS
<1>3. DOMAIN Tail(q) = 1 .. Len(q) - 1
  BY <1>1, <1>2
<1>4. \A i \in 1 .. Len(q) - 1 : Tail(q)[i] = q[i + 1]
  BY <1>1
<1>5. Head(q) = q[1]
  OBVIOUS
<1>6. Tail(q) = <<>> => Len(q) = 1
  <2>1. ASSUME NEW r \in Seq(S), r = <<>> PROVE Len(r) = 0
    BY <2>1
  <2> QED
    BY <1>1, <1>2, <2>1
<1> QED
  BY <1>1, <1>2, <1>3, <1>4, <1>5, <1>6

LEMMA HonestLife ==
  ASSUME Types, NEW s \in Services, HandshakeAt(s), Honest(s) \/ Fresh(s), Life(s)
  PROVE  (Honest(s) \/ Fresh(s))'
<1>q. /\ toService[s] \in Seq(Commands) /\ toCoord[s] \in Seq(Statuses)
      /\ flag[s] \in BOOLEAN /\ isPause[s] \in BOOLEAN
      /\ handling[s] \in {"idle", "pause", "resume", "paused", "resumed"}
      /\ status[s] \in {"pause", "resume"}
  BY Queues
<1>f. CASE Fresh(s)
  <2> USE DEF Types, ServiceType, ConnType, Fresh
  <2>1. CASE Dial(s)
    BY <1>f, <2>1 DEF Dial, serviceVars
  <2>2. CASE Register(s)
    <3>1. conn'[s] = "open" /\ isPause'[s] = TRUE /\ toCoord'[s] = <<>>
          /\ flag'[s] /\ handling'[s] = "idle"
      BY <1>f, <2>2 DEF Register, serviceVars
    <3> QED
      BY <3>1 DEF Honest, LastSaid
  <2>3. ~ServiceStep(s) /\ ~ReadReport(s)
    BY <1>f DEF ServiceStep, Park, SeeResume, Unpark, FinishRound, TakeOrder, OrderDone,
         TakeGet, SendReport, ReadReport, HandshakeAt, Statuses
  <2> QED
    BY <2>1, <2>2, <2>3 DEF Life
<1>h. CASE Honest(s)
  <2> USE DEF Types, ServiceType, ConnType, HandshakeAt, Statuses
  <2>1. ASSUME UNCHANGED <<conn, isPause, toCoord>> PROVE UNCHANGED <<conn, LastSaid(s)>>
    BY <2>1 DEF LastSaid
  <2> USE DEF Honest
  <2>2. CASE Park(s)
    BY <1>q, <1>h, <2>1, <2>2 DEF Park, connVars
  <2>3. CASE SeeResume(s)
    BY <1>q, <1>h, <2>1, <2>3 DEF SeeResume, connVars
  <2>4. CASE Unpark(s)
    BY <1>q, <1>h, <2>1, <2>4 DEF Unpark, connVars
  <2>5. CASE FinishRound(s)
    BY <1>q, <1>h, <2>1, <2>5 DEF FinishRound, connVars
  <2>6. CASE TakeOrder(s)
    BY <1>q, <1>h, <2>1, <2>6 DEF TakeOrder
  <2>7. CASE OrderDone(s)
    BY <1>q, <1>h, <2>1, <2>7 DEF OrderDone, connVars, Reporting
  <2>8. CASE TakeGet(s)
    BY <1>q, <1>h, <2>1, <2>8 DEF TakeGet, Reporting
  <2>9. CASE SendReport(s)
    <3>1. /\ toCoord'[s] = Append(toCoord[s], Reported[handling[s]])
          /\ handling'[s] = "idle" /\ UNCHANGED <<flag, conn>>
          /\ handling[s] \in {"paused", "resumed"}
      BY <1>h, <2>9 DEF SendReport
    <3>2. Reported[handling[s]] = IF handling[s] = "paused" THEN "pause" ELSE "resume"
      BY <3>1 DEF Reported
    <3>3. Reported[handling[s]] \in Statuses
      BY <3>2
    <3>4. toCoord'[s] # <<>> /\ toCoord'[s][Len(toCoord'[s])] = Reported[handling[s]]
      BY <1>q, <3>1, <3>3, AppendFacts
    <3>5. LastSaid(s)' <=> Reported[handling[s]] = "pause"
      BY <3>4 DEF LastSaid
    <3> QED
      BY <1>q, <1>h, <3>1, <3>2, <3>5
  <2>10. CASE ReadReport(s)
    <3>1. /\ isPause'[s] <=> Head(toCoord[s]) = "pause"
          /\ toCoord'[s] = Tail(toCoord[s]) /\ toCoord[s] # <<>>
      BY <2>10, Zenon DEF ReadReport
    <3>2. LastSaid(s)' <=> LastSaid(s)
      <4>1. /\ Len(Tail(toCoord[s])) = Len(toCoord[s]) - 1
            /\ Head(toCoord[s]) = toCoord[s][1]
            /\ Tail(toCoord[s]) = <<>> => Len(toCoord[s]) = 1
        BY <1>q, <3>1, TailFacts
      <4>2. CASE Tail(toCoord[s]) = <<>>
        BY <3>1, <4>1, <4>2 DEF LastSaid
      <4>3. CASE Tail(toCoord[s]) # <<>>
        <5>1. Tail(toCoord[s])[Len(Tail(toCoord[s]))] = toCoord[s][Len(toCoord[s])]
          BY <1>q, <3>1, <4>3
        <5> QED
          BY <3>1, <4>3, <5>1 DEF LastSaid
      <4> QED
        BY <4>2, <4>3
    <3> QED
      BY <1>h, <2>10, <3>2 DEF ReadReport, serviceVars
  <2>11. ~Dial(s) /\ ~Register(s)
    BY <1>h DEF Dial, Register
  <2> QED
    BY <2>2, <2>3, <2>4, <2>5, <2>6, <2>7, <2>8, <2>9, <2>10, <2>11 DEF Life, ServiceStep
<1> QED
  BY <1>f, <1>h

LEMMA HonestSent ==
  ASSUME Types, NEW s \in Services, NEW cmd, Honest(s) \/ Fresh(s), Sent(s, cmd)
  PROVE  (Honest(s) \/ Fresh(s))'
BY DEF Sent, Honest, Fresh, LastSaid, serviceVars

\* A report tells what the last order on its way to the coordinator tells.
LEMMA FinalLife ==
  ASSUME Types, NEW s \in Services, HandshakeAt(s), Honest(s) \/ Fresh(s), Life(s),
         NEW x \in Statuses, NEW y \in Statuses, x # y, Final(s, x, y)
  PROVE  Final(s, x, y)'
<1>q. /\ toService[s] \in Seq(Commands) /\ toCoord[s] \in Seq(Statuses)
      /\ flag[s] \in BOOLEAN /\ isPause[s] \in BOOLEAN
      /\ handling[s] \in {"idle", "pause", "resume", "paused", "resumed"}
      /\ status[s] \in {"pause", "resume"}
  BY Queues
<1>a. /\ About["pause"] = {"pause", "paused"} /\ About["resume"] = {"resume", "resumed"}
      /\ x \in {"pause", "resume"} /\ y \in {"pause", "resume"}
  BY DEF About, Statuses
<1>1. ASSUME UNCHANGED <<isPause, toService, toCoord>>,
             handling'[s] \in About[x] => handling[s] \in About[x],
             handling'[s] \in About[y] => handling[s] \in About[y]
      PROVE  Final(s, x, y)'
  BY <1>1 DEF Final, NoneComing, NoneHandled, NoneOrdered
<1>2. CASE Park(s) \/ SeeResume(s) \/ Unpark(s) \/ FinishRound(s)
  BY <1>1, <1>2 DEF Park, SeeResume, Unpark, FinishRound, connVars
<1>3. CASE OrderDone(s)
  <2>1. handling[s] \in {"pause", "resume"}
        /\ handling'[s] = IF handling[s] = "pause" THEN "paused" ELSE "resumed"
    BY <1>3 DEF OrderDone, Statuses, Reporting, Types, ServiceType
  <2> QED
    BY <1>1, <1>3, <1>a, <2>1 DEF OrderDone, connVars
<1>4. CASE Dial(s)
  BY <1>1, <1>4 DEF Dial, serviceVars
<1>5. CASE Register(s)
  <2>1. toService'[s] = <<>> /\ toCoord'[s] = <<>> /\ handling'[s] = "idle"
    BY <1>5 DEF Register, Honest, Fresh, serviceVars
  <2> QED
    BY <2>1, <1>a DEF Final, NoneComing, NoneHandled, NoneOrdered
<1>6. CASE TakeOrder(s)
  <2> DEFINE q == toService[s]
  <2>1. /\ q # <<>> /\ q \in Seq(Commands) /\ toService'[s] = Tail(q)
        /\ handling[s] = "idle" /\ handling'[s] = q[1] /\ q[1] \in {"pause", "resume"}
        /\ UNCHANGED <<isPause, toCoord>>
    BY <1>6, <1>q DEF TakeOrder, Types, ServiceType, ConnType
  <2>2. /\ 1 \in DOMAIN q
        /\ \A i \in DOMAIN Tail(q) :
             /\ i \in Nat /\ 1 < i + 1 /\ i + 1 \in DOMAIN q /\ Tail(q)[i] = q[i + 1]
    BY <2>1, TailFacts
  <2> HIDE DEF q
  <2>3. \A i, j \in DOMAIN q : i < j /\ q[i] = x => q[j] # y
    BY DEF Final, q
  <2>4. NoneOrdered(s, y) => NoneOrdered(s, y)' /\ handling'[s] \notin About[y]
    BY <1>a, <2>1, <2>2 DEF NoneOrdered, q
  <2>5. handling'[s] \in About[x] => NoneOrdered(s, y)'
    BY <1>a, <2>1, <2>2, <2>3 DEF NoneOrdered
  <2>6. \A i, j \in DOMAIN Tail(q) : i < j /\ Tail(q)[i] = x => Tail(q)[j] # y
    BY <2>2, <2>3
  <2> QED
    BY <2>1, <2>4, <2>5, <2>6 DEF Final, NoneComing, NoneHandled
<1>7. CASE TakeGet(s)
  <2> DEFINE q == toService[s]
  <2>1. /\ q # <<>> /\ q \in Seq(Commands) /\ toService'[s] = Tail(q)
        /\ handling[s] = "idle"
        /\ handling'[s] = IF status[s] = "pause" THEN "paused" ELSE "resumed"
        /\ UNCHANGED <<isPause, toCoord>>
    BY <1>7, <1>q DEF TakeGet, Types, ServiceType, ConnType, Reporting
  <2>2. /\ 1 \in DOMAIN q
        /\ \A i \in DOMAIN Tail(q) :
             /\ i \in Nat /\ 1 < i + 1 /\ i + 1 \in DOMAIN q /\ Tail(q)[i] = q[i + 1]
    BY <2>1, TailFacts
  <2> HIDE DEF q
  <2>3. \A i, j \in DOMAIN Tail(q) : i < j /\ Tail(q)[i] = x => Tail(q)[j] # y
    BY <2>2 DEF Final, q
  <2>4. NoneOrdered(s, y) => NoneOrdered(s, y)'
    BY <2>1, <2>2 DEF NoneOrdered, q
  <2>5. status[s] = "pause" <=> LastSaid(s)
    BY <1>7, <1>q, <2>1 DEF Honest, Fresh, HandshakeAt, Statuses, TakeGet, q
  <2>6. handling'[s] \in About[x] <=> (LastSaid(s) <=> x = "pause")
    BY <1>a, <2>1, <2>5
  <2>7. handling'[s] \in About[y] <=> ~(LastSaid(s) <=> x = "pause")
    BY <1>a, <2>1, <2>5
  <2>8. (LastSaid(s) <=> x = "pause") => NoneOrdered(s, y)
    <3>1. CASE toCoord[s] = <<>>
      BY <3>1 DEF LastSaid, Final, NoneComing, NoneHandled
    <3>2. CASE toCoord[s] # <<>>
      <4>1. Len(toCoord[s]) \in DOMAIN toCoord[s]
            /\ toCoord[s][Len(toCoord[s])] \in {"pause", "resume"}
        BY <1>q, <3>2 DEF Statuses
      <4> QED
        BY <1>a, <3>2, <4>1 DEF LastSaid, Final, NoneHandled
    <3> QED
      BY <3>1, <3>2
  <2>9. ~(LastSaid(s) <=> x = "pause") =>
          /\ \A i \in DOMAIN toCoord[s] : toCoord[s][i] # x
          /\ ~(isPause[s] <=> x = "pause")
    <3>1. CASE toCoord[s] = <<>>
      BY <1>q, <3>1 DEF LastSaid
    <3>2. CASE toCoord[s] # <<>>
      <4> DEFINE n == Len(toCoord[s])
      <4>1. n \in DOMAIN toCoord[s] /\ toCoord[s][n] \in {"pause", "resume"}
            /\ \A i \in DOMAIN toCoord[s] : i = n \/ i < n
        BY <1>q, <3>2 DEF Statuses
      <4>2. ~(LastSaid(s) <=> x = "pause") => toCoord[s][n] = y
        BY <1>a, <3>2, <4>1 DEF LastSaid
      <4> HIDE DEF n
      <4> QED
        BY <1>a, <4>1, <4>2 DEF Final, NoneComing
    <3> QED
      BY <3>1, <3>2
  <2>10. handling'[s] \in About[x] => NoneOrdered(s, y)'
    BY <2>4, <2>6, <2>8
  <2>11. \A i \in DOMAIN toCoord'[s] : toCoord'[s][i] = x =>
           /\ NoneHandled(s, y)'
           /\ \A j \in DOMAIN toCoord'[s] : i < j => toCoord'[s][j] # y
    BY <2>1, <2>4, <2>7, <2>9 DEF Final, NoneHandled
  <2>12. (isPause'[s] <=> x = "pause") => NoneComing(s, y)'
    BY <2>1, <2>4, <2>7, <2>9 DEF Final, NoneHandled, NoneComing
  <2>13. \A i, j \in DOMAIN toService'[s] :
           i < j /\ toService'[s][i] = x => toService'[s][j] # y
    BY <2>1, <2>3
  <2> QED
    BY <2>10, <2>11, <2>12, <2>13 DEF Final
<1>8. CASE SendReport(s)
  <2> DEFINE q == toCoord[s]
             r == Reported[handling[s]]
  <2>1. Honest(s)
    BY <1>8 DEF SendReport, Fresh
  <2>2. /\ toCoord'[s] = Append(q, r) /\ handling'[s] = "idle"
        /\ handling[s] \in {"paused", "resumed"} /\ UNCHANGED <<isPause, toService>>
    BY <1>8, <2>1 DEF SendReport, Honest, Types, ServiceType, ConnType
  <2>3. r = IF handling[s] = "paused" THEN "pause" ELSE "resume"
    BY <2>2 DEF Reported
  <2>4. r \in Statuses
    BY <2>3 DEF Statuses
  <2>5. /\ Append(q, r)[Len(q) + 1] = r
        /\ DOMAIN Append(q, r) = DOMAIN q \union {Len(q) + 1}
        /\ \A i \in DOMAIN q : i \in Nat /\ i < Len(q) + 1 /\ Append(q, r)[i] = q[i]
    BY <1>q, <2>4, AppendFacts
  <2>6. (r = x <=> handling[s] \in About[x]) /\ (r = y <=> handling[s] \in About[y])
    BY <1>a, <2>2, <2>3
  <2>7. handling'[s] \notin About[x] /\ handling'[s] \notin About[y]
    BY <1>a, <2>2
  <2>8. NoneOrdered(s, y) => NoneOrdered(s, y)'
    BY <2>2 DEF NoneOrdered
  <2>9. Len(q) \in Nat
    BY <1>q
  <2> HIDE DEF q, r
  <2>10. \A i \in DOMAIN q : q[i] = x =>
           NoneHandled(s, y) /\ \A j \in DOMAIN q : i < j => q[j] # y
    BY DEF Final, q
  <2>11. ASSUME NEW i \in DOMAIN Append(q, r), Append(q, r)[i] = x
         PROVE  /\ NoneHandled(s, y)'
                /\ \A j \in DOMAIN Append(q, r) : i < j => Append(q, r)[j] # y
    <3>1. CASE i \in DOMAIN q
      <4>1. NoneHandled(s, y) /\ \A j \in DOMAIN q : i < j => q[j] # y
        BY <2>5, <2>10, <2>11, <3>1
      <4>2. r # y
        BY <2>6, <4>1 DEF NoneHandled
      <4>3. \A j \in DOMAIN Append(q, r) : i < j => Append(q, r)[j] # y
        BY <2>5, <4>1, <4>2
      <4> QED
        BY <2>7, <2>8, <4>1, <4>3 DEF NoneHandled
    <3>2. CASE i = Len(q) + 1
      <4>1. NoneOrdered(s, y)
        BY <2>5, <2>6, <2>11, <3>2 DEF Final
      <4>2. \A j \in DOMAIN Append(q, r) : ~(i < j)
        BY <2>5, <2>9, <3>2
      <4> QED
        BY <2>7, <2>8, <4>1, <4>2 DEF NoneHandled
    <3> QED
      BY <2>5, <3>1, <3>2
  <2>12. (isPause'[s] <=> x = "pause") => NoneComing(s, y)'
    <3> SUFFICES ASSUME isPause[s] <=> x = "pause" PROVE NoneComing(s, y)'
      BY <2>2
    <3>1. NoneHandled(s, y) /\ \A i \in DOMAIN q : q[i] # y
      BY DEF Final, NoneComing, q
    <3>2. r # y
      BY <2>6, <3>1 DEF NoneHandled
    <3>3. \A i \in DOMAIN Append(q, r) : Append(q, r)[i] # y
      BY <2>5, <3>1, <3>2
    <3> QED
      BY <2>2, <2>7, <2>8, <3>1, <3>3 DEF NoneComing, NoneHandled
  <2>13. \A i, j \in DOMAIN toService'[s] :
           i < j /\ toService'[s][i] = x => toService'[s][j] # y
    BY <2>2 DEF Final
  <2> QED
    BY <2>2, <2>7, <2>11, <2>12, <2>13 DEF Final
<1>9. CASE ReadReport(s)
  <2> DEFINE q == toCoord[s]
  <2>1. /\ isPause'[s] <=> q[1] = "pause"
        /\ q # <<>> /\ q[1] \in {"pause", "resume"}
        /\ toCoord'[s] = Tail(q) /\ UNCHANGED <<toService, handling>>
    <3>1. isPause' = [isPause EXCEPT ![s] = Head(q) = "pause"]
          /\ q # <<>> /\ toCoord' = [toCoord EXCEPT ![s] = Tail(q)]
          /\ UNCHANGED <<toService, handling>>
      BY <1>9 DEF ReadReport, serviceVars
    <3>2. isPause'[s] <=> Head(q) = "pause"
      BY <3>1, Zenon DEF Types, ConnType
    <3>3. Head(q) = q[1] /\ q[1] \in {"pause", "resume"}
      BY <1>q, <3>1 DEF Statuses
    <3> QED
      BY <3>1, <3>2, <3>3 DEF Types, ConnType
  <2>2. /\ 1 \in DOMAIN q
        /\ \A i \in DOMAIN Tail(q) :
             /\ i \in Nat /\ 1 < i + 1 /\ i + 1 \in DOMAIN q /\ Tail(q)[i] = q[i + 1]
    BY <1>q, <2>1, TailFacts
  <2> HIDE DEF q
  <2>3. \A i \in DOMAIN q : q[i] = x =>
          NoneHandled(s, y) /\ \A j \in DOMAIN q : i < j => q[j] # y
    BY DEF Final, q
  <2>4. NoneHandled(s, y) => NoneHandled(s, y)'
    BY <2>1 DEF NoneHandled, NoneOrdered
  <2>5. \A i \in DOMAIN Tail(q) : Tail(q)[i] = x =>
          /\ NoneHandled(s, y)'
          /\ \A j \in DOMAIN Tail(q) : i < j => Tail(q)[j] # y
    BY <2>2, <2>3, <2>4
  <2>6. (isPause'[s] <=> x = "pause") => q[1] = x
    BY <1>a, <2>1
  <2>7. (isPause'[s] <=> x = "pause") => NoneComing(s, y)'
    BY <2>1, <2>2, <2>3, <2>4, <2>6 DEF NoneComing
  <2>8. /\ \A i, j \in DOMAIN toService'[s] :
             i < j /\ toService'[s][i] = x => toService'[s][j] # y
        /\ handling'[s] \in About[x] => NoneOrdered(s, y)'
    BY <2>1 DEF Final, NoneOrdered
  <2> QED
    BY <2>1, <2>5, <2>7, <2>8 DEF Final
<1> QED
  BY <1>2, <1>3, <1>4, <1>5, <1>6, <1>7, <1>8, <1>9 DEF Life, ServiceStep

\* An order that is sent is no y.
LEMMA FinalSent ==
  ASSUME Types, NEW s \in Services, NEW cmd \in Commands, Sent(s, cmd),
         NEW x \in Statuses, NEW y \in Statuses, cmd # y, Final(s, x, y)
  PROVE  Final(s, x, y)'
<1> DEFINE q == toService[s]
<1>1. toService'[s] = Append(q, cmd) /\ UNCHANGED <<isPause, toCoord, handling>>
  BY DEF Sent, serviceVars, Types, ConnType
<1>2. /\ Append(q, cmd)[Len(q) + 1] = cmd
      /\ DOMAIN Append(q, cmd) = DOMAIN q \union {Len(q) + 1}
      /\ \A i \in DOMAIN q : i \in Nat /\ i < Len(q) + 1 /\ Append(q, cmd)[i] = q[i]
  BY AppendFacts, Queues
<1>3. Len(q) \in Nat
  BY Queues
<1> HIDE DEF q
<1>4. NoneOrdered(s, y) => NoneOrdered(s, y)'
  BY <1>1, <1>2 DEF NoneOrdered, q
<1>5. \A i, j \in DOMAIN Append(q, cmd) :
        i < j /\ Append(q, cmd)[i] = x => Append(q, cmd)[j] # y
  BY <1>2, <1>3 DEF Final, q
<1> QED
  BY <1>1, <1>4, <1>5 DEF Final, NoneHandled, NoneComing

-----------------------------------------------------------------------------
(* The invariant is inductive. *)

LEMMA QuietSame ==
  ASSUME Quiet, NEW r \in Services
  PROVE  UNCHANGED <<conn[r], isPause[r], toService[r], toCoord[r],
                     flag[r], status[r], main[r], handling[r]>>
BY DEF Quiet, serviceVars

LEMMA SendStepSent ==
  ASSUME NEW t \in Threads, NEW s \in Services, SendStep(t, s)
  PROVE  \E cmd \in Commands :
           /\ Sent(s, cmd)
           /\ cmd = "pause" => t \in Backups /\ thread[t].pc = "pausing"
           /\ cmd = "resume" => thread[t].pc = "resuming"
<1>1. "get" \in Commands /\ "pause" \in Commands /\ "resume" \in Commands
  BY DEF Commands
<1> QED
  BY <1>1 DEF SendStep

LEMMA HonestStep ==
  ASSUME Types, Calm, CalmStep, NEW r \in Services
  PROVE  (Honest(r) \/ Fresh(r))'
<1>1. HandshakeAt(r) /\ (Honest(r) \/ Fresh(r))
  BY DEF Calm
<1>2. ASSUME NEW s \in Services, Life(s) PROVE (Honest(r) \/ Fresh(r))'
  <2>1. CASE r = s
    BY <1>1, <1>2, <2>1, HonestLife
  <2>2. CASE r # s
    BY <1>1, <1>2, <2>2, LifeOthers, SameService
  <2> QED
    BY <2>1, <2>2
<1>3. ASSUME NEW s \in Services, NEW cmd, Sent(s, cmd) PROVE (Honest(r) \/ Fresh(r))'
  <2>1. CASE r = s
    BY <1>1, <1>3, <2>1, HonestSent
  <2>2. CASE r # s
    BY <1>1, <1>3, <2>2, SentOthers, SameService
  <2> QED
    BY <2>1, <2>2
<1>4. ASSUME Quiet PROVE (Honest(r) \/ Fresh(r))'
  BY <1>1, <1>4, QuietSame, SameService
<1>5. ASSUME NEW t \in Threads, NEW s \in Services, SendStep(t, s)
      PROVE  (Honest(r) \/ Fresh(r))'
  BY <1>3, <1>5, SendStepSent
<1> QED
  BY <1>2, <1>4, <1>5 DEF CalmStep, LookStep, TurnStep, DumpTurn

\* What is final stays so while no y is sent.
LEMMA FinalStep ==
  ASSUME Types, Calm, CalmStep, NEW x \in Statuses, NEW y \in Statuses, x # y,
         NEW r \in Services, Final(r, x, y),
         y = "pause" => \A b \in Backups : thread[b].pc # "pausing",
         y = "resume" => \A t \in Threads : thread[t].pc # "resuming"
  PROVE  Final(r, x, y)'
<1>1. HandshakeAt(r) /\ (Honest(r) \/ Fresh(r))
  BY DEF Calm
<1>2. ASSUME NEW s \in Services, Life(s) PROVE Final(r, x, y)'
  <2>1. CASE r = s
    BY <1>1, <1>2, <2>1, FinalLife
  <2>2. CASE r # s
    BY <1>2, <2>2, LifeOthers, SameService
  <2> QED
    BY <2>1, <2>2
<1>3. ASSUME NEW t \in Threads, NEW s \in Services, SendStep(t, s)
      PROVE  Final(r, x, y)'
  <2>1. PICK cmd \in Commands :
          /\ Sent(s, cmd)
          /\ cmd = "pause" => t \in Backups /\ thread[t].pc = "pausing"
          /\ cmd = "resume" => thread[t].pc = "resuming"
    BY <1>3, SendStepSent
  <2>2. cmd # y
    BY <2>1 DEF Statuses
  <2>3. CASE r = s
    BY <2>1, <2>2, <2>3, FinalSent
  <2>4. CASE r # s
    BY <2>1, <2>4, SentOthers, SameService
  <2> QED
    BY <2>3, <2>4
<1>4. ASSUME Quiet PROVE Final(r, x, y)'
  BY <1>4, QuietSame, SameService
<1> QED
  BY <1>2, <1>3, <1>4 DEF CalmStep, LookStep, TurnStep, DumpTurn

\* A backup that pauses or resumes does so alone.
LEMMA Exclusive ==
  ASSUME Calm, NEW b \in Backups, thread[b].pc \in Pausing \union Resuming,
         NEW t \in Threads, t # b
  PROVE  thread[t].pc \notin Resuming /\ (t \in Backups => thread[t].pc \notin Pausing)
<1>1. ctx = b
  BY DEF Calm, SerialInv, Pausing, Resuming
<1>2. CASE t \in Backups
  BY <1>1, <1>2 DEF Calm, SerialInv, Pausing, Resuming
<1>3. CASE t = Loop
  BY <1>3, ThreadsAssumption
     DEF Calm, NoResumeDuringBackup, ResumeAlone, StatusUnlocked, Pausing, Resuming
<1> QED
  BY <1>2, <1>3 DEF Threads

LEMMA ResumeAloneStep ==
  ASSUME SerialRequests, ThreadType, SerialInv, NoResumeDuringBackup, ResumeAlone,
         [Next]_vars
  PROVE  ResumeAlone'
<1>1. ThreadStep
  BY ThreadSteps
<1>2. Loop \in Threads /\ \A b \in Backups : b \in Threads /\ b # Loop /\ b # NoCtx
  BY ThreadsAssumption DEF Threads
<1> QED
  BY <1>1, <1>2 DEF ThreadStep, SerialInv, NoResumeDuringBackup, ResumeAlone,
     StatusUnlocked, To, SamePcs, Resuming

LEMMA DumpAtStep ==
  ASSUME Types, Calm, CalmStep, NEW c \in Backups
  PROVE  DumpAt(c)'
<1>1. DumpAt(c) /\ c \in Threads /\ dump[c] \in [state : {"none", "running", "success",
         "error", "cancelled"}, ctx : Backups \union {NoCtx}]
  BY DEF Calm, Threads, Types, BackupType
<1>2. ASSUME UNCHANGED <<thread[c].pc, cancelled, dump>> PROVE DumpAt(c)'
  BY <1>1, <1>2 DEF DumpAt
<1>3. CASE \E s \in Services : Life(s)
  BY <1>2, <1>3 DEF Life
<1>4. CASE UNCHANGED <<cancelled, dump>> /\ \E t \in Threads, s \in Services :
             SendStep(t, s) \/ LookStep(t, s)
  <2>1. UNCHANGED <<thread[c].pc>>
    BY <1>1, <1>4 DEF SendStep, LookStep, Visits, Alone
  <2> QED
    BY <1>2, <1>4, <2>1
<1>5. ASSUME UNCHANGED <<cancelled, dump>>, NEW t \in Threads, TurnStep(t)
      PROVE  DumpAt(c)'
  <2>1. CASE t # c
    BY <1>1, <1>2, <1>5, <2>1 DEF TurnStep, GoesTo, Alone
  <2>2. CASE t = c
    <3>1. t # Loop
      BY <2>2, ThreadsAssumption
    <3> QED
      BY <1>1, <1>5, <2>2, <3>1 DEF TurnStep, GoesTo, BackupTurn, DumpAt
  <2> QED
    BY <2>1, <2>2
<1>6. ASSUME NEW b \in Backups, DumpTurn(b) PROVE DumpAt(c)'
  <2>1. CASE b # c
    <3>1. UNCHANGED <<thread[c].pc, dump[c]>> /\ (c \in cancelled' => c \in cancelled)
      BY <1>1, <1>6, <2>1 DEF DumpTurn, GoesTo, Alone, Types, BackupType
    <3> QED
      BY <1>1, <3>1 DEF DumpAt
  <2>2. CASE b = c
    <3>1. CASE Finished(b) /\ GoesTo(b, "done") /\ UNCHANGED dump
      BY <1>1, <2>2, <3>1 DEF Finished, GoesTo, DumpAt
    <3>2. CASE /\ thread[b].pc = "paused" /\ GoesTo(b, "dumping")
               /\ dump' = [dump EXCEPT ![b] = [state |-> "running", ctx |-> b]]
               /\ UNCHANGED cancelled
      BY <1>1, <2>2, <3>2 DEF GoesTo, DumpAt, Types, BackupType
    <3>3. ASSUME thread[b].pc = "dumping", UNCHANGED <<thread, cancelled>>,
                 NEW r \in {"success", "error", "cancelled"},
                 dump' = [dump EXCEPT ![b].state = r]
          PROVE  DumpAt(c)'
      <4>1. dump'[c].ctx = dump[c].ctx /\ dump'[c].state = r
        BY <1>1, <2>2, <3>3 DEF Types, BackupType
      <4> QED
        BY <1>1, <2>2, <3>3, <4>1 DEF DumpAt
    <3> QED
      BY <1>6, <3>1, <3>2, <3>3 DEF DumpTurn
  <2> QED
    BY <2>1, <2>2
<1>7. CASE Quiet /\ UNCHANGED <<thread, cancelled, dump>>
  BY <1>2, <1>7
<1> QED
  BY <1>3, <1>4, <1>5, <1>6, <1>7 DEF CalmStep

LEMMA CalmKept ==
  ASSUME Lasting, IInv, [Next]_vars
  PROVE  CalmStep /\ Types' /\ Calm'
<1>1. Types /\ Calm /\ SerialRequests
  BY DEF IInv, Lasting
<1>2. CalmStep
  BY <1>1, CalmSteps
<1>3. Types'
  BY <1>1, ServiceTypeStep, ThreadSteps, TypesStep DEF Types
<1>4. \A s \in Services : HandshakeAt(s)'
  BY <1>1, HandshakeStep DEF HandshakeInv, Types, Calm
<1>5. SerialInv' /\ NoResumeDuringBackup' /\ ResumeAlone'
  BY <1>1, SerialStep, ResumeAloneStep DEF Types, Calm
<1> QED
  BY <1>1, <1>2, <1>3, <1>4, <1>5, HonestStep, DumpAtStep DEF Calm

\* If an x is the coordinator's view and no y is on its way, x is final.
LEMMA Settled ==
  ASSUME NEW s \in Services, NEW x, NEW y, NoneComing(s, y)
  PROVE  Final(s, x, y)
BY DEF Final, NoneComing, NoneHandled, NoneOrdered

LEMMA FreshFinal ==
  ASSUME NEW s \in Services, Fresh(s), NEW x \in Statuses, NEW y \in Statuses
  PROVE  Final(s, x, y)
<1>1. NoneComing(s, y)
  BY DEF Fresh, NoneComing, NoneHandled, NoneOrdered, About, Statuses
<1> QED
  BY <1>1, Settled

\* Somebody stops pausing only when everyone is paused for good, or resuming only
\* when everyone is resumed for good.
LEMMA LeavesPausing ==
  ASSUME CalmStep, NEW b \in Backups, thread[b].pc \in Pausing, thread'[b].pc \notin Pausing
  PROVE  Quiet /\ thread[b].pc = "dumping"
<1>1. b \in Threads /\ b # Loop
  BY ThreadsAssumption DEF Threads
<1>2. ~ UNCHANGED thread
  OBVIOUS
<1>3. ASSUME NEW t \in Threads, NEW s \in Services, SendStep(t, s) \/ LookStep(t, s)
      PROVE  FALSE
  BY <1>1, <1>3 DEF SendStep, LookStep, Visits, Alone
<1>4. ASSUME NEW t \in Threads, TurnStep(t) PROVE Quiet /\ thread[b].pc = "dumping"
  <2>1. t = b
    BY <1>1, <1>4 DEF TurnStep, GoesTo, Alone
  <2> QED
    BY <1>1, <1>4, <2>1 DEF TurnStep, GoesTo, BackupTurn, Pausing
<1>5. ASSUME NEW c \in Backups, DumpTurn(c) PROVE FALSE
  <2>1. c = b
    BY <1>1, <1>2, <1>5 DEF DumpTurn, GoesTo, Alone
  <2> QED
    BY <1>2, <1>5, <2>1 DEF DumpTurn, GoesTo, Finished, Pausing
<1> QED
  BY <1>2, <1>3, <1>4, <1>5 DEF CalmStep, Life

LEMMA LeavesResuming ==
  ASSUME CalmStep, NEW u \in Threads, thread[u].pc \in Resuming,
         thread'[u].pc \notin Resuming
  PROVE  Quiet /\ Finished(u)
<1>1. ~ UNCHANGED thread
  OBVIOUS
<1>2. ASSUME NEW t \in Threads, NEW s \in Services, SendStep(t, s) \/ LookStep(t, s)
      PROVE  FALSE
  BY <1>2 DEF SendStep, LookStep, Visits, Alone
<1>3. ASSUME NEW t \in Threads, TurnStep(t) PROVE Quiet /\ Finished(u)
  <2>1. t = u
    BY <1>3 DEF TurnStep, GoesTo, Alone
  <2> QED
    BY <1>3, <2>1 DEF TurnStep, GoesTo, BackupTurn, LoopTurn, Resuming
<1>4. ASSUME NEW c \in Backups, DumpTurn(c) PROVE Quiet /\ Finished(u)
  <2>1. c = u
    BY <1>1, <1>4 DEF DumpTurn, GoesTo, Alone
  <2> QED
    BY <1>1, <1>4, <2>1 DEF DumpTurn, Resuming
<1> QED
  BY <1>1, <1>2, <1>3, <1>4 DEF CalmStep, Life

LEMMA PhaseStep ==
  ASSUME Lasting, IInv, CalmStep, Types', Calm'
  PROVE  PhaseInv'
<1> USE DEF IInv
<1>1. Loop \in Threads /\ \A b \in Backups : b \in Threads /\ b # Loop
  BY ThreadsAssumption DEF Threads
<1>2. "pause" \in Statuses /\ "resume" \in Statuses
  BY DEF Statuses
<1>3. ASSUME \A b \in Backups : thread'[b].pc \notin Pausing, NEW r \in Services
      PROVE  Final(r, "resume", "pause")'
  <2>1. CASE \A b \in Backups : thread[b].pc \notin Pausing
    <3>1. Final(r, "resume", "pause")
      BY <2>1 DEF PhaseInv
    <3>2. \A b \in Backups : thread[b].pc # "pausing"
      BY <2>1 DEF Pausing
    <3> QED
      BY <1>2, <3>1, <3>2, FinalStep
  <2>2. ASSUME NEW b \in Backups, thread[b].pc \in Pausing PROVE Final(r, "resume", "pause")'
    <3>1. Quiet /\ thread[b].pc = "dumping"
      BY <1>3, <2>2, LeavesPausing
    <3>2. \A t \in Threads : thread[t].pc \notin Resuming
      <4>1. thread[b].pc \notin Resuming
        BY <3>1 DEF Resuming
      <4> QED
        BY <2>2, <4>1, Exclusive
    <3>3. Final(r, "pause", "resume")
      BY <3>2 DEF PhaseInv
    <3>4. Final(r, "resume", "pause")
      <4>1. CASE Fresh(r)
        BY <1>2, <4>1, FreshFinal
      <4>2. CASE conn[r] = "open"
        <5>1. isPause[r]
          BY <3>1, <4>2 DEF WalkInv
        <5>2. NoneComing(r, "resume")
          BY <3>3, <5>1 DEF Final
        <5> QED
          BY <5>1, <5>2 DEF Final, NoneComing, NoneHandled, NoneOrdered
      <4> QED
        BY <4>1, <4>2 DEF Calm, Honest
    <3> QED
      BY <3>1, <3>4, QuietSame, SameService
  <2> QED
    BY <2>1, <2>2
<1>4. ASSUME \A t \in Threads : thread'[t].pc \notin Resuming, NEW r \in Services
      PROVE  Final(r, "pause", "resume")'
  <2>1. CASE \A t \in Threads : thread[t].pc \notin Resuming
    <3>1. Final(r, "pause", "resume")
      BY <2>1 DEF PhaseInv
    <3>2. \A t \in Threads : thread[t].pc # "resuming"
      BY <2>1 DEF Resuming
    <3> QED
      BY <1>2, <3>1, <3>2, FinalStep
  <2>2. ASSUME NEW t \in Threads, thread[t].pc \in Resuming PROVE Final(r, "pause", "resume")'
    <3>1. Quiet /\ Finished(t)
      BY <1>4, <2>2, LeavesResuming
    <3>2. \A b \in Backups : thread[b].pc \notin Pausing
      <4>1. thread[t].pc \notin Pausing
        BY <3>1 DEF Finished, Pausing
      <4>2. ASSUME NEW b \in Backups, thread[b].pc \in Pausing PROVE FALSE
        BY <1>1, <2>2, <4>1, <4>2, Exclusive
      <4> QED
        BY <4>2
    <3>3. Final(r, "resume", "pause")
      BY <3>2 DEF PhaseInv
    <3>4. Final(r, "pause", "resume")
      <4>1. CASE Fresh(r)
        BY <1>2, <4>1, FreshFinal
      <4>2. CASE conn[r] = "open"
        <5>1. ~isPause[r]
          BY <3>1, <4>2 DEF WalkInv, Finished
        <5>2. NoneComing(r, "pause")
          BY <3>3, <5>1 DEF Final
        <5> QED
          BY <5>1, <5>2 DEF Final, NoneComing, NoneHandled, NoneOrdered
      <4> QED
        BY <4>1, <4>2 DEF Calm, Honest
    <3> QED
      BY <3>1, <3>4, QuietSame, SameService
  <2> QED
    BY <2>1, <2>2
<1> QED
  BY <1>3, <1>4 DEF PhaseInv

\* A view that is final for a connected service stays what it is.
LEMMA ViewKept ==
  ASSUME Types, Calm, CalmStep, NEW r \in Services, conn[r] = "open",
         NEW x \in Statuses, NEW y \in Statuses, x # y, Final(r, x, y),
         isPause[r] <=> x = "pause"
  PROVE  isPause'[r] <=> isPause[r]
<1>1. ASSUME NEW s \in Services, Life(s) PROVE isPause'[r] <=> isPause[r]
  <2>1. CASE r # s
    BY <1>1, <2>1, LifeOthers
  <2>2. CASE r = s
    <3>1. CASE ServiceStep(s) \/ Dial(s)
      BY <3>1 DEF ServiceStep, Park, SeeResume, Unpark, FinishRound, TakeOrder,
           OrderDone, TakeGet, SendReport, Dial, connVars
    <3>2. ~Register(s)
      BY <2>2 DEF Register
    <3>3. CASE ReadReport(s)
      <4>1. isPause' = [isPause EXCEPT ![s] = Head(toCoord[s]) = "pause"]
            /\ toCoord[s] # <<>>
        BY <3>3 DEF ReadReport
      <4>2. isPause'[s] <=> Head(toCoord[s]) = "pause"
        BY <4>1, Zenon DEF Types, ConnType
      <4>3. toCoord[s] \in Seq(Statuses)
        BY Queues
      <4>4. 1 \in DOMAIN toCoord[s] /\ Head(toCoord[s]) = toCoord[s][1]
            /\ toCoord[s][1] \in {"pause", "resume"}
        BY <4>1, <4>3 DEF Statuses
      <4>5. toCoord[s][1] # y
        BY <2>2, <4>4 DEF Final, NoneComing
      <4> QED
        BY <2>2, <4>2, <4>4, <4>5 DEF Statuses
    <3> QED
      BY <1>1, <3>1, <3>2, <3>3 DEF Life
  <2> QED
    BY <2>1, <2>2
<1>2. CASE UNCHANGED isPause
  BY <1>2
<1> QED
  BY <1>1, <1>2 DEF CalmStep, SendStep, Sent, LookStep, TurnStep, DumpTurn, Quiet

\* Nobody registers during a walk; who registers later is taken for paused.
LEMMA NewcomerPaused ==
  ASSUME Types, CalmStep, NEW r \in Services, conn'[r] = "open", conn[r] # "open"
  PROVE  isPause'[r] /\ Unlocked /\ UNCHANGED thread
<1>1. ASSUME NEW s \in Services, Life(s) PROVE isPause'[r] /\ Unlocked /\ UNCHANGED thread
  <2>1. r = s
    BY <1>1, LifeOthers
  <2>2. Register(s)
    BY <1>1, <2>1 DEF Life, ServiceStep, Park, SeeResume, Unpark, FinishRound, TakeOrder,
         OrderDone, TakeGet, SendReport, ReadReport, Dial, connVars, Types, ConnType
  <2> QED
    BY <1>1, <2>1, <2>2 DEF Life, Register, Types, ConnType
<1>2. ~UNCHANGED conn
  OBVIOUS
<1> QED
  BY <1>1, <1>2 DEF CalmStep, SendStep, Sent, LookStep, TurnStep, DumpTurn, Quiet

\* While a backup pauses a pause is final; while somebody resumes a resume is.
LEMMA PauseIsFinal ==
  ASSUME IInv, NEW b \in Backups, thread[b].pc \in Pausing, NEW r \in Services
  PROVE  Final(r, "pause", "resume")
<1>1. thread[b].pc \notin Resuming
  BY DEF Pausing, Resuming
<1>2. \A t \in Threads : thread[t].pc \notin Resuming
  BY <1>1, Exclusive DEF IInv
<1> QED
  BY <1>2 DEF IInv, PhaseInv

LEMMA ResumeIsFinal ==
  ASSUME IInv, NEW t \in Threads, thread[t].pc \in Resuming, NEW r \in Services
  PROVE  Final(r, "resume", "pause")
<1>1. thread[t].pc \notin Pausing
  BY DEF Pausing, Resuming
<1>2. \A b \in Backups : b \in Threads
  BY DEF Threads
<1>3. ASSUME NEW b \in Backups, thread[b].pc \in Pausing PROVE FALSE
  BY <1>1, <1>2, <1>3, Exclusive DEF IInv
<1> QED
  BY <1>3 DEF IInv, PhaseInv

LEMMA WalkStep ==
  ASSUME Lasting, IInv, CalmStep, Types', Calm'
  PROVE  WalkInv'
<1> USE DEF IInv
<1>1. \A b \in Backups : b \in Threads /\ b # Loop
  BY ThreadsAssumption DEF Threads
<1>2. "pause" \in Statuses /\ "resume" \in Statuses
  BY DEF Statuses
<1>3. Connected = {s \in Services : conn[s] = "open"}
  BY DEF Connected, Calm, Honest, Fresh
<1>4. ASSUME NEW u \in Threads, thread'[u].pc = "resuming", thread'[u].clean,
             NEW r \in Services, conn'[r] = "open", r \notin thread'[u].todo
      PROVE  ~isPause'[r]
  <2>1. \/ thread[u].pc = "resuming" /\ thread[u].clean
           /\ (r \in thread[u].todo => ~isPause[r])
        \/ r \notin Connected /\ UNCHANGED conn
    <3>1. CASE UNCHANGED thread
      BY <1>4, <3>1
    <3>2. ASSUME NEW t \in Threads, NEW s \in Services, SendStep(t, s)
          PROVE  thread[u].pc = "resuming" /\ thread[u].clean /\ r \notin thread[u].todo
      <4>1. CASE t = u
        BY <1>4, <3>2, <4>1 DEF SendStep, Visits
      <4>2. CASE t # u
        BY <1>4, <3>2, <4>2 DEF SendStep, Visits, Alone
      <4> QED
        BY <4>1, <4>2
    <3>3. ASSUME NEW t \in Threads, NEW s \in Services, LookStep(t, s)
          PROVE  thread[u].pc = "resuming" /\ thread[u].clean
                 /\ (r \in thread[u].todo => ~isPause[r])
      <4>1. CASE t = u
        BY <1>4, <3>3, <4>1 DEF LookStep, Visits
      <4>2. CASE t # u
        BY <1>4, <3>3, <4>2 DEF LookStep, Visits, Alone
      <4> QED
        BY <4>1, <4>2
    <3>4. ASSUME NEW t \in Threads, TurnStep(t)
          PROVE  \/ thread[u].pc = "resuming" /\ thread[u].clean /\ r \notin thread[u].todo
                 \/ r \notin Connected /\ UNCHANGED conn
      <4>1. CASE t = u
        BY <1>4, <3>4, <4>1 DEF TurnStep, GoesTo, LoopTurn, BackupTurn, Quiet
      <4>2. CASE t # u
        BY <1>4, <3>4, <4>2 DEF TurnStep, GoesTo, Alone
      <4> QED
        BY <4>1, <4>2
    <3>5. ASSUME NEW b \in Backups, DumpTurn(b)
          PROVE  thread[u].pc = "resuming" /\ thread[u].clean /\ r \notin thread[u].todo
      <4>1. CASE b = u
        BY <1>4, <3>5, <4>1 DEF DumpTurn, GoesTo
      <4>2. CASE b # u
        BY <1>4, <3>5, <4>2 DEF DumpTurn, GoesTo, Alone
      <4> QED
        BY <4>1, <4>2
    <3> QED
      BY <3>1, <3>2, <3>3, <3>4, <3>5 DEF CalmStep, Life
  <2>2. thread[u].pc = "resuming" /\ thread[u].clean
        /\ (r \in thread[u].todo => ~isPause[r])
    BY <1>3, <1>4, <2>1
  <2>3. conn[r] = "open"
    BY <1>4, <2>2, NewcomerPaused DEF Unlocked
  <2>4. ~isPause[r]
    BY <2>2, <2>3 DEF WalkInv
  <2>5. Final(r, "resume", "pause")
    BY <2>2, ResumeIsFinal DEF Resuming
  <2> QED
    BY <1>2, <2>3, <2>4, <2>5, ViewKept
<1>5. ASSUME NEW b \in Backups, thread'[b].pc = "checking",
             NEW r \in Services, conn'[r] = "open", r \notin thread'[b].todo
      PROVE  isPause'[r]
  <2>1. \/ thread[b].pc = "checking" /\ (r \in thread[b].todo => isPause[r])
        \/ r \notin Connected /\ UNCHANGED conn
    <3>1. CASE UNCHANGED thread
      BY <1>5, <3>1
    <3>2. ASSUME NEW t \in Threads, NEW s \in Services, SendStep(t, s)
          PROVE  thread[b].pc = "checking" /\ r \notin thread[b].todo
      <4>1. CASE t = b
        BY <1>5, <3>2, <4>1 DEF SendStep, Visits
      <4>2. CASE t # b
        BY <1>1, <1>5, <3>2, <4>2 DEF SendStep, Visits, Alone
      <4> QED
        BY <4>1, <4>2
    <3>3. ASSUME NEW t \in Threads, NEW s \in Services, LookStep(t, s)
          PROVE  thread[b].pc = "checking" /\ (r \in thread[b].todo => isPause[r])
      <4>1. CASE t = b
        BY <1>5, <3>3, <4>1 DEF LookStep, Visits
      <4>2. CASE t # b
        BY <1>1, <1>5, <3>3, <4>2 DEF LookStep, Visits, Alone
      <4> QED
        BY <4>1, <4>2
    <3>4. ASSUME NEW t \in Threads, TurnStep(t)
          PROVE  \/ thread[b].pc = "checking" /\ r \notin thread[b].todo
                 \/ r \notin Connected /\ UNCHANGED conn
      <4>1. CASE t = b
        BY <1>1, <1>5, <3>4, <4>1 DEF TurnStep, GoesTo, BackupTurn, Quiet
      <4>2. CASE t # b
        BY <1>1, <1>5, <3>4, <4>2 DEF TurnStep, GoesTo, Alone
      <4> QED
        BY <4>1, <4>2
    <3>5. ASSUME NEW c \in Backups, DumpTurn(c)
          PROVE  thread[b].pc = "checking" /\ r \notin thread[b].todo
      <4>1. CASE c = b
        BY <1>5, <3>5, <4>1 DEF DumpTurn, GoesTo
      <4>2. CASE c # b
        BY <1>1, <1>5, <3>5, <4>2 DEF DumpTurn, GoesTo, Alone
      <4> QED
        BY <4>1, <4>2
    <3> QED
      BY <3>1, <3>2, <3>3, <3>4, <3>5 DEF CalmStep, Life
  <2>2. thread[b].pc = "checking" /\ (r \in thread[b].todo => isPause[r])
    BY <1>3, <1>5, <2>1
  <2>3. conn[r] = "open"
    BY <1>1, <1>5, <2>2, NewcomerPaused DEF Unlocked
  <2>4. isPause[r]
    BY <2>2, <2>3 DEF WalkInv
  <2>5. Final(r, "pause", "resume")
    BY <2>2, PauseIsFinal DEF Pausing
  <2> QED
    BY <1>2, <2>3, <2>4, <2>5, ViewKept
<1>6. ASSUME NEW b \in Backups, thread'[b].pc \in {"paused", "dumping"},
             NEW r \in Services, conn'[r] = "open"
      PROVE  isPause'[r]
  <2>1. \/ thread[b].pc \in {"paused", "dumping"}
        \/ thread[b].pc = "checking" /\ thread[b].todo = {} /\ UNCHANGED conn
    <3>1. CASE UNCHANGED thread
      BY <1>6, <3>1
    <3>2. ASSUME NEW t \in Threads, NEW s \in Services, SendStep(t, s) \/ LookStep(t, s)
          PROVE  thread[b].pc \in {"paused", "dumping"}
      BY <1>1, <1>6, <3>2 DEF SendStep, LookStep, Visits, Alone
    <3>3. ASSUME NEW t \in Threads, TurnStep(t)
          PROVE  \/ thread[b].pc \in {"paused", "dumping"}
                 \/ thread[b].pc = "checking" /\ thread[b].todo = {} /\ UNCHANGED conn
      <4>1. CASE t = b
        BY <1>1, <1>6, <3>3, <4>1 DEF TurnStep, GoesTo, BackupTurn, Quiet
      <4>2. CASE t # b
        BY <1>1, <1>6, <3>3, <4>2 DEF TurnStep, GoesTo, Alone
      <4> QED
        BY <4>1, <4>2
    <3>4. ASSUME NEW c \in Backups, DumpTurn(c)
          PROVE  thread[b].pc \in {"paused", "dumping"}
      BY <1>1, <1>6, <3>4 DEF DumpTurn, GoesTo, Alone
    <3> QED
      BY <3>1, <3>2, <3>3, <3>4 DEF CalmStep, Life
  <2>2. CASE conn[r] # "open"
    BY <1>6, <2>2, NewcomerPaused
  <2>3. CASE conn[r] = "open"
    <3>1. isPause[r]
      BY <2>1, <2>3 DEF WalkInv
    <3>2. Final(r, "pause", "resume")
      BY <2>1, PauseIsFinal DEF Pausing
    <3> QED
      BY <1>2, <2>3, <3>1, <3>2, ViewKept
  <2> QED
    BY <2>2, <2>3
<1> QED
  BY <1>4, <1>5, <1>6 DEF WalkInv

LEMMA InitIInv == ASSUME Lasting PROVE Init => IInv
<1> SUFFICES ASSUME Init PROVE IInv
  OBVIOUS
<1>1. Types /\ \A s \in Services : HandshakeAt(s)
  BY InitHandshake, InitThreads, InitTypes DEF HandshakeInv, Types
<1>2. \A b \in Backups : thread[b].pc = "idle" /\ dump[b].state = "none" /\ b \notin cancelled
  BY InitThreads DEF Init
<1>3. thread[Loop].pc = "sleep" /\ Loop \in Threads
  BY DEF Init, Threads
<1>4. \A s \in Services : Fresh(s)
  <2>1. flag = [s \in Services |-> s \notin Workers] /\ Workers = {}
    BY DEF Init, Lasting
  <2>2. \A s \in Services : flag[s]
    BY <2>1, Zenon
  <2> QED
    BY <2>1, <2>2 DEF Init, Fresh
<1>5. Calm
  BY <1>1, <1>2, <1>4 DEF Calm, SerialInv, NoResumeDuringBackup, ResumeAlone, DumpAt, Resuming
<1>6. PhaseInv
  BY <1>4, FreshFinal DEF PhaseInv, Statuses
<1>7. WalkInv
  BY <1>2, <1>4 DEF WalkInv, Fresh
<1> QED
  BY <1>1, <1>5, <1>6, <1>7 DEF IInv

LEMMA SpecIInv == ASSUME Lasting PROVE Spec => []IInv
<1>1. Init => IInv
  BY InitIInv
<1>2. IInv /\ [Next]_vars => IInv'
  BY CalmKept, PhaseStep, WalkStep DEF IInv
<1> QED
  BY <1>1, <1>2, PTL DEF Spec

-----------------------------------------------------------------------------
(* The view is safe, and the promise is kept. *)

LEMMA ViewIsSafe == ASSUME IInv PROVE PausedViewIsSafe
<1> SUFFICES ASSUME NEW s \in Connected, isPause[s],
                    handling[s] \notin {"resume", "resumed"},
                    \A i \in DOMAIN toService[s] : toService[s][i] # "resume",
                    \A i \in DOMAIN toCoord[s] : toCoord[s][i] # "resume"
             PROVE  flag[s] /\ status[s] = "pause" /\ main[s] = "head"
  BY DEF PausedViewIsSafe
<1>1. s \in Services /\ conn[s] \notin {"none", "dialing"}
  BY DEF Connected
<1>2. Honest(s) /\ HandshakeAt(s)
  BY <1>1 DEF IInv, Calm, Fresh
<1>3. toCoord[s] \in Seq(Statuses) /\ flag[s] \in BOOLEAN
      /\ handling[s] \in {"idle", "pause", "resume", "paused", "resumed"}
  BY <1>1, Queues DEF IInv
<1>4. LastSaid(s)
  <2>1. CASE toCoord[s] = <<>>
    BY <2>1 DEF LastSaid
  <2>2. CASE toCoord[s] # <<>>
    <3>1. Len(toCoord[s]) \in DOMAIN toCoord[s]
          /\ toCoord[s][Len(toCoord[s])] \in {"pause", "resume"}
      BY <1>3, <2>2 DEF Statuses
    <3> QED
      BY <2>2, <3>1 DEF LastSaid
  <2> QED
    BY <2>1, <2>2
<1> QED
  BY <1>1, <1>2, <1>3, <1>4 DEF Honest, HandshakeAt, Statuses, IInv, Types, ServiceType

\* While connections last the coordinator's view of who is paused errs on one side
\* only: a service it takes for paused, with no resume on its way, has its flag set
\* and is parked (pauseServices, ServiceRegisterHandler, pauseOperation).
THEOREM SpecPausedViewIsSafe ==
  ASSUME Lasting
  PROVE  Spec => []PausedViewIsSafe
<1>1. IInv => PausedViewIsSafe
  BY ViewIsSafe
<1> QED
  BY <1>1, SpecIInv, PTL

\* During a dump every service is parked and told to stay so.
LEMMA ParkedDuringDump ==
  ASSUME IInv, NEW b \in Backups, Dumping(b), NEW s \in Services
  PROVE  flag[s] /\ main[s] = "head"
<1>1. CASE Fresh(s)
  BY <1>1 DEF Fresh
<1>2. CASE conn[s] = "open"
  <2>1. thread[b].pc = "dumping"
    BY DEF Dumping
  <2>2. isPause[s]
    BY <1>2, <2>1 DEF IInv, WalkInv
  <2>3. Final(s, "pause", "resume")
    BY <2>1, PauseIsFinal DEF Pausing
  <2>4. NoneComing(s, "resume")
    BY <2>2, <2>3 DEF Final
  <2>5. s \in Connected
    BY <1>2 DEF Connected
  <2> QED
    BY <2>2, <2>4, <2>5, ViewIsSafe
       DEF PausedViewIsSafe, NoneComing, NoneHandled, NoneOrdered, About
<1> QED
  BY <1>1, <1>2 DEF IInv, Calm, Honest

\* The services at work, and whether a dump is being taken.
Working == {s \in Services : main[s] # "head"}
Dumps   == \E b \in Backups : Dumping(b)

AllParked == \A s \in Services : flag[s] /\ main[s] = "head"

LEMMA DumpParks == IInv => (Dumps => AllParked)
BY ParkedDuringDump DEF Dumps, AllParked

LEMMA DumpParksNext == IInv' => (Dumps' => AllParked')
BY DumpParks, PTL

LEMMA PromiseInit == ASSUME Lasting PROVE Init => Promise!Init
<1> SUFFICES ASSUME Init PROVE Promise!Init
  OBVIOUS
<1>1. Working = {}
  BY DEF Init, Working
<1>2. Dumps = FALSE
  BY DEF Init, Dumps, Dumping
<1> QED
  BY <1>1, <1>2 DEF Promise!Init, Working, Dumps

\* Only the main loops go to work and come back.
LEMMA WorkingStep ==
  ASSUME Types, NEW s \in Services, Life(s)
  PROVE  /\ Dumps' = Dumps
         /\ \/ Working' = Working
            \/ ~flag[s] /\ Working' = Working \union {s}
            \/ Working' = Working \ {s}
<1>1. Dumps' = Dumps
  BY DEF Life, Dumps, Dumping
<1> USE DEF Types, ServiceType
<1>2. CASE UNCHANGED main
  BY <1>1, <1>2 DEF Working
<1>3. CASE SeeResume(s)
  <2>1. ~flag[s] /\ main' = [main EXCEPT ![s] = "leaving"]
    BY <1>3 DEF SeeResume
  <2>2. Working' = Working \union {s}
    BY <2>1 DEF Working
  <2> QED
    BY <1>1, <2>1, <2>2
<1>4. CASE Unpark(s)
  <2>1. Working' = Working
    BY <1>4 DEF Unpark, Working
  <2> QED
    BY <1>1, <2>1
<1>5. CASE FinishRound(s)
  <2>1. Working' = Working \ {s}
    BY <1>5 DEF FinishRound, Working
  <2> QED
    BY <1>1, <2>1
<1>6. UNCHANGED main \/ SeeResume(s) \/ Unpark(s) \/ FinishRound(s)
  BY DEF Life, ServiceStep, Park, TakeOrder, OrderDone, TakeGet, SendReport, ReadReport,
         Dial, Register, serviceVars
<1> QED
  BY <1>2, <1>3, <1>4, <1>5, <1>6

LEMMA PromiseNext ==
  ASSUME Lasting, IInv, IInv', CalmStep
  PROVE  [Promise!Next]_<<Working, Dumps>>
<1>1. Dumps => \A s \in Services : flag[s] /\ main[s] = "head"
  BY DumpParks DEF AllParked
<1>2. Dumps' => \A s \in Services : main'[s] = "head"
  BY DumpParksNext DEF AllParked
<1>3. Dumps \in BOOLEAN /\ Dumps' \in BOOLEAN
  BY DEF Dumps
<1>4. CASE Working' = Working
  <2>1. CASE Dumps'
    <3>1. Working = {}
      BY <1>2, <1>4, <2>1 DEF Working
    <3>2. Promise!BeginDump
      BY <1>4, <2>1, <3>1 DEF Promise!BeginDump, Working, Dumps
    <3> QED
      BY <3>2 DEF Promise!Next
  <2>2. CASE ~Dumps'
    <3>1. Promise!EndDump
      BY <1>4, <2>2 DEF Promise!EndDump, Working, Dumps
    <3> QED
      BY <3>1 DEF Promise!Next
  <2> QED
    BY <2>1, <2>2
<1>5. ASSUME NEW s \in Services, Life(s), Working' # Working
      PROVE  Promise!Next
  <2>1. /\ Dumps' = Dumps
        /\ \/ ~flag[s] /\ Working' = Working \union {s}
           \/ Working' = Working \ {s}
    BY <1>5, WorkingStep DEF IInv
  <2>2. CASE ~flag[s] /\ Working' = Working \union {s}
    <3>1. ~Dumps
      BY <1>1, <2>2
    <3>2. Promise!StartWork(s)
      BY <2>1, <2>2, <3>1 DEF Promise!StartWork, Working, Dumps
    <3> QED
      BY <3>2 DEF Promise!Next
  <2>3. CASE Working' = Working \ {s}
    <3>1. Promise!StopWork(s)
      BY <2>1, <2>3 DEF Promise!StopWork, Working, Dumps
    <3> QED
      BY <3>1 DEF Promise!Next
  <2> QED
    BY <2>1, <2>2, <2>3
<1>6. UNCHANGED main => Working' = Working
  BY DEF Working
<1> QED
  BY <1>4, <1>5, <1>6 DEF CalmStep, SendStep, Sent, LookStep, TurnStep, DumpTurn, Quiet,
     serviceVars

\* While connections last the coordinator implements BackupPromise: a dump begins
\* with every service parked, and none leaves willPauseOperation before it has ended
\* (startBackup, pauseServices, resumeAllServices, pauseOperation).
THEOREM SpecBackupKeepsPromise ==
  ASSUME Lasting
  PROVE  Spec => BackupKeepsPromise
<1>1. Init => Promise!Init
  BY PromiseInit
<1>2. IInv /\ IInv' /\ [Next]_vars => [Promise!Next]_<<Working, Dumps>>
  BY CalmKept, PromiseNext
<1> QED
  BY <1>1, <1>2, SpecIInv, PTL DEF Spec, BackupKeepsPromise, Promise!Spec, Working, Dumps
=============================================================================
