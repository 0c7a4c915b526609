-------------------------- MODULE LifecycleProofs --------------------------
(***************************************************************************)
(* Proofs about Lifecycle for any number of workers, signals and restarts, *)
(* with and without upstreams and a configuration file.  Everything rests  *)
(* on two facts about stop(): main stands still while its handler runs     *)
(* one, so at most one of the two is past ClearRunning (StopInv), and      *)
(* what an earlier stop() has joined or closed nobody starts again.  Below *)
(* them, the proofs about how the same daemon is stopped as a Windows      *)
(* service.                                                                *)
(***************************************************************************)
EXTENDS Lifecycle, WindowsService, TLAPS

\* What a step of main, and one of the handler, does to the program counters.
LEMMA GotoMain ==
    ASSUME NEW from, NEW to, pc \in [main : MainPCs, handler : HandlerPCs],
           Goto("main", from, to)
    PROVE  /\ fate = "up" /\ pc.main = from /\ pc.handler = "none"
           /\ pc'.main = to /\ pc'.handler = "none"
           /\ pc' = [main |-> to, handler |-> "none"]
BY DEF Goto, Runs

LEMMA GotoHandler ==
    ASSUME NEW from, NEW to, pc \in [main : MainPCs, handler : HandlerPCs],
           Goto("handler", from, to)
    PROVE  /\ fate = "up" /\ pc.handler = from
           /\ pc'.main = pc.main /\ pc'.handler = to
           /\ pc' = [main |-> pc.main, handler |-> to]
BY DEF Goto, Runs

\* The flags of TypeOK, which are Boolean-valued, and its other conjuncts.
Flags ==
    /\ running \in BOOLEAN /\ workers_running \in BOOLEAN
    /\ config_watch_running \in BOOLEAN /\ sync_running \in BOOLEAN
    /\ logger_mutex \in BOOLEAN /\ g_shutdown_requested \in BOOLEAN

Others ==
    /\ pc \in [main : MainPCs, handler : HandlerPCs]
    /\ worker \in [Workers -> {"none", "test", "recv", "heal", "packet", "use", "send",
                           "done"}]
    /\ sync \in {"none", "sync", "test", "sleep", "done"}
    /\ watcher \in {"none", "test", "poll", "done"}
    /\ worker_threads \subseteq Workers
    /\ upstream_sync \in {"null", "live"}
    /\ server_socket \in {"invalid", "bound"}
    /\ restart_count \in 0 .. RestartLimit
    /\ state_file \in {"old", "cut", "whole"}
    /\ signals \in 0 .. MaxSignals
    /\ signalled \in MainPCs \cup {"none"}
    /\ fate \in {"up", "failed", "exited", "forced", "crashed"}

LEMMA TypeSplit == (TypeOK <=> Flags /\ Others) /\ (TypeOK' <=> Flags' /\ Others')
BY Zenon DEF TypeOK, Flags, Others

\* Every step of every thread keeps the types.
LEMMA TypeStep == TypeOK /\ [Next]_vars => TypeOK'
<1> SUFFICES ASSUME TypeOK, [Next]_vars
             PROVE  Flags' /\ Others'
    BY TypeSplit
<1>0. /\ Flags /\ Others
      /\ pc \in [main : MainPCs, handler : HandlerPCs]
      /\ RestartLimit \in Nat /\ MaxSignals \in Nat /\ HasConfigFile \in BOOLEAN
    BY TypeSplit, LifecycleAssumption DEF Others
<1> DEFINE PcType == pc' \in [main : MainPCs, handler : HandlerPCs]
<1> USE DEF others, flags, socketVars, resources, signalVars
<1>1. CASE Main
    <2>1. PcType
        BY <1>0, <1>1, GotoMain DEF Main, InitSocket, FailToStart, SpawnWorker,
           SetWorkersRunning, StartConfigWatcher, SetRunning, CreateUpstream,
           StartUpstream, EnterLoop, LeaveLoop, DestroyServer, Exit,
           MainPCs, StartPCs, StopPCs, HandlerPCs
    <2>2. Flags'
        BY ZenonT(30), <1>0, <1>1 DEF Flags, Main, InitSocket, FailToStart, SpawnWorker, SetWorkersRunning,
           StartConfigWatcher, SetRunning, CreateUpstream, StartUpstream, EnterLoop,
           LeaveLoop, DestroyServer, Exit
    <2>3. Others'
        BY <1>0, <1>1, <2>1 DEF Others, Main, InitSocket, FailToStart, SpawnWorker, SetWorkersRunning,
           StartConfigWatcher, SetRunning, CreateUpstream, StartUpstream, EnterLoop,
           LeaveLoop, DestroyServer, Exit
    <2> QED
        BY <2>2, <2>3
<1>2. CASE Log \/ EndLog
    <2>2. Flags'
        BY Zenon, <1>0, <1>2 DEF Flags, Log, EndLog
    <2>3. Others'
        BY <1>0, <1>2 DEF Others, Log, EndLog
    <2> QED
        BY <2>2, <2>3
<1>3. ASSUME NEW t \in Caller, Stop(t)
      PROVE  Flags' /\ Others'
    <2>1. PcType
        <3>1. CASE t = "main"
            BY <1>0, <1>3, <3>1, GotoMain DEF Stop, TestRunning, ClearRunning,
               StopSync, JoinSync, ResetUpstream, StopWorkers, JoinWorkers, StopWatch,
               JoinWatch, persistState, WriteState, CloseSocket, Return,
               MainPCs, StopPCs, HandlerPCs
        <3>2. CASE t = "handler"
            BY <1>0, <1>3, <3>2, GotoHandler DEF Stop, TestRunning, ClearRunning,
               StopSync, JoinSync, ResetUpstream, StopWorkers, JoinWorkers, StopWatch,
               JoinWatch, persistState, WriteState, CloseSocket, Return,
               StopPCs, HandlerPCs
        <3> QED
            BY <1>3, <3>1, <3>2 DEF Caller
    <2>2. Flags'
        BY Zenon, <1>0, <1>3 DEF Flags, Stop, TestRunning, ClearRunning, StopSync, JoinSync,
           ResetUpstream, StopWorkers, JoinWorkers, StopWatch, JoinWatch, persistState,
           WriteState, CloseSocket
    <2>3. Others'
        BY <1>0, <1>3, <2>1 DEF Others, Stop, TestRunning, ClearRunning, StopSync, JoinSync,
           ResetUpstream, StopWorkers, JoinWorkers, StopWatch, JoinWatch, persistState,
           WriteState, CloseSocket
    <2> QED
        BY <2>2, <2>3
<1>4. CASE Signal \/ HandlerLog \/ SecondSignal
    <2>1. PcType
        BY <1>0, <1>4, GotoHandler DEF Signal, HandlerLog, SecondSignal, HandlerPCs,
           StopPCs
    <2>2. Flags'
        BY Zenon, <1>0, <1>4 DEF Flags, Signal, HandlerLog, SecondSignal
    <2>3. Others'
        BY <1>0, <1>4, <2>1 DEF Others, Signal, HandlerLog, SecondSignal
    <2> QED
        BY <2>2, <2>3
<1>5. ASSUME NEW w \in Workers, Worker(w)
      PROVE  Flags' /\ Others'
    <2>2. Flags'
        BY Zenon, <1>0, <1>5 DEF Flags, Worker, TestWorkersRunning, Receive, HealClose, HealOpen,
           TestUpstream, UseUpstream, Send, WorkerGoto
    <2>3. Others'
        BY <1>0, <1>5 DEF Others, Worker, TestWorkersRunning, Receive, HealClose, HealOpen,
           TestUpstream, UseUpstream, Send, WorkerGoto
    <2> QED
        BY <2>2, <2>3
<1>6. CASE SyncThread \/ WatcherThread
    <2>2. Flags'
        BY Zenon, <1>0, <1>6 DEF Flags, SyncThread, WatcherThread, SyncGoto, WatcherGoto
    <2>3. Others'
        BY <1>0, <1>6 DEF Others, SyncThread, WatcherThread, SyncGoto, WatcherGoto
    <2> QED
        BY <2>2, <2>3
<1>7. CASE UNCHANGED vars
    <2>2. Flags'
        BY Zenon, <1>0, <1>7 DEF Flags, vars
    <2>3. Others'
        BY <1>0, <1>7 DEF Others, vars
    <2> QED
        BY <2>2, <2>3
<1> QED
    BY <1>1, <1>2, <1>3, <1>4, <1>5, <1>6, <1>7 DEF Next

\* The lifecycle is type correct; restart_count_ stays within its limit.
THEOREM TypeCorrect == Spec => []TypeOK
<1>1. Init => TypeOK
    <2>1. Init => Flags
        BY Zenon DEF Init, Flags
    <2>2. Init => Others
        BY LifecycleAssumption DEF Init, Others, MainPCs, StartPCs, HandlerPCs
    <2> QED
        BY <2>1, <2>2, TypeSplit
<1> QED
    BY <1>1, TypeStep, PTL DEF Spec
-----------------------------------------------------------------------------
\* StopInv with its quantifier over the two callers of stop() spelled out.
Reached(at) ==
    /\ at \in Stopping \ {"clear"} => ~running
    /\ at \in {"stopwatch", "joinwatch", "persist", "write", "close"} => WorkersGone
    /\ at \in {"persist", "write", "close"} => WatcherGone

StopParts ==
    /\ running => pc.main \in Running
    /\ pc.handler # "none" => g_shutdown_requested /\ signalled = pc.main
    /\ pc.handler \in Stopping => pc.main \in Running
    /\ \A w \in Workers : Alive(w) => w \in worker_threads
    /\ Reached(pc.main) /\ Reached(pc.handler)
    /\ pc.main \in Running /\ ~running /\ pc.handler \notin Stopping => Stopped
    /\ pc.main \in {"destroy", "joinlast"} => Stopped

LEMMA StopSplit == (StopInv <=> StopParts) /\ (StopInv' <=> StopParts')
BY DEF StopInv, StopParts, Reached, Caller

\* The steps of main that are not part of stop() keep StopInv: they happen while no
\* handler runs, and none but SetRunning and DestroyServer passes a place it names.
LEMMA MainStop == TypeOK /\ StopInv /\ Main => StopInv'
<1> SUFFICES ASSUME TypeOK, StopParts, Main
             PROVE  StopParts'
    BY StopSplit
<1>0. pc \in [main : MainPCs, handler : HandlerPCs]
    BY DEF TypeOK
<1> USE <1>0, GotoMain
    DEF StopParts, Reached, Stopped, WorkersGone, WatcherGone, Alive, Stopping, StopPCs,
        Running, others, flags, socketVars, resources, signalVars
<1>1. CASE InitSocket \/ FailToStart
    BY <1>1 DEF InitSocket, FailToStart
<1>2. ASSUME NEW w \in Workers, SpawnWorker(w)
      PROVE  StopParts'
    BY <1>2 DEF SpawnWorker, TypeOK
<1>3. CASE SetWorkersRunning \/ StartConfigWatcher
    BY <1>3 DEF SetWorkersRunning, StartConfigWatcher
<1>4. CASE SetRunning
    BY <1>4 DEF SetRunning
<1>5. CASE CreateUpstream \/ StartUpstream
    BY <1>5 DEF CreateUpstream, StartUpstream
<1>6. CASE EnterLoop
    BY <1>6 DEF EnterLoop
<1>7. CASE LeaveLoop
    BY <1>7 DEF LeaveLoop
<1>8. CASE DestroyServer \/ Exit
    BY <1>8 DEF DestroyServer, Exit
<1> QED
    BY <1>1, <1>2, <1>3, <1>4, <1>5, <1>6, <1>7, <1>8 DEF Main

\* So do the steps of stop(), whoever runs it: each establishes what the place it
\* goes to needs, and the handler's last one what main needs when it goes on.
LEMMA CallerStop == TypeOK /\ StopInv /\ (\E t \in Caller : Stop(t)) => StopInv'
<1> SUFFICES ASSUME TypeOK, StopParts, NEW t \in Caller, Stop(t)
             PROVE  StopParts'
    BY StopSplit
<1>0. pc \in [main : MainPCs, handler : HandlerPCs]
    BY DEF TypeOK
<1> USE <1>0, GotoMain, GotoHandler
    DEF StopParts, Reached, Stopped, WorkersGone, WatcherGone, Alive, Stopping, StopPCs,
        Running, Return, others, flags, socketVars, resources, signalVars
<1>1. CASE t = "main"
    <2>1. CASE TestRunning(t)
        BY <1>1, <2>1 DEF TestRunning
    <2>2. CASE ClearRunning(t)
        BY <1>1, <2>2 DEF ClearRunning
    <2>3. CASE StopSync(t) \/ JoinSync(t) \/ ResetUpstream(t)
        BY <1>1, <2>3 DEF StopSync, JoinSync, ResetUpstream
    <2>4. CASE StopWorkers(t)
        BY <1>1, <2>4 DEF StopWorkers
    <2>5. CASE JoinWorkers(t)
        BY <1>1, <2>5 DEF JoinWorkers
    <2>6. CASE StopWatch(t) \/ JoinWatch(t)
        BY <1>1, <2>6 DEF StopWatch, JoinWatch
    <2>7. CASE persistState(t) \/ WriteState(t)
        BY <1>1, <2>7 DEF persistState, WriteState
    <2>8. CASE CloseSocket(t)
        BY <1>1, <2>8 DEF CloseSocket
    <2> QED
        BY <2>1, <2>2, <2>3, <2>4, <2>5, <2>6, <2>7, <2>8 DEF Stop
<1>2. CASE t = "handler"
    <2>1. CASE TestRunning(t)
        BY <1>2, <2>1 DEF TestRunning
    <2>2. CASE ClearRunning(t)
        BY <1>2, <2>2 DEF ClearRunning
    <2>3. CASE StopSync(t) \/ JoinSync(t) \/ ResetUpstream(t)
        BY <1>2, <2>3 DEF StopSync, JoinSync, ResetUpstream
    <2>4. CASE StopWorkers(t)
        BY <1>2, <2>4 DEF StopWorkers
    <2>5. CASE JoinWorkers(t)
        BY <1>2, <2>5 DEF JoinWorkers
    <2>6. CASE StopWatch(t) \/ JoinWatch(t)
        BY <1>2, <2>6 DEF StopWatch, JoinWatch
    <2>7. CASE persistState(t) \/ WriteState(t)
        BY <1>2, <2>7 DEF persistState, WriteState
    <2>8. CASE CloseSocket(t)
        BY <1>2, <2>8 DEF CloseSocket
    <2> QED
        BY <2>1, <2>2, <2>3, <2>4, <2>5, <2>6, <2>7, <2>8 DEF Stop
<1> QED
    BY <1>1, <1>2 DEF Caller

\* Every step keeps StopInv.  Of the other threads, a worker that replaces the socket
\* is alive, so nobody relies on the socket being closed; and no thread that has
\* ended starts again.
LEMMA StopStep == TypeOK /\ StopInv /\ [Next]_vars => StopInv'
<1> SUFFICES ASSUME TypeOK, StopInv, [Next]_vars
             PROVE  StopInv'
    OBVIOUS
<1>0. pc \in [main : MainPCs, handler : HandlerPCs] /\ StopParts
    BY StopSplit DEF TypeOK
<1> USE <1>0 DEF others, flags, socketVars, resources, signalVars
<1>1. CASE Main
    BY <1>1, MainStop
<1>2. CASE \E t \in Caller : Stop(t)
    BY <1>2, CallerStop
<1>3. CASE Log \/ EndLog \/ SecondSignal \/ UNCHANGED vars
    BY <1>3 DEF Log, EndLog, SecondSignal, vars, StopInv, Stopped, WorkersGone,
       WatcherGone, Alive
<1>4. CASE Signal \/ HandlerLog
    <2>1. StopParts'
        BY <1>4, GotoHandler DEF Signal, HandlerLog, StopParts, Reached, Stopped,
           WorkersGone, WatcherGone, Alive, Stopping, StopPCs
    <2> QED
        BY <2>1, StopSplit
<1>5. ASSUME NEW w \in Workers, Worker(w)
      PROVE  StopInv'
    <2>1. /\ Alive(w) /\ \A v \in Workers : Alive(v)' => Alive(v)
          /\ UNCHANGED <<pc, watcher, worker_threads, running, g_shutdown_requested,
                         signalled>>
        BY <1>5 DEF TypeOK, Alive, Worker, TestWorkersRunning, Receive, HealClose,
           HealOpen, TestUpstream, UseUpstream, Send, WorkerGoto
    <2>2. StopParts'
        BY <2>1 DEF StopParts, Reached, Stopped, WorkersGone, WatcherGone
    <2> QED
        BY <2>2, StopSplit
<1>6. CASE SyncThread \/ WatcherThread
    <2>1. WatcherGone => WatcherGone'
        BY <1>6 DEF WatcherGone, SyncThread, WatcherThread, SyncGoto, WatcherGoto
    <2>2. UNCHANGED <<pc, worker, worker_threads, running, g_shutdown_requested,
                      signalled, server_socket>>
        BY <1>6 DEF SyncThread, WatcherThread, SyncGoto, WatcherGoto
    <2> QED
        BY <2>1, <2>2 DEF StopInv, Stopped, WorkersGone, Alive
<1> QED
    BY <1>1, <1>2, <1>3, <1>4, <1>5, <1>6 DEF Next

LEMMA StopInvariant == Spec => []StopInv
<1>1. Init => StopInv
    BY DEF Init, StopInv, Stopping, StopPCs, Running, Caller, Alive
<1> QED
    BY <1>1, StopStep, TypeCorrect, PTL DEF Spec

\* closeSocket runs when every worker has ended: no worker holds the descriptor, and
\* none can open another socket that nobody would close.
THEOREM ClosedLast == Spec => SocketClosedLast
<1>1. StopInv => (\A t \in Caller : pc[t] = "close" /\ pc'[t] # "close"
                                      => \A w \in Workers : ~Alive(w))
    BY DEF StopInv, WorkersGone
<1> QED
    BY <1>1, StopInvariant, PTL DEF SocketClosedLast
-----------------------------------------------------------------------------
\* The upstream manager is missing for somebody about to use it in two situations:
\* the handler reset it while main stood before its start(), or stop() is between the
\* reset and the join of the workers.
LEMMA UpstreamStep ==
    TypeOK /\ StopInv /\ UpstreamInv /\ [Next]_vars => UpstreamInv'
<1> SUFFICES ASSUME TypeOK, StopInv, UpstreamInv, [Next]_vars
             PROVE  UpstreamInv'
    OBVIOUS
<1>0. pc \in [main : MainPCs, handler : HandlerPCs] /\ StopParts
    BY StopSplit DEF TypeOK
<1> DEFINE Used == \E w \in Workers : worker[w] = "use"
           Waiting(p) == p.main \in {"stopworkers", "joinworkers"}
                           \/ p.handler \in {"stopworkers", "joinworkers"}
<1>00. UpstreamInv <=> /\ pc.main = "syncstart" /\ upstream_sync = "null"
                             => signalled = "syncstart"
                       /\ upstream_sync = "null" /\ Used => Waiting(pc)
    BY DEF UpstreamInv, Caller
<1>01. ASSUME pc'.main = "syncstart" /\ upstream_sync' = "null" => signalled' = "syncstart",
              upstream_sync' = "null" /\ Used' => Waiting(pc')
       PROVE  UpstreamInv'
    BY <1>01 DEF UpstreamInv, Caller
<1> USE DEF others, flags, socketVars, resources, signalVars
<1>1. CASE Main
    <2>1. Used' => Used
        BY <1>1 DEF TypeOK, Main, InitSocket, FailToStart, SpawnWorker,
           SetWorkersRunning, StartConfigWatcher, SetRunning, CreateUpstream,
           StartUpstream, EnterLoop, LeaveLoop, DestroyServer, Exit
    <2>2. CASE Exit
        <3>1. ~Used
            BY <1>0, <2>2, GotoMain
            DEF Exit, StopParts, Stopped, WorkersGone, Alive
        <3> QED
            BY <1>0, <1>01, <2>1, <2>2, <3>1, GotoMain DEF Exit
    <2>3. CASE ~Exit
        BY <1>0, <1>00, <1>01, <1>1, <2>1, <2>3, GotoMain
        DEF Main, InitSocket, FailToStart, SpawnWorker, SetWorkersRunning,
            StartConfigWatcher, SetRunning, CreateUpstream, StartUpstream, EnterLoop,
            LeaveLoop, DestroyServer
    <2> QED
        BY <2>2, <2>3
<1>2. ASSUME NEW t \in Caller, Stop(t)
      PROVE  UpstreamInv'
    <2>0. t = "main" \/ t = "handler"
        BY DEF Caller
    <2>1. CASE ResetUpstream(t)
        BY <1>0, <1>01, <2>0, <2>1, GotoMain, GotoHandler
        DEF ResetUpstream, StopParts
    <2>2. CASE JoinWorkers(t)
        <3>1. ~Used
            BY <2>2 DEF JoinWorkers, StopInv, Alive
        <3> QED
            BY <1>0, <1>00, <1>01, <2>0, <2>2, <3>1, GotoMain, GotoHandler
            DEF JoinWorkers
    <2>3. CASE ~ResetUpstream(t) /\ ~JoinWorkers(t)
        BY <1>0, <1>00, <1>01, <1>2, <2>0, <2>3, GotoMain, GotoHandler
        DEF Stop, TestRunning, ClearRunning, StopSync, JoinSync, StopWorkers, StopWatch,
            JoinWatch, persistState, WriteState, CloseSocket, Return
    <2> QED
        BY <2>1, <2>2, <2>3
<1>3. CASE Log \/ EndLog \/ SecondSignal \/ SyncThread \/ WatcherThread \/ UNCHANGED vars
    BY <1>3 DEF Log, EndLog, SecondSignal, SyncThread, WatcherThread, SyncGoto,
       WatcherGoto, vars, UpstreamInv
<1>4. CASE Signal \/ HandlerLog
    BY <1>0, <1>00, <1>01, <1>4, GotoHandler DEF Signal, HandlerLog, StopParts
<1>5. ASSUME NEW w \in Workers, Worker(w)
      PROVE  UpstreamInv'
    <2>1. Used' => Used \/ upstream_sync = "live"
        BY <1>5 DEF TypeOK, Worker, TestWorkersRunning, Receive, HealClose, HealOpen,
           TestUpstream, UseUpstream, Send, WorkerGoto
    <2>2. UNCHANGED <<pc, upstream_sync, signalled>>
        BY <1>5 DEF Worker, TestWorkersRunning, Receive, HealClose, HealOpen,
           TestUpstream, UseUpstream, Send, WorkerGoto
    <2> QED
        BY <1>00, <1>01, <2>1, <2>2
<1> QED
    BY <1>1, <1>2, <1>3, <1>4, <1>5 DEF Next

LEMMA UpstreamInvariant == Spec => []UpstreamInv
<1>1. Init => UpstreamInv
    BY DEF Init, UpstreamInv
<1> QED
    BY <1>1, UpstreamStep, TypeCorrect, StopInvariant, PTL DEF Spec

\* A process that has ended takes no step.
LEMMA Ended == fate # "up" /\ [Next]_vars => UNCHANGED vars
BY DEF Next, Main, InitSocket, FailToStart, SpawnWorker, SetWorkersRunning,
   StartConfigWatcher, SetRunning, CreateUpstream, StartUpstream, EnterLoop, LeaveLoop,
   DestroyServer, Exit, Goto, Runs, Log, EndLog, Stop, TestRunning, ClearRunning,
   StopSync, JoinSync, ResetUpstream, StopWorkers, JoinWorkers, StopWatch, JoinWatch,
   persistState, WriteState, CloseSocket, Signal, HandlerLog, SecondSignal, Worker,
   TestWorkersRunning, Receive, HealClose, HealOpen, TestUpstream, UseUpstream, Send,
   WorkerGoto, SyncThread, SyncGoto, WatcherThread, WatcherGoto

\* Two steps end the process with "crashed": both dereference a manager that is gone.
LEMMA Crashes ==
    fate = "up" /\ [Next]_vars /\ fate' = "crashed"
        => \/ StartUpstream /\ upstream_sync # "live"
           \/ \E w \in Workers : UseUpstream(w) /\ upstream_sync # "live"
BY DEF Next, Main, InitSocket, FailToStart, SpawnWorker, SetWorkersRunning,
   StartConfigWatcher, SetRunning, CreateUpstream, StartUpstream, EnterLoop, LeaveLoop,
   DestroyServer, Exit, Log, EndLog, Stop, TestRunning, ClearRunning,
   StopSync, JoinSync, ResetUpstream, StopWorkers, JoinWorkers, StopWatch, JoinWatch,
   persistState, WriteState, CloseSocket, Signal, HandlerLog, SecondSignal, Worker,
   TestWorkersRunning, Receive, HealClose, HealOpen, TestUpstream, UseUpstream, Send,
   WorkerGoto, SyncThread, SyncGoto, WatcherThread, WatcherGoto, vars

\* The process crashes only while stop() waits for its workers with the upstream manager
\* already destroyed, or when the signal came between the manager's creation and start.
THEOREM CrashesExplained == Spec => []CrashCause
<1>1. Init => CrashCause
    BY DEF Init, CrashCause
<1>2. TypeOK /\ UpstreamInv /\ CrashCause /\ [Next]_vars => CrashCause'
    <2> SUFFICES ASSUME TypeOK, UpstreamInv, CrashCause, [Next]_vars, fate' = "crashed"
                 PROVE  CrashCause'
        BY DEF CrashCause
    <2>0. pc \in [main : MainPCs, handler : HandlerPCs] /\ upstream_sync \in {"null", "live"}
        BY DEF TypeOK
    <2>1. CASE fate # "up"
        BY <2>1, Ended DEF vars, CrashCause, signalVars
    <2>2. CASE StartUpstream /\ upstream_sync # "live"
        BY <2>0, <2>2, GotoMain DEF StartUpstream, UpstreamInv, CrashCause, signalVars
    <2>3. ASSUME NEW w \in Workers, UseUpstream(w), upstream_sync # "live"
          PROVE  CrashCause'
        BY <2>0, <2>3 DEF UseUpstream, WorkerGoto, UpstreamInv, CrashCause
    <2> QED
        BY <2>1, <2>2, <2>3, Crashes
<1> QED
    BY <1>1, <1>2, TypeCorrect, UpstreamInvariant, PTL DEF Spec
-----------------------------------------------------------------------------
\* persistState alone leaves the file cut, at the place "write"; the caller that is
\* there writes it before it goes on, and no step but SecondSignal ends the process
\* meanwhile: the workers that could crash it have been joined.
LEMMA CutStep ==
    ASSUME TypeOK, StopInv, UpstreamInv, [Next]_vars,
           state_file = "cut" => fate \in {"up", "forced"} /\ \E t \in Caller : pc[t] = "write"
    PROVE  state_file' = "cut"
               => fate' \in {"up", "forced"} /\ \E t \in Caller : pc'[t] = "write"
<1> DEFINE Writing(p) == p.main = "write" \/ p.handler = "write"
<1> SUFFICES ASSUME state_file' = "cut"
             PROVE  fate' \in {"up", "forced"} /\ Writing(pc')
    BY DEF Caller
<1>0. /\ pc \in [main : MainPCs, handler : HandlerPCs] /\ StopParts
      /\ upstream_sync \in {"null", "live"}
      /\ state_file = "cut" => fate \in {"up", "forced"} /\ Writing(pc)
    BY StopSplit DEF TypeOK, Caller
<1> HIDE DEF Writing
<1> USE DEF others, flags, socketVars, resources, signalVars
<1>1. ASSUME NEW t \in Caller, persistState(t)
      PROVE  fate' \in {"up", "forced"} /\ Writing(pc')
    <2>0. t = "main" \/ t = "handler"
        BY DEF Caller
    <2> QED
        BY <1>0, <1>1, <2>0, GotoMain, GotoHandler
        DEF persistState, Writing, StopParts, Stopping, StopPCs, Running
<1>2. ASSUME \A t \in Caller : ~persistState(t), fate = "up"
      PROVE  state_file = "cut" /\ Writing(pc)
    <2>1. state_file' = "cut" => state_file = "cut"
        BY <1>2 DEF Next, Main, InitSocket, FailToStart, SpawnWorker, SetWorkersRunning,
           StartConfigWatcher, SetRunning, CreateUpstream, StartUpstream, EnterLoop,
           LeaveLoop, DestroyServer, Exit, Log, EndLog, Stop, TestRunning,
           ClearRunning, StopSync, JoinSync, ResetUpstream, StopWorkers, JoinWorkers,
           StopWatch, JoinWatch, WriteState, CloseSocket, Signal, HandlerLog,
           SecondSignal, Worker, TestWorkersRunning, Receive, HealClose, HealOpen,
           TestUpstream, UseUpstream, Send, WorkerGoto, SyncThread, SyncGoto,
           WatcherThread, WatcherGoto, vars
    <2> QED
        BY <1>0, <2>1
<1>3. CASE fate # "up"
    <2>1. UNCHANGED vars
        BY <1>3, Ended
    <2> QED
        BY <1>0, <2>1 DEF vars, Writing
<1>4. Writing(pc) => WorkersGone
    BY <1>0 DEF Writing, StopParts, Reached
<1>5. ASSUME fate = "up", state_file = "cut", Writing(pc)
      PROVE  fate' \in {"up", "forced"} /\ Writing(pc')
    <2>1. CASE Main
        BY <1>0, <1>5, <2>1, GotoMain
        DEF Writing, Main, InitSocket, FailToStart, SpawnWorker, SetWorkersRunning,
            StartConfigWatcher, SetRunning, CreateUpstream, StartUpstream, EnterLoop,
            LeaveLoop, DestroyServer, Exit
    <2>2. ASSUME NEW t \in Caller, Stop(t)
          PROVE  fate' \in {"up", "forced"} /\ Writing(pc')
        <3>0. t = "main" \/ t = "handler"
            BY DEF Caller
        <3> QED
            BY <1>0, <1>5, <2>2, <3>0, GotoMain, GotoHandler
            DEF Writing, Stop, TestRunning, ClearRunning, StopSync, JoinSync,
                ResetUpstream, StopWorkers, JoinWorkers, StopWatch, JoinWatch,
                persistState, WriteState, CloseSocket
    <2>3. CASE Log \/ EndLog \/ SyncThread \/ WatcherThread \/ UNCHANGED vars
        BY <1>5, <2>3 DEF Writing, Log, EndLog, SyncThread, SyncGoto, WatcherThread,
           WatcherGoto, vars
    <2>4. CASE Signal \/ HandlerLog \/ SecondSignal
        BY <1>0, <1>5, <2>4, GotoHandler DEF Writing, Signal, HandlerLog, SecondSignal,
           StopParts
    <2>5. ASSUME NEW w \in Workers, Worker(w)
          PROVE  fate' \in {"up", "forced"} /\ Writing(pc')
        <3>1. worker[w] # "use"
            BY <1>4, <1>5 DEF WorkersGone, Alive
        <3> QED
            BY <1>5, <2>5, <3>1 DEF Writing, Worker, TestWorkersRunning, Receive,
               HealClose, HealOpen, TestUpstream, UseUpstream, Send, WorkerGoto
    <2> QED
        BY <2>1, <2>2, <2>3, <2>4, <2>5 DEF Next
<1> QED
    BY <1>1, <1>2, <1>3, <1>5

\* Only Exit ends the process with "exited".
LEMMA Exits == fate = "up" /\ [Next]_vars /\ fate' = "exited" => Exit
BY DEF Next, Main, InitSocket, FailToStart, SpawnWorker, SetWorkersRunning,
   StartConfigWatcher, SetRunning, CreateUpstream, StartUpstream, EnterLoop, LeaveLoop,
   DestroyServer, Exit, Log, EndLog, Stop, TestRunning, ClearRunning,
   StopSync, JoinSync, ResetUpstream, StopWorkers, JoinWorkers, StopWatch, JoinWatch,
   persistState, WriteState, CloseSocket, Signal, HandlerLog, SecondSignal, Worker,
   TestWorkersRunning, Receive, HealClose, HealOpen, TestUpstream, UseUpstream, Send,
   WorkerGoto, SyncThread, SyncGoto, WatcherThread, WatcherGoto, vars

\* A process that returns from main leaves no thread, no socket and no half-written state
\* file behind, wherever signals found it.
THEOREM ExitsClean == Spec => []CleanExit
<1>1. Init => CleanExit
    BY DEF Init, CleanExit
<1>2. TypeOK /\ StopInv /\ UpstreamInv /\ CleanExit /\ [Next]_vars => CleanExit'
    <2> SUFFICES ASSUME TypeOK, StopInv, UpstreamInv, CleanExit, [Next]_vars
                 PROVE  CleanExit'
        OBVIOUS
    <2>1. state_file' = "cut"
            => fate' \in {"up", "forced"} /\ \E t \in Caller : pc'[t] = "write"
        BY CutStep DEF CleanExit
    <2>2. CASE fate # "up"
        BY <2>2, Ended DEF vars, others, flags, resources, socketVars, CleanExit, Alive
    <2>3. CASE fate = "up" /\ fate' = "exited"
        <3>1. Exit /\ pc.main = "joinlast" /\ Stopped
            BY <2>3, Exits, StopSplit, GotoMain DEF Exit, StopParts, TypeOK
        <3> QED
            BY <2>1, <2>3, <3>1 DEF Exit, CleanExit, Stopped, WorkersGone, WatcherGone, Alive,
               others, socketVars
    <2>4. CASE fate' # "exited"
        BY <2>1, <2>4 DEF CleanExit
    <2> QED
        BY <2>2, <2>3, <2>4
<1> QED
    BY <1>1, <1>2, TypeCorrect, StopInvariant, UpstreamInvariant, PTL DEF Spec
-----------------------------------------------------------------------------
(* The Windows service, for any number of controls and starts.  Target is  *)
(* the state the service ought to report at each place of ServiceMain and  *)
(* the handler; View says how far the report under way, the global         *)
(* structure and the manager have got towards it, as long as no two        *)
(* reports overlap.                                                        *)

States == {"STOPPED", "START_PENDING", "RUNNING", "STOP_PENDING"}

Statuses == [state : States, accepts_stop : BOOLEAN, checkpoint : Nat]

MainPlaces == {"none", "register", "unregistered", "pending", "event", "running",
               "spawn", "wait", "stopped", "returned"}

HandlerPlaces == {"none", "stop", "signal", "clear", "last"}

ServiceTypeOK ==
    /\ registered \in {"no", "yes", "marked"}
    /\ scm \in Statuses /\ status \in Statuses
    /\ dwCheckPoint \in Nat
    /\ report \in [Reporters -> {"idle", "state", "rest", "send"}]
    /\ arg \in [Reporters -> States]
    /\ service_pc \in [main : MainPlaces, handler : HandlerPlaces]
    /\ event \in {"none", "reset", "set"}
    /\ g_ServiceRunning \in BOOLEAN
    /\ service_worker \in {"none", "start", "test", "wait", "done"}
    /\ service_fate \in {"none", "up", "exited", "terminated", "given up"}
    /\ starts \in Nat /\ controls \in Nat
    /\ stopping \in BOOLEAN /\ overlapped \in BOOLEAN

-----------------------------------------------------------------------------
(* Types *)

\* Every report under way fills the structure with values of its fields' types.
LEMMA ReportTypes ==
    ASSUME ServiceTypeOK, NEW t \in Reporters, ReportSvcStatus(t)
    PROVE  ServiceTypeOK'
<1>1. ASSUME NEW from, NEW to \in {"rest", "send", "idle"}, ReportGoto(t, from, to),
             scm' \in Statuses, status' \in Statuses, dwCheckPoint' \in Nat
      PROVE  ServiceTypeOK'
    BY <1>1 DEF ReportGoto, ServiceTypeOK, scmVars, runVars
<1>2. CASE FillState(t)
    <2>1. arg[t] \in States
        BY DEF ServiceTypeOK
    <2>2. status' \in Statuses
        BY <1>2, <2>1 DEF FillState, ServiceTypeOK, Statuses
    <2> QED
        BY <1>1, <1>2, <2>2 DEF FillState, ServiceTypeOK
<1>3. CASE FillRest(t)
    <2>1. Accepts(arg[t]) \in BOOLEAN
        BY DEF Accepts
    <2>2. dwCheckPoint' \in Nat
        <3>1. dwCheckPoint' \in {dwCheckPoint, dwCheckPoint + 1}
            BY <1>3, Zenon DEF FillRest
        <3>2. dwCheckPoint \in Nat
            BY DEF ServiceTypeOK
        <3> QED
            BY <3>1, <3>2
    <2>3. PICK c \in Nat :
             status' = [status EXCEPT !.accepts_stop = Accepts(arg[t]),
                                     !.checkpoint = c]
        BY <1>3, Zenon DEF FillRest, ServiceTypeOK
    <2>4. status' \in Statuses
        BY <2>1, <2>3 DEF ServiceTypeOK, Statuses
    <2> QED
        BY <1>1, <1>3, <2>2, <2>4 DEF FillRest, ServiceTypeOK
<1>4. CASE SendStatus(t)
    BY <1>1, <1>4 DEF SendStatus, ServiceTypeOK
<1> QED
    BY <1>2, <1>3, <1>4 DEF ReportSvcStatus

\* A call of ReportSvcStatus, from and to places of its thread.
LEMMA CallTypes ==
    ASSUME ServiceTypeOK, NEW t \in Reporters, NEW from, NEW s \in States, NEW next,
           Call(t, from, s, next), UNCHANGED <<runVars, scmVars>>,
           next \in (IF t = "main" THEN MainPlaces ELSE HandlerPlaces)
    PROVE  ServiceTypeOK'
<1>1. overlapped' \in BOOLEAN
    BY DEF Call
<1>2. service_pc' \in [main : MainPlaces, handler : HandlerPlaces]
    BY DEF Call, ServiceTypeOK, Reporters
<1> QED
    BY <1>1, <1>2 DEF ServiceTypeOK, Call, statusVars, runVars,
       scmVars

LEMMA MainTypes ==
    ASSUME ServiceTypeOK, ServiceMain
    PROVE  ServiceTypeOK'
<1>1. "main" \in Reporters
      /\ {"START_PENDING", "STOPPED", "RUNNING"} \subseteq States
    BY DEF Reporters, States
<1>2. ASSUME NEW from, NEW to \in MainPlaces, MainGoto(from, to),
             event' \in {"none", "reset", "set"}, g_ServiceRunning' \in BOOLEAN,
             service_worker' \in {"none", "start", "test", "wait", "done"}
      PROVE  ServiceTypeOK'
    BY <1>2 DEF ServiceTypeOK, MainGoto, statusVars, reportVars,
       scmVars
<1>3. {"pending", "unregistered", "running", "wait", "stopped", "event", "returned",
       "spawn"} \subseteq MainPlaces
    BY DEF MainPlaces
<1>4. CASE Register
    BY <1>2, <1>3, <1>4 DEF Register, ServiceTypeOK, runVars
<1>5. CASE ReportPending
    BY <1>1, <1>3, <1>5, CallTypes DEF ReportPending
<1>6. CASE MakeEvent
    <2>1. CASE MainGoto("event", "running") /\ event' = "reset"
                 /\ UNCHANGED <<g_ServiceRunning, service_worker>>
        BY <1>2, <1>3, <2>1 DEF ServiceTypeOK
    <2>2. CASE Call("main", "event", "STOPPED", "returned")
               /\ UNCHANGED <<runVars, scmVars>>
        BY <1>1, <1>3, <2>2, CallTypes
    <2> QED
        BY <1>6, <2>1, <2>2 DEF MakeEvent
<1>7. CASE ReportRunning
    BY <1>1, <1>3, <1>7, CallTypes DEF ReportRunning
<1>8. CASE SpawnServiceWorker
    BY <1>2, <1>3, <1>8 DEF SpawnServiceWorker, ServiceTypeOK
<1>9. CASE AwaitStop
    BY <1>2, <1>3, <1>9 DEF AwaitStop, AfterWait, ServiceTypeOK
<1>10. CASE ReportStopped
    BY <1>1, <1>3, <1>10, CallTypes DEF ReportStopped
<1> QED
    BY <1>4, <1>5, <1>6, <1>7, <1>8, <1>9, <1>10 DEF ServiceMain

LEMMA HandlerTypes ==
    ASSUME ServiceTypeOK, ServiceCtrlHandler
    PROVE  ServiceTypeOK'
<1>1. "handler" \in Reporters /\ "handler" # "main" /\ "STOP_PENDING" \in States
      /\ Current \in States
    BY DEF Reporters, States, Current, ServiceTypeOK, Statuses
<1>2. ASSUME NEW from, NEW to \in HandlerPlaces, HandlerGoto(from, to),
             event' \in {"none", "reset", "set"}, g_ServiceRunning' \in BOOLEAN,
             service_worker' = service_worker
      PROVE  ServiceTypeOK'
    BY <1>2 DEF ServiceTypeOK, HandlerGoto, statusVars, reportVars,
       scmVars
<1>3. {"signal", "clear", "last", "none"} \subseteq HandlerPlaces
    BY DEF HandlerPlaces
<1>4. CASE ReportStopPending
    BY <1>1, <1>3, <1>4, CallTypes DEF ReportStopPending
<1>5. CASE SignalStop
    BY <1>2, <1>3, <1>5 DEF SignalStop, ServiceTypeOK
<1>6. CASE ClearServiceRunning
    BY <1>2, <1>3, <1>6 DEF ClearServiceRunning, ServiceTypeOK
<1>7. CASE ReportCurrent
    BY <1>1, <1>3, <1>7, CallTypes DEF ReportCurrent
<1> QED
    BY <1>4, <1>5, <1>6, <1>7 DEF ServiceCtrlHandler

\* Every step keeps the types.
LEMMA ServiceTypeStep ==
    ASSUME ServiceTypeOK, [ServiceNext]_serviceVars
    PROVE  ServiceTypeOK'
<1>1. CASE UNCHANGED serviceVars
    BY <1>1 DEF ServiceTypeOK, serviceVars, statusVars, reportVars,
       runVars, scmVars
<1>2. CASE InstallService \/ UninstallService
    BY <1>2 DEF ServiceTypeOK, InstallService, UninstallService,
       statusVars, reportVars, runVars
<1>3. CASE StartService
    <2>1. scm' \in Statuses /\ status' \in Statuses /\ dwCheckPoint' \in Nat
        BY <1>3 DEF StartService, Fresh, Statuses, States
    <2>2. starts' \in Nat /\ controls' \in Nat
        <3>1. starts \in Nat /\ starts' = starts + 1 /\ controls' = 0
            BY <1>3 DEF StartService, ServiceTypeOK
        <3> QED
            BY <3>1
    <2>3. arg' \in [Reporters -> States]
          /\ service_pc' \in [main : MainPlaces, handler : HandlerPlaces]
        BY <1>3 DEF StartService, States, MainPlaces, HandlerPlaces
    <2>4. report' \in [Reporters -> {"idle", "state", "rest", "send"}]
        BY <1>3 DEF StartService
    <2>5. /\ registered' = registered /\ event' = "none" /\ g_ServiceRunning' = FALSE
          /\ service_worker' = "none" /\ service_fate' = "up" /\ stopping' = FALSE
          /\ overlapped' = FALSE
        BY <1>3 DEF StartService
    <2> QED
        BY <2>1, <2>2, <2>3, <2>4, <2>5 DEF ServiceTypeOK
<1>4. CASE \E t \in Reporters : ReportSvcStatus(t)
    BY <1>4, ReportTypes
<1>5. CASE ServiceMain
    BY <1>5, MainTypes
<1>6. CASE ServiceCtrlHandler
    BY <1>6, HandlerTypes
<1>7. CASE ServiceWorkerThread
    BY <1>7 DEF ServiceTypeOK, ServiceWorkerThread, WorkerStart,
       WorkerTest, WorkerWait, ServiceWorkerGoto, AfterWait,
       statusVars, reportVars, scmVars
<1>8. ASSUME NEW stop \in BOOLEAN, Control(stop)
      PROVE  ServiceTypeOK'
    <2>1. service_pc' \in [main : MainPlaces, handler : HandlerPlaces]
        BY <1>8 DEF Control, ServiceTypeOK, HandlerPlaces
    <2>2. controls' \in Nat /\ stopping' \in BOOLEAN
        BY <1>8 DEF Control, ServiceTypeOK
    <2> QED
        BY <1>8, <2>1, <2>2 DEF Control, ServiceTypeOK, statusVars,
           reportVars, runVars
<1>9. CASE ServiceExit \/ GiveUp
    <2>1. PICK f \in {"exited", "terminated", "given up"} : End(f)
        BY <1>9 DEF ServiceExit, GiveUp
    <2>2. scm' \in Statuses
        BY <2>1 DEF End, Fresh, Statuses, States
    <2> QED
        BY <2>1, <2>2 DEF ServiceTypeOK, End, reportVars, runVars
<1> QED
    BY <1>1, <1>2, <1>3, <1>4, <1>5, <1>6, <1>7, <1>8, <1>9 DEF ServiceNext

\* Every variable keeps its type: the structure that ReportSvcStatus fills, the threads'
\* places and the manager's counters.
THEOREM ServiceTypeCorrect == ServiceSpec => []ServiceTypeOK
<1>1. ASSUME ServiceInit
      PROVE  ServiceTypeOK
    <2>1. scm \in Statuses /\ status \in Statuses /\ dwCheckPoint \in Nat
        BY <1>1 DEF ServiceInit, Fresh, Statuses, States
    <2>2. arg \in [Reporters -> States]
          /\ service_pc \in [main : MainPlaces, handler : HandlerPlaces]
        BY <1>1 DEF ServiceInit, States, MainPlaces, HandlerPlaces
    <2>3. starts \in Nat /\ controls \in Nat
        BY <1>1 DEF ServiceInit
    <2> QED
        BY <1>1, <2>1, <2>2, <2>3 DEF ServiceInit, ServiceTypeOK
<1> QED
    BY <1>1, ServiceTypeStep, PTL DEF ServiceSpec

-----------------------------------------------------------------------------
(* The manager's view *)

\* The state the service ought to report.  A STOP changes it when the handler calls
\* ReportSvcStatus, not when the control arrives.
Target ==
    CASE service_pc.main \in {"event", "running"} -> "START_PENDING"
      [] service_pc.main \in {"spawn", "wait", "stopped"} ->
           IF stopping /\ service_pc.handler # "stop" THEN "STOP_PENDING" ELSE "RUNNING"
      [] OTHER -> "STOPPED"

\* One thread reports at a time,
OneReports == report.main = "idle" \/ report.handler = "idle"

\* what it reports is the target, as far as it has filled the structure,
Reported ==
    \A t \in Reporters :
        /\ report[t] # "idle" => arg[t] = Target
        /\ report[t] \in {"rest", "send"} => status.state = Target
        /\ report[t] = "send" => status.accepts_stop = Accepts(Target)

\* and between two reports the structure holds the target and the manager believes it;
\* it believes that the service starts from before ServiceMain's first report.
Settled ==
    Quiet =>
        /\ status.state = Target
        /\ scm.state = Target
             \/ (scm.state = "START_PENDING"
                   /\ service_pc.main \in {"register", "unregistered", "pending"})

\* ServiceMain never reports while the manager believes that the service runs, so no
\* STOP comes meanwhile.
NotSeenRunning == report.main # "idle" => scm.state # "RUNNING"

\* A service that is seen running can be stopped.
Stoppable == scm.state = "RUNNING" => scm.accepts_stop

\* The event is set by the STOP's handler, once that has reported.
Signalled ==
    /\ event = "set" <=> (stopping /\ service_pc.handler \notin {"stop", "signal"})
    /\ service_pc.main \in {"running", "spawn", "wait", "stopped"} => event # "none"

\* A STOP comes after ServiceMain has reported RUNNING, and until the event is set
\* ServiceMain neither reports nor gets beyond its wait.
StopSent ==
    /\ service_pc.main # "none"
    /\ service_pc.handler \in {"stop", "signal"} =>
           service_pc.main \in {"spawn", "wait"} /\ report.main = "idle" /\ stopping
    /\ service_pc.handler = "clear" => stopping
    /\ service_pc.main = "stopped" => event = "set"
    /\ service_pc.main \in {"register", "unregistered", "pending", "event", "running"} =>
           ~stopping
    /\ service_pc.main \in {"register", "unregistered"} =>
           service_pc.handler = "none" /\ Quiet

View ==
    /\ OneReports /\ Reported /\ Settled /\ NotSeenRunning /\ Stoppable
    /\ Signalled /\ StopSent

ViewInv == service_fate = "up" /\ ~overlapped => View

\* It holds of the process that the manager starts.
LEMMA StartView ==
    ASSUME StartService
    PROVE  View'
<1>1. /\ scm'.state = "START_PENDING" /\ status'.state = "STOPPED"
      /\ report'.main = "idle" /\ report'.handler = "idle"
      /\ \A t \in Reporters : report'[t] = "idle"
      /\ service_pc'.main = "register" /\ service_pc'.handler = "none"
      /\ event' = "none" /\ stopping' = FALSE
    BY DEF StartService, Fresh, Reporters
<1>2. Target' = "STOPPED"
    BY <1>1 DEF Target
<1> QED
    BY <1>1, <1>2 DEF View, OneReports, Reported, Settled, NotSeenRunning, Stoppable,
       Signalled, StopSent, Quiet

\* A step of ReportSvcStatus moves the structure, and then the manager, to the target.
LEMMA ReportView ==
    ASSUME ServiceTypeOK, View, NEW t \in Reporters, ReportSvcStatus(t)
    PROVE  View'
<1>0. PICK from \in {"state", "rest", "send"}, to \in {"rest", "send", "idle"} :
          ReportGoto(t, from, to)
    BY DEF ReportSvcStatus, FillState, FillRest, SendStatus
<1>1. /\ Target' = Target /\ arg' = arg /\ service_pc' = service_pc /\ event' = event
      /\ stopping' = stopping
      /\ \A u \in Reporters \ {t} : report[u] = "idle" /\ report'[u] = "idle"
      /\ report[t] # "idle"
    <2>1. /\ arg' = arg /\ service_pc' = service_pc /\ event' = event
          /\ stopping' = stopping
          /\ report[t] = from /\ report' = [report EXCEPT ![t] = to]
        BY <1>0 DEF ReportGoto, runVars, scmVars
    <2>2. Target' = Target
        BY <2>1 DEF Target
    <2>3. \A u \in Reporters \ {t} : report[u] = "idle"
        BY <2>1 DEF View, OneReports, Reporters
    <2> QED
        BY <2>1, <2>2, <2>3 DEF ServiceTypeOK
<1>2. CASE FillState(t)
    BY <1>1, <1>2 DEF FillState, ReportGoto, View, OneReports, Reported,
       Settled, NotSeenRunning, Stoppable, Signalled, StopSent, Quiet,
       ServiceTypeOK, Statuses, Reporters
<1>3. CASE FillRest(t)
    BY <1>1, <1>3 DEF FillRest, ReportGoto, View, OneReports, Reported,
       Settled, NotSeenRunning, Stoppable, Signalled, StopSent, Quiet,
       ServiceTypeOK, Statuses, Reporters
<1>4. CASE SendStatus(t)
    BY <1>1, <1>4 DEF SendStatus, ReportGoto, View, OneReports, Reported, Settled,
       NotSeenRunning, Stoppable, Signalled, StopSent, Quiet, ServiceTypeOK,
       Statuses, Reporters, Accepts
<1> QED
    BY <1>2, <1>3, <1>4 DEF ReportSvcStatus

\* Steps that leave all of that alone.
LEMMA FrameView ==
    ASSUME View, UNCHANGED <<report, arg, status, scm, service_pc, event, stopping>>
    PROVE  View'
BY DEF View, OneReports, Reported, Settled, NotSeenRunning, Stoppable, Signalled, StopSent,
   Quiet, Target

\* A call that overlaps no other starts to report the target of the place it returns to.
LEMMA CallView ==
    ASSUME ServiceTypeOK, View, NEW t \in Reporters, NEW from, NEW s, NEW next,
           Call(t, from, s, next), ~overlapped', UNCHANGED <<event, stopping>>,
           s = Target', StopSent', Signalled', t = "main" => scm.state # "RUNNING"
    PROVE  View'
<1>1. /\ report[t] = "idle" /\ report[Other(t)] = "idle"
      /\ report' = [report EXCEPT ![t] = "state"] /\ arg' = [arg EXCEPT ![t] = s]
      /\ scm' = scm /\ status' = status
    BY DEF Call, statusVars
<1>2. report'[t] = "state" /\ arg'[t] = s
      /\ \A u \in Reporters : u # t => report'[u] = "idle"
    BY <1>1 DEF ServiceTypeOK, Reporters, Other
<1>3. OneReports' /\ ~Quiet'
    BY <1>2 DEF OneReports, Quiet, Reporters
<1>4. Reported'
    BY <1>2 DEF Reported
<1>5. NotSeenRunning'
    BY <1>1, <1>2 DEF NotSeenRunning, Reporters, View
<1>6. Stoppable'
    BY <1>1 DEF View, Stoppable
<1> QED
    BY <1>3, <1>4, <1>5, <1>6 DEF View, Settled

\* A step between places that the structure does not show.
LEMMA GotoView ==
    ASSUME View, UNCHANGED <<report, arg, status, scm>>, Target' = Target,
           Signalled', StopSent',
           Quiet => scm.state = Target
                      \/ (scm.state = "START_PENDING"
                            /\ service_pc'.main \in {"register", "unregistered", "pending"})
    PROVE  View'
BY DEF View, OneReports, Reported, Settled, NotSeenRunning, Stoppable, Quiet

\* ServiceMain's steps.
LEMMA MainView ==
    ASSUME ServiceTypeOK, View, ServiceMain, ~overlapped'
    PROVE  View'
<1>1. "main" \in Reporters
      /\ service_pc \in [main : MainPlaces, handler : HandlerPlaces]
    BY DEF Reporters, ServiceTypeOK
<1>2. ASSUME NEW from, NEW s, NEW next, Call("main", from, s, next)
      PROVE  /\ service_pc.main = from /\ service_pc'.main = next
             /\ service_pc'.handler = service_pc.handler
             /\ report.main = "idle" /\ report.handler = "idle" /\ Quiet
    BY <1>1, <1>2 DEF Call, Other, Quiet, Reporters
<1>3. ASSUME NEW from, NEW to, MainGoto(from, to)
      PROVE  /\ service_pc.main = from /\ service_pc'.main = to
             /\ service_pc'.handler = service_pc.handler
             /\ report.main = "idle"
             /\ UNCHANGED <<report, arg, status, scm, stopping>>
    BY <1>1, <1>3 DEF MainGoto, statusVars, reportVars,
       scmVars
<1>4. Quiet => status.state = Target /\ (scm.state = Target
                  \/ (scm.state = "START_PENDING"
                        /\ service_pc.main \in {"register", "unregistered", "pending"}))
    BY DEF View, Settled
<1>5. CASE Register
    <2>1. PICK to \in {"pending", "unregistered"} : MainGoto("register", to)
        BY <1>5 DEF Register
    <2>2. event' = event
        BY <1>5 DEF Register, runVars
    <2>3. Target' = Target /\ Signalled' /\ StopSent'
        BY <1>3, <2>1, <2>2 DEF Target, View, Signalled, StopSent, Quiet
    <2> QED
        BY <1>3, <1>4, <2>1, <2>3, GotoView
<1>6. CASE ReportPending
    <2>1. Call("main", "pending", "START_PENDING", "event")
          /\ UNCHANGED <<event, stopping>>
        BY <1>6 DEF ReportPending, runVars, scmVars
    <2>2. /\ service_pc.main = "pending" /\ service_pc'.main = "event"
          /\ service_pc'.handler = service_pc.handler /\ Quiet
        BY <1>2, <2>1
    <2>3. Target' = "START_PENDING" /\ Signalled' /\ StopSent' /\ scm.state # "RUNNING"
        BY <1>4, <2>1, <2>2 DEF Target, View, Signalled, StopSent
    <2> QED
        BY <1>1, <2>1, <2>3, CallView
<1>7. CASE MakeEvent
    <2>1. CASE MainGoto("event", "running") /\ event' = "reset"
        <3>1. Target' = Target /\ Signalled' /\ StopSent'
            BY <1>3, <2>1 DEF Target, View, Signalled, StopSent, Quiet
        <3> QED
            BY <1>3, <1>4, <2>1, <3>1, GotoView
    <2>2. CASE Call("main", "event", "STOPPED", "returned")
               /\ UNCHANGED <<event, stopping>>
        <3>1. /\ service_pc.main = "event" /\ service_pc'.main = "returned"
              /\ service_pc'.handler = service_pc.handler /\ Quiet
            BY <1>2, <2>2
        <3>2. Target' = "STOPPED" /\ Signalled' /\ StopSent' /\ scm.state # "RUNNING"
            BY <1>4, <2>2, <3>1 DEF Target, View, Signalled, StopSent
        <3> QED
            BY <1>1, <2>2, <3>2, CallView
    <2> QED
        BY <1>7, <2>1, <2>2 DEF MakeEvent, runVars, scmVars
<1>8. CASE ReportRunning
    <2>1. Call("main", "running", "RUNNING", "spawn")
          /\ UNCHANGED <<event, stopping>>
        BY <1>8 DEF ReportRunning, runVars, scmVars
    <2>2. /\ service_pc.main = "running" /\ service_pc'.main = "spawn"
          /\ service_pc'.handler = service_pc.handler /\ Quiet
        BY <1>2, <2>1
    <2>3. Target' = "RUNNING" /\ Signalled' /\ StopSent' /\ scm.state # "RUNNING"
        BY <1>4, <2>1, <2>2 DEF Target, View, Signalled, StopSent
    <2> QED
        BY <1>1, <2>1, <2>3, CallView
<1>9. CASE SpawnServiceWorker
    <2>1. MainGoto("spawn", "wait") /\ event' = event
        BY <1>9 DEF SpawnServiceWorker
    <2>2. Target' = Target /\ Signalled' /\ StopSent'
        BY <1>3, <2>1 DEF Target, View, Signalled, StopSent, Quiet
    <2> QED
        BY <1>3, <1>4, <2>1, <2>2, GotoView
<1>10. CASE AwaitStop
    <2>1. MainGoto("wait", "stopped") /\ event = "set" /\ event' = "set"
        BY <1>10 DEF AwaitStop, AfterWait
    <2>2. stopping /\ service_pc.handler \notin {"stop", "signal"}
        BY <2>1 DEF View, Signalled
    <2>3. service_pc.main = "wait" /\ service_pc'.main = "stopped"
          /\ service_pc'.handler = service_pc.handler
          /\ stopping' = stopping
        BY <1>3, <2>1
    <2>4. Target' = Target /\ Signalled' /\ StopSent'
        BY <2>1, <2>2, <2>3 DEF Target, View, Signalled, StopSent
    <2> QED
        BY <1>3, <1>4, <2>1, <2>4, GotoView
<1>11. CASE ReportStopped
    <2>1. Call("main", "stopped", "STOPPED", "returned")
          /\ UNCHANGED <<event, stopping>>
        BY <1>11 DEF ReportStopped, runVars, scmVars
    <2>2. /\ service_pc.main = "stopped" /\ service_pc'.main = "returned"
          /\ service_pc'.handler = service_pc.handler /\ Quiet
        BY <1>2, <2>1
    <2>3. Target' = "STOPPED" /\ Signalled' /\ StopSent' /\ scm.state # "RUNNING"
        BY <1>4, <2>1, <2>2 DEF Target, View, Signalled, StopSent
    <2> QED
        BY <1>1, <2>1, <2>3, CallView
<1> QED
    BY <1>5, <1>6, <1>7, <1>8, <1>9, <1>10, <1>11 DEF ServiceMain

\* A control finds the structure settled if it is a STOP.
LEMMA ControlView ==
    ASSUME ServiceTypeOK, View, NEW stop \in BOOLEAN, Control(stop)
    PROVE  View'
<1>1. /\ service_pc \in [main : MainPlaces, handler : HandlerPlaces]
      /\ service_pc.main \notin {"none", "register", "unregistered"}
      /\ service_pc.handler = "none"
      /\ report.handler = "idle"
      /\ UNCHANGED <<report, arg, status, scm, event>>
    BY DEF Control, ServiceTypeOK, statusVars, reportVars,
       runVars
<1>2. CASE stop
    <2>1. scm.state = "RUNNING" /\ stopping' = TRUE
        BY <1>2 DEF Control, ServiceTypeOK
    <2>2. service_pc'.main = service_pc.main /\ service_pc'.handler = "stop"
        BY <1>1, <1>2 DEF Control
    <2>3. report.main = "idle" /\ Quiet
        BY <1>1, <2>1 DEF View, NotSeenRunning, Quiet, Reporters
    <2>4. Target = "RUNNING"
        BY <2>1, <2>3 DEF View, Settled
    <2>5. service_pc.main \in {"spawn", "wait"} /\ ~stopping
        BY <1>1, <2>4 DEF Target, View, StopSent, Signalled
    <2>6. Target' = Target /\ Signalled' /\ StopSent'
        BY <1>1, <2>1, <2>2, <2>3, <2>4, <2>5 DEF Target, View, StopSent, Signalled
    <2> QED
        BY <1>1, <2>1, <2>4, <2>6, GotoView
<1>3. CASE ~stop
    <2>1. stopping' = stopping
        BY <1>3 DEF Control, ServiceTypeOK
    <2>2. service_pc'.main = service_pc.main /\ service_pc'.handler = "last"
        BY <1>1, <1>3 DEF Control
    <2>3. Target' = Target /\ Signalled' /\ StopSent'
        BY <1>1, <2>1, <2>2 DEF Target, View, StopSent, Signalled
    <2> QED
        BY <1>1, <2>2, <2>3, GotoView DEF View, Settled
<1> QED
    BY <1>2, <1>3

\* The handler's steps.
LEMMA HandlerView ==
    ASSUME ServiceTypeOK, View, ServiceCtrlHandler, ~overlapped'
    PROVE  View'
<1>1. "handler" \in Reporters
      /\ service_pc \in [main : MainPlaces, handler : HandlerPlaces]
      /\ "handler" # "main"
    BY DEF Reporters, ServiceTypeOK
<1>2. ASSUME NEW from, NEW s, NEW next, Call("handler", from, s, next)
      PROVE  /\ service_pc.handler = from /\ service_pc'.handler = next
             /\ service_pc'.main = service_pc.main
             /\ report.main = "idle" /\ report.handler = "idle" /\ Quiet
    BY <1>1, <1>2 DEF Call, Other, Quiet, Reporters
<1>3. ASSUME NEW from, NEW to, HandlerGoto(from, to)
      PROVE  /\ service_pc.handler = from /\ service_pc'.handler = to
             /\ service_pc'.main = service_pc.main
             /\ UNCHANGED <<report, arg, status, scm, stopping>>
    BY <1>1, <1>3 DEF HandlerGoto, statusVars, reportVars,
       scmVars
<1>4. CASE ReportStopPending
    <2>1. Call("handler", "stop", "STOP_PENDING", "signal")
          /\ UNCHANGED <<event, stopping>>
        BY <1>4 DEF ReportStopPending, runVars, scmVars
    <2>2. service_pc.handler = "stop" /\ service_pc'.handler = "signal"
          /\ service_pc'.main = service_pc.main
        BY <1>2, <2>1
    <2>3. Target' = "STOP_PENDING" /\ Signalled'
        BY <2>1, <2>2 DEF Target, View, Signalled, StopSent
    <2>4. report'.main = "idle"
        BY <1>1, <1>2, <2>1 DEF Call, ServiceTypeOK, Reporters
    <2>5. StopSent'
        BY <2>1, <2>2, <2>4 DEF View, StopSent, Signalled
    <2> QED
        BY <1>1, <2>1, <2>3, <2>5, CallView
<1>5. CASE SignalStop
    <2>1. HandlerGoto("signal", "clear") /\ event' = "set"
        BY <1>5 DEF SignalStop
    <2>2. Target' = Target /\ Signalled' /\ StopSent'
        BY <1>3, <2>1 DEF Target, View, Signalled, StopSent, Quiet
    <2> QED
        BY <1>3, <2>1, <2>2, GotoView DEF View, Settled
<1>6. CASE ClearServiceRunning
    <2>1. HandlerGoto("clear", "last") /\ event' = event
        BY <1>6 DEF ClearServiceRunning
    <2>2. Target' = Target /\ Signalled' /\ StopSent'
        BY <1>3, <2>1 DEF Target, View, Signalled, StopSent, Quiet
    <2> QED
        BY <1>3, <2>1, <2>2, GotoView DEF View, Settled
<1>7. CASE ReportCurrent
    <2>1. Call("handler", "last", status.state, "none")
          /\ UNCHANGED <<event, stopping>>
        BY <1>7 DEF ReportCurrent, Current, runVars, scmVars
    <2>2. service_pc.handler = "last" /\ service_pc'.handler = "none"
          /\ service_pc'.main = service_pc.main /\ Quiet
        BY <1>2, <2>1
    <2>3. Target' = Target /\ Signalled' /\ status.state = Target
        BY <2>1, <2>2 DEF Target, View, Signalled, StopSent, Settled
    <2>4. StopSent'
        BY <2>1, <2>2 DEF View, StopSent
    <2> QED
        BY <1>1, <2>1, <2>3, <2>4, CallView
<1> QED
    BY <1>4, <1>5, <1>6, <1>7 DEF ServiceCtrlHandler

\* Every step keeps the view, or overlaps two reports, or ends the process.
LEMMA ViewStep ==
    ASSUME ServiceTypeOK, ViewInv, [ServiceNext]_serviceVars
    PROVE  ViewInv'
<1> SUFFICES ASSUME service_fate' = "up", ~overlapped'
             PROVE  View'
    BY DEF ViewInv
<1>1. CASE StartService
    BY <1>1, StartView
<1>2. ASSUME ~StartService
      PROVE  service_fate = "up" /\ ~overlapped
    <2>1. CASE UNCHANGED serviceVars \/ InstallService \/ UninstallService
        BY <2>1 DEF serviceVars, reportVars, InstallService,
           UninstallService
    <2>2. CASE \E t \in Reporters : ReportSvcStatus(t)
        BY <2>2 DEF ReportSvcStatus, FillState, FillRest,
           SendStatus, ReportGoto
    <2>3. CASE ServiceMain
        <3>1. \/ \E from, to : MainGoto(from, to)
              \/ \E from, s, next : Call("main", from, s, next)
            BY <2>3 DEF ServiceMain, Register, ReportPending,
               MakeEvent, ReportRunning, SpawnServiceWorker,
               AwaitStop, ReportStopped
        <3>2. service_fate = "up" /\ service_fate' = service_fate
            BY <3>1 DEF MainGoto, Call
        <3>3. ASSUME NEW from, NEW s, NEW next, Call("main", from, s, next)
              PROVE  ~overlapped
            BY <3>3, Zenon DEF Call
        <3> QED
            BY <3>1, <3>2, <3>3 DEF MainGoto, reportVars
    <2>4. CASE ServiceCtrlHandler
        <3>1. \/ \E from, to : HandlerGoto(from, to)
              \/ \E from, s, next : Call("handler", from, s, next)
            BY <2>4 DEF ServiceCtrlHandler, ReportStopPending,
               SignalStop, ClearServiceRunning, ReportCurrent
        <3>2. service_fate = "up" /\ service_fate' = service_fate
            BY <3>1 DEF HandlerGoto, Call
        <3>3. ASSUME NEW from, NEW s, NEW next, Call("handler", from, s, next)
              PROVE  ~overlapped
            BY <3>3, Zenon DEF Call
        <3> QED
            BY <3>1, <3>2, <3>3 DEF HandlerGoto, reportVars
    <2>5. CASE ServiceWorkerThread
        BY <2>5 DEF ServiceWorkerThread, WorkerStart, WorkerTest,
           WorkerWait, ServiceWorkerGoto, reportVars
    <2>6. CASE \E stop \in BOOLEAN : Control(stop)
        BY <2>6 DEF Control, reportVars
    <2>7. CASE ServiceExit \/ GiveUp
        BY <2>7 DEF ServiceExit, GiveUp, End
    <2> QED
        BY <1>2, <2>1, <2>2, <2>3, <2>4, <2>5, <2>6, <2>7 DEF ServiceNext
<1>3. ASSUME ~StartService
      PROVE  View
    BY <1>2, <1>3 DEF ViewInv
<1>4. CASE \/ UNCHANGED serviceVars \/ ServiceWorkerThread
           \/ InstallService \/ UninstallService
    <2>1. UNCHANGED <<report, arg, status, scm, service_pc, event, stopping>>
        BY <1>4 DEF serviceVars, statusVars, reportVars, runVars,
           scmVars, InstallService, UninstallService,
           ServiceWorkerThread, WorkerStart, WorkerTest,
           WorkerWait, ServiceWorkerGoto, AfterWait
    <2>2. CASE ~StartService
        BY <1>3, <2>1, <2>2, FrameView
    <2> QED
        BY <1>1, <2>2
<1>5. CASE \E t \in Reporters : ReportSvcStatus(t)
    BY <1>1, <1>3, <1>5, ReportView
<1>6. CASE ServiceMain
    BY <1>1, <1>3, <1>6, MainView
<1>7. CASE ServiceCtrlHandler
    BY <1>1, <1>3, <1>7, HandlerView
<1>8. CASE \E stop \in BOOLEAN : Control(stop)
    BY <1>1, <1>3, <1>8, ControlView
<1>9. CASE ServiceExit \/ GiveUp
    BY <1>9 DEF ServiceExit, GiveUp, End
<1> QED
    BY <1>1, <1>4, <1>5, <1>6, <1>7, <1>8, <1>9 DEF ServiceNext

\* Until two reports overlap, what the service control manager believes of a process that
\* is up and reports nothing is where it is.
THEOREM ViewIsAccurate == ServiceSpec => []ViewAccurate
<1>1. ServiceInit => ViewInv
    BY DEF ServiceInit, ViewInv
<1>2. ViewInv => ViewAccurate
    BY DEF ViewInv, View, ViewAccurate, Settled, Stoppable, Target
<1> QED
    BY <1>1, <1>2, ViewStep, ServiceTypeCorrect, PTL DEF ServiceSpec
=============================================================================
