----------------------------- MODULE Lifecycle -----------------------------
(***************************************************************************)
(* The life of the daemon: main() and its signal handler                   *)
(* (main/production.cpp), NtpServer::start and stop, the worker threads    *)
(* and the configuration watcher (core/server.cpp), and the thread of the  *)
(* upstream manager (core/upstream_sync.cpp).                              *)
(*                                                                         *)
(* A signal handler runs on the main thread, which stands still meanwhile; *)
(* it calls Logger::info and NtpServer::stop, so it can meet main inside   *)
(* start(), inside stop(), or inside a log call that holds the logger's    *)
(* mutex.  A second signal ends the process with exit(1).                  *)
(*                                                                         *)
(* What a worker does with a datagram is in Admission and Response,        *)
(* reloads are in ConfigReload.  A worker that replaces a failed socket    *)
(* does it in two steps here, so that stop() can come in between; how      *)
(* several workers get in each other's way there is in SelfHealing.        *)
(***************************************************************************)
EXTENDS Integers, FiniteSets

CONSTANTS
    Workers,        \* the worker threads start() creates
    HasUpstreams,   \* config_->upstream_servers is not empty
    HasConfigFile,  \* a configuration file was loaded, so it is watched
    RestartLimit,   \* config_->service_restart_limit, 0 without enable_self_healing
    MaxSignals      \* bound: termination signals the process is sent

ASSUME LifecycleAssumption ==
    /\ Workers # {}
    /\ HasUpstreams \in BOOLEAN
    /\ HasConfigFile \in BOOLEAN
    /\ RestartLimit \in Nat /\ MaxSignals \in Nat

VARIABLES
    pc,                     \* of main() and of the signal handler on top of it
    worker, sync, watcher,  \* the states of the other threads
    worker_threads,         \* worker_threads_: started and not joined
    running,                \* running_
    workers_running,        \* workers_running_
    config_watch_running,   \* config_watch_running_
    sync_running,           \* UpstreamSyncManager::running_
    upstream_sync,          \* upstream_sync_: "null" or "live"
    server_socket,          \* server_socket_: "invalid" or "bound"
    restart_count,          \* restart_count_
    state_file,             \* config_->state_file: "old", "cut" (truncated) or "whole"
    logger_mutex,           \* main holds the logger's mutex
    g_shutdown_requested,
    signals,                \* signals delivered
    fate,                   \* "up", or how the process ended
    signalled               \* history: where main was at the first signal

others == <<worker, sync, watcher, worker_threads>>
flags == <<running, workers_running, config_watch_running, sync_running>>
socketVars == <<server_socket, restart_count>>
resources == <<upstream_sync, socketVars, logger_mutex, state_file>>
signalVars == <<g_shutdown_requested, signals, signalled>>
vars == <<pc, others, flags, resources, signalVars, fate>>

StartPCs == {"init", "spawn", "flag", "watch", "running", "upstream", "syncstart",
             "started"}
StopPCs == {"stop", "clear", "stopsync", "joinsync", "reset", "stopworkers",
            "joinworkers", "stopwatch", "joinwatch", "persist", "write", "close"}
MainPCs == StartPCs \cup StopPCs \cup {"loop", "destroy", "joinlast", "returned"}
HandlerPCs == StopPCs \cup {"none", "log"}

Init ==
    /\ pc = [main |-> "init", handler |-> "none"]
    /\ worker = [w \in Workers |-> "none"]
    /\ sync = "none" /\ watcher = "none"
    /\ worker_threads = {}
    /\ running = FALSE /\ workers_running = FALSE
    /\ config_watch_running = FALSE /\ sync_running = FALSE
    /\ upstream_sync = "null"
    /\ server_socket = "invalid" /\ restart_count = 0
    /\ logger_mutex = FALSE /\ state_file = "old"
    /\ g_shutdown_requested = FALSE /\ signals = 0 /\ signalled = "none"
    /\ fate = "up"

\* The process is up and t can run: main waits for its handler to return.
Runs(t) ==
    /\ fate = "up"
    /\ t = "main" => pc.handler = "none" /\ ~logger_mutex

Goto(t, from, to) ==
    /\ Runs(t)
    /\ pc[t] = from
    /\ pc' = [pc EXCEPT ![t] = to]

-----------------------------------------------------------------------------
(* main() and start() *)

\* initializeSocket and bindSocket
InitSocket ==
    /\ Goto("main", "init", "spawn")
    /\ server_socket' = "bound"
    /\ UNCHANGED <<others, flags, upstream_sync, restart_count, logger_mutex, state_file,
                   signalVars, fate>>

\* start() returns false (the socket, or the TLS files) and main returns 1.
FailToStart ==
    /\ Goto("main", "init", "returned")
    /\ fate' = "failed"
    /\ UNCHANGED <<others, flags, resources, signalVars>>

\* startWorkerThreads: one emplace_back of a thread.
SpawnWorker(w) ==
    /\ w \notin worker_threads
    /\ worker' = [worker EXCEPT ![w] = "test"]
    /\ worker_threads' = worker_threads \cup {w}
    /\ Goto("main", "spawn", IF worker_threads' = Workers THEN "flag" ELSE "spawn")
    /\ UNCHANGED <<sync, watcher, flags, resources, signalVars, fate>>

\* startWorkerThreads: workers_running_ = true, after the threads exist.
SetWorkersRunning ==
    /\ Goto("main", "flag", "watch")
    /\ workers_running' = TRUE
    /\ UNCHANGED <<others, running, config_watch_running, sync_running, resources,
                   signalVars, fate>>

\* startConfigWatcher
StartConfigWatcher ==
    /\ Goto("main", "watch", "running")
    /\ config_watch_running' = HasConfigFile
    /\ watcher' = IF HasConfigFile THEN "test" ELSE "none"
    /\ UNCHANGED <<worker, sync, worker_threads, running, workers_running,
                   sync_running, resources, signalVars, fate>>

\* running_ = true, loadState
SetRunning ==
    /\ Goto("main", "running", IF HasUpstreams THEN "upstream" ELSE "started")
    /\ running' = TRUE
    /\ UNCHANGED <<others, workers_running, config_watch_running, sync_running,
                   resources, signalVars, fate>>

\* upstream_sync_ = make_shared<UpstreamSyncManager>
CreateUpstream ==
    /\ Goto("main", "upstream", "syncstart")
    /\ upstream_sync' = "live"
    /\ UNCHANGED <<others, flags, socketVars, logger_mutex, state_file, signalVars, fate>>

\* upstream_sync_->start(); a handler that ran stop() in between reset the
\* pointer, and main dereferences null.
StartUpstream ==
    /\ Goto("main", "syncstart", "started")
    /\ IF upstream_sync = "live"
       THEN sync_running' = TRUE /\ sync' = "sync" /\ UNCHANGED fate
       ELSE fate' = "crashed" /\ UNCHANGED <<sync_running, sync>>
    /\ UNCHANGED <<worker, watcher, worker_threads, running, workers_running,
                   config_watch_running, resources, signalVars>>

\* start() has returned true and main is done logging it: it enters its loop, or
\* answers a one-shot command such as status and calls stop() at once.
EnterLoop ==
    /\ Goto("main", "started", "loop") \/ Goto("main", "started", "stop")
    /\ UNCHANGED <<others, flags, resources, signalVars, fate>>

\* main's loop ends and it calls stop().
LeaveLoop ==
    /\ ~running \/ g_shutdown_requested
    /\ Goto("main", "loop", "stop")
    /\ UNCHANGED <<others, flags, resources, signalVars, fate>>

\* main logs on its way, under the logger's mutex; it sleeps silently in its loop.
Log ==
    /\ Runs("main") /\ pc.main \in StartPCs \cup StopPCs
    /\ logger_mutex' = TRUE
    /\ UNCHANGED <<pc, others, flags, upstream_sync, socketVars, state_file, signalVars, fate>>

EndLog ==
    /\ fate = "up" /\ logger_mutex /\ pc.handler = "none"
    /\ logger_mutex' = FALSE
    /\ UNCHANGED <<pc, others, flags, upstream_sync, socketVars, state_file, signalVars, fate>>

\* After main, ~NtpServer: its stop() finds running_ false; the last reference to
\* the upstream manager goes, and ~UpstreamSyncManager stops its thread ...
DestroyServer ==
    /\ Goto("main", "destroy", "joinlast")
    /\ sync_running' = FALSE
    /\ UNCHANGED <<others, running, workers_running, config_watch_running, resources,
                   signalVars, fate>>

\* ... and joins it.
Exit ==
    /\ Goto("main", "joinlast", "returned")
    /\ sync \in {"none", "done"}
    /\ upstream_sync' = "null"
    /\ fate' = "exited"
    /\ UNCHANGED <<others, flags, socketVars, logger_mutex, state_file, signalVars>>

Main ==
    \/ InitSocket \/ FailToStart
    \/ \E w \in Workers : SpawnWorker(w)
    \/ SetWorkersRunning \/ StartConfigWatcher \/ SetRunning
    \/ CreateUpstream \/ StartUpstream
    \/ EnterLoop \/ LeaveLoop \/ DestroyServer \/ Exit

-----------------------------------------------------------------------------
(* stop(), called by main or by the handler *)

Caller == {"main", "handler"}

\* Where stop() returns to.
Return(t) == IF t = "main" THEN "destroy" ELSE "none"

\* if (!running_) return;
TestRunning(t) ==
    /\ Goto(t, "stop", IF running THEN "clear" ELSE Return(t))
    /\ UNCHANGED <<others, flags, resources, signalVars, fate>>

\* running_ = false
ClearRunning(t) ==
    /\ Goto(t, "clear", IF upstream_sync = "live" THEN "stopsync" ELSE "stopworkers")
    /\ running' = FALSE
    /\ UNCHANGED <<others, workers_running, config_watch_running, sync_running,
                   resources, signalVars, fate>>

\* UpstreamSyncManager::stop: running_.exchange(false)
StopSync(t) ==
    /\ Goto(t, "stopsync", IF sync_running THEN "joinsync" ELSE "reset")
    /\ sync_running' = FALSE
    /\ UNCHANGED <<others, running, workers_running, config_watch_running, resources,
                   signalVars, fate>>

\* UpstreamSyncManager::stop: sync_thread_.join()
JoinSync(t) ==
    /\ Goto(t, "joinsync", "reset")
    /\ sync = "done"
    /\ UNCHANGED <<others, flags, resources, signalVars, fate>>

\* upstream_sync_.reset(): the manager is destroyed.
ResetUpstream(t) ==
    /\ Goto(t, "reset", "stopworkers")
    /\ upstream_sync' = "null"
    /\ UNCHANGED <<others, flags, socketVars, logger_mutex, state_file, signalVars, fate>>

\* stopWorkerThreads: workers_running_ = false
StopWorkers(t) ==
    /\ Goto(t, "stopworkers", "joinworkers")
    /\ workers_running' = FALSE
    /\ UNCHANGED <<others, running, config_watch_running, sync_running, resources,
                   signalVars, fate>>

\* Mutant: the threads are dropped from the list without being joined.
JoinWorkers_Detached(t) ==
    /\ Goto(t, "joinworkers", "stopwatch")
    /\ worker_threads' = {}
    /\ UNCHANGED <<worker, sync, watcher, flags, resources, signalVars, fate>>

\* stopWorkerThreads: join them all, clear the list
JoinWorkers(t) ==
    /\ \A w \in worker_threads : worker[w] = "done"
    /\ Goto(t, "joinworkers", "stopwatch")
    /\ worker_threads' = {}
    /\ UNCHANGED <<worker, sync, watcher, flags, resources, signalVars, fate>>

\* Mutant: the watcher's flag is left set.
StopWatch_FlagKept(t) ==
    /\ Goto(t, "stopwatch", "joinwatch")
    /\ UNCHANGED <<others, flags, resources, signalVars, fate>>

\* stopConfigWatcher: config_watch_running_ = false
StopWatch(t) ==
    /\ Goto(t, "stopwatch", "joinwatch")
    /\ config_watch_running' = FALSE
    /\ UNCHANGED <<others, running, workers_running, sync_running, resources,
                   signalVars, fate>>

\* stopConfigWatcher: join; then cleanupConnections
JoinWatch(t) ==
    /\ watcher \in {"none", "done"}
    /\ Goto(t, "joinwatch", "persist")
    /\ UNCHANGED <<others, flags, resources, signalVars, fate>>

\* persistState opens the file, which truncates it; without enable_state_persistence,
\* or if the file cannot be opened, it returns.
persistState(t) ==
    /\ \/ Goto(t, "persist", "write") /\ state_file' = "cut"
       \/ Goto(t, "persist", "close") /\ UNCHANGED state_file
    /\ UNCHANGED <<others, flags, upstream_sync, socketVars, logger_mutex, signalVars, fate>>

\* persistState writes the counters, and the end of the block flushes and closes the
\* stream; then backupConfig, whose copy of the configuration is not modelled.
WriteState(t) ==
    /\ Goto(t, "write", "close")
    /\ state_file' = "whole"
    /\ UNCHANGED <<others, flags, upstream_sync, socketVars, logger_mutex, signalVars, fate>>

\* Mutant: stop() returns without closing the socket.
CloseSocket_Forgotten(t) ==
    /\ Goto(t, "close", Return(t))
    /\ UNCHANGED <<others, flags, resources, signalVars, fate>>

\* closeSocket
CloseSocket(t) ==
    /\ Goto(t, "close", Return(t))
    /\ server_socket' = "invalid"
    /\ UNCHANGED <<others, flags, upstream_sync, restart_count, logger_mutex, state_file,
                   signalVars, fate>>

Stop(t) ==
    \/ TestRunning(t) \/ ClearRunning(t)
    \/ StopSync(t) \/ JoinSync(t) \/ ResetUpstream(t)
    \/ StopWorkers(t) \/ JoinWorkers(t)
    \/ StopWatch(t) \/ JoinWatch(t)
    \/ persistState(t) \/ WriteState(t) \/ CloseSocket(t)

-----------------------------------------------------------------------------
(* Signals *)

\* The first SIGINT, SIGTERM or SIGQUIT: the handler starts on the main thread.
Signal ==
    /\ fate = "up" /\ pc.main # "returned"
    /\ signals < MaxSignals /\ ~g_shutdown_requested
    /\ signals' = signals + 1
    /\ g_shutdown_requested' = TRUE
    /\ signalled' = pc.main
    /\ pc' = [pc EXCEPT !.handler = "log"]
    /\ UNCHANGED <<others, flags, resources, fate>>

\* The handler's Logger::info; it never gets the mutex if main holds it.
HandlerLog ==
    /\ Goto("handler", "log", "stop")
    /\ ~logger_mutex
    /\ UNCHANGED <<others, flags, resources, signalVars, fate>>

\* A later signal: exit(1), whatever the threads are doing.
SecondSignal ==
    /\ fate = "up" /\ g_shutdown_requested
    /\ signals < MaxSignals
    /\ signals' = signals + 1
    /\ fate' = "forced"
    /\ UNCHANGED <<pc, others, flags, resources, g_shutdown_requested, signalled>>

-----------------------------------------------------------------------------
(* The other threads *)

WorkerGoto(w, from, to) ==
    /\ fate = "up"
    /\ worker[w] = from
    /\ worker' = [worker EXCEPT ![w] = to]
    /\ UNCHANGED <<pc, sync, watcher, worker_threads, flags, upstream_sync, logger_mutex,
                   state_file, signalVars>>

\* workerThreadFunction: while (workers_running_)
TestWorkersRunning(w) ==
    /\ WorkerGoto(w, "test", IF workers_running THEN "recv" ELSE "done")
    /\ UNCHANGED <<socketVars, fate>>

\* processIncomingPackets: a datagram, or none, or an error that may not be healed
\* any more (or workers_running_ is false), and the worker cleans up, sleeps and
\* tests again.
Receive(w) ==
    /\ \/ workers_running /\ server_socket = "bound" /\ WorkerGoto(w, "recv", "packet")
       \/ WorkerGoto(w, "recv", "test")
    /\ UNCHANGED <<socketVars, fate>>

\* processIncomingPackets: recvfrom fails, and the worker closes the socket (the test of
\* the limit and the count are one step here) ...
HealClose(w) ==
    /\ workers_running /\ restart_count < RestartLimit
    /\ WorkerGoto(w, "recv", "heal")
    /\ restart_count' = restart_count + 1
    /\ server_socket' = "invalid"
    /\ UNCHANGED fate

\* ... and opens another one, or fails to and leaves the loop.
HealOpen(w) ==
    /\ \/ WorkerGoto(w, "heal", "recv") /\ server_socket' = "bound"
       \/ WorkerGoto(w, "heal", "test") /\ UNCHANGED server_socket
    /\ UNCHANGED <<restart_count, fate>>

\* processPacket: if (upstream_sync_ && ...)
TestUpstream(w) ==
    /\ WorkerGoto(w, "packet", IF upstream_sync = "live" THEN "use" ELSE "send")
    /\ UNCHANGED <<socketVars, fate>>

\* processPacket: upstream_sync_->isSynced(), ->effectiveStratum(),
\* ->clockOffsetUs(), through the member itself and not a copy of it.
UseUpstream(w) ==
    /\ WorkerGoto(w, "use", "send")
    /\ fate' = IF upstream_sync = "live" THEN fate ELSE "crashed"
    /\ UNCHANGED socketVars

\* processPacket: sendto(server_socket_, ...)
Send(w) ==
    /\ WorkerGoto(w, "send", "recv")
    /\ UNCHANGED <<socketVars, fate>>

Worker(w) ==
    \/ TestWorkersRunning(w) \/ Receive(w) \/ HealClose(w) \/ HealOpen(w)
    \/ TestUpstream(w) \/ UseUpstream(w) \/ Send(w)

SyncGoto(from, to) ==
    /\ fate = "up"
    /\ sync = from
    /\ sync' = to
    /\ UNCHANGED <<pc, worker, watcher, worker_threads, flags, resources, signalVars,
                   fate>>

\* syncLoop: syncOnce, whose queries time out; while (running_) sleep; test.
SyncThread ==
    \/ SyncGoto("sync", "test")
    \/ SyncGoto("test", IF sync_running THEN "sleep" ELSE "done")
    \/ SyncGoto("sleep", IF sync_running THEN "sync" ELSE "done")

WatcherGoto(from, to) ==
    /\ fate = "up"
    /\ watcher = from
    /\ watcher' = to
    /\ UNCHANGED <<pc, worker, sync, worker_threads, flags, resources, signalVars, fate>>

\* configWatcherLoop: while (config_watch_running_) sleep, then look at the file.
WatcherThread ==
    \/ WatcherGoto("test", IF config_watch_running THEN "poll" ELSE "done")
    \/ WatcherGoto("poll", "test")

-----------------------------------------------------------------------------
Next ==
    \/ Main \/ Log \/ EndLog \/ \E t \in Caller : Stop(t)
    \/ Signal \/ HandlerLog \/ SecondSignal
    \/ \E w \in Workers : Worker(w)
    \/ SyncThread \/ WatcherThread

\* The scheduler runs every thread that can run: sleeps end, queries time out,
\* and a log call returns.  main makes finitely many log calls between two of its
\* steps (strong fairness).  Nothing obliges anybody to send a signal.
Fairness ==
    /\ SF_vars(Main) /\ SF_vars(Stop("main")) /\ WF_vars(EndLog)
    /\ WF_vars(HandlerLog) /\ WF_vars(Stop("handler"))
    /\ \A w \in Workers : WF_vars(Worker(w))
    /\ WF_vars(SyncThread) /\ WF_vars(WatcherThread)

Spec == Init /\ [][Next]_vars

FairSpec == Spec /\ Fairness
-----------------------------------------------------------------------------
\* Types of the lifecycle's variables.
TypeOK ==
    /\ pc \in [main : MainPCs, handler : HandlerPCs]
    /\ worker \in [Workers -> {"none", "test", "recv", "heal", "packet", "use", "send",
                           "done"}]
    /\ sync \in {"none", "sync", "test", "sleep", "done"}
    /\ watcher \in {"none", "test", "poll", "done"}
    /\ worker_threads \subseteq Workers
    /\ running \in BOOLEAN /\ workers_running \in BOOLEAN
    /\ config_watch_running \in BOOLEAN /\ sync_running \in BOOLEAN
    /\ upstream_sync \in {"null", "live"}
    /\ server_socket \in {"invalid", "bound"}
    /\ restart_count \in 0 .. RestartLimit
    /\ logger_mutex \in BOOLEAN
    /\ state_file \in {"old", "cut", "whole"}
    /\ g_shutdown_requested \in BOOLEAN
    /\ signals \in 0 .. MaxSignals
    /\ signalled \in MainPCs \cup {"none"}
    /\ fate \in {"up", "failed", "exited", "forced", "crashed"}

Alive(w) == worker[w] \notin {"none", "done"}

\* stop() closes the socket only when no worker can use it, or replace it, any more,
\* whoever calls stop() and wherever the signal finds main.
SocketClosedLast ==
    [][\A t \in Caller : pc[t] = "close" /\ pc'[t] # "close" => \A w \in Workers : ~Alive(w)]_vars

\* When the process ends by returning from main, every thread it started has
\* ended, the socket is closed and the upstream manager is gone, also when a
\* signal made stop() run in the middle of start(), or while a worker was
\* replacing the socket.  The state file is cut off then only if a second signal ended
\* the process while persistState was writing it.
CleanExit ==
    /\ state_file = "cut" => fate \in {"up", "forced"} /\ \E t \in Caller : pc[t] = "write"
    /\ fate = "exited" =>
        /\ \A w \in Workers : ~Alive(w)
        /\ worker_threads = {}
        /\ sync \in {"none", "done"}
        /\ watcher \in {"none", "done"}
        /\ server_socket = "invalid"
        /\ upstream_sync = "null"

\* A signal ends the process wherever it finds main and whatever the threads are
\* doing, with one exception: it came inside a log call of main, and the handler
\* waits for the mutex main holds.  A stop() that main calls by itself ends it too: no
\* join of stop() or of the destructors waits forever.
ShutdownUnlessLogging ==
    /\ g_shutdown_requested ~> (fate # "up" \/ (logger_mutex /\ pc.handler = "log"))
    /\ pc.main \in StopPCs ~> (fate # "up" \/ g_shutdown_requested)

\* The process crashes in two situations only: stop() has destroyed the upstream
\* manager and still waits for the workers, one of which was about to use it; or the
\* signal came between the creation of the manager and its start().
CrashCause ==
    fate = "crashed" =>
        \/ pc.main = "started" /\ signalled = "syncstart"
        \/ \E t \in Caller : pc[t] \in {"stopworkers", "joinworkers"}

\* What they rest on.  While stop() is past its test of running_, main is past
\* SetRunning, and what it has joined stays joined; once running_ is false again, or
\* main is past its own stop(), everything start() made but the upstream manager is gone.
\* Nobody runs stop() inside another stop() that is past ClearRunning.
Stopping == StopPCs \ {"stop"}
Running == {"upstream", "syncstart", "started", "loop", "stop", "clear"}
WorkersGone == worker_threads = {} /\ \A w \in Workers : ~Alive(w)
WatcherGone == watcher \in {"none", "done"}
Stopped == WorkersGone /\ WatcherGone /\ server_socket = "invalid"

StopInv ==
    /\ running => pc.main \in Running
    /\ pc.handler # "none" => g_shutdown_requested /\ signalled = pc.main
    /\ pc.handler \in Stopping => pc.main \in Running
    /\ \A w \in Workers : Alive(w) => w \in worker_threads
    /\ \A t \in Caller :
         /\ pc[t] \in Stopping \ {"clear"} => ~running
         /\ pc[t] \in {"stopwatch", "joinwatch", "persist", "write", "close"} => WorkersGone
         /\ pc[t] \in {"persist", "write", "close"} => WatcherGone
    /\ pc.main \in Running /\ ~running /\ pc.handler \notin Stopping => Stopped
    /\ pc.main \in {"destroy", "joinlast"} => Stopped

\* Where the upstream manager may be missing while somebody is about to use it.
UpstreamInv ==
    /\ pc.main = "syncstart" /\ upstream_sync = "null" => signalled = "syncstart"
    /\ upstream_sync = "null" /\ (\E w \in Workers : worker[w] = "use")
         => \E t \in Caller : pc[t] \in {"stopworkers", "joinworkers"}

\* What the UDP integration test expects after start(), that a request is
\* answered (tests/integration/test_ntp_udp.cpp:83): a server in its loop that
\* nobody stopped has a worker to receive it.
StartedServerHasWorker ==
    pc.main = "loop" /\ running => \E w \in Workers : Alive(w)
=============================================================================
