--------------------------- MODULE WindowsService ---------------------------
(***************************************************************************)
(* The Windows service wrapper (deployment/windows/simple-ntpd-service.cpp):*)
(* ServiceMain, which runs on a thread of its own; ServiceCtrlHandler,     *)
(* which the dispatcher calls on the main thread; the worker thread; and   *)
(* the installation.  ServiceMain and the handler both call                *)
(* ReportSvcStatus, which fills the global g_ServiceStatus field by field, *)
(* without a lock, and hands it to the service control manager.            *)
(*                                                                         *)
(* The manager (SCM) is external: it starts the service, calls the handler *)
(* for one control at a time, sends STOP only to a running service that    *)
(* accepts it and INTERROGATE whenever the service is not stopped, and     *)
(* believes the last status it was given.  A daemon process is not started *)
(* yet: StartNtpDaemon and StopNtpDaemon only write a debug message.       *)
(***************************************************************************)
EXTENDS Naturals

CONSTANTS
    MaxControls,    \* bound: controls sent to one process
    MaxStarts       \* bound: starts of the service

ASSUME ServiceAssumption == MaxControls \in Nat /\ MaxStarts \in Nat

\* The threads that report.
Reporters == {"main", "handler"}

VARIABLES
    registered,         \* the service's entry: "no", "yes" or "marked" for deletion
    scm,                \* the status the SCM believes
    status,             \* g_ServiceStatus
    dwCheckPoint,       \* ReportSvcStatus' static counter
    report,             \* where each reporter is in ReportSvcStatus
    arg,                \* its dwCurrentState argument there
    service_pc,         \* where ServiceMain ("main") and the handler go on
    event,              \* g_ServiceStopEvent: "none", "reset" or "set"
    g_ServiceRunning,
    service_worker,     \* the worker thread
    service_fate,       \* the process: "none", "up" or how it ended
    starts, controls,   \* starts, and controls sent to the process
    \* History, for the properties only.
    stopping,           \* a STOP was sent to this process
    overlapped          \* two reports of this process overlapped

statusVars == <<scm, status, dwCheckPoint>>
reportVars == <<report, arg, overlapped>>
runVars == <<event, g_ServiceRunning, service_worker>>
scmVars == <<registered, starts, controls, stopping>>
serviceVars == <<statusVars, reportVars, service_pc, runVars, scmVars, service_fate>>

Fresh(s) == [state |-> s, accepts_stop |-> FALSE, checkpoint |-> 0]

ServiceInit ==
    /\ registered = "no"
    /\ scm = Fresh("STOPPED") /\ status = Fresh("STOPPED")
    /\ dwCheckPoint = 1
    /\ report = [t \in Reporters |-> "idle"]
    /\ arg = [t \in Reporters |-> "STOPPED"]
    /\ service_pc = [main |-> "none", handler |-> "none"]
    /\ event = "none" /\ g_ServiceRunning = FALSE /\ service_worker = "none"
    /\ service_fate = "none"
    /\ starts = 0 /\ controls = 0
    /\ stopping = FALSE /\ overlapped = FALSE

-----------------------------------------------------------------------------
(* ReportSvcStatus *)

Other(t) == IF t = "main" THEN "handler" ELSE "main"

\* t calls ReportSvcStatus(s, ...) and then goes on at next.
Call(t, from, s, next) ==
    /\ service_fate = "up" /\ service_pc[t] = from /\ report[t] = "idle"
    /\ service_pc' = [service_pc EXCEPT ![t] = next]
    /\ report' = [report EXCEPT ![t] = "state"]
    /\ arg' = [arg EXCEPT ![t] = s]
    /\ overlapped' = (overlapped \/ report[Other(t)] # "idle")
    /\ UNCHANGED <<statusVars, service_fate>>

ReportGoto(t, from, to) ==
    /\ service_fate = "up" /\ report[t] = from
    /\ report' = [report EXCEPT ![t] = to]
    /\ UNCHANGED <<arg, overlapped, service_pc, runVars, scmVars, service_fate>>

\* dwCurrentState, dwWin32ExitCode and dwWaitHint
FillState(t) ==
    /\ ReportGoto(t, "state", "rest")
    /\ status' = [status EXCEPT !.state = arg[t]]
    /\ UNCHANGED <<scm, dwCheckPoint>>

\* dwControlsAccepted
Accepts(s) == s # "START_PENDING"

\* dwControlsAccepted and dwCheckPoint, by the argument and not by the field.
FillRest(t) ==
    /\ ReportGoto(t, "rest", "send")
    /\ LET counts == arg[t] \notin {"RUNNING", "STOPPED"}
       IN  /\ status' = [status EXCEPT !.accepts_stop = Accepts(arg[t]),
                                       !.checkpoint = IF counts THEN dwCheckPoint ELSE 0]
           /\ dwCheckPoint' = IF counts THEN dwCheckPoint + 1 ELSE dwCheckPoint
    /\ UNCHANGED scm

\* SetServiceStatus: whatever the structure holds now.
SendStatus(t) ==
    /\ ReportGoto(t, "send", "idle")
    /\ scm' = status
    /\ UNCHANGED <<status, dwCheckPoint>>

ReportSvcStatus(t) == FillState(t) \/ FillRest(t) \/ SendStatus(t)

-----------------------------------------------------------------------------
(* ServiceMain *)

MainGoto(from, to) ==
    /\ service_fate = "up" /\ service_pc.main = from /\ report.main = "idle"
    /\ service_pc' = [service_pc EXCEPT !.main = to]
    /\ UNCHANGED <<statusVars, reportVars, scmVars, service_fate>>

\* RegisterServiceCtrlHandler; if it fails ServiceMain returns without a report, and
\* there is no handler to send a control to.
Register ==
    /\ MainGoto("register", "pending") \/ MainGoto("register", "unregistered")
    /\ UNCHANGED runVars

ReportPending ==
    /\ Call("main", "pending", "START_PENDING", "event")
    /\ UNCHANGED <<runVars, scmVars>>

\* CreateEvent, a manual-reset event; if it fails ServiceMain reports STOPPED and returns.
MakeEvent ==
    \/ /\ MainGoto("event", "running")
       /\ event' = "reset"
       /\ UNCHANGED <<g_ServiceRunning, service_worker>>
    \/ /\ Call("main", "event", "STOPPED", "returned")
       /\ UNCHANGED <<runVars, scmVars>>

ReportRunning ==
    /\ Call("main", "running", "RUNNING", "spawn")
    /\ UNCHANGED <<runVars, scmVars>>

\* StartNtpDaemon; g_ServiceThread = make_unique<thread>(ServiceWorkerThread)
SpawnServiceWorker ==
    /\ MainGoto("spawn", "wait")
    /\ service_worker' = "start"
    /\ UNCHANGED <<event, g_ServiceRunning>>

\* Mutant: the event is an auto-reset event, which lets one waiter through.
AfterWait_AutoReset == "reset"

\* What a wait that ended leaves of a manual-reset event.
AfterWait == "set"

\* WaitForSingleObject(INFINITE); StopNtpDaemon
AwaitStop ==
    /\ event = "set"
    /\ MainGoto("wait", "stopped")
    /\ event' = AfterWait
    /\ UNCHANGED <<g_ServiceRunning, service_worker>>

ReportStopped ==
    /\ Call("main", "stopped", "STOPPED", "returned")
    /\ UNCHANGED <<runVars, scmVars>>

ServiceMain ==
    \/ Register \/ ReportPending \/ MakeEvent \/ ReportRunning \/ SpawnServiceWorker
    \/ AwaitStop \/ ReportStopped

-----------------------------------------------------------------------------
(* ServiceCtrlHandler *)

\* The SCM sends a control; the handler is registered.
Control(stop) ==
    /\ service_fate = "up" /\ service_pc.main \notin {"none", "register", "unregistered"}
    /\ service_pc.handler = "none" /\ report.handler = "idle"
    /\ controls < MaxControls
    /\ IF stop THEN scm.state = "RUNNING" /\ scm.accepts_stop ELSE scm.state # "STOPPED"
    /\ controls' = controls + 1
    /\ stopping' = (stopping \/ stop)
    /\ service_pc' = [service_pc EXCEPT !.handler = IF stop THEN "stop" ELSE "last"]
    /\ UNCHANGED <<statusVars, reportVars, runVars, registered, starts, service_fate>>

ReportStopPending ==
    /\ Call("handler", "stop", "STOP_PENDING", "signal")
    /\ UNCHANGED <<runVars, scmVars>>

HandlerGoto(from, to) ==
    /\ service_fate = "up" /\ service_pc.handler = from /\ report.handler = "idle"
    /\ service_pc' = [service_pc EXCEPT !.handler = to]
    /\ UNCHANGED <<statusVars, reportVars, scmVars, service_fate>>

\* SetEvent(g_ServiceStopEvent)
SignalStop ==
    /\ HandlerGoto("signal", "clear")
    /\ event' = "set"
    /\ UNCHANGED <<g_ServiceRunning, service_worker>>

\* g_ServiceRunning = false
ClearServiceRunning ==
    /\ HandlerGoto("clear", "last")
    /\ g_ServiceRunning' = FALSE
    /\ UNCHANGED <<event, service_worker>>

\* Mutant: the handler ends by reporting that the service runs.
Current_Running == "RUNNING"

\* The argument of the handler's last report, read from the global structure.
Current == status.state

\* ReportSvcStatus(g_ServiceStatus.dwCurrentState, ...)
ReportCurrent ==
    /\ Call("handler", "last", Current, "none")
    /\ UNCHANGED <<runVars, scmVars>>

ServiceCtrlHandler == ReportStopPending \/ SignalStop \/ ClearServiceRunning \/ ReportCurrent

-----------------------------------------------------------------------------
(* ServiceWorkerThread *)

ServiceWorkerGoto(from, to) ==
    /\ service_fate = "up" /\ service_worker = from
    /\ service_worker' = to
    /\ UNCHANGED <<statusVars, reportVars, service_pc, scmVars, service_fate>>

\* g_ServiceRunning = true, perhaps after the handler cleared it.
WorkerStart ==
    /\ ServiceWorkerGoto("start", "test")
    /\ g_ServiceRunning' = TRUE
    /\ UNCHANGED event

\* while (g_ServiceRunning)
WorkerTest ==
    /\ ServiceWorkerGoto("test", IF g_ServiceRunning THEN "wait" ELSE "done")
    /\ UNCHANGED <<event, g_ServiceRunning>>

\* WaitForSingleObject(g_ServiceStopEvent, 1000): signalled, or a second has passed.
WorkerWait ==
    /\ \/ event = "set" /\ ServiceWorkerGoto("wait", "done") /\ event' = AfterWait
       \/ event # "set" /\ ServiceWorkerGoto("wait", "test") /\ UNCHANGED event
    /\ UNCHANGED g_ServiceRunning

ServiceWorkerThread == WorkerStart \/ WorkerTest \/ WorkerWait

-----------------------------------------------------------------------------
(* The process, the SCM and the administrator *)

\* InstallService: CreateService fails while there is an entry of the name.
InstallService ==
    /\ registered = "no"
    /\ registered' = "yes"
    /\ UNCHANGED <<statusVars, reportVars, service_pc, runVars, starts, controls, stopping,
                   service_fate>>

\* UninstallService: the handle is opened with the right DELETE only, so ControlService
\* refuses to stop the service (it asks for SERVICE_STOP) and DeleteService marks the
\* entry, which goes when the service has stopped.
UninstallService ==
    /\ registered = "yes"
    /\ registered' = IF scm.state = "STOPPED" THEN "no" ELSE "marked"
    /\ UNCHANGED <<statusVars, reportVars, service_pc, runVars, starts, controls, stopping,
                   service_fate>>

\* The SCM starts the process; _tmain calls StartServiceCtrlDispatcher, which
\* starts ServiceMain.
StartService ==
    /\ registered = "yes" /\ service_fate # "up" /\ starts < MaxStarts
    /\ starts' = starts + 1
    /\ service_fate' = "up"
    /\ scm' = Fresh("START_PENDING") /\ status' = Fresh("STOPPED")
    /\ dwCheckPoint' = 1
    /\ report' = [t \in Reporters |-> "idle"]
    /\ arg' = [t \in Reporters |-> "STOPPED"]
    /\ service_pc' = [main |-> "register", handler |-> "none"]
    /\ event' = "none" /\ g_ServiceRunning' = FALSE /\ service_worker' = "none"
    /\ controls' = 0 /\ stopping' = FALSE /\ overlapped' = FALSE
    /\ UNCHANGED registered

\* The process is gone: the SCM knows, and deletes a marked entry.
End(f) ==
    /\ service_fate' = f
    /\ scm' = Fresh("STOPPED")
    /\ registered' = IF registered = "marked" THEN "no" ELSE registered
    /\ UNCHANGED <<status, dwCheckPoint, reportVars, service_pc, runVars, starts, controls,
                   stopping>>

\* The dispatcher returns when the service has reported STOPPED and no handler runs;
\* _tmain returns and g_ServiceThread is destroyed, which calls std::terminate if
\* the thread was ever created, since nobody joins it.
ServiceExit ==
    /\ service_fate = "up" /\ scm.state = "STOPPED"
    /\ service_pc.handler = "none" /\ \A t \in Reporters : report[t] = "idle"
    /\ End(IF service_worker = "none" THEN "exited" ELSE "terminated")

\* ServiceMain returned without ever reporting: the SCM gives up on the process.
GiveUp ==
    /\ service_fate = "up" /\ service_pc.main = "unregistered"
    /\ End("given up")

ServiceNext ==
    \/ InstallService \/ UninstallService \/ StartService
    \/ \E t \in Reporters : ReportSvcStatus(t)
    \/ ServiceMain \/ ServiceCtrlHandler \/ ServiceWorkerThread
    \/ \E stop \in BOOLEAN : Control(stop)
    \/ ServiceExit \/ GiveUp

\* Threads that can run are scheduled and waits with a timeout end; nobody has to
\* start the service or to send it a control.
ServiceFairness ==
    /\ \A t \in Reporters : WF_serviceVars(ReportSvcStatus(t))
    /\ WF_serviceVars(ServiceMain) /\ WF_serviceVars(ServiceCtrlHandler)
    /\ WF_serviceVars(ServiceWorkerThread)
    /\ WF_serviceVars(ServiceExit) /\ WF_serviceVars(GiveUp)

ServiceSpec == ServiceInit /\ [][ServiceNext]_serviceVars /\ ServiceFairness
-----------------------------------------------------------------------------
Quiet == \A t \in Reporters : report[t] = "idle"

\* As long as no two reports overlap, what the SCM believes is where the service is,
\* whatever controls arrive and however ServiceMain and the handler take turns:
\* running between its start and the stop, stopped at the end, and it can be
\* stopped exactly while it runs.
ViewAccurate ==
    service_fate = "up" /\ Quiet /\ ~overlapped =>
        /\ service_pc.main \in {"event", "running"} => scm.state = "START_PENDING"
        /\ service_pc.main \in {"spawn", "wait", "stopped"} =>
              IF stopping /\ service_pc.handler # "stop" THEN scm.state = "STOP_PENDING"
              ELSE scm.state = "RUNNING" /\ scm.accepts_stop
        /\ service_pc.main = "returned" => scm.state = "STOPPED"

\* A STOP control ends ServiceMain and the worker, also one that comes before the
\* worker has started and sets g_ServiceRunning again; and the process ends, unless
\* the handler's last report overlapped ServiceMain's and hid that it stopped.
StopTakesEffect ==
    /\ stopping ~> \/ service_fate # "up"
                   \/ service_pc.main = "returned" /\ service_worker = "done"
    /\ stopping ~> (service_fate # "up" \/ overlapped)
=============================================================================
