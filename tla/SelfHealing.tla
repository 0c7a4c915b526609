---------------------------- MODULE SelfHealing ----------------------------
(***************************************************************************)
(* Self-healing of the listening socket: the error branch of               *)
(* NtpServer::processIncomingPackets with closeSocket, initializeSocket    *)
(* and bindSocket (core/server.cpp).  Every worker may take it, nothing    *)
(* locks server_socket_, and the check of restart_count_ is apart from its *)
(* fetch_add, so each access of shared state is a step of its own.  The    *)
(* kernel's descriptor table is external: a closed descriptor may be       *)
(* handed out again.                                                       *)
(***************************************************************************)
EXTENDS Integers, FiniteSets

CONSTANTS
    Workers,                \* the worker threads
    Fds,                    \* descriptors the kernel hands out
    INVALID_SOCKET,         \* the value of server_socket_ that is none of them
    enable_self_healing,    \* config_->enable_self_healing
    service_restart_limit   \* config_->service_restart_limit

ASSUME HealingAssumption ==
    /\ IsFiniteSet(Workers) /\ Workers # {}
    /\ INVALID_SOCKET \notin Fds
    /\ Fds # {}
    /\ enable_self_healing \in BOOLEAN
    /\ service_restart_limit \in Nat

VARIABLES
    kernel,         \* descriptor -> "free", "open" (not bound) or "bound"
    server_socket,  \* server_socket_
    restart_count,  \* restart_count_, atomic
    pc,             \* each worker's place in the branch
    arg,            \* the value of server_socket_ a worker last loaded
    \* History, for the properties only.
    failed,         \* a call of socket() or bind() failed for its own reasons
    overlapped      \* two workers were replacing the socket at the same time

vars == <<kernel, server_socket, restart_count, pc, arg, failed, overlapped>>

Sockets == Fds \cup {INVALID_SOCKET}

PCs == {"recv", "recvfrom", "check", "add", "test", "close", "clear", "socket",
        "opened", "bind"}

\* Where a worker is replacing the socket.
Replacing == {"test", "close", "clear", "socket", "opened", "bind"}

\* As start() leaves it: one bound socket, every worker in its loop.
Init ==
    /\ \E fd \in Fds :
         /\ kernel = [f \in Fds |-> IF f = fd THEN "bound" ELSE "free"]
         /\ server_socket = fd
    /\ restart_count = 0
    /\ pc = [w \in Workers |-> "recv"]
    /\ arg = [w \in Workers |-> INVALID_SOCKET]
    /\ failed = FALSE /\ overlapped = FALSE

Overlaps(w, to) ==
    to \in Replacing /\ \E v \in Workers \ {w} : pc[v] \in Replacing

Move(w, from, to) ==
    /\ pc[w] = from
    /\ pc' = [pc EXCEPT ![w] = to]
    /\ overlapped' = (overlapped \/ Overlaps(w, to))

State(fd) == IF fd \in Fds THEN kernel[fd] ELSE "free"

\* server_socket_ is a plain int that other workers write: where the code names
\* it again, the build may use the value loaded before or load it again.
Reread(w) == {arg[w], server_socket}

\* The argument of recvfrom is loaded.
LoadSocket(w) ==
    /\ Move(w, "recv", "recvfrom")
    /\ arg' = [arg EXCEPT ![w] = server_socket]
    /\ UNCHANGED <<kernel, server_socket, restart_count, failed>>

\* recvfrom returns a datagram, or EAGAIN: the loop goes on, or is left and
\* entered again 10 ms later.  An open socket that is not bound gives EAGAIN.
RecvDone(w) ==
    /\ State(arg[w]) # "free"
    /\ Move(w, "recvfrom", "recv")
    /\ UNCHANGED <<kernel, server_socket, restart_count, arg, failed>>

\* recvfrom fails with another error: always on a descriptor that is not open,
\* and whenever the network stack says so on a bound one.
RecvError(w) ==
    /\ State(arg[w]) # "open"
    /\ Move(w, "recvfrom", "check")
    /\ UNCHANGED <<kernel, server_socket, restart_count, arg, failed>>

\* Mutant: a restart is allowed at the limit too.
MayRestart_AtLimit ==
    enable_self_healing /\ restart_count <= service_restart_limit

\* The condition of the error branch: restart_count_.load() < limit.
MayRestart == enable_self_healing /\ restart_count < service_restart_limit

\* If it does not hold the loop is left, and entered again 10 ms later.
CheckLimit(w) ==
    /\ Move(w, "check", IF MayRestart THEN "add" ELSE "recv")
    /\ UNCHANGED <<kernel, server_socket, restart_count, arg, failed>>

\* Mutant: the counter is run down instead of up.
CountRestart_Down(w) ==
    /\ Move(w, "add", "test")
    /\ restart_count' = restart_count - 1
    /\ UNCHANGED <<kernel, server_socket, arg, failed>>

\* Mutant: the restart is not counted.
CountRestart_Lost(w) ==
    /\ Move(w, "add", "test")
    /\ UNCHANGED <<kernel, server_socket, restart_count, arg, failed>>

\* restart_count_.fetch_add(1)
CountRestart(w) ==
    /\ Move(w, "add", "test")
    /\ restart_count' = restart_count + 1
    /\ UNCHANGED <<kernel, server_socket, arg, failed>>

\* closeSocket: if (server_socket_ != INVALID_SOCKET)
TestSocket(w) ==
    /\ Move(w, "test", IF server_socket # INVALID_SOCKET THEN "close" ELSE "socket")
    /\ arg' = [arg EXCEPT ![w] = server_socket]
    /\ UNCHANGED <<kernel, server_socket, restart_count, failed>>

\* Mutant: the old socket is left open.
CloseSocket_Kept(w) ==
    /\ Move(w, "close", "clear")
    /\ UNCHANGED <<kernel, server_socket, restart_count, arg, failed>>

\* closeSocket: close(server_socket_); closing a descriptor that is not open is
\* an error nobody looks at.
CloseSocket(w) ==
    /\ Move(w, "close", "clear")
    /\ \E fd \in Reread(w) :
         kernel' = [f \in Fds |-> IF f = fd THEN "free" ELSE kernel[f]]
    /\ UNCHANGED <<server_socket, restart_count, arg, failed>>

\* closeSocket: server_socket_ = INVALID_SOCKET
ClearSocket(w) ==
    /\ Move(w, "clear", "socket")
    /\ server_socket' = INVALID_SOCKET
    /\ UNCHANGED <<kernel, restart_count, arg, failed>>

\* initializeSocket: server_socket_ = socket(...)
OpenSocket(w) ==
    /\ Move(w, "socket", "opened")
    /\ \/ \E fd \in Fds :
            /\ kernel[fd] = "free"
            /\ kernel' = [kernel EXCEPT ![fd] = "open"]
            /\ server_socket' = fd
            /\ UNCHANGED failed
       \/ /\ server_socket' = INVALID_SOCKET
          /\ failed' = TRUE
          /\ UNCHANGED kernel
    /\ arg' = [arg EXCEPT ![w] = server_socket']
    /\ UNCHANGED restart_count

\* initializeSocket: the result is compared with INVALID_SOCKET, then options
\* are set on it, whose failure is only logged.
TestOpened(w) ==
    /\ \E fd \in Reread(w) :
         Move(w, "opened", IF fd = INVALID_SOCKET THEN "recv" ELSE "bind")
    /\ UNCHANGED <<kernel, server_socket, restart_count, arg, failed>>

\* Mutant: bindSocket gives up when another worker is replacing the socket.
BindSocket_Skipped(w) ==
    /\ Move(w, "bind", "recv")
    /\ kernel' = IF /\ State(server_socket) = "open"
                    /\ \A v \in Workers \ {w} : pc[v] \in {"recv", "recvfrom"}
                 THEN [kernel EXCEPT ![server_socket] = "bound"] ELSE kernel
    /\ UNCHANGED <<server_socket, restart_count, arg, failed>>

\* bindSocket.  On a descriptor that is not open or already bound, or when
\* bind() fails for its own reasons, it fails and the loop is left.
BindSocket(w) ==
    /\ Move(w, "bind", "recv")
    /\ \E fd \in Reread(w) :
         \/ /\ State(fd) = "open"
            /\ kernel' = [kernel EXCEPT ![fd] = "bound"]
            /\ UNCHANGED failed
         \/ /\ failed' = (failed \/ State(fd) = "open")
            /\ UNCHANGED kernel
    /\ UNCHANGED <<server_socket, restart_count, arg>>

Worker(w) ==
    \/ LoadSocket(w) \/ RecvDone(w) \/ RecvError(w)
    \/ CheckLimit(w) \/ CountRestart(w)
    \/ TestSocket(w) \/ CloseSocket(w) \/ ClearSocket(w)
    \/ OpenSocket(w) \/ TestOpened(w) \/ BindSocket(w)

Next == \E w \in Workers : Worker(w)

Spec == Init /\ [][Next]_vars
-----------------------------------------------------------------------------
OpenFds == {fd \in Fds : kernel[fd] # "free"}

\* The variables of the healing branch keep their types.
TypeOK ==
    /\ kernel \in [Fds -> {"free", "open", "bound"}]
    /\ server_socket \in Sockets
    /\ restart_count \in Nat
    /\ pc \in [Workers -> PCs]
    /\ arg \in [Workers -> Sockets]
    /\ failed \in BOOLEAN /\ overlapped \in BOOLEAN

\* Workers that passed the check and have not counted their restart yet.
Pending == {w \in Workers : pc[w] = "add"}

\* What the unlocked check of restart_count_ still guarantees: the workers
\* together restart the socket at most service_restart_limit times, plus once
\* for each other worker that passed the check at the same time.
RestartBound ==
    restart_count <= service_restart_limit + Cardinality(Workers) - 1

\* Its inductive form: a worker that passed the check below the limit leaves
\* room for every one of them.
RestartInv ==
    restart_count + Cardinality(Pending)
        <= service_restart_limit + Cardinality(Workers) - 1

\* Racing workers may leak sockets, one per counted restart and no more.
LeakBounded == Cardinality(OpenFds) <= 1 + restart_count

\* Workers that counted a restart and have not called socket() for it yet.
Opening == {w \in Workers : pc[w] \in {"test", "close", "clear", "socket"}}

\* Its inductive form: a counted restart pays for one call of socket().
LeakInv ==
    /\ IsFiniteSet(OpenFds)
    /\ Cardinality(OpenFds) + Cardinality(Opening) <= 1 + restart_count

\* Racing restarts do not leave the server deaf: as long as socket() and bind()
\* succeed, once no worker is replacing the socket server_socket_ is bound,
\* however the closes, clears, opens and binds of the workers interleaved.
HealedWhenQuiet ==
    /\ ~failed
    /\ \A w \in Workers : pc[w] \notin Replacing \ {"test"}
    => State(server_socket) = "bound"

\* Its inductive form: the last socket() of overlapping restarts comes after every
\* close and clear, and the worker that called it binds what it opened.
HealInv ==
    /\ ~failed
    /\ \A w \in Workers : pc[w] \notin {"close", "clear", "socket"}
    => /\ State(server_socket) \in {"open", "bound"}
       /\ \/ State(server_socket) = "bound"
          \/ \E w \in Workers : pc[w] \in {"opened", "bind"} /\ arg[w] = server_socket

\* Only overlapping restarts leak: as long as the workers replaced the socket one
\* after the other, server_socket_ names the only open socket, even if some of
\* the calls failed half-way.
NoSocketLeak == ~overlapped => OpenFds \subseteq {server_socket}

\* Its inductive form: the one worker that replaces the socket finds it as it left it.
OneAtATime ==
    ~overlapped =>
        /\ OpenFds \subseteq {server_socket}
        /\ \A v, w \in Workers : pc[v] \in Replacing /\ pc[w] \in Replacing => v = w
        /\ \A w \in Workers :
             /\ pc[w] \in {"close", "opened", "bind"} => arg[w] = server_socket
             /\ pc[w] \in {"clear", "socket"} => OpenFds = {}
=============================================================================
