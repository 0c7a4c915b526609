------------------------- MODULE SelfHealingProofs -------------------------
(***************************************************************************)
(* Proofs about SelfHealing for any number of workers, any descriptor      *)
(* table and any restart limit: the types, the bound on the restarts that  *)
(* the unlocked check of restart_count_ leaves, and the bound on leaked    *)
(* sockets.  Both bounds count the workers at certain places of the        *)
(* branch; At(S) is the set of those, and MoveAt says how one step of one  *)
(* worker changes it.  The last two theorems follow what the interleaved   *)
(* closes, clears, opens and binds leave in server_socket_.                *)
(***************************************************************************)
EXTENDS SelfHealing, FiniteSetTheorems, TLAPS

\* The workers whose program counter is in S.
At(S) == {w \in Workers : pc[w] \in S}

\* Any set of workers is finite: the code starts worker_threads of them.
LEMMA AtFinite ==
    ASSUME NEW S
    PROVE  /\ IsFiniteSet(At(S))
           /\ Cardinality(At(S)) \in Nat
           /\ Cardinality(At(S)) <= Cardinality(Workers)
           /\ Cardinality(Workers) \in Nat \ {0}
<1>1. At(S) \in SUBSET Workers
    BY DEF At
<1>2. IsFiniteSet(Workers) /\ Workers # {}
    BY HealingAssumption
<1>3. IsFiniteSet(At(S)) /\ Cardinality(At(S)) <= Cardinality(Workers)
    BY <1>1, <1>2, FS_Subset
<1>4. Cardinality(At(S)) \in Nat /\ Cardinality(Workers) \in Nat
    BY <1>2, <1>3, FS_CardinalityType
<1>5. Cardinality(Workers) # 0
    BY <1>2, FS_EmptySet
<1> QED
    BY <1>3, <1>4, <1>5

\* A worker that moves enters or leaves At(S), and no other worker does.
LEMMA MoveAt ==
    ASSUME NEW S, NEW w \in Workers, NEW from, NEW to,
           pc \in [Workers -> PCs], Move(w, from, to)
    PROVE  /\ to \in S /\ from \notin S
                => Cardinality(At(S)') = Cardinality(At(S)) + 1
           /\ to \notin S /\ from \in S
                => Cardinality(At(S)') = Cardinality(At(S)) - 1
           /\ (to \in S <=> from \in S)
                => Cardinality(At(S)') = Cardinality(At(S))
<1>1. ASSUME to \in S, from \notin S
      PROVE  Cardinality(At(S)') = Cardinality(At(S)) + 1
    <2>1. At(S)' = At(S) \cup {w} /\ w \notin At(S)
        BY <1>1 DEF At, Move
    <2> QED
        BY <2>1, AtFinite, FS_AddElement
<1>2. ASSUME to \notin S, from \in S
      PROVE  Cardinality(At(S)') = Cardinality(At(S)) - 1
    <2>1. At(S)' = At(S) \ {w} /\ w \in At(S)
        BY <1>2 DEF At, Move
    <2> QED
        BY <2>1, AtFinite, FS_RemoveElement
<1>3. ASSUME to \in S <=> from \in S
      PROVE  Cardinality(At(S)') = Cardinality(At(S))
    <2>1. At(S)' = At(S)
        BY <1>3 DEF At, Move
    <2> QED
        BY <2>1
<1> QED
    BY <1>1, <1>2, <1>3
-----------------------------------------------------------------------------
\* Every step of a worker keeps the types, which the code's declarations promise.
LEMMA TypeStep == TypeOK /\ [Next]_vars => TypeOK'
<1> SUFFICES ASSUME TypeOK, [Next]_vars
             PROVE  TypeOK'
    OBVIOUS
<1> USE HealingAssumption DEF TypeOK, Sockets, PCs, Move
<1>1. ASSUME NEW w \in Workers, LoadSocket(w)
      PROVE  TypeOK'
    BY <1>1 DEF LoadSocket
<1>2. ASSUME NEW w \in Workers, RecvDone(w)
      PROVE  TypeOK'
    BY <1>2 DEF RecvDone
<1>3. ASSUME NEW w \in Workers, RecvError(w)
      PROVE  TypeOK'
    BY <1>3 DEF RecvError
<1>4. ASSUME NEW w \in Workers, CheckLimit(w)
      PROVE  TypeOK'
    BY <1>4 DEF CheckLimit
<1>5. ASSUME NEW w \in Workers, CountRestart(w)
      PROVE  TypeOK'
    BY <1>5 DEF CountRestart
<1>6. ASSUME NEW w \in Workers, TestSocket(w)
      PROVE  TypeOK'
    BY <1>6 DEF TestSocket
<1>7. ASSUME NEW w \in Workers, CloseSocket(w)
      PROVE  TypeOK'
    BY <1>7 DEF CloseSocket
<1>8. ASSUME NEW w \in Workers, ClearSocket(w)
      PROVE  TypeOK'
    BY <1>8 DEF ClearSocket
<1>9. ASSUME NEW w \in Workers, OpenSocket(w)
      PROVE  TypeOK'
    BY <1>9 DEF OpenSocket
<1>10. ASSUME NEW w \in Workers, TestOpened(w)
       PROVE  TypeOK'
    BY <1>10 DEF TestOpened
<1>11. ASSUME NEW w \in Workers, BindSocket(w)
       PROVE  TypeOK'
    BY <1>11 DEF BindSocket, State
<1>12. CASE UNCHANGED vars
    BY <1>12 DEF vars
<1> QED
    BY <1>1, <1>2, <1>3, <1>4, <1>5, <1>6, <1>7, <1>8, <1>9, <1>10, <1>11, <1>12
    DEF Next, Worker

\* The healing branch is type correct: in particular restart_count_ never runs
\* below zero, whatever the workers do at the same time.
THEOREM TypeCorrect == Spec => []TypeOK
<1>1. Init => TypeOK
    <2>1. Init => failed \in BOOLEAN /\ overlapped \in BOOLEAN
        BY Zenon DEF Init
    <2> QED
        BY <2>1, HealingAssumption DEF Init, TypeOK, Sockets, PCs
<1> QED
    BY <1>1, TypeStep, PTL DEF Spec
-----------------------------------------------------------------------------
\* Only the check lets a worker into Pending, and only below the limit; the
\* fetch_add takes it out again.
LEMMA RestartStep == TypeOK /\ RestartInv /\ [Next]_vars => RestartInv'
<1> SUFFICES ASSUME TypeOK, RestartInv, [Next]_vars
             PROVE  RestartInv'
    OBVIOUS
<1>1. Pending = At({"add"}) /\ Pending' = At({"add"})'
    BY DEF Pending, At
<1>2. /\ Cardinality(Pending) \in Nat
      /\ Cardinality(Workers) \in Nat
    BY <1>1, AtFinite
<1>3. restart_count \in Nat /\ service_restart_limit \in Nat /\ pc \in [Workers -> PCs]
    BY HealingAssumption DEF TypeOK
<1>4. ASSUME NEW w \in Workers, NEW from, NEW to, Move(w, from, to),
             from # "add", to # "add", restart_count' = restart_count
      PROVE  RestartInv'
    <2>1. Cardinality(Pending') = Cardinality(Pending)
        BY <1>1, <1>3, <1>4, MoveAt
    <2> QED
        BY <2>1, <1>4 DEF RestartInv
<1>5. ASSUME NEW w \in Workers, CheckLimit(w)
      PROVE  RestartInv'
    <2>1. CASE MayRestart
        <3>1. At({"add"})' \in SUBSET Workers
            BY DEF At
        <3>2. Cardinality(Pending') \in Nat /\ Cardinality(Pending') <= Cardinality(Workers)
            BY <1>1, <3>1, HealingAssumption, FS_Subset, FS_CardinalityType
        <3>3. restart_count' = restart_count /\ restart_count < service_restart_limit
            BY <2>1, <1>5 DEF CheckLimit, MayRestart
        <3> QED
            BY <3>2, <3>3, <1>2, <1>3 DEF RestartInv
    <2>2. CASE ~MayRestart
        BY <2>2, <1>4, <1>5 DEF CheckLimit
    <2> QED
        BY <2>1, <2>2
<1>6. ASSUME NEW w \in Workers, CountRestart(w)
      PROVE  RestartInv'
    <2>1. Cardinality(Pending') = Cardinality(Pending) - 1
        BY <1>1, <1>3, <1>6, MoveAt DEF CountRestart
    <2> QED
        BY <2>1, <1>2, <1>3, <1>6 DEF CountRestart, RestartInv
<1>7. ASSUME NEW w \in Workers, LoadSocket(w) \/ RecvDone(w) \/ RecvError(w)
      PROVE  RestartInv'
    BY <1>4, <1>7 DEF LoadSocket, RecvDone, RecvError
<1>8. ASSUME NEW w \in Workers, TestSocket(w) \/ CloseSocket(w) \/ ClearSocket(w)
      PROVE  RestartInv'
    BY <1>4, <1>8 DEF TestSocket, CloseSocket, ClearSocket
<1>9. ASSUME NEW w \in Workers, OpenSocket(w) \/ TestOpened(w) \/ BindSocket(w)
      PROVE  RestartInv'
    BY <1>4, <1>9 DEF OpenSocket, TestOpened, BindSocket
<1>10. CASE UNCHANGED vars
    BY <1>10 DEF vars, RestartInv, Pending
<1> QED
    BY <1>5, <1>6, <1>7, <1>8, <1>9, <1>10 DEF Next, Worker

\* For every number of workers and every limit, the unlocked check of
\* restart_count_ overshoots service_restart_limit by at most one restart for
\* each other worker.
THEOREM RestartsBounded == Spec => []RestartBound
<1>1. Init => RestartInv
    <2> SUFFICES ASSUME Init
                 PROVE  RestartInv
        OBVIOUS
    <2>1. Pending = {} /\ restart_count = 0
        BY DEF Init, Pending
    <2> QED
        BY <2>1, FS_EmptySet, AtFinite, HealingAssumption DEF RestartInv
<1>2. TypeOK /\ RestartInv => RestartBound
    <2> SUFFICES ASSUME TypeOK, RestartInv
                 PROVE  RestartBound
        OBVIOUS
    <2>1. Pending = At({"add"})
        BY DEF Pending, At
    <2> QED
        BY <2>1, AtFinite, HealingAssumption DEF RestartInv, RestartBound, TypeOK
<1> QED
    BY <1>1, <1>2, RestartStep, TypeCorrect, PTL DEF Spec
-----------------------------------------------------------------------------
\* socket() opens at most one descriptor and the worker that calls it leaves
\* Opening; close() opens none and bind() only changes an open one.
LEMMA LeakStep == TypeOK /\ LeakInv /\ [Next]_vars => LeakInv'
<1> SUFFICES ASSUME TypeOK, LeakInv, [Next]_vars
             PROVE  LeakInv'
    OBVIOUS
<1> DEFINE Paid == {"test", "close", "clear", "socket"}
<1>1. Opening = At(Paid) /\ Opening' = At(Paid)'
    BY DEF Opening, At
<1>2. Cardinality(Opening) \in Nat /\ Cardinality(OpenFds) \in Nat
    BY <1>1, AtFinite, FS_CardinalityType DEF LeakInv
<1>3. restart_count \in Nat /\ pc \in [Workers -> PCs]
    BY DEF TypeOK
<1>4. ASSUME NEW w \in Workers, NEW from, NEW to, Move(w, from, to),
             from \in Paid <=> to \in Paid, restart_count' = restart_count,
             OpenFds' \subseteq OpenFds
      PROVE  LeakInv'
    <2>1. Cardinality(Opening') = Cardinality(Opening)
        BY <1>1, <1>3, <1>4, MoveAt
    <2>2. /\ IsFiniteSet(OpenFds')
          /\ Cardinality(OpenFds') <= Cardinality(OpenFds)
          /\ Cardinality(OpenFds') \in Nat
        BY <1>4, FS_Subset, FS_CardinalityType DEF LeakInv
    <2> QED
        BY <2>1, <2>2, <1>2, <1>3, <1>4 DEF LeakInv
<1>5. ASSUME NEW w \in Workers, LoadSocket(w) \/ RecvDone(w) \/ RecvError(w)
      PROVE  LeakInv'
    BY <1>4, <1>5 DEF LoadSocket, RecvDone, RecvError, OpenFds
<1>6. ASSUME NEW w \in Workers, CheckLimit(w)
      PROVE  LeakInv'
    BY <1>4, <1>6 DEF CheckLimit, OpenFds
<1>7. ASSUME NEW w \in Workers, CountRestart(w)
      PROVE  LeakInv'
    <2>1. Cardinality(Opening') = Cardinality(Opening) + 1
        BY <1>1, <1>3, <1>7, MoveAt DEF CountRestart
    <2>2. OpenFds' = OpenFds /\ restart_count' = restart_count + 1
        BY <1>7 DEF CountRestart, OpenFds
    <2> QED
        BY <2>1, <2>2, <1>2, <1>3 DEF LeakInv
<1>8. ASSUME NEW w \in Workers, TestSocket(w) \/ CloseSocket(w) \/ ClearSocket(w)
      PROVE  LeakInv'
    BY <1>4, <1>8 DEF TestSocket, CloseSocket, ClearSocket, OpenFds
<1>9. ASSUME NEW w \in Workers, OpenSocket(w)
      PROVE  LeakInv'
    <2>1. Cardinality(Opening') = Cardinality(Opening) - 1
        BY <1>1, <1>3, <1>9, MoveAt DEF OpenSocket
    <2>2. PICK fd : OpenFds' \subseteq OpenFds \cup {fd}
        BY <1>9 DEF OpenSocket, OpenFds, TypeOK
    <2>3. /\ IsFiniteSet(OpenFds \cup {fd})
          /\ Cardinality(OpenFds \cup {fd}) <= Cardinality(OpenFds) + 1
        <3>1. IsFiniteSet(OpenFds)
            BY DEF LeakInv
        <3>2. /\ IsFiniteSet(OpenFds \cup {fd})
              /\ Cardinality(OpenFds \cup {fd}) =
                   IF fd \in OpenFds THEN Cardinality(OpenFds) ELSE Cardinality(OpenFds) + 1
            BY <3>1, FS_AddElement
        <3> QED
            BY <3>2, <1>2
    <2>4. /\ IsFiniteSet(OpenFds')
          /\ Cardinality(OpenFds') <= Cardinality(OpenFds \cup {fd})
        BY <2>2, <2>3, FS_Subset
    <2>5. Cardinality(OpenFds') \in Nat /\ Cardinality(OpenFds \cup {fd}) \in Nat
        BY <2>3, <2>4, FS_CardinalityType
    <2> QED
        BY <2>1, <2>3, <2>4, <2>5, <1>2, <1>3, <1>9 DEF LeakInv, OpenSocket
<1>10. ASSUME NEW w \in Workers, TestOpened(w)
       PROVE  LeakInv'
    BY <1>4, <1>10 DEF TestOpened, OpenFds
<1>11. ASSUME NEW w \in Workers, BindSocket(w)
       PROVE  LeakInv'
    <2>1. OpenFds' \subseteq OpenFds
        BY <1>11 DEF BindSocket, State, OpenFds, TypeOK
    <2> QED
        BY <2>1, <1>4, <1>11 DEF BindSocket
<1>12. CASE UNCHANGED vars
    BY <1>12 DEF vars, LeakInv, Opening, OpenFds
<1> QED
    BY <1>5, <1>6, <1>7, <1>8, <1>9, <1>10, <1>11, <1>12 DEF Next, Worker

\* However the workers' closes and opens interleave, the server never has more
\* sockets open than the one it started with and one for each counted restart.
THEOREM LeaksBounded == Spec => []LeakBounded
<1>1. Init => LeakInv
    <2> SUFFICES ASSUME Init
                 PROVE  LeakInv
        OBVIOUS
    <2>1. PICK fd \in Fds : kernel = [f \in Fds |-> IF f = fd THEN "bound" ELSE "free"]
        BY DEF Init
    <2>2. OpenFds = {fd} /\ Opening = {} /\ restart_count = 0
        BY <2>1 DEF Init, OpenFds, Opening
    <2> QED
        <3>1. IsFiniteSet(OpenFds) /\ Cardinality(OpenFds) = 1
            BY <2>2, FS_Singleton
        <3>2. Cardinality(Opening) = 0
            BY <2>2, FS_EmptySet
        <3> QED
            BY <2>2, <3>1, <3>2 DEF LeakInv
<1>2. TypeOK /\ LeakInv => LeakBounded
    <2> SUFFICES ASSUME TypeOK, LeakInv
                 PROVE  LeakBounded
        OBVIOUS
    <2>1. Opening = At({"test", "close", "clear", "socket"})
        BY DEF Opening, At
    <2>2. Cardinality(Opening) \in Nat /\ Cardinality(OpenFds) \in Nat
        BY <2>1, AtFinite, FS_CardinalityType DEF LeakInv
    <2> QED
        BY <2>2 DEF LeakInv, LeakBounded, TypeOK
<1> QED
    BY <1>1, <1>2, LeakStep, TypeCorrect, PTL DEF Spec

-----------------------------------------------------------------------------
\* Every worker that closes or clears the socket opens one after it, and binds what it
\* opened unless another worker has replaced it meanwhile.
LEMMA HealStep == TypeOK /\ HealInv /\ [Next]_vars => HealInv'
<1> SUFFICES ASSUME TypeOK, HealInv, [Next]_vars, ~failed',
                    \A w \in Workers : pc'[w] \notin {"close", "clear", "socket"}
             PROVE  /\ State(server_socket)' \in {"open", "bound"}
                    /\ \/ State(server_socket)' = "bound"
                       \/ \E w \in Workers : pc'[w] \in {"opened", "bind"}
                                               /\ arg'[w] = server_socket'
    BY DEF HealInv
<1> USE DEF Move
<1>1. /\ pc \in [Workers -> PCs] /\ arg \in [Workers -> Sockets]
      /\ kernel \in [Fds -> {"free", "open", "bound"}]
    BY DEF TypeOK
\* Where neither the socket nor the worker that will bind it is touched.
<1>2. ASSUME NEW w \in Workers, UNCHANGED <<kernel, server_socket, failed>>,
             pc[w] \notin {"close", "clear", "socket"},
             pc[w] \in {"opened", "bind"} /\ arg[w] = server_socket
                => pc'[w] \in {"opened", "bind"} /\ arg'[w] = arg[w],
             \A v \in Workers \ {w} : pc'[v] = pc[v] /\ arg'[v] = arg[v]
      PROVE  /\ State(server_socket)' \in {"open", "bound"}
             /\ \/ State(server_socket)' = "bound"
                \/ \E v \in Workers : pc'[v] \in {"opened", "bind"} /\ arg'[v] = server_socket'
    <2>1. \A v \in Workers : pc[v] \notin {"close", "clear", "socket"}
        BY <1>2
    <2>2. State(server_socket)' = State(server_socket)
        BY <1>2 DEF State
    <2>3. /\ State(server_socket) \in {"open", "bound"}
          /\ \/ State(server_socket) = "bound"
             \/ \E v \in Workers : pc[v] \in {"opened", "bind"} /\ arg[v] = server_socket
        BY <1>2, <2>1 DEF HealInv
    <2> QED
        BY <1>2, <2>2, <2>3
<1>3. ASSUME NEW w \in Workers, LoadSocket(w) \/ RecvDone(w) \/ RecvError(w)
      PROVE  /\ State(server_socket)' \in {"open", "bound"}
             /\ \/ State(server_socket)' = "bound"
                \/ \E v \in Workers : pc'[v] \in {"opened", "bind"} /\ arg'[v] = server_socket'
    BY <1>1, <1>2, <1>3 DEF LoadSocket, RecvDone, RecvError
<1>4. ASSUME NEW w \in Workers, CheckLimit(w) \/ CountRestart(w)
      PROVE  /\ State(server_socket)' \in {"open", "bound"}
             /\ \/ State(server_socket)' = "bound"
                \/ \E v \in Workers : pc'[v] \in {"opened", "bind"} /\ arg'[v] = server_socket'
    BY <1>1, <1>2, <1>4 DEF CheckLimit, CountRestart
<1>5. ASSUME NEW w \in Workers, TestSocket(w) \/ CloseSocket(w) \/ ClearSocket(w)
      PROVE  FALSE
    BY <1>1, <1>5 DEF TestSocket, CloseSocket, ClearSocket
<1>6. ASSUME NEW w \in Workers, OpenSocket(w)
      PROVE  /\ State(server_socket)' \in {"open", "bound"}
             /\ \/ State(server_socket)' = "bound"
                \/ \E v \in Workers : pc'[v] \in {"opened", "bind"} /\ arg'[v] = server_socket'
    <2>1. PICK fd \in Fds : /\ kernel' = [kernel EXCEPT ![fd] = "open"]
                            /\ server_socket' = fd
        BY <1>6 DEF OpenSocket
    <2>2. State(server_socket)' = "open"
        BY <1>1, <2>1 DEF State
    <2>3. pc'[w] = "opened" /\ arg'[w] = server_socket'
        BY <1>1, <1>6 DEF OpenSocket
    <2> QED
        BY <2>2, <2>3
<1>7. ASSUME NEW w \in Workers, TestOpened(w)
      PROVE  /\ State(server_socket)' \in {"open", "bound"}
             /\ \/ State(server_socket)' = "bound"
                \/ \E v \in Workers : pc'[v] \in {"opened", "bind"} /\ arg'[v] = server_socket'
    <2>1. pc[w] = "opened" /\ \A v \in Workers \ {w} : pc'[v] = pc[v]
        BY <1>1, <1>7 DEF TestOpened
    <2>2. server_socket # INVALID_SOCKET
        <3>1. ~failed /\ \A v \in Workers : pc[v] \notin {"close", "clear", "socket"}
            BY <1>7, <2>1 DEF TestOpened
        <3>2. State(server_socket) \in {"open", "bound"}
            BY <3>1 DEF HealInv
        <3> QED
            BY <3>2, HealingAssumption DEF State
    <2> QED
        BY <1>1, <1>2, <1>7, <2>1, <2>2 DEF TestOpened, Reread
<1>8. ASSUME NEW w \in Workers, BindSocket(w)
      PROVE  /\ State(server_socket)' \in {"open", "bound"}
             /\ \/ State(server_socket)' = "bound"
                \/ \E v \in Workers : pc'[v] \in {"opened", "bind"} /\ arg'[v] = server_socket'
    <2>0. /\ pc[w] = "bind" /\ \A v \in Workers \ {w} : pc'[v] = pc[v]
          /\ UNCHANGED <<server_socket, arg>>
        BY <1>1, <1>8 DEF BindSocket
    <2>1. PICK fd \in Reread(w) :
            \/ /\ State(fd) = "open"
               /\ kernel' = [kernel EXCEPT ![fd] = "bound"]
               /\ UNCHANGED failed
            \/ /\ failed' = (failed \/ State(fd) = "open")
               /\ UNCHANGED kernel
        BY <1>8 DEF BindSocket
    <2>2. ~failed
        BY <2>1
    <2>3. \A v \in Workers : pc[v] \notin {"close", "clear", "socket"}
        BY <2>0
    <2>4. /\ State(server_socket) \in {"open", "bound"}
          /\ \/ State(server_socket) = "bound"
             \/ \E v \in Workers : pc[v] \in {"opened", "bind"} /\ arg[v] = server_socket
        BY <2>2, <2>3 DEF HealInv
    <2>5. server_socket \in Fds /\ State(server_socket) = kernel[server_socket]
          /\ State(server_socket)' = kernel'[server_socket]
        BY <2>0, <2>4 DEF State
    <2>6. kernel'[server_socket] \in {kernel[server_socket], "bound"}
        BY <1>1, <2>1, <2>5
    <2>7. CASE fd = server_socket
        <3>1. State(fd) = "open" => kernel'[server_socket] = "bound"
            BY <1>1, <2>1, <2>5, <2>7
        <3> QED
            BY <2>4, <2>5, <2>6, <2>7, <3>1
    <2>8. CASE fd # server_socket
        <3>1. arg[w] # server_socket
            BY <2>1, <2>8 DEF Reread
        <3> QED
            BY <2>0, <2>4, <2>5, <2>6, <3>1
    <2> QED
        BY <2>7, <2>8
<1>9. CASE UNCHANGED vars
    BY <1>9 DEF vars, HealInv, State
<1> QED
    BY <1>3, <1>4, <1>5, <1>6, <1>7, <1>8, <1>9 DEF Next, Worker

\* However the restarts of any number of workers interleave, once they are over the
\* server listens, unless a socket() or bind() failed.
THEOREM QuietIsHealed == Spec => []HealedWhenQuiet
<1>1. Init => HealInv
    BY DEF Init, HealInv, State
<1>2. HealInv => HealedWhenQuiet
    BY DEF HealInv, HealedWhenQuiet, Replacing
<1> QED
    BY <1>1, <1>2, HealStep, TypeCorrect, PTL DEF Spec
-----------------------------------------------------------------------------
\* A worker that is alone in the branch closes the socket it then replaces; the first
\* that enters beside it sets overlapped.
LEMMA OneStep == TypeOK /\ OneAtATime /\ [Next]_vars => OneAtATime'
<1> SUFFICES ASSUME TypeOK, OneAtATime, [Next]_vars, ~overlapped'
             PROVE  /\ OpenFds' \subseteq {server_socket'}
                    /\ \A v, w \in Workers : pc'[v] \in Replacing /\ pc'[w] \in Replacing => v = w
                    /\ \A w \in Workers :
                         /\ pc'[w] \in {"close", "opened", "bind"} => arg'[w] = server_socket'
                         /\ pc'[w] \in {"clear", "socket"} => OpenFds' = {}
    BY DEF OneAtATime
<1>1. /\ pc \in [Workers -> PCs] /\ arg \in [Workers -> Sockets]
      /\ kernel \in [Fds -> {"free", "open", "bound"}] /\ overlapped \in BOOLEAN
      /\ OpenFds \subseteq Fds
    BY DEF TypeOK, OpenFds
<1>2. ASSUME NEW w \in Workers, NEW from, NEW to, Move(w, from, to)
      PROVE  /\ ~overlapped
             /\ pc[w] = from /\ pc'[w] = to
             /\ \A v \in Workers \ {w} : pc'[v] = pc[v]
             /\ to \in Replacing => \A v \in Workers \ {w} : pc[v] \notin Replacing
             /\ \A v, u \in Workers : pc'[v] \in Replacing /\ pc'[u] \in Replacing => v = u
    <2>1. ~overlapped /\ ~Overlaps(w, to) /\ pc[w] = from /\ pc'[w] = to
          /\ \A v \in Workers \ {w} : pc'[v] = pc[v]
        BY <1>1, <1>2 DEF Move
    <2> QED
        BY <2>1 DEF Overlaps, OneAtATime
\* Outside the branch, and inside it where the socket is only looked at.
<1>3. ASSUME NEW w \in Workers, NEW from, NEW to, Move(w, from, to),
             UNCHANGED <<kernel, server_socket>>,
             \A v \in Workers \ {w} : arg'[v] = arg[v],
             to \in {"close", "opened", "bind"} => arg'[w] = server_socket,
             to \in {"clear", "socket"} => OpenFds = {}
      PROVE  OneAtATime'
    <2>1. OpenFds' = OpenFds
        BY <1>3 DEF OpenFds
    <2>2. OpenFds \subseteq {server_socket}
          /\ \A v \in Workers :
               /\ pc[v] \in {"close", "opened", "bind"} => arg[v] = server_socket
               /\ pc[v] \in {"clear", "socket"} => OpenFds = {}
        BY <1>2, <1>3 DEF OneAtATime
    <2> QED
        BY <1>2, <1>3, <2>1, <2>2 DEF OneAtATime
<1> USE DEF Replacing
<1>4. ASSUME NEW w \in Workers, LoadSocket(w) \/ RecvDone(w) \/ RecvError(w)
      PROVE  OneAtATime'
    BY <1>1, <1>3, <1>4 DEF LoadSocket, RecvDone, RecvError
<1>5. ASSUME NEW w \in Workers, CheckLimit(w) \/ CountRestart(w)
      PROVE  OneAtATime'
    BY <1>1, <1>3, <1>5 DEF CheckLimit, CountRestart
<1>6. ASSUME NEW w \in Workers, TestSocket(w)
      PROVE  OneAtATime'
    <2>1. ~overlapped /\ OpenFds \subseteq {server_socket}
        BY <1>2, <1>6 DEF TestSocket, OneAtATime
    <2>2. server_socket = INVALID_SOCKET => OpenFds = {}
        BY <1>1, <2>1, HealingAssumption
    <2> QED
        BY <1>1, <1>3, <1>6, <2>2 DEF TestSocket
<1>7. ASSUME NEW w \in Workers, CloseSocket(w)
      PROVE  OneAtATime'
    <2>1. /\ pc[w] = "close" /\ pc'[w] = "clear" /\ ~overlapped
          /\ \A v \in Workers \ {w} : pc'[v] = pc[v] /\ pc[v] \notin Replacing
          /\ \A v, u \in Workers : pc'[v] \in Replacing /\ pc'[u] \in Replacing => v = u
        BY <1>2, <1>7 DEF CloseSocket
    <2>2. arg[w] = server_socket /\ OpenFds \subseteq {server_socket}
        BY <2>1 DEF OneAtATime
    <2>3. OpenFds' = {}
        BY <1>1, <1>7, <2>2 DEF CloseSocket, Reread, OpenFds
    <2> QED
        BY <2>1, <2>3 DEF OneAtATime
<1>8. ASSUME NEW w \in Workers, ClearSocket(w)
      PROVE  OneAtATime'
    <2>1. /\ pc[w] = "clear" /\ pc'[w] = "socket" /\ ~overlapped
          /\ \A v \in Workers \ {w} : pc'[v] = pc[v] /\ pc[v] \notin Replacing
          /\ \A v, u \in Workers : pc'[v] \in Replacing /\ pc'[u] \in Replacing => v = u
        BY <1>2, <1>8 DEF ClearSocket
    <2>2. OpenFds' = {}
        BY <1>8, <2>1 DEF OneAtATime, ClearSocket, OpenFds
    <2> QED
        BY <2>1, <2>2 DEF OneAtATime
<1>9. ASSUME NEW w \in Workers, OpenSocket(w)
      PROVE  OneAtATime'
    <2>1. /\ pc[w] = "socket" /\ pc'[w] = "opened" /\ ~overlapped
          /\ \A v \in Workers \ {w} : pc'[v] = pc[v] /\ pc[v] \notin Replacing
          /\ \A v, u \in Workers : pc'[v] \in Replacing /\ pc'[u] \in Replacing => v = u
        BY <1>2, <1>9 DEF OpenSocket
    <2>2. OpenFds = {}
        BY <2>1 DEF OneAtATime
    <2>3. OpenFds' \subseteq {server_socket'} /\ arg'[w] = server_socket'
        BY <1>1, <1>9, <2>2 DEF OpenSocket, OpenFds
    <2> QED
        BY <2>1, <2>3 DEF OneAtATime
<1>10. ASSUME NEW w \in Workers, TestOpened(w)
       PROVE  OneAtATime'
    <2>1. pc[w] = "opened" /\ ~overlapped
        BY <1>2, <1>10 DEF TestOpened
    <2>2. arg[w] = server_socket
        BY <2>1 DEF OneAtATime
    <2> QED
        BY <1>3, <1>10, <2>2 DEF TestOpened
<1>11. ASSUME NEW w \in Workers, BindSocket(w)
       PROVE  OneAtATime'
    <2>1. /\ pc[w] = "bind" /\ pc'[w] = "recv" /\ ~overlapped
          /\ \A v \in Workers \ {w} : pc'[v] = pc[v]
          /\ \A v, u \in Workers : pc'[v] \in Replacing /\ pc'[u] \in Replacing => v = u
        BY <1>2, <1>11 DEF BindSocket
    <2>2. \A v \in Workers \ {w} : pc[v] \notin Replacing
        BY <2>1 DEF OneAtATime
    <2>3. OpenFds' \subseteq OpenFds /\ UNCHANGED <<server_socket, arg>>
        BY <1>1, <1>11 DEF BindSocket, State, OpenFds
    <2> QED
        BY <2>1, <2>2, <2>3 DEF OneAtATime
<1>12. CASE UNCHANGED vars
    BY <1>12 DEF vars, OneAtATime, OpenFds
<1> QED
    BY <1>4, <1>5, <1>6, <1>7, <1>8, <1>9, <1>10, <1>11, <1>12 DEF Next, Worker, OneAtATime

\* As long as no two workers replace the socket at the same time, server_socket_ names
\* the only open one, whichever of the calls failed.
THEOREM OnlyOverlapLeaks == Spec => []NoSocketLeak
<1>1. Init => OneAtATime
    BY DEF Init, OneAtATime, OpenFds, Replacing
<1>2. OneAtATime => NoSocketLeak
    BY DEF OneAtATime, NoSocketLeak
<1> QED
    BY <1>1, <1>2, OneStep, TypeCorrect, PTL DEF Spec
=============================================================================
