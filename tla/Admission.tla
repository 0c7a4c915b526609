------------------------------ MODULE Admission ------------------------------
(***************************************************************************)
(* How a datagram is admitted: the path a worker thread of NtpServer takes *)
(* from recvfrom to the verdict of NtpConnection::handlePacket             *)
(* (core/server.cpp processIncomingPackets, processPacket,                 *)
(* isClientAllowed, isRateLimitExceeded, isDdosAnomaly,                    *)
(* getOrCreateConnection, cleanupConnections; core/connection.cpp).        *)
(*                                                                         *)
(* Several workers run this path at once.  A block that holds a            *)
(* lock_guard from its first to its last access is one step; in            *)
(* getOrCreateConnection the lock is a variable, because lookup and        *)
(* insertion are apart.  steady_clock is `clock', in seconds.  What        *)
(* happens after the verdict (response, send, statistics) is module        *)
(* Response.                                                               *)
(***************************************************************************)
EXTENDS Integers, FiniteSets, AddressMatch

CONSTANTS
    Workers,            \* the worker threads (config worker_threads)
    Clients,            \* client IP addresses
    Ports,              \* client UDP ports
    Kinds,              \* the kinds of datagram that arrive
    Configs,            \* the configurations the server may be started with
    SecondsPerMinute,   \* 60 in the code, scaled down for TLC
    MaxClock,           \* bound: the last second of the modelled time
    MaxPackets,         \* bound: datagrams that arrive
    None                \* nobody holds the mutex

Keys == Clients \X Ports

Packets == [ip : Clients, port : Ports, kind : Kinds]

\* The NtpConfig fields the path reads.  The order of a client list makes no
\* difference, so it is a set of entries.
ConfigType ==
    [enable_acl : BOOLEAN, restrict_queries : BOOLEAN,
     denied_clients : SUBSET Entries, allowed_clients : SUBSET Entries,
     enable_rate_limiting : BOOLEAN,
     connection_rate_limit_per_minute : Nat, request_rate_limit_per_minute : Nat,
     enable_ddos_protection : BOOLEAN, ddos_anomaly_threshold_per_second : Nat,
     enable_graceful_degradation : BOOLEAN, enable_authentication : BOOLEAN]

(***************************************************************************)
(* What a datagram can be, as far as handlePacket tells: too short,        *)
(* unparsable, invalid or not of client mode (malformed), a client request *)
(* that authentication refuses (unauthenticated), or a good one (request). *)
(***************************************************************************)
ASSUME ConstantsAssumption ==
    /\ Kinds \subseteq {"malformed", "unauthenticated", "request"}
    /\ Packets # {} /\ Clients \subseteq Addresses
    /\ SecondsPerMinute \in Nat \ {0}
    /\ MaxClock \in Nat
    /\ MaxPackets \in Nat
    /\ IsFiniteSet(Workers) /\ None \notin Workers
    /\ Configs \subseteq ConfigType

Seconds == 0 .. MaxClock

\* duration_cast<minutes>(now.time_since_epoch())
MinuteOf(t) == t \div SecondsPerMinute

Minutes == { MinuteOf(t) : t \in Seconds }

PCs == {"recv", "acl", "rate", "ddos", "lookup", "insert", "handle", "count",
        "served", "cleanup"}

VARIABLES
    config,             \* *config_, fixed while this path is studied
    clock,              \* steady_clock::now()
    arrived,            \* datagrams received so far
    pc, packet,         \* each worker's program counter and datagram
    start_us,           \* processPacket's start_us
    now,                \* handlePacket's now
    connection_rate_buckets,    \* client -> [bucket, count]
    request_second_buckets,     \* client -> [bucket, count]
    connections_mutex,          \* the worker that holds connections_mutex_
    active_connections,         \* key -> [active_, request_buckets_]
    total_connections, active_count,    \* stats_.total_/active_connections
    \* History, for the properties only.
    seen, admitted,     \* client, minute -> met / let through by the limiter
    burst,              \* client, second -> let through by isDdosAnomaly
    counted, accepted,  \* key, minute -> met / let through by handlePacket
    handled             \* client, minute -> met by handlePacket, on any port

serverVars == <<connection_rate_buckets, request_second_buckets>>
connVars == <<connections_mutex, active_connections, total_connections, active_count>>
history == <<seen, admitted, burst, counted, accepted, handled>>
vars == <<config, clock, arrived, pc, packet, start_us, now,
          serverVars, connVars, history>>

Bucket(b, c) == [bucket |-> b, count |-> c]

Init ==
    /\ config \in Configs
    /\ clock = 0
    /\ arrived = 0
    /\ pc = [w \in Workers |-> "recv"]
    /\ packet \in [Workers -> {CHOOSE p \in Packets : TRUE}]
    /\ start_us = [w \in Workers |-> 0]
    /\ now = [w \in Workers |-> 0]
    /\ connection_rate_buckets = [c \in Clients |-> Bucket(0, 0)]
    /\ request_second_buckets = [c \in Clients |-> Bucket(0, 0)]
    /\ connections_mutex = None
    /\ active_connections = [k \in {} |-> {}]
    /\ total_connections = 0
    /\ active_count = 0
    /\ seen = [c \in Clients |-> [m \in Minutes |-> 0]]
    /\ admitted = [c \in Clients |-> [m \in Minutes |-> 0]]
    /\ burst = [c \in Clients |-> [s \in Seconds |-> 0]]
    /\ counted = [k \in Keys |-> [m \in Minutes |-> 0]]
    /\ accepted = [k \in Keys |-> [m \in Minutes |-> 0]]
    /\ handled = [c \in Clients |-> [m \in Minutes |-> 0]]

-----------------------------------------------------------------------------
Goto(w, label) == pc' = [pc EXCEPT ![w] = label]

KeyOf(p) == <<p.ip, p.port>>

\* f with the count of x in period m raised by one
Incr(f, x, m) == [f EXCEPT ![x][m] = @ + 1]

Tick ==
    /\ clock < MaxClock
    /\ clock' = clock + 1
    /\ UNCHANGED <<config, arrived, pc, packet, start_us, now, serverVars,
                   connVars, history>>

\* recvfrom returns a datagram and processPacket takes its start time.
Receive(w) ==
    /\ pc[w] = "recv"
    /\ arrived < MaxPackets
    /\ arrived' = arrived + 1
    /\ \E p \in Packets : packet' = [packet EXCEPT ![w] = p]
    /\ start_us' = [start_us EXCEPT ![w] = clock]
    /\ Goto(w, "acl")
    /\ UNCHANGED <<config, clock, now, serverVars, connVars, history>>

\* recvfrom fails with EAGAIN: processIncomingPackets returns.
NoData(w) ==
    /\ pc[w] = "recv"
    /\ Goto(w, "cleanup")
    /\ UNCHANGED <<config, clock, arrived, packet, start_us, now, serverVars,
                   connVars, history>>

\* Mutant: the allow list is consulted first and hides the deny list.
isClientAllowed_AllowFirst(c) ==
    \/ ~config.enable_acl /\ ~config.restrict_queries
    \/ \E allow \in config.allowed_clients : isIpInCidr(c, allow)
    \/ /\ \A deny \in config.denied_clients : ~isIpInCidr(c, deny)
       /\ config.allowed_clients = {}
       /\ ~config.restrict_queries

isClientAllowed(c) ==
    \/ ~config.enable_acl /\ ~config.restrict_queries
    \/ /\ \A deny \in config.denied_clients : ~isIpInCidr(c, deny)
       /\ IF config.allowed_clients = {}
          THEN ~config.restrict_queries
          ELSE \E allow \in config.allowed_clients : isIpInCidr(c, allow)

CheckAcl(w) ==
    /\ pc[w] = "acl"
    /\ Goto(w, IF isClientAllowed(packet[w].ip) THEN "rate" ELSE "recv")
    /\ UNCHANGED <<config, clock, arrived, packet, start_us, now, serverVars,
                   connVars, history>>

\* Mutant: the entry is moved to the new period but no longer counted up.
Advance_NotCounted(entry, b) ==
    Bucket(b, IF entry.bucket # b THEN 0 ELSE entry.count)

\* The entry of a fixed-window limiter after one more datagram in period b.
Advance(entry, b) ==
    Bucket(b, (IF entry.bucket # b THEN 0 ELSE entry.count) + 1)

\* Mutant: the time taken before the lock is used under it.
now_BeforeLock(w) == start_us[w]

\* isRateLimitExceeded's clock read, after security_mutex_ is taken.
rate_now(w) == clock

\* isDdosAnomaly's clock read, after security_mutex_ is taken.
ddos_now(w) == clock

\* isRateLimitExceeded.
CheckRate(w) ==
    LET c == packet[w].ip
        m == MinuteOf(clock)
        entry == Advance(connection_rate_buckets[c], MinuteOf(rate_now(w)))
        exceeded == entry.count > config.connection_rate_limit_per_minute
    IN  /\ pc[w] = "rate"
        /\ IF ~config.enable_rate_limiting
           THEN /\ Goto(w, "ddos")
                /\ UNCHANGED <<connection_rate_buckets, seen, admitted>>
           ELSE /\ connection_rate_buckets' =
                     [connection_rate_buckets EXCEPT ![c] = entry]
                /\ seen' = Incr(seen, c, m)
                /\ admitted' = IF exceeded THEN admitted ELSE Incr(admitted, c, m)
                /\ Goto(w, IF exceeded THEN "recv" ELSE "ddos")
        /\ UNCHANGED <<config, clock, arrived, packet, start_us, now,
                       request_second_buckets, connVars, burst, counted, accepted,
                       handled>>

\* isDdosAnomaly: an anomaly drops the datagram only under graceful degradation.
CheckDdos(w) ==
    LET c == packet[w].ip
        entry == Advance(request_second_buckets[c], ddos_now(w))
        dropped == /\ entry.count > config.ddos_anomaly_threshold_per_second
                   /\ config.enable_graceful_degradation
    IN  /\ pc[w] = "ddos"
        /\ IF ~config.enable_ddos_protection
           THEN /\ Goto(w, "lookup")
                /\ UNCHANGED <<request_second_buckets, burst>>
           ELSE /\ request_second_buckets' =
                     [request_second_buckets EXCEPT ![c] = entry]
                /\ burst' = IF dropped THEN burst ELSE Incr(burst, c, clock)
                /\ Goto(w, IF dropped THEN "recv" ELSE "lookup")
        /\ UNCHANGED <<config, clock, arrived, packet, start_us, now,
                       connection_rate_buckets, connVars, seen, admitted,
                       counted, accepted, handled>>

\* Mutant: the lookup does not wait for connections_mutex_.
LookupConnection_Unlocked(w) ==
    /\ pc[w] = "lookup"
    /\ IF KeyOf(packet[w]) \in DOMAIN active_connections
       THEN Goto(w, "handle") /\ UNCHANGED connections_mutex
       ELSE Goto(w, "insert") /\ connections_mutex' = w
    /\ UNCHANGED <<config, clock, arrived, packet, start_us, now, serverVars,
                   active_connections, total_connections, active_count, history>>

\* getOrCreateConnection, up to the find: a known key leaves the lock at once.
LookupConnection(w) ==
    /\ pc[w] = "lookup"
    /\ connections_mutex = None
    /\ IF KeyOf(packet[w]) \in DOMAIN active_connections
       THEN Goto(w, "handle") /\ UNCHANGED connections_mutex
       ELSE Goto(w, "insert") /\ connections_mutex' = w
    /\ UNCHANGED <<config, clock, arrived, packet, start_us, now, serverVars,
                   active_connections, total_connections, active_count, history>>

\* A connection as its constructor leaves it, with no request counted.
NewConnection == [active |-> TRUE, request_buckets |-> [m \in Minutes |-> 0]]

\* getOrCreateConnection, from make_shared on: the new connection,
\* the two counters, then the lock is released.  The code does not read
\* max_connections, and nothing bounds the map.
InsertConnection(w) ==
    LET key == KeyOf(packet[w])
    IN  /\ pc[w] = "insert"
        /\ active_connections' =
             [k \in DOMAIN active_connections \cup {key} |->
                IF k = key THEN NewConnection ELSE active_connections[k]]
        /\ total_connections' = total_connections + 1
        /\ active_count' = active_count + 1
        /\ connections_mutex' = None
        /\ Goto(w, "handle")
        /\ UNCHANGED <<config, clock, arrived, packet, start_us, now, serverVars,
                       history>>

\* handlePacket up to the clock read that precedes rate_limit_mutex_.
HandlePacket(w) ==
    /\ pc[w] = "handle"
    /\ now' = [now EXCEPT ![w] = clock]
    /\ Goto(w, IF /\ active_connections[KeyOf(packet[w])].active
                  /\ packet[w].kind # "malformed"
               THEN "count" ELSE "recv")
    /\ UNCHANGED <<config, clock, arrived, packet, start_us, serverVars, connVars,
                   history>>

\* The digest check, reduced to its verdict on the datagram.
validateAuthentication(p) ==
    config.enable_authentication => p.kind # "unauthenticated"

\* Mutant: counting in a minute forgets the other minutes.
CountIn_Pruned(buckets, m) ==
    [x \in Minutes |-> IF x = m THEN buckets[m] + 1 ELSE 0]

\* request_buckets_[minute_bucket]++
CountIn(buckets, m) == [buckets EXCEPT ![m] = @ + 1]

\* handlePacket from rate_limit_mutex_ on: the request is counted in the
\* bucket of the minute that was read before the lock.
CountRequest(w) ==
    LET key == KeyOf(packet[w])
        m == MinuteOf(now[w])
        buckets == CountIn(active_connections[key].request_buckets, m)
        limited == config.enable_rate_limiting
        exceeded == limited /\ buckets[m] > config.request_rate_limit_per_minute
    IN  /\ pc[w] = "count"
        /\ active_connections' =
             IF limited THEN [active_connections EXCEPT ![key].request_buckets = buckets]
                        ELSE active_connections
        /\ counted' = IF limited THEN Incr(counted, key, m) ELSE counted
        /\ handled' = IF limited THEN Incr(handled, packet[w].ip, m) ELSE handled
        /\ accepted' = IF limited /\ ~exceeded THEN Incr(accepted, key, m) ELSE accepted
        /\ Goto(w, IF exceeded \/ ~validateAuthentication(packet[w]) THEN "recv" ELSE "served")
        /\ UNCHANGED <<config, clock, arrived, packet, start_us, now, serverVars,
                       connections_mutex, total_connections, active_count, seen,
                       admitted, burst>>

\* The rest of processPacket, modelled in Response.
Answer(w) ==
    /\ pc[w] = "served"
    /\ Goto(w, "recv")
    /\ UNCHANGED <<config, clock, arrived, packet, start_us, now, serverVars,
                   connVars, history>>

\* Mutant: the test of isActive() is inverted.
CleanupConnections_Inverted(w) ==
    LET inactive == {k \in DOMAIN active_connections : active_connections[k].active}
    IN  /\ pc[w] = "cleanup"
        /\ connections_mutex = None
        /\ active_connections' =
             [k \in DOMAIN active_connections \ inactive |-> active_connections[k]]
        /\ active_count' = active_count - Cardinality(inactive)
        /\ Goto(w, "recv")
        /\ UNCHANGED <<config, clock, arrived, packet, start_us, now, serverVars,
                       connections_mutex, total_connections, history>>

\* cleanupConnections, under connections_mutex_, then the worker's 10 ms sleep.
\* Only ~NtpConnection clears active_, so the code never finds an inactive
\* connection in the map.
CleanupConnections(w) ==
    LET inactive == {k \in DOMAIN active_connections : ~active_connections[k].active}
    IN  /\ pc[w] = "cleanup"
        /\ connections_mutex = None
        /\ active_connections' =
             [k \in DOMAIN active_connections \ inactive |-> active_connections[k]]
        /\ active_count' = active_count - Cardinality(inactive)
        /\ Goto(w, "recv")
        /\ UNCHANGED <<config, clock, arrived, packet, start_us, now, serverVars,
                       connections_mutex, total_connections, history>>

Worker(w) ==
    \/ Receive(w) \/ NoData(w)
    \/ CheckAcl(w) \/ CheckRate(w) \/ CheckDdos(w)
    \/ LookupConnection(w) \/ InsertConnection(w)
    \/ HandlePacket(w) \/ CountRequest(w) \/ Answer(w)
    \/ CleanupConnections(w)

Next == Tick \/ \E w \in Workers : Worker(w)

Spec == Init /\ [][Next]_vars
-----------------------------------------------------------------------------
BucketType == [bucket : Nat, count : Nat]

ConnectionType == [active : BOOLEAN, request_buckets : [Minutes -> Nat]]

\* Every variable of the admission path stays in its type, and a worker that
\* is past getOrCreateConnection has its client's connection in the map.
TypeOK ==
    /\ config \in Configs
    /\ clock \in Seconds
    /\ arrived \in 0 .. MaxPackets
    /\ pc \in [Workers -> PCs]
    /\ packet \in [Workers -> Packets]
    /\ start_us \in [Workers -> Seconds]
    /\ now \in [Workers -> Seconds]
    /\ connection_rate_buckets \in [Clients -> BucketType]
    /\ request_second_buckets \in [Clients -> BucketType]
    /\ connections_mutex \in Workers \cup {None}
    /\ DOMAIN active_connections \subseteq Keys
    /\ \A k \in DOMAIN active_connections : active_connections[k] \in ConnectionType
    /\ total_connections \in Nat
    /\ active_count \in Int
    /\ seen \in [Clients -> [Minutes -> Nat]]
    /\ admitted \in [Clients -> [Minutes -> Nat]]
    /\ burst \in [Clients -> [Seconds -> Nat]]
    /\ counted \in [Keys -> [Minutes -> Nat]]
    /\ accepted \in [Keys -> [Minutes -> Nat]]
    /\ handled \in [Clients -> [Minutes -> Nat]]
    /\ \A w \in Workers :
         pc[w] \in {"handle", "count"} => KeyOf(packet[w]) \in DOMAIN active_connections

AtMost(n, limit) == IF n <= limit THEN n ELSE limit

\* isRateLimitExceeded is an exact fixed-window limiter under any number of
\* workers: of the n datagrams of a client it meets in one minute it lets
\* exactly min(n, connection_rate_limit_per_minute) through.
RateLimiterExact ==
    \A c \in Clients, m \in Minutes :
        admitted[c][m] = AtMost(seen[c][m], config.connection_rate_limit_per_minute)

\* With graceful degradation, no second of the clock sees more datagrams of one
\* client past isDdosAnomaly than ddos_anomaly_threshold_per_second.
DdosBurstBounded ==
    config.enable_graceful_degradation =>
        \A c \in Clients, s \in Seconds :
            burst[c][s] <= config.ddos_anomaly_threshold_per_second

\* handlePacket's limiter is exact for each connection although it reads the
\* clock before it takes rate_limit_mutex_: it counts in a map by minute.
RequestLimiterExact ==
    \A k \in Keys, m \in Minutes :
        accepted[k][m] = AtMost(counted[k][m], config.request_rate_limit_per_minute)

\* What a client gets per minute in all, whatever ports it uses: the handlers
\* count at most connection_rate_limit_per_minute of its datagrams, and one more
\* for each worker that carried one over from an earlier minute.
ClientMinuteBound ==
    config.enable_rate_limiting =>
        \A c \in Clients, m \in Minutes :
            handled[c][m] <= config.connection_rate_limit_per_minute + Cardinality(Workers)

\* The two counters getOrCreateConnection and cleanupConnections keep agree with
\* the connection map: no client is counted twice when two workers meet it first.
ConnectionAccounting ==
    /\ active_count = Cardinality(DOMAIN active_connections)
    /\ total_connections = active_count

\* isIpInCidr means what an entry says, for every address and every entry: a network of
\* any length from nothing to the whole address, a base with bits beyond the prefix, a
\* prefix out of range.  (No variable matters to it: looking before anything has arrived
\* is enough.)
MatchesNetworks ==
    arrived = 0 =>
        \A ip \in Addresses :
            \A entry \in [base : Addresses \cup {NotAddress}, slash : BOOLEAN,
                          prefix : -1 .. AddressBits + 1] :
                isIpInCidr(ip, entry) <=> InNetwork(ip, entry)

\* A client the access lists turn away leaves no state behind: no rate or second
\* bucket, no connection.  (The lists are read as documented: an address of a denied
\* network is never let in, and an allow list admits nobody else.)
DeniedLeaveNoTrace ==
    \A c \in Clients :
        /\ config.enable_acl \/ config.restrict_queries
        /\ \/ \E deny \in config.denied_clients : InNetwork(c, deny)
           \/ /\ config.allowed_clients # {}
              /\ \A allow \in config.allowed_clients : ~InNetwork(c, allow)
           \/ config.allowed_clients = {} /\ config.restrict_queries
        => /\ connection_rate_buckets[c] = Bucket(0, 0)
           /\ request_second_buckets[c] = Bucket(0, 0)
           /\ \A p \in Ports : <<c, p>> \notin DOMAIN active_connections
-----------------------------------------------------------------------------
\* The parts of the inductive invariant, used by AdmissionProofs.

\* A worker about to insert holds the mutex, and its key is still new; no
\* connection of the map is ever inactive.
ConnInv ==
    /\ \A k \in DOMAIN active_connections : active_connections[k].active
    /\ \A w \in Workers :
         pc[w] = "insert" => /\ connections_mutex = w
                             /\ KeyOf(packet[w]) \notin DOMAIN active_connections

\* An entry of the connection limiter counts what was met in the last minute it
\* was used in, and nothing was met after that minute.
RateInv ==
    \A c \in Clients :
        LET entry == connection_rate_buckets[c]
        IN  /\ entry.bucket \in Minutes
            /\ entry.bucket <= MinuteOf(clock)
            /\ entry.count = seen[c][entry.bucket]
            /\ \A m \in Minutes : m > entry.bucket => seen[c][m] = 0

\* The same of the entry of isDdosAnomaly, of which some were dropped.
DdosInv ==
    \A c \in Clients :
        LET entry == request_second_buckets[c]
        IN  /\ entry.bucket \in Seconds
            /\ entry.bucket <= clock
            /\ burst[c][entry.bucket] <= entry.count
            /\ \A s \in Seconds : s > entry.bucket => burst[c][s] = 0

\* The buckets of a connection hold all that was counted for its key.
RequestInv ==
    \A k \in Keys, m \in Minutes :
        counted[k][m] = IF k \in DOMAIN active_connections
                        THEN active_connections[k].request_buckets[m] ELSE 0

\* The workers that may still count a datagram of client c in minute m: it has passed
\* isRateLimitExceeded, and handlePacket has read m from the clock or would read it now.
MayCount(c, m) ==
    {w \in Workers :
        /\ packet[w].ip = c
        /\ \/ pc[w] = "count" /\ MinuteOf(now[w]) = m
           \/ pc[w] \in {"ddos", "lookup", "insert", "handle"} /\ MinuteOf(clock) = m}

\* Those and the datagrams already counted were let through in the same minute, but for
\* the one that each worker had in its hands when the minute began.
CarryInv ==
    /\ \A w \in Workers : now[w] <= clock
    /\ config.enable_rate_limiting =>
         \A c \in Clients, m \in Minutes :
            /\ handled[c][m] + Cardinality(MayCount(c, m))
                  <= admitted[c][m] + Cardinality(Workers)
            /\ m > MinuteOf(clock) => handled[c][m] = 0

\* A worker is past the access lists only with a datagram they admit, and only such a
\* worker makes a bucket or a connection.
TraceInv ==
    /\ \A w \in Workers :
         pc[w] \in PCs \ {"recv", "acl", "cleanup"} => isClientAllowed(packet[w].ip)
    /\ \A c \in Clients : ~isClientAllowed(c) =>
         /\ connection_rate_buckets[c] = Bucket(0, 0)
         /\ request_second_buckets[c] = Bucket(0, 0)
         /\ \A p \in Ports : <<c, p>> \notin DOMAIN active_connections

\* What the limiters and the connection map keep between any two steps of the
\* workers, and from which the limits follow.
AdmissionInv == ConnInv /\ RateInv /\ DdosInv /\ RequestInv /\ TraceInv /\ CarryInv
=============================================================================
