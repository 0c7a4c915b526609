--------------------------- MODULE AdmissionProofs ---------------------------
(***************************************************************************)
(* Proofs about Admission for any number of workers, clients and           *)
(* datagrams, any length of the run and any configuration.  The induction  *)
(* goes over TypeOK with ConnInv first, because a handler's connection is  *)
(* in the map only as long as nothing inactive can be cleaned up, and then *)
(* over each limiter's own invariant.                                      *)
(***************************************************************************)
EXTENDS Admission, FiniteSetTheorems, TLAPS

\* The minutes of the steady clock never go back.
LEMMA MinuteMonotone ==
    ASSUME NEW s \in Nat, NEW t \in Nat, s <= t
    PROVE  /\ MinuteOf(s) \in Nat
           /\ MinuteOf(s) <= MinuteOf(t)
BY ConstantsAssumption DEF MinuteOf

\* Every second is of some minute, which is a natural number.
LEMMA MinuteType ==
    /\ \A t \in Seconds : MinuteOf(t) \in Minutes
    /\ Minutes \subseteq Nat
    /\ 0 \in Seconds /\ 0 \in Minutes
<1>1. \A t \in Seconds : t \in Nat
    BY DEF Seconds
<1>2. \A t \in Seconds : MinuteOf(t) \in Nat
    BY <1>1, MinuteMonotone
<1>3. 0 \in Seconds
    BY ConstantsAssumption DEF Seconds
<1>4. MinuteOf(0) = 0
    BY ConstantsAssumption DEF MinuteOf
<1> QED
    BY <1>2, <1>3, <1>4 DEF Minutes

\* The key of a datagram is one of Keys.
LEMMA KeyType == ASSUME NEW p \in Packets PROVE KeyOf(p) \in Keys /\ p.ip \in Clients
BY DEF Packets, KeyOf, Keys

\* A limiter's entry keeps its type, and is of the period it was last used in.
LEMMA AdvanceType ==
    ASSUME NEW entry \in BucketType, NEW b \in Nat
    PROVE  /\ Advance(entry, b) \in BucketType
           /\ Advance(entry, b).bucket = b
           /\ Advance(entry, b).count =
                IF entry.bucket = b THEN entry.count + 1 ELSE 1
BY DEF Advance, Bucket, BucketType

\* Incr counts one more, in one place.
LEMMA IncrType ==
    ASSUME NEW X, NEW M, NEW f \in [X -> [M -> Nat]], NEW x \in X, NEW m \in M
    PROVE  /\ Incr(f, x, m) \in [X -> [M -> Nat]]
           /\ \A y \in X, n \in M :
                Incr(f, x, m)[y][n] = IF y = x /\ n = m THEN f[y][n] + 1 ELSE f[y][n]
BY DEF Incr
-----------------------------------------------------------------------------
\* In the initial state everything has its type and the map is empty.
LEMMA TypeInit == Init => TypeOK /\ ConnInv
<1> SUFFICES ASSUME Init
             PROVE  TypeOK /\ ConnInv
    OBVIOUS
<1>1. packet \in [Workers -> Packets]
    BY ConstantsAssumption DEF Init
<1>2. DOMAIN active_connections = {}
    BY DEF Init
<1> QED
    BY <1>1, <1>2, MinuteType, ConstantsAssumption
    DEF Init, TypeOK, ConnInv, PCs, BucketType, Bucket

\* A step keeps the types.  Where a step leaves the map and the mutex alone only
\* the worker's own place matters; insertion and cleanup are the two others.
LEMMA TypeStep == TypeOK /\ ConnInv /\ [Next]_vars => TypeOK' /\ ConnInv'
<1> SUFFICES ASSUME TypeOK, ConnInv, [Next]_vars
             PROVE  TypeOK' /\ ConnInv'
    OBVIOUS
<1> USE DEF serverVars, connVars, history, Goto
<1>1. ASSUME Tick
      PROVE  TypeOK' /\ ConnInv'
    BY <1>1, ConstantsAssumption DEF Tick, TypeOK, ConnInv, Seconds
<1>2. ASSUME NEW w \in Workers, Receive(w)
      PROVE  TypeOK' /\ ConnInv'
    BY <1>2, ConstantsAssumption DEF Receive, TypeOK, ConnInv, PCs
<1>3. ASSUME NEW w \in Workers, NoData(w)
      PROVE  TypeOK' /\ ConnInv'
    BY <1>3 DEF NoData, TypeOK, ConnInv, PCs
<1>4. ASSUME NEW w \in Workers, CheckAcl(w)
      PROVE  TypeOK' /\ ConnInv'
    BY <1>4 DEF CheckAcl, TypeOK, ConnInv, PCs
<1>5. ASSUME NEW w \in Workers, CheckRate(w)
      PROVE  TypeOK' /\ ConnInv'
    <2>1. packet[w].ip \in Clients /\ MinuteOf(clock) \in Minutes /\ MinuteOf(clock) \in Nat
        BY KeyType, MinuteType DEF TypeOK
    <2>2. /\ connection_rate_buckets' \in [Clients -> BucketType]
          /\ seen' \in [Clients -> [Minutes -> Nat]]
          /\ admitted' \in [Clients -> [Minutes -> Nat]]
        <3>1. Advance(connection_rate_buckets[packet[w].ip], MinuteOf(clock)) \in BucketType
            BY <2>1, AdvanceType DEF TypeOK
        <3>2. /\ Incr(seen, packet[w].ip, MinuteOf(clock)) \in [Clients -> [Minutes -> Nat]]
              /\ Incr(admitted, packet[w].ip, MinuteOf(clock)) \in [Clients -> [Minutes -> Nat]]
            BY <2>1, IncrType DEF TypeOK
        <3> QED
            BY ZenonT(30), <1>5, <2>1, <3>1, <3>2 DEF CheckRate, TypeOK, rate_now
    <2> QED
        BY ZenonT(30), <1>5, <2>2 DEF CheckRate, TypeOK, ConnInv, PCs
<1>6. ASSUME NEW w \in Workers, CheckDdos(w)
      PROVE  TypeOK' /\ ConnInv'
    <2>1. packet[w].ip \in Clients /\ clock \in Seconds /\ clock \in Nat
        BY KeyType DEF TypeOK, Seconds
    <2>2. /\ request_second_buckets' \in [Clients -> BucketType]
          /\ burst' \in [Clients -> [Seconds -> Nat]]
        <3>1. Advance(request_second_buckets[packet[w].ip], clock) \in BucketType
            BY <2>1, AdvanceType DEF TypeOK
        <3>2. Incr(burst, packet[w].ip, clock) \in [Clients -> [Seconds -> Nat]]
            BY <2>1, IncrType DEF TypeOK
        <3> QED
            BY <1>6, <2>1, <3>1, <3>2 DEF CheckDdos, TypeOK, ddos_now
    <2> QED
        BY ZenonT(30), <1>6, <2>2 DEF CheckDdos, TypeOK, ConnInv, PCs
<1>7. ASSUME NEW w \in Workers, LookupConnection(w)
      PROVE  TypeOK' /\ ConnInv'
    BY ZenonT(30), <1>7, ConstantsAssumption DEF LookupConnection, TypeOK, ConnInv, PCs
<1>8. ASSUME NEW w \in Workers, InsertConnection(w)
      PROVE  TypeOK' /\ ConnInv'
    <2> DEFINE key == KeyOf(packet[w])
    <2>1. key \in Keys
        BY KeyType DEF TypeOK
    <2>2. /\ DOMAIN active_connections' = DOMAIN active_connections \cup {key}
          /\ \A k \in DOMAIN active_connections' :
               active_connections'[k] = IF k = key THEN NewConnection ELSE active_connections[k]
        BY <1>8 DEF InsertConnection
    <2>3. NewConnection \in ConnectionType /\ NewConnection.active
        BY DEF NewConnection, ConnectionType
    <2>4. \A v \in Workers \ {w} : pc'[v] # "insert"
        BY <1>8 DEF InsertConnection, ConnInv, TypeOK
    <2>5. ConnInv'
        BY <1>8, <2>2, <2>3, <2>4 DEF InsertConnection, ConnInv, TypeOK
    <2>6. TypeOK'
        BY <1>8, <2>1, <2>2, <2>3 DEF InsertConnection, TypeOK, PCs
    <2> QED
        BY <2>5, <2>6
<1>9. ASSUME NEW w \in Workers, HandlePacket(w)
      PROVE  TypeOK' /\ ConnInv'
    BY <1>9 DEF HandlePacket, TypeOK, ConnInv, PCs
<1>10. ASSUME NEW w \in Workers, CountRequest(w)
       PROVE  TypeOK' /\ ConnInv'
    <2> DEFINE key == KeyOf(packet[w])
               m == MinuteOf(now[w])
    <2>1. key \in Keys /\ key \in DOMAIN active_connections /\ m \in Minutes
        BY <1>10, KeyType, MinuteType DEF CountRequest, TypeOK
    <2>2. CountIn(active_connections[key].request_buckets, m) \in [Minutes -> Nat]
        BY <2>1 DEF CountIn, TypeOK, ConnectionType
    <2>3. /\ DOMAIN active_connections' = DOMAIN active_connections
          /\ \A k \in DOMAIN active_connections :
               /\ active_connections'[k] \in ConnectionType
               /\ active_connections'[k].active = active_connections[k].active
        BY <1>10, <2>1, <2>2 DEF CountRequest, TypeOK, ConnectionType
    <2>4. /\ counted' \in [Keys -> [Minutes -> Nat]]
          /\ accepted' \in [Keys -> [Minutes -> Nat]]
        BY <1>10, <2>1 DEF CountRequest, TypeOK, Incr
    <2>5. handled' \in [Clients -> [Minutes -> Nat]]
        BY <1>10, <2>1, KeyType DEF CountRequest, TypeOK, Incr
    <2> QED
        BY <1>10, <2>3, <2>4, <2>5 DEF CountRequest, TypeOK, ConnInv, PCs
<1>11. ASSUME NEW w \in Workers, Answer(w)
       PROVE  TypeOK' /\ ConnInv'
    BY <1>11 DEF Answer, TypeOK, ConnInv, PCs
<1>12. ASSUME NEW w \in Workers, CleanupConnections(w)
       PROVE  TypeOK' /\ ConnInv'
    <2> DEFINE inactive == {k \in DOMAIN active_connections : ~active_connections[k].active}
    <2>1. inactive = {} /\ Cardinality(inactive) = 0
        BY FS_EmptySet DEF ConnInv
    <2>2. /\ DOMAIN active_connections' = DOMAIN active_connections
          /\ \A k \in DOMAIN active_connections :
               active_connections'[k] = active_connections[k]
        BY <1>12, <2>1 DEF CleanupConnections
    <2>3. active_count' = active_count
        <3>1. active_count' = active_count - Cardinality(inactive)
            BY <1>12 DEF CleanupConnections
        <3> QED
            BY <2>1, <3>1 DEF TypeOK
    <2> QED
        BY <1>12, <2>2, <2>3 DEF CleanupConnections, TypeOK, ConnInv, PCs
<1>13. CASE UNCHANGED vars
    BY <1>13 DEF vars, TypeOK, ConnInv
<1> QED
    BY <1>1, <1>2, <1>3, <1>4, <1>5, <1>6, <1>7, <1>8, <1>9, <1>10, <1>11, <1>12,
       <1>13 DEF Next, Worker

\* The admission path is type correct: above all, a worker that goes on to handle
\* a datagram finds its client's connection in the map, whatever the other
\* workers look up, insert and clean up meanwhile.
THEOREM TypeCorrect == Spec => [](TypeOK /\ ConnInv)
BY TypeInit, TypeStep, PTL DEF Spec
-----------------------------------------------------------------------------
\* The limits of a configuration are numbers.
LEMMA Limits ==
    ASSUME TypeOK
    PROVE  /\ config.connection_rate_limit_per_minute \in Nat
           /\ config.request_rate_limit_per_minute \in Nat
           /\ config.ddos_anomaly_threshold_per_second \in Nat
           /\ clock \in Nat /\ clock \in Seconds
BY ConstantsAssumption DEF TypeOK, ConfigType, Seconds

\* No step of the admission path changes the configuration.
LEMMA ConfigFixed == [Next]_vars => config' = config
BY DEF Next, vars, Worker, Tick, Receive, NoData, CheckAcl, CheckRate, CheckDdos,
       LookupConnection, InsertConnection, HandlePacket, CountRequest, Answer,
       CleanupConnections

\* isRateLimitExceeded reads the clock under the lock, so an entry never moves
\* back to an earlier minute: a minute once left is never counted again.
LEMMA RateStep ==
    TypeOK /\ RateInv /\ RateLimiterExact /\ [Next]_vars => RateInv' /\ RateLimiterExact'
<1> SUFFICES ASSUME TypeOK, RateInv, RateLimiterExact, [Next]_vars
             PROVE  RateInv' /\ RateLimiterExact'
    OBVIOUS
<1> DEFINE limit == config.connection_rate_limit_per_minute
<1>1. config' = config /\ limit \in Nat /\ clock \in Nat
    BY ConfigFixed, Limits
<1>2. ASSUME UNCHANGED <<connection_rate_buckets, seen, admitted, clock>>
      PROVE  RateInv' /\ RateLimiterExact'
    BY <1>1, <1>2 DEF RateInv, RateLimiterExact
<1>3. ASSUME Tick
      PROVE  RateInv' /\ RateLimiterExact'
    <2>1. MinuteOf(clock) \in Nat /\ MinuteOf(clock') \in Nat /\ MinuteOf(clock) <= MinuteOf(clock')
        BY <1>1, <1>3, MinuteMonotone DEF Tick
    <2>2. UNCHANGED <<connection_rate_buckets, seen, admitted>>
        BY <1>3 DEF Tick, serverVars, history
    <2>3. RateInv'
        <3> SUFFICES ASSUME NEW c \in Clients
                     PROVE  connection_rate_buckets[c].bucket <= MinuteOf(clock')
            BY <2>2 DEF RateInv
        <3>1. /\ connection_rate_buckets[c].bucket \in Nat
              /\ connection_rate_buckets[c].bucket <= MinuteOf(clock)
            BY DEF RateInv, TypeOK, BucketType
        <3> QED
            BY <3>1, <2>1
    <2> QED
        BY <1>1, <2>2, <2>3 DEF RateLimiterExact
<1>4. ASSUME NEW w \in Workers, CheckRate(w)
      PROVE  RateInv' /\ RateLimiterExact'
    <2> DEFINE c == packet[w].ip
               b == MinuteOf(clock)
               old == connection_rate_buckets[c]
               entry == Advance(old, b)
    <2>1. CASE ~config.enable_rate_limiting
        BY <1>2, <1>4, <2>1 DEF CheckRate
    <2>2. CASE config.enable_rate_limiting
        <3>1. c \in Clients /\ b \in Minutes /\ b \in Nat /\ old \in BucketType
            BY KeyType, MinuteType DEF TypeOK
        <3>2. /\ entry.bucket = b
              /\ entry.count = IF old.bucket = b THEN old.count + 1 ELSE 1
            BY <3>1, AdvanceType
        <3>3. /\ old.bucket \in Minutes /\ old.bucket \in Nat /\ old.bucket <= b
              /\ old.count = seen[c][old.bucket]
              /\ \A m \in Minutes : m \in Nat
              /\ \A m \in Minutes : m > old.bucket => seen[c][m] = 0
            BY <3>1, MinuteType DEF RateInv, BucketType
        <3>4. /\ connection_rate_buckets' = [connection_rate_buckets EXCEPT ![c] = entry]
              /\ seen' = Incr(seen, c, b)
              /\ admitted' = IF entry.count > limit THEN admitted ELSE Incr(admitted, c, b)
              /\ clock' = clock
            BY <1>4, <2>2 DEF CheckRate, rate_now
        <3>5. \A d \in Clients, n \in Minutes :
                /\ seen[d][n] \in Nat /\ admitted[d][n] \in Nat
                /\ seen'[d][n] = IF d = c /\ n = b THEN seen[d][n] + 1 ELSE seen[d][n]
                /\ Incr(admitted, c, b)[d][n] =
                     IF d = c /\ n = b THEN admitted[d][n] + 1 ELSE admitted[d][n]
            <4>1. /\ seen \in [Clients -> [Minutes -> Nat]]
                  /\ admitted \in [Clients -> [Minutes -> Nat]]
                BY DEF TypeOK
            <4> HIDE DEF c, b
            <4>2. \A d \in Clients, n \in Minutes :
                    Incr(seen, c, b)[d][n] =
                        IF d = c /\ n = b THEN seen[d][n] + 1 ELSE seen[d][n]
                BY <3>1, <4>1 DEF Incr
            <4>3. \A d \in Clients, n \in Minutes :
                    Incr(admitted, c, b)[d][n] =
                        IF d = c /\ n = b THEN admitted[d][n] + 1 ELSE admitted[d][n]
                BY <3>1, <4>1 DEF Incr
            <4> QED
                BY <3>4, <4>1, <4>2, <4>3
        \* Whether or not the minute is new, the entry counts what was met in it.
        <3>6. entry.count = seen[c][b] + 1
            <4>1. CASE old.bucket = b
                BY <4>1, <3>2, <3>3
            <4>2. CASE old.bucket # b
                <5>1. b > old.bucket
                    <6> HIDE DEF b, old
                    <6> QED
                        BY <4>2, <3>1, <3>3
                <5> QED
                    BY <5>1, <4>2, <3>1, <3>2, <3>3
            <4> QED
                BY <4>1, <4>2
        <3>7. RateLimiterExact'
            <4> SUFFICES ASSUME NEW d \in Clients, NEW n \in Minutes
                         PROVE  admitted'[d][n] = AtMost(seen'[d][n], limit)
                BY <1>1 DEF RateLimiterExact, AtMost
            <4>1. admitted[d][n] = AtMost(seen[d][n], limit)
                BY DEF RateLimiterExact
            <4> QED
                BY <4>1, <1>1, <3>4, <3>5, <3>6 DEF AtMost
        <3>8. RateInv'
            <4> SUFFICES ASSUME NEW d \in Clients
                         PROVE  /\ connection_rate_buckets'[d].bucket \in Minutes
                                /\ connection_rate_buckets'[d].bucket <= b
                                /\ connection_rate_buckets'[d].count
                                     = seen'[d][connection_rate_buckets'[d].bucket]
                                /\ \A m \in Minutes : m > connection_rate_buckets'[d].bucket
                                     => seen'[d][m] = 0
                BY <3>4 DEF RateInv
            <4>1. CASE d = c
                <5>1. connection_rate_buckets'[d] = entry
                    BY <4>1, <3>1, <3>4 DEF TypeOK
                <5>2. \A m \in Minutes : m > b => m # b /\ m > old.bucket
                    <6> TAKE m \in Minutes
                    <6>1. m \in Nat /\ b \in Nat /\ old.bucket \in Nat /\ old.bucket <= b
                        BY <3>1, <3>3
                    <6> HIDE DEF b, old
                    <6> QED
                        BY <6>1
                <5>3. entry.bucket = b /\ b \in Minutes /\ b <= b
                    BY <3>1, <3>2
                <5>4. entry.count = seen'[c][b]
                    BY <3>1, <3>5, <3>6
                <5>5. ASSUME NEW m \in Minutes, m > b
                      PROVE  seen'[c][m] = 0
                    <6>1. m # b /\ seen[c][m] = 0
                        BY <5>2, <5>5, <3>3
                    <6> QED
                        BY <3>1, <3>5, <6>1
                <5> HIDE DEF b, c, entry
                <5> QED
                    BY <4>1, <5>1, <5>3, <5>4, <5>5
            <4>2. CASE d # c
                <5>1. connection_rate_buckets'[d] = connection_rate_buckets[d]
                    BY <4>2, <3>4 DEF TypeOK
                <5> QED
                    BY <4>2, <5>1, <3>5 DEF RateInv
            <4> QED
                BY <4>1, <4>2
        <3> QED
            BY <3>7, <3>8
    <2> QED
        BY <2>1, <2>2
<1>5. ASSUME NEW w \in Workers, Worker(w), ~CheckRate(w)
      PROVE  RateInv' /\ RateLimiterExact'
    BY <1>2, <1>5
    DEF Worker, Receive, NoData, CheckAcl, CheckDdos, LookupConnection, InsertConnection,
        HandlePacket, CountRequest, Answer, CleanupConnections, serverVars, history
<1>6. CASE UNCHANGED vars
    BY <1>2, <1>6 DEF vars, serverVars, history
<1> QED
    BY <1>3, <1>4, <1>5, <1>6 DEF Next

\* isRateLimitExceeded is an exact fixed-window limiter for any number of workers
\* that call it at the same time, any limit and any length of the minute.
THEOREM RateLimiterCorrect == Spec => []RateLimiterExact
<1>1. Init => RateInv /\ RateLimiterExact
    <2> SUFFICES ASSUME Init
                 PROVE  RateInv /\ RateLimiterExact
        OBVIOUS
    <2>1. TypeOK
        BY TypeInit
    <2>2. MinuteOf(clock) \in Nat
        BY <2>1, Limits, MinuteMonotone
    <2>3. RateInv
        BY <2>2, MinuteType DEF Init, RateInv, Bucket
    <2> QED
        BY <2>1, <2>3, Limits DEF Init, RateLimiterExact, AtMost
<1> QED
    BY <1>1, RateStep, TypeCorrect, PTL DEF Spec
-----------------------------------------------------------------------------
\* isDdosAnomaly reads the clock under the lock too: an entry never moves back to an
\* earlier second, and what it let through in its second is not more than it counted.
LEMMA DdosStep ==
    TypeOK /\ DdosInv /\ DdosBurstBounded /\ [Next]_vars => DdosInv' /\ DdosBurstBounded'
<1> SUFFICES ASSUME TypeOK, DdosInv, DdosBurstBounded, [Next]_vars
             PROVE  DdosInv' /\ DdosBurstBounded'
    OBVIOUS
<1> DEFINE limit == config.ddos_anomaly_threshold_per_second
<1>1. config' = config /\ limit \in Nat /\ clock \in Nat /\ clock \in Seconds
    BY ConfigFixed, Limits
<1>2. ASSUME UNCHANGED <<request_second_buckets, burst, clock>>
      PROVE  DdosInv' /\ DdosBurstBounded'
    BY <1>1, <1>2 DEF DdosInv, DdosBurstBounded
<1>3. ASSUME Tick
      PROVE  DdosInv' /\ DdosBurstBounded'
    <2>1. UNCHANGED <<request_second_buckets, burst>> /\ clock' = clock + 1
        BY <1>3 DEF Tick, serverVars, history
    <2>2. \A c \in Clients : request_second_buckets[c].bucket \in Nat
        BY DEF TypeOK, BucketType
    <2> QED
        BY <1>1, <2>1, <2>2 DEF DdosInv, DdosBurstBounded
<1>4. ASSUME NEW w \in Workers, CheckDdos(w)
      PROVE  DdosInv' /\ DdosBurstBounded'
    <2> DEFINE c == packet[w].ip
               old == request_second_buckets[c]
               entry == Advance(old, clock)
               dropped == entry.count > limit /\ config.enable_graceful_degradation
    <2>1. CASE ~config.enable_ddos_protection
        BY <1>2, <1>4, <2>1 DEF CheckDdos
    <2>2. CASE config.enable_ddos_protection
        <3>1. c \in Clients /\ old \in BucketType
            BY KeyType DEF TypeOK
        <3>2. /\ entry.bucket = clock
              /\ entry.count = IF old.bucket = clock THEN old.count + 1 ELSE 1
            BY <1>1, <3>1, AdvanceType
        <3>3. /\ old.bucket \in Seconds /\ old.bucket \in Nat /\ old.bucket <= clock
              /\ burst[c][old.bucket] <= old.count /\ old.count \in Nat
              /\ \A s \in Seconds : s \in Nat
              /\ \A s \in Seconds : s > old.bucket => burst[c][s] = 0
            BY <3>1 DEF DdosInv, BucketType, Seconds
        <3>4. /\ request_second_buckets' = [request_second_buckets EXCEPT ![c] = entry]
              /\ burst' = IF dropped THEN burst ELSE Incr(burst, c, clock)
              /\ clock' = clock
            BY <1>4, <2>2 DEF CheckDdos, ddos_now
        <3>5. \A d \in Clients, s \in Seconds :
                /\ burst[d][s] \in Nat
                /\ burst'[d][s] = IF d = c /\ s = clock /\ ~dropped THEN burst[d][s] + 1
                                  ELSE burst[d][s]
            <4>1. burst \in [Clients -> [Seconds -> Nat]]
                BY DEF TypeOK
            <4> HIDE DEF c
            <4>2. \A d \in Clients, s \in Seconds :
                    Incr(burst, c, clock)[d][s] =
                        IF d = c /\ s = clock THEN burst[d][s] + 1 ELSE burst[d][s]
                BY <1>1, <3>1, <4>1 DEF Incr
            <4> HIDE DEF dropped
            <4> QED
                BY <3>4, <4>1, <4>2
        \* Whether or not the second is new, the entry has counted all it let through.
        <3>6. burst[c][clock] + 1 <= entry.count
            <4>1. CASE old.bucket = clock
                BY <4>1, <1>1, <3>1, <3>2, <3>3, <3>5
            <4>2. CASE old.bucket # clock
                <5>1. clock > old.bucket
                    <6> HIDE DEF old
                    <6> QED
                        BY <4>2, <1>1, <3>3
                <5> QED
                    BY <5>1, <4>2, <1>1, <3>2, <3>3
            <4> QED
                BY <4>1, <4>2
        <3>7. DdosBurstBounded'
            <4> SUFFICES ASSUME config.enable_graceful_degradation,
                                NEW d \in Clients, NEW s \in Seconds
                         PROVE  burst'[d][s] <= limit
                BY <1>1 DEF DdosBurstBounded
            <4>1. burst[d][s] <= limit
                BY DEF DdosBurstBounded
            <4>2. entry.count \in Nat /\ (~dropped => entry.count <= limit)
                BY <1>1, <3>2, <3>3
            <4> HIDE DEF c, entry, dropped, limit
            <4> QED
                BY <4>1, <4>2, <1>1, <3>1, <3>5, <3>6
        <3>8. DdosInv'
            <4> SUFFICES ASSUME NEW d \in Clients
                         PROVE  /\ request_second_buckets'[d].bucket \in Seconds
                                /\ request_second_buckets'[d].bucket <= clock
                                /\ burst'[d][request_second_buckets'[d].bucket]
                                     <= request_second_buckets'[d].count
                                /\ \A s \in Seconds : s > request_second_buckets'[d].bucket
                                     => burst'[d][s] = 0
                BY <3>4 DEF DdosInv
            <4>1. CASE d = c
                <5>1. request_second_buckets'[d] = entry
                    BY <4>1, <3>1, <3>4 DEF TypeOK
                <5>2. \A s \in Seconds : s > clock => s # clock /\ s > old.bucket
                    <6> TAKE s \in Seconds
                    <6>1. s \in Nat /\ clock \in Nat /\ old.bucket \in Nat /\ old.bucket <= clock
                        BY <1>1, <3>3
                    <6> HIDE DEF old
                    <6> QED
                        BY <6>1
                <5>3. burst'[c][clock] <= entry.count
                    <6>1. entry.count \in Nat
                        BY <3>2, <3>3
                    <6> HIDE DEF c, entry, dropped
                    <6> QED
                        BY <6>1, <1>1, <3>1, <3>5, <3>6
                <5>4. entry.bucket = clock /\ clock \in Seconds /\ clock <= clock
                    BY <1>1, <3>2
                <5>5. ASSUME NEW s \in Seconds, s > clock
                      PROVE  burst'[c][s] = 0
                    <6>1. s # clock /\ burst[c][s] = 0
                        BY <5>2, <5>5, <3>3
                    <6> QED
                        BY <3>1, <3>5, <6>1
                <5> HIDE DEF c, entry
                <5> QED
                    BY <4>1, <5>1, <5>3, <5>4, <5>5
            <4>2. CASE d # c
                <5>1. request_second_buckets'[d] = request_second_buckets[d]
                    BY <4>2, <3>4 DEF TypeOK
                <5> QED
                    BY <4>2, <5>1, <3>5 DEF DdosInv
            <4> QED
                BY <4>1, <4>2
        <3> QED
            BY <3>7, <3>8
    <2> QED
        BY <2>1, <2>2
<1>5. ASSUME NEW w \in Workers, Worker(w), ~CheckDdos(w)
      PROVE  DdosInv' /\ DdosBurstBounded'
    BY <1>2, <1>5
    DEF Worker, Receive, NoData, CheckAcl, CheckRate, LookupConnection, InsertConnection,
        HandlePacket, CountRequest, Answer, CleanupConnections, serverVars, history
<1>6. CASE UNCHANGED vars
    BY <1>2, <1>6 DEF vars, serverVars, history
<1> QED
    BY <1>3, <1>4, <1>5, <1>6 DEF Next

\* With graceful degradation no client gets more datagrams past isDdosAnomaly in one
\* second than the threshold, for any number of workers and any threshold.
THEOREM BurstsBounded == Spec => []DdosBurstBounded
<1>1. Init => DdosInv /\ DdosBurstBounded
    <2> SUFFICES ASSUME Init
                 PROVE  DdosInv /\ DdosBurstBounded
        OBVIOUS
    <2>1. TypeOK
        BY TypeInit
    <2> QED
        BY <2>1, MinuteType, Limits DEF Init, DdosInv, DdosBurstBounded, Bucket
<1> QED
    BY <1>1, DdosStep, TypeCorrect, PTL DEF Spec
-----------------------------------------------------------------------------
\* A connection is made only for a key that has none and is never removed, so
\* the buckets of a key are never reset.
LEMMA RequestStep ==
    TypeOK /\ ConnInv /\ RequestInv /\ RequestLimiterExact /\ [Next]_vars
        => RequestInv' /\ RequestLimiterExact'
<1> SUFFICES ASSUME TypeOK, ConnInv, RequestInv, RequestLimiterExact, [Next]_vars
             PROVE  RequestInv' /\ RequestLimiterExact'
    OBVIOUS
<1> DEFINE limit == config.request_rate_limit_per_minute
<1>1. config' = config /\ limit \in Nat
    BY ConfigFixed, Limits
<1>2. ASSUME UNCHANGED <<counted, accepted>>,
             DOMAIN active_connections' = DOMAIN active_connections,
             \A k \in DOMAIN active_connections :
                active_connections'[k] = active_connections[k]
      PROVE  RequestInv' /\ RequestLimiterExact'
    BY <1>1, <1>2 DEF RequestInv, RequestLimiterExact
<1>3. ASSUME NEW w \in Workers, InsertConnection(w)
      PROVE  RequestInv' /\ RequestLimiterExact'
    <2> DEFINE key == KeyOf(packet[w])
    <2>1. key \notin DOMAIN active_connections
        BY <1>3 DEF InsertConnection, ConnInv
    <2>2. /\ DOMAIN active_connections' = DOMAIN active_connections \cup {key}
          /\ \A k \in DOMAIN active_connections' :
               active_connections'[k] = IF k = key THEN NewConnection ELSE active_connections[k]
          /\ UNCHANGED <<counted, accepted>>
        BY <1>3 DEF InsertConnection, history
    <2>3. \A m \in Minutes : NewConnection.request_buckets[m] = 0
        BY DEF NewConnection
    <2>4. RequestInv'
        BY <2>1, <2>2, <2>3 DEF RequestInv
    <2> QED
        BY <1>1, <2>2, <2>4 DEF RequestLimiterExact
<1>4. ASSUME NEW w \in Workers, CountRequest(w)
      PROVE  RequestInv' /\ RequestLimiterExact'
    <2> DEFINE key == KeyOf(packet[w])
               b == MinuteOf(now[w])
               old == active_connections[key].request_buckets
    <2>1. CASE ~config.enable_rate_limiting
        BY <1>2, <1>4, <2>1 DEF CountRequest
    <2>2. CASE config.enable_rate_limiting
        <3>1. key \in Keys /\ key \in DOMAIN active_connections /\ b \in Minutes
            BY <1>4, KeyType, MinuteType DEF CountRequest, TypeOK
        <3>2. old \in [Minutes -> Nat]
            BY <3>1 DEF TypeOK, ConnectionType
        <3>3. /\ active_connections' =
                   [active_connections EXCEPT ![key].request_buckets = CountIn(old, b)]
              /\ counted' = Incr(counted, key, b)
              /\ accepted' = IF CountIn(old, b)[b] > limit
                             THEN accepted ELSE Incr(accepted, key, b)
            BY <1>4, <2>2 DEF CountRequest
        <3>4. /\ counted \in [Keys -> [Minutes -> Nat]]
              /\ accepted \in [Keys -> [Minutes -> Nat]]
            BY DEF TypeOK
        <3>5. CountIn(old, b) = [old EXCEPT ![b] = @ + 1]
            BY DEF CountIn
        <3>6. old[b] = counted[key][b]
            BY <3>1 DEF RequestInv
        <3>7. \A k \in DOMAIN active_connections :
                 active_connections'[k].request_buckets =
                    IF k = key THEN CountIn(old, b)
                               ELSE active_connections[k].request_buckets
            BY <3>1, <3>3 DEF TypeOK, ConnectionType
        <3>8. DOMAIN active_connections' = DOMAIN active_connections
            BY <3>3
        <3> HIDE DEF key, b, old, limit
        <3>9. \A k \in Keys, n \in Minutes :
                counted'[k][n] = IF k = key /\ n = b THEN counted[k][n] + 1 ELSE counted[k][n]
            BY <3>1, <3>3, <3>4 DEF Incr
        <3>10. \A k \in Keys, n \in Minutes :
                Incr(accepted, key, b)[k][n] =
                    IF k = key /\ n = b THEN accepted[k][n] + 1 ELSE accepted[k][n]
            BY <3>1, <3>4 DEF Incr
        <3>11. \A n \in Minutes : CountIn(old, b)[n] = IF n = b THEN old[n] + 1 ELSE old[n]
            BY <3>1, <3>2, <3>5
        <3>12. RequestInv'
            <4> SUFFICES ASSUME NEW k \in Keys, NEW n \in Minutes
                         PROVE  counted'[k][n] =
                                    IF k \in DOMAIN active_connections
                                    THEN active_connections'[k].request_buckets[n] ELSE 0
                BY <3>8 DEF RequestInv
            <4>1. counted[k][n] = IF k \in DOMAIN active_connections
                                  THEN active_connections[k].request_buckets[n] ELSE 0
                BY DEF RequestInv
            <4>2. key \in DOMAIN active_connections /\ old = active_connections[key].request_buckets
                BY <3>1 DEF old
            <4> QED
                BY <4>1, <4>2, <3>7, <3>9, <3>11
        <3>13. RequestLimiterExact'
            <4> SUFFICES ASSUME NEW k \in Keys, NEW n \in Minutes
                         PROVE  accepted'[k][n] = AtMost(counted'[k][n], limit)
                BY <1>1 DEF RequestLimiterExact, AtMost, limit
            <4>1. /\ accepted[k][n] = AtMost(counted[k][n], limit)
                  /\ counted[k][n] \in Nat /\ limit \in Nat
                BY <3>4, <1>1 DEF RequestLimiterExact, limit
            <4>2. CountIn(old, b)[b] = counted[key][b] + 1
                BY <3>1, <3>6, <3>11
            <4> QED
                BY <4>1, <4>2, <3>3, <3>9, <3>10 DEF AtMost
        <3> QED
            BY <3>12, <3>13
    <2> QED
        BY <2>1, <2>2
<1>5. ASSUME NEW w \in Workers, CleanupConnections(w)
      PROVE  RequestInv' /\ RequestLimiterExact'
    <2>1. {k \in DOMAIN active_connections : ~active_connections[k].active} = {}
        BY DEF ConnInv
    <2> QED
        BY <1>2, <1>5, <2>1 DEF CleanupConnections, history
<1>6. ASSUME Tick \/ \E w \in Workers :
                  \/ Receive(w) \/ NoData(w) \/ CheckAcl(w) \/ CheckRate(w) \/ CheckDdos(w)
                  \/ LookupConnection(w) \/ HandlePacket(w) \/ Answer(w)
      PROVE  RequestInv' /\ RequestLimiterExact'
    BY <1>2, <1>6
    DEF Tick, Receive, NoData, CheckAcl, CheckRate, CheckDdos, LookupConnection,
        HandlePacket, Answer, connVars, history
<1>7. CASE UNCHANGED vars
    BY <1>2, <1>7 DEF vars, connVars, history
<1> QED
    BY <1>3, <1>4, <1>5, <1>6, <1>7 DEF Next, Worker

\* handlePacket's limiter is exact for every connection and every minute,
\* although the minute is read before rate_limit_mutex_ is taken.
THEOREM RequestLimiterCorrect == Spec => []RequestLimiterExact
<1>1. Init => RequestInv /\ RequestLimiterExact
    <2> SUFFICES ASSUME Init
                 PROVE  RequestInv /\ RequestLimiterExact
        OBVIOUS
    <2>1. TypeOK
        BY TypeInit
    <2>2. DOMAIN active_connections = {}
        BY DEF Init
    <2>3. RequestInv
        BY <2>2 DEF Init, RequestInv
    <2> QED
        BY <2>1, <2>3, Limits DEF Init, RequestLimiterExact, AtMost
<1> QED
    BY <1>1, RequestStep, TypeCorrect, PTL DEF Spec
-----------------------------------------------------------------------------
\* The workers that may still count are finitely many, and not more than there are.
LEMMA MayCountFinite ==
    ASSUME NEW c, NEW m
    PROVE  /\ IsFiniteSet(MayCount(c, m))
           /\ Cardinality(MayCount(c, m)) \in Nat
           /\ Cardinality(MayCount(c, m)) <= Cardinality(Workers)
           /\ Cardinality(Workers) \in Nat
<1>1. MayCount(c, m) \subseteq Workers
    BY DEF MayCount
<1>2. IsFiniteSet(Workers)
    BY ConstantsAssumption
<1> QED
    BY <1>1, <1>2, FS_Subset, FS_CardinalityType

\* No other step of a worker adds to those that may count.
LEMMA OthersStay ==
    ASSUME TypeOK, NEW w \in Workers, Worker(w), ~CheckRate(w), NEW c, NEW m
    PROVE  MayCount(c, m)' \subseteq MayCount(c, m)
<1> USE DEF MayCount, Goto
<1>1. clock' = clock
    BY DEF Worker, Receive, NoData, CheckAcl, CheckRate, CheckDdos, LookupConnection,
           InsertConnection, HandlePacket, CountRequest, Answer, CleanupConnections
<1>2. pc \in [Workers -> PCs] /\ packet \in [Workers -> Packets] /\ now \in [Workers -> Seconds]
    BY DEF TypeOK
<1>3. CASE Receive(w)
    BY <1>1, <1>2, <1>3 DEF Receive
<1>4. CASE NoData(w) \/ CheckAcl(w) \/ Answer(w) \/ CleanupConnections(w)
    <2>1. CASE CheckAcl(w)
        BY <1>1, <1>2, <2>1 DEF CheckAcl
    <2>2. CASE ~CheckAcl(w)
        BY <1>1, <1>2, <1>4, <2>2 DEF NoData, Answer, CleanupConnections
    <2> QED
        BY <2>1, <2>2
<1>5. CASE CheckDdos(w)
    <2>1. /\ pc[w] = "ddos" /\ UNCHANGED <<packet, now>>
          /\ pc' = [pc EXCEPT ![w] = "lookup"] \/ pc' = [pc EXCEPT ![w] = "recv"]
        BY <1>5 DEF CheckDdos
    <2> QED
        BY <1>1, <1>2, <2>1
<1>6. CASE LookupConnection(w)
    BY <1>1, <1>2, <1>6 DEF LookupConnection
<1>7. CASE InsertConnection(w)
    <2>1. pc[w] = "insert" /\ pc' = [pc EXCEPT ![w] = "handle"] /\ UNCHANGED <<packet, now>>
        BY <1>7 DEF InsertConnection
    <2> QED
        BY <1>1, <1>2, <2>1
<1>8. CASE HandlePacket(w)
    BY <1>1, <1>2, <1>8 DEF HandlePacket
<1>9. CASE CountRequest(w)
    <2>1. /\ pc[w] = "count" /\ UNCHANGED <<packet, now>>
          /\ pc' = [pc EXCEPT ![w] = "recv"] \/ pc' = [pc EXCEPT ![w] = "served"]
        BY <1>9 DEF CountRequest
    <2> QED
        BY <1>1, <1>2, <2>1
<1> QED
    BY <1>3, <1>4, <1>5, <1>6, <1>7, <1>8, <1>9 DEF Worker

\* What is counted in a minute and those that may still count in it grow only with what is
\* let through in it.  When a minute begins nothing is counted in it, and every worker may
\* have one datagram in its hands.
LEMMA CarryStep == TypeOK /\ CarryInv /\ [Next]_vars => CarryInv'
<1> SUFFICES ASSUME TypeOK, CarryInv, [Next]_vars
             PROVE  CarryInv'
    OBVIOUS
<1>1. /\ clock \in Nat /\ config' = config
      /\ \A t \in Seconds : t \in Nat /\ MinuteOf(t) \in Nat
      /\ \A s \in Nat, t \in Nat : s <= t => MinuteOf(s) <= MinuteOf(t)
    BY ConfigFixed, Limits, MinuteMonotone DEF Seconds
<1>2. /\ now \in [Workers -> Seconds] /\ packet \in [Workers -> Packets]
      /\ pc \in [Workers -> PCs]
      /\ \A w \in Workers : packet[w].ip \in Clients
      /\ \A c \in Clients, m \in Minutes :
           handled[c][m] \in Nat /\ admitted[c][m] \in Nat
      /\ Minutes \subseteq Nat
    BY KeyType, MinuteType DEF TypeOK
\* The workers' times stay behind the clock.
<1>3. \A w \in Workers : now'[w] <= clock'
    <2>1. ASSUME NEW w \in Workers, HandlePacket(w)
          PROVE  \A x \in Workers : now'[x] <= clock'
        BY <1>1, <1>2, <2>1 DEF HandlePacket, CarryInv
    <2>2. CASE UNCHANGED <<now, clock>>
        BY <2>2 DEF CarryInv
    <2>3. CASE Tick
        BY <1>1, <1>2, <2>3 DEF Tick, CarryInv, Seconds
    <2>4. ASSUME NEW w \in Workers, Worker(w), ~HandlePacket(w)
          PROVE  UNCHANGED <<now, clock>>
        BY <2>4 DEF Worker, Receive, NoData, CheckAcl, CheckRate, CheckDdos,
            LookupConnection, InsertConnection, CountRequest, Answer, CleanupConnections
    <2>5. CASE UNCHANGED vars
        BY <2>2, <2>5 DEF vars
    <2> QED
        BY <2>1, <2>2, <2>3, <2>4, <2>5 DEF Next
<1>4. SUFFICES ASSUME config.enable_rate_limiting, NEW c \in Clients, NEW m \in Minutes
               PROVE  /\ handled'[c][m] + Cardinality(MayCount(c, m)')
                            <= admitted'[c][m] + Cardinality(Workers)
                      /\ m > MinuteOf(clock') => handled'[c][m] = 0
    BY <1>1, <1>3 DEF CarryInv
<1>5. /\ handled[c][m] + Cardinality(MayCount(c, m)) <= admitted[c][m] + Cardinality(Workers)
      /\ m > MinuteOf(clock) => handled[c][m] = 0
      /\ handled[c][m] \in Nat /\ admitted[c][m] \in Nat /\ m \in Nat
    BY <1>2, <1>4 DEF CarryInv
<1>6. /\ IsFiniteSet(MayCount(c, m)) /\ Cardinality(MayCount(c, m)) \in Nat
      /\ Cardinality(MayCount(c, m)') \in Nat
      /\ Cardinality(MayCount(c, m)') <= Cardinality(Workers)
      /\ Cardinality(Workers) \in Nat
    <2>1. MayCount(c, m)' \subseteq Workers
        BY DEF MayCount
    <2>2. IsFiniteSet(Workers)
        BY ConstantsAssumption
    <2> QED
        BY <2>1, <2>2, MayCountFinite, FS_Subset, FS_CardinalityType
<1>7. ASSUME MayCount(c, m)' \subseteq MayCount(c, m)
      PROVE  Cardinality(MayCount(c, m)') <= Cardinality(MayCount(c, m))
    BY <1>6, <1>7, FS_Subset
<1>8. CASE UNCHANGED vars
    <2>1. MayCount(c, m)' = MayCount(c, m)
        BY <1>8 DEF vars, MayCount
    <2> QED
        BY <1>5, <1>8, <2>1 DEF vars, history
<1>9. CASE Tick
    <2>1. UNCHANGED <<pc, packet, now, handled, admitted>> /\ clock' = clock + 1
        BY <1>9 DEF Tick, history
    <2>2. /\ MinuteOf(clock) \in Nat /\ MinuteOf(clock') \in Nat
          /\ MinuteOf(clock) <= MinuteOf(clock')
        BY <1>1, <2>1, MinuteMonotone
    <2>3. CASE m > MinuteOf(clock)
        BY <1>5, <1>6, <2>1, <2>2, <2>3
    <2>4. CASE m <= MinuteOf(clock)
        <3>1. MayCount(c, m)' \subseteq MayCount(c, m)
            <4>1. MinuteOf(clock') = m => MinuteOf(clock) = m
                BY <1>5, <2>2, <2>4
            <4> QED
                BY <2>1, <4>1 DEF MayCount
        <3> QED
            BY <1>5, <1>6, <1>7, <2>1, <2>2, <2>4, <3>1
    <2> QED
        BY <1>1, <1>5, <2>2, <2>3, <2>4
<1>10. ASSUME NEW w \in Workers, CheckRate(w)
       PROVE  /\ handled'[c][m] + Cardinality(MayCount(c, m)')
                    <= admitted'[c][m] + Cardinality(Workers)
              /\ m > MinuteOf(clock') => handled'[c][m] = 0
    <2> DEFINE d == packet[w].ip
               b == MinuteOf(clock)
    <2>1. /\ pc[w] = "rate" /\ UNCHANGED <<clock, handled, packet, now>>
          /\ \/ admitted' = admitted /\ pc' = [pc EXCEPT ![w] = "recv"]
             \/ admitted' = Incr(admitted, d, b) /\ pc' = [pc EXCEPT ![w] = "ddos"]
        BY <1>4, <1>10 DEF CheckRate, Goto
    <2>2. CASE admitted' = admitted /\ pc' = [pc EXCEPT ![w] = "recv"]
        <3>1. MayCount(c, m)' \subseteq MayCount(c, m)
            BY <1>2, <2>1, <2>2 DEF MayCount
        <3> QED
            BY <1>5, <1>6, <1>7, <2>1, <2>2, <3>1
    <2>3. CASE admitted' = Incr(admitted, d, b) /\ pc' = [pc EXCEPT ![w] = "ddos"]
        <3>1. d \in Clients /\ b \in Minutes
            BY <1>2, MinuteType DEF TypeOK
        <3>2. admitted'[c][m] = IF c = d /\ m = b THEN admitted[c][m] + 1 ELSE admitted[c][m]
            <4>1. admitted \in [Clients -> [Minutes -> Nat]]
                BY DEF TypeOK
            <4> HIDE DEF d, b
            <4>2. \A x \in Clients, n \in Minutes :
                    Incr(admitted, d, b)[x][n] =
                        IF x = d /\ n = b THEN admitted[x][n] + 1 ELSE admitted[x][n]
                BY <3>1, <4>1 DEF Incr
            <4> QED
                BY <2>3, <4>2
        <3>3. CASE c = d /\ m = b
            <4>1. MayCount(c, m)' \subseteq MayCount(c, m) \cup {w}
                BY <1>2, <2>1, <2>3 DEF MayCount
            <4>2. Cardinality(MayCount(c, m)') <= Cardinality(MayCount(c, m)) + 1
                <5>1. /\ IsFiniteSet(MayCount(c, m) \cup {w})
                      /\ Cardinality(MayCount(c, m) \cup {w})
                           \in {Cardinality(MayCount(c, m)), Cardinality(MayCount(c, m)) + 1}
                    BY <1>6, FS_AddElement
                <5>2. Cardinality(MayCount(c, m)') <= Cardinality(MayCount(c, m) \cup {w})
                    BY <4>1, <5>1, FS_Subset
                <5> QED
                    BY <1>6, <5>1, <5>2
            <4> QED
                BY <1>5, <1>6, <2>1, <3>2, <3>3, <4>2
        <3>4. CASE ~(c = d /\ m = b)
            <4>1. MayCount(c, m)' \subseteq MayCount(c, m)
                BY <1>2, <2>1, <2>3, <3>4 DEF MayCount
            <4> QED
                BY <1>5, <1>6, <1>7, <2>1, <3>2, <3>4, <4>1
        <3> QED
            BY <3>3, <3>4
    <2> QED
        BY <2>1, <2>2, <2>3
<1>11. ASSUME NEW w \in Workers, CountRequest(w)
       PROVE  /\ handled'[c][m] + Cardinality(MayCount(c, m)')
                    <= admitted'[c][m] + Cardinality(Workers)
              /\ m > MinuteOf(clock') => handled'[c][m] = 0
    <2> DEFINE d == packet[w].ip
               b == MinuteOf(now[w])
    <2>1. /\ pc[w] = "count" /\ UNCHANGED <<clock, admitted, packet, now>>
          /\ handled' = Incr(handled, d, b)
          /\ pc' = [pc EXCEPT ![w] = "recv"] \/ pc' = [pc EXCEPT ![w] = "served"]
        BY <1>4, <1>11 DEF CountRequest, Goto
    <2>2. MayCount(c, m)' \subseteq MayCount(c, m) \ {w}
        BY <1>2, <2>1 DEF MayCount
    <2>3. d \in Clients /\ b \in Minutes
        BY <1>2, MinuteType
    <2>4. handled'[c][m] = IF c = d /\ m = b THEN handled[c][m] + 1 ELSE handled[c][m]
        <3>1. handled \in [Clients -> [Minutes -> Nat]]
            BY DEF TypeOK
        <3> HIDE DEF d, b
        <3>2. \A x \in Clients, n \in Minutes :
                Incr(handled, d, b)[x][n] =
                    IF x = d /\ n = b THEN handled[x][n] + 1 ELSE handled[x][n]
            BY <2>3, <3>1 DEF Incr
        <3> QED
            BY <2>1, <3>2
    <2>5. b <= MinuteOf(clock) /\ b \in Nat /\ MinuteOf(clock) \in Nat
        <3>1. now[w] \in Nat /\ now[w] <= clock
            BY <1>1, <1>2 DEF CarryInv
        <3> QED
            BY <1>1, <3>1, MinuteMonotone
    <2>6. CASE c = d /\ m = b
        <3>1. w \in MayCount(c, m)
            BY <2>1, <2>6 DEF MayCount
        <3>2. Cardinality(MayCount(c, m)') <= Cardinality(MayCount(c, m)) - 1
            <4>1. /\ IsFiniteSet(MayCount(c, m) \ {w})
                  /\ Cardinality(MayCount(c, m) \ {w}) = Cardinality(MayCount(c, m)) - 1
                BY <1>6, <3>1, FS_RemoveElement
            <4> QED
                BY <2>2, <4>1, FS_Subset
        <3> QED
            BY <1>5, <1>6, <2>1, <2>4, <2>5, <2>6, <3>2
    <2>7. CASE ~(c = d /\ m = b)
        <3>1. MayCount(c, m)' \subseteq MayCount(c, m)
            BY <2>2
        <3> QED
            BY <1>5, <1>6, <1>7, <2>1, <2>4, <2>7, <3>1
    <2> QED
        BY <2>6, <2>7
<1>12. ASSUME NEW w \in Workers, Worker(w), ~CheckRate(w), ~CountRequest(w)
       PROVE  /\ handled'[c][m] + Cardinality(MayCount(c, m)')
                    <= admitted'[c][m] + Cardinality(Workers)
              /\ m > MinuteOf(clock') => handled'[c][m] = 0
    <2>1. UNCHANGED <<clock, handled, admitted>>
        BY <1>12 DEF Worker, Receive, NoData, CheckAcl, CheckDdos, LookupConnection,
            InsertConnection, HandlePacket, Answer, CleanupConnections, history
    <2>2. MayCount(c, m)' \subseteq MayCount(c, m)
        BY <1>12, OthersStay
    <2> QED
        BY <1>5, <1>6, <1>7, <2>1, <2>2
<1> QED
    BY <1>8, <1>9, <1>10, <1>11, <1>12 DEF Next

\* The handlers count at most connection_rate_limit_per_minute datagrams of a client in a
\* minute, whatever ports it uses, and one more for each worker that carried one over from
\* an earlier minute: for any workers, limits, clients and clock.
THEOREM ClientsBounded == Spec => []ClientMinuteBound
<1>1. Init => CarryInv
    <2> SUFFICES ASSUME Init
                 PROVE  CarryInv
        OBVIOUS
    <2>1. ASSUME NEW c \in Clients, NEW m \in Minutes
          PROVE  handled[c][m] = 0 /\ admitted[c][m] = 0
        BY DEF Init
    <2>2. \A w \in Workers : now[w] <= clock
        BY DEF Init
    <2> QED
        BY <2>1, <2>2, MayCountFinite DEF CarryInv
<1>2. TypeOK /\ RateLimiterExact /\ CarryInv => ClientMinuteBound
    <2> SUFFICES ASSUME TypeOK, RateLimiterExact, CarryInv, config.enable_rate_limiting,
                        NEW c \in Clients, NEW m \in Minutes
                 PROVE  handled[c][m] <= config.connection_rate_limit_per_minute
                                           + Cardinality(Workers)
        BY DEF ClientMinuteBound
    <2>1. /\ handled[c][m] \in Nat /\ admitted[c][m] \in Nat /\ seen[c][m] \in Nat
          /\ config.connection_rate_limit_per_minute \in Nat
        BY Limits DEF TypeOK
    <2>2. admitted[c][m] <= config.connection_rate_limit_per_minute
        BY <2>1 DEF RateLimiterExact, AtMost
    <2>3. handled[c][m] + Cardinality(MayCount(c, m)) <= admitted[c][m] + Cardinality(Workers)
        BY DEF CarryInv
    <2> QED
        BY <2>1, <2>2, <2>3, MayCountFinite
<1> QED
    BY <1>1, <1>2, CarryStep, RateLimiterCorrect, TypeCorrect, PTL DEF Spec
-----------------------------------------------------------------------------
\* Lookup and insertion are under one lock, so a key is inserted only when it is
\* new, and every insertion raises both counters.
LEMMA AccountingStep ==
    /\ TypeOK /\ ConnInv /\ ConnectionAccounting /\ IsFiniteSet(DOMAIN active_connections)
    /\ [Next]_vars
    => ConnectionAccounting' /\ IsFiniteSet(DOMAIN active_connections')
<1> SUFFICES ASSUME TypeOK, ConnInv, ConnectionAccounting,
                    IsFiniteSet(DOMAIN active_connections), [Next]_vars
             PROVE  ConnectionAccounting' /\ IsFiniteSet(DOMAIN active_connections')
    OBVIOUS
<1> DEFINE Known == DOMAIN active_connections
<1>1. ASSUME Known' = Known, UNCHANGED <<total_connections, active_count>>
      PROVE  ConnectionAccounting' /\ IsFiniteSet(DOMAIN active_connections')
    BY <1>1 DEF ConnectionAccounting
<1>2. ASSUME NEW w \in Workers, InsertConnection(w)
      PROVE  ConnectionAccounting' /\ IsFiniteSet(DOMAIN active_connections')
    <2> DEFINE key == KeyOf(packet[w])
    <2>1. key \notin Known
        BY <1>2 DEF InsertConnection, ConnInv
    <2>2. /\ Known' = Known \cup {key}
          /\ total_connections' = total_connections + 1
          /\ active_count' = active_count + 1
        BY <1>2 DEF InsertConnection
    <2> HIDE DEF key, Known
    <2>3. IsFiniteSet(Known \cup {key}) /\ Cardinality(Known \cup {key}) = Cardinality(Known) + 1
        <3>1. IsFiniteSet(Known)
            BY DEF Known
        <3> QED
            BY <2>1, <3>1, FS_AddElement
    <2> QED
        BY <2>2, <2>3 DEF ConnectionAccounting, Known
<1>3. ASSUME NEW w \in Workers, CleanupConnections(w)
      PROVE  ConnectionAccounting' /\ IsFiniteSet(DOMAIN active_connections')
    <2> DEFINE inactive == {k \in DOMAIN active_connections : ~active_connections[k].active}
    <2>1. inactive = {} /\ Cardinality(inactive) = 0
        BY FS_EmptySet DEF ConnInv
    <2>2. active_count' = active_count - Cardinality(inactive)
        BY <1>3 DEF CleanupConnections
    <2>3. active_count' = active_count
        BY <2>1, <2>2 DEF TypeOK
    <2> QED
        BY <1>1, <1>3, <2>1, <2>3 DEF CleanupConnections
<1>4. ASSUME NEW w \in Workers, CountRequest(w)
      PROVE  ConnectionAccounting' /\ IsFiniteSet(DOMAIN active_connections')
    BY <1>1, <1>4 DEF CountRequest
<1>5. ASSUME Tick \/ \E w \in Workers :
                  \/ Receive(w) \/ NoData(w) \/ CheckAcl(w) \/ CheckRate(w) \/ CheckDdos(w)
                  \/ LookupConnection(w) \/ HandlePacket(w) \/ Answer(w)
      PROVE  ConnectionAccounting' /\ IsFiniteSet(DOMAIN active_connections')
    BY <1>1, <1>5
    DEF Tick, Receive, NoData, CheckAcl, CheckRate, CheckDdos, LookupConnection,
        HandlePacket, Answer, connVars
<1>6. CASE UNCHANGED vars
    BY <1>1, <1>6 DEF vars, connVars
<1> QED
    BY <1>2, <1>3, <1>4, <1>5, <1>6 DEF Next, Worker

\* No client is ever counted twice: total_connections and active_connections of
\* the statistics are the size of the map in every state.
THEOREM ConnectionsCounted == Spec => []ConnectionAccounting
<1>1. Init => ConnectionAccounting /\ IsFiniteSet(DOMAIN active_connections)
    <2> SUFFICES ASSUME Init
                 PROVE  ConnectionAccounting /\ IsFiniteSet(DOMAIN active_connections)
        OBVIOUS
    <2>1. DOMAIN active_connections = {} /\ active_count = 0 /\ total_connections = 0
        BY DEF Init
    <2> QED
        BY <2>1, FS_EmptySet DEF ConnectionAccounting
<1>2. TypeOK /\ ConnInv /\ ConnectionAccounting /\ IsFiniteSet(DOMAIN active_connections)
      /\ [Next]_vars => ConnectionAccounting' /\ IsFiniteSet(DOMAIN active_connections)'
    BY AccountingStep
<1> QED
    BY <1>1, <1>2, TypeCorrect, PTL DEF Spec
-----------------------------------------------------------------------------
\* The mask of a prefix has the highest `prefix' bits set, and no other.
LEMMA MaskBits ==
    ASSUME NEW prefix \in 0 .. AddressBits
    PROVE  Mask(prefix) = {AddressBits - k : k \in 1 .. prefix}
<1>1. CASE prefix = 0
    BY <1>1 DEF Mask
<1>2. CASE prefix # 0
    <2>1. ASSUME NEW k \in 1 .. prefix
          PROVE  AddressBits - k \in ShiftLeft(AllBits, AddressBits - prefix)
        <3>1. prefix - k \in AllBits /\ AddressBits - k = (prefix - k) + (AddressBits - prefix)
              /\ AddressBits - k \in AllBits
            BY AddressAssumption DEF AllBits
        <3> QED
            BY <3>1 DEF ShiftLeft
    <2>2. ASSUME NEW b \in ShiftLeft(AllBits, AddressBits - prefix)
          PROVE  \E k \in 1 .. prefix : b = AddressBits - k
        <3>1. PICK i \in AllBits : b = i + (AddressBits - prefix)
            BY DEF ShiftLeft
        <3>2. b \in AllBits
            BY DEF ShiftLeft
        <3>3. AddressBits - b \in 1 .. prefix /\ b = AddressBits - (AddressBits - b)
            BY <3>1, <3>2, AddressAssumption DEF AllBits
        <3> QED
            BY <3>3
    <2> QED
        BY <1>2, <2>1, <2>2 DEF Mask
<1> QED
    BY <1>1, <1>2

\* isIpInCidr means what an entry of an access list says, for words of any width: an
\* address is in a network if and only if they agree in the bits of the prefix.
THEOREM MatchMeansNetwork ==
    \A ip \in Addresses, entry \in Entries : isIpInCidr(ip, entry) <=> InNetwork(ip, entry)
<1> SUFFICES ASSUME NEW ip \in Addresses, NEW entry \in Entries
             PROVE  isIpInCidr(ip, entry) <=> InNetwork(ip, entry)
    OBVIOUS
<1>1. /\ entry.base \in Addresses \cup {NotAddress} /\ entry.slash \in BOOLEAN
      /\ entry.prefix \in Int
    BY DEF Entries
<1>2. ip # NotAddress
    BY DEF Addresses, AllBits, NotAddress
<1>3. CASE ~entry.slash
    <2>1. ASSUME entry.base # NotAddress,
                 \A k \in 1 .. AddressBits : AddressBits - k \in ip <=> AddressBits - k \in entry.base
          PROVE  ip = entry.base
        <3>1. \A i \in AllBits : i \in ip <=> i \in entry.base
            <4> TAKE i \in AllBits
            <4>1. AddressBits - i \in 1 .. AddressBits /\ AddressBits - (AddressBits - i) = i
                BY AddressAssumption DEF AllBits
            <4> QED
                BY <2>1, <4>1
        <3>2. ip \subseteq AllBits /\ entry.base \subseteq AllBits
            BY <1>1, <2>1 DEF Addresses
        <3> QED
            BY <3>1, <3>2
    <2>2. AddressBits \in 0 .. AddressBits
        BY AddressAssumption
    <2> QED
        BY <1>2, <1>3, <2>1, <2>2 DEF isIpInCidr, InNetwork
<1>4. CASE entry.slash
    <2>1. CASE entry.prefix \in 0 .. AddressBits
        <3> DEFINE M == {AddressBits - k : k \in 1 .. entry.prefix}
        <3>1. Mask(entry.prefix) = M
            BY <2>1, MaskBits
        <3>2. ip \cap M = entry.base \cap M
                <=> \A k \in 1 .. entry.prefix : AddressBits - k \in ip <=> AddressBits - k \in entry.base
            OBVIOUS
        <3> QED
            BY <1>4, <2>1, <3>1, <3>2 DEF isIpInCidr, InNetwork
    <2>2. CASE entry.prefix \notin 0 .. AddressBits
        BY <1>4, <2>2 DEF isIpInCidr, InNetwork
    <2> QED
        BY <2>1, <2>2
<1> QED
    BY <1>1, <1>3, <1>4

\* The entries that the run checks are among them.
THEOREM NetworksMatched == Spec => []MatchesNetworks
<1>1. MatchesNetworks
    <2>1. [base : Addresses \cup {NotAddress}, slash : BOOLEAN,
           prefix : -1 .. AddressBits + 1] \subseteq Entries
        BY DEF Entries
    <2> QED
        BY <2>1, MatchMeansNetwork DEF MatchesNetworks
<1> QED
    BY <1>1, PTL

\* A client's verdict depends on the configuration only, which does not change.
LEMMA VerdictFixed ==
    ASSUME NEW c, config' = config
    PROVE  isClientAllowed(c)' <=> isClientAllowed(c)
BY DEF isClientAllowed

\* A worker changes a bucket or the map only for the client of its datagram, and only
\* after CheckAcl let that datagram through.
LEMMA TraceStep == TypeOK /\ ConnInv /\ TraceInv /\ [Next]_vars => TraceInv'
<1> SUFFICES ASSUME TypeOK, ConnInv, TraceInv, [Next]_vars
             PROVE  TraceInv'
    OBVIOUS
<1> DEFINE Past == PCs \ {"recv", "acl", "cleanup"}
           Allowed(c) == isClientAllowed(c)
           NoTrace(c) == /\ connection_rate_buckets[c] = Bucket(0, 0)
                         /\ request_second_buckets[c] = Bucket(0, 0)
                         /\ \A p \in Ports : <<c, p>> \notin DOMAIN active_connections
<1>1. config' = config /\ \A c : isClientAllowed(c)' <=> isClientAllowed(c)
    BY ConfigFixed, VerdictFixed
<1>2. ASSUME NEW w \in Workers,
             pc'[w] \in Past => isClientAllowed(packet'[w].ip),
             \A v \in Workers \ {w} : pc'[v] = pc[v] /\ packet'[v] = packet[v],
             \A c \in Clients : ~isClientAllowed(c) => NoTrace(c)'
      PROVE  TraceInv'
    <2>1. \A v \in Workers : pc'[v] \in Past => isClientAllowed(packet'[v].ip)
        BY <1>2 DEF TraceInv
    <2>2. \A v \in Workers : pc'[v] \in Past => isClientAllowed(packet[v].ip)'
        BY <1>1, <2>1 DEF isClientAllowed
    <2> QED
        BY <1>1, <1>2, <2>2 DEF TraceInv
<1>3. \A c \in Clients : ~isClientAllowed(c) => NoTrace(c)
    BY DEF TraceInv
<1>4. pc \in [Workers -> PCs] /\ packet \in [Workers -> Packets]
    BY DEF TypeOK
<1> USE DEF Goto, serverVars, connVars, history
<1>5. CASE Tick \/ UNCHANGED vars
    <2>1. UNCHANGED <<pc, packet, serverVars, active_connections>>
        BY <1>5 DEF Tick, vars
    <2> QED
        BY <1>1, <2>1 DEF TraceInv, isClientAllowed
<1>6. ASSUME NEW w \in Workers, Receive(w) \/ NoData(w) \/ Answer(w)
      PROVE  TraceInv'
    BY <1>2, <1>3, <1>4, <1>6 DEF Receive, NoData, Answer
<1>7. ASSUME NEW w \in Workers, CheckAcl(w)
      PROVE  TraceInv'
    BY <1>2, <1>3, <1>4, <1>7 DEF CheckAcl
<1>8. ASSUME NEW w \in Workers, HandlePacket(w) \/ LookupConnection(w)
      PROVE  TraceInv'
    <2>1. isClientAllowed(packet[w].ip)
        BY <1>8 DEF TraceInv, HandlePacket, LookupConnection, PCs
    <2> QED
        BY <1>2, <1>3, <1>4, <1>8, <2>1 DEF HandlePacket, LookupConnection
<1>9. ASSUME NEW w \in Workers, CheckRate(w)
      PROVE  TraceInv'
    <2>1. isClientAllowed(packet[w].ip) /\ packet[w].ip \in Clients
        BY <1>4, <1>9, KeyType DEF TraceInv, CheckRate, PCs
    <2>2. \A c \in Clients : c # packet[w].ip
                => connection_rate_buckets'[c] = connection_rate_buckets[c]
        BY <1>9 DEF CheckRate, TypeOK
    <2>3. UNCHANGED <<request_second_buckets, active_connections>>
        BY <1>9 DEF CheckRate
    <2>4. \A c \in Clients : ~isClientAllowed(c) => NoTrace(c)'
        BY <1>3, <2>1, <2>2, <2>3
    <2>5. packet' = packet /\ \A v \in Workers \ {w} : pc'[v] = pc[v]
        BY <1>4, <1>9 DEF CheckRate
    <2> HIDE DEF NoTrace
    <2> QED
        BY <1>2, <2>1, <2>4, <2>5
<1>10. ASSUME NEW w \in Workers, CheckDdos(w)
       PROVE  TraceInv'
    <2>1. isClientAllowed(packet[w].ip) /\ packet[w].ip \in Clients
        BY <1>4, <1>10, KeyType DEF TraceInv, CheckDdos, PCs
    <2>2. \A c \in Clients : c # packet[w].ip
                => request_second_buckets'[c] = request_second_buckets[c]
        BY <1>10 DEF CheckDdos, TypeOK
    <2>3. UNCHANGED <<connection_rate_buckets, active_connections>>
        BY <1>10 DEF CheckDdos
    <2>4. \A c \in Clients : ~isClientAllowed(c) => NoTrace(c)'
        BY <1>3, <2>1, <2>2, <2>3
    <2>5. packet' = packet /\ \A v \in Workers \ {w} : pc'[v] = pc[v]
        BY <1>4, <1>10 DEF CheckDdos
    <2> HIDE DEF NoTrace
    <2> QED
        BY <1>2, <2>1, <2>4, <2>5
<1>11. ASSUME NEW w \in Workers, InsertConnection(w)
       PROVE  TraceInv'
    <2>1. isClientAllowed(packet[w].ip) /\ KeyOf(packet[w]) = <<packet[w].ip, packet[w].port>>
        BY <1>11 DEF TraceInv, InsertConnection, PCs, KeyOf
    <2>2. DOMAIN active_connections' = DOMAIN active_connections \cup {KeyOf(packet[w])}
        BY <1>11 DEF InsertConnection
    <2>3. UNCHANGED <<connection_rate_buckets, request_second_buckets, packet>>
        BY <1>11 DEF InsertConnection
    <2>4. \A c \in Clients : ~isClientAllowed(c) => NoTrace(c)'
        BY <1>3, <2>1, <2>2, <2>3
    <2>5. \A v \in Workers \ {w} : pc'[v] = pc[v]
        BY <1>4, <1>11 DEF InsertConnection
    <2> HIDE DEF NoTrace
    <2> QED
        BY <1>2, <2>1, <2>3, <2>4, <2>5
<1>12. ASSUME NEW w \in Workers, CountRequest(w)
       PROVE  TraceInv'
    <2>1. isClientAllowed(packet[w].ip)
        BY <1>12 DEF TraceInv, CountRequest, PCs
    <2>2. DOMAIN active_connections' = DOMAIN active_connections
        BY <1>12 DEF CountRequest
    <2>3. UNCHANGED <<connection_rate_buckets, request_second_buckets, packet>>
        BY <1>12 DEF CountRequest
    <2>4. \A c \in Clients : ~isClientAllowed(c) => NoTrace(c)'
        BY <1>3, <2>2, <2>3
    <2>5. \A v \in Workers \ {w} : pc'[v] = pc[v]
        BY <1>4, <1>12 DEF CountRequest
    <2> HIDE DEF NoTrace
    <2> QED
        BY <1>2, <2>1, <2>3, <2>4, <2>5
<1>13. ASSUME NEW w \in Workers, CleanupConnections(w)
       PROVE  TraceInv'
    <2>1. DOMAIN active_connections' \subseteq DOMAIN active_connections
        BY <1>13 DEF CleanupConnections
    <2>2. UNCHANGED <<connection_rate_buckets, request_second_buckets, packet>>
        BY <1>13 DEF CleanupConnections
    <2>3. \A c \in Clients : ~isClientAllowed(c) => NoTrace(c)'
        BY <1>3, <2>1, <2>2
    <2>4. pc'[w] = "recv" /\ \A v \in Workers \ {w} : pc'[v] = pc[v]
        BY <1>4, <1>13 DEF CleanupConnections
    <2> HIDE DEF NoTrace
    <2> QED
        BY <1>2, <2>2, <2>3, <2>4
<1> QED
    BY <1>5, <1>6, <1>7, <1>8, <1>9, <1>10, <1>11, <1>12, <1>13 DEF Next, Worker

\* For every pair of lists, every client and every number of workers: a client that an
\* entry denies, or that no entry allows, leaves neither a bucket nor a connection.
THEOREM DeniedTraceless == Spec => []DeniedLeaveNoTrace
<1>1. Init => TraceInv
    BY DEF Init, TraceInv, PCs, Bucket
<1>2. TypeOK /\ TraceInv => DeniedLeaveNoTrace
    <2> SUFFICES ASSUME TypeOK, TraceInv, NEW c \in Clients,
                        config.enable_acl \/ config.restrict_queries,
                        \/ \E deny \in config.denied_clients : InNetwork(c, deny)
                        \/ /\ config.allowed_clients # {}
                           /\ \A allow \in config.allowed_clients : ~InNetwork(c, allow)
                        \/ config.allowed_clients = {} /\ config.restrict_queries
                 PROVE  ~isClientAllowed(c)
        BY DEF TraceInv, DeniedLeaveNoTrace
    <2>1. /\ c \in Addresses
          /\ config.denied_clients \subseteq Entries /\ config.allowed_clients \subseteq Entries
        BY ConstantsAssumption DEF TypeOK, ConfigType
    <2>2. \A entry \in Entries : isIpInCidr(c, entry) <=> InNetwork(c, entry)
        BY <2>1, MatchMeansNetwork
    <2> QED
        BY <2>1, <2>2 DEF isClientAllowed
<1> QED
    BY <1>1, <1>2, TraceStep, TypeCorrect, PTL DEF Spec
=============================================================================
