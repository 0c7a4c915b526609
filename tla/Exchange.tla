------------------------------ MODULE Exchange ------------------------------
(***************************************************************************)
(* One exchange of an NTP client with the daemon: queryUpstreamServer      *)
(* (core/upstream_sync.cpp) asks, NtpServer::processPacket (core/          *)
(* server.cpp) answers, and the client computes its offset and delay, with *)
(* the timestamps of module Timestamp on the wire.  Time passes between    *)
(* any two clock reads.  The datagram may be lost, and then the query      *)
(* fails.  The server corrects its own clock by the offset it has from its *)
(* upstream.                                                               *)
(***************************************************************************)
EXTENDS Timestamp

CONSTANTS
    Span,           \* bound: nanoseconds the exchange may take
    Scenarios       \* start: the client's clock when it asks, in nanoseconds;
                    \* skew: how far the server's clock is ahead of it;
                    \* clock_offset_us: the server's offset to its upstream

\* The era of U32 seconds, counted from the first one, that a time is in.
Era(t) == (t \div NANOS + EPOCH) \div U32

\* The clocks are read after 1970 and in one era, which timestamps do not tell from
\* another.  A server that corrects its clock does so in the first one, where
\* toSystemTime takes every timestamp to be, and not out of it.
InOneEra(s) ==
    LET corrected == s.start + s.skew + s.clock_offset_us * MicroNanos
    IN  /\ s.start + s.skew >= 0
        /\ \A t \in {s.start + Span, s.start + s.skew, s.start + s.skew + Span} :
              Era(t) = Era(s.start)
        /\ s.clock_offset_us # 0 =>
              corrected >= MicroNanos /\ Era(s.start) = 0 /\ Era(corrected + Span) = 0

\* The client waits for seconds, not for half an era.
ASSUME ExchangeAssumption ==
    /\ Span \in 0 .. NANOS * (U32 \div 2 - 1)
    /\ Scenarios \subseteq [start : Nat, skew : Int, clock_offset_us : Int]
    /\ \A s \in Scenarios : InOneEra(s)

VARIABLES
    start, time,            \* the client's clock, at first and now
    skew, clock_offset_us,  \* the server's clock
    pc,
    datagram,               \* what is on the wire
    t1,                     \* the client's transmit timestamp
    response_packet,        \* the server's
    result,                 \* UpstreamSyncResult
    asked, heard, sent, got \* history: the true times of t1, t2, t3, t4

params == <<start, skew, clock_offset_us>>
history == <<asked, heard, sent, got>>
vars == <<params, time, pc, datagram, t1, response_packet, result, history>>

Failed == [success |-> FALSE, offset_us |-> 0, delay_us |-> 0, stratum |-> 0]

Init ==
    /\ \E s \in Scenarios :
         /\ start = s.start /\ time = s.start
         /\ skew = s.skew /\ clock_offset_us = s.clock_offset_us
    /\ pc = "ask"
    /\ datagram = <<>>
    /\ t1 = Zero
    /\ response_packet = createClientRequest(0)
    /\ result = Failed
    /\ asked = 0 /\ heard = 0 /\ sent = 0 /\ got = 0

ServerClock == time + skew

Tick ==
    /\ pc # "done" /\ time < start + Span
    /\ time' = time + 1
    /\ UNCHANGED <<params, pc, datagram, t1, response_packet, result, history>>

\* queryUpstreamServer: createClientRequest, sendto
Ask ==
    /\ pc = "ask"
    /\ t1' = createClientRequest(time).transmit_ts
    /\ datagram' = serializeToData(createClientRequest(time))
    /\ asked' = time
    /\ pc' = "asked"
    /\ UNCHANGED <<params, time, response_packet, result, heard, sent, got>>

\* processPacket: the request is accepted; the first clock read of the response
Answer ==
    LET request_packet == parseFromData(datagram)
    IN  /\ pc = "asked"
        /\ isValid(request_packet) /\ request_packet.mode = CLIENT
        /\ response_packet' = createServerResponse(request_packet, 2, 1, ServerClock)
        /\ heard' = time
        /\ pc' = "heard"
        /\ UNCHANGED <<params, time, datagram, t1, result, asked, sent, got>>

\* createServerResponse: its second clock read
StampTransmit ==
    /\ pc = "heard"
    /\ response_packet' = [response_packet EXCEPT !.transmit_ts = fromSystemTime(ServerClock)]
    /\ sent' = time
    /\ pc' = "stamped"
    /\ UNCHANGED <<params, time, datagram, t1, result, asked, heard, got>>

\* Mutant: the correction is taken off.
Corrected_Minus(ts) == fromSystemTime(toSystemTime(ts) - clock_offset_us * MicroNanos)

\* The server's correction of a timestamp, unless its offset is zero.
Corrected(ts) ==
    IF clock_offset_us = 0 THEN ts
    ELSE fromSystemTime(toSystemTime(ts) + clock_offset_us * MicroNanos)

\* createServerResponse: its third clock read, the reference timestamp, which is
\* not corrected; processPacket: the corrections and sendto
Send ==
    LET packet == [response_packet EXCEPT !.reference_ts = fromSystemTime(ServerClock),
                                          !.receive_ts = Corrected(@),
                                          !.transmit_ts = Corrected(@)]
    IN  /\ pc = "stamped"
        /\ response_packet' = packet
        /\ datagram' = serializeToData(packet)
        /\ pc' = "answered"
        /\ UNCHANGED <<params, time, t1, result, history>>

\* queryUpstreamServer: recvfrom, the checks, t4 and the result
Receive ==
    LET response == parseFromData(datagram)
        t4 == fromSystemTime(time)
    IN  /\ pc = "answered"
        /\ result' =
             IF isValid(response) /\ response.mode = SERVER
             THEN [success |-> TRUE,
                   offset_us |-> calculateOffset(t1, response.receive_ts,
                                                 response.transmit_ts, t4),
                   delay_us |-> calculateRoundTripDelay(t1, response.receive_ts,
                                                        response.transmit_ts, t4),
                   stratum |-> response.stratum]
             ELSE Failed
        /\ got' = time
        /\ pc' = "done"
        /\ UNCHANGED <<params, time, datagram, t1, response_packet, asked, heard, sent>>

\* The request or the answer is lost: recvfrom times out.
Lose ==
    /\ pc \in {"asked", "answered"}
    /\ pc' = "done"
    /\ UNCHANGED <<params, time, datagram, t1, response_packet, result, history>>

Next == Tick \/ Ask \/ Answer \/ StampTransmit \/ Send \/ Receive \/ Lose

Spec == Init /\ [][Next]_vars
-----------------------------------------------------------------------------
Abs(x) == IF x >= 0 THEN x ELSE -x

\* What the client should find: the server's corrected clock less its own.
TrueOffset == skew + clock_offset_us * MicroNanos

\* What the client computes is right up to what no client can know: the offset
\* is off by at most half of the time the datagrams were under way, plus what
\* the timestamps lose (two and a half microseconds: a timestamp loses one when it
\* is read, a corrected one another, and the last division half of one); the bytes,
\* the fractions of a second and the divisions in between add nothing else.
OffsetAccurate ==
    result.success =>
        2 * Abs(result.offset_us * MicroNanos - TrueOffset)
            <= (got - asked) - (sent - heard) + 5 * MicroNanos

\* The delay that ranks the upstream servers is the time the datagrams were under
\* way, without the server's own, up to three microseconds; it may be negative.
DelayAccurate ==
    result.success =>
        Abs(result.delay_us * MicroNanos - ((got - asked) - (sent - heard)))
            <= 3 * MicroNanos

\* a - b as a number of fractions of a second, on the circle of the timestamps.
Behind(a, b) == ((a.seconds - b.seconds) * U32 + a.fraction - b.fraction) % U64

\* "Microsecond precision support" (project/ROADMAP_CHECKLIST.md:40): the
\* timestamps a server sends are its corrected clock at the moment it read it,
\* less at most a microsecond and one fraction, and the receive timestamp is not
\* after the transmit timestamp.
ResponseOnTime ==
    pc = "answered" =>
        LET received == fromSystemTime(heard + skew + clock_offset_us * MicroNanos)
            transmitted == fromSystemTime(sent + skew + clock_offset_us * MicroNanos)
            response == parseFromData(datagram)
        IN  /\ (Behind(received, response.receive_ts) - 1) * MICROS <= U32
            /\ (Behind(transmitted, response.transmit_ts) - 1) * MICROS <= U32
            /\ Behind(response.transmit_ts, response.receive_ts) < U64 \div 2
=============================================================================
