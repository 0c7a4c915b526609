----------------------------- MODULE Timestamp -----------------------------
(***************************************************************************)
(* NTP timestamps and packets as core/packet.cpp computes them, in the     *)
(* integer arithmetic of the build.  A time_point is a number of           *)
(* nanoseconds, as std::chrono::system_clock counts them.  The sizes are   *)
(* parameters, so that TLC can check them at small scale: the code has     *)
(* BYTE = 256 (32-bit words are U32 = 2^32, and 64-bit ones U64), NANOS =  *)
(* 10^9, MICROS = 10^6 and EPOCH = 2208988800.                             *)
(***************************************************************************)
EXTENDS Integers, Sequences

CONSTANTS
    BYTE,           \* values of a byte of a word
    NANOS, MICROS,  \* nanoseconds and microseconds of a second
    EPOCH           \* NTP_EPOCH_OFFSET, the second of 1970-01-01

U32 == BYTE * BYTE * BYTE * BYTE
U64 == U32 * U32

\* Nanoseconds of a microsecond.
MicroNanos == NANOS \div MICROS

ASSUME TimestampAssumption ==
    /\ BYTE \in Nat /\ BYTE > 1
    /\ MICROS \in Nat /\ MICROS > 1
    /\ NANOS \in Nat \ {0} /\ NANOS % MICROS = 0
    /\ NANOS < U32 /\ U32 * NANOS < U64 \div 2
    /\ EPOCH \in 1 .. U32 - 1

\* C++ division rounds towards zero.
Quotient(a, b) == IF a >= 0 THEN a \div b ELSE -((-a) \div b)

\* An unsigned 64-bit value as a signed one.
Signed(x) == IF x >= U64 \div 2 THEN x - U64 ELSE x

TimestampType == [seconds : 0 .. U32 - 1, fraction : 0 .. U32 - 1]

Stamp(s, f) == [seconds |-> s, fraction |-> f]

fromSystemTime(t) ==
    LET seconds == Quotient(t, NANOS)
        fraction == t - seconds * NANOS
    IN  Stamp((seconds + EPOCH) % U32,
              ((((fraction % U64) * U32) % U64) \div NANOS) % U32)

toSystemTime(ts) ==
    LET seconds == ((ts.seconds - EPOCH) % U64) * MICROS
        micros == (ts.fraction * MICROS) \div U32
    IN  Signed((seconds + micros) % U64) * MicroNanos

\* Mutant: the time the server took is added instead of taken off.
calculateRoundTripDelay_Plus(t1, t2, t3, t4) ==
    Quotient(  (toSystemTime(t4) - toSystemTime(t1))
             + (toSystemTime(t3) - toSystemTime(t2)), MicroNanos)

\* In microseconds.
calculateRoundTripDelay(t1, t2, t3, t4) ==
    Quotient(  (toSystemTime(t4) - toSystemTime(t1))
             - (toSystemTime(t3) - toSystemTime(t2)), MicroNanos)

\* Mutant: the two differences are subtracted.
calculateOffset_Minus(t1, t2, t3, t4) ==
    Quotient(Quotient(  (toSystemTime(t2) - toSystemTime(t1))
                      - (toSystemTime(t3) - toSystemTime(t4)), 2), MicroNanos)

\* In microseconds.
calculateOffset(t1, t2, t3, t4) ==
    Quotient(Quotient(  (toSystemTime(t2) - toSystemTime(t1))
                      + (toSystemTime(t3) - toSystemTime(t4)), 2), MicroNanos)
-----------------------------------------------------------------------------
(* The packet on the wire.  The four bytes of the header are whole bytes. *)

CLIENT == 3
SERVER == 4
NTP_VERSION == 4

Zero == Stamp(0, 0)

\* NtpPacket with the fields createClientRequest sets.
createClientRequest(now) ==
    [leap_indicator |-> 0, version |-> NTP_VERSION, mode |-> CLIENT, stratum |-> 0,
     poll |-> 4, precision |-> -6, root_delay |-> 0, root_dispersion |-> 0,
     reference_id |-> 0, reference_ts |-> Zero, originate_ts |-> Zero,
     receive_ts |-> Zero, transmit_ts |-> fromSystemTime(now)]

\* createServerResponse up to its first clock read.
createServerResponse(client_packet, stratum, reference_id, now) ==
    [leap_indicator |-> 0, version |-> NTP_VERSION, mode |-> SERVER,
     stratum |-> stratum, poll |-> 4, precision |-> -6, root_delay |-> 0,
     root_dispersion |-> 0, reference_id |-> reference_id, reference_ts |-> Zero,
     originate_ts |-> client_packet.transmit_ts, receive_ts |-> fromSystemTime(now),
     transmit_ts |-> Zero]

\* The high byte is first.
writeU32Be(v) ==
    <<v \div (BYTE * BYTE * BYTE), (v \div (BYTE * BYTE)) % BYTE, (v \div BYTE) % BYTE,
      v % BYTE>>

\* The word at offset i, counted from 0.
readU32Be(data, i) ==
    ((data[i + 1] * BYTE + data[i + 2]) * BYTE + data[i + 3]) * BYTE + data[i + 4]

writeTimestamp(ts) == writeU32Be(ts.seconds) \o writeU32Be(ts.fraction)

readTimestamp(data, i) == Stamp(readU32Be(data, i), readU32Be(data, i + 4))

serializeToData(p) ==
    <<p.leap_indicator * 64 + p.version * 8 + p.mode, p.stratum, p.poll,
      p.precision % 256>>
    \o writeU32Be(p.root_delay) \o writeU32Be(p.root_dispersion)
    \o writeU32Be(p.reference_id)
    \o writeTimestamp(p.reference_ts) \o writeTimestamp(p.originate_ts)
    \o writeTimestamp(p.receive_ts) \o writeTimestamp(p.transmit_ts)

parseFromData(data) ==
    [leap_indicator |-> data[1] \div 64, version |-> (data[1] \div 8) % 8,
     mode |-> data[1] % 8, stratum |-> data[2], poll |-> data[3],
     precision |-> IF data[4] >= 128 THEN data[4] - 256 ELSE data[4],
     root_delay |-> readU32Be(data, 4), root_dispersion |-> readU32Be(data, 8),
     reference_id |-> readU32Be(data, 12), reference_ts |-> readTimestamp(data, 16),
     originate_ts |-> readTimestamp(data, 24), receive_ts |-> readTimestamp(data, 32),
     transmit_ts |-> readTimestamp(data, 40)]

\* validateDetailed; every mode is allowed.
isValid(p) ==
    /\ p.version \in {3, NTP_VERSION}
    /\ p.stratum <= 15
    /\ p.poll \in 4 .. 17
    /\ p.precision <= 0
    /\ p.leap_indicator <= 3
=============================================================================
