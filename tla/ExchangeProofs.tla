--------------------------- MODULE ExchangeProofs ---------------------------
(***************************************************************************)
(* Proofs about Exchange for words of any size, any scenarios within an    *)
(* era and any span: that the client's offset and delay, and the server's  *)
(* timestamps, are as accurate as their microseconds allow.  First what    *)
(* the integer arithmetic of packet.cpp computes, without its wraps and    *)
(* truncations; then that timestamps come through the bytes of a packet;   *)
(* then the invariant that says which times the client's and the server's  *)
(* variables stand for at each step of an exchange.                        *)
(***************************************************************************)
EXTENDS Exchange, SequenceTheorems, TLAPS

-----------------------------------------------------------------------------
(* Division, and the sizes of the words *)

\* Quotient and rest,
LEMMA DivMod ==
    ASSUME NEW a \in Int, NEW b \in Nat \ {0}
    PROVE  a \div b \in Int /\ a % b \in 0 .. b - 1 /\ a = b * (a \div b) + (a % b)
           /\ (a \in Nat => a \div b \in Nat)
OBVIOUS

\* which determine each other.
LEMMA DivUnique ==
    ASSUME NEW a \in Int, NEW b \in Nat \ {0}, NEW q \in Int, NEW r \in 0 .. b - 1,
           a = b * q + r
    PROVE  a \div b = q /\ a % b = r
OBVIOUS

\* A number below the divisor is its own rest.
LEMMA Small ==
    ASSUME NEW b \in Nat \ {0}, NEW a \in 0 .. b - 1
    PROVE  a % b = a /\ a \div b = 0
OBVIOUS

\* Dividing by a product is dividing twice.
LEMMA DivDiv ==
    ASSUME NEW a \in Nat, NEW b \in Nat \ {0}, NEW c \in Nat \ {0}
    PROVE  a \div (b * c) = (a \div b) \div c
OBVIOUS

\* Multiplying by the same number keeps the order, and taking it away does.
LEMMA MulMono ==
    ASSUME NEW a \in Int, NEW b \in Int, NEW c \in Nat, a <= b
    PROVE  a * c <= b * c
OBVIOUS
LEMMA MulStrict ==
    ASSUME NEW a \in Int, NEW b \in Int, NEW c \in Nat \ {0}, a * c < b * c
    PROVE  a < b
OBVIOUS

\* What TimestampAssumption says of the sizes and of what is made of them.
LEMMA Sizes ==
    /\ U32 \in Nat \ {0} /\ U64 \in Nat \ {0} /\ NANOS \in Nat \ {0} /\ MICROS \in Nat \ {0}
    /\ MicroNanos \in Nat \ {0} /\ NANOS = MICROS * MicroNanos
    /\ NANOS < U32 /\ U32 * NANOS < U64 \div 2 /\ EPOCH \in 1 .. U32 - 1
    /\ MICROS <= NANOS /\ U64 = U32 * U32
    /\ 2 * (U64 \div 2) <= U64 /\ U64 <= 2 * (U64 \div 2) + 1
<1>1. BYTE \in Nat \ {0} /\ BYTE * BYTE \in Nat \ {0}
    BY TimestampAssumption
<1>2. BYTE * BYTE * BYTE \in Nat \ {0}
    BY <1>1
<1>3. U32 \in Nat \ {0}
    BY <1>1, <1>2 DEF U32
<1>4. U64 \in Nat \ {0} /\ U64 = U32 * U32
    BY <1>3 DEF U64
<1>5. NANOS = MICROS * MicroNanos /\ MicroNanos \in Int
    BY TimestampAssumption, DivMod DEF MicroNanos
<1>6. MicroNanos \in Nat \ {0}
    BY <1>5, TimestampAssumption
<1>7. MICROS <= NANOS
    BY <1>5, <1>6, TimestampAssumption
<1>8. 2 * (U64 \div 2) <= U64 /\ U64 <= 2 * (U64 \div 2) + 1
    BY <1>4
<1> QED
    BY <1>3, <1>4, <1>5, <1>6, <1>7, <1>8, TimestampAssumption

\* The fraction of a timestamp is one.
LEMMA FractionRange ==
    ASSUME NEW r \in 0 .. NANOS - 1
    PROVE  (r * U32) \div NANOS \in 0 .. U32 - 1
<1>1. r * U32 \in Nat /\ r * U32 < NANOS * U32
    BY Sizes
<1>2. PICK x \in Nat : x = r * U32 /\ x < NANOS * U32
    BY <1>1
<1>3. PICK d \in Int, m \in 0 .. NANOS - 1 : d = x \div NANOS /\ x = NANOS * d + m
    BY Sizes, DivMod
<1>4. d * NANOS < U32 * NANOS /\ 0 <= d
    BY <1>2, <1>3, Sizes
<1>5. d < U32
    BY <1>4, Sizes, MulStrict
<1> QED
    BY <1>2, <1>3, <1>4, <1>5, Sizes

\* What a conversion to a timestamp gives.
LEMMA FromSystemTime ==
    ASSUME NEW t \in Nat
    PROVE  fromSystemTime(t) = Stamp((t \div NANOS + EPOCH) % U32, ((t % NANOS) * U32) \div NANOS)
<1>1. PICK q \in Nat, r \in 0 .. NANOS - 1 : q = t \div NANOS /\ r = t % NANOS /\ t = NANOS * q + r
    <2>1. t \div NANOS \in Nat /\ t % NANOS \in 0 .. NANOS - 1
          /\ t = NANOS * (t \div NANOS) + (t % NANOS)
        <3>1. NANOS \in Nat \ {0}
            BY Sizes
        <3> QED
            BY <3>1
    <2> QED
        BY <2>1
<1>2. Quotient(t, NANOS) = q /\ t - q * NANOS = r
    BY <1>1, Sizes DEF Quotient
<1>8. NANOS * U32 < U64 /\ NANOS < U64 /\ U32 <= U32 * U32
    BY Sizes
<1>3. r % U64 = r
    BY <1>8, Sizes, Small
<1>4. r * U32 \in Nat /\ r * U32 < NANOS * U32
    BY Sizes
<1>5. (r * U32) % U64 = r * U32
    <2> DEFINE x == r * U32
    <2>1. x \in Nat /\ x < U64
        BY <1>8, <1>4, Sizes
    <2> HIDE DEF x
    <2>2. x % U64 = x
        BY <2>1, Sizes, Small
    <2> QED
        BY <2>2 DEF x
<1>6. (r * U32) \div NANOS \in 0 .. U32 - 1
    BY FractionRange
<1>7. ((r * U32) \div NANOS) % U32 = (r * U32) \div NANOS
    BY <1>6, Sizes, Small
<1> QED
    BY <1>1, <1>2, <1>3, <1>5, <1>7 DEF fromSystemTime

\* What a conversion back gives: no wrap of the unsigned arithmetic survives it.
LEMMA ToSystemTime ==
    ASSUME NEW ts \in TimestampType
    PROVE  /\ (ts.fraction * MICROS) \div U32 \in 0 .. MICROS - 1
           /\ toSystemTime(ts) = ((ts.seconds - EPOCH) * MICROS + (ts.fraction * MICROS) \div U32)
                                    * MicroNanos
<1>1. PICK x \in Int : x = ts.seconds - EPOCH /\ -U32 < x /\ x < U32
    BY Sizes DEF TimestampType
<1>2. (ts.fraction * MICROS) \div U32 \in 0 .. MICROS - 1
    <2>1. PICK f \in Nat : f = ts.fraction /\ f < U32
        BY Sizes DEF TimestampType
    <2>2. f * MICROS \in Nat /\ f * MICROS < U32 * MICROS
        BY <2>1, Sizes
    <2>3. PICK p \in Nat : p = f * MICROS
        BY <2>2
    <2>4. PICK d \in Nat, e \in 0 .. U32 - 1 : d = p \div U32 /\ p = U32 * d + e
        BY Sizes, DivMod
    <2>5. d * U32 < MICROS * U32
        BY <2>2, <2>3, <2>4, Sizes
    <2>6. d < MICROS
        BY <2>5, Sizes, MulStrict
    <2> QED
        BY <2>1, <2>3, <2>4, <2>6, Sizes
<1>3. PICK m \in 0 .. MICROS - 1 : m = (ts.fraction * MICROS) \div U32
    BY <1>2
<1>4. PICK z \in Int : z = x * MICROS + m
    BY Sizes
<1>5. PICK h \in Nat : h = U64 \div 2 /\ U32 * MICROS < h /\ 2 * h <= U64 /\ U32 <= U64
    <2>1. U32 * MICROS <= U32 * NANOS /\ U32 <= U32 * U32 /\ U64 \div 2 \in Nat
        BY Sizes
    <2> QED
        BY <2>1, Sizes
<1>6. -h < z /\ z < h
    <2>1. (-U32 + 1) * MICROS <= x * MICROS /\ x * MICROS <= (U32 - 1) * MICROS
        BY <1>1, Sizes, MulMono
    <2>2. (-U32 + 1) * MICROS = MICROS - U32 * MICROS
          /\ (U32 - 1) * MICROS = U32 * MICROS - MICROS
        BY Sizes
    <2> QED
        BY <1>4, <1>5, <2>1, <2>2, Sizes
<1>7. Signed(((x % U64) * MICROS + m) % U64) = z
    <2>1. CASE x >= 0
        <3>1. x % U64 = x
            <4>1. x \in 0 .. U64 - 1 /\ U64 \in Nat \ {0}
                BY <1>1, <1>5, <2>1, Sizes
            <4> QED
                BY <4>1, Small
        <3>2. 0 <= z
            BY <1>4, <2>1, Sizes
        <3>3. z % U64 = z
            BY <1>5, <1>6, <3>2, Sizes, Small
        <3> QED
            BY <1>4, <1>5, <1>6, <3>1, <3>3, Sizes DEF Signed
    <2>2. CASE x < 0
        <3>1. x % U64 = x + U64
            <4>1. x = U64 * (-1) + (x + U64) /\ x + U64 \in 0 .. U64 - 1
                BY <1>1, <1>5, <2>2, Sizes
            <4> QED
                BY <4>1, Sizes, DivUnique
        <3>2. z < 0
            <4>1. x * MICROS <= (-1) * MICROS
                BY <2>2, Sizes, MulMono
            <4> QED
                BY <1>4, <4>1, Sizes
        <3>3. (x + U64) * MICROS + m = U64 * (MICROS - 1) + (z + U64)
            BY <1>4, Sizes
        <3>4. z + U64 \in 0 .. U64 - 1
            BY <1>5, <1>6, <3>2, Sizes
        <3>5. ((x + U64) * MICROS + m) % U64 = z + U64
            <4>1. PICK y \in Int : y = (x + U64) * MICROS + m
                BY Sizes
            <4>2. MICROS - 1 \in Int /\ U64 \in Nat \ {0}
                BY Sizes
            <4>3. y % U64 = z + U64
                BY <3>3, <3>4, <4>1, <4>2, DivUnique
            <4> QED
                BY <4>1, <4>3
        <3> QED
            BY <1>5, <1>6, <3>1, <3>5, Sizes DEF Signed
    <2> QED
        BY <2>1, <2>2
<1> QED
    BY <1>1, <1>2, <1>3, <1>4, <1>7 DEF toSystemTime

\* What the fraction of a timestamp loses, in nanoseconds.
LEMMA FractionLoss ==
    ASSUME NEW r \in 0 .. NANOS - 1
    PROVE  ((((r * U32) \div NANOS) * MICROS) \div U32) * MicroNanos \in r - MicroNanos .. r
<1>1. PICK f \in Nat :
        f = (r * U32) \div NANOS /\ NANOS * f <= r * U32 /\ r * U32 < NANOS * f + NANOS
    <2>1. PICK p \in Nat : p = r * U32
        BY Sizes
    <2>2. PICK d \in Nat, e \in 0 .. NANOS - 1 : d = p \div NANOS /\ p = NANOS * d + e
        BY Sizes, DivMod
    <2>3. d = (r * U32) \div NANOS /\ NANOS * d <= r * U32
        BY <2>1, <2>2, Sizes
    <2>4. r * U32 < NANOS * d + NANOS
        BY <2>1, <2>2, Sizes
    <2> QED
        BY <2>3, <2>4
<1>2. PICK m \in Nat :
        m = (f * MICROS) \div U32 /\ U32 * m <= f * MICROS /\ f * MICROS < U32 * m + U32
    <2>1. PICK p \in Nat : p = f * MICROS
        BY Sizes
    <2>2. PICK d \in Nat, e \in 0 .. U32 - 1 : d = p \div U32 /\ p = U32 * d + e
        BY Sizes, DivMod
    <2> QED
        BY <2>1, <2>2, Sizes
<1>3. PICK n \in Nat : n = m * MicroNanos
    BY Sizes
<1>4. (f * MICROS) * MicroNanos = NANOS * f
    BY Sizes
<1>5. n <= r
    <2>1. (U32 * m) * MicroNanos <= (f * MICROS) * MicroNanos
        BY <1>2, Sizes, MulMono
    <2>2. (U32 * m) * MicroNanos = n * U32
        BY <1>3, Sizes
    <2>3. n * U32 < (r + 1) * U32
        BY <1>1, <1>4, <2>1, <2>2, Sizes
    <2> QED
        BY <2>3, Sizes, MulStrict
<1>6. r - MicroNanos <= n
    <2>1. (f * MICROS) * MicroNanos <= (U32 * m + U32) * MicroNanos
        BY <1>2, Sizes, MulMono
    <2>2. (U32 * m + U32) * MicroNanos = (n + MicroNanos) * U32
        BY <1>3, Sizes
    <2>3. r * U32 < (n + MicroNanos) * U32 + U32
        BY <1>1, <1>4, <2>1, <2>2, Sizes
    <2>4. r * U32 < (n + MicroNanos + 1) * U32
        BY <2>3, Sizes
    <2>5. r < n + MicroNanos + 1
        BY <2>4, Sizes, MulStrict
    <2> QED
        BY <2>5, Sizes
<1>7. n \in r - MicroNanos .. r
    BY <1>5, <1>6, Sizes
<1> QED
    BY <1>1, <1>2, <1>3, <1>7

\* Times whose timestamps count the seconds of one era of U32 seconds.
InEra(t, k) == t \in Nat /\ (t \div NANOS) + EPOCH \in k * U32 .. k * U32 + (U32 - 1)

\* The seconds of an era's start, as a time.
EraStart(k) == k * U32 * NANOS

\* A time becomes a timestamp, and what comes back is the time less at most a microsecond
\* on the circle of an era.
LEMMA ThereAndBack ==
    ASSUME NEW k \in Nat, NEW t \in Nat, InEra(t, k)
    PROVE  /\ fromSystemTime(t) \in TimestampType
           /\ fromSystemTime(t).seconds = (t \div NANOS) + EPOCH - k * U32
           /\ \E n \in Int : /\ toSystemTime(fromSystemTime(t)) = n * MicroNanos
                            /\ n * MicroNanos + EraStart(k) \in t - MicroNanos .. t
<1>1. PICK q \in Nat, r \in 0 .. NANOS - 1 : q = t \div NANOS /\ r = t % NANOS /\ t = NANOS * q + r
    <2>1. t \div NANOS \in Nat /\ t % NANOS \in 0 .. NANOS - 1
          /\ t = NANOS * (t \div NANOS) + (t % NANOS)
        <3>1. NANOS \in Nat \ {0}
            BY Sizes
        <3> QED
            BY <3>1
    <2> QED
        BY <2>1
<1>2. PICK s \in 0 .. U32 - 1 : q + EPOCH = U32 * k + s
    <2>1. q + EPOCH - k * U32 \in 0 .. U32 - 1
        BY <1>1, Sizes DEF InEra
    <2> QED
        BY <2>1, Sizes
<1>3. (q + EPOCH) % U32 = s
    <2>1. PICK p \in Nat : p = q + EPOCH /\ p = U32 * k + s
        BY <1>2, Sizes
    <2>2. U32 \in Nat \ {0}
        BY Sizes
    <2>3. p % U32 = s
        BY <2>1, <2>2, DivUnique
    <2> QED
        BY <2>1, <2>3
<1>4. PICK f \in 0 .. U32 - 1 : f = (r * U32) \div NANOS
    BY FractionRange
<1>5. fromSystemTime(t) = Stamp(s, f)
    BY <1>1, <1>3, <1>4, FromSystemTime
<1>6. fromSystemTime(t) \in TimestampType
    BY <1>5 DEF Stamp, TimestampType
<1>7. PICK m \in Nat : m = (f * MICROS) \div U32
                      /\ toSystemTime(fromSystemTime(t)) = ((s - EPOCH) * MICROS + m) * MicroNanos
    <2>1. (f * MICROS) \div U32 \in 0 .. MICROS - 1
        BY <1>5, <1>6, ToSystemTime DEF Stamp
    <2> QED
        BY <2>1, <1>5, <1>6, ToSystemTime DEF Stamp
<1>8. m * MicroNanos \in r - MicroNanos .. r
    BY <1>4, <1>7, FractionLoss
<1>9. PICK n \in Int : n = (s - EPOCH) * MICROS + m
    BY Sizes
<1>10. n * MicroNanos + EraStart(k) = t - r + m * MicroNanos
    <2>1. n * MicroNanos = (s - EPOCH) * NANOS + m * MicroNanos
        BY <1>9, Sizes
    <2>2. (s - EPOCH) * NANOS = (q - U32 * k) * NANOS
        BY <1>2, Sizes
    <2>3. (q - U32 * k) * NANOS + EraStart(k) = t - r
        BY <1>1, Sizes DEF EraStart
    <2> QED
        BY <2>1, <2>2, <2>3, Sizes DEF EraStart
<1>11. n * MicroNanos + EraStart(k) \in t - MicroNanos .. t
    BY <1>8, <1>10, Sizes
<1>12. fromSystemTime(t).seconds = s /\ s = q + EPOCH - k * U32
    BY <1>2, <1>5, Sizes DEF Stamp
<1>13. toSystemTime(fromSystemTime(t)) = n * MicroNanos
    BY <1>7, <1>9
<1> QED
    BY <1>1, <1>6, <1>11, <1>12, <1>13

-----------------------------------------------------------------------------
(* Packets as bytes *)

\* Two sequences put together.
LEMMA Lengths ==
    ASSUME NEW s \in Seq(Int), NEW t \in Seq(Int)
    PROVE  s \o t \in Seq(Int) /\ Len(s \o t) = Len(s) + Len(t)
OBVIOUS

\* The elements of the first of two sequences put together.
LEMMA First ==
    ASSUME NEW s \in Seq(Int), NEW t \in Seq(Int), NEW j \in 1 .. Len(s)
    PROVE  (s \o t)[j] = s[j]
OBVIOUS

\* The elements of the second of them.
LEMMA Second ==
    ASSUME NEW s \in Seq(Int), NEW t \in Seq(Int), NEW j \in 1 .. Len(t)
    PROVE  (s \o t)[Len(s) + j] = t[j]
<1>1. PICK k \in Nat : k = Len(s) + j
    OBVIOUS
<1>2. Len(s) \in Nat /\ ~(k <= Len(s)) /\ k \in 1 .. Len(s) + Len(t) /\ k - Len(s) = j
    BY <1>1
<1>3. (s \o t)[k] = t[k - Len(s)]
    BY <1>2, ConcatProperties
<1> QED
    BY <1>1, <1>2, <1>3

\* A word written as four bytes is read back.
LEMMA WordBack ==
    ASSUME NEW v \in Nat
    PROVE  /\ writeU32Be(v) \in Seq(Int) /\ Len(writeU32Be(v)) = 4
           /\ readU32Be(writeU32Be(v), 0) = v
<1>1. BYTE \in Nat \ {0} /\ BYTE * BYTE \in Nat \ {0}
    BY TimestampAssumption
<1>2. PICK a \in Nat, b \in Nat, c \in Nat :
        a = v \div BYTE /\ b = a \div BYTE /\ c = b \div BYTE
    <2>1. PICK a \in Nat : a = v \div BYTE
        BY <1>1
    <2>2. PICK b \in Nat : b = a \div BYTE
        BY <1>1
    <2>3. PICK c \in Nat : c = b \div BYTE
        BY <1>1
    <2> QED
        BY <2>1, <2>2, <2>3
<1>3. v \div (BYTE * BYTE) = b
    BY <1>1, <1>2, DivDiv
<1>4. v \div (BYTE * BYTE * BYTE) = c
    <2>1. PICK d \in Nat \ {0} : d = BYTE * BYTE
        BY <1>1
    <2>2. v \div (d * BYTE) = (v \div d) \div BYTE
        BY <1>1, <2>1, DivDiv
    <2> QED
        BY <1>2, <1>3, <2>1, <2>2
<1>5. v = BYTE * a + (v % BYTE) /\ a = BYTE * b + (a % BYTE) /\ b = BYTE * c + (b % BYTE)
      /\ v % BYTE \in Nat /\ a % BYTE \in Nat /\ b % BYTE \in Nat
    BY <1>1, <1>2, DivMod
<1>6. writeU32Be(v) = <<c, b % BYTE, a % BYTE, v % BYTE>>
    BY <1>2, <1>3, <1>4 DEF writeU32Be
<1>7. writeU32Be(v) \in Seq(Int) /\ Len(writeU32Be(v)) = 4
    BY <1>5, <1>6
<1>8. ((c * BYTE + (b % BYTE)) * BYTE + (a % BYTE)) * BYTE + (v % BYTE) = v
    BY <1>1, <1>5
<1> QED
    BY <1>6, <1>7, <1>8 DEF readU32Be

\* A word is read where its four bytes are.
LEMMA WordAt ==
    ASSUME NEW v \in Nat, NEW d, NEW n \in Nat,
           d[n + 1] = writeU32Be(v)[1], d[n + 2] = writeU32Be(v)[2],
           d[n + 3] = writeU32Be(v)[3], d[n + 4] = writeU32Be(v)[4]
    PROVE  readU32Be(d, n) = v
BY WordBack DEF readU32Be

\* The timestamp that was written after s is read back from there.
LEMMA TimestampBack ==
    ASSUME NEW ts \in TimestampType, NEW s \in Seq(Int), NEW t \in Seq(Int)
    PROVE  /\ writeTimestamp(ts) \in Seq(Int) /\ Len(writeTimestamp(ts)) = 8
           /\ readTimestamp((s \o writeTimestamp(ts)) \o t, Len(s)) = ts
<1>1. U32 \in Nat /\ ts.seconds \in Nat /\ ts.fraction \in Nat
    BY TimestampAssumption DEF U32, TimestampType
<1>2. PICK x \in Seq(Int) : x = writeU32Be(ts.seconds) /\ Len(x) = 4
    BY <1>1, WordBack
<1>3. PICK y \in Seq(Int) : y = writeU32Be(ts.fraction) /\ Len(y) = 4
    BY <1>1, WordBack
<1>4. PICK w \in Seq(Int) : w = x \o y /\ Len(w) = 8
    <2>1. x \o y \in Seq(Int) /\ Len(x \o y) = Len(x) + Len(y)
        BY Lengths
    <2>2. Len(x) + Len(y) = 8
        BY <1>2, <1>3
    <2> QED
        BY <2>1, <2>2
<1>5. w = writeTimestamp(ts)
    BY <1>2, <1>3, <1>4 DEF writeTimestamp
<1>6. ASSUME NEW j \in 1 .. 4
      PROVE  w[j] = x[j] /\ w[4 + j] = y[j]
    <2>1. j \in 1 .. Len(x) /\ j \in 1 .. Len(y) /\ Len(x) + j = 4 + j
        BY <1>2, <1>3
    <2>2. (x \o y)[j] = x[j] /\ (x \o y)[Len(x) + j] = y[j]
        BY <2>1, First, Second
    <2> QED
        BY <1>4, <2>1, <2>2, Zenon
<1>7. PICK d : d = (s \o w) \o t
    OBVIOUS
<1>8. PICK n \in Nat : n = Len(s)
    OBVIOUS
<1>9. ASSUME NEW j \in 1 .. 8
      PROVE  d[n + j] = w[j]
    <2>1. PICK u \in Seq(Int) : u = s \o w /\ Len(u) = Len(s) + Len(w)
        BY Lengths
    <2>2. Len(s) \in Nat /\ Len(u) = n + 8 /\ j \in 1 .. Len(w)
        <3>1. Len(w) = 8
            BY <1>4
        <3>2. Len(u) = Len(s) + Len(w)
            BY <2>1
        <3> QED
            BY <1>8, <3>1, <3>2
    <2>3. PICK k \in Nat : k = n + j /\ k \in 1 .. n + 8
        OBVIOUS
    <2>4. k \in 1 .. Len(u) /\ k = Len(s) + j
        BY <1>8, <2>2, <2>3, Zenon
    <2>5. (u \o t)[k] = u[k]
        BY <2>4, First
    <2>6. (s \o w)[Len(s) + j] = w[j]
        BY <2>2, Second
    <2> QED
        BY <1>7, <2>1, <2>4, <2>5, <2>6, <2>3, Zenon
<1>10. readU32Be(d, n) = ts.seconds
    <2>1. 1 \in 1 .. 4 /\ 2 \in 1 .. 4 /\ 3 \in 1 .. 4 /\ 4 \in 1 .. 4
          /\ 1 \in 1 .. 8 /\ 2 \in 1 .. 8 /\ 3 \in 1 .. 8 /\ 4 \in 1 .. 8
        OBVIOUS
    <2>2. d[n + 1] = x[1] /\ d[n + 2] = x[2] /\ d[n + 3] = x[3] /\ d[n + 4] = x[4]
        BY <1>6, <1>9, <2>1, Zenon
    <2> QED
        BY <1>1, <1>2, <2>2, WordAt
<1>11. readU32Be(d, n + 4) = ts.fraction
    <2>1. PICK m \in Nat : m = n + 4
        OBVIOUS
    <2>2. m + 1 = n + (4 + 1) /\ m + 2 = n + (4 + 2) /\ m + 3 = n + (4 + 3) /\ m + 4 = n + (4 + 4)
        BY <2>1
    <2>3. 1 \in 1 .. 4 /\ 2 \in 1 .. 4 /\ 3 \in 1 .. 4 /\ 4 \in 1 .. 4
          /\ 4 + 1 \in 1 .. 8 /\ 4 + 2 \in 1 .. 8 /\ 4 + 3 \in 1 .. 8 /\ 4 + 4 \in 1 .. 8
        OBVIOUS
    <2>4. d[n + (4 + 1)] = y[1] /\ d[n + (4 + 2)] = y[2] /\ d[n + (4 + 3)] = y[3]
          /\ d[n + (4 + 4)] = y[4]
        BY <1>6, <1>9, <2>3, Zenon
    <2>5. d[m + 1] = y[1] /\ d[m + 2] = y[2] /\ d[m + 3] = y[3] /\ d[m + 4] = y[4]
        BY <2>2, <2>4, Zenon
    <2>6. readU32Be(d, m) = ts.fraction
        BY <1>1, <1>3, <2>5, WordAt
    <2> QED
        BY <2>1, <2>6
<1>12. ts = Stamp(ts.seconds, ts.fraction)
    BY DEF TimestampType, Stamp
<1>13. readTimestamp(d, n) = ts
    BY <1>10, <1>11, <1>12 DEF readTimestamp
<1> QED
    BY <1>4, <1>5, <1>7, <1>8, <1>13

PacketType ==
    [leap_indicator : Nat, version : Nat, mode : Nat, stratum : Nat, poll : Nat,
     precision : Int, root_delay : Nat, root_dispersion : Nat, reference_id : Nat,
     reference_ts : TimestampType, originate_ts : TimestampType,
     receive_ts : TimestampType, transmit_ts : TimestampType]

\* The timestamps the other side uses come through the bytes of a packet unchanged.
LEMMA PacketBack ==
    ASSUME NEW p \in PacketType
    PROVE  /\ parseFromData(serializeToData(p)).receive_ts = p.receive_ts
           /\ parseFromData(serializeToData(p)).transmit_ts = p.transmit_ts
<1>1. PICK h \in Seq(Int) : Len(h) = 4
        /\ h = <<p.leap_indicator * 64 + p.version * 8 + p.mode, p.stratum, p.poll,
                 p.precision % 256>>
    <2>1. p.leap_indicator * 64 + p.version * 8 + p.mode \in Int /\ p.stratum \in Int
          /\ p.poll \in Int /\ p.precision % 256 \in Int
        BY DEF PacketType
    <2>2. ASSUME NEW i \in Int, NEW j \in Int, NEW k \in Int, NEW l \in Int
          PROVE  <<i, j, k, l>> \in Seq(Int) /\ Len(<<i, j, k, l>>) = 4
        OBVIOUS
    <2> QED
        BY <2>1, <2>2, ZenonT(30)
<1>2. PICK x \in Seq(Int) : x = writeU32Be(p.root_delay) /\ Len(x) = 4
    BY WordBack DEF PacketType
<1>3. PICK y \in Seq(Int) : y = writeU32Be(p.root_dispersion) /\ Len(y) = 4
    BY WordBack DEF PacketType
<1>4. PICK z \in Seq(Int) : z = writeU32Be(p.reference_id) /\ Len(z) = 4
    BY WordBack DEF PacketType
<1>5. <<>> \in Seq(Int)
    OBVIOUS
<1>6. PICK a \in Seq(Int) : a = writeTimestamp(p.reference_ts) /\ Len(a) = 8
    BY <1>5, TimestampBack DEF PacketType
<1>7. PICK b \in Seq(Int) : b = writeTimestamp(p.originate_ts) /\ Len(b) = 8
    BY <1>5, TimestampBack DEF PacketType
<1>8. PICK c \in Seq(Int) : c = writeTimestamp(p.receive_ts) /\ Len(c) = 8
    BY <1>5, TimestampBack DEF PacketType
<1>9. PICK e \in Seq(Int) : e = writeTimestamp(p.transmit_ts) /\ Len(e) = 8
    BY <1>5, TimestampBack DEF PacketType
<1>10. PICK s \in Seq(Int) :
        /\ s = ((((h \o x) \o y) \o z) \o a) \o b
        /\ Len(s) = Len(h) + Len(x) + Len(y) + Len(z) + Len(a) + Len(b)
    <2>1. PICK s1 \in Seq(Int) : s1 = h \o x /\ Len(s1) = Len(h) + Len(x)
        BY Lengths
    <2>2. PICK s2 \in Seq(Int) : s2 = s1 \o y /\ Len(s2) = Len(s1) + Len(y)
        BY Lengths
    <2>3. PICK s3 \in Seq(Int) : s3 = s2 \o z /\ Len(s3) = Len(s2) + Len(z)
        BY Lengths
    <2>4. PICK s4 \in Seq(Int) : s4 = s3 \o a /\ Len(s4) = Len(s3) + Len(a)
        BY Lengths
    <2>5. PICK s5 \in Seq(Int) : s5 = s4 \o b /\ Len(s5) = Len(s4) + Len(b)
        BY Lengths
    <2> QED
        BY <2>1, <2>2, <2>3, <2>4, <2>5
<1>11. PICK r \in Seq(Int) : r = s \o c /\ Len(r) = Len(s) + Len(c)
    BY Lengths
<1>12. Len(s) = 32 /\ Len(r) = 40
    BY <1>1, <1>2, <1>3, <1>4, <1>6, <1>7, <1>8, <1>10, <1>11
<1>13. serializeToData(p) = r \o e
    BY <1>1, <1>2, <1>3, <1>4, <1>6, <1>7, <1>8, <1>9, <1>10, <1>11, ZenonT(30) DEF serializeToData
<1>14. readTimestamp(r \o e, Len(s)) = p.receive_ts
    BY <1>8, <1>11, TimestampBack DEF PacketType
<1>15. readTimestamp(r \o e, Len(r)) = p.transmit_ts
    <2>1. (r \o e) \o <<>> = r \o e
        BY <1>5
    <2>2. readTimestamp((r \o e) \o <<>>, Len(r)) = p.transmit_ts
        BY <1>5, <1>9, TimestampBack DEF PacketType
    <2> QED
        BY <2>1, <2>2
<1> QED
    BY <1>12, <1>13, <1>14, <1>15 DEF parseFromData

-----------------------------------------------------------------------------
(* Eras and corrections *)

\* Division by the same number keeps the order.
LEMMA DivMono ==
    ASSUME NEW a \in Int, NEW c \in Int, a <= c, NEW b \in Nat \ {0}
    PROVE  a \div b <= c \div b
<1>1. PICK p \in Int, q \in 0 .. b - 1 : p = a \div b /\ a = b * p + q
    BY DivMod
<1>2. PICK x \in Int, y \in 0 .. b - 1 : x = c \div b /\ c = b * x + y
    BY DivMod
<1>3. b * p < b * x + b
    BY <1>1, <1>2
<1>4. p * b < (x + 1) * b
    BY <1>3
<1>5. p < x + 1
    BY <1>4, MulStrict
<1> QED
    BY <1>1, <1>2, <1>5

\* A time of an era,
LEMMA OfEra ==
    ASSUME NEW t \in Nat
    PROVE  Era(t) \in Nat /\ InEra(t, Era(t))
<1>1. PICK q \in Nat : q = t \div NANOS
    BY Sizes, DivMod
<1>2. PICK p \in Nat : p = q + EPOCH
    BY Sizes
<1>3. PICK k \in Nat, s \in 0 .. U32 - 1 : k = p \div U32 /\ p = U32 * k + s
    BY Sizes, DivMod
<1>4. Era(t) = k
    BY <1>1, <1>2, <1>3 DEF Era
<1>5. q + EPOCH \in k * U32 .. k * U32 + (U32 - 1)
    BY <1>2, <1>3, Sizes
<1> QED
    BY <1>1, <1>4, <1>5 DEF InEra

\* and those between two of them.
LEMMA BetweenInEra ==
    ASSUME NEW a \in Nat, NEW b \in Nat, NEW t \in a .. b, Era(b) = Era(a)
    PROVE  InEra(t, Era(a))
<1>1. t \in Nat /\ a <= t /\ t <= b
    OBVIOUS
<1>2. PICK x \in Nat, y \in Nat, z \in Nat :
        x = a \div NANOS /\ y = t \div NANOS /\ z = b \div NANOS
    <2>1. a \div NANOS \in Nat /\ t \div NANOS \in Nat /\ b \div NANOS \in Nat
        <3>1. NANOS \in Nat \ {0}
            BY Sizes
        <3> QED
            BY <1>1, <3>1
    <2> QED
        BY <2>1
<1>3. x <= y /\ y <= z
    BY <1>1, <1>2, Sizes, DivMono
<1>4. InEra(a, Era(a)) /\ InEra(b, Era(a)) /\ Era(a) \in Nat
    BY OfEra
<1> QED
    BY <1>1, <1>2, <1>3, <1>4, Sizes DEF InEra

\* The server's correction moves the time it read by its offset, less what the timestamp
\* lost; without an offset it loses nothing.
LEMMA CorrectedTime ==
    ASSUME NEW k \in Nat, NEW x \in Nat, NEW c \in Int, clock_offset_us = c, InEra(x, k),
           c # 0 => k = 0 /\ x + c * MicroNanos >= MicroNanos /\ InEra(x + c * MicroNanos, 0)
    PROVE  \E y \in Nat :
             /\ Corrected(fromSystemTime(x)) = fromSystemTime(y)
             /\ InEra(y, k)
             /\ y \in x + c * MicroNanos - MicroNanos .. x + c * MicroNanos
             /\ c = 0 => y = x
             /\ c # 0 => y = toSystemTime(fromSystemTime(x)) + c * MicroNanos
<1>1. CASE c = 0
    <2>1. c * MicroNanos = 0
        BY <1>1, Sizes
    <2> QED
        BY <1>1, <2>1, Sizes DEF Corrected
<1>2. CASE c # 0
    <2>1. PICK o \in Int : o = c * MicroNanos
        BY Sizes
    <2>2. PICK n \in Int : toSystemTime(fromSystemTime(x)) = n * MicroNanos
                         /\ n * MicroNanos + EraStart(0) \in x - MicroNanos .. x
        BY <1>2, ThereAndBack
    <2>3. PICK e \in Int : e = n * MicroNanos /\ e \in x - MicroNanos .. x
        BY <2>2, Sizes DEF EraStart
    <2>4. e + o \in Nat /\ e + o \in x + o - MicroNanos .. x + o
        BY <1>2, <2>1, <2>3, Sizes
    <2>5. PICK y \in Nat : y = e + o
        BY <2>4
    <2>6. InEra(y, 0)
        <3>1. NANOS \in Nat \ {0} /\ x + o \in Int /\ y <= x + o
            BY <2>1, <2>4, <2>5, Sizes
        <3>2. PICK a \in Nat, b \in Int : a = y \div NANOS /\ b = (x + o) \div NANOS /\ a <= b
            <4>1. y \div NANOS \in Nat /\ (x + o) \div NANOS \in Int
                BY <3>1
            <4>2. y \div NANOS <= (x + o) \div NANOS
                BY <3>1, DivMono
            <4> QED
                BY <4>1, <4>2
        <3>3. x + o \in Nat /\ b + EPOCH \in 0 * U32 .. 0 * U32 + (U32 - 1)
            BY <1>2, <2>1, <3>2 DEF InEra
        <3> QED
            BY <2>5, <3>2, <3>3, Sizes DEF InEra
    <2>7. Corrected(fromSystemTime(x)) = fromSystemTime(y)
        BY <1>2, <2>1, <2>2, <2>3, <2>5 DEF Corrected
    <2> QED
        BY <1>2, <2>1, <2>2, <2>3, <2>4, <2>5, <2>6, <2>7
<1> QED
    BY <1>1, <1>2

-----------------------------------------------------------------------------
(* The order of timestamps *)

\* A timestamp as a number of fractions of a second.
StampValue(ts) == ts.seconds * U32 + ts.fraction

\* It is the time in fractions, rounded down.
LEMMA ValueOfTime ==
    ASSUME NEW k \in Nat, NEW t \in Nat, InEra(t, k)
    PROVE  \E v \in 0 .. U64 - 1, c \in Int :
             /\ v = StampValue(fromSystemTime(t))
             /\ c = NANOS * ((k * U32 - EPOCH) * U32)
             /\ NANOS * v + c <= t * U32
             /\ t * U32 < NANOS * v + c + NANOS
<1>1. PICK q \in Nat, r \in 0 .. NANOS - 1 : q = t \div NANOS /\ r = t % NANOS /\ t = NANOS * q + r
    <2>1. NANOS \in Nat \ {0}
        BY Sizes
    <2>2. t \div NANOS \in Nat /\ t % NANOS \in 0 .. NANOS - 1
          /\ t = NANOS * (t \div NANOS) + (t % NANOS)
        BY <2>1
    <2> QED
        BY <2>2
<1>2. PICK f \in 0 .. U32 - 1 : f = (r * U32) \div NANOS
    BY FractionRange
<1>3. NANOS * f <= r * U32 /\ r * U32 < NANOS * f + NANOS
    <2>1. PICK p \in Nat : p = r * U32
        BY Sizes
    <2>2. PICK d \in Nat, e \in 0 .. NANOS - 1 : d = p \div NANOS /\ p = NANOS * d + e
        <3>1. NANOS \in Nat \ {0}
            BY Sizes
        <3>2. p \div NANOS \in Nat /\ p % NANOS \in 0 .. NANOS - 1
              /\ p = NANOS * (p \div NANOS) + (p % NANOS)
            BY <3>1
        <3> QED
            BY <3>2
    <2>3. d = f
        BY <1>2, <2>1, <2>2
    <2> QED
        BY <2>1, <2>2, <2>3, Sizes
<1>4. PICK s \in 0 .. U32 - 1 : s = q + EPOCH - k * U32
    BY <1>1, Sizes DEF InEra
<1>5. fromSystemTime(t).seconds = s /\ fromSystemTime(t).fraction = f
    <2>1. fromSystemTime(t) = Stamp((q + EPOCH) % U32, f)
        BY <1>1, <1>2, FromSystemTime
    <2>2. fromSystemTime(t).seconds = s
        BY <1>1, <1>4, ThereAndBack
    <2> QED
        BY <2>1, <2>2 DEF Stamp
<1>6. PICK v \in 0 .. U64 - 1 : v = s * U32 + f
    <2>1. s * U32 <= (U32 - 1) * U32 /\ (U32 - 1) * U32 = U64 - U32
        BY Sizes, MulMono
    <2>2. s * U32 \in Nat
        BY Sizes
    <2> QED
        BY <2>1, <2>2, Sizes
<1>7. PICK c \in Int : c = NANOS * ((k * U32 - EPOCH) * U32)
    BY Sizes
<1>8. NANOS * v + c = (NANOS * q) * U32 + NANOS * f
    <2>1. v = (q + EPOCH - k * U32) * U32 + f
        BY <1>4, <1>6
    <2> QED
        BY <1>7, <2>1, Sizes
<1>9. t * U32 = (NANOS * q) * U32 + r * U32
    BY <1>1, Sizes
<1>10. NANOS * v + c <= t * U32 /\ t * U32 < NANOS * v + c + NANOS
    BY <1>3, <1>8, <1>9, Sizes
<1> QED
    BY <1>5, <1>6, <1>7, <1>10 DEF StampValue

\* So timestamps of an era keep the order of the times, and are as far behind each other.
LEMMA BehindBy ==
    ASSUME NEW k \in Nat, NEW x \in Nat, NEW y \in Nat, InEra(x, k), InEra(y, k), y <= x
    PROVE  \E d \in Nat :
             /\ Behind(fromSystemTime(x), fromSystemTime(y)) = d
             /\ d = StampValue(fromSystemTime(x)) - StampValue(fromSystemTime(y))
             /\ NANOS * (d - 1) < (x - y) * U32
<1>1. PICK v \in 0 .. U64 - 1, c \in Int :
        /\ v = StampValue(fromSystemTime(x))
        /\ c = NANOS * ((k * U32 - EPOCH) * U32)
        /\ NANOS * v + c <= x * U32 /\ x * U32 < NANOS * v + c + NANOS
    BY ValueOfTime
<1>2. PICK w \in 0 .. U64 - 1 :
        /\ w = StampValue(fromSystemTime(y))
        /\ NANOS * w + c <= y * U32 /\ y * U32 < NANOS * w + c + NANOS
    BY <1>1, ValueOfTime
<1>3. w <= v
    <2>1. y * U32 <= x * U32
        BY Sizes, MulMono
    <2>2. NANOS * w < NANOS * v + NANOS
        <3>1. PICK a \in Int, b \in Int, e \in Int, f \in Int :
                a = NANOS * w /\ b = NANOS * v /\ e = y * U32 /\ f = x * U32
            BY Sizes
        <3>2. e <= f /\ a + c <= e /\ f < b + c + NANOS /\ NANOS \in Int
            BY <1>1, <1>2, <2>1, <3>1, Sizes
        <3> QED
            BY <3>1, <3>2
    <2>3. w * NANOS < (v + 1) * NANOS
        BY <2>2, Sizes
    <2>4. w < v + 1
        BY <2>3, Sizes, MulStrict
    <2> QED
        BY <2>4
<1>4. PICK d \in 0 .. U64 - 1 : d = v - w
    BY <1>3, Sizes
<1>5. NANOS * (d - 1) < (x - y) * U32
    <2>1. NANOS * (d - 1) = NANOS * v - NANOS * w - NANOS
        BY <1>4, Sizes
    <2>2. (x - y) * U32 = x * U32 - y * U32
        BY Sizes
    <2> QED
        BY <1>1, <1>2, <2>1, <2>2, Sizes
<1>6. Behind(fromSystemTime(x), fromSystemTime(y)) = d
    <2>1. /\ fromSystemTime(x).seconds \in Int /\ fromSystemTime(x).fraction \in Int
          /\ fromSystemTime(y).seconds \in Int /\ fromSystemTime(y).fraction \in Int
        BY ThereAndBack, Sizes DEF TimestampType
    <2>2. PICK a \in Int, b \in Int, e \in Int, f \in Int :
            /\ a = fromSystemTime(x).seconds /\ b = fromSystemTime(x).fraction
            /\ e = fromSystemTime(y).seconds /\ f = fromSystemTime(y).fraction
        BY <2>1
    <2>3. (a - e) * U32 + b - f = d
        <3>1. v = a * U32 + b /\ w = e * U32 + f
            BY <1>1, <1>2, <2>2 DEF StampValue
        <3> QED
            BY <1>4, <3>1, Sizes
    <2>4. d % U64 = d
        BY Sizes, Small
    <2> QED
        BY <2>2, <2>3, <2>4 DEF Behind
<1> QED
    BY <1>1, <1>2, <1>4, <1>5, <1>6

\* What comes back of two timestamps of an era is in the order of the times, too.
LEMMA BackInOrder ==
    ASSUME NEW k \in Nat, NEW x \in Nat, NEW y \in Nat, InEra(x, k), InEra(y, k), y <= x
    PROVE  toSystemTime(fromSystemTime(y)) <= toSystemTime(fromSystemTime(x))
<1>1. ASSUME NEW ts \in TimestampType
      PROVE  \E v \in Nat, m \in Nat :
               /\ v = StampValue(ts) /\ m = (v * MICROS) \div U32
               /\ toSystemTime(ts) = (m - EPOCH * MICROS) * MicroNanos
    <2>1. PICK s \in Nat, f \in Nat : s = ts.seconds /\ f = ts.fraction
        BY Sizes DEF TimestampType
    <2>2. PICK n \in Nat : n = (f * MICROS) \div U32
                        /\ toSystemTime(ts) = ((s - EPOCH) * MICROS + n) * MicroNanos
        BY <2>1, ToSystemTime
    <2>3. PICK p \in Nat : p = f * MICROS
        BY Sizes
    <2>4. PICK e \in 0 .. U32 - 1 : p = U32 * n + e
        <3>1. U32 \in Nat \ {0} /\ n = p \div U32
            BY <2>2, <2>3, Sizes
        <3>2. p % U32 \in 0 .. U32 - 1 /\ p = U32 * (p \div U32) + (p % U32)
            BY <3>1
        <3> QED
            BY <3>1, <3>2
    <2>5. PICK v \in Nat : v = s * U32 + f
        BY Sizes
    <2>6. PICK w \in Nat : w = v * MICROS
        BY Sizes
    <2>7. PICK m \in Nat : m = s * MICROS + n
        BY Sizes
    <2>8. w = U32 * m + e
        BY <2>3, <2>4, <2>5, <2>6, <2>7, Sizes
    <2>9. U32 \in Nat \ {0}
        BY Sizes
    <2>10. w \div U32 = m
        BY <2>8, <2>9, DivUnique
    <2>11. m - EPOCH * MICROS = (s - EPOCH) * MICROS + n
        BY <2>7, Sizes
    <2> QED
        BY <2>1, <2>2, <2>5, <2>6, <2>10, <2>11 DEF StampValue
<1>2. fromSystemTime(x) \in TimestampType /\ fromSystemTime(y) \in TimestampType
    BY ThereAndBack
<1>3. PICK v \in Nat, m \in Nat :
        /\ v = StampValue(fromSystemTime(x)) /\ m = (v * MICROS) \div U32
        /\ toSystemTime(fromSystemTime(x)) = (m - EPOCH * MICROS) * MicroNanos
    BY <1>1, <1>2
<1>4. PICK w \in Nat, n \in Nat :
        /\ w = StampValue(fromSystemTime(y)) /\ n = (w * MICROS) \div U32
        /\ toSystemTime(fromSystemTime(y)) = (n - EPOCH * MICROS) * MicroNanos
    BY <1>1, <1>2
<1>5. w <= v
    BY <1>3, <1>4, BehindBy
<1>6. n <= m
    <2>1. PICK a \in Nat, b \in Nat : a = w * MICROS /\ b = v * MICROS
        BY Sizes
    <2>2. a <= b
        BY <1>5, <2>1, Sizes, MulMono
    <2>3. U32 \in Nat \ {0}
        BY Sizes
    <2>4. a \div U32 <= b \div U32
        BY <2>2, <2>3, DivMono
    <2> QED
        BY <1>3, <1>4, <2>1, <2>4
<1>7. PICK a \in Int, b \in Int : a = n - EPOCH * MICROS /\ b = m - EPOCH * MICROS /\ a <= b
    BY <1>6, Sizes
<1>8. a * MicroNanos <= b * MicroNanos
    BY <1>7, Sizes, MulMono
<1> QED
    BY <1>3, <1>4, <1>7, <1>8

-----------------------------------------------------------------------------
(* The client's arithmetic *)

\* Halving a whole number of microseconds and rounding it to one is off by half of one.
LEMMA HalfOf ==
    ASSUME NEW j \in Int
    PROVE  \E o \in Int : /\ o = Quotient(Quotient(j * MicroNanos, 2), MicroNanos)
                          /\ 2 * o - j \in -1 .. 1
<1>1. ASSUME NEW i \in Nat
      PROVE  \E h \in Nat, o \in Nat :
               /\ h = (i * MicroNanos) \div 2 /\ o = h \div MicroNanos
               /\ i - 2 * o \in 0 .. 1
    <2>1. PICK a \in Nat : a = i * MicroNanos
        BY Sizes
    <2>2. PICK h \in Nat : h = a \div 2 /\ 2 * h <= a /\ a <= 2 * h + 1
        OBVIOUS
    <2>3. PICK o \in Nat, e \in 0 .. MicroNanos - 1 :
            o = h \div MicroNanos /\ h = MicroNanos * o + e
        <3>1. MicroNanos \in Nat \ {0}
            BY Sizes
        <3>2. h \div MicroNanos \in Nat /\ h % MicroNanos \in 0 .. MicroNanos - 1
              /\ h = MicroNanos * (h \div MicroNanos) + (h % MicroNanos)
            BY <3>1
        <3> QED
            BY <3>2
    <2>4. (2 * o) * MicroNanos < (i + 1) * MicroNanos
        BY <2>1, <2>2, <2>3, Sizes
    <2>5. i * MicroNanos < (2 * o + 2) * MicroNanos
        BY <2>1, <2>2, <2>3, Sizes
    <2>6. 2 * o < i + 1 /\ i < 2 * o + 2
        BY <2>4, <2>5, Sizes, MulStrict
    <2> QED
        BY <2>1, <2>2, <2>3, <2>6
<1>2. CASE j >= 0
    <2>1. PICK h \in Nat, o \in Nat :
            h = (j * MicroNanos) \div 2 /\ o = h \div MicroNanos /\ j - 2 * o \in 0 .. 1
        <3>1. j \in Nat
            BY <1>2
        <3> QED
            BY <1>1, <3>1
    <2>2. j * MicroNanos >= 0
        BY <1>2, Sizes
    <2> QED
        BY <2>1, <2>2 DEF Quotient
<1>3. CASE j < 0
    <2>1. PICK i \in Nat : i = -j /\ i > 0
        BY <1>3
    <2>2. PICK h \in Nat, o \in Nat :
            h = (i * MicroNanos) \div 2 /\ o = h \div MicroNanos /\ i - 2 * o \in 0 .. 1
        BY <1>1
    <2>3. -(j * MicroNanos) = i * MicroNanos /\ ~(j * MicroNanos >= 0)
        <3>1. i * MicroNanos > 0
            BY <2>1, Sizes
        <3> QED
            BY <2>1, <3>1, Sizes
    <2>4. Quotient(j * MicroNanos, 2) = -h
        BY <2>2, <2>3 DEF Quotient
    <2>5. Quotient(-h, MicroNanos) = -o
        <3>1. CASE h = 0
            <4>1. 0 \div MicroNanos = 0
                BY Sizes, Small
            <4> QED
                BY <2>2, <3>1, <4>1 DEF Quotient
        <3>2. CASE h > 0
            <4>1. ~(-h >= 0) /\ -(-h) = h
                BY <3>2
            <4> QED
                BY <2>2, <4>1 DEF Quotient
        <3> QED
            BY <3>1, <3>2
    <2>6. 2 * (-o) - j \in -1 .. 1
        BY <2>1, <2>2
    <2> QED
        BY <2>4, <2>5, <2>6
<1> QED
    BY <1>2, <1>3

\* A whole number of microseconds is divided without a rest.
LEMMA WholeOf ==
    ASSUME NEW j \in Int
    PROVE  Quotient(j * MicroNanos, MicroNanos) = j
<1>1. MicroNanos \in Nat \ {0}
    BY Sizes
<1>2. CASE j >= 0
    <2>1. j * MicroNanos \in Nat
        BY <1>1, <1>2
    <2>2. (j * MicroNanos) \div MicroNanos = j
        BY <1>1, <1>2
    <2> QED
        BY <2>1, <2>2 DEF Quotient
<1>3. CASE j < 0
    <2>1. PICK i \in Nat : i = -j /\ i > 0
        BY <1>3
    <2>2. (i * MicroNanos) \div MicroNanos = i /\ i * MicroNanos > 0
        BY <1>1, <2>1
    <2>3. j * MicroNanos = -(i * MicroNanos)
        BY <1>1, <2>1
    <2>4. ~(j * MicroNanos >= 0) /\ -(j * MicroNanos) = i * MicroNanos
        BY <1>1, <2>2, <2>3
    <2> QED
        BY <2>1, <2>2, <2>4 DEF Quotient
<1> QED
    BY <1>2, <1>3

\* The four timestamps of an exchange, counted in microseconds from the start of an era,
\* and the times they stand for: a is asked, b and d the corrected clock of the server when
\* it heard and sent, e got.
LEMMA FourTimes ==
    ASSUME NEW k \in Nat, NEW a \in Nat, NEW b \in Nat, NEW d \in Nat, NEW e \in Nat,
           InEra(a, k), InEra(b, k), InEra(d, k), InEra(e, k)
    PROVE  \E i \in Int, j \in Int, o \in Int :
             /\ o = calculateOffset(fromSystemTime(a), fromSystemTime(b), fromSystemTime(d),
                                    fromSystemTime(e))
             /\ i = calculateRoundTripDelay(fromSystemTime(a), fromSystemTime(b),
                                            fromSystemTime(d), fromSystemTime(e))
             /\ i * MicroNanos - ((e - a) - (d - b)) \in -2 * MicroNanos .. 2 * MicroNanos
             /\ j * MicroNanos - ((b - a) + (d - e)) \in -2 * MicroNanos .. 2 * MicroNanos
             /\ 2 * o - j \in -1 .. 1
<1>1. PICK S \in Int : S = EraStart(k)
    BY Sizes DEF EraStart
<1>2. PICK p \in Int : toSystemTime(fromSystemTime(a)) = p * MicroNanos
                     /\ p * MicroNanos + S \in a - MicroNanos .. a
    BY <1>1, ThereAndBack
<1>3. PICK q \in Int : toSystemTime(fromSystemTime(b)) = q * MicroNanos
                     /\ q * MicroNanos + S \in b - MicroNanos .. b
    BY <1>1, ThereAndBack
<1>4. PICK r \in Int : toSystemTime(fromSystemTime(d)) = r * MicroNanos
                     /\ r * MicroNanos + S \in d - MicroNanos .. d
    BY <1>1, ThereAndBack
<1>5. PICK s \in Int : toSystemTime(fromSystemTime(e)) = s * MicroNanos
                     /\ s * MicroNanos + S \in e - MicroNanos .. e
    BY <1>1, ThereAndBack
<1>6. PICK i \in Int, j \in Int : i = (s - p) - (r - q) /\ j = (q - p) + (r - s)
    OBVIOUS
<1>7. PICK P \in Int, Q \in Int, R \in Int, T \in Int :
        /\ P = p * MicroNanos /\ Q = q * MicroNanos /\ R = r * MicroNanos /\ T = s * MicroNanos
        /\ i * MicroNanos = (T - P) - (R - Q) /\ j * MicroNanos = (Q - P) + (R - T)
    <2>1. MicroNanos \in Int
        BY Sizes
    <2> QED
        BY <1>6, <2>1
<1>8. i * MicroNanos - ((e - a) - (d - b)) \in -2 * MicroNanos .. 2 * MicroNanos
    <2>1. MicroNanos \in Nat
        BY Sizes
    <2>2. PICK x \in Int : x = i * MicroNanos
        BY <2>1
    <2>3. x - ((e - a) - (d - b)) \in -2 * MicroNanos .. 2 * MicroNanos
        BY <1>2, <1>3, <1>4, <1>5, <1>7, <2>1, <2>2
    <2> QED
        BY <2>2, <2>3
<1>9. j * MicroNanos - ((b - a) + (d - e)) \in -2 * MicroNanos .. 2 * MicroNanos
    <2>1. MicroNanos \in Nat
        BY Sizes
    <2>2. PICK x \in Int : x = j * MicroNanos
        BY <2>1
    <2>3. x - ((b - a) + (d - e)) \in -2 * MicroNanos .. 2 * MicroNanos
        BY <1>2, <1>3, <1>4, <1>5, <1>7, <2>1, <2>2
    <2> QED
        BY <2>2, <2>3
<1>10. i = calculateRoundTripDelay(fromSystemTime(a), fromSystemTime(b), fromSystemTime(d),
                                   fromSystemTime(e))
    BY <1>2, <1>3, <1>4, <1>5, <1>7, WholeOf DEF calculateRoundTripDelay
<1>11. PICK o \in Int :
        o = Quotient(Quotient(j * MicroNanos, 2), MicroNanos) /\ 2 * o - j \in -1 .. 1
    BY HalfOf
<1>12. o = calculateOffset(fromSystemTime(a), fromSystemTime(b), fromSystemTime(d),
                           fromSystemTime(e))
    BY <1>2, <1>3, <1>4, <1>5, <1>7, <1>11 DEF calculateOffset
<1> QED
    BY <1>8, <1>9, <1>10, <1>11, <1>12

-----------------------------------------------------------------------------
(* The server's clock *)

\* The scenario is one of those assumed.
Chosen ==
    [start |-> start, skew |-> skew, clock_offset_us |-> clock_offset_us] \in Scenarios

\* Both clocks are read within the era.
LEMMA Readings ==
    ASSUME Chosen, NEW t \in start .. start + Span
    PROVE  /\ start \in Nat /\ Span \in Nat /\ skew \in Int /\ clock_offset_us \in Int
           /\ Era(start) \in Nat /\ t \in Nat /\ t + skew \in Nat
           /\ InEra(t, Era(start)) /\ InEra(t + skew, Era(start))
<1>1. PICK s \in Scenarios : s.start = start /\ s.skew = skew
                          /\ s.clock_offset_us = clock_offset_us
    BY DEF Chosen
<1>2. s \in [start : Nat, skew : Int, clock_offset_us : Int] /\ InOneEra(s)
    BY ExchangeAssumption
<1>3. start \in Nat /\ skew \in Int /\ clock_offset_us \in Int
    BY <1>1, <1>2
<1>4. Span \in Nat
    BY ExchangeAssumption
<1>5. start + skew >= 0 /\ Era(start + Span) = Era(start) /\ Era(start + skew) = Era(start)
      /\ Era(start + skew + Span) = Era(start)
    BY <1>1, <1>2 DEF InOneEra
<1>6. t \in Nat /\ InEra(t, Era(start))
    <2>1. start + Span \in Nat /\ t \in Nat
        BY <1>3, <1>4
    <2> QED
        BY <1>3, <1>5, <2>1, BetweenInEra
<1>7. t + skew \in Nat /\ InEra(t + skew, Era(start))
    <2>1. PICK a \in Nat, b \in Nat : a = start + skew /\ b = start + skew + Span
        BY <1>3, <1>4, <1>5
    <2>2. t + skew \in a .. b
        BY <1>3, <1>4, <2>1
    <2>3. InEra(t + skew, Era(a))
        BY <1>5, <2>1, <2>2, BetweenInEra
    <2> QED
        BY <1>5, <2>1, <2>2, <2>3
<1>8. Era(start) \in Nat
    BY <1>3, OfEra
<1> QED
    BY <1>3, <1>4, <1>6, <1>7, <1>8

\* The timestamp of a reading of the server's clock, and the corrected one.
LEMMA ServerStamp ==
    ASSUME Chosen, NEW t \in start .. start + Span
    PROVE  \E y \in Nat :
             /\ Corrected(fromSystemTime(t + skew)) = fromSystemTime(y)
             /\ InEra(y, Era(start))
             /\ y \in t + TrueOffset - MicroNanos .. t + TrueOffset
             /\ clock_offset_us = 0 => y = t + skew
             /\ clock_offset_us # 0 =>
                  /\ y = toSystemTime(fromSystemTime(t + skew)) + clock_offset_us * MicroNanos
                  /\ t + TrueOffset \in Nat /\ InEra(t + TrueOffset, Era(start))
<1>1. /\ start \in Nat /\ Span \in Nat /\ skew \in Int /\ clock_offset_us \in Int
      /\ Era(start) \in Nat /\ t \in Nat /\ t + skew \in Nat /\ InEra(t + skew, Era(start))
    BY Readings
<1>2. PICK s \in Scenarios : s.start = start /\ s.skew = skew
                          /\ s.clock_offset_us = clock_offset_us
    BY DEF Chosen
<1>3. InOneEra(s)
    BY ExchangeAssumption
<1>4. PICK o \in Int : o = clock_offset_us * MicroNanos
    BY <1>1, Sizes
<1>5. TrueOffset = skew + o /\ t + TrueOffset = (t + skew) + o
    BY <1>1, <1>4 DEF TrueOffset
<1>6. ASSUME clock_offset_us # 0
      PROVE  Era(start) = 0 /\ (t + skew) + o >= MicroNanos /\ (t + skew) + o \in Nat
             /\ InEra((t + skew) + o, 0)
    <2>1. start + skew + o >= MicroNanos /\ Era(start) = 0
          /\ Era(start + skew + o + Span) = 0
        BY <1>2, <1>3, <1>4, <1>6 DEF InOneEra
    <2>2. PICK a \in Nat, b \in Nat : a = start + skew + o /\ b = start + skew + o + Span
        BY <1>1, <2>1, Sizes
    <2>3. (t + skew) + o \in a .. b /\ (t + skew) + o >= MicroNanos
        BY <1>1, <2>1, <2>2, Sizes
    <2>4. Era(a) = 0
        <3>1. a \in 0 .. b
            BY <1>1, <2>2
        <3>2. Era(a) \in Nat
            BY OfEra
        <3>3. PICK x \in Nat, z \in Nat :
                x = a \div NANOS /\ x <= z /\ z + EPOCH \in 0 * U32 .. 0 * U32 + (U32 - 1)
            <4>1. NANOS \in Nat \ {0} /\ a <= b
                BY <3>1, Sizes
            <4>2. a \div NANOS \in Nat /\ b \div NANOS \in Nat
                BY <4>1
            <4>3. a \div NANOS <= b \div NANOS
                BY <4>1, DivMono
            <4>4. InEra(b, 0)
                BY <2>1, <2>2, OfEra
            <4> QED
                BY <4>2, <4>3, <4>4 DEF InEra
        <3>4. PICK p \in Nat : p = (a \div NANOS) + EPOCH /\ p <= U32 - 1
            <4>1. U32 \in Nat /\ EPOCH \in Nat
                BY Sizes
            <4> QED
                BY <3>3, <4>1
        <3>5. p \div U32 = 0
            BY <3>4, Sizes, Small
        <3> QED
            BY <3>4, <3>5 DEF Era
    <2>5. InEra((t + skew) + o, Era(a))
        BY <2>1, <2>2, <2>3, <2>4, BetweenInEra
    <2> QED
        BY <2>1, <2>2, <2>3, <2>4, <2>5
<1>7. PICK y \in Nat :
        /\ Corrected(fromSystemTime(t + skew)) = fromSystemTime(y)
        /\ InEra(y, Era(start))
        /\ y \in (t + skew) + o - MicroNanos .. (t + skew) + o
        /\ clock_offset_us = 0 => y = t + skew
        /\ clock_offset_us # 0 => y = toSystemTime(fromSystemTime(t + skew)) + o
    <2>1. PICK x \in Nat : x = t + skew
        BY <1>1
    <2>2. InEra(x, Era(start)) /\
          (clock_offset_us # 0 => Era(start) = 0 /\ x + clock_offset_us * MicroNanos >= MicroNanos
                                  /\ InEra(x + clock_offset_us * MicroNanos, 0))
        BY <1>1, <1>4, <1>6, <2>1
    <2>3. \E y \in Nat :
             /\ Corrected(fromSystemTime(x)) = fromSystemTime(y)
             /\ InEra(y, Era(start))
             /\ y \in x + clock_offset_us * MicroNanos - MicroNanos ..
                      x + clock_offset_us * MicroNanos
             /\ clock_offset_us = 0 => y = x
             /\ clock_offset_us # 0 =>
                  y = toSystemTime(fromSystemTime(x)) + clock_offset_us * MicroNanos
        BY <1>1, <2>2, CorrectedTime
    <2> QED
        BY <1>4, <2>1, <2>3
<1>8. y \in t + TrueOffset - MicroNanos .. t + TrueOffset
    <2>1. PICK v \in Int, w \in Int, m \in Nat :
            v = t + skew /\ w = TrueOffset /\ w = skew + o /\ m = MicroNanos
        BY <1>1, <1>4, <1>5, Sizes
    <2>2. y \in v + o - m .. v + o
        BY <1>7, <2>1
    <2>3. y \in t + w - m .. t + w
        BY <1>1, <2>1, <2>2
    <2> QED
        BY <2>1, <2>3
<1>9. clock_offset_us # 0 => t + TrueOffset \in Nat /\ InEra(t + TrueOffset, Era(start))
    BY <1>5, <1>6
<1> QED
    BY <1>4, <1>7, <1>8, <1>9

\* The two corrected timestamps of an answer are in the order of the readings.
LEMMA ServerOrder ==
    ASSUME Chosen, NEW t \in start .. start + Span, NEW u \in t .. start + Span,
           NEW y \in Nat, NEW z \in Nat,
           clock_offset_us = 0 => y = t + skew /\ z = u + skew,
           clock_offset_us # 0 =>
             /\ y = toSystemTime(fromSystemTime(t + skew)) + clock_offset_us * MicroNanos
             /\ z = toSystemTime(fromSystemTime(u + skew)) + clock_offset_us * MicroNanos
    PROVE  y <= z
<1>1. u \in start .. start + Span
    <2>1. start \in Nat /\ Span \in Nat /\ t \in Nat
        BY Readings
    <2> QED
        BY <2>1
<1>2. /\ skew \in Int /\ clock_offset_us \in Int /\ Era(start) \in Nat
      /\ t \in Nat /\ t + skew \in Nat /\ InEra(t + skew, Era(start))
      /\ u \in Nat /\ u + skew \in Nat /\ InEra(u + skew, Era(start)) /\ t <= u
    BY <1>1, Readings
<1>3. PICK a \in Nat, b \in Nat : a = t + skew /\ b = u + skew /\ a <= b
    BY <1>2
<1>4. CASE clock_offset_us = 0
    BY <1>3, <1>4
<1>5. CASE clock_offset_us # 0
    <2>1. toSystemTime(fromSystemTime(a)) <= toSystemTime(fromSystemTime(b))
        BY <1>2, <1>3, BackInOrder
    <2>2. toSystemTime(fromSystemTime(a)) \in Int /\ toSystemTime(fromSystemTime(b)) \in Int
        BY <1>2, <1>3, ThereAndBack, Sizes
    <2>3. clock_offset_us * MicroNanos \in Int
        BY <1>2, Sizes
    <2> QED
        BY <1>3, <1>5, <2>1, <2>2, <2>3
<1> QED
    BY <1>4, <1>5

-----------------------------------------------------------------------------
(* The exchange *)

\* What each step of the exchange has read and sent.
Progress ==
    /\ pc \in {"ask", "asked", "heard", "stamped", "answered", "done"}
    /\ pc \in {"asked", "heard", "stamped", "answered"} =>
          asked \in start .. time /\ t1 = fromSystemTime(asked)
    /\ pc = "asked" => datagram = serializeToData(createClientRequest(asked))
    /\ pc \in {"heard", "stamped", "answered"} => heard \in asked .. time
    /\ pc \in {"stamped", "answered"} => sent \in heard .. time
    /\ pc \in {"heard", "stamped"} =>
          response_packet \in PacketType
            /\ response_packet.receive_ts = fromSystemTime(heard + skew)
    /\ pc = "stamped" => response_packet.transmit_ts = fromSystemTime(sent + skew)
    /\ pc = "answered" =>
          /\ parseFromData(datagram).receive_ts = Corrected(fromSystemTime(heard + skew))
          /\ parseFromData(datagram).transmit_ts = Corrected(fromSystemTime(sent + skew))

ExchangeInv ==
    /\ Chosen
    /\ time \in start .. start + Span
    /\ Progress
    /\ result.success => pc = "done"
    /\ OffsetAccurate /\ DelayAccurate

\* The packets the two sides build can be written.
LEMMA Packets ==
    /\ \A t \in Nat : \A k \in Nat :
          InEra(t, k) => createClientRequest(t) \in PacketType
                           /\ createClientRequest(t).transmit_ts = fromSystemTime(t)
    /\ \A t \in Nat : \A k \in Nat : \A p :
          InEra(t, k) /\ p.transmit_ts \in TimestampType =>
            /\ createServerResponse(p, 2, 1, t) \in PacketType
            /\ createServerResponse(p, 2, 1, t).receive_ts = fromSystemTime(t)
<1>1. Zero \in TimestampType
    BY Sizes DEF Zero, Stamp, TimestampType
<1>2. ASSUME NEW t \in Nat, NEW k \in Nat, InEra(t, k)
      PROVE  fromSystemTime(t) \in TimestampType
    BY <1>2, ThereAndBack
<1>3. ASSUME NEW ts \in TimestampType, NEW us \in TimestampType, NEW p
      PROVE  /\ [leap_indicator |-> 0, version |-> NTP_VERSION, mode |-> CLIENT, stratum |-> 0,
                 poll |-> 4, precision |-> -6, root_delay |-> 0, root_dispersion |-> 0,
                 reference_id |-> 0, reference_ts |-> Zero, originate_ts |-> Zero,
                 receive_ts |-> Zero, transmit_ts |-> ts] \in PacketType
             /\ [leap_indicator |-> 0, version |-> NTP_VERSION, mode |-> SERVER,
                 stratum |-> 2, poll |-> 4, precision |-> -6, root_delay |-> 0,
                 root_dispersion |-> 0, reference_id |-> 1, reference_ts |-> Zero,
                 originate_ts |-> us, receive_ts |-> ts,
                 transmit_ts |-> Zero] \in PacketType
    BY <1>1 DEF PacketType, NTP_VERSION, CLIENT, SERVER
<1> QED
    BY <1>2, <1>3 DEF createClientRequest, createServerResponse

\* The invariant holds at first.
LEMMA InitInv ==
    ASSUME Init
    PROVE  ExchangeInv
<1>1. PICK s \in Scenarios :
        start = s.start /\ time = s.start /\ skew = s.skew /\ clock_offset_us = s.clock_offset_us
    BY DEF Init
<1>2. s \in [start : Nat, skew : Int, clock_offset_us : Int]
    BY ExchangeAssumption
<1>3. s = [start |-> s.start, skew |-> s.skew, clock_offset_us |-> s.clock_offset_us]
    BY <1>2
<1>4. Chosen
    BY <1>1, <1>3 DEF Chosen
<1>5. time \in start .. start + Span
    BY <1>1, <1>2, ExchangeAssumption
<1>6. pc = "ask" /\ ~result.success
    BY DEF Init, Failed
<1> QED
    BY <1>4, <1>5, <1>6 DEF ExchangeInv, Progress, OffsetAccurate, DelayAccurate

\* Time passes: what was read lies further back.
LEMMA TickStep ==
    ASSUME ExchangeInv, Tick
    PROVE  ExchangeInv'
<1>1. /\ start' = start /\ skew' = skew /\ clock_offset_us' = clock_offset_us
      /\ UNCHANGED <<pc, datagram, t1, response_packet, result, asked, heard, sent, got>>
      /\ time' = time + 1 /\ time < start + Span
    BY DEF Tick, params, history
<1>2. Chosen' /\ OffsetAccurate' /\ DelayAccurate'
    BY <1>1 DEF ExchangeInv, Chosen, OffsetAccurate, DelayAccurate, TrueOffset
<1>3. start \in Nat /\ Span \in Nat /\ time \in Nat
    <2>1. time \in start .. start + Span /\ Chosen
        BY DEF ExchangeInv
    <2> QED
        BY <2>1, Readings
<1>4. time' \in start' .. start' + Span
    <2>1. time \in start .. start + Span
        BY DEF ExchangeInv
    <2> QED
        BY <1>1, <1>3, <2>1
<1>5. \A x \in Int : start .. time \subseteq start .. time' /\ x .. time \subseteq x .. time'
    BY <1>1, <1>3
<1>6. Progress'
    <2>1. Progress
        BY DEF ExchangeInv
    <2>2. pc \in {"asked", "heard", "stamped", "answered"} => asked \in Nat
        BY <1>3, <2>1 DEF Progress
    <2>3. pc \in {"heard", "stamped", "answered"} => heard \in Nat
        BY <1>3, <2>1, <2>2 DEF Progress
    <2>4. UNCHANGED Corrected(fromSystemTime(heard + skew))
          /\ UNCHANGED Corrected(fromSystemTime(sent + skew))
        BY <1>1 DEF Corrected
    <2>5. /\ pc \in {"asked", "heard", "stamped", "answered"} => asked \in start .. time'
          /\ pc \in {"heard", "stamped", "answered"} => heard \in asked .. time'
          /\ pc \in {"stamped", "answered"} => sent \in heard .. time'
        BY <1>1, <1>3, <2>1, <2>2, <2>3 DEF Progress
    <2> QED
        BY <1>1, <2>1, <2>4, <2>5 DEF Progress
<1>7. result'.success => pc' = "done"
    BY <1>1 DEF ExchangeInv
<1> QED
    BY <1>2, <1>4, <1>6, <1>7 DEF ExchangeInv

\* The steps at which no time passes and the client has no result yet.
LEMMA SilentStep ==
    ASSUME ExchangeInv, UNCHANGED <<start, time, skew, clock_offset_us, result>>, pc # "done",
           Progress'
    PROVE  ExchangeInv'
<1>1. ~result.success /\ ~result'.success
    BY DEF ExchangeInv
<1>2. OffsetAccurate' /\ DelayAccurate'
    BY <1>1 DEF OffsetAccurate, DelayAccurate
<1> QED
    BY <1>1, <1>2 DEF ExchangeInv, Chosen

\* The times of an exchange that is under way.
LEMMA Times ==
    ASSUME ExchangeInv
    PROVE  /\ start \in Nat /\ Span \in Nat /\ skew \in Int /\ clock_offset_us \in Int
           /\ Era(start) \in Nat
           /\ time \in Nat /\ time \in start .. start + Span
           /\ pc \in {"asked", "heard", "stamped", "answered"} =>
                asked \in Nat /\ asked \in start .. start + Span /\ asked <= time
           /\ pc \in {"heard", "stamped", "answered"} =>
                heard \in Nat /\ heard \in start .. start + Span /\ asked <= heard /\ heard <= time
           /\ pc \in {"stamped", "answered"} =>
                sent \in Nat /\ sent \in start .. start + Span /\ heard <= sent /\ sent <= time
<1>1. Chosen /\ time \in start .. start + Span /\ Progress
    BY DEF ExchangeInv
<1>2. start \in Nat /\ Span \in Nat /\ skew \in Int /\ clock_offset_us \in Int
      /\ Era(start) \in Nat /\ time \in Nat
    BY <1>1, Readings
<1>3. pc \in {"asked", "heard", "stamped", "answered"} =>
        asked \in Nat /\ asked \in start .. start + Span /\ asked <= time
    BY <1>1, <1>2 DEF Progress
<1>4. pc \in {"heard", "stamped", "answered"} =>
        heard \in Nat /\ heard \in start .. start + Span /\ asked <= heard /\ heard <= time
    BY <1>1, <1>2, <1>3 DEF Progress
<1>5. pc \in {"stamped", "answered"} =>
        sent \in Nat /\ sent \in start .. start + Span /\ heard <= sent /\ sent <= time
    BY <1>1, <1>2, <1>4 DEF Progress
<1> QED
    BY <1>1, <1>2, <1>3, <1>4, <1>5

\* The client reads its clock and sends its request.
LEMMA AskStep ==
    ASSUME ExchangeInv, Ask
    PROVE  ExchangeInv'
<1>1. time \in Nat /\ time \in start .. start + Span /\ start \in Nat /\ Era(start) \in Nat
    BY Times
<1>2. InEra(time, Era(start))
    BY Readings DEF ExchangeInv
<1>3. createClientRequest(time).transmit_ts = fromSystemTime(time)
    BY <1>1, <1>2, Packets
<1>4. Progress'
    BY <1>1, <1>3 DEF Ask, Progress, params
<1> QED
    BY <1>4, SilentStep DEF Ask, params

\* The server parses the request and reads its clock for the receive timestamp,
LEMMA AnswerStep ==
    ASSUME ExchangeInv, Answer
    PROVE  ExchangeInv'
<1>1. /\ pc = "asked" /\ pc' = "heard" /\ heard' = time
      /\ response_packet' = createServerResponse(parseFromData(datagram), 2, 1, ServerClock)
      /\ UNCHANGED <<start, skew, clock_offset_us, time, datagram, t1, result, asked, sent, got>>
    BY DEF Answer, params
<1>2. Chosen /\ Progress
    BY DEF ExchangeInv
<1>3. asked \in start .. start + Span /\ time \in start .. start + Span /\ asked \in Nat
      /\ time \in Nat /\ asked <= time /\ Era(start) \in Nat
    BY <1>1, Times
<1>4. InEra(asked, Era(start)) /\ ServerClock \in Nat /\ InEra(ServerClock, Era(start))
    BY <1>2, <1>3, Readings DEF ServerClock
<1>5. parseFromData(datagram).transmit_ts \in TimestampType
    <2>1. datagram = serializeToData(createClientRequest(asked))
        BY <1>1, <1>2 DEF Progress
    <2>2. createClientRequest(asked) \in PacketType
          /\ createClientRequest(asked).transmit_ts = fromSystemTime(asked)
        BY <1>3, <1>4, Packets
    <2>3. fromSystemTime(asked) \in TimestampType
        BY <1>3, <1>4, ThereAndBack
    <2> QED
        BY <2>1, <2>2, <2>3, PacketBack
<1>6. response_packet' \in PacketType
      /\ response_packet'.receive_ts = fromSystemTime(time + skew)
    BY <1>1, <1>3, <1>4, <1>5, Packets DEF ServerClock
<1>7. Progress'
    BY <1>1, <1>2, <1>3, <1>6 DEF Progress
<1> QED
    BY <1>1, <1>7, SilentStep

\* again for the transmit timestamp,
LEMMA StampStep ==
    ASSUME ExchangeInv, StampTransmit
    PROVE  ExchangeInv'
<1>1. /\ pc = "heard" /\ pc' = "stamped" /\ sent' = time
      /\ response_packet' = [response_packet EXCEPT !.transmit_ts = fromSystemTime(ServerClock)]
      /\ UNCHANGED <<start, skew, clock_offset_us, time, datagram, t1, result, asked, heard, got>>
    BY DEF StampTransmit, params
<1>2. Chosen /\ Progress
    BY DEF ExchangeInv
<1>3. time \in start .. start + Span /\ time \in Nat /\ heard \in Nat /\ heard <= time
      /\ Era(start) \in Nat
    BY <1>1, Times
<1>4. ServerClock \in Nat /\ InEra(ServerClock, Era(start))
    BY <1>2, <1>3, Readings DEF ServerClock
<1>5. fromSystemTime(ServerClock) \in TimestampType
    BY <1>3, <1>4, ThereAndBack
<1>6. response_packet \in PacketType
      /\ response_packet.receive_ts = fromSystemTime(heard + skew)
    BY <1>1, <1>2 DEF Progress
<1>7. response_packet' \in PacketType
      /\ response_packet'.receive_ts = fromSystemTime(heard + skew)
      /\ response_packet'.transmit_ts = fromSystemTime(time + skew)
    BY <1>1, <1>5, <1>6 DEF PacketType, ServerClock
<1>8. Progress'
    BY <1>1, <1>2, <1>3, <1>7 DEF Progress
<1> QED
    BY <1>1, <1>8, SilentStep

\* and corrects both before it writes them into the datagram.
LEMMA SendStep ==
    ASSUME ExchangeInv, Send
    PROVE  ExchangeInv'
<1>1. PICK packet :
        /\ packet = [response_packet EXCEPT !.reference_ts = fromSystemTime(ServerClock),
                                            !.receive_ts = Corrected(response_packet.receive_ts),
                                            !.transmit_ts = Corrected(response_packet.transmit_ts)]
        /\ datagram' = serializeToData(packet)
    BY DEF Send
<1>2. /\ pc = "stamped" /\ pc' = "answered"
      /\ UNCHANGED <<start, skew, clock_offset_us, time, t1, result, asked, heard, sent, got>>
    BY DEF Send, params, history
<1>3. Chosen /\ Progress
    BY DEF ExchangeInv
<1>4. time \in start .. start + Span /\ time \in Nat /\ heard \in start .. start + Span
      /\ sent \in start .. start + Span /\ heard \in Nat /\ sent \in Nat /\ Era(start) \in Nat
    BY <1>2, Times
<1>5. fromSystemTime(ServerClock) \in TimestampType
    <2>1. ServerClock \in Nat /\ InEra(ServerClock, Era(start))
        BY <1>3, <1>4, Readings DEF ServerClock
    <2> QED
        BY <1>4, <2>1, ThereAndBack
<1>6. response_packet \in PacketType
      /\ response_packet.receive_ts = fromSystemTime(heard + skew)
      /\ response_packet.transmit_ts = fromSystemTime(sent + skew)
    BY <1>2, <1>3 DEF Progress
<1>7. ASSUME NEW t \in start .. start + Span
      PROVE  Corrected(fromSystemTime(t + skew)) \in TimestampType
    <2>1. PICK y \in Nat : Corrected(fromSystemTime(t + skew)) = fromSystemTime(y)
                        /\ InEra(y, Era(start))
        BY <1>3, ServerStamp
    <2> QED
        BY <1>4, <2>1, ThereAndBack
<1>8. Corrected(fromSystemTime(heard + skew)) \in TimestampType
      /\ Corrected(fromSystemTime(sent + skew)) \in TimestampType
    BY <1>4, <1>7
<1>9. packet \in PacketType
      /\ packet.receive_ts = Corrected(fromSystemTime(heard + skew))
      /\ packet.transmit_ts = Corrected(fromSystemTime(sent + skew))
    BY <1>1, <1>5, <1>6, <1>8 DEF PacketType
<1>10. parseFromData(datagram').receive_ts = Corrected(fromSystemTime(heard + skew))
       /\ parseFromData(datagram').transmit_ts = Corrected(fromSystemTime(sent + skew))
    BY <1>1, <1>9, PacketBack
<1>11. Progress'
    <2>1. UNCHANGED Corrected(fromSystemTime(heard + skew))
          /\ UNCHANGED Corrected(fromSystemTime(sent + skew))
        BY <1>2 DEF Corrected
    <2> QED
        BY <1>2, <1>3, <1>10, <2>1 DEF Progress
<1> QED
    BY <1>2, <1>11, SilentStep

\* A lost datagram leaves no result.
LEMMA LoseStep ==
    ASSUME ExchangeInv, Lose
    PROVE  ExchangeInv'
<1>1. pc \in {"asked", "answered"} /\ pc' = "done"
      /\ UNCHANGED <<start, skew, clock_offset_us, time, result>>
    BY DEF Lose, params
<1>2. Progress'
    BY <1>1 DEF Progress
<1> QED
    BY <1>1, <1>2, SilentStep

\* What the client's arithmetic makes of the four timestamps: w is the time the server's clock
\* is ahead, y and z what its two corrected timestamps stand for.
LEMMA Accuracy ==
    ASSUME NEW K \in Nat, NEW w \in Int, NEW a \in Nat, NEW b \in Nat, NEW d \in Nat, NEW e \in Nat,
           a <= b, b <= d, d <= e,
           NEW y \in Int, NEW z \in Int, y \in b + w - K .. b + w, z \in d + w - K .. d + w,
           NEW I \in Int, NEW J \in Int, NEW O \in Int,
           I - ((e - a) - (z - y)) \in -2 * K .. 2 * K,
           J - ((y - a) + (z - e)) \in -2 * K .. 2 * K,
           2 * O - J \in -K .. K
    PROVE  /\ 2 * Abs(O - w) <= (e - a) - (d - b) + 5 * K
           /\ Abs(I - ((e - a) - (d - b))) <= 3 * K
BY DEF Abs

\* The client parses the answer, reads its clock and computes its result.
LEMMA ReceiveStep ==
    ASSUME ExchangeInv, Receive
    PROVE  ExchangeInv'
<1>1. /\ pc = "answered" /\ pc' = "done" /\ got' = time
      /\ UNCHANGED <<start, skew, clock_offset_us, time, datagram, asked, heard, sent>>
    BY DEF Receive, params
<1>2. Chosen /\ Progress
    BY DEF ExchangeInv
<1>3. Chosen' /\ time' \in start' .. start' + Span
    BY <1>1 DEF ExchangeInv, Chosen
<1>4. Progress'
    BY <1>1 DEF Progress
<1>5. CASE ~result'.success
    BY <1>3, <1>4, <1>5 DEF ExchangeInv, OffsetAccurate, DelayAccurate
<1>6. CASE result'.success
    <2>1. /\ result'.offset_us = calculateOffset(t1, parseFromData(datagram).receive_ts,
                                  parseFromData(datagram).transmit_ts, fromSystemTime(time))
          /\ result'.delay_us = calculateRoundTripDelay(t1, parseFromData(datagram).receive_ts,
                                  parseFromData(datagram).transmit_ts, fromSystemTime(time))
        BY <1>6 DEF Receive, Failed
    <2>2. /\ asked \in Nat /\ heard \in Nat /\ sent \in Nat /\ time \in Nat
          /\ asked <= heard /\ heard <= sent /\ sent <= time
          /\ asked \in start .. start + Span /\ heard \in start .. start + Span
          /\ sent \in start .. start + Span /\ time \in start .. start + Span
          /\ Era(start) \in Nat /\ skew \in Int /\ clock_offset_us \in Int
        BY <1>1, Times
    <2>3. PICK y \in Nat : /\ Corrected(fromSystemTime(heard + skew)) = fromSystemTime(y)
                           /\ InEra(y, Era(start))
                           /\ y \in heard + TrueOffset - MicroNanos .. heard + TrueOffset
        BY <1>2, <2>2, ServerStamp
    <2>4. PICK z \in Nat : /\ Corrected(fromSystemTime(sent + skew)) = fromSystemTime(z)
                           /\ InEra(z, Era(start))
                           /\ z \in sent + TrueOffset - MicroNanos .. sent + TrueOffset
        BY <1>2, <2>2, ServerStamp
    <2>5. /\ t1 = fromSystemTime(asked)
          /\ parseFromData(datagram).receive_ts = fromSystemTime(y)
          /\ parseFromData(datagram).transmit_ts = fromSystemTime(z)
        BY <1>1, <1>2, <2>3, <2>4 DEF Progress
    <2>6. InEra(asked, Era(start)) /\ InEra(time, Era(start))
        BY <1>2, <2>2, Readings
    <2>7. PICK i \in Int, j \in Int, o \in Int :
             /\ o = result'.offset_us /\ i = result'.delay_us
             /\ i * MicroNanos - ((time - asked) - (z - y)) \in -2 * MicroNanos .. 2 * MicroNanos
             /\ j * MicroNanos - ((y - asked) + (z - time)) \in -2 * MicroNanos .. 2 * MicroNanos
             /\ 2 * o - j \in -1 .. 1
        <3>1. PICK i \in Int, j \in Int, o \in Int :
             /\ o = calculateOffset(fromSystemTime(asked), fromSystemTime(y), fromSystemTime(z),
                                    fromSystemTime(time))
             /\ i = calculateRoundTripDelay(fromSystemTime(asked), fromSystemTime(y),
                                            fromSystemTime(z), fromSystemTime(time))
             /\ i * MicroNanos - ((time - asked) - (z - y)) \in -2 * MicroNanos .. 2 * MicroNanos
             /\ j * MicroNanos - ((y - asked) + (z - time)) \in -2 * MicroNanos .. 2 * MicroNanos
             /\ 2 * o - j \in -1 .. 1
            BY <2>2, <2>3, <2>4, <2>6, FourTimes
        <3> QED
            BY <2>1, <2>5, <3>1
    <2>8. PICK K \in Nat, w \in Int : K = MicroNanos /\ w = TrueOffset
        BY <2>2, Sizes DEF TrueOffset
    <2>9. PICK I \in Int, J \in Int, O \in Int :
            I = i * MicroNanos /\ J = j * MicroNanos /\ O = o * MicroNanos /\ 2 * O - J \in -K .. K
        <3>1. MicroNanos \in Nat
            BY Sizes
        <3>2. 2 * (o * MicroNanos) - j * MicroNanos = (2 * o - j) * MicroNanos
            BY <3>1
        <3>3. (2 * o - j) * MicroNanos \in -MicroNanos .. MicroNanos
            BY <2>7, <3>1
        <3> QED
            BY <2>8, <3>1, <3>2, <3>3
    <2>10. /\ 2 * Abs(O - w) <= (time - asked) - (sent - heard) + 5 * K
           /\ Abs(I - ((time - asked) - (sent - heard))) <= 3 * K
        <3>1. y \in heard + w - K .. heard + w /\ z \in sent + w - K .. sent + w
            BY <2>3, <2>4, <2>8
        <3>2. /\ I - ((time - asked) - (z - y)) \in -2 * K .. 2 * K
              /\ J - ((y - asked) + (z - time)) \in -2 * K .. 2 * K
            BY <2>7, <2>8, <2>9
        <3>3. y \in Int /\ z \in Int
            OBVIOUS
        <3> QED
            BY <2>2, <2>9, <3>1, <3>2, <3>3, Accuracy
    <2>11. OffsetAccurate' /\ DelayAccurate'
        BY <1>1, <2>7, <2>8, <2>9, <2>10 DEF OffsetAccurate, DelayAccurate, TrueOffset
    <2> QED
        BY <1>1, <1>3, <1>4, <2>11 DEF ExchangeInv
<1> QED
    BY <1>5, <1>6

\* Every step keeps the invariant.
LEMMA ExchangeStep ==
    ASSUME ExchangeInv, [Next]_vars
    PROVE  ExchangeInv'
<1>1. CASE UNCHANGED vars
    BY <1>1 DEF vars, params, history, ExchangeInv, Chosen, Progress, OffsetAccurate,
                DelayAccurate, TrueOffset, Corrected
<1> QED
    BY <1>1, TickStep, AskStep, AnswerStep, StampStep, SendStep, ReceiveStep, LoseStep DEF Next

\* The offset the client computes is the server's corrected clock less its own, up to half of
\* the time the datagrams were under way and two and a half microseconds.
THEOREM OffsetIsAccurate == Spec => []OffsetAccurate
<1>1. ExchangeInv => OffsetAccurate
    BY DEF ExchangeInv
<1> QED
    BY <1>1, InitInv, ExchangeStep, PTL DEF Spec

\* The delay that ranks the servers is the time the datagrams were under way, up to three
\* microseconds.
THEOREM DelayIsAccurate == Spec => []DelayAccurate
<1>1. ExchangeInv => DelayAccurate
    BY DEF ExchangeInv
<1> QED
    BY <1>1, InitInv, ExchangeStep, PTL DEF Spec

\* A timestamp at most a microsecond behind a time is at most the fractions of one behind it.
LEMMA AMicrosecond ==
    ASSUME NEW k \in Nat, NEW x \in Nat, NEW y \in Nat, InEra(x, k), InEra(y, k),
           y \in x - MicroNanos .. x
    PROVE  (Behind(fromSystemTime(x), fromSystemTime(y)) - 1) * MICROS <= U32
<1>1. PICK K \in Nat \ {0}, M \in Nat \ {0}, U \in Nat \ {0} :
        K = MicroNanos /\ M = MICROS /\ U = U32 /\ NANOS = M * K
    BY Sizes
<1>2. y <= x /\ x - y <= K
    BY <1>1
<1>3. PICK d \in Nat : Behind(fromSystemTime(x), fromSystemTime(y)) = d
                    /\ NANOS * (d - 1) < (x - y) * U32
    BY <1>2, BehindBy
<1>4. (x - y) * U <= K * U
    BY <1>2, MulMono
<1>5. ((d - 1) * M) * K < U * K
    <2>1. NANOS * (d - 1) = ((d - 1) * M) * K
        BY <1>1
    <2>2. PICK p \in Int, q \in Int : p = ((d - 1) * M) * K /\ q = (x - y) * U
        OBVIOUS
    <2>3. p < q /\ q <= U * K
        BY <1>1, <1>3, <1>4, <2>1, <2>2
    <2> QED
        BY <2>2, <2>3
<1>6. (d - 1) * M < U
    BY <1>5, MulStrict
<1> QED
    BY <1>1, <1>3, <1>6

\* The invariant bounds how late the timestamps of an answer are.
LEMMA OnTime ==
    ASSUME ExchangeInv
    PROVE  ResponseOnTime
<1> SUFFICES ASSUME pc = "answered"
             PROVE  ResponseOnTime
    BY DEF ResponseOnTime
<1>1. Chosen /\ Progress
    BY DEF ExchangeInv
<1>2. /\ heard \in Nat /\ sent \in Nat /\ heard <= sent
      /\ heard \in start .. start + Span /\ sent \in start .. start + Span
      /\ start \in Nat /\ Span \in Nat /\ Era(start) \in Nat /\ skew \in Int /\ clock_offset_us \in Int
    BY Times
<1>3. ASSUME NEW t \in start .. start + Span
      PROVE  \E y \in Nat :
               /\ Corrected(fromSystemTime(t + skew)) = fromSystemTime(y)
               /\ InEra(y, Era(start))
               /\ y \in t + TrueOffset - MicroNanos .. t + TrueOffset
               /\ clock_offset_us = 0 => y = t + skew
               /\ clock_offset_us # 0 =>
                    y = toSystemTime(fromSystemTime(t + skew)) + clock_offset_us * MicroNanos
               /\ (Behind(fromSystemTime(t + skew + clock_offset_us * MicroNanos),
                          fromSystemTime(y)) - 1) * MICROS <= U32
    <2>1. PICK y \in Nat :
             /\ Corrected(fromSystemTime(t + skew)) = fromSystemTime(y)
             /\ InEra(y, Era(start))
             /\ y \in t + TrueOffset - MicroNanos .. t + TrueOffset
             /\ clock_offset_us = 0 => y = t + skew
             /\ clock_offset_us # 0 =>
                  /\ y = toSystemTime(fromSystemTime(t + skew)) + clock_offset_us * MicroNanos
                  /\ t + TrueOffset \in Nat /\ InEra(t + TrueOffset, Era(start))
        BY <1>1, ServerStamp
    <2>2. PICK x \in Int : x = t + TrueOffset /\ x = t + skew + clock_offset_us * MicroNanos
        <3>1. t \in Int /\ clock_offset_us * MicroNanos \in Int
            BY <1>2, Sizes
        <3> QED
            BY <1>2, <3>1 DEF TrueOffset
    <2>3. x \in Nat /\ InEra(x, Era(start)) /\ y \in x - MicroNanos .. x
        <3>1. MicroNanos \in Nat /\ t \in Nat
            BY <1>2, Sizes
        <3>2. y \in x - MicroNanos .. x
            <4>1. PICK w \in Int : w = TrueOffset
                BY <1>2, Sizes DEF TrueOffset
            <4> QED
                BY <2>1, <2>2, <3>1, <4>1
        <3>3. CASE clock_offset_us = 0
            <4>1. x = y
                BY <1>2, <2>1, <2>2, <3>1, <3>3
            <4> QED
                BY <2>1, <3>2, <4>1
        <3>4. CASE clock_offset_us # 0
            BY <2>1, <2>2, <3>2, <3>4
        <3> QED
            BY <3>3, <3>4
    <2>4. (Behind(fromSystemTime(x), fromSystemTime(y)) - 1) * MICROS <= U32
        BY <1>2, <2>1, <2>3, AMicrosecond
    <2> QED
        BY <2>1, <2>2, <2>4
<1>4. PICK y \in Nat :
               /\ Corrected(fromSystemTime(heard + skew)) = fromSystemTime(y)
               /\ InEra(y, Era(start))
               /\ y \in heard + TrueOffset - MicroNanos .. heard + TrueOffset
               /\ clock_offset_us = 0 => y = heard + skew
               /\ clock_offset_us # 0 =>
                    y = toSystemTime(fromSystemTime(heard + skew)) + clock_offset_us * MicroNanos
               /\ (Behind(fromSystemTime(heard + skew + clock_offset_us * MicroNanos),
                          fromSystemTime(y)) - 1) * MICROS <= U32
    BY <1>2, <1>3
<1>5. PICK z \in Nat :
               /\ Corrected(fromSystemTime(sent + skew)) = fromSystemTime(z)
               /\ InEra(z, Era(start))
               /\ z \in sent + TrueOffset - MicroNanos .. sent + TrueOffset
               /\ clock_offset_us = 0 => z = sent + skew
               /\ clock_offset_us # 0 =>
                    z = toSystemTime(fromSystemTime(sent + skew)) + clock_offset_us * MicroNanos
               /\ (Behind(fromSystemTime(sent + skew + clock_offset_us * MicroNanos),
                          fromSystemTime(z)) - 1) * MICROS <= U32
    BY <1>2, <1>3
<1>6. y <= z
    <2>1. sent \in heard .. start + Span
        BY <1>2
    <2> QED
        BY <1>1, <1>2, <1>4, <1>5, <2>1, ServerOrder
<1>7. Behind(fromSystemTime(z), fromSystemTime(y)) < U64 \div 2
    <2>1. PICK d \in Nat : Behind(fromSystemTime(z), fromSystemTime(y)) = d
                        /\ NANOS * (d - 1) < (z - y) * U32
        BY <1>2, <1>4, <1>5, <1>6, BehindBy
    <2>2. PICK N \in Nat \ {0}, U \in Nat \ {0}, K \in Nat, h \in Nat, g \in Nat :
            /\ N = NANOS /\ U = U32 /\ K = MicroNanos /\ h = U64 \div 2
            /\ g * U <= h /\ Span <= N * (g - 1) /\ 2 * K <= N /\ U >= 2
        <3>1. PICK U \in Nat \ {0}, V \in Nat : U = U32 /\ V = U64 /\ V = U * U /\ U >= 2
            BY Sizes
        <3>2. PICK g \in Nat : g = U \div 2 /\ 2 * g <= U
            OBVIOUS
        <3>3. PICK h \in Nat : h = V \div 2 /\ V <= 2 * h + 1
            OBVIOUS
        <3>4. 2 * (g * U) <= V
            <4>1. (2 * g) * U <= U * U
                BY <3>2, MulMono
            <4> QED
                BY <3>1, <4>1
        <3>5. g * U <= h
            BY <3>3, <3>4
        <3>6. PICK N \in Nat \ {0}, K \in Nat, M \in Nat :
                N = NANOS /\ K = MicroNanos /\ M = MICROS /\ N = M * K /\ M >= 2
            BY Sizes, TimestampAssumption
        <3>7. 2 * K <= N
            BY <3>6, MulMono
        <3>8. Span <= N * (g - 1)
            BY <3>1, <3>2, <3>6, ExchangeAssumption
        <3> QED
            BY <3>1, <3>3, <3>5, <3>6, <3>7, <3>8
    <2>3. z - y <= Span + K
        <3>1. PICK w \in Int : w = TrueOffset
            BY <1>2, Sizes DEF TrueOffset
        <3>2. y >= heard + w - K /\ z <= sent + w /\ sent - heard <= Span
            BY <1>2, <1>4, <1>5, <2>2, <3>1
        <3> QED
            BY <1>2, <3>1, <3>2
    <2>4. 2 * (z - y) <= N * (2 * g - 1)
        <3>1. PICK p \in Int : p = N * g
            OBVIOUS
        <3>2. N * (g - 1) = p - N /\ N * (2 * g - 1) = 2 * p - N
            BY <3>1
        <3> QED
            BY <1>2, <2>2, <2>3, <3>1, <3>2
    <2>5. (2 * (d - 1)) * N < ((2 * g - 1) * U) * N
        <3>1. (2 * (z - y)) * U <= (N * (2 * g - 1)) * U
            BY <2>4, MulMono
        <3>2. (2 * (z - y)) * U = 2 * ((z - y) * U)
              /\ (N * (2 * g - 1)) * U = ((2 * g - 1) * U) * N
              /\ (2 * (d - 1)) * N = 2 * (N * (d - 1))
            OBVIOUS
        <3>3. PICK a \in Int, b \in Int : a = N * (d - 1) /\ b = (z - y) * U /\ a < b
            BY <2>1, <2>2
        <3> QED
            BY <3>1, <3>2, <3>3
    <2>6. 2 * (d - 1) < (2 * g - 1) * U
        BY <2>5, MulStrict
    <2>7. (2 * g - 1) * U = 2 * (g * U) - U
        OBVIOUS
    <2>8. d < g * U
        BY <2>2, <2>6, <2>7
    <2> QED
        BY <2>1, <2>2, <2>8
<1>8. /\ parseFromData(datagram).receive_ts = fromSystemTime(y)
      /\ parseFromData(datagram).transmit_ts = fromSystemTime(z)
    BY <1>1, <1>4, <1>5 DEF Progress
<1> QED
    BY <1>4, <1>5, <1>7, <1>8 DEF ResponseOnTime

\* The timestamps an answer carries are the server's corrected clock when it read it, up to a
\* microsecond and a fraction, and in the order of the readings.
THEOREM ResponseIsOnTime == Spec => []ResponseOnTime
BY InitInv, ExchangeStep, OnTime, PTL DEF Spec
=============================================================================
