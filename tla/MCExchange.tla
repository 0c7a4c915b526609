----------------------------- MODULE MCExchange -----------------------------
(***************************************************************************)
(* Exchange for TLC, on small words: a byte has 2 values, a 32-bit word    *)
(* 16, a second 6 nanoseconds of which 2 are a microsecond.  The clock     *)
(* starts at second 8 of the era, and the era ends 8 seconds later.        *)
(***************************************************************************)
EXTENDS Exchange

Scenario(starts, corrections) ==
    [start : starts, skew : {-7, -2, 0, 3}, clock_offset_us : corrections]

\* Well inside the first era, and well inside the second, where the seconds have
\* wrapped (from 48 on) and a server that corrects its clock goes wrong.
MCScenarios ==
    Scenario(18 .. 23, {-4, -1, 0, 3}) \cup Scenario(60 .. 62, {0})
=============================================================================
