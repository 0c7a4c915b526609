--------------------------- MODULE MCUpstreamSync ---------------------------
(***************************************************************************)
(* UpstreamSync for TLC: two servers; answers that tie in delay, a source  *)
(* of stratum 15 and one of stratum 0.                                     *)
(***************************************************************************)
EXTENDS UpstreamSync

TwoServers == <<"a.example", "b.example">>

MCAnswers ==
    {[delay |-> 1, offset |-> 5, stratum |-> 1],
     [delay |-> 1, offset |-> -3, stratum |-> 15],
     [delay |-> 2, offset |-> 0, stratum |-> 0]}
=============================================================================
