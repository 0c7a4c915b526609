---------------------------- MODULE SyncedClock ----------------------------
(***************************************************************************)
(* What the server relies on from its upstream manager: a single sample of *)
(* an upstream clock, as one server gave it, that is replaced as a whole.  *)
(* Once there is a sample there always is one.  UpstreamSync implements    *)
(* this specification.                                                     *)
(***************************************************************************)
CONSTANTS
    Servers,    \* the upstream servers
    Answers,    \* what a server may answer: [delay, offset, stratum]
    NoSample    \* nothing has been learned yet

VARIABLE sample

Samples == [server : Servers, answer : Answers]

Init == sample = NoSample

\* A round of queries succeeded.
Learn == \E s \in Samples : sample' = s

Spec == Init /\ [][Learn]_sample
=============================================================================
