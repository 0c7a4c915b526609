---------------------------- MODULE UpstreamSync ----------------------------
(***************************************************************************)
(* The upstream manager (core/upstream_sync.cpp): its thread queries every *)
(* configured server in turn, keeps the answer with the lowest delay and   *)
(* publishes it under state_mutex_; the workers take the stratum and the   *)
(* clock offset of a response from it with one locked call each            *)
(* (core/server.cpp processPacket).                                        *)
(*                                                                         *)
(* A query that finds no address, cannot send, times out or gets a packet  *)
(* that is short, invalid or not of server mode has no answer.  An answer  *)
(* is valid, so its stratum is 0 to 15; 0 is not refused.                  *)
(***************************************************************************)
EXTENDS Integers, Sequences, SequencesExt

CONSTANTS
    upstream_servers,       \* config_->upstream_servers, a sequence
    Answers,                \* [delay, offset, stratum] records
    Readers,                \* worker threads that build responses
    configured_stratum,     \* config_->stratum
    MaxRounds,              \* the history counts rounds up to this bound
    NoAnswer, NoSample

Servers == Range(upstream_servers)

ASSUME UpstreamAssumption ==
    /\ upstream_servers \in Seq(Servers) /\ upstream_servers # << >>
    /\ Answers \subseteq [delay : Int, offset : Int, stratum : 0 .. 15]
    /\ NoAnswer \notin Answers
    /\ NoSample \notin [server : Servers, answer : Answers]
    /\ configured_stratum \in 0 .. 15
    /\ MaxRounds \in Nat

VARIABLES
    sync,           \* the thread: "query", "publish" or "sleep"
    next,           \* the server to query next, an index
    best,           \* syncOnce's best: NoSample if !best.success
    synced, clock_offset_us, last_delay_us, upstream_stratum, synced_upstream,
    reader,         \* each worker's place in its response
    response,       \* [stratum, offset] a worker is building
    \* History, for the properties only.
    round,          \* rounds published
    answers,        \* the answers of the current round, in order
    taken           \* rounds a response's stratum and offset come from

state == <<synced, clock_offset_us, last_delay_us, upstream_stratum, synced_upstream>>
readerVars == <<reader, response, taken>>
vars == <<sync, next, best, state, readerVars, round, answers>>

Init ==
    /\ sync = "query"
    /\ next = 1
    /\ best = NoSample
    /\ synced = FALSE
    /\ clock_offset_us = 0 /\ last_delay_us = 0 /\ upstream_stratum = 0
    /\ synced_upstream = NoSample
    /\ reader = [r \in Readers |-> "idle"]
    /\ response = [r \in Readers |-> [stratum |-> configured_stratum, offset |-> 0]]
    /\ round = 0
    /\ answers = << >>
    /\ taken = [r \in Readers |-> [stratum |-> 0, offset |-> 0]]

-----------------------------------------------------------------------------
(* The manager's thread *)

\* Mutant: of equally fast servers the last one wins.
Better_Last(a, b) == b = NoSample \/ a.delay <= b.answer.delay

\* syncOnce: !best.success || attempt.delay_us < best.delay_us
Better(a, b) == b = NoSample \/ a.delay < b.answer.delay

\* Mutant: the socket has no receive timeout, and a silent server blocks the thread.
Query_NoTimeout ==
    /\ sync = "query"
    /\ \E a \in Answers \cup {NoAnswer} :
         /\ best' = IF a # NoAnswer /\ Better(a, best)
                    THEN [server |-> upstream_servers[next], answer |-> a]
                    ELSE best
         /\ answers' = Append(answers, a)
         /\ sync' = IF a = NoAnswer THEN "blocked"
                    ELSE IF next < Len(upstream_servers) THEN "query" ELSE "publish"
    /\ next' = next + 1
    /\ UNCHANGED <<state, readerVars, round>>

\* queryUpstreamServer for the next server; after the last one the round ends.
Query ==
    /\ sync = "query"
    /\ \E a \in Answers \cup {NoAnswer} :
         /\ best' = IF a # NoAnswer /\ Better(a, best)
                    THEN [server |-> upstream_servers[next], answer |-> a]
                    ELSE best
         /\ answers' = Append(answers, a)
    /\ next' = next + 1
    /\ sync' = IF next < Len(upstream_servers) THEN "query"
               ELSE IF best' = NoSample THEN "sleep" ELSE "publish"
    /\ UNCHANGED <<state, readerVars, round>>

\* Mutant: the stratum of the new sample is not stored.
Publish_StratumKept ==
    /\ sync = "publish"
    /\ clock_offset_us' = best.answer.offset
    /\ last_delay_us' = best.answer.delay
    /\ synced_upstream' = best.server
    /\ synced' = TRUE
    /\ round' = IF round < MaxRounds THEN round + 1 ELSE round
    /\ sync' = "sleep"
    /\ UNCHANGED <<upstream_stratum, next, best, readerVars, answers>>

\* syncOnce: the state is replaced under state_mutex_.
Publish ==
    /\ sync = "publish"
    /\ clock_offset_us' = best.answer.offset
    /\ last_delay_us' = best.answer.delay
    /\ upstream_stratum' = best.answer.stratum
    /\ synced_upstream' = best.server
    /\ synced' = TRUE
    /\ round' = IF round < MaxRounds THEN round + 1 ELSE round
    /\ sync' = "sleep"
    /\ UNCHANGED <<next, best, readerVars, answers>>

\* syncLoop: the interval is over and the next round starts.  After a round
\* without answer the state is as the last success left it.
Wake ==
    /\ sync = "sleep"
    /\ sync' = "query"
    /\ next' = 1
    /\ best' = NoSample
    /\ answers' = << >>
    /\ UNCHANGED <<state, readerVars, round>>

-----------------------------------------------------------------------------
(* A worker builds a response *)

\* Mutant: the upstream's stratum is passed on as it is.
DerivedStratum_Same(s) == s

\* std::clamp(upstream_stratum_ + 1, 1, 15)
DerivedStratum(s) == IF s + 1 > 15 THEN 15 ELSE s + 1

\* UpstreamSyncManager::effectiveStratum
effectiveStratum ==
    IF ~synced \/ upstream_stratum = 0 THEN configured_stratum
                                       ELSE DerivedStratum(upstream_stratum)

\* upstream_sync_->isSynced()
TestSynced(r) ==
    /\ reader[r] = "idle"
    /\ reader' = [reader EXCEPT ![r] = IF synced THEN "stratum" ELSE "offset"]
    /\ response' = [response EXCEPT ![r] = [stratum |-> configured_stratum, offset |-> 0]]
    /\ taken' = [taken EXCEPT ![r] = [stratum |-> round, offset |-> round]]
    /\ UNCHANGED <<sync, next, best, state, round, answers>>

\* upstream_sync_->effectiveStratum(config_->stratum)
TakeStratum(r) ==
    /\ reader[r] = "stratum"
    /\ reader' = [reader EXCEPT ![r] = "offset"]
    /\ response' = [response EXCEPT ![r].stratum = effectiveStratum]
    /\ taken' = [taken EXCEPT ![r].stratum = round]
    /\ UNCHANGED <<sync, next, best, state, round, answers>>

\* Mutant: the offset is one remembered from when the request came in.
TakeOffset_Remembered(r) ==
    /\ reader[r] = "offset"
    /\ reader' = [reader EXCEPT ![r] = "send"]
    /\ UNCHANGED <<sync, next, best, state, response, taken, round, answers>>

\* upstream_sync_->clockOffsetUs(), added to the response's timestamps
TakeOffset(r) ==
    /\ reader[r] = "offset"
    /\ reader' = [reader EXCEPT ![r] = "send"]
    /\ response' = [response EXCEPT ![r].offset = clock_offset_us]
    /\ taken' = [taken EXCEPT ![r].offset = round]
    /\ UNCHANGED <<sync, next, best, state, round, answers>>

SendResponse(r) ==
    /\ reader[r] = "send"
    /\ reader' = [reader EXCEPT ![r] = "idle"]
    /\ UNCHANGED <<sync, next, best, state, response, taken, round, answers>>

Reader(r) == TestSynced(r) \/ TakeStratum(r) \/ TakeOffset(r) \/ SendResponse(r)

SyncThread == Query \/ Publish \/ Wake

Next == SyncThread \/ \E r \in Readers : Reader(r)

Spec == Init /\ [][Next]_vars

\* The manager's thread is scheduled: queries time out and sleeps end.
FairSpec == Spec /\ WF_vars(SyncThread)
-----------------------------------------------------------------------------
\* Types of the manager's variables.
TypeOK ==
    /\ sync \in {"query", "publish", "sleep"}
    /\ next \in 1 .. Len(upstream_servers) + 1
    /\ best \in [server : Servers, answer : Answers] \cup {NoSample}
    /\ synced \in BOOLEAN
    /\ clock_offset_us \in Int /\ last_delay_us \in Int
    /\ upstream_stratum \in 0 .. 15
    /\ synced_upstream \in Servers \cup {NoSample}
    /\ reader \in [Readers -> {"idle", "stratum", "offset", "send"}]
    /\ response \in [Readers -> [stratum : 0 .. 15, offset : Int]]
    /\ round \in 0 .. MaxRounds
    /\ answers \in Seq(Answers \cup {NoAnswer})
    /\ taken \in [Readers -> [stratum : 0 .. MaxRounds, offset : 0 .. MaxRounds]]

\* Answer i of the round is the fastest, and the first of those as fast.
Fastest(i) ==
    /\ answers[i] # NoAnswer
    /\ \A j \in 1 .. Len(answers) : answers[j] # NoAnswer =>
         \/ answers[i].delay < answers[j].delay
         \/ answers[i].delay = answers[j].delay /\ i <= j

\* What is published is the best of the round: no server of the round answered
\* faster, and of equally fast ones it is the first configured.
BestOfRound ==
    sync = "publish" =>
        LET mine == CHOOSE i \in 1 .. Len(answers) : Fastest(i)
        IN  best = [server |-> upstream_servers[mine], answer |-> answers[mine]]

\* Its inductive form: best is the fastest of the answers so far.
RoundInv ==
    /\ Len(answers) = next - 1
    /\ sync = "query" => next <= Len(upstream_servers)
    /\ sync = "publish" => best # NoSample
    /\ IF best = NoSample THEN \A i \in 1 .. Len(answers) : answers[i] = NoAnswer
       ELSE \E i \in 1 .. Len(answers) :
              Fastest(i) /\ best = [server |-> upstream_servers[i], answer |-> answers[i]]

\* The stratum and the offset of a response may come from different rounds, but
\* the offset is never older than the stratum.
OffsetNotOlder ==
    \A r \in Readers : reader[r] = "send" => taken[r].stratum <= taken[r].offset

\* Its inductive form: what a response has taken comes from a round already published.
TakenInv ==
    \A r \in Readers :
        /\ taken[r].stratum <= round /\ taken[r].offset <= round
        /\ reader[r] = "send" => taken[r].stratum <= taken[r].offset

\* No round was published since r's response took its stratum.
Fresh(r) == synced /\ taken[r].stratum = round /\ round < MaxRounds

\* A response sent while no new round was published since it was begun tells a
\* client one more than the stratum of the upstream whose offset it uses, so a
\* client never sees the server nearer to the clock than its own source; a
\* source of stratum 15 is the exception, and one of stratum 0 is not believed.
StratumBehindSource ==
    \A r \in Readers :
        reader[r] = "send" /\ Fresh(r)
        => /\ upstream_stratum \in 1 .. 14 => response[r].stratum > upstream_stratum
           /\ upstream_stratum = 0 => response[r].stratum = configured_stratum
           /\ response[r].offset = clock_offset_us

\* Its inductive form: what a fresh response has taken is still the state.
FreshInv ==
    \A r \in Readers : Fresh(r) =>
        /\ reader[r] \in {"offset", "send"} => response[r].stratum = effectiveStratum
        /\ reader[r] = "send" => response[r].offset = clock_offset_us

\* The published state as one sample: the refinement of SyncedClock.
Sample ==
    IF synced
    THEN [server |-> synced_upstream,
          answer |-> [delay |-> last_delay_us, offset |-> clock_offset_us,
                      stratum |-> upstream_stratum]]
    ELSE NoSample

Clock == INSTANCE SyncedClock
    WITH Servers <- Servers, Answers <- Answers, NoSample <- NoSample, sample <- Sample

\* UpstreamSync implements SyncedClock: the fields of the state always belong to
\* one answer of one server, and a failed round neither changes nor withdraws it.
ImplementsClock == Clock!Spec

\* Rounds follow each other for ever: a server that does not answer delays a
\* round, it does not end it.
RoundsGoOn == []<>(sync = "sleep") /\ []<>(sync = "query")
=============================================================================
