------------------------- MODULE UpstreamSyncProofs -------------------------
(***************************************************************************)
(* Proofs about UpstreamSync for any list of servers, any answers and any  *)
(* number of workers: that the state under state_mutex_ is always one      *)
(* answer of one server (the refinement of SyncedClock), that it is the    *)
(* best answer of its round, and what the two separate calls of a worker   *)
(* may combine in a response.                                              *)
(***************************************************************************)
EXTENDS UpstreamSync, TLAPS

\* The entries of upstream_servers are servers.
LEMMA ServerAt ==
    ASSUME NEW i \in 1 .. Len(upstream_servers)
    PROVE  upstream_servers[i] \in Servers
BY UpstreamAssumption

\* std::clamp keeps the stratum of a response in 0 to 15.
LEMMA StratumRange ==
    ASSUME TypeOK
    PROVE  effectiveStratum \in 0 .. 15
BY UpstreamAssumption DEF TypeOK, effectiveStratum, DerivedStratum

\* A query that answers extends the round by one; the thread goes on to the next
\* server until there is none.
LEMMA QueryType ==
    ASSUME TypeOK, RoundInv, Query
    PROVE  /\ next \in 1 .. Len(upstream_servers)
           /\ sync' \in {"query", "publish", "sleep"}
           /\ best' \in [server : Servers, answer : Answers] \cup {NoSample}
           /\ answers' \in Seq(Answers \cup {NoAnswer})
           /\ next' \in 1 .. Len(upstream_servers) + 1
<1>0. Len(upstream_servers) \in Nat
    BY UpstreamAssumption
<1>1. next \in 1 .. Len(upstream_servers)
    BY <1>0 DEF TypeOK, RoundInv, Query
<1>2. sync' \in {"query", "publish", "sleep"} /\ next' \in 1 .. Len(upstream_servers) + 1
    BY <1>0, <1>1 DEF Query
<1>3. PICK a \in Answers \cup {NoAnswer} :
        /\ best' = IF a # NoAnswer /\ Better(a, best)
                   THEN [server |-> upstream_servers[next], answer |-> a]
                   ELSE best
        /\ answers' = Append(answers, a)
    BY DEF Query
<1>4. upstream_servers[next] \in Servers
    BY <1>1, ServerAt
<1>5. best' \in [server : Servers, answer : Answers] \cup {NoSample}
    BY <1>3, <1>4 DEF TypeOK
<1>6. answers' \in Seq(Answers \cup {NoAnswer})
    BY <1>3 DEF TypeOK
<1> QED
    BY <1>1, <1>2, <1>5, <1>6

\* What syncOnce publishes has the types of the state, because best is an answer.
LEMMA PublishType ==
    ASSUME TypeOK, RoundInv, Publish
    PROVE  /\ best \in [server : Servers, answer : Answers]
           /\ best.answer \in [delay : Int, offset : Int, stratum : 0 .. 15]
           /\ round' \in 0 .. MaxRounds
           /\ Sample' = best
<1>1. best \in [server : Servers, answer : Answers]
    BY DEF TypeOK, RoundInv, Publish
<1>2. best.answer \in [delay : Int, offset : Int, stratum : 0 .. 15]
    BY <1>1, UpstreamAssumption
<1>3. round' \in 0 .. MaxRounds
    BY UpstreamAssumption DEF TypeOK, Publish
<1>4. Sample' = [server |-> best.server,
                 answer |-> [delay |-> best.answer.delay, offset |-> best.answer.offset,
                             stratum |-> best.answer.stratum]]
    BY DEF Publish, Sample
<1>5. Sample' = best
    BY <1>1, <1>2, <1>4
<1> QED
    BY <1>1, <1>2, <1>3, <1>5

\* Every step keeps the types; Query and Publish need that the thread is inside the
\* list of servers and has an answer to publish.
LEMMA TypeStep == TypeOK /\ RoundInv /\ [Next]_vars => TypeOK'
<1> SUFFICES ASSUME TypeOK, RoundInv, [Next]_vars
             PROVE  TypeOK'
    OBVIOUS
<1>1. CASE Query
    <2>1. UNCHANGED <<state, readerVars, round>>
        BY <1>1 DEF Query
    <2> QED
        BY <1>1, <2>1, QueryType DEF TypeOK, state, readerVars
<1>2. CASE Publish
    BY <1>2, PublishType DEF Publish, TypeOK, readerVars
<1>3. CASE Wake
    BY <1>3, UpstreamAssumption DEF Wake, TypeOK, state, readerVars
<1>4. ASSUME NEW r \in Readers, TestSynced(r)
      PROVE  TypeOK'
    BY <1>4, UpstreamAssumption DEF TestSynced, TypeOK, state
<1>5. ASSUME NEW r \in Readers, TakeStratum(r)
      PROVE  TypeOK'
    BY <1>5, StratumRange DEF TakeStratum, TypeOK, state
<1>6. ASSUME NEW r \in Readers, TakeOffset(r)
      PROVE  TypeOK'
    BY <1>6 DEF TakeOffset, TypeOK, state
<1>7. ASSUME NEW r \in Readers, SendResponse(r)
      PROVE  TypeOK'
    BY <1>7 DEF SendResponse, TypeOK, state
<1>8. CASE UNCHANGED vars
    BY <1>8 DEF vars, state, readerVars, TypeOK
<1> QED
    BY <1>1, <1>2, <1>3, <1>4, <1>5, <1>6, <1>7, <1>8 DEF Next, SyncThread, Reader
-----------------------------------------------------------------------------
\* syncOnce keeps the fastest of the answers so far: an answer replaces best only if
\* its delay is lower, so of equally fast ones the first stays.
LEMMA RoundStep == TypeOK /\ RoundInv /\ [Next]_vars => RoundInv'
<1> SUFFICES ASSUME TypeOK, RoundInv, [Next]_vars
             PROVE  RoundInv'
    OBVIOUS
<1>0. /\ answers \in Seq(Answers \cup {NoAnswer})
      /\ \A i \in 1 .. Len(answers) : answers[i] # NoAnswer => answers[i].delay \in Int
    BY UpstreamAssumption DEF TypeOK
<1>1. CASE Query
    <2>1. PICK a \in Answers \cup {NoAnswer} :
            /\ best' = IF a # NoAnswer /\ Better(a, best)
                       THEN [server |-> upstream_servers[next], answer |-> a]
                       ELSE best
            /\ answers' = Append(answers, a)
        BY <1>1 DEF Query
    <2>2. /\ Len(answers') = Len(answers) + 1
          /\ answers'[Len(answers) + 1] = a
          /\ \A i \in 1 .. Len(answers) : answers'[i] = answers[i]
          /\ Len(answers) \in Nat
        BY <2>1, <1>0
    <2>3. next = Len(answers) + 1 /\ next \in 1 .. Len(upstream_servers)
        BY <1>1, QueryType, <2>2 DEF RoundInv
    <2> PICK k : k = next
        OBVIOUS
    <2>4. /\ Len(answers') = next' - 1
          /\ sync' = "query" => next' <= Len(upstream_servers)
          /\ sync' = "publish" => best' # NoSample
        BY <1>1, <2>2, <2>3, UpstreamAssumption DEF Query, RoundInv
    <2>5. best \in [server : Servers, answer : Answers] \cup {NoSample}
        BY DEF TypeOK
    <2>6. CASE a # NoAnswer /\ Better(a, best)
        <3>1. a \in Answers /\ a.delay \in Int
            BY <2>6, UpstreamAssumption
        <3>2. best' = [server |-> upstream_servers[next], answer |-> a] /\ best' # NoSample
            BY <2>1, <2>3, <2>6, <3>1, ServerAt, UpstreamAssumption
        <3>3. Fastest(k)'
            <4> SUFFICES ASSUME NEW j \in 1 .. Len(answers), answers[j] # NoAnswer
                         PROVE  a.delay < answers[j].delay
                BY <2>2, <2>3, <2>6, <3>1 DEF Fastest
            <4>1. PICK i \in 1 .. Len(answers) :
                    Fastest(i) /\ best = [server |-> upstream_servers[i], answer |-> answers[i]]
                BY DEF RoundInv
            <4>2. a.delay < answers[i].delay
                BY <4>1, <2>5, <2>6, ServerAt, UpstreamAssumption DEF Better, RoundInv
            <4>3. answers[i].delay <= answers[j].delay
                BY <4>1, <1>0 DEF Fastest
            <4> QED
                BY <4>1, <4>2, <4>3, <3>1, <1>0 DEF Fastest
        <3> QED
            BY <2>2, <2>3, <2>4, <3>2, <3>3 DEF RoundInv
    <2>7. CASE ~(a # NoAnswer /\ Better(a, best))
        <3>1. best' = best
            BY <2>1, <2>7
        <3>2. CASE best = NoSample
            <4>1. a = NoAnswer
                BY <2>7, <3>2 DEF Better
            <4> QED
                BY <2>2, <2>4, <3>1, <3>2, <4>1 DEF RoundInv
        <3>3. CASE best # NoSample
            <4>1. PICK i \in 1 .. Len(answers) :
                    Fastest(i) /\ best = [server |-> upstream_servers[i], answer |-> answers[i]]
                BY <3>3 DEF RoundInv
            <4>2. answers[i] # NoAnswer /\ answers[i].delay \in Int
                BY <4>1, <1>0 DEF Fastest
            <4>3. a # NoAnswer => a.delay \in Int /\ ~(a.delay < answers[i].delay)
                BY <2>7, <3>3, <4>1, UpstreamAssumption DEF Better
            <4>4. Fastest(i)'
                BY <2>2, <4>1, <4>2, <4>3 DEF Fastest
            <4>5. best' = [server |-> upstream_servers[i], answer |-> answers'[i]]
                BY <3>1, <4>1, <2>2
            <4> QED
                BY <2>2, <2>4, <3>1, <3>3, <4>4, <4>5 DEF RoundInv
        <3> QED
            BY <3>2, <3>3
    <2> QED
        BY <2>6, <2>7
<1>2. CASE Publish
    BY <1>2 DEF Publish, RoundInv, Fastest
<1>3. CASE Wake
    BY <1>3, UpstreamAssumption DEF Wake, RoundInv
<1>4. CASE UNCHANGED <<sync, next, best, answers>>
    BY <1>4 DEF RoundInv, Fastest
<1>5. ASSUME NEW r \in Readers, Reader(r)
      PROVE  UNCHANGED <<sync, next, best, answers>>
    BY <1>5 DEF Reader, TestSynced, TakeStratum, TakeOffset, SendResponse
<1> QED
    BY <1>1, <1>2, <1>3, <1>4, <1>5 DEF Next, SyncThread, vars

\* The manager's variables and the responses keep their types, and best is the
\* fastest answer of the round so far: what the other theorems rest on.
THEOREM TypeCorrect == Spec => [](TypeOK /\ RoundInv)
<1>1. Init => TypeOK /\ RoundInv
    <2> SUFFICES ASSUME Init
                 PROVE  TypeOK /\ RoundInv
        OBVIOUS
    <2>1. Len(upstream_servers) \in Nat \ {0}
        BY UpstreamAssumption
    <2>2. TypeOK
        <3>1. Init => synced \in BOOLEAN
            BY Zenon DEF Init
        <3> QED
            BY <2>1, <3>1, UpstreamAssumption DEF Init, TypeOK
    <2>3. RoundInv
        BY <2>1 DEF Init, RoundInv
    <2> QED
        BY <2>2, <2>3
<1> QED
    BY <1>1, TypeStep, RoundStep, PTL DEF Spec

\* For every list of servers and every order of answers, what syncOnce publishes is
\* the answer with the lowest delay, and the first of those as fast.
THEOREM BestPublished == Spec => []BestOfRound
<1>1. TypeOK /\ RoundInv => BestOfRound
    <2> SUFFICES ASSUME TypeOK, RoundInv, sync = "publish"
                 PROVE  best = [server |-> upstream_servers[CHOOSE i \in 1 .. Len(answers) : Fastest(i)],
                                answer |-> answers[CHOOSE i \in 1 .. Len(answers) : Fastest(i)]]
        BY DEF BestOfRound
    <2>1. PICK i \in 1 .. Len(answers) :
            Fastest(i) /\ best = [server |-> upstream_servers[i], answer |-> answers[i]]
        BY DEF RoundInv
    <2>2. \A k \in 1 .. Len(answers) : answers[k] # NoAnswer => answers[k].delay \in Int
        BY UpstreamAssumption DEF TypeOK
    <2>3. \A k \in 1 .. Len(answers) : Fastest(k) => k = i
        BY <2>1, <2>2 DEF Fastest
    <2>4. i = CHOOSE k \in 1 .. Len(answers) : Fastest(k)
        BY <2>1, <2>3
    <2> QED
        BY <2>1, <2>4
<1> QED
    BY <1>1, TypeCorrect, PTL
-----------------------------------------------------------------------------
\* A round that succeeded replaces the sample by its best answer; every other step
\* leaves the sample alone.
LEMMA SampleStep ==
    TypeOK /\ RoundInv /\ [Next]_vars => [Clock!Learn]_Sample
<1> SUFFICES ASSUME TypeOK, RoundInv, [Next]_vars
             PROVE  Clock!Learn \/ Sample' = Sample
    OBVIOUS
<1>1. CASE Publish
    <2>1. Sample' \in Clock!Samples
        BY <1>1, PublishType DEF Clock!Samples
    <2> QED
        BY <2>1 DEF Clock!Learn
<1>2. CASE UNCHANGED state
    BY <1>2 DEF state, Sample
<1>3. ASSUME NEW r \in Readers, Reader(r)
      PROVE  UNCHANGED state
    BY <1>3 DEF Reader, TestSynced, TakeStratum, TakeOffset, SendResponse
<1>4. Query \/ Wake \/ UNCHANGED vars => UNCHANGED state
    BY DEF Query, Wake, vars
<1> QED
    BY <1>1, <1>2, <1>3, <1>4 DEF Next, SyncThread

\* The five fields the workers read under state_mutex_ are always one answer of one
\* server, replaced as a whole and never withdrawn: the manager implements
\* SyncedClock for every list of servers and every answer.
THEOREM ClockImplemented == Spec => ImplementsClock
<1>1. Init => Clock!Init
    BY DEF Init, Clock!Init, Sample
<1> QED
    BY <1>1, SampleStep, TypeCorrect, PTL DEF Spec, ImplementsClock, Clock!Spec
-----------------------------------------------------------------------------
\* The worker takes the stratum first and the offset after it, and rounds only go up.
LEMMA TakenStep == TypeOK /\ TakenInv /\ [Next]_vars => TakenInv'
<1> SUFFICES ASSUME TypeOK, TakenInv, [Next]_vars, NEW r \in Readers
             PROVE  /\ taken'[r].stratum <= round' /\ taken'[r].offset <= round'
                    /\ reader'[r] = "send" => taken'[r].stratum <= taken'[r].offset
    BY DEF TakenInv
<1>1. /\ taken[r] \in [stratum : 0 .. MaxRounds, offset : 0 .. MaxRounds]
      /\ round \in Nat /\ MaxRounds \in Nat
      /\ taken[r].stratum <= round /\ taken[r].offset <= round
      /\ reader[r] = "send" => taken[r].stratum <= taken[r].offset
    BY UpstreamAssumption DEF TypeOK, TakenInv
<1>2. CASE SyncThread
    <2>1. UNCHANGED readerVars /\ round' >= round /\ round' \in Nat
        BY <1>1, <1>2 DEF SyncThread, Query, Publish, Wake
    <2> QED
        BY <1>1, <2>1 DEF readerVars
<1>3. ASSUME NEW s \in Readers, Reader(s), s # r
      PROVE  UNCHANGED <<taken[r], reader[r], round>>
    BY <1>3 DEF Reader, TestSynced, TakeStratum, TakeOffset, SendResponse, TypeOK
<1>4. CASE TestSynced(r)
    BY <1>1, <1>4 DEF TestSynced, TypeOK
<1>5. CASE TakeStratum(r)
    BY <1>1, <1>5 DEF TakeStratum, TypeOK
<1>6. CASE TakeOffset(r)
    BY <1>1, <1>6 DEF TakeOffset, TypeOK
<1>7. CASE SendResponse(r)
    BY <1>1, <1>7 DEF SendResponse, TypeOK
<1>8. CASE UNCHANGED vars
    BY <1>1, <1>8 DEF vars, readerVars
<1> QED
    BY <1>1, <1>2, <1>3, <1>4, <1>5, <1>6, <1>7, <1>8 DEF Next, Reader

\* A response never pairs a stratum with an offset of an earlier round, however the
\* manager's rounds fall between the worker's two calls.
THEOREM OffsetFollows == Spec => []OffsetNotOlder
<1>1. Init => TakenInv
    BY DEF Init, TakenInv
<1>2. TakenInv => OffsetNotOlder
    BY DEF TakenInv, OffsetNotOlder
<1> QED
    BY <1>1, <1>2, TakenStep, TypeCorrect, PTL DEF Spec

\* What a response has taken stays true of the state until a round is published,
\* which makes the response no longer fresh.
LEMMA FreshStep == TypeOK /\ TakenInv /\ FreshInv /\ [Next]_vars => FreshInv'
<1> SUFFICES ASSUME TypeOK, TakenInv, FreshInv, [Next]_vars,
                    NEW r \in Readers, Fresh(r)'
             PROVE  /\ reader'[r] \in {"offset", "send"}
                          => response'[r].stratum = effectiveStratum'
                    /\ reader'[r] = "send" => response'[r].offset = clock_offset_us'
    BY DEF FreshInv
<1>1. Fresh(r) => /\ reader[r] \in {"offset", "send"} => response[r].stratum = effectiveStratum
                  /\ reader[r] = "send" => response[r].offset = clock_offset_us
    BY DEF FreshInv
<1>2. CASE Publish
    <2>1. taken'[r].stratum <= round /\ taken[r].stratum \in Nat /\ round \in Nat
        BY <1>2 DEF Publish, readerVars, TakenInv, TypeOK
    <2>2. round < MaxRounds => round' = round + 1
        BY <1>2 DEF Publish
    <2> QED
        BY <1>2, <2>1, <2>2, UpstreamAssumption DEF Fresh, Publish, readerVars
<1>3. CASE UNCHANGED <<state, round, taken[r], response[r], reader[r]>>
    BY <1>1, <1>3 DEF Fresh, state, effectiveStratum
<1>4. Query \/ Wake \/ UNCHANGED vars => UNCHANGED <<state, round, taken[r], response[r], reader[r]>>
    BY DEF Query, Wake, vars, readerVars
<1>5. ASSUME NEW s \in Readers, Reader(s), s # r
      PROVE  UNCHANGED <<state, round, taken[r], response[r], reader[r]>>
    BY <1>5 DEF Reader, TestSynced, TakeStratum, TakeOffset, SendResponse, TypeOK
<1>6. CASE TestSynced(r)
    BY <1>6 DEF TestSynced, Fresh, TypeOK, state
<1>7. CASE TakeStratum(r)
    BY <1>7 DEF TakeStratum, TypeOK, state, effectiveStratum
<1>8. CASE TakeOffset(r)
    BY <1>1, <1>8 DEF TakeOffset, TypeOK, state, effectiveStratum, Fresh
<1>9. CASE SendResponse(r)
    BY <1>9 DEF SendResponse, TypeOK
<1> QED
    BY <1>2, <1>3, <1>4, <1>5, <1>6, <1>7, <1>8, <1>9 DEF Next, SyncThread, Reader

\* For every configured stratum and every upstream, a fresh response puts the server
\* one stratum behind the source whose offset it hands out.
THEOREM StratumFollows == Spec => []StratumBehindSource
<1>1. Init => TakenInv /\ FreshInv
    BY DEF Init, TakenInv, FreshInv, Fresh
<1>2. TypeOK /\ FreshInv => StratumBehindSource
    BY DEF TypeOK, FreshInv, StratumBehindSource, effectiveStratum, DerivedStratum, Fresh
<1> QED
    BY <1>1, <1>2, TakenStep, FreshStep, TypeCorrect, PTL DEF Spec
=============================================================================
