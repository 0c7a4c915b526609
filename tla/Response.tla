------------------------------ MODULE Response ------------------------------
(***************************************************************************)
(* How a request is answered: NtpServer::processPacket from the verdict of *)
(* admission to its last statement, with applyDynamicStratum,              *)
(* selectUpstreamServer and the failover that follows a failed sendto      *)
(* (core/server.cpp).  The workers share config_->stratum,                 *)
(* healthy_upstreams_ and stats_ without a lock, so a `x++' is a load and  *)
(* a store, and every separate access of the vector is a step.             *)
(*                                                                         *)
(* Left out: the bytes counter, which is 48 times the requests counter,    *)
(* and the processing-time figures.  Module UpstreamSync models what the   *)
(* response takes from the upstream manager.                               *)
(***************************************************************************)
EXTENDS Integers, Sequences, FiniteSets, SequencesExt

CONSTANTS
    Workers,                    \* the worker threads
    upstream_servers,           \* config_->upstream_servers, a sequence
    Configs,                    \* the settings of config_ read here
    InitialStratum,             \* config_->stratum at start
    MinRequests,                \* 100 in the code: requests before adjusting
    MaxRequests,                \* bound: datagrams handled
    NoServer                    \* the empty string of selectUpstreamServer

MAX_STRATUM == 15

\* random_selection: upstream_selection_algorithm is RANDOM.
ConfigType == [random_selection : BOOLEAN,
               enable_upstream_failover : BOOLEAN,
               enable_dynamic_stratum_adjustment : BOOLEAN]

ASSUME ResponseAssumption ==
    /\ IsFiniteSet(Workers) /\ Workers # {}
    /\ upstream_servers \in Seq(Range(upstream_servers))
    /\ Configs # {} /\ Configs \subseteq ConfigType
    /\ InitialStratum \in 0 .. MAX_STRATUM
    /\ MinRequests \in Nat
    /\ MaxRequests \in Nat
    /\ NoServer \notin Range(upstream_servers)

Counters == {"total_requests", "total_responses", "total_errors",
             "processed_request_count"}

VARIABLES
    config,             \* the settings of config_, fixed at start
    stratum,            \* config_->stratum
    healthy_upstreams,  \* healthy_upstreams_, a sequence
    upstream_rr_index,  \* upstream_rr_index_, atomic
    stats,              \* the counters of stats_
    pc,
    reg,                \* what a worker loaded for its next store
    response_stratum,   \* the stratum of a worker's response
    selected_upstream,
    todo,               \* counters a worker has yet to increment, in order
    undefined,          \* an access out of the vector's bounds happened
    \* History, for the properties only.
    handled,            \* datagrams taken up
    truth,              \* what each counter should be
    overlapped          \* two workers were in processPacket at the same time

vars == <<config, stratum, healthy_upstreams, upstream_rr_index, stats, pc, reg,
          response_stratum, selected_upstream, todo, undefined, handled, truth,
          overlapped>>

upstreamVars == <<healthy_upstreams, upstream_rr_index, undefined>>
countVars == <<stats, todo, handled, truth>>
settled == <<config, overlapped>>

Init ==
    /\ config \in Configs
    /\ stratum = InitialStratum
    /\ healthy_upstreams = upstream_servers
    /\ upstream_rr_index = 0
    /\ stats = [c \in Counters |-> 0]
    /\ pc = [w \in Workers |-> "idle"]
    /\ reg = [w \in Workers |-> 0]
    /\ response_stratum = [w \in Workers |-> InitialStratum]
    /\ selected_upstream = [w \in Workers |-> NoServer]
    /\ todo = [w \in Workers |-> << >>]
    /\ undefined = FALSE
    /\ handled = 0
    /\ truth = [c \in Counters |-> 0]
    /\ overlapped = FALSE

Goto(w, label) == pc' = [pc EXCEPT ![w] = label]

\* Worker w takes up a datagram.
Begin(w) ==
    /\ pc[w] = "idle" /\ handled < MaxRequests
    /\ handled' = handled + 1
    /\ overlapped' = (overlapped \/ \E v \in Workers \ {w} : pc[v] # "idle")

\* Worker w is left with the statements that increment the counters of seq.
Count(w, seq) ==
    /\ todo' = [todo EXCEPT ![w] = seq]
    /\ truth' = [c \in Counters |-> truth[c] + IF Contains(seq, c) THEN 1 ELSE 0]
    /\ Goto(w, "count")

\* The access lists, a limiter or handlePacket turned the datagram away.
Reject(w) ==
    /\ Begin(w)
    /\ \/ Count(w, <<"total_errors">>)
       \/ Count(w, <<"total_errors", "processed_request_count">>)
    /\ UNCHANGED <<config, stratum, upstreamVars, stats, reg, response_stratum,
                   selected_upstream>>

\* handlePacket accepted it: the response carries config_->stratum.
Accept(w) ==
    /\ Begin(w)
    /\ response_stratum' = [response_stratum EXCEPT ![w] = stratum]
    /\ Goto(w, "adjust")
    /\ UNCHANGED <<config, stratum, upstreamVars, stats, reg, selected_upstream, todo,
                   truth>>

\* Mutant: the upper end of the stratum is not tested.
MayRaiseStratum_NoCap ==
    /\ config.enable_dynamic_stratum_adjustment
    /\ stats["total_requests"] > MinRequests
    /\ 5 * stats["total_errors"] > stats["total_requests"]

\* applyDynamicStratum's conditions: more than a fifth of errors.
MayRaiseStratum ==
    /\ config.enable_dynamic_stratum_adjustment
    /\ stats["total_requests"] > MinRequests
    /\ 5 * stats["total_errors"] > stats["total_requests"]
    /\ stratum < MAX_STRATUM

CheckStratum(w) ==
    /\ pc[w] = "adjust"
    /\ reg' = [reg EXCEPT ![w] = stratum]
    /\ Goto(w, IF MayRaiseStratum THEN "raise" ELSE "select")
    /\ UNCHANGED <<settled, stratum, upstreamVars, countVars, response_stratum,
                   selected_upstream>>

\* config_->stratum = config_->stratum + 1: an unsynchronised read, for which
\* the build may reuse the value that was compared or load it again.
RaiseStratum(w) ==
    /\ pc[w] = "raise"
    /\ \E old \in {reg[w], stratum} : stratum' = old + 1
    /\ Goto(w, "select")
    /\ UNCHANGED <<settled, upstreamVars, countVars, reg, response_stratum,
                   selected_upstream>>

\* Mutant: an exhausted list of healthy servers is not refilled.
SelectUpstream_NoRefill(w) ==
    /\ pc[w] = "select"
    /\ Goto(w, IF upstream_servers = << >> THEN "send" ELSE "size")
    /\ UNCHANGED <<settled, stratum, upstreamVars, countVars, reg, response_stratum,
                   selected_upstream>>

\* selectUpstreamServer: nothing to select, or the list is refilled if empty.
SelectUpstream(w) ==
    /\ pc[w] = "select"
    /\ Goto(w, IF upstream_servers = << >> THEN "send" ELSE "size")
    /\ healthy_upstreams' = IF healthy_upstreams = << >> THEN upstream_servers
                                                         ELSE healthy_upstreams
    /\ UNCHANGED <<settled, stratum, upstream_rr_index, undefined, countVars, reg,
                   response_stratum, selected_upstream>>

\* if (healthy_upstreams_.size() == 1)
TestSize(w) ==
    /\ pc[w] = "size"
    /\ Goto(w, IF Len(healthy_upstreams) = 1 THEN "at" ELSE "index")
    /\ reg' = [reg EXCEPT ![w] = 0]
    /\ UNCHANGED <<settled, stratum, upstreamVars, countVars, response_stratum,
                   selected_upstream>>

\* upstream_rr_index_ % healthy_upstreams_.size()
RoundRobin(n) == upstream_rr_index % n

\* The index: size() is read again; of an empty vector it is undefined.
ChooseIndex(w) ==
    LET n == Len(healthy_upstreams)
    IN  /\ pc[w] = "index"
        /\ IF n = 0
           THEN /\ undefined' = TRUE
                /\ Goto(w, "send")
                /\ UNCHANGED <<upstream_rr_index, reg>>
           ELSE /\ Goto(w, "at")
                /\ IF config.random_selection
                   THEN /\ \E i \in 0 .. n - 1 : reg' = [reg EXCEPT ![w] = i]
                        /\ UNCHANGED upstream_rr_index
                   ELSE /\ reg' = [reg EXCEPT ![w] = RoundRobin(n)]
                        /\ upstream_rr_index' = upstream_rr_index + 1
                /\ UNCHANGED undefined
        /\ UNCHANGED <<settled, stratum, healthy_upstreams, countVars, response_stratum,
                       selected_upstream>>

\* healthy_upstreams_[idx] or front(); past the end it is undefined.
ReadUpstream(w) ==
    /\ pc[w] = "at"
    /\ IF reg[w] < Len(healthy_upstreams)
       THEN /\ selected_upstream' =
                 [selected_upstream EXCEPT ![w] = healthy_upstreams[reg[w] + 1]]
            /\ UNCHANGED undefined
       ELSE undefined' = TRUE /\ UNCHANGED selected_upstream
    /\ Goto(w, "send")
    /\ UNCHANGED <<settled, stratum, healthy_upstreams, upstream_rr_index, countVars, reg,
                   response_stratum>>

\* Mutant: the early return after a failed sendto is missing.
SendFailed_CountsOn == <<"total_errors", "total_requests", "total_responses">>

\* The counters touched after a failed sendto.
SendFailed == <<"total_errors">>

\* sendto answers the client; the request counts as answered only now.
SendResponse(w) ==
    /\ pc[w] = "send"
    /\ Count(w, <<"total_requests", "total_responses", "processed_request_count">>)
    /\ selected_upstream' = [selected_upstream EXCEPT ![w] = NoServer]
    /\ UNCHANGED <<settled, stratum, upstreamVars, stats, reg, response_stratum,
                   handled>>

\* sendto fails: an error is counted, then the selected upstream is dropped.
FailToSend(w) ==
    /\ pc[w] = "send"
    /\ todo' = [todo EXCEPT ![w] = SendFailed]
    /\ truth' = [truth EXCEPT !["total_errors"] = @ + 1]
    /\ Goto(w, "count")
    /\ UNCHANGED <<settled, stratum, upstreamVars, stats, reg, response_stratum,
                   selected_upstream, handled>>

\* The load of a counter's increment.
LoadCounter(w) ==
    /\ pc[w] = "count" /\ todo[w] # << >>
    /\ reg' = [reg EXCEPT ![w] = stats[Head(todo[w])]]
    /\ Goto(w, "store")
    /\ UNCHANGED <<settled, stratum, upstreamVars, countVars, response_stratum,
                   selected_upstream>>

\* Its store.
StoreCounter(w) ==
    /\ pc[w] = "store"
    /\ stats' = [stats EXCEPT ![Head(todo[w])] = reg[w] + 1]
    /\ todo' = [todo EXCEPT ![w] = Tail(@)]
    /\ Goto(w, "count")
    /\ UNCHANGED <<settled, stratum, upstreamVars, reg, response_stratum, selected_upstream,
                   handled, truth>>

\* processPacket returns; after a failed sendto, with failover on, the selected
\* upstream is first erased from the healthy ones, if it is still there.
Finish(w) ==
    /\ pc[w] = "count" /\ todo[w] = << >>
    /\ healthy_upstreams' =
         IF config.enable_upstream_failover /\ selected_upstream[w] # NoServer
         THEN RemoveFirst(healthy_upstreams, selected_upstream[w])
         ELSE healthy_upstreams
    /\ selected_upstream' = [selected_upstream EXCEPT ![w] = NoServer]
    /\ Goto(w, "idle")
    /\ UNCHANGED <<settled, stratum, upstream_rr_index, undefined, countVars, reg,
                   response_stratum>>

Worker(w) ==
    \/ Reject(w) \/ Accept(w)
    \/ CheckStratum(w) \/ RaiseStratum(w)
    \/ SelectUpstream(w) \/ TestSize(w) \/ ChooseIndex(w) \/ ReadUpstream(w)
    \/ SendResponse(w) \/ FailToSend(w)
    \/ LoadCounter(w) \/ StoreCounter(w) \/ Finish(w)

Next == \E w \in Workers : Worker(w)

Spec == Init /\ [][Next]_vars
-----------------------------------------------------------------------------
\* Types of the response path's variables.
TypeOK ==
    /\ config \in Configs
    /\ stratum \in Nat
    /\ healthy_upstreams \in Seq(Range(upstream_servers))
    /\ upstream_rr_index \in Nat
    /\ stats \in [Counters -> Nat]
    /\ pc \in [Workers -> {"idle", "adjust", "raise", "select", "size", "index",
                           "at", "send", "count", "store"}]
    /\ reg \in [Workers -> Nat]
    /\ response_stratum \in [Workers -> Nat]
    /\ selected_upstream \in [Workers -> Range(upstream_servers) \cup {NoServer}]
    /\ todo \in [Workers -> Seq(Counters)]
    /\ undefined \in BOOLEAN
    /\ handled \in 0 .. MaxRequests
    /\ truth \in [Counters -> Nat]
    /\ overlapped \in BOOLEAN

\* Who is counting what, and who has a datagram that is not counted yet.
Pending(c) == {w \in Workers : Contains(todo[w], c)}
InFlight == {w \in Workers : pc[w] \notin {"idle", "count", "store"}}
Raising == {w \in Workers : pc[w] = "raise"}

\* What is left to count are distinct counters; there are none before a datagram's
\* outcome is known, and at least one when a counter was loaded.
TodoInv ==
    \A w \in Workers :
        /\ IsInjective(todo[w])
        /\ pc[w] = "store" => todo[w] # << >>
        /\ pc[w] \notin {"count", "store"} => todo[w] = << >>

\* What StatsAccurate rests on: a value that was stored, or loaded for the next store,
\* falls short of the truth by every increment still pending, and by nothing else while
\* the workers take turns; and each datagram is in flight, answered or an error.
CountInv ==
    /\ \A w \in Workers : pc[w] = "store" =>
          LET c == Head(todo[w]) IN reg[w] + Cardinality(Pending(c)) <= truth[c]
    /\ \A c \in Counters : stats[c] + Cardinality(Pending(c)) <= truth[c]
    /\ truth["total_requests"] + truth["total_errors"] + Cardinality(InFlight) = handled

AloneInv ==
    ~overlapped =>
        /\ \A v, w \in Workers : v = w \/ pc[v] = "idle" \/ pc[w] = "idle"
        /\ \A c \in Counters : stats[c] + Cardinality(Pending(c)) = truth[c]
        /\ \A w \in Workers : pc[w] = "store" => reg[w] = stats[Head(todo[w])]

\* What SelectInBounds rests on: whoever is about to index the list has tested a list
\* that nobody can have changed since.
BoundsInv ==
    /\ ~overlapped \/ ~config.enable_upstream_failover =>
          /\ ~undefined
          /\ \A w \in Workers :
                /\ pc[w] \in {"size", "index", "at"} => healthy_upstreams # << >>
                /\ pc[w] = "at" => reg[w] < Len(healthy_upstreams)
    /\ ~config.enable_upstream_failover => healthy_upstreams = upstream_servers

\* What StratumOvershoot rests on: each worker past the test of the maximum adds at
\* most one to the stratum.
StratumInv ==
    LET bound == MAX_STRATUM - 1 + Cardinality(Workers)
    IN  /\ \A w \in Raising : reg[w] < MAX_STRATUM
        /\ stratum + Cardinality(Raising) <= bound
        /\ \A w \in Workers : response_stratum[w] <= bound
        /\ ~overlapped =>
              /\ stratum <= MAX_STRATUM /\ (Raising # {} => stratum < MAX_STRATUM)
              /\ \A w \in Workers : response_stratum[w] <= MAX_STRATUM

Quiet == \A w \in Workers : pc[w] = "idle"

\* Lost updates can only make the statistics fall behind: no interleaving of the
\* workers' loads and stores makes a counter exceed what really happened.  And as
\* long as datagrams were handled one at a time, by whichever worker, they are exact
\* between two of them: each datagram is one request answered or one error.
StatsAccurate ==
    /\ \A c \in Counters : stats[c] <= truth[c]
    /\ Quiet /\ ~overlapped =>
          stats = truth /\ stats["total_requests"] + stats["total_errors"] = handled

\* healthy_upstreams_ is never indexed out of its bounds, whatever failed sends
\* erase from it, as long as datagrams were handled one at a time; and not by
\* racing workers either unless failover erases behind their backs.
SelectInBounds ==
    ~overlapped \/ ~config.enable_upstream_failover => ~undefined

\* The stratum in the configuration, and with it that of a response, stays in the
\* documented range, at most 15, as long as datagrams were handled one at a time;
\* racing workers push it past 15 by at most one each but the first.
StratumOvershoot ==
    \A n \in {stratum} \cup {response_stratum[w] : w \in Workers} :
        n < MAX_STRATUM + (IF overlapped THEN Cardinality(Workers) ELSE 1)
=============================================================================
