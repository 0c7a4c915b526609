--------------------------- MODULE ResponseProofs ---------------------------
(***************************************************************************)
(* Proofs about Response for any number of workers, any upstream servers,  *)
(* settings and number of requests: the types, and what the accesses       *)
(* without a lock leave of the statistics, of the list of healthy servers  *)
(* and of the stratum.  Each of the three inductive invariants counts      *)
(* workers at certain places, or relies on there being only one.           *)
(***************************************************************************)
EXTENDS Response, FiniteSetTheorems, WellFoundedInduction, TLAPS

\* A set of natural numbers that is not empty has a least element.
LEMMA Least ==
    ASSUME NEW I, I \subseteq Nat, I # {}
    PROVE  Min(I) \in I
<1>1. PICK x \in I : \A y \in I : ~(<<y, x>> \in OpToRel(<, Nat))
    BY NatLessThanWellFounded, WFMin
<1>2. ASSUME NEW a \in Nat, NEW b \in Nat, a < b
      PROVE  <<a, b>> \in OpToRel(<, Nat)
    BY <1>2, Zenon DEF OpToRel
<1>3. \A y \in I : ~(y < x)
    BY <1>1, <1>2, Zenon
<1>4. \A y \in I : x <= y
    BY <1>3
<1> QED
    BY <1>4 DEF Min

\* Erasing the first of some servers leaves a list of servers.
LEMMA RemoveFirstType ==
    ASSUME NEW S, NEW s \in Seq(S), NEW e
    PROVE  RemoveFirst(s, e) \in Seq(S)
<1> SUFFICES ASSUME \E j \in 1 .. Len(s) : s[j] = e
             PROVE  RemoveAt(s, SelectInSeq(s, LAMBDA v : v = e)) \in Seq(S)
    BY DEF RemoveFirst
<1> DEFINE I == {j \in 1 .. Len(s) : s[j] = e}
<1>1. Min(I) \in 1 .. Len(s)
    <2>1. I # {} /\ I \subseteq Nat
        OBVIOUS
    <2> QED
        BY <2>1, Least
<1>2. SelectInSeq(s, LAMBDA v : v = e) = Min(I)
    BY DEF SelectInSeq
<1> HIDE DEF I
<1>3. \A j \in 1 .. Len(s) : RemoveAt(s, j) \in Seq(S)
    BY DEF RemoveAt
<1> QED
    BY <1>1, <1>2, <1>3

\* A list of distinct counters loses the first one only, with the element itself.
LEMMA HeadTail ==
    ASSUME NEW s \in Seq(Counters), s # << >>, IsInjective(s)
    PROVE  /\ Head(s) \in Counters
           /\ Tail(s) \in Seq(Counters)
           /\ IsInjective(Tail(s))
           /\ \A c : Contains(s, c) <=> c = Head(s) \/ Contains(Tail(s), c)
           /\ ~Contains(Tail(s), Head(s))
<1>1. /\ Len(s) \in Nat \ {0} /\ Head(s) = s[1] /\ Head(s) \in Counters
      /\ Tail(s) \in Seq(Counters) /\ Len(Tail(s)) = Len(s) - 1
      /\ \A j \in 1 .. Len(Tail(s)) : Tail(s)[j] = s[j + 1]
      /\ DOMAIN s = 1 .. Len(s) /\ DOMAIN Tail(s) = 1 .. Len(Tail(s))
    OBVIOUS
<1>2. \A j, k \in 1 .. Len(s) : s[j] = s[k] => j = k
    BY <1>1 DEF IsInjective
<1>3. IsInjective(Tail(s))
    BY <1>1, <1>2 DEF IsInjective
<1>4. ASSUME NEW c
      PROVE  Contains(s, c) <=> c = Head(s) \/ Contains(Tail(s), c)
    <2>1. ASSUME NEW j \in 1 .. Len(s), s[j] = c, c # Head(s)
          PROVE  j - 1 \in 1 .. Len(Tail(s)) /\ Tail(s)[j - 1] = c
        BY <1>1, <2>1
    <2>2. ASSUME NEW j \in 1 .. Len(Tail(s)), Tail(s)[j] = c
          PROVE  j + 1 \in 1 .. Len(s) /\ s[j + 1] = c
        BY <1>1, <2>2
    <2>3. Contains(s, c) => c = Head(s) \/ Contains(Tail(s), c)
        BY <2>1 DEF Contains
    <2>4. Contains(Tail(s), c) => Contains(s, c)
        BY <2>2 DEF Contains
    <2>5. c = Head(s) => Contains(s, c)
        BY <1>1 DEF Contains
    <2> QED
        BY <2>3, <2>4, <2>5
<1>5. ~Contains(Tail(s), Head(s))
    BY <1>1, <1>2 DEF Contains
<1> QED
    BY <1>1, <1>3, <1>4, <1>5

\* Sets of workers are finite; one more or one less worker counts for one.
LEMMA Sizes ==
    ASSUME NEW S \in SUBSET Workers
    PROVE  /\ Cardinality(S) \in Nat
           /\ Cardinality(S) <= Cardinality(Workers)
           /\ Cardinality(Workers) \in Nat \ {0}
           /\ \A w \in Workers \ S : Cardinality(S \cup {w}) = Cardinality(S) + 1
           /\ \A w \in S : Cardinality(S \ {w}) = Cardinality(S) - 1
<1>1. IsFiniteSet(Workers) /\ Workers # {}
    BY ResponseAssumption
<1>2. IsFiniteSet(S) /\ Cardinality(S) <= Cardinality(Workers)
    BY <1>1, FS_Subset
<1>3. Cardinality(S) \in Nat /\ Cardinality(Workers) \in Nat /\ Cardinality(Workers) # 0
    BY <1>1, <1>2, FS_CardinalityType, FS_EmptySet
<1> QED
    BY <1>2, <1>3, FS_AddElement, FS_RemoveElement
-----------------------------------------------------------------------------
PCs == {"idle", "adjust", "raise", "select", "size", "index", "at", "send", "count",
        "store"}

\* TypeOK without its Boolean-valued variables.
Values ==
    /\ config \in Configs
    /\ stratum \in Nat /\ upstream_rr_index \in Nat
    /\ healthy_upstreams \in Seq(Range(upstream_servers))
    /\ stats \in [Counters -> Nat] /\ truth \in [Counters -> Nat]
    /\ pc \in [Workers -> PCs]
    /\ reg \in [Workers -> Nat] /\ response_stratum \in [Workers -> Nat]
    /\ selected_upstream \in [Workers -> Range(upstream_servers) \cup {NoServer}]
    /\ todo \in [Workers -> Seq(Counters)]
    /\ handled \in 0 .. MaxRequests

Flags == undefined \in BOOLEAN /\ overlapped \in BOOLEAN

LEMMA TypeSplit == (TypeOK <=> Values /\ Flags) /\ (TypeOK' <=> Values' /\ Flags')
BY Zenon DEF TypeOK, Values, Flags, PCs

\* The counters that the outcomes of a datagram touch are distinct.
Outcomes ==
    {<<"total_errors">>, <<"total_errors", "processed_request_count">>,
     <<"total_requests", "total_responses", "processed_request_count">>}

LEMMA OutcomeType ==
    ASSUME NEW seq \in Outcomes
    PROVE  seq \in Seq(Counters) /\ IsInjective(seq) /\ seq # << >>
<1>1. CASE seq = <<"total_errors">>
    BY <1>1 DEF Counters, IsInjective
<1>2. CASE seq = <<"total_errors", "processed_request_count">>
    BY <1>2 DEF Counters, IsInjective
<1>3. CASE seq = <<"total_requests", "total_responses", "processed_request_count">>
    <2>1. seq \in Seq(Counters) /\ seq # << >> /\ DOMAIN seq = 1 .. 3
        BY <1>3 DEF Counters
    <2>2. seq[1] # seq[2] /\ seq[2] # seq[3] /\ seq[3] # seq[1]
        BY <1>3
    <2> HIDE <1>3
    <2>3. \A j \in 1 .. 3 : j = 1 \/ j = 2 \/ j = 3
        OBVIOUS
    <2>4. IsInjective(seq)
        BY <2>1, <2>2, <2>3 DEF IsInjective
    <2> QED
        BY <2>1, <2>4
<1> QED
    BY <1>1, <1>2, <1>3 DEF Outcomes

\* An outcome adds one to the truth of the counters it touches.
LEMMA CountEffect ==
    ASSUME Values, NEW w \in Workers, NEW seq \in Seq(Counters), Count(w, seq)
    PROVE  /\ pc' = [pc EXCEPT ![w] = "count"] /\ pc' \in [Workers -> PCs]
           /\ todo' = [todo EXCEPT ![w] = seq] /\ todo' \in [Workers -> Seq(Counters)]
           /\ truth' \in [Counters -> Nat]
           /\ \A c \in Counters :
                truth'[c] = IF Contains(seq, c) THEN truth[c] + 1 ELSE truth[c]
<1>1. \A c \in Counters : truth[c] \in Nat
    BY DEF Values
<1>2. truth' \in [Counters -> Nat]
      /\ \A c \in Counters :
           truth'[c] = IF Contains(seq, c) THEN truth[c] + 1 ELSE truth[c]
    BY <1>1 DEF Count
<1> QED
    BY <1>2 DEF Count, Goto, Values, PCs

\* Every step of a worker keeps the types.
LEMMA TypeStep == TypeOK /\ TodoInv /\ [Next]_vars => TypeOK'
<1> SUFFICES ASSUME TypeOK, TodoInv, [Next]_vars
             PROVE  Values' /\ Flags'
    BY TypeSplit
<1>0. /\ Values /\ Flags
      /\ Configs \subseteq ConfigType /\ InitialStratum \in Nat /\ MaxRequests \in Nat
      /\ upstream_servers \in Seq(Range(upstream_servers))
    BY TypeSplit, ResponseAssumption DEF MAX_STRATUM
<1> USE DEF Goto, Begin, settled, upstreamVars, countVars
<1>1. Flags'
    BY ZenonT(30), <1>0 DEF Flags, Count, Next, Worker, Reject, Accept, CheckStratum, RaiseStratum,
       SelectUpstream, TestSize, ChooseIndex, ReadUpstream, SendResponse, FailToSend,
       LoadCounter, StoreCounter, Finish, vars
<1>2. Outcomes \subseteq Seq(Counters)
    BY OutcomeType
<1>3. ASSUME NEW w \in Workers, Reject(w)
      PROVE  Values'
    <2>1. PICK seq \in Outcomes : Count(w, seq)
        BY <1>3 DEF Reject, Outcomes
    <2> QED
        BY <1>0, <1>2, <1>3, <2>1, CountEffect DEF Reject, Values
<1>4. ASSUME NEW w \in Workers, Accept(w)
      PROVE  Values'
    BY <1>0, <1>4 DEF Accept, Values, PCs
<1>5. ASSUME NEW w \in Workers, CheckStratum(w)
      PROVE  Values'
    BY <1>0, <1>5 DEF CheckStratum, Values, PCs
<1>6. ASSUME NEW w \in Workers, RaiseStratum(w)
      PROVE  Values'
    BY <1>0, <1>6 DEF RaiseStratum, Values, PCs
<1>7. ASSUME NEW w \in Workers, SelectUpstream(w)
      PROVE  Values'
    BY <1>0, <1>7 DEF SelectUpstream, Values, PCs
<1>8. ASSUME NEW w \in Workers, TestSize(w)
      PROVE  Values'
    BY <1>0, <1>8 DEF TestSize, Values, PCs
<1>9. ASSUME NEW w \in Workers, ChooseIndex(w)
      PROVE  Values'
    <2>1. \A n \in Nat \ {0} : RoundRobin(n) \in Nat
        BY <1>0 DEF RoundRobin, Values
    <2>2. Len(healthy_upstreams) \in Nat
        BY <1>0 DEF Values
    <2>3. pc' \in [Workers -> PCs]
        BY <1>0, <1>9 DEF ChooseIndex, Values, PCs
    <2>4. reg' \in [Workers -> Nat]
        <3>1. reg' = reg \/ \E r \in Nat : reg' = [reg EXCEPT ![w] = r]
            BY <1>9, <2>1, <2>2 DEF ChooseIndex
        <3> QED
            BY <1>0, <3>1 DEF Values
    <2>5. upstream_rr_index' \in Nat
        BY <1>0, <1>9 DEF ChooseIndex, Values
    <2> QED
        BY <1>0, <1>9, <2>3, <2>4, <2>5 DEF ChooseIndex, Values
<1>10. ASSUME NEW w \in Workers, ReadUpstream(w)
       PROVE  Values'
    <2>1. reg[w] < Len(healthy_upstreams)
            => healthy_upstreams[reg[w] + 1] \in Range(upstream_servers)
        BY <1>0 DEF Values
    <2>2. selected_upstream' \in [Workers -> Range(upstream_servers) \cup {NoServer}]
        BY <1>0, <1>10, <2>1 DEF ReadUpstream, Values
    <2> QED
        BY <1>0, <1>10, <2>2 DEF ReadUpstream, Values, PCs
<1>11. ASSUME NEW w \in Workers, SendResponse(w)
       PROVE  Values'
    <2>1. PICK seq \in Outcomes : Count(w, seq)
        BY <1>11 DEF SendResponse, Outcomes
    <2> QED
        BY <1>0, <1>2, <1>11, <2>1, CountEffect DEF SendResponse, Values
<1>12. ASSUME NEW w \in Workers, FailToSend(w)
       PROVE  Values'
    <2>1. SendFailed \in Seq(Counters)
        BY DEF SendFailed, Counters
    <2>2. truth' \in [Counters -> Nat]
        BY SMTT(30), <1>0, <1>12 DEF FailToSend, Values, Counters
    <2> QED
        BY <1>0, <1>12, <2>1, <2>2 DEF FailToSend, Values, PCs
<1>13. ASSUME NEW w \in Workers, LoadCounter(w)
       PROVE  Values'
    BY <1>0, <1>13 DEF LoadCounter, Values, PCs
<1>14. ASSUME NEW w \in Workers, StoreCounter(w)
       PROVE  Values'
    <2>1. todo[w] \in Seq(Counters) /\ todo[w] # << >> /\ reg[w] \in Nat
        BY <1>0, <1>14 DEF StoreCounter, Values, TodoInv
    <2>2. Head(todo[w]) \in Counters /\ Tail(todo[w]) \in Seq(Counters)
        BY <2>1
    <2>3. stats' \in [Counters -> Nat]
        BY <1>0, <1>14, <2>1, <2>2 DEF StoreCounter, Values
    <2>4. todo' \in [Workers -> Seq(Counters)]
        BY <1>0, <1>14, <2>2 DEF StoreCounter, Values
    <2>5. pc' \in [Workers -> PCs]
        BY <1>0, <1>14 DEF StoreCounter, Values, PCs
    <2> QED
        BY <1>0, <1>14, <2>3, <2>4, <2>5 DEF StoreCounter, Values
<1>15. ASSUME NEW w \in Workers, Finish(w)
       PROVE  Values'
    <2>1. \A e : RemoveFirst(healthy_upstreams, e) \in Seq(Range(upstream_servers))
        BY <1>0, RemoveFirstType DEF Values
    <2> QED
        BY <1>0, <1>15, <2>1 DEF Finish, Values, PCs
<1>16. CASE UNCHANGED vars
    BY <1>0, <1>1, <1>16 DEF vars, Values
<1> QED
    BY <1>1, <1>3, <1>4, <1>5, <1>6, <1>7, <1>8, <1>9, <1>10, <1>11, <1>12, <1>13, <1>14, <1>15,
       <1>16 DEF Next, Worker

\* Counters are taken up together, distinct, and left one by one.
LEMMA TodoStep == TypeOK /\ TodoInv /\ [Next]_vars => TodoInv'
<1> SUFFICES ASSUME TypeOK, TodoInv, [Next]_vars
             PROVE  TodoInv'
    OBVIOUS
<1>0. Values /\ pc \in [Workers -> PCs] /\ todo \in [Workers -> Seq(Counters)]
    BY TypeSplit DEF Values
<1>1. ASSUME NEW w \in Workers, NEW seq \in Outcomes, Count(w, seq)
      PROVE  TodoInv'
    <2>1. seq \in Seq(Counters) /\ IsInjective(seq)
        BY <1>1, OutcomeType
    <2>2. pc' = [pc EXCEPT ![w] = "count"] /\ todo' = [todo EXCEPT ![w] = seq]
        BY <1>0, <1>1, <2>1, CountEffect
    <2> QED
        BY <1>0, <2>1, <2>2 DEF TodoInv
<1>2. ASSUME NEW w \in Workers, Reject(w) \/ SendResponse(w)
      PROVE  TodoInv'
    <2>1. PICK seq \in Outcomes : Count(w, seq)
        BY <1>2 DEF Reject, SendResponse, Outcomes
    <2> QED
        BY <1>1, <2>1
<1>3. ASSUME NEW w \in Workers, FailToSend(w)
      PROVE  TodoInv'
    <2>1. SendFailed \in Outcomes
        BY DEF SendFailed, Outcomes
    <2> QED
        BY <1>0, <1>3, <2>1, OutcomeType DEF FailToSend, Goto, TodoInv
<1>4. ASSUME NEW w \in Workers, StoreCounter(w)
      PROVE  TodoInv'
    <2>1. todo[w] \in Seq(Counters) /\ todo[w] # << >> /\ IsInjective(todo[w])
        BY <1>0, <1>4 DEF StoreCounter, TodoInv
    <2>2. IsInjective(Tail(todo[w]))
        BY <2>1, HeadTail
    <2> QED
        BY <1>0, <1>4, <2>2 DEF StoreCounter, Goto, TodoInv
<1>5. ASSUME NEW w \in Workers, Accept(w) \/ CheckStratum(w) \/ RaiseStratum(w)
      PROVE  TodoInv'
    BY <1>0, <1>5 DEF Accept, Begin, CheckStratum, RaiseStratum, countVars, Goto, TodoInv
<1>6. ASSUME NEW w \in Workers, SelectUpstream(w) \/ TestSize(w)
      PROVE  TodoInv'
    BY <1>0, <1>6 DEF SelectUpstream, TestSize, countVars, Goto, TodoInv
<1>7. ASSUME NEW w \in Workers, ChooseIndex(w) \/ ReadUpstream(w)
      PROVE  TodoInv'
    BY <1>0, <1>7 DEF ChooseIndex, ReadUpstream, countVars, Goto, TodoInv
<1>8. ASSUME NEW w \in Workers, LoadCounter(w) \/ Finish(w)
      PROVE  TodoInv'
    BY <1>0, <1>8 DEF LoadCounter, Finish, countVars, Goto, TodoInv
<1>9. CASE UNCHANGED vars
    BY <1>9 DEF vars, TodoInv
<1> QED
    BY <1>2, <1>3, <1>4, <1>5, <1>6, <1>7, <1>8, <1>9 DEF Next, Worker

\* The response path is type correct: no index or counter ever runs below zero, and the
\* list of healthy servers holds configured servers only.
THEOREM TypeCorrect == Spec => [](TypeOK /\ TodoInv)
<1>1. Init => TypeOK
    <2>1. Init => Flags
        BY Zenon DEF Init, Flags
    <2>2. Init => Values
        BY ResponseAssumption DEF Init, Values, PCs, Counters, MAX_STRATUM
    <2> QED
        BY <2>1, <2>2, TypeSplit
<1>2. Init => TodoInv
    BY DEF Init, TodoInv, IsInjective
<1> QED
    BY <1>1, <1>2, TypeStep, TodoStep, PTL DEF Spec
-----------------------------------------------------------------------------
\* The two sums of the counting argument, and that workers take turns.
Behind ==
    /\ \A w \in Workers : pc[w] = "store" =>
          reg[w] + Cardinality(Pending(Head(todo[w]))) <= truth[Head(todo[w])]
    /\ \A c \in Counters : stats[c] + Cardinality(Pending(c)) <= truth[c]

Exact ==
    /\ \A c \in Counters : stats[c] + Cardinality(Pending(c)) = truth[c]
    /\ \A w \in Workers : pc[w] = "store" => reg[w] = stats[Head(todo[w])]

Flying == truth["total_requests"] + truth["total_errors"] + Cardinality(InFlight) = handled

Alone == \A v, w \in Workers : v = w \/ pc[v] = "idle" \/ pc[w] = "idle"

LEMMA CountSplit ==
    /\ CountInv <=> Behind /\ Flying
    /\ CountInv' <=> Behind' /\ Flying'
    /\ AloneInv <=> (~overlapped => Alone /\ Exact)
    /\ AloneInv' <=> (~overlapped' => Alone' /\ Exact')
BY DEF CountInv, AloneInv, Behind, Exact, Flying, Alone

\* Sets of workers with something to count.
LEMMA PendingSize ==
    ASSUME NEW c
    PROVE  Cardinality(Pending(c)) \in Nat /\ Cardinality(Pending(c)') \in Nat
<1>1. Pending(c) \in SUBSET Workers /\ Pending(c)' \in SUBSET Workers
    BY DEF Pending
<1> QED
    BY <1>1, Sizes

\* A worker that had nothing to count takes up the counters of seq.
LEMMA TakeUp ==
    ASSUME NEW w \in Workers, NEW seq, NEW c, todo \in [Workers -> Seq(Counters)],
           todo[w] = << >>, todo' = [todo EXCEPT ![w] = seq]
    PROVE  Cardinality(Pending(c)') = IF Contains(seq, c) THEN Cardinality(Pending(c)) + 1
                                                          ELSE Cardinality(Pending(c))
<1>1. ~Contains(todo[w], c)
    BY DEF Contains
<1>2. Pending(c)' = IF Contains(seq, c) THEN Pending(c) \cup {w} ELSE Pending(c)
    BY <1>1 DEF Pending
<1>3. Pending(c) \in SUBSET Workers /\ w \notin Pending(c)
    BY <1>1 DEF Pending
<1> QED
    BY <1>2, <1>3, Sizes

\* A worker is done with the first of its counters.
LEMMA PutDown ==
    ASSUME NEW w \in Workers, NEW c, todo \in [Workers -> Seq(Counters)], TodoInv,
           todo[w] # << >>, todo' = [todo EXCEPT ![w] = Tail(@)]
    PROVE  Cardinality(Pending(c)') = IF c = Head(todo[w]) THEN Cardinality(Pending(c)) - 1
                                                           ELSE Cardinality(Pending(c))
<1>1. /\ Contains(todo[w], c) <=> c = Head(todo[w]) \/ Contains(Tail(todo[w]), c)
      /\ ~Contains(Tail(todo[w]), Head(todo[w]))
    BY HeadTail DEF TodoInv
<1>2. Pending(c)' = IF c = Head(todo[w]) THEN Pending(c) \ {w} ELSE Pending(c)
    BY <1>1 DEF Pending
<1>3. Pending(c) \in SUBSET Workers /\ (c = Head(todo[w]) => w \in Pending(c))
    BY <1>1 DEF Pending
<1> QED
    BY <1>2, <1>3, Sizes

\* A worker with a datagram: takes it up, goes on with it, or knows its outcome.
LEMMA Flight ==
    ASSUME NEW w \in Workers, NEW to, pc \in [Workers -> PCs],
           pc' = [pc EXCEPT ![w] = to]
    PROVE  LET in(p) == p \notin {"idle", "count", "store"}
           IN  Cardinality(InFlight') =
                 IF in(pc[w]) /\ ~in(to) THEN Cardinality(InFlight) - 1
                 ELSE IF ~in(pc[w]) /\ in(to) THEN Cardinality(InFlight) + 1
                 ELSE Cardinality(InFlight)
<1> DEFINE in(p) == p \notin {"idle", "count", "store"}
<1>1. InFlight \in SUBSET Workers /\ (w \in InFlight <=> in(pc[w]))
    BY DEF InFlight
<1>2. CASE in(pc[w]) /\ ~in(to)
    <2>1. InFlight' = InFlight \ {w}
        BY <1>2 DEF InFlight
    <2> QED
        BY <1>1, <1>2, <2>1, Sizes
<1>3. CASE ~in(pc[w]) /\ in(to)
    <2>1. InFlight' = InFlight \cup {w}
        BY <1>3 DEF InFlight
    <2> QED
        BY <1>1, <1>3, <2>1, Sizes
<1>4. CASE in(pc[w]) <=> in(to)
    <2>1. InFlight' = InFlight
        BY <1>4 DEF InFlight
    <2> QED
        BY <1>4, <2>1
<1> QED
    BY <1>2, <1>3, <1>4

\* A step that touches no counter keeps both sums.
LEMMA SumsStay ==
    ASSUME TypeOK, NEW w \in Workers, NEW to, Goto(w, to), to # "store",
           UNCHANGED <<stats, todo, truth>>, \A v \in Workers \ {w} : reg'[v] = reg[v]
    PROVE  (Behind => Behind') /\ (Exact => Exact')
<1>1. pc \in [Workers -> PCs] /\ \A c : Pending(c)' = Pending(c)
    BY TypeSplit DEF Pending, Values
<1>2. ASSUME NEW v \in Workers, pc'[v] = "store"
      PROVE  pc[v] = "store" /\ reg'[v] = reg[v]
    BY <1>1, <1>2 DEF Goto
<1>3. Behind => Behind'
    BY <1>1, <1>2 DEF Behind
<1>4. Exact => Exact'
    BY <1>1, <1>2 DEF Exact
<1> QED
    BY <1>3, <1>4

\* An outcome adds as much to the truth as to what is pending.
LEMMA SumsGrow ==
    ASSUME TypeOK, TodoInv, NEW w \in Workers, NEW seq \in Seq(Counters), Goto(w, "count"),
           pc[w] \notin {"count", "store"}, todo' = [todo EXCEPT ![w] = seq],
           \A c \in Counters :
               truth'[c] = IF Contains(seq, c) THEN truth[c] + 1 ELSE truth[c],
           UNCHANGED <<stats, reg>>
    PROVE  (Behind => Behind') /\ (Exact => Exact')
<1>1. /\ pc \in [Workers -> PCs] /\ todo \in [Workers -> Seq(Counters)]
      /\ stats \in [Counters -> Nat] /\ truth \in [Counters -> Nat]
      /\ reg \in [Workers -> Nat]
    BY TypeSplit DEF Values
<1>2. todo[w] = << >>
    BY DEF TodoInv
<1>3. \A c \in Counters :
        truth'[c] - truth[c] = Cardinality(Pending(c)') - Cardinality(Pending(c))
    <2> SUFFICES ASSUME NEW c \in Counters
                 PROVE  truth'[c] - truth[c]
                          = Cardinality(Pending(c)') - Cardinality(Pending(c))
        OBVIOUS
    <2>1. Cardinality(Pending(c)') = IF Contains(seq, c) THEN Cardinality(Pending(c)) + 1
                                                         ELSE Cardinality(Pending(c))
        BY <1>1, <1>2, TakeUp
    <2>2. truth'[c] = IF Contains(seq, c) THEN truth[c] + 1 ELSE truth[c]
        OBVIOUS
    <2>3. truth[c] \in Nat
        BY <1>1
    <2> QED
        BY <2>1, <2>2, <2>3, PendingSize
<1>4. ASSUME NEW v \in Workers, pc'[v] = "store"
      PROVE  /\ pc[v] = "store" /\ todo'[v] = todo[v]
             /\ Head(todo[v]) \in Counters
    <2>1. pc[v] = "store" /\ v # w
        BY <1>1, <1>4 DEF Goto
    <2>2. todo[v] # << >> /\ todo[v] \in Seq(Counters)
        BY <1>1, <2>1 DEF TodoInv
    <2> QED
        BY <1>1, <2>1, <2>2
<1>5. ASSUME NEW c \in Counters
      PROVE  truth[c] \in Nat /\ truth'[c] \in Nat /\ stats[c] \in Nat
    <2>1. truth'[c] = IF Contains(seq, c) THEN truth[c] + 1 ELSE truth[c]
        OBVIOUS
    <2>2. truth[c] \in Nat /\ stats[c] \in Nat
        BY <1>1
    <2> QED
        BY <2>1, <2>2
<1>6. ASSUME Behind
      PROVE  Behind'
    <2>1. ASSUME NEW c \in Counters
          PROVE  stats'[c] + Cardinality(Pending(c)') <= truth'[c]
        <3>1. stats[c] + Cardinality(Pending(c)) <= truth[c] /\ stats'[c] = stats[c]
            BY <1>6 DEF Behind
        <3>2. truth'[c] - truth[c] = Cardinality(Pending(c)') - Cardinality(Pending(c))
            BY <1>3
        <3>3. truth[c] \in Nat /\ truth'[c] \in Nat /\ stats[c] \in Nat
            BY <1>5
        <3>4. Cardinality(Pending(c)) \in Nat /\ Cardinality(Pending(c)') \in Nat
            BY PendingSize
        <3>5. PICK a \in Nat, b \in Nat, bb \in Nat, t \in Nat, tt \in Nat :
                /\ a = stats[c] /\ b = Cardinality(Pending(c)) /\ bb = Cardinality(Pending(c)')
                /\ t = truth[c] /\ tt = truth'[c]
            BY <3>3, <3>4
        <3>6. a + b <= t /\ tt - t = bb - b
            BY <3>1, <3>2, <3>5
        <3>7. {a, b, bb, t, tt} \subseteq Nat
            BY <3>5
        <3>8. a + bb <= tt
            BY ONLY <3>6, <3>7
        <3> QED
            BY <3>1, <3>5, <3>8
    <2>2. ASSUME NEW v \in Workers, pc'[v] = "store"
          PROVE  (reg[v] + Cardinality(Pending(Head(todo[v]))) <= truth[Head(todo[v])])'
        <3>1. PICK c \in Counters : c = Head(todo[v])
            BY <1>4, <2>2
        <3>2. c = Head(todo'[v]) /\ reg'[v] = reg[v]
            BY <1>4, <2>2, <3>1
        <3>3. reg[v] + Cardinality(Pending(c)) <= truth[c]
            BY <1>4, <1>6, <2>2, <3>1 DEF Behind
        <3>4. reg[v] \in Nat /\ truth[c] \in Nat /\ truth'[c] \in Nat
            BY <1>1, <1>5
        <3>5. truth'[c] - truth[c] = Cardinality(Pending(c)') - Cardinality(Pending(c))
            BY <1>3
        <3>6. reg'[v] + Cardinality(Pending(c)') <= truth'[c]
            BY <3>2, <3>3, <3>4, <3>5, PendingSize
        <3> QED
            BY <3>2, <3>6
    <2> QED
        BY <2>1, <2>2 DEF Behind
<1>7. ASSUME Exact
      PROVE  Exact'
    <2>1. ASSUME NEW c \in Counters
          PROVE  stats'[c] + Cardinality(Pending(c)') = truth'[c]
        <3>1. stats[c] + Cardinality(Pending(c)) = truth[c] /\ stats'[c] = stats[c]
            BY <1>7 DEF Exact
        <3>2. truth'[c] - truth[c] = Cardinality(Pending(c)') - Cardinality(Pending(c))
            BY <1>3
        <3>3. truth[c] \in Nat /\ truth'[c] \in Nat /\ stats[c] \in Nat
            BY <1>5
        <3>4. Cardinality(Pending(c)) \in Nat /\ Cardinality(Pending(c)') \in Nat
            BY PendingSize
        <3>5. PICK a \in Nat, b \in Nat, bb \in Nat, t \in Nat, tt \in Nat :
                /\ a = stats[c] /\ b = Cardinality(Pending(c)) /\ bb = Cardinality(Pending(c)')
                /\ t = truth[c] /\ tt = truth'[c]
            BY <3>3, <3>4
        <3>6. a + b = t /\ tt - t = bb - b
            BY <3>1, <3>2, <3>5
        <3>7. {a, b, bb, t, tt} \subseteq Nat
            BY <3>5
        <3>8. a + bb = tt
            BY ONLY <3>6, <3>7
        <3> QED
            BY <3>1, <3>5, <3>8
    <2> QED
        BY <1>4, <1>7, <2>1 DEF Exact
<1> QED
    BY <1>6, <1>7

\* The store of an increment: what is pending of the counter is one less, and the
\* value stored one more than the one loaded, which had been short of one more.
LEMMA SumsStore ==
    ASSUME TypeOK, TodoInv, Behind, NEW w \in Workers, StoreCounter(w)
    PROVE  /\ Behind'
           /\ Alone /\ Exact => Exact'
<1>1. /\ pc \in [Workers -> PCs] /\ todo \in [Workers -> Seq(Counters)]
      /\ stats \in [Counters -> Nat] /\ truth \in [Counters -> Nat]
      /\ reg \in [Workers -> Nat]
    BY TypeSplit DEF Values
<1>2. /\ pc[w] = "store" /\ pc' = [pc EXCEPT ![w] = "count"]
      /\ stats' = [stats EXCEPT ![Head(todo[w])] = reg[w] + 1]
      /\ todo' = [todo EXCEPT ![w] = Tail(@)]
      /\ truth' = truth /\ reg' = reg
    BY DEF StoreCounter, Goto
<1>3. ASSUME NEW v \in Workers, pc[v] = "store"
      PROVE  todo[v] # << >> /\ Head(todo[v]) \in Counters
    <2>1. todo[v] # << >> /\ todo[v] \in Seq(Counters)
        BY <1>1, <1>3 DEF TodoInv
    <2> QED
        BY <2>1
<1>4. PICK d \in Counters : d = Head(todo[w])
    BY <1>2, <1>3
<1>5. ASSUME NEW c
      PROVE  Cardinality(Pending(c)') = IF c = d THEN Cardinality(Pending(c)) - 1
                                                 ELSE Cardinality(Pending(c))
    BY <1>1, <1>2, <1>3, <1>4, PutDown
<1>6. \A v \in Workers : pc'[v] = "store"
        => v # w /\ pc[v] = "store" /\ todo'[v] = todo[v]
    BY <1>1, <1>2
<1>7. reg[w] + Cardinality(Pending(d)) <= truth[d] /\ reg[w] \in Nat /\ truth[d] \in Nat
    BY <1>1, <1>2, <1>4 DEF Behind
<1>8. ASSUME NEW c \in Counters
      PROVE  stats'[c] + Cardinality(Pending(c)') <= truth'[c]
    <2>1. CASE c = d
        <3>1. stats'[c] = reg[w] + 1
            BY <1>1, <1>2, <1>4, <2>1
        <3> QED
            BY <1>2, <1>5, <1>7, <2>1, <3>1, PendingSize
    <2>2. CASE c # d
        BY <1>1, <1>2, <1>4, <1>5, <2>2 DEF Behind
    <2> QED
        BY <2>1, <2>2
<1>9. ASSUME NEW v \in Workers, pc'[v] = "store"
      PROVE  (reg[v] + Cardinality(Pending(Head(todo[v]))) <= truth[Head(todo[v])])'
    <2>1. PICK c \in Counters : c = Head(todo[v])
        BY <1>3, <1>6, <1>9
    <2>2. c = Head(todo'[v])
        BY <1>6, <1>9, <2>1
    <2>3. reg[v] + Cardinality(Pending(c)) <= truth[c] /\ reg[v] \in Nat /\ truth[c] \in Nat
        BY <1>1, <1>6, <1>9, <2>1 DEF Behind
    <2>4. Cardinality(Pending(c)') <= Cardinality(Pending(c))
        BY <1>5, PendingSize
    <2>5. reg'[v] + Cardinality(Pending(c)') <= truth'[c]
        BY <1>2, <2>3, <2>4, PendingSize
    <2> QED
        BY <2>2, <2>5
<1>10. ASSUME Alone, Exact
       PROVE  Exact'
    <2>1. ~ \E v \in Workers : pc'[v] = "store"
        BY <1>2, <1>6, <1>10 DEF Alone
    <2>2. ASSUME NEW c \in Counters
          PROVE  stats'[c] + Cardinality(Pending(c)') = truth'[c]
        <3>1. stats[c] + Cardinality(Pending(c)) = truth[c] /\ stats[c] \in Nat
            BY <1>1, <1>10 DEF Exact
        <3>2. CASE c = d
            <4>1. stats'[c] = stats[c] + 1
                BY <1>1, <1>2, <1>4, <1>10, <3>2 DEF Exact
            <4> QED
                BY <1>2, <1>5, <3>1, <3>2, <4>1, PendingSize
        <3>3. CASE c # d
            BY <1>1, <1>2, <1>4, <1>5, <3>1, <3>3
        <3> QED
            BY <3>2, <3>3
    <2> QED
        BY <2>1, <2>2 DEF Exact
<1> QED
    BY <1>8, <1>9, <1>10 DEF Behind

\* The load of an increment takes over the sum of the value loaded.
LEMMA SumsLoad ==
    ASSUME TypeOK, NEW w \in Workers, LoadCounter(w)
    PROVE  (Behind => Behind') /\ (Exact => Exact')
<1>1. /\ pc \in [Workers -> PCs] /\ todo \in [Workers -> Seq(Counters)]
      /\ reg \in [Workers -> Nat] /\ \A c : Pending(c)' = Pending(c)
    BY TypeSplit DEF Values, LoadCounter, countVars, Pending
<1>2. /\ todo[w] # << >> /\ pc' = [pc EXCEPT ![w] = "store"]
      /\ reg' = [reg EXCEPT ![w] = stats[Head(todo[w])]]
      /\ UNCHANGED <<stats, todo, truth>>
    BY DEF LoadCounter, Goto, countVars
<1>3. Head(todo[w]) \in Counters
    <2>1. todo[w] \in Seq(Counters) /\ todo[w] # << >>
        BY <1>1, <1>2
    <2> QED
        BY <2>1
<1>4. \A v \in Workers : pc'[v] = "store" =>
        IF v = w THEN reg'[v] = stats[Head(todo[w])] ELSE pc[v] = "store" /\ reg'[v] = reg[v]
    BY <1>1, <1>2
<1>5. Behind => Behind'
    BY <1>1, <1>2, <1>3, <1>4 DEF Behind
<1>6. Exact => Exact'
    BY <1>1, <1>2, <1>4 DEF Exact
<1> QED
    BY <1>5, <1>6

\* A datagram that is taken up, and what it finds.
LEMMA BeginFacts ==
    ASSUME NEW w \in Workers, Begin(w)
    PROVE  /\ pc[w] = "idle" /\ handled' = handled + 1
           /\ ~overlapped' => ~overlapped /\ \A v \in Workers \ {w} : pc[v] = "idle"
BY Zenon DEF Begin

\* The steps of a worker by what they mean for the counters: it takes up a datagram,
\* goes on with it, knows its outcome, or counts.
LEMMA CountStep ==
    TypeOK /\ TodoInv /\ CountInv /\ AloneInv /\ [Next]_vars => CountInv' /\ AloneInv'
<1> SUFFICES ASSUME TypeOK, TodoInv, Behind, Flying, ~overlapped => Alone /\ Exact,
                    [Next]_vars
             PROVE  Behind' /\ Flying' /\ (~overlapped' => Alone' /\ Exact')
    BY CountSplit
<1>0. /\ pc \in [Workers -> PCs] /\ todo \in [Workers -> Seq(Counters)]
      /\ truth \in [Counters -> Nat] /\ reg \in [Workers -> Nat] /\ handled \in Nat
      /\ truth["total_requests"] \in Nat /\ truth["total_errors"] \in Nat
    <2>1. "total_requests" \in Counters /\ "total_errors" \in Counters
        BY DEF Counters
    <2>2. pc \in [Workers -> PCs] /\ todo \in [Workers -> Seq(Counters)]
          /\ truth \in [Counters -> Nat] /\ reg \in [Workers -> Nat]
        BY TypeSplit DEF Values
    <2>3. handled \in Nat
        BY TypeSplit, ResponseAssumption DEF Values
    <2> QED
        BY <2>1, <2>2, <2>3
<1>02. truth["total_requests"] \in Nat /\ truth["total_errors"] \in Nat
    BY <1>0
<1>00. Cardinality(InFlight) \in Nat
    BY Sizes DEF InFlight
<1> DEFINE in(p) == p \notin {"idle", "count", "store"}
           Goal == Behind' /\ Flying' /\ (~overlapped' => Alone' /\ Exact')
<1>1. ASSUME NEW w \in Workers, NEW to, Goto(w, to), pc[w] # "idle"
      PROVE  Alone => Alone'
    BY <1>0, <1>1 DEF Alone, Goto
<1>2. ASSUME NEW w \in Workers, NEW to, Goto(w, to), Begin(w)
      PROVE  ~overlapped' => Alone' /\ Alone /\ Exact
    BY <1>0, <1>2, BeginFacts DEF Alone, Goto
<1>3. ASSUME NEW w \in Workers, NEW to, Goto(w, to), in(pc[w]) <=> in(to), pc[w] # "idle",
             UNCHANGED <<overlapped, stats, todo, truth, handled>>, to # "store",
             \A v \in Workers \ {w} : reg'[v] = reg[v]
      PROVE  Goal
    <2>1. Flying'
        BY <1>0, <1>00, <1>3, Flight DEF Goto, Flying
    <2> QED
        BY <1>1, <1>3, <2>1, SumsStay
<1>4. ASSUME NEW w \in Workers, Accept(w)
      PROVE  Goal
    <2>1. Goto(w, "adjust") /\ Begin(w) /\ UNCHANGED <<stats, todo, truth, reg>>
        BY <1>4 DEF Accept
    <2>2. Cardinality(InFlight') = Cardinality(InFlight) + 1
        BY <1>0, <2>1, Flight, BeginFacts DEF Goto
    <2>3. Flying'
        BY <1>0, <1>00, <2>1, <2>2, BeginFacts DEF Flying
    <2> QED
        BY <1>2, <2>1, <2>3, SumsStay
<1>5. ASSUME NEW w \in Workers, NEW seq \in Seq(Counters), Goto(w, "count"),
             pc[w] \notin {"count", "store"}, todo' = [todo EXCEPT ![w] = seq],
             \A c \in Counters :
                 truth'[c] = IF Contains(seq, c) THEN truth[c] + 1 ELSE truth[c],
             UNCHANGED <<stats, reg>>
      PROVE  Behind' /\ (Exact => Exact')
    BY <1>5, SumsGrow
<1>6. ASSUME NEW w \in Workers, Reject(w)
      PROVE  Goal
    <2>1. PICK seq \in {<<"total_errors">>, <<"total_errors", "processed_request_count">>} :
            Count(w, seq)
        BY <1>6 DEF Reject
    <2>2. seq \in Outcomes /\ seq \in Seq(Counters)
        BY OutcomeType DEF Outcomes
    <2>3. /\ Goto(w, "count") /\ todo' = [todo EXCEPT ![w] = seq]
          /\ \A c \in Counters :
                truth'[c] = IF Contains(seq, c) THEN truth[c] + 1 ELSE truth[c]
        BY <2>1, <2>2, TypeSplit, CountEffect DEF Count
    <2>4. Begin(w) /\ UNCHANGED <<stats, reg>>
        BY <1>6 DEF Reject
    <2>5. Behind' /\ (Exact => Exact')
        BY <1>5, <2>2, <2>3, <2>4, BeginFacts
    <2>6. Contains(seq, "total_errors") /\ ~Contains(seq, "total_requests")
        BY DEF Contains
    <2>7. truth'["total_errors"] = truth["total_errors"] + 1
          /\ truth'["total_requests"] = truth["total_requests"]
        BY <2>3, <2>6 DEF Counters
    <2>8. Cardinality(InFlight') = Cardinality(InFlight)
        BY <1>0, <2>3, <2>4, Flight, BeginFacts DEF Goto
    <2>9. Flying'
        <3>1. handled' = handled + 1
            BY <2>4, BeginFacts
        <3>2. truth["total_requests"] + truth["total_errors"] + Cardinality(InFlight) = handled
            BY DEF Flying
        <3>3. truth'["total_requests"] + truth'["total_errors"] + Cardinality(InFlight')
                = handled'
            BY <1>00, <1>02, <2>7, <2>8, <3>1, <3>2
        <3> QED
            BY <3>3 DEF Flying
    <2> QED
        BY <1>2, <2>3, <2>4, <2>5, <2>9
<1>7. ASSUME NEW w \in Workers, SendResponse(w)
      PROVE  Goal
    <2> DEFINE seq == <<"total_requests", "total_responses", "processed_request_count">>
    <2>2. seq \in Outcomes /\ seq \in Seq(Counters)
        BY OutcomeType DEF Outcomes
    <2>6. Contains(seq, "total_requests") /\ ~Contains(seq, "total_errors")
        <3>1. seq[1] = "total_requests" /\ 1 \in 1 .. Len(seq)
              /\ \A j \in 1 .. Len(seq) : seq[j] # "total_errors"
            OBVIOUS
        <3> QED
            BY <3>1 DEF Contains
    <2>1. Count(w, seq) /\ pc[w] = "send" /\ UNCHANGED <<stats, reg, overlapped, handled>>
        BY <1>7 DEF SendResponse, settled
    <2> HIDE DEF seq
    <2>3. /\ Goto(w, "count") /\ todo' = [todo EXCEPT ![w] = seq]
          /\ \A c \in Counters :
                truth'[c] = IF Contains(seq, c) THEN truth[c] + 1 ELSE truth[c]
        BY <2>1, <2>2, TypeSplit, CountEffect DEF Count
    <2>5. Behind' /\ (Exact => Exact')
        BY <1>5, <2>1, <2>2, <2>3
    <2>7. truth'["total_requests"] = truth["total_requests"] + 1
          /\ truth'["total_errors"] = truth["total_errors"]
        BY <2>3, <2>6 DEF Counters
    <2>8. Cardinality(InFlight') = Cardinality(InFlight) - 1
        BY <1>0, <2>1, <2>3, Flight DEF Goto
    <2>9. Flying'
        BY SMTT(30), <1>0, <1>00, <2>1, <2>7, <2>8 DEF Flying
    <2> QED
        BY <1>1, <2>1, <2>3, <2>5, <2>9
<1>8. ASSUME NEW w \in Workers, FailToSend(w)
      PROVE  Goal
    <2>1. /\ Goto(w, "count") /\ todo' = [todo EXCEPT ![w] = SendFailed]
          /\ truth' = [truth EXCEPT !["total_errors"] = @ + 1]
          /\ pc[w] = "send" /\ UNCHANGED <<stats, reg, overlapped, handled>>
        BY <1>8 DEF FailToSend, settled
    <2>2. SendFailed \in Seq(Counters)
        BY DEF SendFailed, Counters
    <2>3. \A c : Contains(SendFailed, c) <=> c = "total_errors"
        BY DEF Contains, SendFailed
    <2>4. \A c \in Counters :
            truth'[c] = IF Contains(SendFailed, c) THEN truth[c] + 1 ELSE truth[c]
        BY <1>0, <2>1, <2>3
    <2>5. Behind' /\ (Exact => Exact')
        BY <1>5, <2>1, <2>2, <2>4
    <2>7. truth'["total_errors"] = truth["total_errors"] + 1
          /\ truth'["total_requests"] = truth["total_requests"]
        BY <2>3, <2>4 DEF Counters
    <2>8. Cardinality(InFlight') = Cardinality(InFlight) - 1
        BY <1>0, <2>1, Flight DEF Goto
    <2>9. Flying'
        <3>1. handled' = handled
            BY <2>1
        <3>2. truth["total_requests"] + truth["total_errors"] + Cardinality(InFlight) = handled
            BY DEF Flying
        <3>3. truth'["total_requests"] + truth'["total_errors"] + Cardinality(InFlight')
                = handled'
            BY <1>00, <1>02, <2>7, <2>8, <3>1, <3>2
        <3> QED
            BY <3>3 DEF Flying
    <2> QED
        BY <1>1, <2>1, <2>5, <2>9
<1>9. ASSUME NEW w \in Workers, StoreCounter(w)
      PROVE  Goal
    <2>1. /\ Goto(w, "count") /\ pc[w] = "store"
          /\ UNCHANGED <<overlapped, truth, handled>>
        BY <1>9 DEF StoreCounter, settled
    <2>2. Flying'
        BY <1>0, <1>00, <2>1, Flight DEF Goto, Flying
    <2> QED
        BY <1>1, <1>9, <2>1, <2>2, SumsStore
<1>10. ASSUME NEW w \in Workers, LoadCounter(w)
       PROVE  Goal
    <2>1. /\ Goto(w, "store") /\ pc[w] = "count"
          /\ UNCHANGED <<overlapped, truth, handled>>
        BY <1>10 DEF LoadCounter, settled, countVars
    <2>2. Flying'
        BY <1>0, <1>00, <2>1, Flight DEF Goto, Flying
    <2> QED
        BY <1>1, <1>10, <2>1, <2>2, SumsLoad
<1>11. ASSUME NEW w \in Workers, CheckStratum(w) \/ RaiseStratum(w)
       PROVE  Goal
    <2>1. \E to \in {"raise", "select"} :
            /\ Goto(w, to) /\ pc[w] \in {"adjust", "raise"}
            /\ UNCHANGED <<overlapped, stats, todo, truth, handled>>
            /\ \A v \in Workers \ {w} : reg'[v] = reg[v]
        BY <1>0, <1>11 DEF CheckStratum, RaiseStratum, settled, countVars
    <2> QED
        BY <1>3, <2>1
<1>12. ASSUME NEW w \in Workers, SelectUpstream(w) \/ TestSize(w)
       PROVE  Goal
    <2>1. \E to \in {"send", "size", "at", "index"} :
            /\ Goto(w, to) /\ pc[w] \in {"select", "size"}
            /\ UNCHANGED <<overlapped, stats, todo, truth, handled>>
            /\ \A v \in Workers \ {w} : reg'[v] = reg[v]
        BY <1>0, <1>12 DEF SelectUpstream, TestSize, settled, countVars
    <2> QED
        BY <1>3, <2>1
<1>13. ASSUME NEW w \in Workers, ChooseIndex(w) \/ ReadUpstream(w)
       PROVE  Goal
    <2>1. \E to \in {"send", "at"} :
            /\ Goto(w, to) /\ pc[w] \in {"index", "at"}
            /\ UNCHANGED <<overlapped, stats, todo, truth, handled>>
            /\ \A v \in Workers \ {w} : reg'[v] = reg[v]
        BY <1>0, <1>13 DEF ChooseIndex, ReadUpstream, settled, countVars
    <2> QED
        BY <1>3, <2>1
<1>14. ASSUME NEW w \in Workers, Finish(w)
       PROVE  Goal
    <2>1. /\ Goto(w, "idle") /\ pc[w] = "count"
          /\ UNCHANGED <<overlapped, stats, todo, truth, handled, reg>>
        BY <1>14 DEF Finish, settled, countVars
    <2> QED
        BY <1>3, <2>1
<1>15. CASE UNCHANGED vars
    BY <1>15 DEF vars, Behind, Flying, Alone, Exact, Pending, InFlight
<1> QED
    BY <1>4, <1>6, <1>7, <1>8, <1>9, <1>10, <1>11, <1>12, <1>13, <1>14, <1>15
    DEF Next, Worker

LEMMA CountInvariant == Spec => [](CountInv /\ AloneInv)
<1>1. Init => CountInv /\ AloneInv
    <2> SUFFICES ASSUME Init
                 PROVE  CountInv /\ AloneInv
        OBVIOUS
    <2>1. \A c : Pending(c) = {}
        BY DEF Init, Pending, Contains
    <2>2. InFlight = {}
        BY DEF Init, InFlight
    <2>3. Cardinality({}) = 0
        BY FS_EmptySet
    <2>6. \A c \in Counters : Cardinality(Pending(c)) = 0
        BY <2>1, <2>3
    <2>7. /\ \A c \in Counters : stats[c] = 0 /\ truth[c] = 0
          /\ \A w \in Workers : pc[w] = "idle"
          /\ handled = 0
        BY DEF Init
    <2>8. truth["total_requests"] = 0 /\ truth["total_errors"] = 0
        BY <2>7 DEF Counters
    <2>9. Cardinality(InFlight) = 0
        BY <2>2, <2>3
    <2>4. CountInv
        BY <2>6, <2>7, <2>8, <2>9 DEF CountInv
    <2>5. AloneInv
        BY <2>6, <2>7 DEF AloneInv
    <2> QED
        BY <2>4, <2>5
<1> QED
    BY <1>1, CountStep, TypeCorrect, PTL DEF Spec

\* Whatever the workers overwrite of each other's increments, no counter of the
\* statistics exceeds the truth; and the counters of workers that took turns are exact.
THEOREM StatsBehind == Spec => []StatsAccurate
<1>1. TypeOK /\ TodoInv /\ CountInv /\ AloneInv => StatsAccurate
    <2> SUFFICES ASSUME TypeOK, TodoInv, CountInv, AloneInv
                 PROVE  StatsAccurate
        OBVIOUS
    <2>0. stats \in [Counters -> Nat] /\ truth \in [Counters -> Nat]
        BY TypeSplit DEF Values
    <2>1. ASSUME NEW c \in Counters
          PROVE  stats[c] <= truth[c]
        BY <2>0, PendingSize DEF CountInv
    <2>2. ASSUME Quiet, ~overlapped
          PROVE  stats = truth /\ stats["total_requests"] + stats["total_errors"] = handled
        <3>1. InFlight = {} /\ \A c : Pending(c) = {}
            BY <2>2 DEF Quiet, TodoInv, Pending, InFlight, Contains
        <3>2. Cardinality({}) = 0
            BY FS_EmptySet
        <3>3. ASSUME NEW c \in Counters
              PROVE  stats[c] = truth[c]
            <4>1. stats[c] + Cardinality(Pending(c)) = truth[c]
                BY <2>2 DEF AloneInv
            <4>2. Cardinality(Pending(c)) = 0 /\ stats[c] \in Nat
                BY <2>0, <3>1, <3>2
            <4> QED
                BY <4>1, <4>2
        <3>4. stats = truth
            BY <2>0, <3>3
        <3>5. truth["total_requests"] + truth["total_errors"] + 0 = handled
            BY <3>1, <3>2 DEF CountInv
        <3>6. truth["total_requests"] \in Nat /\ truth["total_errors"] \in Nat
            BY <2>0 DEF Counters
        <3> QED
            BY <3>4, <3>5, <3>6
    <2> QED
        BY <2>1, <2>2 DEF StatsAccurate
<1> QED
    BY <1>1, CountInvariant, TypeCorrect, PTL DEF Spec
-----------------------------------------------------------------------------
\* The list is indexed right after its size was read, and only a Finish that erases
\* from it could make it shorter in between: of another worker, or of none.
LEMMA BoundsStep ==
    TypeOK /\ TodoInv /\ AloneInv /\ AloneInv' /\ BoundsInv /\ [Next]_vars => BoundsInv'
<1> SUFFICES ASSUME TypeOK, TodoInv, AloneInv, AloneInv', BoundsInv, [Next]_vars
             PROVE  BoundsInv'
    OBVIOUS
<1>0. /\ pc \in [Workers -> PCs] /\ reg \in [Workers -> Nat] /\ upstream_rr_index \in Nat
      /\ healthy_upstreams \in Seq(Range(upstream_servers))
      /\ upstream_servers \in Seq(Range(upstream_servers))
    BY TypeSplit, ResponseAssumption DEF Values
<1> DEFINE Safe == ~overlapped \/ ~config.enable_upstream_failover
           Sure == ~undefined /\ \A w \in Workers :
                     /\ pc[w] \in {"size", "index", "at"} => healthy_upstreams # << >>
                     /\ pc[w] = "at" => reg[w] < Len(healthy_upstreams)
           Whole == ~config.enable_upstream_failover => healthy_upstreams = upstream_servers
<1>00. (Safe => Sure) /\ Whole
    BY DEF BoundsInv
<1>01. (Safe' => Sure') /\ Whole' => BoundsInv'
    BY DEF BoundsInv
<1>1. Safe' => Safe
    BY Zenon DEF Next, Worker, Reject, Accept, Begin, CheckStratum, RaiseStratum,
       SelectUpstream, TestSize, ChooseIndex, ReadUpstream, SendResponse, FailToSend,
       LoadCounter, StoreCounter, Finish, settled, vars
<1>2. ASSUME NEW w \in Workers, NEW to, Goto(w, to), to \notin {"size", "index", "at"},
             UNCHANGED <<config, healthy_upstreams, undefined>>,
             \A v \in Workers \ {w} : reg'[v] = reg[v]
      PROVE  BoundsInv'
    <2>1. Sure => Sure'
        BY <1>0, <1>2 DEF Goto
    <2> QED
        BY <1>00, <1>01, <1>1, <1>2, <2>1
<1>3. ASSUME NEW w \in Workers, Reject(w) \/ Accept(w)
      PROVE  BoundsInv'
    BY <1>2, <1>3 DEF Reject, Accept, Count, upstreamVars
<1>4. ASSUME NEW w \in Workers, CheckStratum(w) \/ RaiseStratum(w)
      PROVE  BoundsInv'
    BY <1>0, <1>2, <1>4 DEF CheckStratum, RaiseStratum, settled, upstreamVars
<1>5. ASSUME NEW w \in Workers, SelectUpstream(w)
      PROVE  BoundsInv'
    <2>1. Whole'
        BY <1>00, <1>5 DEF SelectUpstream, settled
    <2>2. Sure => Sure'
        <3>1. healthy_upstreams # << >> => healthy_upstreams' = healthy_upstreams
            BY <1>5 DEF SelectUpstream
        <3>2. pc'[w] = "size" => healthy_upstreams' # << >>
            BY <1>0, <1>5 DEF SelectUpstream, Goto
        <3>3. pc'[w] \in {"send", "size"} /\ \A v \in Workers \ {w} : pc'[v] = pc[v]
            BY <1>0, <1>5 DEF SelectUpstream, Goto
        <3>4. UNCHANGED <<undefined, reg>>
            BY <1>5 DEF SelectUpstream
        <3> QED
            BY <3>1, <3>2, <3>3, <3>4
    <2> QED
        BY <1>00, <1>01, <1>1, <2>1, <2>2
<1>6. ASSUME NEW w \in Workers, TestSize(w)
      PROVE  BoundsInv'
    <2>1. Sure => Sure'
        BY <1>0, <1>6 DEF TestSize, Goto, upstreamVars
    <2> QED
        BY <1>00, <1>01, <1>1, <1>6, <2>1 DEF TestSize, settled, upstreamVars
<1>7. ASSUME NEW w \in Workers, ChooseIndex(w)
      PROVE  BoundsInv'
    <2>1. Sure => Sure'
        <3> SUFFICES ASSUME Sure
                     PROVE  Sure'
            OBVIOUS
        <3>1. Len(healthy_upstreams) \in Nat \ {0}
            BY <1>0, <1>7 DEF ChooseIndex
        <3>2. RoundRobin(Len(healthy_upstreams)) < Len(healthy_upstreams)
            BY <1>0, <3>1 DEF RoundRobin
        <3>3. Goto(w, "at") /\ pc[w] = "index" /\ UNCHANGED <<undefined, healthy_upstreams>>
            BY <1>7, <3>1 DEF ChooseIndex
        <3>4. \E r : reg' = [reg EXCEPT ![w] = r] /\ r < Len(healthy_upstreams)
            BY <1>7, <3>1, <3>2 DEF ChooseIndex
        <3> QED
            BY <1>0, <3>3, <3>4 DEF Goto
    <2> QED
        BY <1>00, <1>01, <1>1, <1>7, <2>1 DEF ChooseIndex, settled
<1>8. ASSUME NEW w \in Workers, ReadUpstream(w)
      PROVE  BoundsInv'
    <2>1. Sure => Sure'
        BY <1>0, <1>8 DEF ReadUpstream, Goto
    <2> QED
        BY <1>00, <1>01, <1>1, <1>8, <2>1 DEF ReadUpstream, settled
<1>9. ASSUME NEW w \in Workers, SendResponse(w) \/ FailToSend(w)
      PROVE  BoundsInv'
    BY <1>0, <1>2, <1>9 DEF SendResponse, FailToSend, Count, settled, upstreamVars
<1>10. ASSUME NEW w \in Workers, LoadCounter(w) \/ StoreCounter(w)
       PROVE  BoundsInv'
    BY <1>0, <1>2, <1>10 DEF LoadCounter, StoreCounter, settled, upstreamVars
<1>11. ASSUME NEW w \in Workers, Finish(w)
       PROVE  BoundsInv'
    <2>1. CASE config.enable_upstream_failover /\ ~overlapped
        <3>1. \A v \in Workers : pc'[v] = "idle" \/ pc'[v] = "count"
            BY <1>0, <1>11, <2>1 DEF Finish, Goto, AloneInv
        <3> QED
            BY <1>00, <1>01, <1>11, <2>1, <3>1 DEF Finish, settled
    <2>2. CASE ~config.enable_upstream_failover
        BY <1>0, <1>2, <1>11, <2>2 DEF Finish, settled
    <2>3. CASE config.enable_upstream_failover /\ overlapped
        BY <1>01, <1>11, <2>3 DEF Finish, settled
    <2> QED
        BY <2>1, <2>2, <2>3
<1>12. CASE UNCHANGED vars
    BY <1>12 DEF vars, BoundsInv
<1> QED
    BY <1>3, <1>4, <1>5, <1>6, <1>7, <1>8, <1>9, <1>10, <1>11, <1>12 DEF Next, Worker

\* The list of healthy servers is indexed within its bounds by workers that take turns,
\* whatever failed sends erased, and by racing workers when failover erases nothing.
THEOREM IndexInBounds == Spec => []SelectInBounds
<1>1. Init => BoundsInv
    BY DEF Init, BoundsInv
<1>2. BoundsInv => SelectInBounds
    BY Zenon DEF BoundsInv, SelectInBounds
<1> QED
    BY <1>1, <1>2, BoundsStep, CountInvariant, TypeCorrect, PTL DEF Spec
-----------------------------------------------------------------------------
\* The workers past the test of the maximum, when a worker goes there or elsewhere.
LEMMA Raisers ==
    ASSUME NEW w \in Workers, NEW to, pc \in [Workers -> PCs],
           pc' = [pc EXCEPT ![w] = to], pc[w] # "raise"
    PROVE  Raising' = IF to = "raise" THEN Raising \cup {w} ELSE Raising
BY DEF Raising

\* A worker that passes the test finds a stratum below the maximum, and there are at
\* most as many such workers as there are workers; each adds at most one.
LEMMA StratumStep ==
    TypeOK /\ AloneInv /\ AloneInv' /\ StratumInv /\ [Next]_vars => StratumInv'
<1> SUFFICES ASSUME TypeOK, AloneInv, AloneInv', StratumInv, [Next]_vars
             PROVE  StratumInv'
    OBVIOUS
<1> DEFINE bound == MAX_STRATUM - 1 + Cardinality(Workers)
<1>0. /\ pc \in [Workers -> PCs] /\ reg \in [Workers -> Nat] /\ stratum \in Nat
      /\ response_stratum \in [Workers -> Nat]
    BY TypeSplit DEF Values
<1>00. /\ Raising \in SUBSET Workers /\ Raising' \in SUBSET Workers
       /\ Cardinality(Raising) \in Nat /\ Cardinality(Raising') \in Nat
       /\ Cardinality(Raising') <= Cardinality(Workers)
       /\ Cardinality(Workers) \in Nat \ {0} /\ bound \in Nat
    <2>1. Raising \in SUBSET Workers /\ Raising' \in SUBSET Workers
        BY DEF Raising
    <2> QED
        BY <2>1, Sizes DEF MAX_STRATUM
<1>01. ~overlapped' => ~overlapped
    BY Zenon DEF Next, Worker, Reject, Accept, Begin, CheckStratum, RaiseStratum,
       SelectUpstream, TestSize, ChooseIndex, ReadUpstream, SendResponse, FailToSend,
       LoadCounter, StoreCounter, Finish, settled, vars
<1>02. /\ \A w \in Raising : reg[w] < MAX_STRATUM
       /\ stratum + Cardinality(Raising) <= bound
       /\ \A w \in Workers : response_stratum[w] <= bound
       /\ ~overlapped => /\ stratum <= MAX_STRATUM
                         /\ Raising # {} => stratum < MAX_STRATUM
                         /\ \A w \in Workers : response_stratum[w] <= MAX_STRATUM
    BY DEF StratumInv
<1>1. ASSUME NEW w \in Workers, NEW to, Goto(w, to), to # "raise", pc[w] # "raise",
             UNCHANGED <<stratum, response_stratum>>,
             \A v \in Workers \ {w} : reg'[v] = reg[v]
      PROVE  StratumInv'
    <2>1. Raising' = Raising /\ w \notin Raising
        BY <1>0, <1>1, Raisers DEF Goto, Raising
    <2>2. \A v \in Raising : reg'[v] = reg[v]
        BY <1>00, <1>1, <2>1
    <2> QED
        BY <1>01, <1>02, <1>1, <2>1, <2>2 DEF StratumInv
<1>2. ASSUME NEW w \in Workers, Accept(w)
      PROVE  StratumInv'
    <2>1. /\ Goto(w, "adjust") /\ pc[w] = "idle" /\ UNCHANGED <<stratum, reg>>
          /\ response_stratum' = [response_stratum EXCEPT ![w] = stratum]
        BY <1>2 DEF Accept, Begin
    <2>2. Raising' = Raising
        <3>1. pc' = [pc EXCEPT ![w] = "adjust"] /\ pc[w] # "raise"
            BY <2>1 DEF Goto
        <3> QED
            BY <1>0, <3>1 DEF Raising
    <2>3. \A v \in Workers : response_stratum'[v] \in {response_stratum[v], stratum}
        BY <1>0, <2>1
    <2>4. stratum <= bound
        BY <1>0, <1>00, <1>02
    <2> HIDE DEF bound
    <2>5. \A v \in Workers : response_stratum'[v] <= bound
        BY <1>02, <2>3, <2>4
    <2>6. ~overlapped' => \A v \in Workers : response_stratum'[v] <= MAX_STRATUM
        BY <1>01, <1>02, <2>3
    <2> QED
        BY <1>01, <1>02, <2>1, <2>2, <2>5, <2>6 DEF StratumInv, bound
<1>3. ASSUME NEW w \in Workers, CheckStratum(w)
      PROVE  StratumInv'
    <2>1. CASE MayRaiseStratum
        <3>1. /\ Goto(w, "raise") /\ pc[w] = "adjust" /\ stratum < MAX_STRATUM
              /\ reg' = [reg EXCEPT ![w] = stratum]
              /\ UNCHANGED <<stratum, response_stratum>>
            BY <1>3, <2>1 DEF CheckStratum, MayRaiseStratum
        <3>2. Raising' = Raising \cup {w}
            BY <1>0, <3>1, Raisers DEF Goto
        <3>3. \A v \in Raising' : reg'[v] < MAX_STRATUM
            BY <1>0, <1>00, <1>02, <3>1, <3>2
        <3>4. stratum' + Cardinality(Raising') <= bound
            BY <1>0, <1>00, <3>1 DEF MAX_STRATUM
        <3> QED
            BY <1>01, <1>02, <3>1, <3>3, <3>4 DEF StratumInv
    <2>2. CASE ~MayRaiseStratum
        BY <1>0, <1>1, <1>3, <2>2 DEF CheckStratum
    <2> QED
        BY <2>1, <2>2
<1>4. ASSUME NEW w \in Workers, RaiseStratum(w)
      PROVE  StratumInv'
    <2>1. PICK old \in {reg[w], stratum} : stratum' = old + 1
        BY <1>4 DEF RaiseStratum
    <2>2. /\ Goto(w, "select") /\ pc[w] = "raise"
          /\ UNCHANGED <<reg, response_stratum, overlapped>>
        BY <1>4 DEF RaiseStratum, settled
    <2>3. Raising' = Raising \ {w} /\ Cardinality(Raising') = Cardinality(Raising) - 1
        <3>1. pc[w] = "raise" /\ pc' = [pc EXCEPT ![w] = "select"]
            BY <2>2 DEF Goto
        <3>2. w \in Raising /\ Raising' = Raising \ {w}
            BY <1>0, <3>1 DEF Raising
        <3> QED
            BY <1>00, <3>2, Sizes
    <2>4. w \in Raising /\ reg[w] \in Nat /\ reg[w] < MAX_STRATUM
        BY <1>0, <1>02, <2>2 DEF Raising
    <2>5. Cardinality(Raising) <= Cardinality(Workers)
        BY <1>00, Sizes
    <2>6. stratum' + Cardinality(Raising') <= bound
        <3>1. CASE old = reg[w]
            BY <1>00, <2>1, <2>3, <2>4, <2>5, <3>1 DEF MAX_STRATUM
        <3>2. CASE old = stratum
            BY <1>0, <1>00, <1>02, <2>1, <2>3, <3>2
        <3> QED
            BY <3>1, <3>2
    <2>7. ASSUME ~overlapped'
          PROVE  stratum' <= MAX_STRATUM /\ Raising' = {}
        <3>1. stratum < MAX_STRATUM
            BY <1>02, <2>2, <2>4, <2>7
        <3>2. Raising' = {}
            BY <2>2, <2>3, <2>7 DEF AloneInv, Raising
        <3> QED
            BY <1>0, <2>1, <2>4, <3>1, <3>2 DEF MAX_STRATUM
    <2> HIDE DEF bound
    <2> QED
        BY <1>01, <1>02, <2>2, <2>3, <2>6, <2>7 DEF StratumInv, bound
<1>5. ASSUME NEW w \in Workers, Reject(w)
      PROVE  StratumInv'
    BY <1>1, <1>5 DEF Reject, Begin, Count
<1>6. ASSUME NEW w \in Workers, SelectUpstream(w) \/ TestSize(w)
      PROVE  StratumInv'
    BY <1>0, <1>1, <1>6 DEF SelectUpstream, TestSize
<1>7. ASSUME NEW w \in Workers, ChooseIndex(w) \/ ReadUpstream(w)
      PROVE  StratumInv'
    BY <1>0, <1>1, <1>7 DEF ChooseIndex, ReadUpstream
<1>8. ASSUME NEW w \in Workers, SendResponse(w) \/ FailToSend(w)
      PROVE  StratumInv'
    BY <1>1, <1>8 DEF SendResponse, FailToSend, Count
<1>9. ASSUME NEW w \in Workers, LoadCounter(w) \/ StoreCounter(w) \/ Finish(w)
      PROVE  StratumInv'
    BY <1>0, <1>1, <1>9 DEF LoadCounter, StoreCounter, Finish
<1>10. CASE UNCHANGED vars
    BY <1>10 DEF vars, StratumInv, Raising
<1> QED
    BY <1>2, <1>3, <1>4, <1>5, <1>6, <1>7, <1>8, <1>9, <1>10 DEF Next, Worker

\* The stratum stays at most 15 while workers take turns, and n racing workers push it
\* at most n - 1 past it, for every n.
THEOREM StratumBounded == Spec => []StratumOvershoot
<1>1. Init => StratumInv
    <2> SUFFICES ASSUME Init
                 PROVE  StratumInv
        OBVIOUS
    <2>1. Raising = {} /\ Cardinality({}) = 0
        BY FS_EmptySet DEF Init, Raising
    <2>2. InitialStratum \in Nat /\ InitialStratum <= MAX_STRATUM
        BY ResponseAssumption DEF MAX_STRATUM
    <2>3. Cardinality(Workers) \in Nat \ {0}
        <3>1. {} \in SUBSET Workers
            OBVIOUS
        <3> QED
            BY <3>1, Sizes
    <2> QED
        BY <2>1, <2>2, <2>3 DEF Init, StratumInv, MAX_STRATUM
<1>2. TypeOK /\ StratumInv => StratumOvershoot
    <2> SUFFICES ASSUME TypeOK, StratumInv
                 PROVE  StratumOvershoot
        OBVIOUS
    <2>0. stratum \in Nat /\ response_stratum \in [Workers -> Nat]
        BY TypeSplit DEF Values
    <2>1. Raising \in SUBSET Workers
        BY DEF Raising
    <2>2. Cardinality(Raising) \in Nat /\ Cardinality(Workers) \in Nat \ {0}
        BY <2>1, Sizes
    <2>3. \A n \in {stratum} \cup {response_stratum[w] : w \in Workers} :
            n \in Nat /\ n <= MAX_STRATUM - 1 + Cardinality(Workers)
              /\ (~overlapped => n <= MAX_STRATUM)
        BY <2>0, <2>2 DEF StratumInv, MAX_STRATUM
    <2>4. ASSUME NEW n \in {stratum} \cup {response_stratum[w] : w \in Workers}
          PROVE  n < MAX_STRATUM + (IF overlapped THEN Cardinality(Workers) ELSE 1)
        <3>1. /\ n \in Nat /\ n <= MAX_STRATUM - 1 + Cardinality(Workers)
              /\ ~overlapped => n <= MAX_STRATUM
            BY <2>3
        <3> QED
            BY <2>2, <3>1 DEF MAX_STRATUM
    <2> QED
        BY <2>4 DEF StratumOvershoot
<1> QED
    BY <1>1, <1>2, StratumStep, CountInvariant, TypeCorrect, PTL DEF Spec
=============================================================================
