---------------------------- MODULE InferenceSet ----------------------------
(***************************************************************************)
(* The bookkeeping of SCFence's search (scfence/inferset.cc).  An          *)
(* assignment that is kept is a record of infers, known by its number:     *)
(*                                                                         *)
(*   orders     the memory order of every wildcard                         *)
(*   initial    the assignment the search for it started from              *)
(*   leaf       nothing stronger was derived from it                       *)
(*   explored   it was committed                                           *)
(*   shouldFix  it is to be strengthened if it is not good enough          *)
(*   buggy      an execution had bug reports                               *)
(*                                                                         *)
(* S is an InferenceSet: [infers, candidates, discoveredSet, results],     *)
(* where candidates is a stack.                                            *)
(***************************************************************************)
EXTENDS Fixes

Inference(orders, initial, fix) ==
    [orders |-> orders, initial |-> initial, leaf |-> FALSE, explored |-> FALSE,
     shouldFix |-> fix, buggy |-> FALSE]

EmptySet == [infers |-> <<>>, candidates |-> <<>>, discoveredSet |-> {}, results |-> {}]

\* How the discovered assignment d compares to orders.
Against(S, d, orders) == compareTo(S.infers[d].orders, orders)

hasBeenDiscovered_Weaker(S, orders) == \E d \in S.discoveredSet : Against(S, d, orders) \in {0, -1}
hasBeenDiscovered_Explored(S, orders) ==
    \E d \in S.discoveredSet : Against(S, d, orders) = -1 /\ S.infers[d].leaf /\ S.infers[d].explored

hasBeenDiscovered(S, orders) ==
    \E d \in S.discoveredSet :
        \/ Against(S, d, orders) = 0
        \/ Against(S, d, orders) = -1 /\ S.infers[d].leaf /\ S.infers[d].explored

hasBeenExplored(S, orders) ==
    \E d \in S.discoveredSet : S.infers[d].explored /\ Against(S, d, orders) \in {0, -1}

addInference(S, infer) ==
    IF hasBeenDiscovered(S, infer.orders) THEN S
    ELSE LET n == Len(S.infers) + 1
         IN  [S EXCEPT !.infers = Append(@, [infer EXCEPT !.leaf = TRUE]),
                       !.candidates = Append(@, n),
                       !.discoveredSet = @ \cup {n}]

addCurInference(S, i) ==
    [S EXCEPT !.infers[i].leaf = FALSE, !.candidates = Append(@, i)]

\* list has been derived from the assignment i.
addCandidates(S, i, list) ==
    LET new == pruneCandidates(list, S.infers[i].orders)
    IN  FoldLeft(LAMBDA T, orders : addInference(T, Inference(orders, S.infers[i].initial, TRUE)),
                 addCurInference(S, i), new)

Added(S, T) == Len(T.infers) > Len(S.infers)

addResult(S, i) ==
    [S EXCEPT !.results = {r \in @ : Against(S, r, S.infers[i].orders) \notin {0, 1}} \cup {i}]

commitInference_Always(S, i, feasible) == addResult([S EXCEPT !.infers[i].explored = TRUE], i)

commitInference(S, i, feasible) ==
    LET T == [S EXCEPT !.infers[i].explored = TRUE]
    IN  IF feasible THEN addResult(T, i) ELSE T

\* The wildcards that are stronger in the assignment i than initially.
strengthenedIn(S, i) ==
    LET infer == S.infers[i]
    IN  SelectSeq(Indices(Len(infer.orders)),
                  LAMBDA w : compareMemoryOrder(infer.orders[w],
                                 OrderOf(S.infers[infer.initial].orders, w)) # 0)

weakerOrders_Both(mo, least) == IF mo = "acq_rel" THEN <<"acq", "rel">> ELSE <<nextWeakOrder(mo, least)>>

\* What wildcard w may become, one step weaker; mo is its order, and least
\* the initial one.  A step to least changes nothing, except from acq_rel.
weakerOrders(mo, least) ==
    LET next == nextWeakOrder(mo, least)
    IN  CASE mo = "acq_rel" -> IF least \in {"acq", "rel"} THEN <<least>> ELSE <<"acq", "rel">>
          [] mo # "acq_rel" -> IF least # next THEN <<next>> ELSE <<mo>>

addWeakerInference(S, i) ==
    LET infer == S.infers[i]
        weaker(w) == weakerOrders(infer.orders[w], OrderOf(S.infers[infer.initial].orders, w))
        ws == strengthenedIn(S, i)
        all == FlattenSeq([k \in DOMAIN ws |->
                   LET os == weaker(ws[k])
                   IN  [n \in DOMAIN os |-> [infer.orders EXCEPT ![ws[k]] = os[n]]]])
        \* the other half of a step is tried even if the first was known
        try(T, orders) ==
            IF \E d \in T.discoveredSet : Against(T, d, orders) = 0 /\ ~T.infers[d].leaf THEN T
            ELSE addInference(T, Inference(orders, infer.initial, FALSE))
    IN  FoldLeft(try, S, all)

getNextInference_Keeps(S) ==
    [set |-> S, next |-> IF S.candidates = <<>> THEN NONE ELSE Last(S.candidates)]

\* Pops assignments until one is left to be checked; next is NONE without.
getNextInference(S) ==
    LET step(st, i) ==
            IF st.next # NONE THEN st
            ELSE LET T == [st.set EXCEPT !.candidates = Front(@)]
                     infer == T.infers[i]
                 IN  IF ~infer.leaf THEN [st EXCEPT !.set = commitInference(T, i, FALSE)]
                     ELSE IF infer.shouldFix /\ hasBeenExplored(T, infer.orders) THEN [st EXCEPT !.set = T]
                     ELSE [set |-> T, next |-> i]
    IN  FoldLeft(step, [set |-> S, next |-> NONE], Reverse(S.candidates))
=============================================================================
