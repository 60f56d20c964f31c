------------------------------- MODULE SCTrace -------------------------------
(***************************************************************************)
(* Finished executions, as the analyses of sequential consistency get      *)
(* them, and what it means for one to be sequentially consistent.  Main    *)
(* is thread 1: it stores the initial values, creates the other threads,   *)
(* which run the body, and joins them.  A load may read any store that the *)
(* memory model allows, one that comes later in the trace too (a promise   *)
(* that was kept).                                                         *)
(*                                                                         *)
(* This is a reference: no definition here is taken from the code.         *)
(***************************************************************************)
EXTENDS C11

\* A family: [threads, locs, bodies]; threads is the number of threads beside
\* main.  A load of a body whose rf is not NONE reads that position of the
\* body, and any store otherwise.
Children(f) == 2..f.threads+1
FirstOf(f)  == f.locs + 2 * f.threads + 1      \* actions before the body

\* All bodies of n of the operations ops; the first is at location 1.
Bodies(threads, locs, n, ops) ==
    {b \in [1..n -> {Action(t, o.kind, o.ord, l, NONE) : t \in 2..threads+1, o \in ops, l \in 1..locs}] :
        b[1].loc = 1}

\* What C11 judges: the body behind its initial values.
Uninit(f) == [l \in 1..f.locs |-> Action(0, "UNINIT", "rlx", l, NONE)]

ReadsOf(tr) == {i \in DOMAIN tr : is_read(tr[i])}

WithReads(tr, rf) == [i \in DOMAIN tr |-> IF is_read(tr[i]) THEN [tr[i] EXCEPT !.rf = rf[i]] ELSE tr[i]]

\* No load reads a store it happens before, or itself.
NoCycle(tr, hb) == \A r \in ReadsOf(tr) : tr[r].rf # r /\ r \notin hb[tr[r].rf]

\* The executions of a body: [tr, hb].
Executions(f, body) ==
    LET tr == Uninit(f) \o body
        sources == {i \in DOMAIN tr : is_write(tr[i])}
        fixed == \A r \in ReadsOf(tr) : tr[r].rf # NONE
        reads == IF fixed THEN {[r \in ReadsOf(tr) |-> tr[r].rf + f.locs]}
                 ELSE {rf \in [ReadsOf(tr) -> sources] :
                          \A r \in ReadsOf(tr) : /\ tr[rf[r]].loc = tr[r].loc
                                                 /\ tr[r].rf \in {NONE, rf[r] - f.locs}}
        of(rf) == LET x == WithReads(tr, rf)
                  IN  {[tr |-> x, hb |-> HappensBefore(x, mo)] : mo \in Witnesses(x)}
    IN  {x \in UNION {of(rf) : rf \in reads} : NoCycle(x.tr, x.hb)}

\* Position in the whole trace of position i of what C11 judges.
Shift(f, i) == IF i = NONE THEN NONE ELSE IF i <= f.locs THEN i + 1 ELSE FirstOf(f) + i - f.locs

\* The whole trace; the loc of CREATE, START, FINISH and JOIN is the child.
Whole(f, tr) ==
    LET event(t, k, c) == Action(t, k, "sc", c, NONE)
        start == <<event(1, "START", 1)>>
        inits == [l \in 1..f.locs |-> Action(1, "W", "rlx", l, NONE)]
        births == [i \in 1..2*f.threads |-> LET c == (i + 3) \div 2
                                            IN  IF i % 2 = 1 THEN event(1, "CREATE", c) ELSE event(c, "START", c)]
        body == [i \in 1..Len(tr)-f.locs |-> [tr[f.locs + i] EXCEPT !.rf = Shift(f, @)]]
        ends == [i \in 1..2*f.threads |-> LET c == (i + 3) \div 2
                                          IN  IF i % 2 = 1 THEN event(c, "FINISH", c) ELSE event(1, "JOIN", c)]
    IN  start \o inits \o births \o body \o ends

\* Before[j]: the actions that happen before j, and j.
Before(f, x) ==
    LET tr == Whole(f, x.tr)
        edge(i, j) == \/ tr[i].tid = tr[j].tid
                      \/ tr[i].kind = "CREATE" /\ tr[j].kind = "START" /\ tr[i].loc = tr[j].loc
                      \/ tr[i].kind = "FINISH" /\ tr[j].kind = "JOIN" /\ tr[i].loc = tr[j].loc
                      \/ \E p, q \in DOMAIN x.tr : Shift(f, p) = i /\ Shift(f, q) = j /\ p \in x.hb[q]
        direct(j) == {i \in 1..j-1 : edge(i, j)}
    IN  FoldLeft(LAMBDA past, j : Append(past, {j} \cup UNION {past[i] : i \in direct(j)}),
                 <<>>, [j \in DOMAIN tr |-> j])

-----------------------------------------------------------------------------
Acyclic(nodes, edges) ==
    LET peel(left) == {n \in left : \E e \in edges : e[2] = n /\ e[1] \in left}
    IN  FoldSet(LAMBDA n, left : peel(left), nodes, nodes) = {}

\* tr, as C11 judges it, has a sequentially consistent order: for some
\* modification order, program order, reads-from, modification order and
\* from-read together are acyclic.
SequentiallyConsistent(tr) ==
    \E mo \in ModificationOrders(tr) :
        Acyclic(DOMAIN tr,
            {e \in (DOMAIN tr) \X (DOMAIN tr) :
                \/ SB(tr, e[1], e[2])
                \/ is_read(tr[e[2]]) /\ tr[e[2]].rf = e[1]
                \/ is_write(tr[e[1]]) /\ is_write(tr[e[2]]) /\ MO(tr, mo, e[1], e[2])
                \/ /\ is_read(tr[e[1]]) /\ is_write(tr[e[2]]) /\ e[1] # e[2]
                   /\ MO(tr, mo, tr[e[1]].rf, e[2])})
=============================================================================
