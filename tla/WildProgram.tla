----------------------------- MODULE WildProgram -----------------------------
(***************************************************************************)
(* Small straight-line programs whose memory orders are partly wildcards,  *)
(* and the executions the memory model allows them under an assignment of  *)
(* orders.                                                                 *)
(*                                                                         *)
(* This is a reference: no definition here is taken from the code.         *)
(***************************************************************************)
EXTENDS Inference, C11

\* The operations of a program are numbered: first the initial stores of
\* main, then the threads one after the other.  An operation has its thread,
\* kind and location, its wildcard or NONE, and without a wildcard its order,
\* NORMAL for plain data.
Operation(t, k, l, w, o) == [tid |-> t, kind |-> k, ord |-> o, loc |-> l, wild |-> w]
InitialStore(l) == Operation(0, "UNINIT", l, NONE, "rlx")

Reads(p)     == {i \in DOMAIN p : is_read(p[i])}
Inits(p)     == {i \in DOMAIN p : p[i].tid = 0}
Threads(p)   == {p[i].tid : i \in DOMAIN p} \ {0}
Wildcards(p) == {p[i].wild : i \in DOMAIN p} \ {NONE}

SequencedBefore(p, i, j) == i < j /\ p[i].tid \in {0, p[j].tid}

\* All orders of the operations that keep those of the threads.
Interleavings(p) ==
    LET next(s) == {i \in DOMAIN p \ ToSet(s) :
                       \A j \in DOMAIN p \ ToSet(s) : ~SequencedBefore(p, j, i)}
        body == Cardinality(DOMAIN p \ Inits(p))
        longer(ss) == UNION {{Append(s, i) : i \in next(s)} : s \in ss}
    IN  FoldLeft(LAMBDA ss, n : longer(ss), {Indices(Cardinality(Inits(p)))}, Indices(body))

\* The operations as they run with an assignment.
OrderUnder(a, orders) ==
    CASE a.wild # NONE -> LET o == OrderOf(orders, a.wild) IN IF o = NOTSET THEN "rlx" ELSE o
      [] a.wild = NONE -> IF a.ord = NORMAL THEN "rlx" ELSE a.ord

ReadsFroms(p) ==
    {rf \in [Reads(p) -> DOMAIN p] :
        \A r \in Reads(p) : rf[r] # r /\ is_write(p[rf[r]]) /\ p[rf[r]].loc = p[r].loc}

\* The transitive closure, as what comes before each.
Closure(n, edges) ==
    LET step(past) == [j \in 1..n |-> past[j] \cup UNION {past[i] : i \in past[j]}]
        direct == [j \in 1..n |-> {i \in 1..n : <<i, j>> \in edges}]
    IN  CHOOSE c \in {step(b) : b \in {step(a) : a \in {step(direct)}}} : TRUE

\* Executions with the seq_cst operations in the order of the interleaving s,
\* in terms of the operations of the program: rf, what happens before each,
\* the modification order as far as it is the only one possible, and the
\* seq_cst loads that precede a seq_cst store to their location.
ExecutionsIn(p, orders, s) ==
    LET at == [i \in DOMAIN p |-> CHOOSE k \in DOMAIN s : s[k] = i]
        trace(rf) == [k \in DOMAIN s |->
            Action(p[s[k]].tid, p[s[k]].kind, OrderUnder(p[s[k]], orders), p[s[k]].loc,
                   IF is_read(p[s[k]]) THEN at[rf[s[k]]] ELSE NONE)]
        hb(tr, mo) == Closure(Len(tr), {e \in (DOMAIN tr) \X (DOMAIN tr) :
                                           SB(tr, e[1], e[2]) \/ SynchronizesWith(tr, mo, e[1], e[2])})
        allowed(tr, w) ==
            /\ \A j \in DOMAIN tr : \A i \in w.hb[j] :
                  /\ i # j
                  /\ is_seqcst(tr[i]) /\ is_seqcst(tr[j]) => i < j
                  /\ is_read(tr[i]) => tr[i].rf # j
            /\ Coherent(tr, w.mo, w.hb)
            /\ SeqCst(tr, w.mo, w.hb)
        witnesses(tr) ==
            {w \in {[mo |-> m, hb |-> hb(tr, m)] : m \in {m \in ModificationOrders(tr) : Atomic(tr, m)}} :
                allowed(tr, w)}
        writes == {e \in (DOMAIN p) \X (DOMAIN p) : e[1] # e[2] /\ is_write(p[e[1]]) /\ is_write(p[e[2]])}
        early(tr) == {e \in (DOMAIN p) \X (DOMAIN p) :
                         /\ is_read(p[e[1]]) /\ is_write(p[e[2]]) /\ p[e[1]].loc = p[e[2]].loc
                         /\ is_seqcst(tr[at[e[1]]]) /\ is_seqcst(tr[at[e[2]]]) /\ at[e[1]] < at[e[2]]}
        of(rf, tr, ws) ==
            {[rf |-> rf, early |-> early(tr),
              mo |-> {e \in writes : \A v \in ws : MO(tr, v.mo, at[e[1]], at[e[2]])},
              hb |-> [i \in DOMAIN p |-> {s[k] : k \in w.hb[at[i]]}]] : w \in ws}
    IN  UNION {UNION {of(rf, tr, ws) : ws \in {witnesses(tr)}} :
                  <<rf, tr>> \in {<<f, trace(f)>> : f \in ReadsFroms(p)}}

\* One interleaving for every order of the seq_cst operations.
ExecutionsOf(p, orders) ==
    LET sc(s) == SelectSeq(s, LAMBDA i : OrderUnder(p[i], orders) = "sc")
        all == Interleavings(p)
        some == {CHOOSE s \in all : sc(s) = q : q \in {sc(s) : s \in all}}
    IN  UNION {ExecutionsIn(p, orders, s) : s \in some}

-----------------------------------------------------------------------------
\* The loads that do not read the last store before them in the order s.
BadReads(p, rf, s) ==
    {r \in Reads(p) :
        LET at(i) == CHOOSE k \in DOMAIN s : s[k] = i
            earlier == {k \in 1..at(r)-1 : is_write(p[s[k]]) /\ p[s[k]].loc = p[r].loc}
        IN  s[Max(earlier)] # rf[r]}

\* Operations on plain data at one location that nothing orders.
Races(p, x) ==
    {e \in (DOMAIN p) \X (DOMAIN p) :
        /\ e[1] < e[2] /\ p[e[1]].ord = NORMAL /\ p[e[2]].ord = NORMAL /\ p[e[1]].loc = p[e[2]].loc
        /\ e[1] \notin x.hb[e[2]] /\ e[2] \notin x.hb[e[1]]}
=============================================================================
