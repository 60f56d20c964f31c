-------------------------------- MODULE C11 --------------------------------
(***************************************************************************)
(* The C++11 memory model (1.10, 29.3 and 29.8) without consume, for a     *)
(* complete trace of atomic operations: which modification orders make     *)
(* the trace consistent.  The order of the trace is the total order S of   *)
(* the seq_cst operations, and every load reads an earlier store.          *)
(*                                                                         *)
(* This is the reference the execution engine is judged by; no definition  *)
(* here is taken from the engine's code.                                   *)
(***************************************************************************)
EXTENDS ModelAction

\* Sequenced before; the initial values precede everything.
SB(tr, i, j) == i < j /\ (tr[i].kind = "UNINIT" \/ tr[i].tid = tr[j].tid)

Locations(tr) == {tr[i].loc : i \in DOMAIN tr} \ {NONE}

\* Modification orders, as the rank of each write: in every location the
\* initial value first, and the writes of a thread in program order.
ModificationOrders(tr) ==
    LET inits == {i \in DOMAIN tr : tr[i].kind = "UNINIT"}
        later(l) == Writes(tr, l) \ inits
        orders(l) == {s \in SetToSeqs(later(l)) :
                         \A p, q \in DOMAIN s : p < q => ~SB(tr, s[q], s[p])}
        locs == Locations(tr)
        all == FoldSet(LAMBDA l, ms : {m @@ (l :> s) : m \in ms, s \in orders(l)}, {<<>>}, locs)
        rank(m) == [i \in {w \in DOMAIN tr : is_write(tr[w])} |->
                       IF i \in inits THEN 0
                       ELSE CHOOSE p \in DOMAIN m[tr[i].loc] : m[tr[i].loc][p] = i]
    IN  {rank(m) : m \in all}

MO(tr, mo, a, b) == tr[a].loc = tr[b].loc /\ mo[a] < mo[b]

\* w belongs to the release sequence headed by the write h.
InReleaseSequence(tr, mo, h, w) ==
    \/ h = w
    \/ /\ MO(tr, mo, h, w)
       /\ \A v \in Writes(tr, tr[h].loc) :
             MO(tr, mo, h, v) /\ ~MO(tr, mo, w, v) => tr[v].tid = tr[h].tid \/ is_rmw(tr[v])

\* The writes whose release sequence carries release i: itself, or what a
\* release fence is followed by.
Carriers(tr, i) ==
    IF ~is_release(tr[i]) THEN {}
    ELSE IF is_fence(tr[i]) THEN {x \in DOMAIN tr : is_write(tr[x]) /\ SB(tr, i, x)}
    ELSE IF is_write(tr[i]) THEN {i} ELSE {}

\* The loads through which acquire j synchronizes.
Observers(tr, j) ==
    IF ~is_acquire(tr[j]) THEN {}
    ELSE IF is_fence(tr[j]) THEN {r \in DOMAIN tr : is_read(tr[r]) /\ SB(tr, r, j)}
    ELSE IF is_read(tr[j]) THEN {j} ELSE {}

SynchronizesWith(tr, mo, i, j) ==
    \E x \in Carriers(tr, i), r \in Observers(tr, j) :
        InReleaseSequence(tr, mo, x, tr[r].rf)

\* HappensBefore(tr, mo)[j] is the set of actions that happen before j.
HappensBefore(tr, mo) ==
    LET direct(j) == {i \in 1..j-1 : SB(tr, i, j) \/ SynchronizesWith(tr, mo, i, j)}
    IN  FoldLeft(LAMBDA past, j : Append(past, direct(j) \cup UNION {past[i] : i \in direct(j)}),
                 <<>>, [j \in DOMAIN tr |-> j])

\* 1.10: the four coherence requirements in one.
Coherent(tr, mo, hb) ==
    \A j \in DOMAIN tr : \A i \in hb[j] :
        tr[i].loc = tr[j].loc /\ tr[j].loc # NONE =>
            LET a == StoreOf(tr, i)
                b == StoreOf(tr, j)
            IN  a = b \/ MO(tr, mo, a, b)

\* 29.3: an RMW reads the last value before its own.
Atomic(tr, mo) ==
    \A r \in DOMAIN tr : is_rmw(tr[r]) => mo[r] = mo[tr[r].rf] + 1

SCFenceBetween(tr, i, j) == \E f \in i+1..j-1 : is_fence(tr[f]) /\ is_seqcst(tr[f])

\* The order S puts the write a before b, or before what b reads: statement 1
\* for two writes, and 29.3 statements 4 to 7.
SeqCstOrdered(tr, a, b) ==
    LET fence(f) == is_fence(tr[f]) /\ is_seqcst(tr[f])
        after == {f \in DOMAIN tr : fence(f) /\ SB(tr, a, f)}
        before == {f \in DOMAIN tr : fence(f) /\ SB(tr, f, b)}
    IN  \/ is_write(tr[b]) /\ is_seqcst(tr[a]) /\ is_seqcst(tr[b]) /\ a < b
        \/ is_read(tr[b]) /\ is_seqcst(tr[a]) /\ \E f \in before : a < f
        \/ is_read(tr[b]) /\ is_seqcst(tr[b]) /\ \E f \in after : f < b
        \/ \E f \in after, g \in before : f < g

SeqCst(tr, mo, hb) ==
    /\ \A b \in DOMAIN tr : tr[b].loc # NONE => \A a \in Writes(tr, tr[b].loc) \ {b} :
          SeqCstOrdered(tr, a, b) => StoreOf(tr, b) = a \/ MO(tr, mo, a, StoreOf(tr, b))
    \* statement 3: a seq_cst load reads the last seq_cst store, or a store
    \* that is not seq_cst and does not happen before it
    /\ \A b \in DOMAIN tr : is_read(tr[b]) /\ is_seqcst(tr[b]) =>
          LET earlier == {a \in Writes(tr, tr[b].loc) : a < b /\ is_seqcst(tr[a])}
              rf == tr[b].rf
          IN  \/ earlier = {} /\ ~is_seqcst(tr[rf])
              \/ earlier # {} /\ LET last == Max(earlier)
                                 IN  rf = last \/ (~is_seqcst(tr[rf]) /\ rf \notin hb[last])

\* The modification order explains the trace; hb is what happens before what by it.
Explains(tr, mo, hb) == Atomic(tr, mo) /\ Coherent(tr, mo, hb) /\ SeqCst(tr, mo, hb)

Witnesses(tr) == {mo \in ModificationOrders(tr) : Explains(tr, mo, HappensBefore(tr, mo))}

Consistent(tr) == \E mo \in ModificationOrders(tr) : Explains(tr, mo, HappensBefore(tr, mo))
=============================================================================
