-------------------------------- MODULE Exec --------------------------------
(***************************************************************************)
(* The memory model of ModelExecution: how loads, stores, read-modify-     *)
(* writes and fences of an execution get their reads-from, happens-before  *)
(* and modification-order relations, and which executions are given up as  *)
(* infeasible.  Happens-before is kept in a clock vector per action, the   *)
(* modification order as constraints in mo_graph, and a release sequence   *)
(* that cannot be settled yet waits in pending_rel_seqs; a work queue      *)
(* carries what one action reveals to the actions before it.               *)
(*                                                                         *)
(* Any thread may perform any operation of its family next: programs and   *)
(* schedules are free.  The schedule is also the total order S of the      *)
(* seq_cst operations, as in the code.  Loads read stores of the past;     *)
(* promised future values, sleep sets and blocked threads are left out.    *)
(* Values are left out too: a store is its position in the trace.          *)
(*                                                                         *)
(* Module C11 judges the outcome by the axioms of the C++ standard.        *)
(***************************************************************************)
EXTENDS C11

CONSTANT
    Families    \* families of programs: [threads, locs, acts, ops], the number of
                \* threads, of atomic objects and of operations in the whole
                \* execution, and the operations [kind, ord] threads may perform

VARIABLES
    family,     \* the family the program belongs to
    trace,      \* action_trace; it starts with the uninitialized values
    cv,         \* the ClockVector of each action of the trace
    graph,      \* mo_graph
    pending,    \* pending_rel_seqs: [acquire, read]
    work,       \* work_queue of check_current_action
    done,       \* threads that have finished
    badSC       \* priv->bad_sc_read

vars == <<family, trace, cv, graph, pending, work, done, badSC>>

ASSUME ExecAssumption == \A f \in Families :
    /\ f.threads \in Nat \ {0} /\ f.locs \in Nat \ {0} /\ f.acts \in Nat
    /\ f.ops \subseteq [kind : {"R", "W", "RMWR", "F"}, ord : Orders]

\* User threads are numbered from 1; 0 is the model thread.
Threads    == 1..family.threads
AllThreads == 0..family.threads
Locs       == 1..family.locs
Menu       == family.ops
MaxLen     == family.locs + family.acts

\* Positions in the trace; the first ones hold the uninitialized values.
Index == 1..MaxLen

-----------------------------------------------------------------------------
\* happens_before; an uninitialized value has sequence number 0.
HB(tr, c, i, j) == tr[i].kind = "UNINIT" \/ i <= c[j][tr[i].tid]

Latest(S) == IF S = {} THEN NONE ELSE Max(S)

\* obj_thrd_map: the actions of thread t at location l.
ThreadList(tr, l, t) == {i \in DOMAIN tr : tr[i].tid = t /\ tr[i].loc = l}

get_last_seq_cst_write(tr, n) ==
    Latest({i \in Writes(tr, tr[n].loc) : i < n /\ is_seqcst(tr[i])})

\* The last seq_cst fence of thread t in the trace, or before fence f if f # NONE.
get_last_seq_cst_fence(tr, t, f) ==
    Latest({i \in DOMAIN tr : /\ is_fence(tr[i]) /\ is_seqcst(tr[i]) /\ tr[i].tid = t
                              /\ f # NONE => i < f})

\* ModelAction::last_fence_release, taken when the action is created.
last_fence_release(tr, n) ==
    Latest({i \in 1..n-1 : is_fence(tr[i]) /\ is_release(tr[i]) /\ tr[i].tid = tr[n].tid})
-----------------------------------------------------------------------------
(***************************************************************************)
(* mo_graph: the operations of CycleGraph, on a set of edges.              *)
(***************************************************************************)
ReachableFrom(edges, n) ==
    LET upTo[i \in 0..MaxLen] ==
          IF i = 0 THEN {n}
          ELSE LET seen == upTo[i-1]
               IN  seen \cup {e[2] : e \in {x \in edges : x[1] \in seen}}
    IN  upTo[MaxLen]

checkReachable(g, from, to) == to \in ReachableFrom(g.edges, from)

Link(g, f, t) ==
    [g EXCEPT !.edges = @ \cup {<<f, t>>},
              !.cycle = @ \/ f \in ReachableFrom(g.edges, t)]

\* Along the RMWs that read from f, up to t or to the last one.
ChainEnd(g, f, t) ==
    LET hop[i \in Index] ==
          IF i = 1 THEN g.rmw[f]
          ELSE LET r == hop[i-1] IN IF r = t \/ g.rmw[r] = NONE THEN r ELSE g.rmw[r]
    IN  hop[MaxLen]

addEdge(g, f, t) ==
    LET last == ChainEnd(g, f, t)
    IN  IF <<f, t>> \in g.edges THEN g
        ELSE IF g.rmw[f] = NONE \/ last = t THEN Link(g, f, t)
        ELSE Link(Link(g, f, t), last, t)

addRMWEdge(g, f, r) ==
    LET taken == IF g.rmw[f] # NONE THEN [g EXCEPT !.cycle = TRUE]
                 ELSE [g EXCEPT !.rmw[f] = r]
        moved == {<<r, e[2]>> : e \in {x \in g.edges : x[1] = f /\ x[2] # r}}
    IN  addEdge([taken EXCEPT !.edges = @ \cup moved], f, r)
-----------------------------------------------------------------------------
(***************************************************************************)
(* r_modification_order and w_modification_order: in the list of each      *)
(* thread, the most recent action that settles what comes before rf or     *)
(* before the write.                                                       *)
(***************************************************************************)

\* Order StoreOf(i) before w for the action found in each thread, if any.
OrderAll(tr, g, found, w) ==
    FoldLeft(LAMBDA h, t : LET i == found[t]
                           IN  IF i = NONE \/ StoreOf(tr, i) = w THEN h
                               ELSE addEdge(h, StoreOf(tr, i), w),
             g, [k \in 1..family.threads + 1 |-> k - 1])

\* Mutant: statement 6 is left out.
FencedBefore_NoPairs(tr, n, i, t) ==
    \/ is_seqcst(tr[n]) /\ t # tr[n].tid /\ i < get_last_seq_cst_fence(tr, t, NONE)
    \/ is_seqcst(tr[i]) /\ i < get_last_seq_cst_fence(tr, tr[n].tid, NONE)

\* 29.3 statements 4, 5 and 6 for read n and the earlier write i of thread t.
\* The fences are the last ones of the trace, whenever n was executed.
FencedBefore(tr, n, i, t) ==
    LET localFence  == get_last_seq_cst_fence(tr, tr[n].tid, NONE)
        otherFence  == get_last_seq_cst_fence(tr, t, NONE)
        beforeLocal == IF localFence = NONE THEN NONE
                       ELSE get_last_seq_cst_fence(tr, t, localFence)
    IN  \/ is_seqcst(tr[n]) /\ t # tr[n].tid /\ i < otherFence
        \/ is_seqcst(tr[i]) /\ i < localFence
        \/ i < beforeLocal

\* Action i of thread t says what precedes rf, if it is the last one to do so.
Settles(tr, c, n, rf, t, i) ==
    /\ i # n
    /\ HB(tr, c, i, n) \/ (i # rf /\ is_write(tr[i]) /\ FencedBefore(tr, n, i, t))

r_modification_order(tr, c, g, n, rf) ==
    LET found == [t \in AllThreads |->
                     Latest({i \in ThreadList(tr, tr[n].loc, t) : Settles(tr, c, n, rf, t, i)})]
    IN  OrderAll(tr, g, found, rf)

LastSCStore(tr, n) == IF is_seqcst(tr[n]) THEN get_last_seq_cst_write(tr, n) ELSE NONE

w_modification_order(tr, c, g, n) ==
    LET localFence == get_last_seq_cst_fence(tr, tr[n].tid, NONE)
        lastSC == LastSCStore(tr, n)
        \* 29.3 statement 7
        fenced(t, i) == /\ is_write(tr[i]) /\ t # tr[n].tid /\ localFence # NONE
                        /\ i < get_last_seq_cst_fence(tr, t, localFence)
        \* an RMW has the edges of its own thread from its read
        own(t) == t = tr[n].tid /\ is_rmw(tr[n])
        found == [t \in AllThreads |->
                     IF own(t) THEN NONE
                     ELSE Latest({i \in ThreadList(tr, tr[n].loc, t) \ {n} :
                                     HB(tr, c, i, n) \/ fenced(t, i)})]
    IN  OrderAll(tr, IF lastSC = NONE THEN g ELSE addEdge(g, lastSC, n), found, n)
-----------------------------------------------------------------------------
(***************************************************************************)
(* Release sequences.                                                      *)
(***************************************************************************)

\* The stores read from rf back to the end of the chain of RMWs, or to an
\* acq_rel RMW, which has the earlier heads already.
RMWChain(tr, rf) ==
    LET stops(i) == ~is_rmw(tr[i]) \/ (is_acquire(tr[i]) /\ is_release(tr[i]))
        back[k \in Index] == IF k = 1 THEN rf
                             ELSE LET i == back[k-1] IN IF stops(i) THEN i ELSE tr[i].rf
    IN  {back[k] : k \in Index}

\* A write that only an RMW could be without breaking the sequence up to rf,
\* and that is not known to come after rf.
Loose(tr, c, g, rf, i) ==
    /\ is_write(tr[i]) /\ ~is_rmw(tr[i])
    /\ ~HB(tr, c, rf, i) /\ ~checkReachable(g, rf, i)

\* The actions of another thread to look at: those after the last one that is
\* known to come before the release.
After(tr, c, g, release, rf, t) ==
    LET list == ThreadList(tr, tr[rf].loc, t)
        before == Latest({i \in list : \/ HB(tr, c, i, release)
                                       \/ Loose(tr, c, g, rf, i) /\ checkReachable(g, i, release)})
    IN  {i \in list : i > before}

\* No write still to come from thread t can break the sequence.
FutureOrdered(tr, c, g, release, rf, t, finished) ==
    LET last == Latest({i \in DOMAIN tr : tr[i].tid = t})
    IN  \/ t \in finished
        \/ last # NONE /\ HB(tr, c, rf, last)
        \/ \E i \in After(tr, c, g, release, rf, t) :
              \/ HB(tr, c, rf, i)
              \/ is_write(tr[i]) /\ ~is_rmw(tr[i]) /\ checkReachable(g, rf, i)

Suspects(tr, c, g, release, rf) ==
    {i \in UNION {After(tr, c, g, release, rf, t) : t \in AllThreads \ {tr[rf].tid}} :
        Loose(tr, c, g, rf, i)}

\* Mutant: only the writes so far are looked at.
Contiguous_SoFar(tr, c, g, release, rf, finished) ==
    IF \E i \in Suspects(tr, c, g, release, rf) :
          checkReachable(g, release, i) /\ checkReachable(g, i, rf) THEN "no"
    ELSE IF Suspects(tr, c, g, release, rf) = {} THEN "yes" ELSE "uncertain"

\* Whether the writes from release to rf, of one thread, are contiguous:
\* "yes", "no" or "uncertain".
Contiguous(tr, c, g, release, rf, finished) ==
    LET suspects == Suspects(tr, c, g, release, rf)
        settled  == \A t \in AllThreads \ {tr[rf].tid} :
                        FutureOrdered(tr, c, g, release, rf, t, finished)
    IN  IF \E i \in suspects : checkReachable(g, release, i) /\ checkReachable(g, i, rf) THEN "no"
        ELSE IF suspects = {} /\ settled THEN "yes" ELSE "uncertain"

\* The action a relaxed write w continues the release sequence of, if any: the
\* last one of its thread at the location with release ordering, unless a
\* release fence is more recent.
ReleaseBefore(tr, w) ==
    LET fence == last_fence_release(tr, w)
    IN  Latest({i \in ThreadList(tr, tr[w].loc, tr[w].tid) :
                   i <= w /\ is_release(tr[i]) /\ i > fence})

\* release_seq_heads: the heads known so far, and whether that is all of them.
release_seq_heads(tr, c, g, rf, finished) ==
    LET chain == RMWChain(tr, rf)
        first == Min(chain)
        head(i) == IF is_release(tr[i]) THEN i ELSE last_fence_release(tr, i)
        heads == {head(i) : i \in chain} \ {NONE}
        release == ReleaseBefore(tr, first)
    IN  IF g.cycle THEN [heads |-> {}, complete |-> FALSE]
        ELSE IF is_release(tr[first]) \/ release = NONE
        THEN [heads |-> heads, complete |-> TRUE]
        ELSE LET answer == Contiguous(tr, c, g, release, first, finished)
             IN  [heads    |-> IF answer = "yes" THEN heads \cup {release} ELSE heads,
                  complete |-> answer # "uncertain"]

\* synchronize: action n inherits the clock vectors of the heads.
Synchronize(c, n, heads) ==
    [c EXCEPT ![n] = [t \in AllThreads |-> Max({@[t]} \cup {c[h][t] : h \in heads})]]

\* get_release_seq_heads and synchronize for s = [cv, pending, found]: acquire
\* takes what is known for the load read, and the rest stays pending.
Acquire(tr, g, s, acquire, read) ==
    LET seq == release_seq_heads(tr, s.cv, g, tr[read].rf, done)
    IN  [cv      |-> Synchronize(s.cv, acquire, seq.heads),
         pending |-> IF seq.complete THEN s.pending
                     ELSE Append(s.pending, [acquire |-> acquire, read |-> read]),
         found   |-> s.found \/ seq.heads # {}]


\* read_from for the new load n
read_from(tr, g, c, p, n) ==
    LET start == [cv |-> c, pending |-> p, found |-> FALSE]
    IN  IF is_acquire(tr[n]) THEN Acquire(tr, g, start, n, n) ELSE start
-----------------------------------------------------------------------------
Init ==
    /\ family \in Families
    /\ trace = [l \in Locs |-> Action(0, "UNINIT", "rlx", l, NONE)]
    /\ cv = [l \in Locs |-> [t \in AllThreads |-> 0]]
    /\ graph = [edges |-> {}, rmw |-> [i \in Index |-> NONE], cycle |-> FALSE]
    /\ pending = <<>>
    /\ work = <<>>
    /\ done = {0}
    /\ badSC = FALSE

Feasible == ~graph.cycle /\ ~badSC
InRMW(t) == \E i \in DOMAIN trace : trace[i].kind = "RMWR" /\ trace[i].tid = t
Started(t) == t \in done \/ \E i \in DOMAIN trace : trace[i].tid = t

\* Thread t may act: the last action is settled, and no other thread is between
\* the two parts of an RMW.  Threads start in the order of their numbers.
MayAct(t) ==
    /\ work = <<>> /\ Feasible
    /\ t \notin done
    /\ \A s \in Threads : ~InRMW(s) /\ (s < t => Started(s))

Room == Len(trace) < MaxLen
New  == Len(trace) + 1

\* create_cv: the clock vector of the thread's previous action, and itself.
FreshCV(t) ==
    LET last == Latest({i \in DOMAIN trace : trace[i].tid = t})
    IN  [(IF last = NONE THEN [s \in AllThreads |-> 0] ELSE cv[last]) EXCEPT ![t] = New]

\* add_action_to_lists
Extended(t, k, o, l, w) == Append(trace, Action(t, k, o, l, w))

\* CheckRelSeqWorkEntry for a location, or for all of them when it is NONE.
RelSeq(l) == [type |-> "RELSEQ", arg |-> l]
MOEdges(n) == [type |-> "MOEDGES", arg |-> n]

IfChanged(g, h, l) == IF g.edges = h.edges THEN <<>> ELSE <<RelSeq(l)>>

\* A later write of the same thread happens before the new load.
Overwritten(tr, c, i) ==
    \E j \in Writes(trace, tr[i].loc) : tr[j].tid = tr[i].tid /\ j > i /\ HB(tr, c, j, New)

\* A seq_cst load reads the last seq_cst store, or one that is not seq_cst and
\* does not happen before it.
SeqCstAllows(tr, c, i) ==
    LET lastSC == get_last_seq_cst_write(tr, New)
    IN  is_seqcst(tr[New]) =>
          i = lastSC \/ (~is_seqcst(tr[i]) /\ ~(lastSC # NONE /\ HB(tr, c, i, lastSC)))

\* Mutant: anything at the location is a candidate.
Candidates_All(l) == {i \in DOMAIN trace : trace[i].loc = l}

Candidates(l) == Writes(trace, l)

\* build_may_read_from: in each thread the writes back to the last one that
\* happens before the load, if reading them is feasible.
MayReadFrom(t, k, o, l) ==
    LET tr == Extended(t, k, o, l, NONE)
        c  == Append(cv, FreshCV(t))
    IN  {i \in Candidates(l) : /\ ~Overwritten(tr, c, i)
                               /\ SeqCstAllows(tr, c, i)
                               /\ ~r_modification_order(tr, c, graph, New, i).cycle}

\* A load, or the read part of an RMW: process_read and read_from.
Load(t, k, o, l) ==
    /\ MayAct(t) /\ Room
    /\ \E w \in MayReadFrom(t, k, o, l) :
          LET tr == Extended(t, k, o, l, w)
              c  == Append(cv, FreshCV(t))
              g  == r_modification_order(tr, c, graph, New, w)
              s  == read_from(tr, g, c, pending, New)
          IN  /\ trace' = tr
              /\ cv' = s.cv
              /\ graph' = g
              /\ pending' = s.pending
              /\ work' = IfChanged(graph, g, l)
    /\ UNCHANGED <<family, done, badSC>>

\* process_write
Store(t, o, l) ==
    LET tr == Extended(t, "W", o, l, NONE)
        c  == Append(cv, FreshCV(t))
        g  == w_modification_order(tr, c, graph, New)
    IN  /\ MayAct(t) /\ Room
        /\ trace' = tr
        /\ cv' = c
        /\ graph' = g
        /\ work' = IfChanged(graph, g, l)
        /\ UNCHANGED <<family, pending, done, badSC>>

\* The write part of thread t's RMW: process_rmw, then process_write.
FinishRMW(t) == \E n \in DOMAIN trace :
    LET tr  == [trace EXCEPT ![n].kind = "RMW"]
        rmw == addRMWEdge(graph, trace[n].rf, n)
        g   == w_modification_order(tr, cv, rmw, n)
    IN  /\ work = <<>> /\ Feasible
        /\ trace[n].tid = t /\ trace[n].kind = "RMWR"
        /\ trace' = tr
        /\ graph' = g
        /\ work' = IfChanged(rmw, g, trace[n].loc)
        /\ UNCHANGED <<family, cv, pending, done, badSC>>

\* The RMW fails: its read part stays a load (ATOMIC_RMWC).
CancelRMW(t) == \E n \in DOMAIN trace :
    /\ work = <<>> /\ Feasible
    /\ trace[n].tid = t /\ trace[n].kind = "RMWR"
    /\ trace' = [trace EXCEPT ![n].kind = "R"]
    /\ UNCHANGED <<family, cv, graph, pending, work, done, badSC>>

\* The thread's loads back to its previous acquire fence; an acquire load has
\* synchronized by itself.
FenceLoads(t) ==
    LET fence == Latest({i \in DOMAIN trace : /\ trace[i].tid = t
                                              /\ is_fence(trace[i]) /\ is_acquire(trace[i])})
    IN  {i \in DOMAIN trace : /\ trace[i].tid = t /\ i > fence
                              /\ is_read(trace[i]) /\ ~is_acquire(trace[i])}

\* process_fence: an acquire fence synchronizes for those loads, the latest first.
Fence(t, o) ==
    LET tr == Extended(t, "F", o, NONE, NONE)
        start == [cv |-> Append(cv, FreshCV(t)), pending |-> pending, found |-> FALSE]
        s == IF is_acquire(tr[New])
             THEN FoldLeft(LAMBDA x, i : Acquire(tr, graph, x, New, i), start,
                           SetToSortSeq(FenceLoads(t), >))
             ELSE start
    IN  /\ MayAct(t) /\ Room
        /\ trace' = tr
        /\ cv' = s.cv
        /\ pending' = s.pending
        /\ work' = IF s.found THEN <<RelSeq(NONE)>> ELSE <<>>
        /\ UNCHANGED <<family, graph, done, badSC>>

\* THREAD_FINISH in process_thread_action
Finish(t) ==
    /\ MayAct(t)
    /\ done' = done \cup {t}
    /\ work' = <<RelSeq(NONE)>>
    /\ UNCHANGED <<family, trace, cv, graph, pending, badSC>>
-----------------------------------------------------------------------------
(***************************************************************************)
(* The work queue.                                                         *)
(***************************************************************************)

\* propagate_clockvector for s = [cv, work, ...]: the actions after the acquire
\* inherit its clock vector, the latest first.
propagate_clockvector(tr, s, acquire) ==
    LET later == SelectSeq([k \in 1..Len(tr) - acquire |-> Len(tr) + 1 - k],
                           LAMBDA i : HB(tr, s.cv, acquire, i))
    IN  [s EXCEPT !.cv = FoldLeft(LAMBDA c, i : Synchronize(c, i, {acquire}), @, later),
                  !.work = @ \o <<RelSeq(NONE), MOEdges(acquire)>>
                             \o [k \in DOMAIN later |-> MOEdges(later[k])]]

\* WORK_CHECK_RELEASE_SEQ: resolve_release_sequences.  Once one sequence has
\* brought something new, every later one is propagated too.
CheckRelSeq ==
    LET entry == Head(work)
        look(s, p) ==
          LET seq == release_seq_heads(trace, s.cv, graph, trace[p.read].rf, done)
              new == {h \in seq.heads : ~HB(trace, s.cv, h, p.acquire)}
              updated == s.updated \/ new # {}
              kept == IF seq.complete THEN s.pending ELSE Append(s.pending, p)
              synced == [s EXCEPT !.cv = Synchronize(@, p.acquire, new),
                                  !.pending = kept, !.updated = updated]
          IN  IF entry.arg # NONE /\ trace[p.read].loc # entry.arg
              THEN [s EXCEPT !.pending = Append(@, p)]
              ELSE IF updated THEN propagate_clockvector(trace, synced, p.acquire) ELSE synced
        end == FoldLeft(look, [cv |-> cv, pending |-> <<>>, work |-> Tail(work), updated |-> FALSE],
                        pending)
    IN  /\ work # <<>> /\ entry.type = "RELSEQ"
        /\ cv' = end.cv
        /\ pending' = end.pending
        /\ work' = end.work
        /\ UNCHANGED <<family, trace, graph, done, badSC>>

\* A seq_cst load reads something older than the last seq_cst store before it.
IsBadSCRead(n) ==
    LET lastSC == get_last_seq_cst_write(trace, n)
    IN  /\ is_read(trace[n]) /\ is_seqcst(trace[n])
        /\ lastSC # NONE /\ HB(trace, cv, trace[n].rf, lastSC)

\* WORK_CHECK_MO_EDGES
CheckMOEdges ==
    LET n == Head(work).arg
        read == IF is_read(trace[n]) THEN r_modification_order(trace, cv, graph, n, trace[n].rf)
                ELSE graph
        g == IF is_write(trace[n]) THEN w_modification_order(trace, cv, read, n) ELSE read
    IN  /\ work # <<>> /\ Head(work).type = "MOEDGES"
        /\ graph' = g
        /\ badSC' = (badSC \/ IsBadSCRead(n))
        /\ work' = Tail(work) \o IfChanged(graph, g, trace[n].loc)
        /\ UNCHANGED <<family, trace, cv, pending, done>>

\* Objects are numbered in the order of their first use.
Usable == {l \in Locs : \A k \in 1..l-1 : \E i \in DOMAIN trace : trace[i].loc = k /\ trace[i].tid # 0}

Step(t) ==
    \/ \E m \in Menu, l \in Usable : m.kind \in {"R", "RMWR"} /\ Load(t, m.kind, m.ord, l)
    \/ \E m \in Menu, l \in Usable : m.kind = "W" /\ Store(t, m.ord, l)
    \/ \E m \in Menu : m.kind = "F" /\ Fence(t, m.ord)
    \/ FinishRMW(t)
    \/ CancelRMW(t)
    \/ Finish(t)

Next == (\E t \in Threads : Step(t)) \/ CheckRelSeq \/ CheckMOEdges

Spec == Init /\ [][Next]_vars
-----------------------------------------------------------------------------
\* Between two actions: the work queue is empty and no RMW is half done.
Settled == work = <<>> /\ \A t \in Threads : ~InRMW(t)

\* Types; a load reads a store before it in the trace, and clocks do not run
\* ahead of the action that holds them.
TypeOK ==
    /\ \A i \in DOMAIN trace :
          /\ trace[i] \in [tid : AllThreads, kind : Kinds, ord : Orders,
                           loc : Locs \cup {NONE}, rf : Index \cup {NONE}]
          /\ is_read(trace[i]) => trace[i].rf \in 1..i-1 /\ is_write(trace[trace[i].rf])
    /\ DOMAIN cv = DOMAIN trace
    /\ \A i \in DOMAIN cv : cv[i] \in [AllThreads -> 0..i]
    /\ graph.edges \subseteq (DOMAIN trace) \X (DOMAIN trace)
    /\ \A k \in DOMAIN pending : pending[k].read <= pending[k].acquire
    /\ badSC \in BOOLEAN

\* A load that is checked again has got an edge for a seq_cst fence that was
\* not there when it was executed: r_modification_order asks for the last fences
\* of the trace, and one that comes after the load orders nothing before it.
FenceTakenForEarlier == \E n \in DOMAIN trace :
    /\ is_read(trace[n])
    /\ \E w \in Writes(trace, trace[n].loc) :
          LET asked(tr) == FencedBefore(tr, n, w, trace[w].tid)
          IN  /\ <<w, trace[n].rf>> \in graph.edges
              /\ asked(trace) /\ ~(w < n /\ asked(SubSeq(trace, 1, n)))

\* A load that is checked again is called bad only for reading the last seq_cst
\* store itself, which does not happen before itself.
BadForReadingLast == badSC /\ \A n \in DOMAIN trace :
    IsBadSCRead(n) => trace[n].rf = get_last_seq_cst_write(trace, n)

\* The two ways in which checking a load again goes wrong.
RecheckErrs == FenceTakenForEarlier \/ BadForReadingLast

\* is_infeasible ("useful only for ruling an execution as infeasible"): an
\* execution is given up only when no modification order explains it, or when
\* a load that was checked again is misjudged.
InfeasibleIsInconsistent ==
    Settled /\ ~Feasible /\ ~RecheckErrs => ~Consistent(trace)

\* isfeasibleprefix ("must be a prefix of a feasible trace"): what is not given
\* up has a modification order, once no release sequence is pending.
FeasibleIsConsistent ==
    Settled /\ Feasible /\ pending = <<>> => Consistent(trace)

\* release_seq_heads looks at the order of an action and not at its kind, so
\* that a seq_cst load passes for the head of what its thread stores next.
LoadTakenForHead == \E i, j \in DOMAIN trace :
    /\ i < j /\ trace[i].tid = trace[j].tid
    /\ trace[i].kind = "R" /\ trace[i].ord = "sc"
    /\ trace[j].kind = "W" /\ trace[j].ord = "rlx"

\* The clock vectors are the happens-before relation of the standard, for every
\* modification order the trace may have: synchronize merges nothing in doubt,
\* and once resolve_release_sequences leaves nothing pending nothing is missed.
HappensBeforeExact ==
    Settled /\ Feasible /\ ~LoadTakenForHead =>
        \A mo \in ModificationOrders(trace) :
            LET hb == HappensBefore(trace, mo)
                known(j) == {i \in 1..j-1 : HB(trace, cv, i, j)}
            IN  Explains(trace, mo, hb) => \A j \in DOMAIN trace :
                   /\ known(j) \subseteq hb[j] \cup Locs
                   /\ pending = <<>> => hb[j] \subseteq known(j)

\* build_may_read_from ("all past writes that this read action may read from"):
\* a store that is not offered to a load is one it cannot read, whatever the
\* thread, the order and the object of the load.
MayReadFromExact ==
    Room /\ Feasible /\ ~RecheckErrs => \A t \in Threads, m \in Menu, l \in Locs :
        MayAct(t) /\ m.kind = "R" =>
            \A w \in Writes(trace, l) \ MayReadFrom(t, "R", m.ord, l) :
                ~Consistent(Extended(t, "R", m.ord, l, w))

=============================================================================
