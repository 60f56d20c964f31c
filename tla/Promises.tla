------------------------------ MODULE Promises ------------------------------
(***************************************************************************)
(* Loads that read a store to come.  Such a load takes a future value and  *)
(* leaves a Promise behind; a store may resolve it, and until then the     *)
(* promise keeps the set of threads that still could.  A thread is         *)
(* eliminated when a reader of the promise happens before whatever it does *)
(* next, when it finishes, or when modification order puts one of its      *)
(* stores behind the promise.  A promise with no thread left has failed.   *)
(*                                                                         *)
(* One location, with relaxed loads and stores: what modules Exec and      *)
(* CycleGraph leave out.  Synchronization comes from creating and joining  *)
(* threads and from release stores elsewhere; clock vectors are the sets   *)
(* of loads and stores they cover.  RMWs, memory orders and expiration are *)
(* left out; the future values an earlier execution sent are any.          *)
(***************************************************************************)
EXTENDS Integers, Sequences, FiniteSets, SequencesExt

CONSTANTS Threads, Main, NONE, Values,
    MaxAccesses,   \* bound on the loads, the stores and the release stores elsewhere
    MaxPromises    \* bound on the future values read

ASSUME PromisesAssumption ==
    /\ IsFiniteSet(Threads) /\ Main \in Threads
    /\ NONE \notin Threads \cup Int
    /\ MaxAccesses \in Nat \ {0} /\ MaxPromises \in Nat

VARIABLES
    trace,       \* loads and stores: [tid, op, val, rf, hb]
    promises,    \* pending: a sequence of [id, val, readers, available, was]
    made,        \* how many promises there were
    mo,          \* edges of mo_graph, between stores and promises
    state,       \* of a thread: "new", "ready", "blocked" or "complete"
    joining,     \* the thread that a blocked one waits for
    cv,          \* the loads and stores that happen before a thread's next action
    released,    \* release stores elsewhere: [tid, cv]
    failed_promise, hard_failed_promise

vars == <<trace, promises, made, mo, state, joining, cv, released,
          failed_promise, hard_failed_promise>>
threads == <<state, joining, cv, released>>

\* Stores are their places in trace, promises are negative.
Node(k) == 0 - k
IsPromise(n) == n < 0

-----------------------------------------------------------------------------
(* class Promise.                                                          *)

has_failed(p) == p.available = {}
is_compatible(p, t) == t \in p.available
is_compatible_exclusive_Any(p, t) == t \in p.available
is_compatible_exclusive(p, t) == p.available = {t}
add_thread_Twice(p, t) == [p EXCEPT !.available = @ \cup {t}]
add_thread(p, t) == [p EXCEPT !.available = @ \cup {t}, !.was = @ \cup {t}]
eliminate_thread(p, t) == [p EXCEPT !.available = @ \ {t}]

\* The promises that t may keep and that have a reader in S.
Hit(ps, t, S) == {i \in DOMAIN ps : t \in ps[i].available /\ ToSet(ps[i].readers) \cap S # {}}
FailsWithout(p, t) == has_failed(eliminate_thread(p, t))

\* Thread t is eliminated from the promises at the places in I.
Eliminate(ps, t, I) == [i \in DOMAIN ps |-> IF i \in I THEN eliminate_thread(ps[i], t) ELSE ps[i]]

\* Some promise lost its last thread between ps and qs.
FailsIn(ps, qs) == \E i \in DOMAIN qs : has_failed(qs[i]) /\ ~has_failed(ps[i])

-----------------------------------------------------------------------------
(* Modification order.                                                     *)

Follow(E, S) == S \cup {e[2] : e \in {f \in E : f[1] \in S}}
Closure(E, S) ==
    LET upTo[i \in 0..Cardinality(E)] == IF i = 0 THEN S ELSE Follow(E, upTo[i-1])
    IN  upTo[Cardinality(E)]
Reach(E, n) == Closure(E, {n})
HasCycle(E) == \E e \in E : e[1] \in Reach(E, e[2])

\* The last of S, of each thread.
LastOfEach(S) == {i \in S : \A j \in S : trace[j].tid = trace[i].tid => j <= i}

\* What a load or store tells about modification order.
Store(i) == IF trace[i].op = "W" THEN i ELSE trace[i].rf

\* Exclusive promises come behind what the thread that must keep them does.
Exclusive(ps, t, n) == {<<n, Node(ps[i].id)>> : i \in {j \in DOMAIN ps : is_compatible_exclusive(ps[j], t)}}

\* A load by t of node n: behind it nothing that t knows to be older.
\* An action that is n itself ends the search in its thread.
r_modification_order(ps, t, n) ==
    {<<Store(i), n>> : i \in {j \in LastOfEach(cv[t]) : Store(j) # n}} \cup Exclusive(ps, t, n)
w_modification_order(ps, t, n) ==
    {<<Store(i), n>> : i \in LastOfEach(cv[t])} \cup Exclusive(ps, t, n)

is_infeasible == hard_failed_promise \/ HasCycle(mo)

\* CycleGraph::checkPromise: whether the promise is behind store w; the
\* threads with stores behind w, and not the promise, are eliminated on the way.
BehindStores(tr, E, w) == {tr[n].tid : n \in {m \in Reach(E, w) : ~IsPromise(m)}}

(***************************************************************************)
(* mo_check_promises, for the load or store act of trace tr, about store w. *)
(* A promise comes before w if act knows a reader of it, or if modification *)
(* order says so and act's thread may keep it; then threads with stores     *)
(* behind w cannot.  It stops, hard, at the first promise that is behind w. *)
(***************************************************************************)
mo_check_promises(tr, E, ps, act, w) ==
    LET Precedes(p) == \/ ToSet(p.readers) \cap act.hb # {}
                       \/ act.tid \in p.available /\ w \in Reach(E, Node(p.id))
        fails == {i \in DOMAIN ps : Precedes(ps[i]) /\ Node(ps[i].id) \in Reach(E, w)}
        Checked(p) == [p EXCEPT !.available = @ \ BehindStores(tr, E, w)]
    IN  [promises |-> [i \in DOMAIN ps |-> IF Precedes(ps[i]) /\ \A j \in fails : i < j
                                           THEN Checked(ps[i]) ELSE ps[i]],
         hard |-> fails # {}]

-----------------------------------------------------------------------------
(* Loads.                                                                  *)

\* Whom u waits for, at last.  Waiting in a circle is a bug of the program that ends the execution.
WaitChain(u) == Closure({<<v, joining[v]>> : v \in Threads}, {u})

CanRun(t) == state[t] = "ready" /\ ~is_infeasible
Accesses(t) == CanRun(t) /\ joining[t] = NONE /\ Len(trace) + Cardinality(released) < MaxAccesses
Number    == Len(trace) + 1
Access(t, op, v, rf) == [tid |-> t, op |-> op, val |-> v, rf |-> rf, hb |-> cv[t] \cup {Number}]
Accessed(t) == cv' = [cv EXCEPT ![t] = @ \cup {Number}] /\ UNCHANGED <<state, joining, released>>

\* build_may_read_from: the stores that no later store of their thread hides,
\* those that a load has overtaken being left to modification order.
MayReadFrom(t) == {i \in DOMAIN trace :
    /\ trace[i].op = "W"
    /\ ~\E j \in cv[t] : j > i /\ trace[j].tid = trace[i].tid /\ trace[j].op = "W"
    /\ ~HasCycle(mo \cup r_modification_order(promises, t, i))}
MayInherit(t) == {k \in DOMAIN promises :
    ~HasCycle(mo \cup r_modification_order(promises, t, Node(promises[k].id)))}

ReadFromPast(t) == \E i \in MayReadFrom(t) :
    LET act == Access(t, "R", trace[i].val, i)
        E == mo \cup r_modification_order(promises, t, i)
        r == mo_check_promises(trace, E, promises, act, i)
    IN  /\ Accesses(t)
        /\ trace' = Append(trace, act)
        /\ Accessed(t)
        /\ mo' = E
        /\ promises' = r.promises
        /\ hard_failed_promise' = r.hard
        /\ UNCHANGED <<made, failed_promise>>

ReadFromPromise(t) == \E k \in MayInherit(t) :
    LET p == [promises[k] EXCEPT !.readers = Append(@, Number)]
        ps == [promises EXCEPT ![k] = eliminate_thread(p, t)]
    IN  /\ Accesses(t)
        /\ trace' = Append(trace, Access(t, "R", p.val, Node(p.id)))
        /\ Accessed(t)
        /\ promises' = ps
        /\ failed_promise' = (failed_promise \/ FailsIn(promises, ps))
        /\ mo' = mo \cup r_modification_order(ps, t, Node(p.id))
        /\ UNCHANGED <<made, hard_failed_promise>>

\* Promise::Promise.  The future value came from a store of thread u or of
\* one that u is still to create (add_future_value), which did not happen after
\* this load: u may wait for somebody, but not for the reader.
ReadFromFuture(t) == \E u \in Threads \ {t}, v \in Values :
    LET p == [id |-> made + 1, val |-> v, readers |-> <<Number>>, available |-> {u}, was |-> {u}]
        ps == Append(promises, p)
    IN  /\ Accesses(t) /\ made < MaxPromises
        /\ state[u] \in {"ready", "blocked"} /\ t \notin WaitChain(u)
        /\ trace' = Append(trace, Access(t, "R", v, Node(p.id)))
        /\ Accessed(t)
        /\ made' = made + 1
        /\ promises' = ps
        /\ mo' = mo \cup r_modification_order(ps, t, Node(p.id))
        /\ UNCHANGED <<failed_promise, hard_failed_promise>>

-----------------------------------------------------------------------------
(* Stores.                                                                 *)

compute_promises_AnyReader(t, v) == {k \in DOMAIN promises :
    is_compatible(promises[k], t) /\ promises[k].val = v}

compute_promises(t, v) == {k \in DOMAIN promises :
    /\ is_compatible(promises[k], t) /\ promises[k].val = v
    /\ \A j \in DOMAIN promises[k].readers : promises[k].readers[j] \notin cv[t]}

\* CycleGraph::mergeNodes: the store takes the edges of the promise.
Merged(E, n, w) ==
    LET To(m) == IF m = n THEN w ELSE m
    IN  {<<To(e[1]), To(e[2])>> : e \in {f \in E : To(f[1]) # To(f[2])}}

WriteUnpromised(t, v) ==
    LET act == Access(t, "W", v, NONE)
        tr == Append(trace, act)
        E == mo \cup w_modification_order(promises, t, Number)
        r == mo_check_promises(tr, E, promises, act, Number)
    IN  /\ Accesses(t)
        /\ trace' = tr
        /\ Accessed(t)
        /\ mo' = E
        /\ promises' = r.promises
        /\ hard_failed_promise' = r.hard
        /\ UNCHANGED <<made, failed_promise>>

\* The actions in list are checked one after the other.
CheckAll(tr, E, ps, hard, list, w) ==
    LET check[i \in 0..Len(list)] ==
            IF i = 0 THEN [promises |-> ps, hard |-> hard]
            ELSE LET r == mo_check_promises(tr, E, check[i-1].promises, tr[list[i]], w)
                 IN  [promises |-> r.promises, hard |-> check[i-1].hard \/ r.hard]
    IN  check[Len(list)]

\* resolve_promise: the readers now read the store, and modification order
\* is checked again from each of them and from the store.
WriteResolving(t, v) == \E k \in compute_promises(t, v) :
    LET act == Access(t, "W", v, NONE)
        p == promises[k]
        Resolved(a) == IF a.rf = Node(p.id) THEN [a EXCEPT !.rf = Number] ELSE a
        tr == [i \in 1..Number |-> IF i = Number THEN act ELSE Resolved(trace[i])]
        E == Merged(mo \cup w_modification_order(promises, t, Number), Node(p.id), Number)
        r == CheckAll(tr, E, RemoveAt(promises, k), HasCycle(E), Append(p.readers, Number), Number)
    IN  /\ Accesses(t)
        /\ trace' = tr
        /\ Accessed(t)
        /\ mo' = E
        /\ promises' = r.promises
        /\ hard_failed_promise' = r.hard
        /\ UNCHANGED <<made, failed_promise>>

-----------------------------------------------------------------------------
(* Threads.                                                                *)

\* check_promises: thread t, which knew old, learns what is in new; whoever
\* the caller names as t is eliminated, up to the first promise that fails.
check_promises(ps, t, old, new) ==
    LET hit == Hit(ps, t, new \ old)
    IN  Eliminate(ps, t, {i \in hit : \A j \in hit : j < i => ~FailsWithout(ps[j], t)})

\* synchronize(first, second), first by u and second by t.  The thread to
\* learn something is t; the one the code looks at is u.
synchronize(u, t, first_cv) ==
    /\ promises' = check_promises(promises, u, cv[t], first_cv)
    /\ failed_promise' = (failed_promise \/ FailsIn(promises, promises'))
    /\ cv' = [cv EXCEPT ![t] = @ \cup first_cv]

\* THREAD_CREATE and the THREAD_START that follows it at once.
Create(t, u) ==
    LET ps == [k \in DOMAIN promises |-> IF t \in promises[k].available THEN add_thread(promises[k], u) ELSE promises[k]]
    IN  /\ CanRun(t) /\ joining[t] = NONE /\ state[u] = "new"
        /\ state' = [state EXCEPT ![u] = "ready"]
        /\ cv' = [cv EXCEPT ![u] = cv[t]]
        /\ promises' = check_promises(ps, u, {}, cv[t])
        /\ failed_promise' = (failed_promise \/ FailsIn(ps, promises'))
        /\ UNCHANGED <<trace, made, mo, joining, released, hard_failed_promise>>

\* A release store elsewhere, and an acquire load of it.
Release(t) ==
    /\ Accesses(t)
    /\ \E i \in cv[t] : trace[i].op = "R"      \* else it tells nothing here
    /\ released' = released \cup {[tid |-> t, cv |-> cv[t]]}
    /\ UNCHANGED <<trace, promises, made, mo, state, joining, cv, failed_promise, hard_failed_promise>>

Acquire(t) == \E r \in released :
    /\ CanRun(t) /\ joining[t] = NONE /\ r.tid # t
    /\ synchronize(r.tid, t, r.cv)
    /\ UNCHANGED <<trace, made, mo, state, joining, released, hard_failed_promise>>

\* thread_blocking_check_promises: t is eliminated from the first promise
\* that blocker reads; further promises are looked at only if that one failed.
thread_blocking_check_promises(blocker, t) ==
    LET hit == Hit(promises, t, {i \in DOMAIN trace : trace[i].tid = blocker})
    IN  Eliminate(promises, t, {i \in hit : \A j \in hit : j < i => FailsWithout(promises[j], t)})

\* A join of a thread that runs: check_action_enabled, and Scheduler::sleep,
\* which looks for promises that have failed.
Block(t, u) ==
    LET ps == thread_blocking_check_promises(u, t)
    IN  /\ CanRun(t) /\ joining[t] = NONE /\ t \notin WaitChain(u) /\ state[u] \in {"ready", "blocked"}
        /\ state' = [state EXCEPT ![t] = "blocked"]
        /\ joining' = [joining EXCEPT ![t] = u]
        /\ promises' = ps
        /\ failed_promise' = (failed_promise \/ \E k \in DOMAIN ps : has_failed(ps[k]))
        /\ UNCHANGED <<trace, made, mo, cv, released, hard_failed_promise>>

Join(t, u) ==
    /\ CanRun(t) /\ joining[t] = u /\ state[u] = "complete"
    /\ joining' = [joining EXCEPT ![t] = NONE]
    /\ synchronize(u, t, cv[u])
    /\ UNCHANGED <<trace, made, mo, state, released, hard_failed_promise>>

\* THREAD_FINISH: those that wait for t are woken, and t keeps no promise.
Finish(t) ==
    /\ CanRun(t) /\ joining[t] = NONE
    /\ state' = [u \in Threads |-> IF u = t THEN "complete"
                                   ELSE IF joining[u] = t THEN "ready" ELSE state[u]]
    /\ promises' = Eliminate(promises, t, {i \in DOMAIN promises : t \in promises[i].available})
    /\ failed_promise' = (failed_promise \/ FailsIn(promises, promises'))
    /\ UNCHANGED <<trace, made, mo, joining, cv, released, hard_failed_promise>>

Init ==
    /\ trace = <<[tid |-> Main, op |-> "W", val |-> 0, rf |-> NONE, hb |-> {1}]>>
    /\ promises = <<>> /\ made = 0 /\ mo = {}
    /\ state = [t \in Threads |-> IF t = Main THEN "ready" ELSE "new"]
    /\ joining = [t \in Threads |-> NONE]
    /\ cv = [t \in Threads |-> IF t = Main THEN {1} ELSE {}]
    /\ released = {}
    /\ failed_promise = FALSE /\ hard_failed_promise = FALSE

Next == \E t \in Threads :
    \/ ReadFromPast(t) \/ ReadFromPromise(t) \/ ReadFromFuture(t)
    \/ \E v \in Values : WriteUnpromised(t, v) \/ WriteResolving(t, v)
    \/ Release(t) \/ Acquire(t) \/ Finish(t)
    \/ \E u \in Threads : Create(t, u) \/ Block(t, u) \/ Join(t, u)

Spec == Init /\ [][Next]_vars

-----------------------------------------------------------------------------
(* Properties.                                                             *)

\* What happens before whatever t does next; a blocked thread goes on after
\* the one it waits for.
Knows(t) == UNION {cv[u] : u \in WaitChain(t) \ {NONE}}

\* A completion gives each pending promise the thread that will keep it.
\* Whatever is known to be older is older in modification order.
Able(p, t) == /\ t \in p.was /\ state[t] # "complete"
              /\ \A j \in DOMAIN p.readers : p.readers[j] \notin Knows(t)
Coherence(f) ==
    {<<Store(x[1]), Store(x[2])>> : x \in {y \in (DOMAIN trace) \X (DOMAIN trace) :
        y[1] \in trace[y[2]].hb /\ Store(y[1]) # Store(y[2])}}
    \cup UNION {{<<Store(i), Node(promises[k].id)>> : i \in Knows(f[k])} : k \in DOMAIN f}
Completes(f) == /\ \A k \in DOMAIN f : Able(promises[k], f[k])
                /\ ~HasCycle(Coherence(f))
Completions == {f \in [DOMAIN promises -> Threads] : Completes(f)}

\* Every promise has its readers and knows threads that exist.
TypeOK ==
    /\ Len(trace) \in 1..MaxAccesses /\ made \in 0..MaxPromises
    /\ \A k \in DOMAIN promises :
          LET p == promises[k]
          IN  /\ p.available \subseteq p.was /\ p.was \subseteq {t \in Threads : state[t] # "new"}
              /\ p.readers # <<>>
              /\ \A i \in DOMAIN trace : trace[i].rf = Node(p.id) <=> \E j \in DOMAIN p.readers : p.readers[j] = i
    /\ \A t \in Threads : state[t] = "blocked" => state[joining[t]] \in {"ready", "blocked"}
    /\ failed_promise \in BOOLEAN /\ hard_failed_promise \in BOOLEAN

\* A thread is eliminated from a promise only if it really cannot keep it,
\* whatever the other promises come to.
EliminatedIsHopeless == ~is_infeasible =>
    \A k \in DOMAIN promises : \A f \in Completions : f[k] \in promises[k].available

\* An execution is given up only if no stores to come could make it real.
PruningIsSound == is_infeasible \/ failed_promise => Completions = {}

\* When every promise has been kept, modification order has a place for every
\* store, and no load reads a store that it happens before.
FeasibleIsConsistent == promises = <<>> /\ ~is_infeasible =>
    /\ ~HasCycle(Coherence(<<>>))
    /\ \A i \in DOMAIN trace : trace[i].op = "R" => i \notin trace[trace[i].rf].hb

\* When all threads have come to their end, a promise that nobody kept has
\* failed.
EndSettles == (\A t \in Threads : state[t] \in {"new", "complete"}) /\ ~is_infeasible =>
    \A k \in DOMAIN promises : has_failed(promises[k])

\* Nothing is given up, of a promise or of an execution, that could be real.
GivenUpIsHopeless == EliminatedIsHopeless /\ PruningIsSound

\* What is accepted is real: consistent, and with every promise kept.
AcceptedIsReal == FeasibleIsConsistent /\ EndSettles
=============================================================================
