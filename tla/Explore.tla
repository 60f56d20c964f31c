------------------------------- MODULE Explore -------------------------------
(***************************************************************************)
(* The systematic exploration of a program: the NodeStack with its         *)
(* backtracking points, the sleep set, replay, the choice of the point at  *)
(* which the next execution diverges, round robin scheduling and the two   *)
(* fairness schemes.                                                       *)
(*                                                                         *)
(* A step is one round of the loop in ModelChecker::run: choose a thread,  *)
(* take its step, let it run to its next operation, disable the threads    *)
(* that cannot go on.  An execution is sequential and so is the search;    *)
(* what varies is the program and the options, chosen in Init.             *)
(*                                                                         *)
(* Programs are made of seq_cst loads and stores, mutexes, condition       *)
(* variables, thread creation, join and yield.  In such a program a load   *)
(* may only read the last store, so all choices are choices of threads and *)
(* Node::misc_index; other choices of a node are in module Choices.        *)
(***************************************************************************)
EXTENDS Integers, FiniteSets, Sequences, SequencesExt

CONSTANTS
    Threads,    \* 1..n; thread 1 runs user_main
    Configs     \* programs with the options they are explored with

ASSUME ExploreAssumption ==
    IsFiniteSet(Threads) /\ 1 \in Threads /\ Threads = 1..Cardinality(Threads)

VARIABLES
    config,     \* the program and the options; never changes
    nodes,      \* NodeStack::node_list
    diverge,    \* ModelChecker::diverge as an index into nodes, or NULL
    ex,         \* the current execution: all that a snapshot restores
    phase,      \* "run", "crash" (an assertion of the tool failed) or "done"
    goal,       \* auxiliary: the outcomes of the program
    seen,       \* auxiliary: the outcomes of the executions that completed
    runs,       \* stats: executions that completed
    deadlocks   \* stats: an execution reported a deadlock

vars == <<config, nodes, diverge, ex, phase, goal, seen, runs, deadlocks>>

NULL == 0
Main == 1
-----------------------------------------------------------------------------
(***************************************************************************)
(* Programs.  SPIN is a load of a flag that loops, through AGAIN (a        *)
(* yield), until it reads a store; a failed TRYLOCK skips to the next      *)
(* UNLOCK.                                                                 *)
(***************************************************************************)
None == "-"
Op(o, x)         == [op |-> o, obj |-> x, mtx |-> None, thr |-> NULL]
ThreadOp(o, t)   == [op |-> o, obj |-> None, mtx |-> None, thr |-> t]
WaitOp(c, m)     == [op |-> "WAIT", obj |-> c, mtx |-> m, thr |-> NULL]
Plain(o)         == Op(o, None)

Objects == {"x", "y", "m", "n", "c"}

Code(t) == <<Plain("START")>> \o config.prog[t] \o <<Plain("FINISH")>>

is_read(a)   == a.op \in {"READ", "SPIN"}
is_write(a)  == a.op = "WRITE"
is_yield(a)  == a.op \in {"YIELD", "AGAIN"}
is_lock(a)   == a.op = "LOCK"
is_wait(a)   == a.op = "WAIT"
is_unlock(a) == a.op = "UNLOCK"
is_notify(a) == a.op \in {"NOTIFY_ONE", "NOTIFY_ALL"}
is_trylock(a)        == a.op = "TRYLOCK"
is_success_lock(a)   == is_lock(a) \/ (is_trylock(a) /\ a.res = "ok")
is_failed_trylock(a) == is_trylock(a) /\ a.res = "fail"

same_var(a, b) ==
    \/ is_wait(a) /\ is_wait(b) /\ a.mtx = b.mtx
    \/ is_wait(a) /\ ~is_wait(b) /\ a.mtx = b.obj
    \/ is_wait(b) /\ ~is_wait(a) /\ b.mtx = a.obj
    \/ a.obj = b.obj /\ a.obj # None

\* All accesses are seq_cst.  Not symmetric: a is the action asleep or in the
\* past, b the current one.
could_synchronize_with(a, b) ==
    /\ a.tid # b.tid
    /\ same_var(a, b)
    /\ \/ (is_read(a) \/ is_write(a)) /\ (is_read(b) \/ is_write(b)) /\ (is_write(a) \/ is_write(b))
       \/ (is_lock(a) \/ is_trylock(a)) /\ (is_unlock(b) \/ is_wait(b))
       \/ is_trylock(a) /\ is_success_lock(b)
       \/ is_unlock(a) /\ (is_trylock(b) \/ is_lock(b))
       \/ is_notify(a) /\ is_wait(b)
       \/ is_wait(a) /\ is_notify(b)

\* Mutant: only a try_lock conflicts.
is_conflicting_lock_Try(a, b) ==
    a.tid # b.tid /\ is_trylock(a) /\ (is_success_lock(b) \/ is_unlock(b))

is_conflicting_lock(a, b) ==
    /\ a.tid # b.tid
    /\ \/ is_success_lock(b)
       \/ (is_unlock(b) \/ is_wait(b)) /\ is_trylock(a) /\ a.res = "ok"
-----------------------------------------------------------------------------
(***************************************************************************)
(* One execution.  enabled is the Scheduler's array: "D" disabled, "E"     *)
(* enabled, "S" in the sleep set.  log holds for every operation how many  *)
(* changes of its object came before it, which is what tells executions    *)
(* apart.                                                                  *)
(***************************************************************************)
Fresh ==
    [trace    |-> <<>>,
     pos      |-> [t \in Threads |-> 0],
     nthreads |-> 1,
     enabled  |-> [t \in Threads |-> IF t = Main THEN "E" ELSE "D"],
     owner    |-> [m \in Objects |-> NULL],
     queue    |-> [c \in Objects |-> <<>>],
     changes  |-> [o \in Objects |-> 0],
     notified |-> [c \in Objects |-> 0],
     log      |-> [t \in Threads |-> <<>>],
     turn     |-> NULL,     \* Scheduler::curr_thread_index
     forced   |-> Main,     \* the thread take_step wants to run next
     latest   |-> NULL,     \* ModelExecution::priv->next_backtrack
     bug      |-> FALSE]

Complete(e, t) == e.pos[t] = Len(Code(t))
Alive(e, t)    == t <= e.nthreads /\ ~Complete(e, t)
Pending(e, t)  == Code(t)[e.pos[t] + 1] @@ [tid |-> t, res |-> None]
Enabled(e, t)  == e.enabled[t] # "D"

waiting_on(e, t) ==
    IF ~Alive(e, t) THEN NULL
    ELSE LET a == Pending(e, t)
         IN  CASE a.op = "JOIN" -> a.thr
               [] is_lock(a)    -> e.owner[a.obj]
               [] OTHER         -> NULL

\* The chain of waiting threads from t comes back to t.
Deadlocked(e, t) ==
    LET hop[i \in 0..Cardinality(Threads)] ==
          IF i = 0 THEN t ELSE IF hop[i-1] = NULL THEN NULL ELSE waiting_on(e, hop[i-1])
    IN  \E i \in 1..Cardinality(Threads) : hop[i] = t

check_action_enabled(e, a) ==
    CASE is_lock(a)    -> e.owner[a.obj] = NULL
      [] a.op = "JOIN" -> Complete(e, a.thr)
      [] OTHER         -> TRUE

\* What process_mutex and the others make of the operation.
Result(e, a) ==
    CASE is_lock(a)    -> "ok"
      [] is_trylock(a) -> IF e.owner[a.obj] = NULL THEN "ok" ELSE "fail"
      [] a.op = "SPIN" -> IF e.changes[a.obj] = 0 THEN "empty" ELSE "set"
      [] OTHER         -> None

\* Where the thread goes on.
NextPos(t, p, a) ==
    CASE is_failed_trylock(a) ->
           CHOOSE q \in p+2..Len(Code(t)) :
             Code(t)[q].op = "UNLOCK" /\ \A r \in p+2..q-1 : Code(t)[r].op # "UNLOCK"
      [] a.op = "SPIN" /\ a.res = "set" -> p + 2
      [] a.op = "AGAIN" -> p - 1
      [] OTHER -> p + 1

\* The threads an operation makes the scheduler wake.
Woken(e, a, misc) ==
    CASE is_unlock(a) \/ is_wait(a) ->
           {u \in Threads \ {a.tid} : Alive(e, u) /\ is_lock(Pending(e, u)) /\ waiting_on(e, u) = a.tid}
      [] a.op = "FINISH" ->
           {u \in Threads : Alive(e, u) /\ Pending(e, u).op = "JOIN" /\ waiting_on(e, u) = a.tid}
      [] a.op = "NOTIFY_ALL" -> ToSet(e.queue[a.obj])
      [] a.op = "NOTIFY_ONE" -> {e.queue[a.obj][misc + 1]}
      [] OTHER -> {}

Mutex(a) == IF is_wait(a) THEN a.mtx ELSE a.obj

\* process_thread_action, process_mutex: owners, queues, threads.
Process(e, a, misc) ==
    LET sleeps == is_wait(a) /\ misc = 0
        frees  == is_unlock(a) \/ is_wait(a)
    IN  [e EXCEPT
          !.nthreads = IF a.op = "CREATE" THEN a.thr ELSE @,
          !.forced   = IF a.op = "CREATE" THEN a.thr ELSE NULL,
          !.pos[a.tid] = NextPos(a.tid, @, a),
          !.owner = IF is_success_lock(a) THEN [@ EXCEPT ![a.obj] = a.tid]
                    ELSE IF frees THEN [@ EXCEPT ![Mutex(a)] = NULL] ELSE @,
          !.queue = CASE sleeps -> [@ EXCEPT ![a.obj] = Append(@, a.tid)]
                      [] a.op = "NOTIFY_ALL" -> [@ EXCEPT ![a.obj] = <<>>]
                      [] a.op = "NOTIFY_ONE" -> [@ EXCEPT ![a.obj] = RemoveAt(@, misc + 1)]
                      [] OTHER -> @,
          !.enabled = [u \in Threads |->
                        IF u = a.tid /\ (sleeps \/ a.op = "FINISH") THEN "D"
                        ELSE IF u \in Woken(e, a, misc) \/ (a.op = "CREATE" /\ u = a.thr) THEN "E"
                        ELSE @[u]]]

\* The auxiliary log: a load sees a number of stores, a store comes after some;
\* likewise for mutexes, and for waits and notifications of one variable.
Logged(e, a, misc) ==
    LET changed == CASE is_write(a) \/ is_success_lock(a) \/ is_unlock(a) -> {a.obj}
                     [] is_wait(a) -> {a.obj, a.mtx}
                     [] OTHER -> {}
        entry == CASE is_wait(a)   -> <<e.changes[a.mtx], e.notified[a.obj], misc>>
                   [] is_notify(a) -> <<e.changes[a.obj], misc>>
                   [] a.obj # None -> <<e.changes[a.obj]>>
                   [] OTHER        -> <<>>
    IN  [e EXCEPT
          !.changes  = [o \in Objects |-> IF o \in changed THEN @[o] + 1 ELSE @[o]],
          !.notified = IF is_notify(a) THEN [@ EXCEPT ![a.obj] = @ + 1] ELSE @,
          !.log[a.tid] = @ \o entry]

\* The two loops before the next choice: threads run to their next operation
\* (a cycle of waiting threads is a bug), and those that cannot go on sleep.
Settle(e, ran) ==
    [e EXCEPT
      !.bug = @ \/ (Alive(e, ran) /\ Deadlocked(e, ran)),
      !.enabled = [t \in Threads |->
                    IF Alive(e, t) /\ Enabled(e, t) /\ ~check_action_enabled(e, Pending(e, t))
                    THEN "D" ELSE @[t]]]
-----------------------------------------------------------------------------
(***************************************************************************)
(* Nodes.  Node k belongs to step k of the execution; its parent, node     *)
(* k-1, holds the thread choices for that step.                            *)
(***************************************************************************)
Ids(n) == 1..n
Later(i, j) == IF i > j THEN i ELSE j

\* Node::enabled_status, Node::is_enabled: threads created later are disabled.
StatusAt(node, t) == IF t <= node.nthreads THEN node.enabled[t] ELSE "D"
EnabledAt(node, t) == StatusAt(node, t) # "D"

\* The fairness window: how often a thread was enabled, and how often it ran,
\* in the last nodes.  old is the node that leaves the window, or NULL.
FairnessOf(ns, k, a, n) ==
    LET old == IF k - 1 > config.fairwindow + 1 THEN k - 1 - config.fairwindow ELSE NULL
        Was(t) == IF k > 1 /\ t <= ns[k-1].nthreads THEN ns[k-1].fair[t]
                  ELSE [count |-> 0, turns |-> 0, priority |-> FALSE]
        Count(t) == Was(t).count
                    + (IF k > 1 /\ EnabledAt(ns[k-1], t) THEN 1 ELSE 0)
                    - (IF old # NULL /\ EnabledAt(ns[old-1], t) THEN 1 ELSE 0)
        Turns(t) == Was(t).turns
                    + (IF t = a.tid THEN 1 ELSE 0)
                    - (IF old # NULL /\ ns[old].act.tid = t THEN 1 ELSE 0)
    IN  [t \in Ids(n) |->
          [count |-> Count(t), turns |-> Turns(t),
           priority |-> \/ Was(t).priority /\ t # a.tid
                        \/ old # NULL /\ Count(t) >= config.enabledcount /\ Turns(t) = 0]]

\* The CHESS scheme.  For threads u and v: "E" v was enabled ever since u's last
\* yield, "S" v ran since then, "D" u disabled v since then, "P" u must not run
\* while v is enabled.
YieldAt(node, u, v) ==
    IF u <= node.nthreads /\ v <= node.nthreads THEN node.yield[u][v] ELSE {"S", "D"}

\* Mutant: a yield gives no priority to the others.
update_yield_NoP(ns, k, e) ==
    [u \in Ids(ns[k].nthreads) |-> [v \in Ids(ns[k].nthreads) |-> {"S", "D"}]]

update_yield(ns, k, e) ==
    LET a == ns[k].act
        Kept(u, v) ==
            IF Enabled(e, v) THEN YieldAt(ns[k-1], u, v)
            ELSE (YieldAt(ns[k-1], u, v) \ {"E"})
                 \cup (IF u = a.tid /\ EnabledAt(ns[k-1], v) THEN {"D"} ELSE {})
        Ran(u, v) == IF v = a.tid THEN (Kept(u, v) \ {"P"}) \cup {"S"} ELSE Kept(u, v)
        Yielded(v) ==
            (IF "P" \in Ran(a.tid, v) \/ (Ran(a.tid, v) \cap {"E", "D"} # {} /\ "S" \notin Ran(a.tid, v))
             THEN {"P"} ELSE {})
            \cup (IF Enabled(e, v) THEN {"E"} ELSE {})
    IN  [u \in Ids(ns[k].nthreads) |-> [v \in Ids(ns[k].nthreads) |->
          IF k = 1 THEN {"S", "D"}
          ELSE IF u = a.tid /\ is_yield(a) THEN Yielded(v) ELSE Ran(u, v)]]

\* NodeStack::explore_action beyond the replayed prefix: the parent records who
\* was enabled and who is explored, a node is pushed.
ExploreChild(node, e, t) ==
    [node EXCEPT !.enabled = e.enabled, !.explored = @ \cup {t}, !.backtrack = @ \ {t}]

explore_action(ns, e, a) ==
    LET k   == Len(e.trace) + 1
        par == IF k = 1 THEN ns ELSE [ns EXCEPT ![k-1] = ExploreChild(@, e, a.tid)]
        n   == IF a.op = "CREATE" THEN e.nthreads + 1 ELSE e.nthreads
    IN  IF k <= Len(ns) THEN ns
        ELSE Append(par,
               [act |-> a, nthreads |-> n, explored |-> {}, backtrack |-> {},
                enabled |-> [t \in Threads |-> "D"],
                misc |-> 0,
                misc_max |-> CASE is_wait(a) -> 2
                               [] a.op = "NOTIFY_ONE" -> Len(e.queue[a.obj])
                               [] OTHER -> 0,
                fair |-> FairnessOf(par, k, a, n),
                yield |-> [u \in Ids(n) |-> [v \in Ids(n) |-> {}]]])

misc_empty(node) == node.misc + 1 >= node.misc_max

\* Mutant: nothing is cut off.
Popped_Not(ns, k) == [ns EXCEPT ![k] = [@ EXCEPT !.explored = {}, !.backtrack = {}]]

\* NodeStack::pop_restofstack: keep the first k nodes; node k starts over.
Popped(ns, k) ==
    [SubSeq(ns, 1, k) EXCEPT ![k] = [@ EXCEPT !.explored = {}, !.backtrack = {}]]
-----------------------------------------------------------------------------
(***************************************************************************)
(* Backtracking points.                                                    *)
(***************************************************************************)

\* The actions in the list of an object; a wait is in the list of its mutex too.
OnObject(p, o) == p.obj = o \/ (is_wait(p) /\ p.mtx = o)

Conflicts(p, a) ==
    CASE is_read(a) \/ is_write(a)   -> OnObject(p, a.obj) /\ could_synchronize_with(p, a)
      [] is_lock(a) \/ is_trylock(a) -> OnObject(p, a.obj) /\ is_conflicting_lock(a, p)
      [] is_unlock(a) -> OnObject(p, a.obj) /\ p.tid # a.tid /\ is_failed_trylock(p)
      [] is_wait(a)   -> OnObject(p, a.obj) /\ p.tid # a.tid /\ (is_failed_trylock(p) \/ is_notify(p))
      [] is_notify(a) -> OnObject(p, a.obj) /\ p.tid # a.tid /\ is_wait(p)
      [] OTHER        -> FALSE

get_last_conflict(e, a) == SelectLastInSeq(e.trace, LAMBDA p : Conflicts(p, a))

\* Neither fairness scheme lets thread t run at the node.
Unfair(node, t) ==
    \/ /\ config.fairwindow # 0 /\ ~node.fair[t].priority
       /\ \E u \in Ids(node.nthreads) : EnabledAt(node, u) /\ node.fair[u].priority
    \/ /\ config.yieldon
       /\ \E u \in Ids(node.nthreads) : EnabledAt(node, u) /\ "P" \in YieldAt(node, t, u)

\* Mutant: only the thread itself, even where it cannot run.
BacktrackPoints_Self(node, t) ==
    {u \in {t} : StatusAt(node, u) = "E" /\ u \notin node.explored /\ ~Unfair(node, u)}

\* The threads to try instead of the conflicting action; when t itself cannot
\* run there (disabled, asleep or not created), all that can.
BacktrackPoints(node, t) ==
    LET tried == IF StatusAt(node, t) = "E" THEN {t} ELSE Ids(node.nthreads)
    IN  {u \in tried : /\ StatusAt(node, u) = "E"
                       /\ u \notin node.explored
                       /\ ~Unfair(node, u)}

\* check_curr_backtracking: is something left to try at this step?
UntriedAt(ns, k) == (k > 1 /\ ns[k-1].backtrack # {}) \/ ~misc_empty(ns[k])

\* check_curr_backtracking and set_backtracking for the last action of e.
SetBacktracking(ns, e) ==
    LET k      == Len(e.trace)
        a      == e.trace[k]
        prev   == get_last_conflict(e, a)
        points == IF prev = 0 THEN {} ELSE BacktrackPoints(ns[prev-1], a.tid)
    IN  [nodes  |-> IF points = {} THEN ns ELSE [ns EXCEPT ![prev-1].backtrack = @ \cup points],
         latest |-> Later(e.latest, Later(IF UntriedAt(ns, k) THEN k ELSE NULL,
                                          IF points # {} THEN prev ELSE NULL))]
-----------------------------------------------------------------------------
(***************************************************************************)
(* Scheduling.                                                             *)
(***************************************************************************)

\* A sleeping thread is woken when its next action may synchronize with the
\* current one, whose result is not known yet.
wake_up_sleeping_actions(e, a) ==
    [e EXCEPT !.enabled = [u \in Threads |->
        IF @[u] = "S" /\ could_synchronize_with(Pending(e, u), a) THEN "E" ELSE @[u]]]

\* Scheduler::select_next_thread: the first one after the last choice.
Selectable(ns, e) ==
    LET head == ns[Len(e.trace)]
    IN  {t \in Ids(e.nthreads) : e.enabled[t] = "E" /\
          /\ config.fairwindow # 0 =>
               \/ head.fair[t].priority
               \/ ~\E u \in Ids(e.nthreads) : Enabled(e, u) /\ head.fair[u].priority
          /\ config.yieldon =>
               ~\E u \in Ids(e.nthreads) : Enabled(e, u) /\ "P" \in YieldAt(head, t, u)}

RoundRobin(e, S) ==
    LET Rank(t) == (t - e.turn - 1) % (e.nthreads + 1)
    IN  CHOOSE t \in S : \A u \in S : Rank(t) <= Rank(u)

\* Some thread the step would wake has completed, or nobody waits: the tool fails.
WakeFails(e, a, misc) ==
    \/ a.op = "NOTIFY_ONE" /\ e.queue[a.obj] = <<>>
    \/ \E u \in Woken(e, a, misc) : Complete(e, u)

\* take_step of thread t, up to the next choice.
TakeStep(t, ns, e) ==
    \E asked \in {Pending(e, t)}, awake \in {wake_up_sleeping_actions(e, Pending(e, t))},
       pushed \in {explore_action(ns, e, Pending(e, t))} :
        LET k == Len(e.trace) + 1
            a == [asked EXCEPT !.res = Result(e, asked)]
        IN  IF WakeFails(e, asked, pushed[k].misc)
            THEN phase' = "crash" /\ UNCHANGED <<nodes, ex>>
            ELSE \E fair \in {IF config.yieldon
                              THEN [pushed EXCEPT ![k].yield = update_yield(pushed, k, awake)] ELSE pushed},
                    acted \in {[Process(Logged(awake, a, pushed[k].misc), a, pushed[k].misc)
                                EXCEPT !.trace = Append(@, a)]} :
                 \E marked \in {SetBacktracking(fair, acted)} :
                   /\ nodes' = marked.nodes
                   /\ ex' = Settle([acted EXCEPT !.latest = marked.latest], t)
                   /\ UNCHANGED phase

too_many_steps == config.bound # 0 /\ Len(ex.trace) > config.bound

Going == phase = "run" /\ ~ex.bug /\ ~too_many_steps
AtDivergence == diverge = Len(ex.trace) + 1
Unchanged == UNCHANGED <<config, goal, seen, runs, deadlocks>>

\* The last step decides: the child of a CREATE runs.
StepForced ==
    /\ Going /\ ex.forced # NULL
    /\ TakeStep(ex.forced, nodes, ex)
    /\ Unchanged /\ UNCHANGED diverge

StepReplayed ==
    /\ Going /\ ex.forced = NULL
    /\ diverge # NULL /\ ~AtDivergence
    /\ TakeStep(nodes[Len(ex.trace) + 1].act.tid, nodes, ex)
    /\ Unchanged /\ UNCHANGED diverge

\* Restore the sleep set recorded in the parent of the point of divergence.
update_sleep_set(e, par) ==
    [t \in Threads |-> IF StatusAt(par, t) = "S" THEN "S" ELSE e.enabled[t]]

\* The same thread again, with the next behavior of its action.
DivergeBehavior ==
    /\ Going /\ ex.forced = NULL /\ AtDivergence
    /\ ~misc_empty(nodes[diverge])
    /\ LET t == nodes[diverge].act.tid
       IN  TakeStep(t, [Popped(nodes, diverge) EXCEPT ![diverge].misc = @ + 1],
                    [ex EXCEPT !.enabled = update_sleep_set(ex, nodes[diverge-1]), !.turn = t])
    /\ diverge' = NULL
    /\ Unchanged

\* Another thread; the one that was tried goes to sleep.
DivergeThread ==
    /\ Going /\ ex.forced = NULL /\ AtDivergence
    /\ misc_empty(nodes[diverge])
    /\ LET par == nodes[diverge-1]
           t   == CHOOSE u \in par.backtrack : \A v \in par.backtrack : u <= v
       IN  TakeStep(t, Popped(nodes, diverge - 1),
                    [ex EXCEPT !.turn = t,
                       !.enabled = [update_sleep_set(ex, par) EXCEPT ![nodes[diverge].act.tid] = "S"]])
    /\ diverge' = NULL
    /\ Unchanged

StepScheduled ==
    /\ Going /\ ex.forced = NULL /\ diverge = NULL
    /\ Selectable(nodes, ex) # {}
    /\ LET t == RoundRobin(ex, Selectable(nodes, ex))
       IN  TakeStep(t, nodes, [ex EXCEPT !.turn = t])
    /\ Unchanged /\ UNCHANGED diverge

\* next_execution: look at the end of this one, go back to the start.
EndExecution ==
    LET over == \A t \in Threads : ~Enabled(ex, t)
        dead == over /\ \E t \in Threads : Alive(ex, t)
    IN  /\ phase = "run"
        /\ Going => ex.forced = NULL /\ diverge = NULL /\ Selectable(nodes, ex) = {}
        /\ IF over /\ ~dead /\ ~ex.bug
           THEN seen' = seen \cup {ex.log} /\ runs' = runs + 1
           ELSE UNCHANGED <<seen, runs>>
        /\ deadlocks' = (deadlocks \/ ex.bug \/ dead)
        /\ IF ex.latest = NULL
           THEN phase' = "done" /\ UNCHANGED <<diverge, ex>>
           ELSE diverge' = ex.latest /\ ex' = Fresh /\ UNCHANGED phase
        /\ UNCHANGED <<config, goal, nodes>>

\* The tool has stopped.
Stopped == phase # "run" /\ UNCHANGED vars
-----------------------------------------------------------------------------
(***************************************************************************)
(* What there is to find: all interleavings of a program without loops, no *)
(* matter which of them the search needs.                                  *)
(***************************************************************************)
Behaviors(e, a) ==
    CASE is_wait(a) -> {0, 1}
      [] a.op = "NOTIFY_ONE" -> 0..Len(e.queue[a.obj]) - 1
      [] OTHER -> {0}

Runnable(e) ==
    {t \in Threads : Alive(e, t) /\ Enabled(e, t) /\ check_action_enabled(e, Pending(e, t))}

Successors(e) ==
    UNION {UNION {{Process(Logged(e, a, i), a, i) : i \in Behaviors(e, a)}
                  : a \in {[Pending(e, t) EXCEPT !.res = Result(e, Pending(e, t))]}}
           : t \in Runnable(e)}

Uses(o) == \E t \in Threads : \E i \in 1..Len(Code(t)) : Code(t)[i].op = o

\* The ends of all executions, by the number of steps.
Ends ==
    LET steps == FoldLeft(LAMBDA n, t : n + Len(Code(t)), 0, [t \in Threads |-> t])
        Advance(found, i) == UNION {IF Runnable(e) = {} THEN {e} ELSE Successors(e) : e \in found}
    IN  FoldLeft(Advance, {Fresh}, [i \in 1..steps |-> i])

TheGoal ==
    IF Uses("SPIN") THEN [outcomes |-> {}, deadlock |-> FALSE]
    ELSE LET Stuck(e) == \E t \in Threads : Alive(e, t)
         IN  CHOOSE g \in {[outcomes |-> {e.log : e \in {d \in ends : ~Stuck(d)}},
                            deadlock |-> \E e \in ends : Stuck(e)] : ends \in {Ends}} : TRUE

Init ==
    /\ config \in Configs
    /\ nodes = <<>>
    /\ diverge = NULL
    /\ ex = Fresh
    /\ phase = "run"
    /\ goal = TheGoal
    /\ seen = {}
    /\ runs = 0
    /\ deadlocks = FALSE

Next ==
    \/ StepForced \/ StepReplayed \/ DivergeBehavior \/ DivergeThread \/ StepScheduled
    \/ EndExecution \/ Stopped

Spec == Init /\ [][Next]_vars /\ WF_vars(Next)
-----------------------------------------------------------------------------
(***************************************************************************)
(* Correctness.                                                            *)
(***************************************************************************)

\* The fields of the state keep to their ranges.
TypeOK ==
    /\ phase \in {"run", "crash", "done"}
    /\ diverge \in 0..Len(nodes)
    /\ Len(ex.trace) <= Len(nodes)
    /\ ex.enabled \in [Threads -> {"D", "E", "S"}]
    /\ \A k \in 1..Len(nodes) :
         /\ nodes[k].explored \cup nodes[k].backtrack \subseteq Ids(nodes[k].nthreads)
         /\ nodes[k].misc < Later(1, nodes[k].misc_max)

\* The programs without loops, explored without a fairness scheme.  (A
\* notify_one may find nobody waiting and take the tool down.)
Exact ==
    ~config.yieldon /\ config.fairwindow = 0 /\ ~Uses("SPIN") /\ ~Uses("NOTIFY_ONE")

\* The search keeps its promise: every outcome of the program is found by
\* exactly one execution, nothing else is found, and the search ends, with the
\* fairness schemes and loops too.
S == INSTANCE Search WITH goal <- IF Exact THEN goal.outcomes ELSE {},
                          seen <- IF Exact THEN seen ELSE {},
                          runs <- IF Exact THEN runs ELSE 0,
                          done <- phase # "run"
Exhaustive == S!Spec /\ S!Ends

\* README.md:100 says that the tool "exhaustively explores the behaviors" of a
\* program.  Two threads that try one lock have an outcome that is not found: a
\* thread asleep before a try_lock is not woken by a try_lock that succeeds,
\* whose result is not known when the sleeping threads are looked at.
EveryOutcomeFound == phase = "done" /\ Exact => seen = goal.outcomes

\* A deadlock is reported by the end of the search exactly when the program can
\* deadlock, though each execution stops at the first cycle it closes.
DeadlocksFound == phase = "done" /\ Exact => deadlocks = goal.deadlock

\* A replayed step meets the operation recorded for it, in a thread that can
\* take it, and past the point of divergence nothing is left to replay.
ReplayFaithful ==
    Going /\ ex.forced = NULL =>
      LET k == Len(ex.trace) + 1
      IN  IF diverge = NULL THEN Len(nodes) = Len(ex.trace)
          ELSE LET a == nodes[k].act
               IN  /\ k <= diverge
                   /\ Alive(ex, a.tid) /\ Enabled(ex, a.tid)
                   /\ Pending(ex, a.tid) = [a EXCEPT !.res = None]
                   /\ check_action_enabled(ex, Pending(ex, a.tid))

\* Where the next execution diverges something is left to try, for which
\* get_next_backtrack has an assertion, and the thread it will run is able to.
DivergenceHasChoice ==
    Going /\ AtDivergence /\ misc_empty(nodes[diverge]) =>
      LET todo == nodes[diverge-1].backtrack
      IN  /\ todo # {} /\ todo \cap nodes[diverge-1].explored = {}
          /\ \A t \in todo : /\ Alive(ex, t) /\ StatusAt(nodes[diverge-1], t) = "E"
                             /\ check_action_enabled(ex, Pending(ex, t))

\* The counters of the fairness window, kept node by node, are what a recount
\* of its nodes gives.  (The first turn of the main thread never leaves it.)
WindowExact ==
    config.fairwindow # 0 =>
      \A k \in 1..Len(nodes) :
        LET window == {j \in 1..k : j >= k - config.fairwindow}
        IN  \A t \in Ids(nodes[k].nthreads) :
              /\ nodes[k].fair[t].count =
                   Cardinality({j \in window \ {1} : EnabledAt(nodes[j-1], t)})
              /\ t # Main => nodes[k].fair[t].turns =
                   Cardinality({j \in window : nodes[j].act.tid = t})

\* With a fairness scheme no execution is unfair: a loop that waits for another
\* thread does not run into the bound.
FairExecutionsEnd == config.yieldon \/ config.fairwindow # 0 => ~too_many_steps

\* The priorities that yields build up never leave the scheduler without a
\* thread to choose, unless some thread is asleep.
YieldsNeverStall ==
    /\ Going /\ ex.forced = NULL /\ diverge = NULL
    /\ \E t \in Threads : Enabled(ex, t)
    /\ \A t \in Threads : ex.enabled[t] # "S"
    => Selectable(nodes, ex) # {}

\* Replay takes the way it took before, and diverges where there is another.
ReplayExact == TypeOK /\ ReplayFaithful /\ DivergenceHasChoice

\* Fairness is kept with exact counters, without unfair executions, and never
\* at the price of stopping everyone.
FairnessExact == WindowExact /\ FairExecutionsEnd /\ YieldsNeverStall
=============================================================================
