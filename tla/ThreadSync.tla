----------------------------- MODULE ThreadSync -----------------------------
(***************************************************************************)
(* One execution of a user program under the control of the model checker: *)
(* the run loop of ModelChecker::run, the Scheduler's enabled array, the   *)
(* Thread life cycle, and the blocking primitives (mutex, condition        *)
(* variable, create / join / finish, yield) of ModelExecution.             *)
(*                                                                         *)
(* The user program is arbitrary: whenever a thread runs to its next       *)
(* visible operation the operation is chosen freely, subject to what the   *)
(* C++ interface requires of a caller (only the owner unlocks or waits,    *)
(* only a created thread is joined).  The order in which enabled threads   *)
(* run is free too: replay, backtracking and round robin between them try  *)
(* every choice, and no property below may depend on which is tried.       *)
(* Memory accesses, clock vectors, promises and sleep sets are left to     *)
(* other modules; all that is seen of them here is whether the execution   *)
(* is a feasible prefix after a step, which may be so or not.              *)
(***************************************************************************)
EXTENDS Integers, FiniteSets, Sequences, SequencesExt

CONSTANTS
    MaxThreads,     \* user threads are 1..MaxThreads; id 0 is the model thread
    Mutexes,        \* std::mutex objects
    CondVars,       \* std::condition_variable objects
    MaxOps,         \* visible operations a user thread issues before finishing
    YieldBlock      \* params.yieldblock

ASSUME ThreadSyncAssumption ==
    /\ MaxThreads \in Nat \ {0}
    /\ MaxOps \in Nat
    /\ YieldBlock \in BOOLEAN
    /\ 0 \notin Mutexes
    /\ 0 \notin CondVars

VARIABLES
    pc,         \* position in run: "stash", "choose", "check", "over" or "end"
    state,      \* Thread::state ("NONE" before the Thread object exists)
    enabled,    \* Scheduler::enabled (TRUE for THREAD_ENABLED)
    pending,    \* Thread::pending
    nthreads,   \* number of user threads created so far
    next,       \* the thread take_step forces to run next, or NULL
    locked,     \* mutex_state::locked
    waiters,    \* condvar_waiters_map: threads of the queued wait actions
    prefix,     \* isfeasibleprefix(): nothing is open, nothing impossible
    bug,        \* have_bug_reports()
    asserted,   \* has_asserted(): a bug was reported on a feasible prefix
    failure,    \* "ok", or how the model checker itself failed
    deadlock,   \* next_execution reported "Deadlock detected"
    owns,       \* user side: the mutexes a thread's calls have acquired
    relock,     \* user side: the mutex wait() must take again, or NULL
    ops         \* user side: operations issued so far

schedVars == <<state, enabled, pending, nthreads, next>>
syncVars  == <<locked, waiters>>
userVars  == <<owns, relock, ops>>
bugVars   == <<bug, asserted>>
vars == <<pc, schedVars, syncVars, prefix, bugVars, failure, deadlock, userVars>>

NULL    == 0
Threads == 1..MaxThreads
Main    == 1

\* The visible operations; fields an operation does not use are NULL.
Act(op, m, c, u) == [op |-> op, mtx |-> m, cnd |-> c, thr |-> u]
NoAct == Act("NONE", NULL, NULL, NULL)
OpNames == {"NONE", "START", "FINISH", "CREATE", "JOIN", "YIELD", "LOCK",
            "TRYLOCK", "UNLOCK", "WAIT", "NOTIFY_ONE", "NOTIFY_ALL"}
Actions == [op : OpNames, mtx : Mutexes \cup {NULL}, cnd : CondVars \cup {NULL},
            thr : Threads \cup {NULL}]
ThreadStates == {"NONE", "CREATED", "READY", "BLOCKED", "COMPLETED"}

Created(t)  == state[t] # "NONE"
Live(t)     == state[t] \notin {"NONE", "COMPLETED"}
-----------------------------------------------------------------------------
(***************************************************************************)
(* Queries of the code.                                                    *)
(***************************************************************************)

\* The Thread a pending action makes its thread wait on, given who holds what.
WaitsOn(act, holder) ==
    CASE act.op = "JOIN" -> act.thr
      [] act.op = "LOCK" -> holder[act.mtx]
      [] OTHER -> NULL

waiting_on(t) == WaitsOn(pending[t], locked)

\* Mutant: look only at the thread waited on directly.
is_waiting_on_Direct(t, pend) == WaitsOn(pend[t], locked) = t

\* Whom t waits on, whom that thread waits on, and so on.
Chain(t, pend) ==
    LET hop[i \in 0..MaxThreads] ==
          IF i = 0 THEN t
          ELSE IF hop[i-1] = NULL THEN NULL ELSE WaitsOn(pend[hop[i-1]], locked)
    IN  hop

\* Follow the chain of waiting threads from t until it ends or meets t again.
\* At most MaxThreads hops matter: a longer chain repeats a thread.
is_waiting_on(t, pend) == \E i \in 1..MaxThreads : Chain(t, pend)[i] = t

\* The loop of is_waiting_on has no other way out: a chain that leads into a
\* circle of other threads is followed for ever.
NeverReturns(t, pend) == \A i \in 1..MaxThreads : Chain(t, pend)[i] \notin {NULL, t}

\* Mutant: a lock is always enabled.
check_action_enabled_NoLock(act) ==
    act.op = "JOIN" => state[act.thr] = "COMPLETED"

check_action_enabled(act) ==
    CASE act.op = "LOCK"  -> locked[act.mtx] = NULL
      [] act.op = "JOIN"  -> state[act.thr] = "COMPLETED"
      [] act.op = "YIELD" -> ~YieldBlock
      [] OTHER -> TRUE

is_yieldblocked == YieldBlock /\ \E t \in Threads : pending[t].op = "YIELD"

is_complete_execution == ~is_yieldblocked /\ \A t \in Threads : ~enabled[t]

\* Mutant: a deadlock needs every thread to be blocked.
is_deadlocked_All ==
    /\ \A t \in Threads : ~enabled[t]
    /\ \A t \in Threads : pending[t] # NoAct

is_deadlocked ==
    /\ \A t \in Threads : ~enabled[t]
    /\ \E t \in Threads : pending[t] # NoAct
-----------------------------------------------------------------------------
(***************************************************************************)
(* The run loop: stash the next action of every thread that has none, then *)
(* disable the threads whose action cannot run.                            *)
(***************************************************************************)

\* MaxThreads bounds the program, not the code.
MayCreate == nthreads + Cardinality({u \in Threads : pending[u].op = "CREATE"}) < MaxThreads

\* What a thread's user code may ask for next.
UserActions(t) ==
    IF state[t] = "CREATED" THEN {Act("START", NULL, NULL, NULL)}
    ELSE IF relock[t] # NULL THEN {Act("LOCK", relock[t], NULL, NULL)}
    ELSE {Act("FINISH", NULL, NULL, NULL)} \cup
         IF ops[t] = MaxOps THEN {} ELSE
              {Act("LOCK", m, NULL, NULL) : m \in Mutexes}
         \cup {Act("TRYLOCK", m, NULL, NULL) : m \in Mutexes \ owns[t]}
         \cup {Act("UNLOCK", m, NULL, NULL) : m \in owns[t]}
         \cup {Act("WAIT", m, c, NULL) : m \in owns[t], c \in CondVars}
         \cup {Act("NOTIFY_ONE", NULL, c, NULL) : c \in CondVars}
         \cup {Act("NOTIFY_ALL", NULL, c, NULL) : c \in CondVars}
         \cup {Act("CREATE", NULL, NULL, NULL) : u \in {v \in {t} : MayCreate}}
         \cup {Act("JOIN", NULL, NULL, u) : u \in {v \in Threads : Created(v)}}
         \cup {Act("YIELD", NULL, NULL, NULL)}

NeedsStash(t) == Live(t) /\ pending[t] = NoAct

\* The model checker stops in the middle of a step, or never gets out of it.
Fail(how) ==
    /\ failure' = how
    /\ pc' = "end"
    /\ UNCHANGED <<schedVars, syncVars, prefix, bugVars, deadlock, userVars>>

\* The report is kept; it ends the execution at once only on a feasible prefix.
assert_bug == bug' = TRUE /\ asserted' = (asserted \/ prefix)

\* switch_from_master / switch_to_master: thread t runs (RUNNING, then READY
\* again) up to its next operation; a circle through t is a bug.
Stash(t) ==
    /\ pc = "stash"
    /\ NeedsStash(t)
    /\ \A u \in 1..t-1 : ~NeedsStash(u)
    /\ \E a \in UserActions(t) :
          LET pend == [pending EXCEPT ![t] = a]
          IN  \/ /\ NeverReturns(t, pend)
                 /\ Fail("is_waiting_on never returns")
              \/ /\ ~NeverReturns(t, pend)
                 /\ pending' = pend
                 /\ IF is_waiting_on(t, pend) THEN assert_bug ELSE UNCHANGED bugVars
                 /\ ops' = IF a.op \in {"START", "FINISH"} \/ relock[t] # NULL
                           THEN ops ELSE [ops EXCEPT ![t] = @ + 1]
                 /\ state' = [state EXCEPT ![t] = "READY"]
                 /\ relock' = [relock EXCEPT ![t] = NULL]
                 /\ UNCHANGED <<pc, enabled, nthreads, next, syncVars, prefix, failure, deadlock, owns>>

\* Don't schedule threads which should be disabled.
ShouldSleep(t) ==
    pending[t] # NoAct /\ enabled[t] /\ ~check_action_enabled(pending[t])

\* Leaving the loop over the threads: stop on an assertion or choose a thread.
Disable ==
    /\ pc = "stash"
    /\ \A t \in Threads : ~NeedsStash(t)
    /\ enabled' = [t \in Threads |-> enabled[t] /\ ~ShouldSleep(t)]
    /\ state' = [t \in Threads |-> IF ShouldSleep(t) THEN "BLOCKED" ELSE state[t]]
    /\ pc' = IF asserted THEN "over" ELSE "choose"
    /\ UNCHANGED <<pending, nthreads, next, syncVars, prefix, bugVars, failure, deadlock, userVars>>
-----------------------------------------------------------------------------
(***************************************************************************)
(* take_step: one action per operation.                                    *)
(***************************************************************************)

\* The thread the run loop takes: forced by the last step, or any enabled one.
Chosen(t) == IF next # NULL THEN t = next ELSE enabled[t]

\* Consume the pending action of the chosen thread.
TakeStep(t, op) ==
    /\ pc = "choose"
    /\ Chosen(t)
    /\ pending[t].op = op
    /\ state[t] = "READY" /\ check_action_enabled(pending[t])  \* ASSERTs of take_step
    /\ pending' = [pending EXCEPT ![t] = NoAct]
    /\ pc' = "check"

\* Scheduler::wake on every thread of S; Thread::set_state asserts that no
\* thread of S has completed.
WakeFails(S) == \E u \in S : state[u] = "COMPLETED"
\* Mutant: the scheduler's array is updated, the thread's state is not.
Wake_NoState(S) ==
    /\ enabled' = [u \in Threads |-> enabled[u] \/ u \in S]
    /\ UNCHANGED state

Wake(S) ==
    /\ enabled' = [u \in Threads |-> enabled[u] \/ u \in S]
    /\ state' = [u \in Threads |-> IF u \in S THEN "READY" ELSE state[u]]

Quiet == UNCHANGED <<prefix, bugVars, failure, deadlock>>

Start(t) ==
    /\ TakeStep(t, "START")
    /\ next' = NULL
    /\ UNCHANGED <<state, enabled, nthreads, syncVars, userVars>> /\ Quiet

Yield(t) ==
    /\ TakeStep(t, "YIELD")
    /\ next' = NULL
    /\ UNCHANGED <<state, enabled, nthreads, syncVars, userVars>> /\ Quiet

\* The child runs next.
Create(t) ==
    /\ TakeStep(t, "CREATE")
    /\ nthreads < MaxThreads
    /\ nthreads' = nthreads + 1
    /\ next' = nthreads + 1
    /\ state' = [state EXCEPT ![nthreads + 1] = "CREATED"]
    /\ enabled' = [enabled EXCEPT ![nthreads + 1] = TRUE]
    /\ UNCHANGED <<syncVars, userVars>> /\ Quiet

Join(t) ==
    /\ TakeStep(t, "JOIN")
    /\ next' = NULL
    /\ UNCHANGED <<state, enabled, nthreads, syncVars, userVars>> /\ Quiet

\* Wake the joiners, then complete and leave the scheduler.
Joiners(t) == {u \in Threads : pending[u].op = "JOIN" /\ waiting_on(u) = t}
Finish(t) ==
    /\ TakeStep(t, "FINISH")
    /\ next' = NULL
    /\ state' = [u \in Threads |-> IF u = t THEN "COMPLETED"
                                   ELSE IF u \in Joiners(t) THEN "READY" ELSE state[u]]
    /\ enabled' = [u \in Threads |-> u # t /\ (enabled[u] \/ u \in Joiners(t))]
    /\ UNCHANGED <<nthreads, syncVars, userVars>> /\ Quiet

\* Mutant: the untyped mutex_state::locked gets the mutex, not the thread.
Acquire_Mutex(t, m) ==
    /\ locked' = [locked EXCEPT ![m] = m]
    /\ owns' = [owns EXCEPT ![t] = @ \cup {m}]

Acquire(t, m) ==
    /\ locked' = [locked EXCEPT ![m] = t]
    /\ owns' = [owns EXCEPT ![t] = @ \cup {m}]

Lock(t) ==
    /\ TakeStep(t, "LOCK")
    /\ next' = NULL
    /\ Acquire(t, pending[t].mtx)
    /\ UNCHANGED <<state, enabled, nthreads, waiters, relock, ops>> /\ Quiet

TryLock(t) ==
    /\ TakeStep(t, "TRYLOCK")
    /\ next' = NULL
    /\ IF locked[pending[t].mtx] = NULL
       THEN Acquire(t, pending[t].mtx)
       ELSE UNCHANGED <<locked, owns>>
    /\ UNCHANGED <<state, enabled, nthreads, waiters, relock, ops>> /\ Quiet

\* Mutant: the lock is released before checking who was waiting on it.
LockWaiters_AfterRelease(t) ==
    {u \in Threads : /\ pending[u].op = "LOCK" /\ waiting_on(u) = t
                     /\ pending[u].mtx # pending[t].mtx}

\* Every thread about to lock a mutex that t holds, whichever mutex it is.
LockWaiters(t) == {u \in Threads : pending[u].op = "LOCK" /\ waiting_on(u) = t}

Release(t, m) ==
    /\ locked' = [locked EXCEPT ![m] = NULL]
    /\ owns' = [owns EXCEPT ![t] = @ \ {m}]

Unlock(t) ==
    /\ TakeStep(t, "UNLOCK")
    /\ next' = NULL
    /\ Wake(LockWaiters(t))
    /\ Release(t, pending[t].mtx)
    /\ UNCHANGED <<nthreads, waiters, relock, ops>> /\ Quiet

\* misc = 0 queues and disables the caller, misc = 1 is a spurious wakeup;
\* either way wait() goes on to lock the mutex again.
Wait(t) ==
    /\ TakeStep(t, "WAIT")
    /\ next' = NULL
    /\ Release(t, pending[t].mtx)
    /\ relock' = [relock EXCEPT ![t] = pending[t].mtx]
    /\ \/ /\ waiters' = [waiters EXCEPT ![pending[t].cnd] = Append(@, t)]
          /\ enabled' = [u \in Threads |-> u # t /\ (enabled[u] \/ u \in LockWaiters(t))]
          /\ state' = [u \in Threads |-> IF u = t THEN "BLOCKED"
                                         ELSE IF u \in LockWaiters(t) THEN "READY" ELSE state[u]]
       \/ Wake(LockWaiters(t)) /\ UNCHANGED waiters
    /\ UNCHANGED <<nthreads, ops>> /\ Quiet

NotifyAll(t) ==
    LET c == pending[t].cnd
        S == Range(waiters[c])
    IN  IF pending[t].op = "NOTIFY_ALL" /\ WakeFails(S)
        THEN pc = "choose" /\ Chosen(t) /\ Fail("wake of a completed thread")
        ELSE /\ TakeStep(t, "NOTIFY_ALL")
             /\ next' = NULL
             /\ Wake(S)
             /\ waiters' = [waiters EXCEPT ![c] = <<>>]
             /\ UNCHANGED <<nthreads, locked, userVars>> /\ Quiet

\* get_misc() ranges over the queue (Node::set_misc_max); with an empty queue
\* it is 0 and the iterator dereferenced is waiters->end().
NotifyOne(t) ==
    LET c == pending[t].cnd
    IN  /\ pc = "choose" /\ Chosen(t) /\ pending[t].op = "NOTIFY_ONE"
        /\ \/ waiters[c] = <<>> /\ Fail("no waiter to notify")
           \/ \E i \in 1..Len(waiters[c]) :
                IF WakeFails({waiters[c][i]})
                THEN Fail("wake of a completed thread")
                ELSE /\ TakeStep(t, "NOTIFY_ONE")
                     /\ next' = NULL
                     /\ Wake({waiters[c][i]})
                     /\ waiters' = [waiters EXCEPT ![c] = RemoveAt(@, i)]
                     /\ UNCHANGED <<nthreads, locked, userVars>> /\ Quiet

-----------------------------------------------------------------------------
(***************************************************************************)
(* The end of the loop and of the execution.                               *)
(***************************************************************************)

\* should_terminate_execution.  The step leaves the execution infeasible, or
\* open (a promise to be kept, a release sequence to be settled), or a feasible
\* prefix, on which an earlier report counts.  The length bound (off by
\* default) is left out.
should_terminate_execution ==
    /\ pc = "check"
    /\ \/ prefix' = FALSE /\ pc' = "over" /\ UNCHANGED asserted
       \/ prefix' = FALSE /\ pc' = "stash" /\ UNCHANGED asserted
       \/ prefix' = TRUE /\ ~bug /\ pc' = "stash" /\ UNCHANGED asserted
       \/ prefix' = TRUE /\ bug /\ pc' = "over" /\ asserted' = TRUE
    /\ UNCHANGED <<schedVars, syncVars, bug, failure, deadlock, userVars>>

\* next_execution, after the loop was left by one of its checks or because
\* get_next_thread found no thread.
EndExecution ==
    /\ \/ pc = "over"
       \/ pc = "choose" /\ next = NULL /\ \A t \in Threads : ~enabled[t]
    /\ deadlock' = (prefix /\ (is_complete_execution \/ bug) /\ is_deadlocked)
    /\ pc' = "end"
    /\ UNCHANGED <<schedVars, syncVars, prefix, bugVars, failure, userVars>>

\* Nothing happens after the end of the execution.
Ended == pc = "end" /\ UNCHANGED vars
-----------------------------------------------------------------------------
Init ==
    /\ pc = "stash"
    /\ state = [t \in Threads |-> IF t = Main THEN "CREATED" ELSE "NONE"]
    /\ enabled = [t \in Threads |-> t = Main]
    /\ pending = [t \in Threads |-> NoAct]
    /\ nthreads = 1
    /\ next = Main
    /\ locked = [m \in Mutexes |-> NULL]
    /\ waiters = [c \in CondVars |-> <<>>]
    /\ prefix = TRUE /\ bug = FALSE /\ asserted = FALSE
    /\ failure = "ok" /\ deadlock = FALSE
    /\ owns = [t \in Threads |-> {}]
    /\ relock = [t \in Threads |-> NULL]
    /\ ops = [t \in Threads |-> 0]

Step(t) ==
    \/ Start(t) \/ Yield(t) \/ Create(t) \/ Join(t) \/ Finish(t)
    \/ Lock(t) \/ TryLock(t) \/ Unlock(t)
    \/ Wait(t) \/ NotifyAll(t) \/ NotifyOne(t)

Next ==
    \/ \E t \in Threads : Stash(t) \/ Step(t)
    \/ Disable
    \/ should_terminate_execution
    \/ EndExecution
    \/ Ended

Spec == Init /\ [][Next]_vars
-----------------------------------------------------------------------------
(***************************************************************************)
(* Properties.                                                             *)
(***************************************************************************)

\* Every variable has the type its C++ counterpart has.
TypeOK ==
    /\ pc \in {"stash", "choose", "check", "over", "end"}
    /\ state \in [Threads -> ThreadStates]
    /\ enabled \in [Threads -> BOOLEAN]
    /\ pending \in [Threads -> Actions]
    /\ nthreads \in Threads
    /\ next \in Threads \cup {NULL}
    /\ locked \in [Mutexes -> Threads \cup {NULL}]
    /\ waiters \in [CondVars -> Seq(Threads)]
    /\ prefix \in BOOLEAN
    /\ bug \in BOOLEAN
    /\ asserted \in BOOLEAN
    /\ failure \in {"ok", "no waiter to notify", "wake of a completed thread",
                   "is_waiting_on never returns"}
    /\ deadlock \in BOOLEAN
    /\ owns \in [Threads -> SUBSET Mutexes]
    /\ relock \in [Threads -> Mutexes \cup {NULL}]
    /\ ops \in [Threads -> 0..MaxOps]

\* mutex_state::locked names a thread exactly when that thread's calls have
\* acquired the mutex and not given it back: no two threads are ever inside
\* one critical section, and no mutex stays locked by nobody.
MutexOwnership ==
    \A m \in Mutexes, t \in Threads : m \in owns[t] <=> locked[m] = t

\* The ASSERTs at the head of take_step hold for whichever thread the run loop
\* can choose: it has a pending action, is READY, and the action can execute.
TakeStepAsserts ==
    pc = "choose" => \A t \in Threads :
        Chosen(t) => /\ pending[t] # NoAct
                     /\ state[t] = "READY"
                     /\ check_action_enabled(pending[t])

\* A wait action of t is queued on some condition variable.
InQueue(t) == \E c \in CondVars : t \in Range(waiters[c])

\* The wait action was taken and the lock that follows it is not stashed yet.
BetweenWaitAndLock(t) == pending[t] = NoAct /\ relock[t] # NULL /\ InQueue(t)

\* A thread that is alive and not schedulable is waiting for something that has
\* not happened yet: a mutex still held, a thread still alive, or (its wait
\* action still queued) a notification, before or after it asks for the mutex.
Blocked(t) ==
    \/ pending[t].op = "LOCK" /\ locked[pending[t].mtx] # NULL
    \/ pending[t].op = "JOIN" /\ state[pending[t].thr] # "COMPLETED"
    \/ pending[t].op = "LOCK" /\ InQueue(t)
    \/ BetweenWaitAndLock(t)
    \/ pending[t].op = "YIELD" /\ YieldBlock

\* No wakeup is lost: when the run loop chooses, every live thread it cannot
\* choose is really blocked (unlock, notify and finish woke all the others).
NoLostWakeup ==
    pc = "choose" => \A t \in Threads : Live(t) /\ ~enabled[t] => Blocked(t)

\* Threads that all wait for each other.
Circle(S) == S # {} /\ \A t \in S : waiting_on(t) \in S

\* Checking each thread for a circle only when its next action is stashed is
\* enough: a circle is reported as soon as it stands.  The run loop goes on with
\* it only while the execution is not known to be feasible, and is_waiting_on
\* is caught only in a circle that was reported before.
WaitCyclesReported ==
    /\ (\E S \in SUBSET Threads : Circle(S)) => bug
    /\ pc = "choose" /\ bug => ~prefix
    /\ failure = "is_waiting_on never returns" => bug /\ ~prefix

\* A reported deadlock is one: a thread is left over, and every thread left over
\* is really blocked.  An execution that ends by itself, feasible and without
\* an earlier report, is called a deadlock whenever a thread is left over.
DeadlockReportExact ==
    pc = "end" /\ failure = "ok" =>
        /\ deadlock => /\ \E t \in Threads : Live(t)
                       /\ \A t \in Threads : Live(t) => Blocked(t)
        /\ (prefix /\ ~bug /\ ~YieldBlock) =>
              (deadlock <=> \E t \in Threads : Live(t))
=============================================================================
