-------------------------- MODULE ThreadSyncProofs --------------------------
(***************************************************************************)
(* The safety properties of ThreadSync for any number of threads, mutexes, *)
(* condition variables and operations.  They need one inductive invariant: *)
(* what a disabled thread waits for must be known also between the steps   *)
(* of the run loop, while pending actions are missing.  That cycles of     *)
(* waiting threads are reported needs a second one, about the threads that *)
(* wait for each other as long as nothing is asserted.                     *)
(***************************************************************************)
EXTENDS ThreadSync, FiniteSetTheorems, WellFoundedInduction, TLAPS

\* A thread object exists exactly for the ids given out so far.
IdsInOrder == \A t \in Threads : Created(t) <=> t <= nthreads

\* A thread that does not run has no action and is not schedulable; a new
\* thread is schedulable and has no action yet; a schedulable one is READY.
LifeCycle ==
    \A t \in Threads :
        /\ ~Live(t) => pending[t] = NoAct /\ ~enabled[t] /\ relock[t] = NULL
        /\ state[t] = "CREATED" => pending[t] = NoAct /\ enabled[t] /\ relock[t] = NULL
        /\ enabled[t] => state[t] \in {"CREATED", "READY"}
        /\ relock[t] # NULL => pending[t] = NoAct

\* The operands of a pending action, and what the caller must have for it.
Operands ==
    \A t \in Threads :
        /\ pending[t].op = "NONE" => pending[t] = NoAct
        /\ pending[t].op \in {"LOCK", "TRYLOCK"} => pending[t].mtx \in Mutexes
        /\ pending[t].op \in {"UNLOCK", "WAIT"} => pending[t].mtx \in owns[t]
        /\ pending[t].op \in {"WAIT", "NOTIFY_ONE", "NOTIFY_ALL"} => pending[t].cnd \in CondVars
        /\ pending[t].op = "JOIN" => pending[t].thr \in Threads

\* A forced thread is a new one, about to start.
ForcedThread ==
    next # NULL => /\ enabled[next]
                   /\ state[next] = "CREATED" \/ pending[next].op = "START"

NoLostWakeupEver ==
    pc # "end" => \A t \in Threads :
        Live(t) /\ ~enabled[t] => Blocked(t)

\* Only threads that exist have wait actions.
QueuedExist == \A t \in Threads : InQueue(t) => Created(t)

\* A report and a feasible prefix end the loop, and nothing else does but an
\* execution that is not one.
BugEndsPrefix ==
    /\ pc \in {"stash", "choose"} /\ prefix /\ bug => asserted
    /\ pc \in {"choose", "check"} => ~asserted
    /\ asserted => bug
    /\ pc = "over" /\ prefix => bug

\* When the run loop chooses, every live thread has an action that, if the
\* thread is schedulable, can execute.
Stashed ==
    pc = "choose" => \A t \in Threads :
        /\ Live(t) => pending[t] # NoAct
        /\ enabled[t] => check_action_enabled(pending[t])

IInv ==
    /\ TypeOK
    /\ MutexOwnership
    /\ IdsInOrder
    /\ LifeCycle
    /\ Operands
    /\ ForcedThread
    /\ QueuedExist
    /\ NoLostWakeupEver
    /\ Stashed
    /\ DeadlockReportExact
-----------------------------------------------------------------------------
\* Removing position i from a queue keeps the elements, hence the threads, at
\* every other position (waiters->erase in process_mutex).
LEMMA RemoveAtKeeps ==
    ASSUME NEW S, NEW s \in Seq(S), NEW i \in 1..Len(s)
    PROVE  /\ RemoveAt(s, i) \in Seq(S)
           /\ \A x \in Range(s) : x = s[i] \/ x \in Range(RemoveAt(s, i))
           /\ \A x \in Range(RemoveAt(s, i)) : x \in Range(s)
<1> DEFINE front == SubSeq(s, 1, i-1)
           back  == SubSeq(s, i+1, Len(s))
           r     == front \o back
<1>1. front \in Seq(S) /\ Len(front) = i-1 /\ \A j \in 1..i-1 : front[j] = s[j]
  OBVIOUS
<1>2. back \in Seq(S) /\ Len(back) = Len(s)-i /\ \A j \in 1..Len(s)-i : back[j] = s[i+j]
  OBVIOUS
<1> HIDE DEF front, back
<1>3. r \in Seq(S) /\ Len(r) = Len(s)-1
  BY <1>1, <1>2
<1>4. ASSUME NEW j \in 1..Len(s), j # i
      PROVE  s[j] \in Range(r)
  <2>1. CASE j < i
    <3>1. j \in DOMAIN r /\ r[j] = s[j]
      BY <1>1, <1>2, <1>3, <2>1
    <3> QED BY <3>1 DEF Range
  <2>2. CASE j > i
    <3>1. j-1 \in DOMAIN r /\ r[j-1] = back[j-i]
      BY <1>1, <1>2, <1>3, <2>2
    <3>2. back[j-i] = s[j]
      BY <1>2, <2>2
    <3> QED BY <3>1, <3>2 DEF Range
  <2> QED BY <1>4, <2>1, <2>2
<1>5. r = RemoveAt(s, i)
  BY DEF RemoveAt, front, back
<1>6. ASSUME NEW j \in DOMAIN r
      PROVE  r[j] \in Range(s)
  <2>1. CASE j < i
    <3>1. j \in DOMAIN s /\ r[j] = s[j]
      BY <1>1, <1>2, <1>3, <2>1
    <3> QED BY <3>1 DEF Range
  <2>2. CASE ~(j < i)
    <3>1. j-i+1 \in 1..Len(s)-i /\ r[j] = back[j-i+1]
      BY <1>1, <1>2, <1>3, <2>2
    <3>2. back[j-i+1] = s[i+(j-i+1)]
      BY <1>2, <3>1
    <3>3. i+(j-i+1) \in DOMAIN s
      BY <1>3, <3>1
    <3> QED BY <3>1, <3>2, <3>3 DEF Range
  <2> QED BY <2>1, <2>2
<1> QED BY <1>3, <1>4, <1>5, <1>6 DEF Range

\* Queueing a thread keeps the threads already queued and adds it.
LEMMA AppendKeeps ==
    ASSUME NEW S, NEW s \in Seq(S), NEW e \in S
    PROVE  /\ Append(s, e) \in Seq(S)
           /\ e \in Range(Append(s, e))
           /\ \A x \in Range(s) : x \in Range(Append(s, e))
           /\ \A x \in Range(Append(s, e)) : x \in Range(s) \/ x = e
<1>1. Append(s, e)[Len(s)+1] = e /\ Len(s)+1 \in DOMAIN Append(s, e)
  OBVIOUS
<1>2. \A j \in DOMAIN s : j \in DOMAIN Append(s, e) /\ Append(s, e)[j] = s[j]
  OBVIOUS
<1>3. \A j \in DOMAIN Append(s, e) : j \in DOMAIN s \/ Append(s, e)[j] = e
  OBVIOUS
<1> QED BY <1>1, <1>2, <1>3 DEF Range
-----------------------------------------------------------------------------
\* What the proofs need to know of the constants and of the action records.
LEMMA Basics ==
    /\ NULL \notin Threads /\ NULL \notin Mutexes /\ NULL \notin CondVars
    /\ Main \in Threads
    /\ NoAct \in Actions /\ NoAct.op = "NONE"
    /\ \A a \in Actions : /\ a.op \in OpNames
                          /\ a.mtx \in Mutexes \cup {NULL}
                          /\ a.cnd \in CondVars \cup {NULL}
                          /\ a.thr \in Threads \cup {NULL}
BY ThreadSyncAssumption DEF NULL, Threads, Main, NoAct, Act, Actions, OpNames

\* What holds in the state in which take_step consumes t's action.
LEMMA TakeStepFacts ==
    ASSUME IInv, NEW t \in Threads, NEW op \in OpNames \ {"NONE"}, TakeStep(t, op)
    PROVE  /\ pc = "choose" /\ pc' = "check"
           /\ state[t] = "READY"
           /\ Live(t)
           /\ relock[t] = NULL
           /\ enabled[t]
           /\ pending[t].op = op
           /\ pending[t] # NoAct
           /\ pending' = [pending EXCEPT ![t] = NoAct]
           /\ pending' \in [Threads -> Actions]
           /\ pending'[t] = NoAct
           /\ \A u \in Threads \ {t} : pending'[u] = pending[u]
<1> USE Basics
<1>1. pc = "choose" /\ pc' = "check" /\ state[t] = "READY" /\ pending[t].op = op
      /\ pending' = [pending EXCEPT ![t] = NoAct] /\ Chosen(t)
  BY DEF TakeStep
<1>2. pending[t] # NoAct
  BY <1>1
<1>3. relock[t] = NULL
  BY <1>2 DEF IInv, LifeCycle
<1>4. enabled[t]
  BY <1>1 DEF Chosen, IInv, ForcedThread
<1>5. pending \in [Threads -> Actions]
  BY DEF IInv, TypeOK
<1> QED BY <1>1, <1>2, <1>3, <1>4, <1>5 DEF Live

\* START, YIELD and JOIN only consume the pending action.
LEMMA SilentStep ==
    ASSUME IInv, NEW t \in Threads, NEW op \in OpNames \ {"NONE"}, TakeStep(t, op),
           next' = NULL,
           UNCHANGED <<state, enabled, nthreads, syncVars, userVars>>, Quiet
    PROVE  IInv'
<1>1. /\ pc' = "check"
      /\ Live(t) /\ relock[t] = NULL /\ enabled[t] /\ state[t] = "READY"
      /\ pending' \in [Threads -> Actions]
      /\ pending'[t] = NoAct
      /\ \A u \in Threads \ {t} : pending'[u] = pending[u]
  BY TakeStepFacts
<1>2. /\ state' = state /\ enabled' = enabled /\ nthreads' = nthreads
      /\ locked' = locked /\ waiters' = waiters
      /\ owns' = owns /\ relock' = relock /\ ops' = ops
      /\ prefix' = prefix /\ bug' = bug /\ asserted' = asserted
      /\ failure' = failure /\ deadlock' = deadlock
  BY DEF syncVars, userVars, Quiet, bugVars
<1>3. TypeOK'
  BY <1>1, <1>2 DEF IInv, TypeOK
<1>4. MutexOwnership'
  BY <1>2 DEF IInv, MutexOwnership
<1>5. IdsInOrder'
  BY <1>2 DEF IInv, IdsInOrder, Created
<1>6. LifeCycle'
  BY <1>1, <1>2 DEF IInv, LifeCycle, Live
<1>7. Operands'
  BY <1>1, <1>2, Basics DEF IInv, Operands
<1>8. ForcedThread'
  BY DEF ForcedThread
<1>9. NoLostWakeupEver'
  <2>1. \A u : InQueue(u)' <=> InQueue(u)
    BY <1>2 DEF InQueue
  <2> SUFFICES ASSUME NEW u \in Threads, Live(u), ~enabled[u]
               PROVE  Blocked(u)'
    BY <1>2 DEF NoLostWakeupEver, Live
  <2>2. u # t /\ pending'[u] = pending[u]
    BY <1>1
  <2>3. Blocked(u)
    BY TakeStepFacts DEF IInv, NoLostWakeupEver
  <2> QED BY <1>2, <2>1, <2>2, <2>3 DEF Blocked, BetweenWaitAndLock
<1>10. Stashed' /\ DeadlockReportExact'
  BY <1>1 DEF Stashed, DeadlockReportExact
<1>q. QueuedExist'
  BY <1>2 DEF IInv, QueuedExist, InQueue, Created
<1> QED BY <1>3, <1>4, <1>5, <1>6, <1>7, <1>8, <1>9, <1>10, <1>q DEF IInv


\* A step changes the mutexes of the caller only, so that the pending actions
\* of the other threads keep what they need.
LEMMA OperandsKept ==
    ASSUME IInv, NEW t \in Threads, NEW op \in OpNames \ {"NONE"}, TakeStep(t, op),
           \A u \in Threads \ {t} : owns'[u] = owns[u]
    PROVE  Operands'
BY TakeStepFacts, Basics DEF IInv, Operands

\* Nothing is claimed between a step and the next choice.
LEMMA StashingClaims ==
    ASSUME pc' \notin {"choose", "end"}
    PROVE  Stashed' /\ DeadlockReportExact'
BY DEF Stashed, DeadlockReportExact

\* CREATE gives out the next id and schedules the child first.
LEMMA CreateStep ==
    ASSUME IInv, NEW t \in Threads, Create(t)
    PROVE  IInv'
<1> DEFINE child == nthreads + 1
<1>0. TakeStep(t, "CREATE") /\ "CREATE" \in OpNames \ {"NONE"}
  BY DEF Create, OpNames
<1>1. /\ pc' = "check"
      /\ Live(t) /\ relock[t] = NULL /\ enabled[t] /\ state[t] = "READY"
      /\ pending' \in [Threads -> Actions]
      /\ pending'[t] = NoAct
      /\ \A u \in Threads \ {t} : pending'[u] = pending[u]
  BY <1>0, TakeStepFacts
<1>2. /\ next' = child /\ nthreads' = child
      /\ state' = [state EXCEPT ![child] = "CREATED"]
      /\ enabled' = [enabled EXCEPT ![child] = TRUE]
      /\ locked' = locked /\ waiters' = waiters
      /\ owns' = owns /\ relock' = relock /\ ops' = ops
      /\ prefix' = prefix /\ bug' = bug /\ asserted' = asserted
      /\ failure' = failure /\ deadlock' = deadlock
  BY DEF Create, syncVars, userVars, Quiet, bugVars
<1>3. child \in Threads
  <2>1. nthreads \in Threads
    BY DEF IInv, TypeOK
  <2>2. nthreads < MaxThreads
    BY DEF Create
  <2> QED BY <2>1, <2>2, ThreadSyncAssumption DEF Threads
<1>4. state[child] = "NONE"
  <2>0. nthreads \in Threads
    BY DEF IInv, TypeOK
  <2>1. nthreads \in Nat
    BY <2>0, ThreadSyncAssumption DEF Threads
  <2>2. ~(child <= nthreads)
    BY <2>1
  <2> QED BY <1>3, <2>2 DEF IInv, IdsInOrder, Created
<1> HIDE DEF child
<1>5. child # t /\ ~Live(child)
  BY <1>1, <1>4 DEF Live
<1>6. pending[child] = NoAct /\ relock[child] = NULL
  BY <1>3, <1>5 DEF IInv, LifeCycle
<1>7. /\ state'[child] = "CREATED" /\ enabled'[child] = TRUE
      /\ \A u \in Threads \ {child} : state'[u] = state[u] /\ enabled'[u] = enabled[u]
  BY <1>2, <1>3 DEF IInv, TypeOK
<1>8. TypeOK'
  <2>1. state' \in [Threads -> ThreadStates]
    BY <1>2 DEF IInv, TypeOK, ThreadStates
  <2>2. enabled' \in [Threads -> BOOLEAN]
    BY <1>2 DEF IInv, TypeOK
  <2> QED BY <1>1, <1>2, <1>3, <2>1, <2>2 DEF IInv, TypeOK
<1>9. MutexOwnership'
  BY <1>2 DEF IInv, MutexOwnership
<1>10. IdsInOrder'
  <2> SUFFICES ASSUME NEW u \in Threads PROVE Created(u)' <=> u <= nthreads + 1
    BY <1>2 DEF IdsInOrder, child
  <2>1. CASE u = child
    BY <2>1, <1>7, <1>3 DEF Created, child, Threads
  <2>2. CASE u # child
    <3>1. u <= nthreads + 1 <=> u <= nthreads
      <4>1. nthreads \in Int /\ u \in Int
        <5>1. nthreads \in Threads
          BY DEF IInv, TypeOK
        <5> QED BY <5>1, ThreadSyncAssumption DEF Threads
      <4> QED BY <4>1, <2>2 DEF child
    <3> QED BY <3>1, <2>2, <1>7 DEF IInv, IdsInOrder, Created
  <2> QED BY <2>1, <2>2
<1>11. LifeCycle'
  <2> SUFFICES ASSUME NEW u \in Threads
        PROVE (/\ ~Live(u) => pending[u] = NoAct /\ ~enabled[u] /\ relock[u] = NULL
               /\ state[u] = "CREATED" => pending[u] = NoAct /\ enabled[u] /\ relock[u] = NULL
               /\ enabled[u] => state[u] \in {"CREATED", "READY"}
               /\ relock[u] # NULL => pending[u] = NoAct)'
    BY DEF LifeCycle
  <2>1. CASE u = child
    BY <2>1, <1>1, <1>2, <1>5, <1>6, <1>7 DEF Live
  <2>2. CASE u # child
    BY <2>2, <1>1, <1>2, <1>7 DEF IInv, LifeCycle, Live
  <2> QED BY <2>1, <2>2
<1>12. Operands'
  BY <1>0, <1>2, OperandsKept
<1>13. ForcedThread'
  BY <1>1, <1>2, <1>3, <1>5, <1>6, <1>7, Basics DEF ForcedThread
<1>14. NoLostWakeupEver'
  <2>1. \A u : InQueue(u)' <=> InQueue(u)
    BY <1>2 DEF InQueue
  <2> SUFFICES ASSUME NEW u \in Threads, Live(u)', ~enabled'[u]
               PROVE  Blocked(u)'
    BY DEF NoLostWakeupEver
  <2>2. u # child /\ u # t
    BY <1>1, <1>5, <1>7
  <2>3. pending'[u] = pending[u] /\ Live(u) /\ ~enabled[u]
    BY <2>2, <1>1, <1>7 DEF Live
  <2>4. Blocked(u)
    BY <1>0, <2>3, TakeStepFacts DEF IInv, NoLostWakeupEver
  <2>5. \A v \in Threads : state'[v] = "COMPLETED" => state[v] = "COMPLETED"
    BY <1>7
  <2>6. pending[u].op = "JOIN" => pending[u].thr \in Threads
    BY DEF IInv, Operands
  <2> QED BY <1>2, <2>1, <2>3, <2>4, <2>5, <2>6 DEF Blocked, BetweenWaitAndLock
<1>q. QueuedExist'
  BY <1>2, <1>7 DEF IInv, QueuedExist, InQueue, Created
<1> QED BY <1>1, <1>8, <1>9, <1>10, <1>11, <1>12, <1>13, <1>14, <1>q, StashingClaims DEF IInv

\* FINISH wakes the joiners, so that no join waits for a completed thread.
LEMMA FinishStep ==
    ASSUME IInv, NEW t \in Threads, Finish(t)
    PROVE  IInv'
<1>0. TakeStep(t, "FINISH") /\ "FINISH" \in OpNames \ {"NONE"}
  BY DEF Finish, OpNames
<1>1. /\ pc = "choose" /\ pc' = "check"
      /\ Live(t) /\ relock[t] = NULL /\ enabled[t] /\ state[t] = "READY"
      /\ pending' \in [Threads -> Actions]
      /\ pending'[t] = NoAct
      /\ \A u \in Threads \ {t} : pending'[u] = pending[u]
  BY <1>0, TakeStepFacts
<1>2. /\ next' = NULL /\ nthreads' = nthreads
      /\ locked' = locked /\ waiters' = waiters
      /\ owns' = owns /\ relock' = relock /\ ops' = ops
      /\ prefix' = prefix /\ bug' = bug /\ asserted' = asserted
      /\ failure' = failure /\ deadlock' = deadlock
  BY DEF Finish, syncVars, userVars, Quiet, bugVars
<1>3. /\ state'[t] = "COMPLETED" /\ ~enabled'[t]
      /\ \A u \in Joiners(t) \ {t} : state'[u] = "READY" /\ enabled'[u]
      /\ \A u \in Threads \ {t} : u \notin Joiners(t) =>
             state'[u] = state[u] /\ enabled'[u] = enabled[u]
  BY DEF Finish, Joiners, IInv, TypeOK
<1>4. \A u \in Joiners(t) : pending[u].op = "JOIN" /\ pending[u].thr = t /\ pending[u] # NoAct
  BY Basics DEF Joiners, waiting_on, WaitsOn
<1>5. \A u \in Threads : pending[u].op = "JOIN" /\ u \notin Joiners(t) => pending[u].thr # t
  BY DEF Joiners, waiting_on, WaitsOn
<1>6. \A u \in Joiners(t) : Live(u) /\ state[u] # "CREATED" /\ u \in Threads
  BY <1>4 DEF IInv, LifeCycle, Joiners
<1>7. TypeOK'
  <2>1. state' \in [Threads -> ThreadStates]
    BY DEF Finish, IInv, TypeOK, ThreadStates
  <2>2. enabled' \in [Threads -> BOOLEAN]
    BY DEF Finish
  <2> QED BY <1>1, <1>2, <2>1, <2>2 DEF IInv, TypeOK
<1>8. MutexOwnership'
  BY <1>2 DEF IInv, MutexOwnership
<1>9. IdsInOrder'
  BY <1>1, <1>2, <1>3, <1>6 DEF IInv, IdsInOrder, Created, Live
<1>10. LifeCycle'
  BY <1>1, <1>2, <1>3, <1>6 DEF IInv, LifeCycle, Live
<1>11. Operands'
  BY <1>0, <1>2, OperandsKept
<1>12. ForcedThread'
  BY <1>2 DEF ForcedThread
<1>13. NoLostWakeupEver'
  <2>1. \A u : InQueue(u)' <=> InQueue(u)
    BY <1>2 DEF InQueue
  <2> SUFFICES ASSUME NEW u \in Threads, Live(u)', ~enabled'[u]
               PROVE  Blocked(u)'
    BY DEF NoLostWakeupEver
  <2>2. u # t
    BY <1>3 DEF Live
  <2>3. u \notin Joiners(t)
    BY <1>3, <2>2
  <2>4. pending'[u] = pending[u] /\ Live(u) /\ ~enabled[u]
    BY <2>2, <2>3, <1>1, <1>3 DEF Live
  <2>5. Blocked(u)
    BY <1>1, <2>4 DEF IInv, NoLostWakeupEver
  <2>6. pending[u].op = "JOIN" /\ state[pending[u].thr] # "COMPLETED"
        => state'[pending[u].thr] # "COMPLETED"
    BY <1>3, <1>5, <2>3 DEF IInv, Operands
  <2> QED BY <1>2, <2>1, <2>4, <2>5, <2>6 DEF Blocked, BetweenWaitAndLock
<1>q. QueuedExist'
  BY <1>2, <1>3 DEF IInv, QueuedExist, InQueue, Created
<1> QED BY <1>1, <1>7, <1>8, <1>9, <1>10, <1>11, <1>12, <1>13, <1>q, StashingClaims DEF IInv


\* LOCK, and TRYLOCK of a free mutex: the caller becomes the only owner.
LEMMA AcquireStep ==
    ASSUME IInv, NEW t \in Threads, NEW op \in {"LOCK", "TRYLOCK"}, TakeStep(t, op),
           locked[pending[t].mtx] = NULL, Acquire(t, pending[t].mtx), next' = NULL,
           UNCHANGED <<state, enabled, nthreads, waiters, relock, ops>>, Quiet
    PROVE  IInv'
<1> DEFINE m == pending[t].mtx
<1>0. op \in OpNames \ {"NONE"}
  BY DEF OpNames
<1>1. /\ pc = "choose" /\ pc' = "check"
      /\ Live(t) /\ relock[t] = NULL /\ enabled[t] /\ state[t] = "READY"
      /\ pending[t].op = op
      /\ pending' \in [Threads -> Actions]
      /\ pending'[t] = NoAct
      /\ \A u \in Threads \ {t} : pending'[u] = pending[u]
  BY <1>0, TakeStepFacts
<1>2. /\ state' = state /\ enabled' = enabled /\ nthreads' = nthreads
      /\ waiters' = waiters /\ relock' = relock /\ ops' = ops
      /\ prefix' = prefix /\ bug' = bug /\ asserted' = asserted
      /\ failure' = failure /\ deadlock' = deadlock
  BY DEF Quiet, bugVars
<1>3. m \in Mutexes
  BY <1>1 DEF IInv, Operands
<1>4. /\ locked'[m] = t /\ \A k \in Mutexes \ {m} : locked'[k] = locked[k]
      /\ locked' \in [Mutexes -> Threads \cup {NULL}]
  BY <1>3 DEF Acquire, IInv, TypeOK
<1>5. /\ owns'[t] = owns[t] \cup {m} /\ \A u \in Threads \ {t} : owns'[u] = owns[u]
      /\ owns' \in [Threads -> SUBSET Mutexes]
  BY <1>3 DEF Acquire, IInv, TypeOK
<1>6. TypeOK'
  BY <1>1, <1>2, <1>4, <1>5 DEF IInv, TypeOK
<1>7. MutexOwnership'
  <2> SUFFICES ASSUME NEW k \in Mutexes, NEW u \in Threads
               PROVE  k \in owns'[u] <=> locked'[k] = u
    BY DEF MutexOwnership
  <2>1. k \in owns[u] <=> locked[k] = u
    BY DEF IInv, MutexOwnership
  <2>2. NULL \notin Threads
    BY Basics
  <2> QED BY <1>3, <1>4, <1>5, <2>1, <2>2
<1>8. IdsInOrder'
  BY <1>2 DEF IInv, IdsInOrder, Created
<1>9. LifeCycle'
  BY <1>1, <1>2 DEF IInv, LifeCycle, Live
<1>10. Operands'
  BY <1>0, <1>5, OperandsKept
<1>11. ForcedThread'
  BY DEF ForcedThread
<1>12. NoLostWakeupEver'
  <2>1. \A u : InQueue(u)' <=> InQueue(u)
    BY <1>2 DEF InQueue
  <2> SUFFICES ASSUME NEW u \in Threads, Live(u), ~enabled[u]
               PROVE  Blocked(u)'
    BY <1>2 DEF NoLostWakeupEver, Live
  <2>2. u # t /\ pending'[u] = pending[u]
    BY <1>1
  <2>3. Blocked(u)
    BY <1>1 DEF IInv, NoLostWakeupEver
  <2>4. ASSUME NEW k \in Mutexes, locked[k] # NULL
        PROVE  locked'[k] # NULL
    BY <1>4, <2>4, Basics
  <2>5. pending[u].op = "LOCK" => pending[u].mtx \in Mutexes
    BY DEF IInv, Operands
  <2> QED BY <1>2, <2>1, <2>2, <2>3, <2>4, <2>5 DEF Blocked, BetweenWaitAndLock
<1>q. QueuedExist'
  BY <1>2 DEF IInv, QueuedExist, InQueue, Created
<1> QED BY <1>1, <1>6, <1>7, <1>8, <1>9, <1>10, <1>11, <1>12, <1>q, StashingClaims DEF IInv

LEMMA LockStep ==
    ASSUME IInv, NEW t \in Threads, Lock(t)
    PROVE  IInv'
<1>1. TakeStep(t, "LOCK") /\ "LOCK" \in OpNames \ {"NONE"}
  BY DEF Lock, OpNames
<1>2. pc = "choose" /\ enabled[t] /\ pending[t].op = "LOCK"
  BY <1>1, TakeStepFacts
<1>3. locked[pending[t].mtx] = NULL
  BY <1>2 DEF IInv, Stashed, check_action_enabled
<1> QED BY <1>1, <1>3, AcquireStep DEF Lock

LEMMA TryLockStep ==
    ASSUME IInv, NEW t \in Threads, TryLock(t)
    PROVE  IInv'
<1>1. TakeStep(t, "TRYLOCK") /\ "TRYLOCK" \in OpNames \ {"NONE"} /\ next' = NULL
  BY DEF TryLock, OpNames
<1>2. UNCHANGED <<state, enabled, nthreads, waiters, relock, ops>> /\ Quiet
  BY DEF TryLock
<1>3. CASE locked[pending[t].mtx] = NULL
  BY <1>1, <1>2, <1>3, AcquireStep DEF TryLock
<1>4. CASE locked[pending[t].mtx] # NULL
  <2>1. UNCHANGED <<syncVars, userVars>>
    BY <1>2, <1>4 DEF TryLock, syncVars, userVars
  <2> QED BY <1>1, <1>2, <2>1, SilentStep
<1> QED BY <1>3, <1>4

\* UNLOCK and WAIT wake every thread about to lock a mutex the caller holds,
\* hence everyone who waits for the released one; a queued caller sleeps.
LEMMA ReleaseStep ==
    ASSUME IInv, NEW t \in Threads, NEW op \in {"UNLOCK", "WAIT"}, TakeStep(t, op),
           Release(t, pending[t].mtx), next' = NULL,
           UNCHANGED <<nthreads, ops>>, Quiet,
           NEW r \in Mutexes \cup {NULL}, relock' = [relock EXCEPT ![t] = r],
           waiters' \in [CondVars -> Seq(Threads)],
           \A u \in Threads : InQueue(u) => InQueue(u)',
           \A u \in Threads : InQueue(u)' => InQueue(u) \/ u = t,
           state' \in [Threads -> ThreadStates], enabled' \in [Threads -> BOOLEAN],
           \A u \in LockWaiters(t) \ {t} : state'[u] = "READY" /\ enabled'[u],
           \A u \in Threads \ {t} : u \notin LockWaiters(t) =>
               state'[u] = state[u] /\ enabled'[u] = enabled[u],
           \/ state'[t] = "READY" /\ enabled'[t]
           \/ state'[t] = "BLOCKED" /\ ~enabled'[t] /\ r # NULL /\ InQueue(t)'
    PROVE  IInv'
<1> DEFINE m == pending[t].mtx
<1>0. op \in OpNames \ {"NONE"}
  BY DEF OpNames
<1>1. /\ pc = "choose" /\ pc' = "check"
      /\ Live(t) /\ relock[t] = NULL /\ enabled[t] /\ state[t] = "READY"
      /\ pending[t].op = op
      /\ pending' \in [Threads -> Actions]
      /\ pending'[t] = NoAct
      /\ \A u \in Threads \ {t} : pending'[u] = pending[u]
  BY <1>0, TakeStepFacts
<1>2. /\ nthreads' = nthreads /\ ops' = ops
      /\ prefix' = prefix /\ bug' = bug /\ asserted' = asserted
      /\ failure' = failure /\ deadlock' = deadlock
  BY DEF Quiet, bugVars
<1>3. m \in owns[t] /\ m \in Mutexes /\ locked[m] = t
  <2>1. m \in owns[t]
    BY <1>1 DEF IInv, Operands
  <2>2. m \in Mutexes
    BY <2>1 DEF IInv, TypeOK
  <2> QED BY <2>1, <2>2 DEF IInv, MutexOwnership
<1>4. /\ locked'[m] = NULL /\ \A k \in Mutexes \ {m} : locked'[k] = locked[k]
      /\ locked' \in [Mutexes -> Threads \cup {NULL}]
  BY <1>3 DEF Release, IInv, TypeOK
<1>5. /\ owns'[t] = owns[t] \ {m} /\ \A u \in Threads \ {t} : owns'[u] = owns[u]
      /\ owns' \in [Threads -> SUBSET Mutexes]
  BY <1>3 DEF Release, IInv, TypeOK
<1>6. /\ relock' \in [Threads -> Mutexes \cup {NULL}]
      /\ relock'[t] = r /\ \A u \in Threads \ {t} : relock'[u] = relock[u]
  BY DEF IInv, TypeOK
<1>7. \A u \in LockWaiters(t) : u \in Threads /\ pending[u].op = "LOCK" /\ pending[u] # NoAct
  BY Basics DEF LockWaiters
<1>8. \A u \in Threads : pending[u].op = "LOCK" /\ u \notin LockWaiters(t)
                         => locked[pending[u].mtx] # t
  BY DEF LockWaiters, waiting_on, WaitsOn
<1>9. \A u \in LockWaiters(t) : Live(u) /\ state[u] # "CREATED"
  BY <1>7 DEF IInv, LifeCycle
<1>10. TypeOK'
  BY <1>1, <1>2, <1>4, <1>5, <1>6 DEF IInv, TypeOK
<1>11. MutexOwnership'
  <2> SUFFICES ASSUME NEW k \in Mutexes, NEW u \in Threads
               PROVE  k \in owns'[u] <=> locked'[k] = u
    BY DEF MutexOwnership
  <2>1. k \in owns[u] <=> locked[k] = u
    BY DEF IInv, MutexOwnership
  <2>2. NULL \notin Threads
    BY Basics
  <2> QED BY <1>3, <1>4, <1>5, <2>1, <2>2
<1>12. IdsInOrder'
  <2>1. \A u \in Threads : Created(u)' <=> Created(u)
    BY <1>1, <1>7, <1>9 DEF Created, Live
  <2> QED BY <1>2, <2>1 DEF IInv, IdsInOrder
<1>13. LifeCycle'
  <2> SUFFICES ASSUME NEW u \in Threads
        PROVE (/\ ~Live(u) => pending[u] = NoAct /\ ~enabled[u] /\ relock[u] = NULL
               /\ state[u] = "CREATED" => pending[u] = NoAct /\ enabled[u] /\ relock[u] = NULL
               /\ enabled[u] => state[u] \in {"CREATED", "READY"}
               /\ relock[u] # NULL => pending[u] = NoAct)'
    BY DEF LifeCycle
  <2>1. CASE u = t
    BY <2>1, <1>1 DEF Live
  <2>2. CASE u # t /\ u \in LockWaiters(t)
    <3>1. state'[u] = "READY" /\ enabled'[u]
      BY <2>2
    <3>2. relock'[u] = NULL
      BY <2>2, <1>6, <1>7 DEF IInv, LifeCycle
    <3> QED BY <3>1, <3>2 DEF Live
  <2>3. CASE u # t /\ u \notin LockWaiters(t)
    BY <2>3, <1>1, <1>6 DEF IInv, LifeCycle, Live
  <2> QED BY <2>1, <2>2, <2>3
<1>14. Operands'
  BY <1>0, <1>5, OperandsKept
<1>15. ForcedThread'
  BY DEF ForcedThread
<1>16. NoLostWakeupEver'
  <2> SUFFICES ASSUME NEW u \in Threads, Live(u)', ~enabled'[u]
               PROVE  Blocked(u)'
    BY DEF NoLostWakeupEver
  <2>1. CASE u = t
    BY <2>1, <1>1, <1>6 DEF Blocked, BetweenWaitAndLock
  <2>2. CASE u # t
    <3>1. u \notin LockWaiters(t)
      BY <2>2
    <3>2. pending'[u] = pending[u] /\ Live(u) /\ ~enabled[u] /\ relock'[u] = relock[u]
      BY <2>2, <3>1, <1>1, <1>6 DEF Live
    <3>3. Blocked(u)
      BY <1>1, <3>2 DEF IInv, NoLostWakeupEver
    <3>4. pending[u].op = "LOCK" /\ locked[pending[u].mtx] # NULL
          => locked'[pending[u].mtx] # NULL
      BY <3>1, <1>3, <1>4, <1>8 DEF IInv, Operands
    <3>5. pending[u].op = "JOIN" /\ state[pending[u].thr] # "COMPLETED"
          => state'[pending[u].thr] # "COMPLETED"
      BY <1>1 DEF IInv, Operands
    <3> QED BY <3>2, <3>3, <3>4, <3>5 DEF Blocked, BetweenWaitAndLock
  <2> QED BY <2>1, <2>2
<1>q. QueuedExist'
  BY <1>1, <1>7 DEF IInv, QueuedExist, Created, Live
<1> QED BY <1>1, <1>10, <1>11, <1>12, <1>13, <1>14, <1>15, <1>16, <1>q, StashingClaims DEF IInv

\* Scheduler::wake only makes threads schedulable.
LEMMA WakeEffect ==
    ASSUME TypeOK, NEW S \in SUBSET Threads, Wake(S)
    PROVE  /\ state' \in [Threads -> ThreadStates] /\ enabled' \in [Threads -> BOOLEAN]
           /\ \A u \in S : state'[u] = "READY" /\ enabled'[u]
           /\ \A u \in Threads : u \notin S => state'[u] = state[u] /\ enabled'[u] = enabled[u]
<1>1. state' \in [Threads -> ThreadStates]
  BY DEF TypeOK, Wake, ThreadStates
<1>2. enabled' \in [Threads -> BOOLEAN]
  BY DEF Wake
<1> QED BY <1>1, <1>2 DEF TypeOK, Wake

LEMMA UnlockStep ==
    ASSUME IInv, NEW t \in Threads, Unlock(t)
    PROVE  IInv'
<1>1. TakeStep(t, "UNLOCK") /\ "UNLOCK" \in OpNames \ {"NONE"} /\ TypeOK
  BY DEF Unlock, OpNames, IInv
<1>2. /\ LockWaiters(t) \in SUBSET Threads /\ Wake(LockWaiters(t))
      /\ waiters' = waiters
  BY DEF Unlock, LockWaiters
<1>3. pending[t].op = "UNLOCK" /\ state[t] = "READY" /\ enabled[t] /\ relock[t] = NULL
  BY <1>1, TakeStepFacts
<1>4. state'[t] = "READY" /\ enabled'[t]
  BY <1>1, <1>2, <1>3, WakeEffect
<1>5. relock' = [relock EXCEPT ![t] = NULL]
  BY <1>3 DEF Unlock, IInv, TypeOK
<1>6. waiters' \in [CondVars -> Seq(Threads)] /\ \A u \in Threads : InQueue(u) <=> InQueue(u)'
  BY <1>1, <1>2 DEF TypeOK, InQueue
<1>7. Release(t, pending[t].mtx) /\ next' = NULL /\ UNCHANGED <<nthreads, ops>> /\ Quiet
  BY DEF Unlock
<1> QED BY <1>1, <1>2, <1>4, <1>5, <1>6, <1>7, WakeEffect, ReleaseStep

LEMMA WaitStep ==
    ASSUME IInv, NEW t \in Threads, Wait(t)
    PROVE  IInv'
<1> DEFINE W == LockWaiters(t)
           c == pending[t].cnd
           m == pending[t].mtx
<1>1. TakeStep(t, "WAIT") /\ "WAIT" \in OpNames \ {"NONE"} /\ TypeOK /\ W \in SUBSET Threads
  BY DEF Wait, OpNames, IInv, LockWaiters
<1>2. pending[t].op = "WAIT" /\ state[t] = "READY" /\ enabled[t]
  BY <1>1, TakeStepFacts
<1>3. c \in CondVars /\ m \in Mutexes
  BY <1>2 DEF IInv, Operands, TypeOK
<1>4. /\ Release(t, m) /\ next' = NULL /\ UNCHANGED <<nthreads, ops>> /\ Quiet
      /\ relock' = [relock EXCEPT ![t] = m] /\ m \in Mutexes \cup {NULL} /\ m # NULL
  BY <1>3, Basics DEF Wait
<1>5. CASE /\ waiters' = [waiters EXCEPT ![c] = Append(@, t)]
           /\ enabled' = [u \in Threads |-> u # t /\ (enabled[u] \/ u \in W)]
           /\ state' = [u \in Threads |-> IF u = t THEN "BLOCKED"
                                          ELSE IF u \in W THEN "READY" ELSE state[u]]
  <2>1. waiters[c] \in Seq(Threads)
    BY <1>1, <1>3 DEF TypeOK
  <2>2. waiters' \in [CondVars -> Seq(Threads)] /\ waiters'[c] = Append(waiters[c], t)
        /\ \A d \in CondVars \ {c} : waiters'[d] = waiters[d]
    BY <1>1, <1>3, <1>5, <2>1, AppendKeeps DEF TypeOK
  <2>3. /\ InQueue(t)' /\ \A u \in Threads : InQueue(u) => InQueue(u)'
        /\ \A u \in Threads : InQueue(u)' => InQueue(u) \/ u = t
    <3>1. /\ t \in Range(waiters'[c]) /\ \A x \in Range(waiters[c]) : x \in Range(waiters'[c])
          /\ \A x \in Range(waiters'[c]) : x \in Range(waiters[c]) \/ x = t
      BY <2>1, <2>2, AppendKeeps
    <3>2. InQueue(t)'
      BY <1>3, <3>1 DEF InQueue
    <3>3. \A u \in Threads : InQueue(u) => InQueue(u)'
      BY <1>3, <2>2, <3>1 DEF InQueue
    <3>4. \A u \in Threads : InQueue(u)' => InQueue(u) \/ u = t
      BY <1>3, <2>2, <3>1 DEF InQueue
    <3> QED BY <3>2, <3>3, <3>4
  <2>4. state' \in [Threads -> ThreadStates] /\ enabled' \in [Threads -> BOOLEAN]
    <3>1. state' \in [Threads -> ThreadStates]
      BY <1>1, <1>5 DEF TypeOK, ThreadStates
    <3>2. enabled' \in [Threads -> BOOLEAN]
      BY <1>5
    <3> QED BY <3>1, <3>2
  <2>5. /\ state'[t] = "BLOCKED" /\ ~enabled'[t]
        /\ \A u \in W \ {t} : state'[u] = "READY" /\ enabled'[u]
        /\ \A u \in Threads \ {t} : u \notin W => state'[u] = state[u] /\ enabled'[u] = enabled[u]
    BY <1>1, <1>5 DEF TypeOK
  <2> HIDE DEF W, m, c
  <2> QED BY <1>1, <1>4, <2>2, <2>3, <2>4, <2>5, ReleaseStep DEF W, m
<1>6. CASE Wake(W) /\ waiters' = waiters
  <2>1. state'[t] = "READY" /\ enabled'[t]
    BY <1>1, <1>2, <1>6, WakeEffect
  <2>2. waiters' \in [CondVars -> Seq(Threads)] /\ \A u \in Threads : InQueue(u) <=> InQueue(u)'
    BY <1>1, <1>6 DEF TypeOK, InQueue
  <2> QED BY <1>1, <1>4, <1>6, <2>1, <2>2, WakeEffect, ReleaseStep
<1> QED BY <1>5, <1>6 DEF Wait

\* NOTIFY_ALL and NOTIFY_ONE: whoever leaves a queue becomes schedulable.

\* NOTIFY_ALL and NOTIFY_ONE: whoever leaves a queue becomes schedulable.
LEMMA NotifyStep ==
    ASSUME IInv, NEW t \in Threads, NEW op \in OpNames \ {"NONE"}, TakeStep(t, op),
           next' = NULL, UNCHANGED <<nthreads, locked, userVars>>, Quiet,
           NEW S \in SUBSET Threads, ~WakeFails(S), Wake(S),
           \A u \in S : InQueue(u),
           waiters' \in [CondVars -> Seq(Threads)],
           \A u \in Threads \ S : InQueue(u) => InQueue(u)',
           \A u \in Threads : InQueue(u)' => InQueue(u)
    PROVE  IInv'
<1>1. /\ pc = "choose" /\ pc' = "check"
      /\ Live(t) /\ relock[t] = NULL /\ enabled[t] /\ state[t] = "READY"
      /\ pending[t].op = op
      /\ pending' \in [Threads -> Actions]
      /\ pending'[t] = NoAct
      /\ \A u \in Threads \ {t} : pending'[u] = pending[u]
  BY TakeStepFacts
<1>2. /\ nthreads' = nthreads /\ locked' = locked
      /\ owns' = owns /\ relock' = relock /\ ops' = ops
      /\ prefix' = prefix /\ bug' = bug /\ asserted' = asserted
      /\ failure' = failure /\ deadlock' = deadlock
  BY DEF userVars, Quiet, bugVars
<1>3. /\ state' \in [Threads -> ThreadStates] /\ enabled' \in [Threads -> BOOLEAN]
      /\ \A u \in S : state'[u] = "READY" /\ enabled'[u]
      /\ \A u \in Threads : u \notin S => state'[u] = state[u] /\ enabled'[u] = enabled[u]
  BY WakeEffect DEF IInv
<1>4. \A u \in S : Live(u)
  BY DEF WakeFails, IInv, QueuedExist, Created, Live
<1>5. TypeOK'
  BY <1>1, <1>2, <1>3 DEF IInv, TypeOK
<1>6. MutexOwnership'
  BY <1>2 DEF IInv, MutexOwnership
<1>7. IdsInOrder'
  <2>1. \A u \in Threads : Created(u)' <=> Created(u)
    BY <1>3, <1>4 DEF Created, Live
  <2> QED BY <1>2, <2>1 DEF IInv, IdsInOrder
<1>8. LifeCycle'
  BY <1>1, <1>2, <1>3, <1>4 DEF IInv, LifeCycle, Live
<1>9. Operands'
  BY <1>2, OperandsKept
<1>10. ForcedThread'
  BY DEF ForcedThread
<1>11. QueuedExist'
  BY <1>3, <1>4 DEF IInv, QueuedExist, Created, Live
<1>12. NoLostWakeupEver'
  <2> SUFFICES ASSUME NEW u \in Threads, Live(u)', ~enabled'[u]
               PROVE  Blocked(u)'
    BY DEF NoLostWakeupEver
  <2>1. u \notin S /\ Live(u) /\ ~enabled[u]
    BY <1>3 DEF Live
  <2>2. u # t /\ pending'[u] = pending[u]
    BY <1>1, <2>1
  <2>3. Blocked(u)
    BY <1>1, <2>1 DEF IInv, NoLostWakeupEver
  <2>4. InQueue(u) => InQueue(u)'
    BY <2>1
  <2>5. pending[u].op = "JOIN" /\ state[pending[u].thr] # "COMPLETED"
        => state'[pending[u].thr] # "COMPLETED"
    BY <1>3 DEF IInv, Operands
  <2> QED BY <1>2, <2>2, <2>3, <2>4, <2>5 DEF Blocked, BetweenWaitAndLock
<1> QED BY <1>1, <1>5, <1>6, <1>7, <1>8, <1>9, <1>10, <1>11, <1>12, StashingClaims DEF IInv

Failures == {"ok", "no waiter to notify", "wake of a completed thread",
             "is_waiting_on never returns"}

\* The end of an execution changes no claim but the one about reports.
LEMMA EndStep ==
    ASSUME IInv, pc' = "end", UNCHANGED <<schedVars, syncVars, prefix, bugVars, userVars>>,
           deadlock' \in BOOLEAN, failure' \in Failures,
           DeadlockReportExact'
    PROVE  IInv'
<1> USE DEF schedVars, syncVars, bugVars, userVars, Failures
<1>1. TypeOK'
  BY DEF IInv, TypeOK
<1>2. MutexOwnership'
  BY DEF IInv, MutexOwnership
<1>3. IdsInOrder' /\ LifeCycle' /\ Operands'
  BY DEF IInv, IdsInOrder, LifeCycle, Operands, Created, Live
<1>4. ForcedThread' /\ QueuedExist'
  BY DEF IInv, ForcedThread, QueuedExist, InQueue, Created
<1>5. NoLostWakeupEver' /\ Stashed'
  BY DEF NoLostWakeupEver, Stashed
<1> QED BY <1>1, <1>2, <1>3, <1>4, <1>5 DEF IInv

\* A failure of the model checker makes no claim about deadlocks.
LEMMA FailStep ==
    ASSUME IInv, NEW how \in Failures \ {"ok"}, Fail(how)
    PROVE  IInv'
<1>1. DeadlockReportExact' /\ deadlock' \in BOOLEAN
  BY DEF Fail, DeadlockReportExact, IInv, TypeOK
<1> QED BY <1>1, EndStep DEF Fail

LEMMA NotifyAllStep ==
    ASSUME IInv, NEW t \in Threads, NotifyAll(t)
    PROVE  IInv'
<1> DEFINE c == pending[t].cnd
           S == Range(waiters[c])
<1>1. CASE Fail("wake of a completed thread")
  BY <1>1, FailStep DEF Failures
<1>2. CASE ~Fail("wake of a completed thread")
  <2>1. TakeStep(t, "NOTIFY_ALL") /\ "NOTIFY_ALL" \in OpNames \ {"NONE"}
    BY <1>2 DEF NotifyAll, OpNames
  <2>2. /\ next' = NULL /\ Wake(S) /\ waiters' = [waiters EXCEPT ![c] = <<>>]
        /\ UNCHANGED <<nthreads, locked, userVars>> /\ Quiet
    BY <1>2 DEF NotifyAll
  <2>3. pending[t].op = "NOTIFY_ALL"
    BY <2>1, TakeStepFacts
  <2>4. ~WakeFails(S)
    BY <1>2, <2>3 DEF NotifyAll
  <2>5. c \in CondVars /\ waiters \in [CondVars -> Seq(Threads)]
    BY <2>3 DEF IInv, Operands, TypeOK
  <2>6. S \in SUBSET Threads /\ \A u \in S : InQueue(u)
    BY <2>5 DEF Range, InQueue
  <2>7. waiters' \in [CondVars -> Seq(Threads)] /\ waiters'[c] = <<>>
        /\ \A d \in CondVars \ {c} : waiters'[d] = waiters[d]
    BY <2>2, <2>5
  <2>8. \A u \in Threads \ S : InQueue(u) => InQueue(u)'
    BY <2>7 DEF InQueue
  <2>9. \A u \in Threads : InQueue(u)' => InQueue(u)
    BY <2>7 DEF InQueue, Range
  <2> HIDE DEF S, c
  <2> QED BY <2>1, <2>2, <2>4, <2>6, <2>7, <2>8, <2>9, NotifyStep
<1> QED BY <1>1, <1>2

LEMMA NotifyOneStep ==
    ASSUME IInv, NEW t \in Threads, NotifyOne(t)
    PROVE  IInv'
<1> DEFINE c == pending[t].cnd
<1>1. CASE Fail("no waiter to notify") \/ Fail("wake of a completed thread")
  BY <1>1, FailStep DEF Failures
<1>2. ASSUME NEW i \in 1..Len(waiters[c]),
             TakeStep(t, "NOTIFY_ONE"), next' = NULL, Wake({waiters[c][i]}),
             ~WakeFails({waiters[c][i]}),
             waiters' = [waiters EXCEPT ![c] = RemoveAt(@, i)],
             UNCHANGED <<nthreads, locked, userVars>>, Quiet
      PROVE  IInv'
  <2> DEFINE S == {waiters[c][i]}
  <2>1. TakeStep(t, "NOTIFY_ONE") /\ "NOTIFY_ONE" \in OpNames \ {"NONE"}
    BY <1>2 DEF OpNames
  <2>2. pending[t].op = "NOTIFY_ONE"
    BY <2>1, TakeStepFacts
  <2>3. c \in CondVars /\ waiters \in [CondVars -> Seq(Threads)] /\ waiters[c] \in Seq(Threads)
    BY <2>2 DEF IInv, Operands, TypeOK
  <2>4. waiters[c][i] \in Threads /\ waiters[c][i] \in Range(waiters[c])
    BY <2>3 DEF Range
  <2>5. S \in SUBSET Threads /\ \A u \in S : InQueue(u)
    BY <2>3, <2>4 DEF InQueue
  <2>6. waiters' \in [CondVars -> Seq(Threads)] /\ waiters'[c] = RemoveAt(waiters[c], i)
        /\ \A d \in CondVars \ {c} : waiters'[d] = waiters[d]
    BY <1>2, <2>3, RemoveAtKeeps
  <2>7. /\ \A u \in Range(waiters[c]) : u \in S \/ u \in Range(waiters'[c])
        /\ \A u \in Range(waiters'[c]) : u \in Range(waiters[c])
    BY <2>3, <2>6, RemoveAtKeeps
  <2>8. \A u \in Threads \ S : InQueue(u) => InQueue(u)'
    BY <2>3, <2>6, <2>7 DEF InQueue
  <2>9. \A u \in Threads : InQueue(u)' => InQueue(u)
    BY <2>3, <2>6, <2>7 DEF InQueue
  <2>10. Wake(S) /\ ~WakeFails(S)
    BY <1>2
  <2> HIDE DEF S, c
  <2> QED BY <1>2, <2>1, <2>5, <2>6, <2>8, <2>9, <2>10, NotifyStep
<1> QED BY <1>1, <1>2 DEF NotifyOne

\* should_terminate_execution touches no thread.
LEMMA CheckStep ==
    ASSUME IInv, should_terminate_execution
    PROVE  IInv'
<1>1. /\ pc' \in {"stash", "over"} /\ pc = "check"
      /\ prefix' \in BOOLEAN /\ asserted' \in BOOLEAN
      /\ UNCHANGED <<schedVars, syncVars, bug, failure, deadlock, userVars>>
  BY DEF should_terminate_execution, IInv, TypeOK
<1> USE DEF schedVars, syncVars, userVars
<1>2. TypeOK' /\ MutexOwnership'
  BY <1>1 DEF IInv, TypeOK, MutexOwnership
<1>3. IdsInOrder' /\ LifeCycle' /\ Operands'
  BY <1>1 DEF IInv, IdsInOrder, LifeCycle, Operands, Created, Live
<1>4. ForcedThread' /\ QueuedExist'
  BY <1>1 DEF IInv, ForcedThread, QueuedExist, InQueue, Created
<1>5. NoLostWakeupEver'
  BY <1>1 DEF IInv, NoLostWakeupEver, Live, Blocked, BetweenWaitAndLock, InQueue
<1>6. Stashed' /\ DeadlockReportExact'
  BY <1>1, StashingClaims
<1> QED BY <1>2, <1>3, <1>4, <1>5, <1>6 DEF IInv

\* With nobody schedulable, nobody can be yield-blocked or overlooked: the
\* report says deadlock only if a thread is left, and every thread left is
\* blocked; it says so whenever one is left when the loop ran out of threads.
LEMMA EndExecutionStep ==
    ASSUME IInv, BugEndsPrefix, EndExecution
    PROVE  IInv'
<1>1. /\ pc \in {"over", "choose"} /\ pc' = "end"
      /\ pc = "choose" => \A t \in Threads : ~enabled[t]
      /\ deadlock' = (prefix /\ (is_complete_execution \/ bug) /\ is_deadlocked)
      /\ UNCHANGED <<schedVars, syncVars, prefix, bugVars, userVars>> /\ failure' = failure
  BY DEF EndExecution
<1>2. \A t \in Threads : pending[t] # NoAct => Live(t)
  BY <1>1 DEF IInv, LifeCycle
<1>3. deadlock' => /\ \E t \in Threads : Live(t)
                   /\ \A t \in Threads : Live(t) => Blocked(t)
  BY <1>1, <1>2 DEF IInv, NoLostWakeupEver, is_deadlocked
<1>4. ASSUME prefix, ~bug, ~YieldBlock
      PROVE  deadlock' <=> \E t \in Threads : Live(t)
  <2>1. pc = "choose"
    BY <1>1, <1>4 DEF BugEndsPrefix
  <2>2. \A t \in Threads : Live(t) => pending[t] # NoAct
    BY <2>1 DEF IInv, Stashed
  <2> QED BY <1>1, <1>2, <1>4, <2>1, <2>2 DEF is_complete_execution, is_deadlocked, is_yieldblocked
<1>5. \A t \in Threads : (Live(t)' <=> Live(t)) /\ (Blocked(t)' <=> Blocked(t))
  BY <1>1 DEF Live, Blocked, BetweenWaitAndLock, InQueue, schedVars, syncVars, userVars
<1>6. prefix' = prefix /\ bug' = bug
  BY <1>1 DEF bugVars
<1>7. DeadlockReportExact'
  BY <1>3, <1>4, <1>5, <1>6 DEF DeadlockReportExact
<1>8. deadlock' \in BOOLEAN
  BY <1>1 DEF IInv, TypeOK, is_deadlocked
<1>9. failure' \in Failures
  BY <1>1 DEF IInv, TypeOK, Failures
<1> QED BY <1>1, <1>7, <1>8, <1>9, EndStep

\* Only a thread whose action cannot execute is disabled: it is Blocked.
LEMMA DisableStep ==
    ASSUME IInv, Disable
    PROVE  IInv'
<1>1. /\ pc = "stash"
      /\ \A t \in Threads : ~NeedsStash(t)
      /\ \A t \in Threads : enabled'[t] = (enabled[t] /\ ~ShouldSleep(t))
      /\ \A t \in Threads : state'[t] = IF ShouldSleep(t) THEN "BLOCKED" ELSE state[t]
      /\ pc' = (IF asserted THEN "over" ELSE "choose")
      /\ pending' = pending /\ nthreads' = nthreads /\ next' = next
      /\ locked' = locked /\ waiters' = waiters
      /\ prefix' = prefix /\ bug' = bug /\ asserted' = asserted
      /\ failure' = failure /\ deadlock' = deadlock
      /\ owns' = owns /\ relock' = relock /\ ops' = ops
  BY DEF Disable, syncVars, bugVars, userVars
<1>2. \A t \in Threads : Live(t) => pending[t] # NoAct
  BY <1>1 DEF NeedsStash
<1>3. \A t \in Threads : ShouldSleep(t) =>
          /\ Live(t) /\ pending[t] # NoAct /\ enabled[t]
          /\ ~check_action_enabled(pending[t])
  BY DEF ShouldSleep, IInv, LifeCycle
<1>4. TypeOK'
  <2>1. state' \in [Threads -> ThreadStates]
    BY DEF Disable, IInv, TypeOK, ThreadStates
  <2>2. enabled' \in [Threads -> BOOLEAN]
    BY DEF Disable, IInv, TypeOK
  <2>3. pc' \in {"over", "choose"}
    BY <1>1
  <2> QED BY <1>1, <2>1, <2>2, <2>3 DEF IInv, TypeOK
<1>5. MutexOwnership'
  BY <1>1 DEF IInv, MutexOwnership
<1>6. \A t \in Threads : (Live(t)' <=> Live(t)) /\ (Created(t)' <=> Created(t))
                         /\ (state'[t] = "COMPLETED" <=> state[t] = "COMPLETED")
  BY <1>1, <1>3 DEF Live, Created
<1>7. IdsInOrder'
  BY <1>1, <1>6 DEF IInv, IdsInOrder
<1>8. LifeCycle'
  BY <1>1, <1>3, <1>6 DEF IInv, LifeCycle
<1>9. Operands'
  BY <1>1 DEF IInv, Operands
<1>10. ForcedThread'
  <2> SUFFICES ASSUME next # NULL
               PROVE  /\ enabled'[next]
                      /\ state'[next] = "CREATED" \/ pending[next].op = "START"
    BY <1>1 DEF ForcedThread
  <2>1. next \in Threads /\ enabled[next]
        /\ (state[next] = "CREATED" \/ pending[next].op = "START")
    BY DEF IInv, ForcedThread, TypeOK
  <2>2. check_action_enabled(pending[next])
    BY <2>1, Basics DEF check_action_enabled, IInv, LifeCycle
  <2> QED BY <1>1, <1>3, <2>1, <2>2
<1>11. QueuedExist'
  BY <1>1, <1>6 DEF IInv, QueuedExist, InQueue
<1>12. ASSUME NEW t \in Threads
       PROVE  check_action_enabled(pending[t])' <=> check_action_enabled(pending[t])
  <2>1. pending[t].op = "JOIN" => pending[t].thr \in Threads
    BY DEF IInv, Operands
  <2> QED BY <1>1, <1>6, <2>1 DEF check_action_enabled
<1>13. NoLostWakeupEver'
  <2> SUFFICES ASSUME NEW t \in Threads, Live(t), ~enabled'[t]
               PROVE  Blocked(t)'
    BY <1>6 DEF NoLostWakeupEver
  <2>1. Blocked(t)
    <3>1. CASE ShouldSleep(t)
      <4>1. ~check_action_enabled(pending[t])
        BY <1>3, <3>1
      <4> QED BY <4>1 DEF check_action_enabled, Blocked
    <3>2. CASE ~ShouldSleep(t)
      BY <1>1, <3>2 DEF IInv, NoLostWakeupEver
    <3> QED BY <3>1, <3>2
  <2>2. InQueue(t)' <=> InQueue(t)
    BY <1>1 DEF InQueue
  <2>3. pending[t].op = "JOIN" => pending[t].thr \in Threads
    BY DEF IInv, Operands
  <2> QED BY <1>1, <1>6, <2>1, <2>2, <2>3 DEF Blocked, BetweenWaitAndLock
<1>14. Stashed'
  <2> SUFFICES ASSUME NEW t \in Threads
               PROVE  /\ Live(t) => pending[t] # NoAct
                      /\ enabled'[t] => check_action_enabled(pending[t])
    BY <1>1, <1>6, <1>12 DEF Stashed
  <2>1. enabled[t] => Live(t)
    BY DEF IInv, LifeCycle
  <2> QED BY <1>1, <1>2, <2>1 DEF ShouldSleep
<1>15. DeadlockReportExact'
  BY <1>1 DEF DeadlockReportExact
<1> QED BY <1>4, <1>5, <1>7, <1>8, <1>9, <1>10, <1>11, <1>13, <1>14, <1>15 DEF IInv

\* What user code can ask for has the operands it needs.
LEMMA UserActionOperands ==
    ASSUME IInv, NEW t \in Threads, NEW a \in UserActions(t)
    PROVE  /\ a \in Actions /\ a.op # "NONE"
           /\ a.op \in {"LOCK", "TRYLOCK"} => a.mtx \in Mutexes
           /\ a.op \in {"UNLOCK", "WAIT"} => a.mtx \in owns[t]
           /\ a.op \in {"WAIT", "NOTIFY_ONE", "NOTIFY_ALL"} => a.cnd \in CondVars
           /\ a.op = "JOIN" => a.thr \in Threads
           /\ state[t] = "CREATED" => a.op = "START"
           /\ state[t] # "CREATED" /\ relock[t] # NULL => a.op = "LOCK"
           /\ a.op \in {"START", "FINISH"} \/ relock[t] # NULL \/ ops[t] # MaxOps
<1>1. owns[t] \subseteq Mutexes /\ relock[t] \in Mutexes \cup {NULL}
  BY DEF IInv, TypeOK
<1> QED BY <1>1 DEF UserActions, Act, Actions, OpNames

\* Stashing the next action of t: a queued waiter comes back with its LOCK.
LEMMA StashStep ==
    ASSUME IInv, NEW t \in Threads, Stash(t)
    PROVE  IInv'
<1>f. CASE Fail("is_waiting_on never returns")
  BY <1>f, FailStep DEF Failures
<1>s. SUFFICES ASSUME ~Fail("is_waiting_on never returns") PROVE IInv'
  BY <1>f
<1>1. PICK a \in UserActions(t) :
          /\ pending' = [pending EXCEPT ![t] = a]
          /\ IF is_waiting_on(t, [pending EXCEPT ![t] = a])
             THEN assert_bug ELSE UNCHANGED bugVars
          /\ ops' = IF a.op \in {"START", "FINISH"} \/ relock[t] # NULL
                    THEN ops ELSE [ops EXCEPT ![t] = @ + 1]
          /\ state' = [state EXCEPT ![t] = "READY"]
          /\ relock' = [relock EXCEPT ![t] = NULL]
          /\ UNCHANGED <<pc, enabled, nthreads, next, syncVars, prefix, failure, deadlock, owns>>
  BY <1>s DEF Stash
<1>2. /\ pc = "stash" /\ pc' = "stash" /\ Live(t) /\ pending[t] = NoAct
      /\ state' = [state EXCEPT ![t] = "READY"]
      /\ relock' = [relock EXCEPT ![t] = NULL]
      /\ enabled' = enabled /\ nthreads' = nthreads /\ next' = next
      /\ locked' = locked /\ waiters' = waiters /\ owns' = owns
      /\ prefix' = prefix /\ failure' = failure /\ deadlock' = deadlock
  BY <1>1 DEF Stash, NeedsStash, syncVars
<1>3. /\ a \in Actions /\ a.op # "NONE"
      /\ a.op \in {"LOCK", "TRYLOCK"} => a.mtx \in Mutexes
      /\ a.op \in {"UNLOCK", "WAIT"} => a.mtx \in owns[t]
      /\ a.op \in {"WAIT", "NOTIFY_ONE", "NOTIFY_ALL"} => a.cnd \in CondVars
      /\ a.op = "JOIN" => a.thr \in Threads
      /\ state[t] = "CREATED" => a.op = "START"
      /\ state[t] # "CREATED" /\ relock[t] # NULL => a.op = "LOCK"
  BY UserActionOperands
<1>4. /\ pending' \in [Threads -> Actions] /\ pending'[t] = a
      /\ \A u \in Threads \ {t} : pending'[u] = pending[u]
  BY <1>1, <1>3 DEF IInv, TypeOK
<1>5. /\ state' \in [Threads -> ThreadStates] /\ state'[t] = "READY"
      /\ \A u \in Threads \ {t} : state'[u] = state[u]
  BY <1>2 DEF IInv, TypeOK, ThreadStates
<1>6. /\ relock' \in [Threads -> Mutexes \cup {NULL}] /\ relock'[t] = NULL
      /\ \A u \in Threads \ {t} : relock'[u] = relock[u]
  BY <1>2 DEF IInv, TypeOK
<1>7. ops' \in [Threads -> 0..MaxOps]
  <2>1. ops \in [Threads -> 0..MaxOps] /\ MaxOps \in Nat
    BY ThreadSyncAssumption DEF IInv, TypeOK
  <2>2. a.op \in {"START", "FINISH"} \/ relock[t] # NULL \/ ops[t] # MaxOps
    BY UserActionOperands
  <2>3. CASE a.op \in {"START", "FINISH"} \/ relock[t] # NULL
    BY <1>1, <2>1, <2>3
  <2>4. CASE ~(a.op \in {"START", "FINISH"} \/ relock[t] # NULL)
    <3>1. ops[t] + 1 \in 0..MaxOps
      BY <2>1, <2>2, <2>4
    <3>2. ops' = [ops EXCEPT ![t] = ops[t] + 1]
      BY <1>1, <2>4
    <3> QED BY <2>1, <3>1, <3>2
  <2> QED BY <2>3, <2>4
<1>8. bug' \in BOOLEAN /\ asserted' \in BOOLEAN
  BY <1>1 DEF assert_bug, bugVars, IInv, TypeOK
<1>9. TypeOK'
  BY <1>2, <1>4, <1>5, <1>6, <1>7, <1>8 DEF IInv, TypeOK
<1>10. MutexOwnership'
  BY <1>2 DEF IInv, MutexOwnership
<1>11. \A u \in Threads : (Live(u)' <=> Live(u)) /\ (Created(u)' <=> Created(u))
                          /\ (state'[u] = "COMPLETED" <=> state[u] = "COMPLETED")
  BY <1>2, <1>5 DEF Live, Created
<1>12. IdsInOrder' /\ QueuedExist'
  BY <1>2, <1>11 DEF IInv, IdsInOrder, QueuedExist, InQueue
<1>13. LifeCycle'
  <2> SUFFICES ASSUME NEW u \in Threads
        PROVE (/\ ~Live(u) => pending[u] = NoAct /\ ~enabled[u] /\ relock[u] = NULL
               /\ state[u] = "CREATED" => pending[u] = NoAct /\ enabled[u] /\ relock[u] = NULL
               /\ enabled[u] => state[u] \in {"CREATED", "READY"}
               /\ relock[u] # NULL => pending[u] = NoAct)'
    BY DEF LifeCycle
  <2>1. CASE u = t
    BY <2>1, <1>2, <1>5, <1>6, <1>11
  <2>2. CASE u # t
    BY <2>2, <1>2, <1>4, <1>5, <1>6, <1>11 DEF IInv, LifeCycle
  <2> QED BY <2>1, <2>2
<1>14. Operands'
  BY <1>2, <1>3, <1>4 DEF IInv, Operands
<1>15. ForcedThread'
  <2>1. CASE next = t
    <3>1. enabled[t]
      BY <2>1, Basics DEF IInv, ForcedThread
    <3>2. a.op = "START"
      BY <1>2, <1>3, <2>1, Basics DEF IInv, ForcedThread
    <3> QED BY <1>2, <1>4, <2>1, <3>1, <3>2 DEF ForcedThread
  <2>2. CASE next # t
    <3>1. next # NULL => next \in Threads
      BY DEF IInv, TypeOK
    <3> QED BY <1>2, <1>4, <2>2, <3>1 DEF IInv, ForcedThread
  <2> QED BY <2>1, <2>2
<1>16. NoLostWakeupEver'
  <2> SUFFICES ASSUME NEW u \in Threads, Live(u), ~enabled[u]
               PROVE  Blocked(u)'
    BY <1>2, <1>11 DEF NoLostWakeupEver
  <2>1. Blocked(u)
    BY <1>2 DEF IInv, NoLostWakeupEver
  <2>2. InQueue(u)' <=> InQueue(u)
    BY <1>2 DEF InQueue
  <2>3. CASE u = t
    <3>1. BetweenWaitAndLock(t)
      BY <1>2, <2>1, <2>3, Basics DEF Blocked
    <3>2. state[t] # "CREATED"
      BY <2>3 DEF IInv, LifeCycle
    <3>3. a.op = "LOCK" /\ InQueue(t)
      BY <1>3, <3>1, <3>2 DEF BetweenWaitAndLock
    <3> QED BY <1>4, <2>2, <2>3, <3>3 DEF Blocked
  <2>4. CASE u # t
    <3>1. pending'[u] = pending[u] /\ relock'[u] = relock[u]
      BY <1>4, <1>6, <2>4
    <3>2. pending[u].op = "JOIN" => pending[u].thr \in Threads
      BY DEF IInv, Operands
    <3> QED BY <1>2, <1>11, <2>1, <2>2, <3>1, <3>2 DEF Blocked, BetweenWaitAndLock
  <2> QED BY <2>3, <2>4
<1> QED BY <1>2, <1>9, <1>10, <1>12, <1>13, <1>14, <1>15, <1>16, StashingClaims DEF IInv

LEMMA IInvInit == Init => IInv
<1> SUFFICES ASSUME Init PROVE IInv
  OBVIOUS
<1> USE Basics
<1>1. /\ pc = "stash" /\ next = Main /\ nthreads = 1 /\ Main = 1
      /\ prefix = TRUE /\ bug = FALSE /\ asserted = FALSE
      /\ failure = "ok" /\ deadlock = FALSE
      /\ pending = [t \in Threads |-> NoAct]
      /\ state = [t \in Threads |-> IF t = Main THEN "CREATED" ELSE "NONE"]
      /\ enabled = [t \in Threads |-> t = Main]
      /\ locked = [m \in Mutexes |-> NULL]
      /\ waiters = [c \in CondVars |-> <<>>]
      /\ owns = [t \in Threads |-> {}]
      /\ relock = [t \in Threads |-> NULL]
      /\ ops = [t \in Threads |-> 0]
  BY DEF Init, Main
<1>2. TypeOK
  <2>1. state \in [Threads -> ThreadStates]
    BY <1>1 DEF ThreadStates
  <2>2. enabled \in [Threads -> BOOLEAN] /\ pending \in [Threads -> Actions]
    BY <1>1
  <2>3. nthreads \in Threads /\ next \in Threads \cup {NULL}
    BY <1>1
  <2>4. locked \in [Mutexes -> Threads \cup {NULL}] /\ owns \in [Threads -> SUBSET Mutexes]
    BY <1>1
  <2>5. waiters \in [CondVars -> Seq(Threads)]
    BY <1>1
  <2>6. relock \in [Threads -> Mutexes \cup {NULL}] /\ ops \in [Threads -> 0..MaxOps]
    BY <1>1, ThreadSyncAssumption
  <2> QED BY <1>1, <2>1, <2>2, <2>3, <2>4, <2>5, <2>6 DEF TypeOK
<1>3. MutexOwnership
  BY <1>1 DEF MutexOwnership
<1>4. IdsInOrder
  BY <1>1, ThreadSyncAssumption DEF IdsInOrder, Created, Threads
<1>5. LifeCycle
  BY <1>1 DEF LifeCycle, Live
<1>6. Operands
  BY <1>1 DEF Operands
<1>7. ForcedThread
  BY <1>1 DEF ForcedThread
<1>8. QueuedExist
  BY <1>1 DEF QueuedExist, InQueue, Range
<1>9. NoLostWakeupEver
  BY <1>1 DEF NoLostWakeupEver, Live
<1>10. Stashed /\ DeadlockReportExact
  BY <1>1 DEF Stashed, DeadlockReportExact
<1> QED BY <1>2, <1>3, <1>4, <1>5, <1>6, <1>7, <1>8, <1>9, <1>10 DEF IInv

LEMMA IInvStutter == IInv /\ UNCHANGED vars => IInv'
<1> SUFFICES ASSUME IInv, UNCHANGED vars PROVE IInv'
  OBVIOUS
<1> USE DEF vars, schedVars, syncVars, bugVars, userVars
<1>1. TypeOK' /\ MutexOwnership'
  BY DEF IInv, TypeOK, MutexOwnership
<1>2. IdsInOrder' /\ LifeCycle' /\ Operands'
  BY DEF IInv, IdsInOrder, LifeCycle, Operands, Created, Live
<1>3. ForcedThread' /\ QueuedExist'
  BY DEF IInv, ForcedThread, QueuedExist, InQueue, Created
<1>4. NoLostWakeupEver'
  BY DEF IInv, NoLostWakeupEver, Live, Blocked, BetweenWaitAndLock, InQueue
<1>5. Stashed'
  BY DEF IInv, Stashed, Live, check_action_enabled
<1>6. DeadlockReportExact'
  BY DEF IInv, DeadlockReportExact, Live, Blocked, BetweenWaitAndLock, InQueue
<1> QED BY <1>1, <1>2, <1>3, <1>4, <1>5, <1>6 DEF IInv

LEMMA IInvNext == IInv /\ BugEndsPrefix /\ [Next]_vars => IInv'
<1> SUFFICES ASSUME IInv, BugEndsPrefix, [Next]_vars PROVE IInv'
  OBVIOUS
<1>1. CASE UNCHANGED vars
  BY <1>1, IInvStutter
<1>2. ASSUME NEW t \in Threads, Stash(t) PROVE IInv'
  BY <1>2, StashStep
<1>3. ASSUME NEW t \in Threads, Step(t) PROVE IInv'
  <2>1. CASE Start(t) \/ Yield(t) \/ Join(t)
    <3>1. {"START", "YIELD", "JOIN"} \subseteq OpNames \ {"NONE"}
      BY DEF OpNames
    <3> QED BY <2>1, <3>1, SilentStep DEF Start, Yield, Join
  <2>2. CASE Create(t)  BY <2>2, CreateStep
  <2>3. CASE Finish(t)  BY <2>3, FinishStep
  <2>4. CASE Lock(t)    BY <2>4, LockStep
  <2>5. CASE TryLock(t) BY <2>5, TryLockStep
  <2>6. CASE Unlock(t)  BY <2>6, UnlockStep
  <2>7. CASE Wait(t)    BY <2>7, WaitStep
  <2>8. CASE NotifyAll(t) BY <2>8, NotifyAllStep
  <2>9. CASE NotifyOne(t) BY <2>9, NotifyOneStep
  <2> QED BY <1>3, <2>1, <2>2, <2>3, <2>4, <2>5, <2>6, <2>7, <2>8, <2>9 DEF Step
<1>4. CASE Disable
  BY <1>4, DisableStep
<1>5. CASE EndExecution
  BY <1>5, EndExecutionStep
<1>6. CASE Ended
  BY <1>6, IInvStutter DEF Ended
<1>7. CASE should_terminate_execution
  BY <1>7, CheckStep
<1> QED BY <1>1, <1>2, <1>3, <1>4, <1>5, <1>6, <1>7 DEF Next

\* What a step of a thread does to the flags of the execution.
StepFlags == /\ pc' = "check" \/ (pc' = "end" /\ failure' # "is_waiting_on never returns")
             /\ UNCHANGED <<prefix, bugVars>>

LEMMA StepKeepsFlags ==
    ASSUME NEW t \in Threads, Step(t)
    PROVE  StepFlags /\ pc = "choose"
<1> USE DEF TakeStep, Quiet, bugVars, StepFlags
<1>1. CASE Start(t) \/ Yield(t) \/ Join(t) \/ Create(t) \/ Finish(t)
  BY <1>1 DEF Start, Yield, Join, Create, Finish
<1>2. CASE Lock(t) \/ TryLock(t) \/ Unlock(t) \/ Wait(t)
  BY <1>2 DEF Lock, TryLock, Unlock, Wait
<1>3. CASE NotifyAll(t) \/ NotifyOne(t)
  BY <1>3 DEF NotifyAll, NotifyOne, Fail
<1> QED BY <1>1, <1>2, <1>3 DEF Step

LEMMA BugEndsNext == BugEndsPrefix /\ TypeOK /\ [Next]_vars => BugEndsPrefix'
<1> SUFFICES ASSUME BugEndsPrefix, TypeOK, [Next]_vars PROVE BugEndsPrefix'
  OBVIOUS
<1> USE DEF BugEndsPrefix, bugVars
<1>1. CASE UNCHANGED vars
  BY <1>1 DEF vars
<1>2. ASSUME NEW t \in Threads, Stash(t) PROVE BugEndsPrefix'
  <2>1. CASE Fail("is_waiting_on never returns")
    BY <2>1 DEF Fail
  <2>2. CASE pc' = pc /\ prefix' = prefix /\ (assert_bug \/ UNCHANGED bugVars)
    <3>1. pc = "stash"
      BY <1>2 DEF Stash
    <3>2. CASE bug' = bug /\ asserted' = asserted
      BY <2>2, <3>1, <3>2
    <3>3. CASE bug' = TRUE /\ asserted' = (asserted \/ prefix)
      BY <2>2, <3>1, <3>3
    <3> QED BY <2>2, <3>2, <3>3 DEF assert_bug
  <2> QED BY <1>2, <2>1, <2>2 DEF Stash
<1>3. ASSUME NEW t \in Threads, Step(t) PROVE BugEndsPrefix'
  BY <1>3, StepKeepsFlags DEF StepFlags
<1>4. CASE Disable
  BY <1>4 DEF Disable
<1>5. CASE should_terminate_execution
  BY <1>5 DEF should_terminate_execution
<1>6. CASE EndExecution \/ Ended
  BY <1>6, <1>1 DEF EndExecution, Ended
<1> QED BY <1>1, <1>2, <1>3, <1>4, <1>5, <1>6 DEF Next

LEMMA IInvAlways == Spec => [](IInv /\ BugEndsPrefix)
<1>1. Init => BugEndsPrefix
  BY DEF Init, BugEndsPrefix
<1>2. IInv => TypeOK
  BY DEF IInv
<1> QED BY <1>1, <1>2, IInvInit, IInvNext, BugEndsNext, PTL DEF Spec
-----------------------------------------------------------------------------
\* Types, for any number of threads, mutexes and condition variables.
THEOREM TypeCorrect == Spec => []TypeOK
BY IInvAlways, PTL DEF IInv

\* Mutual exclusion: mutex_state::locked and what the user's calls acquired
\* agree in every reachable state.
THEOREM OwnershipCorrect == Spec => []MutexOwnership
BY IInvAlways, PTL DEF IInv

\* The assertions at the head of take_step cannot fail.
THEOREM TakeStepNeverAsserts == Spec => []TakeStepAsserts
<1>1. IInv => TakeStepAsserts
  <2> SUFFICES ASSUME IInv, pc = "choose", NEW t \in Threads, Chosen(t)
               PROVE  /\ pending[t] # NoAct /\ state[t] = "READY"
                      /\ check_action_enabled(pending[t])
    BY DEF TakeStepAsserts
  <2>1. enabled[t]
    BY Basics DEF Chosen, IInv, ForcedThread
  <2>2. Live(t) /\ pending[t] # NoAct
    BY <2>1 DEF IInv, LifeCycle, Stashed
  <2>3. state[t] = "READY"
    BY <2>1, <2>2 DEF IInv, LifeCycle
  <2> QED BY <2>1, <2>2, <2>3 DEF IInv, Stashed
<1> QED BY <1>1, IInvAlways, PTL

\* No wakeup is lost: unlock, notify and finish wake everyone they free.
THEOREM NoWakeupIsLost == Spec => []NoLostWakeup
<1>1. IInv => NoLostWakeup
  BY DEF IInv, NoLostWakeupEver, NoLostWakeup
<1> QED BY <1>1, IInvAlways, PTL

\* The deadlock report is right, in both directions.
THEOREM DeadlockReportCorrect == Spec => []DeadlockReportExact
BY IInvAlways, PTL DEF IInv
-----------------------------------------------------------------------------
\* A set of natural numbers has a least element.
LEMMA LeastElement ==
    ASSUME NEW T \in SUBSET Nat, T # {}
    PROVE  \E k \in T : \A j \in T : k <= j
<1>1. PICK k \in T : \A j \in T : ~(<<j, k>> \in OpToRel(<, Nat))
  BY WFMin, NatLessThanWellFounded
<1>2. \A j \in T : ~(j < k)
  BY <1>1 DEF OpToRel
<1> QED BY <1>2

\* A function can be iterated any number of times: the recursive definition of
\* hop in Chain has a solution.
LEMMA IterateExists ==
    ASSUME NEW V, NEW a \in V, NEW F \in [V -> V], NEW n \in Nat
    PROVE  \E f \in [0..n -> V] : f[0] = a /\ \A i \in 1..n : f[i] = F[f[i-1]]
<1> DEFINE Reaches(k) == \E f \in [0..k -> V] : f[0] = a /\ \A i \in 1..k : f[i] = F[f[i-1]]
           Missed == {k \in Nat : ~Reaches(k)}
<1> SUFFICES Missed = {}
  OBVIOUS
<1> SUFFICES ASSUME Missed # {} PROVE FALSE
  OBVIOUS
<1>1. PICK k \in Missed : \A j \in Missed : k <= j
  <2> HIDE DEF Missed
  <2>1. Missed \in SUBSET Nat
    BY DEF Missed
  <2> QED BY <2>1, LeastElement
<1>2. CASE k = 0
  <2> DEFINE f == [i \in 0..0 |-> a]
  <2>1. f \in [0..0 -> V] /\ f[0] = a /\ \A i \in 1..0 : f[i] = F[f[i-1]]
    OBVIOUS
  <2>2. Reaches(0)
    BY <2>1
  <2> QED BY <1>2, <2>2
<1>3. CASE k # 0
  <2>0. k \in Nat
    OBVIOUS
  <2>1. k-1 \in Nat
    BY <1>3, <2>0
  <2>p. ~(k <= k-1)
    BY <2>0
  <2>2. Reaches(k-1)
    BY <1>1, <2>1, <2>p
  <2>3. PICK g \in [0..k-1 -> V] : g[0] = a /\ \A i \in 1..k-1 : g[i] = F[g[i-1]]
    BY <2>2
  <2> DEFINE f == [i \in 0..k |-> IF i = k THEN F[g[k-1]] ELSE g[i]]
  <2> HIDE DEF Missed, Reaches
  <2>r. F[g[k-1]] \in V
    BY <2>0, <2>1, <2>3
  <2>4. f \in [0..k -> V]
    BY <2>0, <2>1, <2>3, <2>r
  <2>5. f[0] = a
    BY <1>3, <2>0, <2>1, <2>3
  <2>6. \A i \in 1..k : f[i] = F[f[i-1]]
    BY <2>0, <2>1, <2>3
  <2> HIDE DEF f
  <2>7. Reaches(k)
    BY <2>4, <2>5, <2>6 DEF Reaches
  <2> QED BY <2>7 DEF Missed
<1> QED BY <1>2, <1>3

\* Where the chain of waiting threads from t leads.
LEMMA ChainSteps ==
    ASSUME NEW t \in Threads, NEW pend,
           \A u \in Threads : WaitsOn(pend[u], locked) \in Threads \cup {NULL}
    PROVE  \E h : /\ h = Chain(t, pend)
                  /\ h[0] = t
                  /\ \A i \in 1..MaxThreads :
                        /\ h[i-1] = NULL => h[i] = NULL
                        /\ h[i-1] \in Threads => h[i] = WaitsOn(pend[h[i-1]], locked)
<1> DEFINE hop[i \in 0..MaxThreads] ==
          IF i = 0 THEN t
          ELSE IF hop[i-1] = NULL THEN NULL ELSE WaitsOn(pend[hop[i-1]], locked)
<1> DEFINE V == Threads \cup {NULL}
           F == [u \in V |-> IF u = NULL THEN NULL ELSE WaitsOn(pend[u], locked)]
<1>1. F \in [V -> V] /\ t \in V /\ MaxThreads \in Nat
  BY ThreadSyncAssumption
<1>2. PICK f \in [0..MaxThreads -> V] : f[0] = t /\ \A i \in 1..MaxThreads : f[i] = F[f[i-1]]
  <2> DEFINE n == MaxThreads
  <2>1. F \in [V -> V] /\ t \in V /\ n \in Nat
    BY <1>1
  <2> HIDE DEF V, F, hop, n
  <2>2. \E f \in [0..n -> V] : f[0] = t /\ \A i \in 1..n : f[i] = F[f[i-1]]
    BY ONLY <2>1, IterateExists, SMTT(30)
  <2> QED BY <2>2 DEF n
<1> DEFINE Solves(g) == g = [i \in 0..MaxThreads |-> IF i = 0 THEN t
          ELSE IF g[i-1] = NULL THEN NULL ELSE WaitsOn(pend[g[i-1]], locked)]
<1>3. Solves(f)
  <2>1. ASSUME NEW i \in 0..MaxThreads
        PROVE  f[i] = IF i = 0 THEN t
                      ELSE IF f[i-1] = NULL THEN NULL ELSE WaitsOn(pend[f[i-1]], locked)
    <3>1. CASE i = 0
      BY <3>1, <1>2
    <3>2. CASE i # 0
      <4>1. i \in 1..MaxThreads /\ i-1 \in 0..MaxThreads
        BY <3>2, <1>1
      <4>2. f[i-1] \in V /\ f[i] = F[f[i-1]]
        BY <1>2, <4>1
      <4> QED BY <3>2, <4>2
    <3> QED BY <3>1, <3>2
  <2> QED BY <1>2, <2>1
<1>4. Solves(hop)
  <2>1. hop = CHOOSE g : Solves(g)
    OBVIOUS
  <2> HIDE DEF hop, Solves
  <2> QED BY <1>3, <2>1
<1>5. hop = Chain(t, pend)
  BY DEF Chain
<1> HIDE DEF hop
<1>6. hop[0] = t
  BY <1>1, <1>4
<1>7. ASSUME NEW i \in 1..MaxThreads
      PROVE  /\ hop[i-1] = NULL => hop[i] = NULL
             /\ hop[i-1] \in Threads => hop[i] = WaitsOn(pend[hop[i-1]], locked)
  BY <1>1, <1>4, Basics
<1> QED BY <1>5, <1>6, <1>7
-----------------------------------------------------------------------------
\* What a thread's pending action waits on is a thread, or nothing.
LEMMA WaitsOnThreads ==
    ASSUME TypeOK, NEW a,
           a.op = "LOCK" => a.mtx \in Mutexes,
           a.op = "JOIN" => a.thr \in Threads
    PROVE  WaitsOn(a, locked) \in Threads \cup {NULL}
BY DEF WaitsOn, TypeOK

\* No threads all wait for each other.
NoWaitCycle == \A S \in SUBSET Threads : S # {} => \E t \in S : waiting_on(t) \notin S

\* At most one thread that ran before is without an action when the loop
\* stashes; once a circle ended the execution, none is.
OneToStash ==
    /\ pc \in {"check", "stash"} => \A u \in Threads : \A v \in Threads :
          NeedsStash(u) /\ NeedsStash(v) => u = v \/ state[u] = "CREATED" \/ state[v] = "CREATED"
    /\ pc = "stash" /\ asserted => \A u \in Threads : NeedsStash(u) => state[u] = "CREATED"

\* A circle is reported as soon as it stands, and is_waiting_on can only be
\* caught in one that the execution went on with.
CircleKnown ==
    /\ ~bug => NoWaitCycle
    /\ failure = "is_waiting_on never returns" => pc = "end" /\ bug /\ ~prefix

\* A chain of waiting threads that neither ends nor returns to its first thread
\* repeats another one: from there on it is a circle.
LEMMA ChainRepeats ==
    ASSUME NEW t \in Threads, NEW h, NEW nxt \in [Threads -> Threads \cup {NULL}],
           \A i \in 1..MaxThreads : h[i] \in Threads \ {t},
           \A i \in 2..MaxThreads : h[i] = nxt[h[i-1]]
    PROVE  \E R \in SUBSET (Threads \ {t}) : R # {} /\ \A u \in R : nxt[u] \in R
<1>0. MaxThreads \in Nat \ {0} /\ MaxThreads-1 \in Int
  BY ThreadSyncAssumption
<1>2. PICK x, y \in 1..MaxThreads : x < y /\ h[x] = h[y]
  <2> DEFINE I == 1..MaxThreads
             T == Threads \ {t}
             f == [i \in I |-> h[i]]
  <2>1. IsFiniteSet(I) /\ Cardinality(I) = MaxThreads
    BY <1>0, FS_Interval
  <2>2. IsFiniteSet(T) /\ Cardinality(T) = MaxThreads-1
    BY <2>1, FS_RemoveElement DEF Threads
  <2>3. f \in [I -> T]
    OBVIOUS
  <2>4. Cardinality(T) < Cardinality(I)
    BY <1>0, <2>1, <2>2
  <2>5. \E x, y \in I : x # y /\ f[x] = f[y]
    <3> HIDE DEF I, T, f
    <3> QED BY <2>1, <2>2, <2>3, <2>4, FS_PigeonHole
  <2>6. PICK x, y \in I : x # y /\ h[x] = h[y]
    BY <2>5
  <2> QED BY <1>0, <2>6
<1> DEFINE R == {h[k] : k \in x..y-1}
<1>3. R \in SUBSET (Threads \ {t}) /\ h[x] \in R
  BY <1>0, <1>2
<1>4. ASSUME NEW k \in x..y-1 PROVE nxt[h[k]] \in R
  <2>1. k+1 \in 2..MaxThreads /\ (k+1)-1 = k
    BY <1>0, <1>2
  <2>2. nxt[h[k]] = h[k+1]
    <3>1. h[k+1] = nxt[h[(k+1)-1]]
      BY <2>1
    <3> QED BY <2>1, <3>1
  <2>3. k+1 \in x..y-1 \/ k+1 = y
    BY <1>0, <1>2
  <2>4. CASE k+1 \in x..y-1
    BY <2>2, <2>4
  <2>5. CASE k+1 = y
    <3>1. nxt[h[k]] = h[x]
      BY <1>2, <2>2, <2>5
    <3> HIDE DEF R
    <3> QED BY <1>3, <3>1
  <2> QED BY <2>3, <2>4, <2>5
<1>5. \A u \in R : nxt[u] \in R
  BY <1>4
<1> HIDE DEF R
<1> QED BY <1>3, <1>5

\* The chain from a thread of a circle stays in the circle.
LEMMA ChainStays ==
    ASSUME NEW S, NEW h, h[0] \in S,
           \A i \in 1..MaxThreads : h[i-1] \in S => h[i] \in S
    PROVE  \A i \in 1..MaxThreads : h[i] \in S
<1>0. MaxThreads \in Nat
  BY ThreadSyncAssumption
<1> DEFINE Out == {i \in 0..MaxThreads : h[i] \notin S}
<1> SUFFICES ASSUME Out # {} PROVE FALSE
  BY <1>0
<1>1. PICK k \in Out : \A j \in Out : k <= j
  <2>1. Out \in SUBSET Nat
    OBVIOUS
  <2> HIDE DEF Out
  <2> QED BY <2>1, LeastElement
<1>2. k \in 1..MaxThreads /\ k-1 \in 0..MaxThreads /\ ~(k <= k-1)
  BY <1>0
<1>3. h[k-1] \in S
  BY <1>1, <1>2
<1> QED BY <1>2, <1>3

\* The loop of is_waiting_on ends in front of a circle only if the circle was
\* there before, and was reported.
LEMMA StashKeepsCircles ==
    ASSUME IInv, IInv', BugEndsPrefix, OneToStash, CircleKnown, NEW t \in Threads, Stash(t)
    PROVE  CircleKnown'
<1>0. PICK a \in UserActions(t) :
        \/ NeverReturns(t, [pending EXCEPT ![t] = a]) /\ Fail("is_waiting_on never returns")
        \/ /\ ~NeverReturns(t, [pending EXCEPT ![t] = a])
           /\ pending' = [pending EXCEPT ![t] = a]
           /\ IF is_waiting_on(t, [pending EXCEPT ![t] = a])
              THEN assert_bug ELSE UNCHANGED bugVars
           /\ UNCHANGED <<pc, locked, prefix, failure>>
  BY DEF Stash, syncVars
<1> DEFINE pend == [pending EXCEPT ![t] = a]
<1>1. /\ pc = "stash" /\ NeedsStash(t)
      /\ failure # "is_waiting_on never returns"
  BY DEF Stash, CircleKnown
<1>2. /\ a.op = "LOCK" => a.mtx \in Mutexes
      /\ a.op = "JOIN" => a.thr \in Threads
      /\ state[t] = "CREATED" => a.op = "START"
      /\ a \in Actions
  BY UserActionOperands
<1>3. pend \in [Threads -> Actions] /\ pend[t] = a
      /\ \A u \in Threads \ {t} : pend[u] = pending[u]
  BY <1>2 DEF IInv, TypeOK
<1>4. \A u \in Threads : WaitsOn(pend[u], locked) \in Threads \cup {NULL}
  <2> SUFFICES ASSUME NEW u \in Threads
               PROVE  WaitsOn(pend[u], locked) \in Threads \cup {NULL}
    OBVIOUS
  <2>1. /\ pend[u].op = "LOCK" => pend[u].mtx \in Mutexes
        /\ pend[u].op = "JOIN" => pend[u].thr \in Threads
    BY <1>2, <1>3 DEF IInv, Operands
  <2> HIDE DEF pend
  <2> QED BY <2>1, WaitsOnThreads DEF IInv
<1>5. \A u \in Threads \ {t} : waiting_on(u) = WaitsOn(pend[u], locked)
  BY <1>3 DEF waiting_on
<1> HIDE DEF pend
<1>6. PICK h : /\ h = Chain(t, pend)
               /\ h[0] = t
               /\ \A i \in 1..MaxThreads :
                     /\ h[i-1] = NULL => h[i] = NULL
                     /\ h[i-1] \in Threads => h[i] = WaitsOn(pend[h[i-1]], locked)
  BY <1>4, ChainSteps
<1>m. MaxThreads \in Nat \ {0}
  BY ThreadSyncAssumption
<1>7. CASE NeverReturns(t, pend) /\ Fail("is_waiting_on never returns")
  <2>1. \A i \in 1..MaxThreads : h[i] \notin {NULL, t}
    BY <1>6, <1>7 DEF NeverReturns
  <2> DEFINE nxt == [u \in Threads |-> WaitsOn(pend[u], locked)]
  <2>2. nxt \in [Threads -> Threads \cup {NULL}]
    BY <1>4
  <2>3. \A i \in 1..MaxThreads : h[i] \in Threads
    <3>1. ASSUME NEW i \in 1..MaxThreads, h[i-1] \in Threads PROVE h[i] \in Threads
      BY <1>4, <1>6, <2>1, <3>1
    <3> QED BY <1>6, <3>1, ChainStays
  <2>4. ASSUME NEW i \in 2..MaxThreads PROVE h[i] = nxt[h[i-1]]
    <3>1. i-1 \in 1..MaxThreads /\ i \in 1..MaxThreads
      BY <1>m
    <3> QED BY <1>6, <2>3, <3>1
  <2>5. PICK R \in SUBSET (Threads \ {t}) : R # {} /\ \A u \in R : nxt[u] \in R
    <3> HIDE DEF nxt
    <3> QED BY <2>1, <2>2, <2>3, <2>4, ChainRepeats
  <2>6. \A u \in R : waiting_on(u) \in R
    BY <1>5, <2>5
  <2>7. bug
    BY <2>5, <2>6 DEF CircleKnown, NoWaitCycle
  <2>8. ~prefix
    <3> SUFFICES ASSUME prefix PROVE FALSE
      OBVIOUS
    <3>1. a.op = "START"
      BY <1>1, <1>2, <2>7 DEF BugEndsPrefix, OneToStash
    <3>2. WaitsOn(pend[t], locked) = NULL
      BY <1>3, <3>1 DEF WaitsOn
    <3>3. h[1] = NULL
      <4>1. 1 \in 1..MaxThreads /\ 1-1 = 0
        BY <1>m
      <4> QED BY <1>6, <3>2, <4>1
    <3> QED BY <1>m, <2>1, <3>3
  <2> QED BY <1>7, <2>7, <2>8 DEF Fail, bugVars, CircleKnown
<1>8. CASE /\ ~NeverReturns(t, pend)
           /\ pending' = pend
           /\ IF is_waiting_on(t, pend) THEN assert_bug ELSE UNCHANGED bugVars
           /\ UNCHANGED <<pc, locked, prefix, failure>>
  <2>1. failure' # "is_waiting_on never returns"
    BY <1>1, <1>8
  <2>2. SUFFICES ASSUME ~bug', NEW S \in SUBSET Threads, S # {},
                        \A u \in S : waiting_on(u)' \in S
                 PROVE  FALSE
    BY <2>1 DEF CircleKnown, NoWaitCycle
  <2>3. ~bug /\ ~is_waiting_on(t, pend) /\ NoWaitCycle
    BY <1>8, <2>2 DEF assert_bug, bugVars, CircleKnown
  <2>4. \A u \in S : WaitsOn(pend[u], locked) \in S
    BY <1>8, <2>2 DEF waiting_on
  <2>5. CASE t \notin S
    <3>1. \A u \in S : waiting_on(u) \in S
      BY <1>5, <2>4, <2>5
    <3> QED BY <2>2, <2>3, <3>1 DEF NoWaitCycle
  <2>6. CASE t \in S
    <3>1. \A i \in 1..MaxThreads : h[i-1] \in S => h[i] \in S
      BY <1>6, <2>4
    <3>2. \A i \in 1..MaxThreads : h[i] \in S
      BY <1>6, <2>6, <3>1, ChainStays
    <3>3. \A i \in 1..MaxThreads : h[i] # t
      BY <1>6, <2>3 DEF is_waiting_on
    <3>4. \A i \in 1..MaxThreads : h[i] \notin {NULL, t}
      BY <3>2, <3>3, Basics
    <3>5. NeverReturns(t, pend)
      BY <1>6, <3>4 DEF NeverReturns
    <3> QED BY <1>8, <3>5
  <2> QED BY <2>5, <2>6
<1> QED BY <1>0, <1>7, <1>8 DEF pend

\* A step takes t out of every circle, since t has no pending action any more;
\* the mutexes it acquires are held by t, those it releases by nobody.
LEMMA StepKeepsCircles ==
    ASSUME IInv, CircleKnown, NEW t \in Threads,
           pc = "choose", pc' = "check", bug' = bug, failure' = failure,
           pending' = [pending EXCEPT ![t] = NoAct],
           \A m \in Mutexes : locked'[m] \in {locked[m], t, NULL}
    PROVE  CircleKnown'
<1>2. SUFFICES ASSUME ~bug, NoWaitCycle,
                      NEW S \in SUBSET Threads, S # {}, \A u \in S : waiting_on(u)' \in S
               PROVE  FALSE
  BY DEF CircleKnown, NoWaitCycle
<1>3. t \notin S
  <2>1. pending'[t] = NoAct
    BY DEF IInv, TypeOK
  <2>2. waiting_on(t)' = NULL
    BY <2>1, Basics DEF waiting_on, WaitsOn
  <2> QED BY <1>2, <2>2, Basics
<1>4. ASSUME NEW u \in S PROVE waiting_on(u) \in S
  <2>1. pending'[u] = pending[u]
    BY <1>3 DEF IInv, TypeOK
  <2>2. waiting_on(u)' \in S /\ waiting_on(u)' # t /\ waiting_on(u)' # NULL
    BY <1>2, <1>3, Basics
  <2>3. waiting_on(u)' = WaitsOn(pending[u], locked')
    BY <2>1 DEF waiting_on
  <2>4. CASE pending[u].op = "LOCK"
    <3>1. pending[u].mtx \in Mutexes
      BY <2>4 DEF IInv, Operands
    <3>2. waiting_on(u)' = locked'[pending[u].mtx] /\ waiting_on(u) = locked[pending[u].mtx]
      BY <2>3, <2>4 DEF WaitsOn, waiting_on
    <3> QED BY <2>2, <3>1, <3>2
  <2>5. CASE pending[u].op # "LOCK"
    BY <2>2, <2>3, <2>5 DEF WaitsOn, waiting_on
  <2> QED BY <2>4, <2>5
<1> QED BY <1>2, <1>4 DEF NoWaitCycle

\* Steps that leave the pending actions and the mutexes alone.
LEMMA SameCircles ==
    ASSUME CircleKnown, UNCHANGED <<pending, locked, bug>>,
           \/ failure' # "is_waiting_on never returns"
           \/ failure' = failure /\ pc' = pc /\ prefix' = prefix
    PROVE  CircleKnown'
<1>1. NoWaitCycle' <=> NoWaitCycle
  BY DEF NoWaitCycle, waiting_on
<1>2. ~bug' => NoWaitCycle'
  BY <1>1 DEF CircleKnown
<1>3. failure' = "is_waiting_on never returns" => pc' = "end" /\ bug' /\ ~prefix'
  BY DEF CircleKnown
<1> QED BY <1>2, <1>3 DEF CircleKnown

LEMMA CirclesInit == Init => CircleKnown /\ OneToStash
<1> SUFFICES ASSUME Init PROVE CircleKnown /\ OneToStash
  OBVIOUS
<1>1. \A t \in Threads : waiting_on(t) = NULL
  BY Basics DEF Init, waiting_on, WaitsOn
<1>2. pc = "stash" /\ ~asserted /\ failure = "ok"
  BY DEF Init
<1>3. \A u \in Threads : NeedsStash(u) => state[u] = "CREATED"
  BY DEF Init, NeedsStash, Live
<1> QED BY <1>1, <1>2, <1>3, Basics DEF CircleKnown, NoWaitCycle, OneToStash

\* After a step only the thread that took it, and a new one, lack an action.
LEMMA StepStash ==
    ASSUME IInv, NEW t \in Threads, Step(t), pc' = "check"
    PROVE  /\ pending' = [pending EXCEPT ![t] = NoAct]
           /\ \A u \in Threads \ {t} : NeedsStash(u)' => state'[u] = "CREATED"
<1>0. pending' = [pending EXCEPT ![t] = NoAct] /\ pc = "choose"
  <2> USE DEF TakeStep
  <2>1. CASE Start(t) \/ Yield(t) \/ Join(t) \/ Create(t) \/ Finish(t)
    BY <2>1 DEF Start, Yield, Join, Create, Finish
  <2>2. CASE Lock(t) \/ TryLock(t) \/ Unlock(t) \/ Wait(t)
    BY <2>2 DEF Lock, TryLock, Unlock, Wait
  <2>3. CASE NotifyAll(t) \/ NotifyOne(t)
    BY <2>3 DEF NotifyAll, NotifyOne, Fail
  <2> QED BY <2>1, <2>2, <2>3 DEF Step
<1>1. SUFFICES ASSUME NEW u \in Threads \ {t}, NeedsStash(u)', state'[u] # "CREATED"
               PROVE  FALSE
  BY <1>0
<1>2. pending'[u] = pending[u] /\ pending[u] = NoAct
  BY <1>0, <1>1 DEF NeedsStash, IInv, TypeOK
<1>3. ~Live(u) /\ state'[u] # state[u]
  BY <1>0, <1>1, <1>2 DEF IInv, Stashed, NeedsStash, Live
<1>4. u \notin Joiners(t) /\ u \notin LockWaiters(t)
  BY <1>2, Basics DEF Joiners, LockWaiters
<1>5. state \in [Threads -> ThreadStates]
  BY DEF IInv, TypeOK
<1>6. CASE Start(t) \/ Yield(t) \/ Join(t) \/ Lock(t) \/ TryLock(t)
  BY <1>3, <1>6 DEF Start, Yield, Join, Lock, TryLock
<1>7. CASE Create(t)
  BY <1>1, <1>3, <1>5, <1>7 DEF Create
<1>8. CASE Finish(t)
  BY <1>3, <1>4, <1>8 DEF Finish
<1>9. CASE Unlock(t) \/ Wait(t)
  BY <1>3, <1>4, <1>9 DEF Unlock, Wait, Wake
<1>10. ASSUME NEW S, Wake(S), ~WakeFails(S), \A v \in S \cap Threads : InQueue(v)
       PROVE  FALSE
  <2>1. u \in S
    BY <1>3, <1>10 DEF Wake
  <2>2. Created(u)
    BY <1>10, <2>1 DEF IInv, QueuedExist
  <2>3. state[u] # "COMPLETED"
    BY <1>10, <2>1 DEF WakeFails
  <2> QED BY <1>3, <2>2, <2>3 DEF Live, Created
<1>11. CASE NotifyAll(t)
  <2>1. /\ pending[t].op = "NOTIFY_ALL"
        /\ Wake(Range(waiters[pending[t].cnd])) /\ ~WakeFails(Range(waiters[pending[t].cnd]))
    BY <1>11 DEF NotifyAll, TakeStep, Fail
  <2>2. pending[t].cnd \in CondVars
    BY <2>1 DEF IInv, Operands
  <2>3. \A v \in Range(waiters[pending[t].cnd]) : InQueue(v)
    BY <2>2 DEF InQueue
  <2> QED BY <1>10, <2>1, <2>3
<1>12. CASE NotifyOne(t)
  <2>1. pending[t].op = "NOTIFY_ONE"
    BY <1>12 DEF NotifyOne
  <2>2. PICK i \in 1..Len(waiters[pending[t].cnd]) :
            Wake({waiters[pending[t].cnd][i]}) /\ ~WakeFails({waiters[pending[t].cnd][i]})
    BY <1>12 DEF NotifyOne, Fail
  <2>3. pending[t].cnd \in CondVars /\ waiters \in [CondVars -> Seq(Threads)]
    BY <2>1 DEF IInv, Operands, TypeOK
  <2>4. InQueue(waiters[pending[t].cnd][i])
    BY <2>2, <2>3 DEF InQueue, Range
  <2> QED BY <1>10, <2>2, <2>4
<1> QED BY <1>6, <1>7, <1>8, <1>9, <1>11, <1>12 DEF Step

LEMMA OneToStashNext ==
    ASSUME IInv, BugEndsPrefix, BugEndsPrefix', OneToStash, [Next]_vars
    PROVE  OneToStash'
<1>1. CASE UNCHANGED vars
  BY <1>1 DEF OneToStash, NeedsStash, Live, vars, schedVars, bugVars
<1>2. ASSUME NEW t \in Threads, Stash(t) PROVE OneToStash'
  <2>1. CASE Fail("is_waiting_on never returns")
    BY <2>1 DEF Fail, OneToStash
  <2>2. CASE ~Fail("is_waiting_on never returns")
    <3>1. PICK a \in UserActions(t) :
            /\ pending' = [pending EXCEPT ![t] = a]
            /\ state' = [state EXCEPT ![t] = "READY"]
            /\ pc' = pc
            /\ IF is_waiting_on(t, [pending EXCEPT ![t] = a])
               THEN assert_bug ELSE UNCHANGED bugVars
      BY <1>2, <2>2 DEF Stash
    <3>2. pc = "stash" /\ NeedsStash(t)
      BY <1>2 DEF Stash
    <3>3. a # NoAct
      BY UserActionOperands, Basics
    <3>4. \A u \in Threads \ {t} : pending'[u] = pending[u] /\ state'[u] = state[u]
      BY <3>1 DEF IInv, TypeOK
    <3>5. \A u \in Threads : NeedsStash(u)' => u # t /\ NeedsStash(u) /\ state'[u] = state[u]
      BY <3>1, <3>3, <3>4 DEF NeedsStash, Live, IInv, TypeOK
    <3>6. CASE asserted' = asserted
      BY <3>1, <3>2, <3>5, <3>6 DEF OneToStash
    <3>7. CASE asserted' # asserted
      <4>1. is_waiting_on(t, [pending EXCEPT ![t] = a])
        BY <3>1, <3>7 DEF bugVars
      <4>2. a.op # "START"
        <5> SUFFICES ASSUME a.op = "START" PROVE FALSE
          OBVIOUS
        <5> DEFINE pend == [pending EXCEPT ![t] = a]
        <5>1. pend[t] = a
          BY DEF IInv, TypeOK
        <5>2. \A u \in Threads : WaitsOn(pend[u], locked) \in Threads \cup {NULL}
          <6> SUFFICES ASSUME NEW u \in Threads
                       PROVE  WaitsOn(pend[u], locked) \in Threads \cup {NULL}
            OBVIOUS
          <6>1. /\ pend[u].op = "LOCK" => pend[u].mtx \in Mutexes
                /\ pend[u].op = "JOIN" => pend[u].thr \in Threads
            BY DEF IInv, Operands, TypeOK
          <6> HIDE DEF pend
          <6> QED BY <6>1, WaitsOnThreads DEF IInv
        <5>3. WaitsOn(pend[t], locked) = NULL
          BY <5>1 DEF WaitsOn
        <5>w. is_waiting_on(t, pend)
          BY <4>1
        <5> HIDE DEF pend
        <5>4. PICK h : /\ h = Chain(t, pend)
                       /\ h[0] = t
                       /\ \A i \in 1..MaxThreads :
                             /\ h[i-1] = NULL => h[i] = NULL
                             /\ h[i-1] \in Threads => h[i] = WaitsOn(pend[h[i-1]], locked)
          BY <5>2, ChainSteps
        <5>5. h[1] = NULL
          <6>1. 1 \in 1..MaxThreads /\ 1-1 = 0
            BY ThreadSyncAssumption
          <6> QED BY <5>3, <5>4, <6>1
        <5>m. MaxThreads \in Nat \ {0}
          BY ThreadSyncAssumption
        <5>6. \A i \in 1..MaxThreads : h[i] = NULL
          <6> DEFINE g == [i \in 0..MaxThreads |-> IF i = 0 THEN NULL ELSE h[i]]
          <6>0. g[0] = NULL /\ \A i \in 1..MaxThreads : g[i] = h[i]
            BY <5>m
          <6>1. ASSUME NEW i \in 1..MaxThreads, g[i-1] \in {NULL} PROVE g[i] \in {NULL}
            <7>1. CASE i = 1
              BY <5>5, <6>0, <7>1
            <7>2. CASE i # 1
              <8>1. i-1 \in 1..MaxThreads
                BY <7>2, <5>m
              <8>2. h[i-1] = NULL
                BY <6>0, <6>1, <8>1
              <8> QED BY <5>4, <6>0, <8>2
            <7> QED BY <7>1, <7>2
          <6> DEFINE Z == {NULL}
          <6>2. g[0] \in Z
            BY <6>0
          <6>3. \A i \in 1..MaxThreads : g[i-1] \in Z => g[i] \in Z
            BY <6>1
          <6> HIDE DEF g, Z
          <6>4. \A i \in 1..MaxThreads : g[i] \in Z
            BY <6>2, <6>3, ChainStays
          <6> QED BY <6>0, <6>4 DEF Z
        <5>7. PICK i \in 1..MaxThreads : h[i] = t
          BY <5>w, <5>4 DEF is_waiting_on
        <5> QED BY <5>6, <5>7, Basics
      <4>3. state[t] # "CREATED"
        BY <4>2, UserActionOperands
      <4> QED BY <3>1, <3>2, <3>5, <4>3 DEF OneToStash
    <3> QED BY <3>6, <3>7
  <2> QED BY <2>1, <2>2
<1>3. ASSUME NEW t \in Threads, Step(t) PROVE OneToStash'
  <2>1. CASE pc' = "check"
    BY <1>3, <2>1, StepStash DEF OneToStash
  <2>2. CASE pc' # "check"
    BY <1>3, <2>2, StepKeepsFlags DEF StepFlags, OneToStash
  <2> QED BY <2>1, <2>2
<1>4. CASE Disable \/ EndExecution
  BY <1>4 DEF Disable, EndExecution, OneToStash
<1>5. CASE should_terminate_execution
  BY <1>5 DEF should_terminate_execution, schedVars, OneToStash, BugEndsPrefix, NeedsStash, Live
<1>6. CASE Ended
  BY <1>1, <1>6 DEF Ended
<1> QED BY <1>1, <1>2, <1>3, <1>4, <1>5, <1>6 DEF Next

LEMMA CirclesNext ==
    ASSUME IInv, IInv', BugEndsPrefix, OneToStash, CircleKnown, [Next]_vars
    PROVE  CircleKnown'
<1> DEFINE Kept == /\ pc = "choose" /\ pc' = "check" /\ bug' = bug /\ failure' = failure
                   /\ \E t \in Threads :
                        /\ pending' = [pending EXCEPT ![t] = NoAct]
                        /\ \A m \in Mutexes : locked'[m] \in {locked[m], t, NULL}
           Failed == /\ pc' = "end" /\ UNCHANGED <<pending, locked, bug>>
                     /\ failure' # "is_waiting_on never returns"
<1>0. Kept \/ Failed => CircleKnown'
  BY StepKeepsCircles, SameCircles
<1>1. CASE UNCHANGED vars
  BY <1>1, SameCircles DEF vars, schedVars, syncVars, bugVars
<1>2. ASSUME NEW t \in Threads, Stash(t) PROVE CircleKnown'
  BY <1>2, StashKeepsCircles
<1>3. ASSUME NEW t \in Threads, Step(t) PROVE Kept \/ Failed
  <2> USE DEF TakeStep, Quiet, bugVars, syncVars, schedVars
  <2>t. /\ pending[t].op \in {"LOCK", "TRYLOCK"} => pending[t].mtx \in Mutexes
        /\ pending[t].op \in {"UNLOCK", "WAIT"} => pending[t].mtx \in Mutexes
        /\ locked \in [Mutexes -> Threads \cup {NULL}]
    BY DEF IInv, Operands, TypeOK
  <2>1. CASE Start(t) \/ Yield(t) \/ Join(t) \/ Create(t) \/ Finish(t)
    BY <2>1 DEF Start, Yield, Join, Create, Finish
  <2>2. CASE Lock(t)
    BY <2>2, <2>t DEF Lock, Acquire
  <2>3. CASE TryLock(t)
    BY <2>3, <2>t DEF TryLock, Acquire
  <2>4. CASE Unlock(t)
    BY <2>4, <2>t DEF Unlock, Release
  <2>5. CASE Wait(t)
    BY <2>5, <2>t DEF Wait, Release
  <2>6. CASE NotifyAll(t)
    BY <2>6 DEF NotifyAll, Fail
  <2>7. CASE NotifyOne(t)
    BY <2>7 DEF NotifyOne, Fail
  <2> QED BY <1>3, <2>1, <2>2, <2>3, <2>4, <2>5, <2>6, <2>7 DEF Step
<1>e. pc # "end" => failure # "is_waiting_on never returns"
  BY DEF CircleKnown
<1>4. CASE Disable
  BY <1>4, <1>e, SameCircles DEF Disable, syncVars, bugVars
<1>5. CASE EndExecution
  BY <1>5, <1>e, SameCircles DEF EndExecution, schedVars, syncVars, bugVars
<1>6. CASE should_terminate_execution
  BY <1>6, <1>e, SameCircles DEF should_terminate_execution, schedVars, syncVars
<1>7. CASE Ended
  BY <1>1, <1>7 DEF Ended
<1> HIDE DEF Kept, Failed
<1> QED BY <1>0, <1>1, <1>2, <1>3, <1>4, <1>5, <1>6, <1>7 DEF Next

\* Looking for a circle when an action is stashed, through the thread that gets
\* it only, is enough (the loop of ModelChecker::run, Thread::is_waiting_on): a
\* circle never stands unreported, the loop goes on with one only on a prefix
\* that is not known to be feasible, and is_waiting_on is caught only there.
THEOREM CyclesAreReported == Spec => []WaitCyclesReported
<1>1. CircleKnown /\ BugEndsPrefix => WaitCyclesReported
  <2> SUFFICES ASSUME CircleKnown, BugEndsPrefix PROVE WaitCyclesReported
    OBVIOUS
  <2>1. pc = "choose" /\ bug => ~prefix
    BY DEF BugEndsPrefix
  <2> QED BY <2>1 DEF CircleKnown, NoWaitCycle, WaitCyclesReported, Circle
<1>2. Spec => [](CircleKnown /\ BugEndsPrefix)
  <2>1. Init => CircleKnown /\ OneToStash
    BY CirclesInit
  <2>2. /\ IInv /\ BugEndsPrefix /\ IInv' /\ BugEndsPrefix'
        /\ CircleKnown /\ OneToStash /\ [Next]_vars
        => CircleKnown' /\ OneToStash'
    BY CirclesNext, OneToStashNext
  <2> QED BY <2>1, <2>2, IInvAlways, PTL DEF Spec
<1> QED BY <1>1, <1>2, PTL
=============================================================================
