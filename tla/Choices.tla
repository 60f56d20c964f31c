------------------------------ MODULE Choices ------------------------------
(***************************************************************************)
(* One Node of the NodeStack and the choices it hands out besides threads: *)
(* the store, promise or future value a load reads, the promise a store    *)
(* resolves, the waiter or the kind of wakeup (misc), the store that       *)
(* breaks a release sequence.                                              *)
(*                                                                         *)
(* Executions reach the node again and again by the same prefix.  One that *)
(* diverges deeper makes the same choice here; one that diverges here makes *)
(* the next.  While an execution goes on, later stores may send the node   *)
(* future values, and conflicting actions may ask for another thread in    *)
(* its place (backtrack).  The search leaves the node for good when an     *)
(* execution ends that asked for neither.  Module Explore has the stack    *)
(* and the choice of threads.                                              *)
(***************************************************************************)
EXTENDS Integers, Sequences, FiniteSets

CONSTANTS
    Actions,        \* what the action may be: see ActionsAssumption
    FutureValues,   \* what stores may send: see FutureValuesAssumption
    ExpireSlop, MaxFutureValues,    \* of model_params
    MaxReplays,     \* bound on executions that diverge deeper, per choice
    MaxSent         \* bound on future values sent

NoRead == <<"none", 0>>
Past(i) == <<"past", i>>
Promised(i) == <<"promise", i>>
Future(i) == <<"future", i>>

ReadKinds == {"read", "rmw"}

\* An action and what the prefix decides about it.  past and inherited: how
\* many stores and promises it may read; old: those check_recency refuses;
\* resolvable: promises the store may resolve, by the kind and the number of
\* what an RMW reads; misc, breaks: how many other choices.  An action has one
\* sort of choice, an RMW two (initialize_curr_action, check_current_action).
ASSUME ActionsAssumption == \A a \in Actions :
    /\ a.kind \in {"read", "write", "rmw", "wait", "notify_one", "fixup"}
    /\ {a.past, a.inherited, a.misc, a.breaks} \subseteq Nat
    /\ a.past + a.inherited <= 1 => a.old = {}
    /\ a.kind \notin ReadKinds => a.past = 0 /\ a.inherited = 0
    /\ a.kind \notin {"wait", "notify_one"} => a.misc = 0
    /\ a.kind # "fixup" => a.breaks = 0
    /\ \A rf \in DOMAIN a.resolvable : a.resolvable[rf] \subseteq Nat /\ IsFiniteSet(a.resolvable[rf])
FutureValue == [value : Nat, tid : Nat, expiration : Nat]
ASSUME FutureValuesAssumption == FutureValues \subseteq FutureValue
ASSUME OptionsAssumption == {ExpireSlop, MaxFutureValues, MaxReplays, MaxSent} \subseteq Nat

VARIABLES
    act,        \* the action
    node,       \* its Node
    phase,      \* "reach", "run" or "end" of an execution; "left", or "crash" after a failed ASSERT
    fresh,      \* the execution diverged here, or is the first
    alive,      \* it is not infeasible yet
    flagged,    \* set_latest_backtrack was called for the action
    backtrack,  \* another thread is to be tried in its place
    replays,    \* executions that made this choice again
    ran,        \* auxiliary: the choices made
    sent,       \* auxiliary: the future values sent
    received    \* auxiliary: the future values read

vars == <<act, node, phase, fresh, alive, flagged, backtrack, replays, ran, sent, received>>

-----------------------------------------------------------------------------
(* class Node.                                                             *)

NewNode == [status |-> "PAST", past_idx |-> 0, promise_idx |-> -1, future_values |-> <<>>,
            future_index |-> -1, resolve |-> {}, resolve_idx |-> -1, misc_index |-> 0, break_idx |-> 0]

misc_empty(n) == n.misc_index + 1 >= act.misc
promise_empty(n) == \A k \in n.resolve : k <= n.resolve_idx
read_from_past_empty(n) == n.past_idx + 1 >= act.past

\* Mutant: one too many.
read_from_promise_empty_Late(n) == n.promise_idx >= act.inherited

read_from_promise_empty(n) == n.promise_idx + 1 >= act.inherited
future_value_empty(n) == n.future_index + 1 >= Len(n.future_values)
read_from_empty(n) == read_from_past_empty(n) /\ read_from_promise_empty(n) /\ future_value_empty(n)
relseq_break_empty(n) == n.break_idx + 1 >= act.breaks

\* Each increment is [ok, node].
To(ok, n) == [ok |-> ok, node |-> n]
Increment(i, size) == IF i < size THEN i + 1 ELSE i

increment_misc(n) ==
    LET i == Increment(n.misc_index, act.misc)
    IN  To(n.misc_index < act.misc /\ i < act.misc, [n EXCEPT !.misc_index = i])

increment_promise(n) ==
    LET later == {k \in n.resolve : k > n.resolve_idx}
    IN  IF later = {} THEN To(FALSE, n)
        ELSE To(TRUE, [n EXCEPT !.resolve_idx = CHOOSE k \in later : \A j \in later : k <= j])

\* The next thing to read; an index that reached its end stays there.
NextRead(n) ==
    LET past == Increment(n.past_idx, act.past)
        promise == Increment(n.promise_idx, act.inherited)
        future == Increment(n.future_index, Len(n.future_values))
        pasts == [n EXCEPT !.past_idx = past]
        promises == [pasts EXCEPT !.promise_idx = promise]
        futures == [promises EXCEPT !.future_index = future]
    IN  IF past < act.past THEN To(TRUE, [pasts EXCEPT !.status = "PAST"])
        ELSE IF promise < act.inherited THEN To(TRUE, [promises EXCEPT !.status = "PROMISE"])
        ELSE IF future < Len(n.future_values) THEN To(TRUE, [futures EXCEPT !.status = "FUTURE"])
        ELSE To(FALSE, [futures EXCEPT !.status = "NONE"])

clear_promise_resolutions(n) == [n EXCEPT !.resolve = {}, !.resolve_idx = -1]

\* Mutant: the promises that were resolved stay resolved.
increment_read_from_Keeps(n) == NextRead(n)

increment_read_from(n) == NextRead(clear_promise_resolutions(n))

increment_relseq_break(n) ==
    LET i == Increment(n.break_idx, act.breaks)
    IN  To(n.break_idx < act.breaks /\ i < act.breaks, [n EXCEPT !.break_idx = i])

increment_behaviors(n) ==
    LET misc == increment_misc(n)
        promise == increment_promise(misc.node)
        read_from == increment_read_from(promise.node)
    IN  IF misc.ok THEN misc
        ELSE IF promise.ok THEN promise
        ELSE IF read_from.ok THEN read_from
        ELSE increment_relseq_break(read_from.node)

\* [accepted, node].
SameValue(n, fv) == {i \in DOMAIN n.future_values :
    n.future_values[i].value = fv.value /\ n.future_values[i].tid = fv.tid}

\* Mutant: the value that is being read counts as one still to be read.
add_future_value_Current(n, fv) ==
    LET same == SameValue(n, fv)
        last == CHOOSE i \in same : \A j \in same : j <= i
    IN  IF \E i \in same : fv.expiration <= n.future_values[i].expiration THEN To(FALSE, n)
        ELSE IF same # {} /\ last - 1 >= n.future_index
             THEN To(TRUE, [n EXCEPT !.future_values[last].expiration = fv.expiration])
        ELSE To(TRUE, [n EXCEPT !.future_values = Append(@, fv)])

add_future_value(n, fv) ==
    LET same == SameValue(n, fv)
        last == CHOOSE i \in same : \A j \in same : j <= i
    IN  IF \E i \in same : fv.expiration <= n.future_values[i].expiration THEN To(FALSE, n)
        ELSE IF same # {} /\ last - 1 > n.future_index
             THEN To(TRUE, [n EXCEPT !.future_values[last].expiration = fv.expiration])
        ELSE IF same # {} /\ fv.expiration <= n.future_values[last].expiration + ExpireSlop THEN To(FALSE, n)
        ELSE IF MaxFutureValues > 0 /\ Len(n.future_values) >= MaxFutureValues THEN To(FALSE, n)
        ELSE To(TRUE, [n EXCEPT !.future_values = Append(@, fv)])

-----------------------------------------------------------------------------
(* An execution reaches the node.                                          *)

Fetched(n) == IF n.status = "PAST" /\ act.past = 0 THEN increment_read_from(n).node ELSE n

\* The loop of process_read passes over stores that check_recency refuses;
\* the last one is read all the same, with too_many_reads.
Recent(n) ==
    LET good == {i \in n.past_idx..act.past - 1 : Past(i) \notin act.old}
        first == CHOOSE i \in good : \A j \in good : i <= j
    IN  IF n.status # "PAST" \/ n.past_idx \in good THEN n
        ELSE IF good # {} THEN [clear_promise_resolutions(n) EXCEPT !.past_idx = first]
        ELSE increment_read_from([n EXCEPT !.past_idx = act.past]).node

ReadFrom(n) ==
    CASE n.status = "PAST" -> Past(n.past_idx)
      [] n.status = "PROMISE" -> Promised(n.promise_idx)
      [] n.status = "FUTURE" -> Future(n.future_index)
      [] OTHER -> NoRead

\* What the store of an RMW may resolve depends on the value it read.
Resolvable(rf, futures) ==
    LET key == IF rf[1] = "future" THEN <<"future", futures[rf[2] + 1].value>> ELSE rf
    IN  IF key \in DOMAIN act.resolvable THEN act.resolvable[key] ELSE {}

NoValidReads == act.kind \in ReadKinds /\ act.past + act.inherited = 0 /\ node.future_values = <<>>

Processed(n) ==
    LET read == IF act.kind \in ReadKinds THEN Recent(Fetched(n)) ELSE n
    IN  IF act.kind = "rmw" /\ read.status # "NONE"
        THEN [read EXCEPT !.resolve = @ \cup Resolvable(ReadFrom(read), read.future_values)]
        ELSE read

Choice(n) == [rf |-> IF act.kind \in ReadKinds THEN ReadFrom(n) ELSE NoRead,
              resolve |-> n.resolve_idx, misc |-> n.misc_index, break |-> n.break_idx]

\* check_curr_backtracking.
Nonempty(n) == backtrack \/ ~misc_empty(n) \/ ~read_from_empty(n) \/ ~promise_empty(n) \/ ~relseq_break_empty(n)

\* initialize_curr_action, check_current_action.
Reach ==
    LET n == IF NoValidReads THEN node ELSE Processed(node)
        ok == ~NoValidReads /\ (act.kind \in ReadKinds => n.status # "NONE")
    IN  /\ phase = "reach"
        /\ phase' = "run"
        /\ node' = n
        /\ alive' = (ok /\ ReadFrom(n) \notin act.old)
        /\ ran' = IF ok /\ fresh THEN ran \cup {Choice(n)} ELSE ran
        /\ received' = IF ok /\ n.status = "FUTURE" THEN received \cup {n.future_values[n.future_index + 1]} ELSE received
        /\ flagged' = Nonempty(n)
        /\ fresh' = FALSE
        /\ UNCHANGED <<act, backtrack, replays, sent>>

\* ModelExecution::add_future_value, by a later store of the execution.
SendFutureValue(fv) ==
    LET added == add_future_value(node, fv)
    IN  /\ phase = "run" /\ alive
        /\ act.kind \in ReadKinds
        /\ Cardinality(sent) < MaxSent
        /\ node' = added.node
        /\ flagged' = (flagged \/ added.ok)
        /\ sent' = sent \cup {fv}
        /\ UNCHANGED <<act, phase, fresh, alive, backtrack, replays, ran, received>>

\* set_backtracking, for a later action that conflicts with this one.
SetBacktrack ==
    /\ phase = "run" /\ alive /\ ~backtrack
    /\ backtrack' = TRUE /\ flagged' = TRUE
    /\ UNCHANGED <<act, node, phase, fresh, alive, replays, ran, sent, received>>

EndExecution ==
    /\ phase = "run" /\ phase' = "end"
    /\ UNCHANGED <<act, node, fresh, alive, flagged, backtrack, replays, ran, sent, received>>

\* The next execution diverges deeper.
Replay ==
    /\ phase = "end" /\ alive /\ replays < MaxReplays
    /\ phase' = "reach" /\ replays' = replays + 1
    /\ UNCHANGED <<act, node, fresh, alive, flagged, backtrack, ran, sent, received>>

\* get_next_thread at the divergence point: pop_restofstack(2), or (1) for
\* another thread, which get_next_backtrack asserts that there is.
Diverge ==
    LET next == increment_behaviors(node)
    IN  /\ phase = "end" /\ flagged
        /\ phase' = IF next.ok THEN "reach" ELSE IF backtrack THEN "left" ELSE "crash"
        /\ node' = next.node
        /\ fresh' = next.ok
        /\ replays' = 0
        /\ UNCHANGED <<act, alive, flagged, backtrack, ran, sent, received>>

\* The next execution diverges before the node.
Leave ==
    /\ phase = "end" /\ ~flagged
    /\ phase' = "left"
    /\ UNCHANGED <<act, node, fresh, alive, flagged, backtrack, replays, ran, sent, received>>

\* A plain store looks for the promises it may resolve when its node is new.
FirstResolvable == IF act.kind = "write" THEN Resolvable(NoRead, <<>>) ELSE {}

Init ==
    /\ act \in Actions
    /\ node = [NewNode EXCEPT !.resolve = FirstResolvable]
    /\ phase = "reach" /\ fresh = TRUE /\ alive = TRUE
    /\ flagged = FALSE /\ backtrack = FALSE
    /\ replays = 0 /\ ran = {} /\ sent = {} /\ received = {}

Next == Reach \/ SetBacktrack \/ EndExecution \/ Replay \/ Diverge \/ Leave
        \/ \E fv \in FutureValues : SendFutureValue(fv)

\* A program's executions are finite and so is what diverges deeper.
Spec == Init /\ [][Next]_vars /\ WF_vars(Next)

-----------------------------------------------------------------------------
(* Properties.                                                             *)

\* The indexes stay within what they index, or one behind.
TypeOK ==
    /\ phase \in {"reach", "run", "end", "left", "crash"}
    /\ node.past_idx \in 0..act.past /\ node.promise_idx \in -1..act.inherited
    /\ node.future_index \in -1..Len(node.future_values)
    /\ node.resolve_idx \in node.resolve \cup {-1}
    /\ node.misc_index \in 0..act.misc /\ node.break_idx \in 0..act.breaks
    /\ {fresh, alive, flagged, backtrack} \subseteq BOOLEAN

\* The assertions of process_read, get_read_from_promise, get_future_value
\* and get_next_backtrack: what the node hands out exists, and a node at which
\* the search diverges has another choice or another thread.
NodeAsserts ==
    /\ TypeOK
    /\ phase # "crash"
    /\ phase = "run" /\ alive /\ act.kind \in ReadKinds =>
          CASE node.status = "PAST" -> node.past_idx < act.past
            [] node.status = "PROMISE" -> node.promise_idx \in 0..act.inherited - 1
            [] node.status = "FUTURE" -> node.future_index \in 0..Len(node.future_values) - 1
            [] OTHER -> FALSE

\* The choices there are: all that may be read, with all it may resolve.
Reads == ({Past(i) : i \in 0..act.past - 1} \ act.old)
         \cup {Promised(i) : i \in 0..act.inherited - 1}
         \cup {Future(i - 1) : i \in DOMAIN node.future_values}
UpTo(size) == {0} \cup 0..size - 1
Legal ==
    LET reads == IF act.kind \in ReadKinds THEN Reads ELSE {NoRead}
    IN  UNION {{[rf |-> rf, resolve |-> k, misc |-> m, break |-> b] :
                    k \in {-1} \cup (IF act.kind \in {"write", "rmw"} THEN Resolvable(rf, node.future_values) ELSE {}),
                    m \in UpTo(act.misc), b \in UpTo(act.breaks)} : rf \in reads}

\* Every choice is made exactly once before the search leaves the node, also
\* those that turn up while it goes on, and it does leave.
A == INSTANCE Agenda WITH agenda <- Legal, ran <- ran, closed <- phase = "left"
ImplementsAgenda == A!Spec /\ A!Ends

\* A future value is read, or the same one was read with an expiration that
\* was not much shorter, unless there were too many of them.
ValuesAreRead == phase = "left" =>
    \A fv \in sent : \/ \E r \in received : /\ r.value = fv.value /\ r.tid = fv.tid
                                            /\ r.expiration + ExpireSlop >= fv.expiration
                     \/ MaxFutureValues > 0 /\ Len(node.future_values) = MaxFutureValues
=============================================================================
