------------------------------- MODULE SCOrder -------------------------------
(***************************************************************************)
(* SCAnalysis (scanalysis.cc) and SCGenerator (scfence/scgen.cc): both     *)
(* look for a sequentially consistent order of a finished execution.  Each *)
(* action gets a clock vector of its own, cv, which says what has to come  *)
(* before it; loads add to it what the store they read implies; then the   *)
(* order is drawn up action by action, and when only conflicting stores    *)
(* are left, one is chosen, and chosen again if that ends in a cycle.      *)
(*                                                                         *)
(* The two differ in how the fast attempt finds the edges: SCAnalysis      *)
(* works off a set of changed actions with binary searches in lists of     *)
(* stores, SCGenerator sweeps over the trace until nothing changes.  If    *)
(* the fast attempt fails, both start again with a slow one that adds the  *)
(* edges of happens-before and of the seq_cst order first, so that the     *)
(* order shows where the execution departs from sequential consistency.    *)
(***************************************************************************)
EXTENDS SCTrace

CONSTANTS
    Families,   \* families of executions, as in SCTrace
    Tools       \* the analyses to run: a subset of {"SCAnalysis", "SCGenerator"}

ASSUME SCOrderAssumption ==
    /\ Tools \subseteq {"SCAnalysis", "SCGenerator"}
    /\ \A f \in Families : /\ f.threads \in Nat \ {0} /\ f.locs \in Nat \ {0}
                           /\ \A b \in f.bodies : \A i \in DOMAIN b :
                                 b[i].tid \in Children(f) /\ b[i].loc \in 1..f.locs /\ b[i].ord \in Orders

VARIABLES
    input,      \* the execution: [tool, family, tr, whole, past]
    pc,         \* build, compute, settled, choose, check, done, or crashed
    slow,       \* the second attempt (~fastVersion at its start)
    g,          \* the constraints: cvmap, cyclic, allowNonSC and fastVersion; of
                \* SCAnalysis, writeMap and updateSet; results of the last calls
    threadlists,\* the actions of each thread that are not in the order yet
    sweep,      \* passes of the running computeCV: "first", "more"
    chosen,     \* the action whose constraints are being propagated, or NONE
    choice,     \* choices of generateSC: the picks to repeat, those made, and the
                \* last one that had an alternative: [plan, picks, last]
    sclist,     \* the order so far
    badrf       \* loads that do not read the last store of the order

vars == <<input, pc, slow, g, threadlists, sweep, chosen, choice, sclist, badrf>>

whole == input.whole
Index == DOMAIN input.whole
Tids  == 1..input.family.threads+1
tid(a) == input.whole[a].tid
loc(a) == input.whole[a].loc
rf(a)  == input.whole[a].rf
IsRead(a)  == is_read(input.whole[a])
IsWrite(a) == is_write(input.whole[a])
SeqCstAct(a) == is_seqcst(input.whole[a])
happens_before(a, b) == a \in input.past[b]

\* execution->get_actions_on_obj: what thread t did at a location, latest first.
OnObj(l, t) == Reverse(SelectSeq([a \in Index |-> a], LAMBDA a :
                   tid(a) = t /\ loc(a) = l /\ (IsRead(a) \/ IsWrite(a))))

LastOf(t)   == Max({a \in Index : tid(a) = t})
creation(t) == CHOOSE a \in Index : whole[a].kind = "CREATE" /\ loc(a) = t

-----------------------------------------------------------------------------
(***************************************************************************)
(* Clock vectors of the analysis.  <<>> is a vector that is not there yet. *)
(***************************************************************************)
Own(a)     == [t \in Tids |-> IF t = tid(a) THEN a ELSE 0]
act_cv(a)  == [t \in Tids |-> LET s == {b \in input.past[a] : tid(b) = t}
                              IN  IF s = {} THEN 0 ELSE Max(s)]
MaxOf(x, y) == [t \in Tids |-> IF x[t] < y[t] THEN y[t] ELSE x[t]]

\* synchronized_since of a vector that is there.
since(e, a, b) == e.cv[a] # <<>> /\ b <= e.cv[a][tid(b)]

\* The slow attempt takes edges of hb and of the seq_cst order first.
MayAdd(e, a, b) ==
    \/ e.fast \/ e.allow \/ happens_before(b, a)
    \/ SeqCstAct(a) /\ SeqCstAct(b) /\ b < a

\* Mutant: an edge that closes a cycle is added all the same.
merge_Cyclic(e, a, b) ==
    IF e.cv[b] = <<>> THEN [e EXCEPT !.ok = TRUE]
    ELSE LET v == MaxOf(e.cv[a], e.cv[b])
         IN  [e EXCEPT !.cv[a] = v, !.ok = (v # e.cv[a])]

\* Mutant: a merge that changes nothing is a change, too.
merge_AlwaysOk(e, a, b) ==
    IF e.cv[b] = <<>> THEN [e EXCEPT !.ok = TRUE]
    ELSE IF e.cv[b][tid(a)] >= a THEN [e EXCEPT !.cyclic = TRUE, !.ok = FALSE]
    ELSE IF ~MayAdd(e, a, b) THEN [e EXCEPT !.ok = FALSE]
    ELSE LET v == MaxOf(e.cv[a], e.cv[b])
         IN  [e EXCEPT !.cv[a] = v, !.ok = TRUE, !.allow = @ /\ ~(v # e.cv[a] /\ ~e.fast)]

\* b comes before a, and so does all that comes before b; ok is the result.
merge(e, a, b) ==
    IF e.cv[b] = <<>> THEN [e EXCEPT !.ok = TRUE]
    ELSE IF e.cv[b][tid(a)] >= a THEN [e EXCEPT !.cyclic = TRUE, !.ok = FALSE]
    ELSE IF ~MayAdd(e, a, b) THEN [e EXCEPT !.ok = FALSE]
    ELSE LET v == MaxOf(e.cv[a], e.cv[b])
             new == v # e.cv[a]
         IN  [e EXCEPT !.cv[a] = v, !.ok = new, !.allow = @ /\ ~(new /\ ~e.fast)]

\* op for each element of list; e is evaluated before each use of op.
ForEach(op(_, _), e0, list) ==
    FoldLeft(LAMBDA e, x : CHOOSE r \in {op(now, x) : now \in {e}} : TRUE, e0, list)

Note(e, status) == [e EXCEPT !.changed = @ \/ status]

\* The stores of a list one after the other, until one says stop.
UntilStop(list, op(_, _), e) ==
    ForEach(LAMBDA s, w : IF s.stop THEN s ELSE op(s, w), [e EXCEPT !.stop = FALSE], list)

-----------------------------------------------------------------------------
(***************************************************************************)
(* What a load implies, in the fast attempt of SCGenerator.                *)
(***************************************************************************)
\* Mutant: the stores of the loading thread are passed over.
GenReadFast_OtherThreads(e0, r) ==
    LET w  == rf(r)
        m  == merge(e0, r, w)
        e1 == Note(m, m.ok /\ r < w)
        other(e, w2) ==
            IF ~IsWrite(w2) \/ w2 = w \/ w2 = r \/ e.cv[w2] = <<>> THEN e
            ELSE LET a == IF since(e, w2, w) THEN LET x == merge(e, w2, r) IN Note(x, x.ok) ELSE e
                 IN  IF ~since(a, r, w2) THEN a
                     ELSE LET x == IF a.cv[w] = <<>> THEN [a EXCEPT !.ok = TRUE] ELSE merge(a, w, w2)
                          IN  [Note(x, x.ok) EXCEPT !.stop = TRUE]
    IN  ForEach(LAMBDA e, t : IF t = tid(r) THEN e ELSE UntilStop(OnObj(loc(r), t), other, e),
                e1, [t \in Tids |-> t])

GenReadFast(e0, r) ==
    LET w  == rf(r)
        m  == merge(e0, r, w)
        e1 == Note(m, m.ok /\ r < w)
        other(e, w2) ==
            IF ~IsWrite(w2) \/ w2 = w \/ w2 = r \/ e.cv[w2] = <<>> THEN e
            ELSE LET a == IF since(e, w2, w) THEN LET x == merge(e, w2, r) IN Note(x, x.ok) ELSE e
                 IN  IF ~since(a, r, w2) THEN a
                     ELSE LET x == IF a.cv[w] = <<>> THEN [a EXCEPT !.ok = TRUE] ELSE merge(a, w, w2)
                          IN  [Note(x, x.ok) EXCEPT !.stop = TRUE]
    IN  ForEach(LAMBDA e, t : UntilStop(OnObj(loc(r), t), other, e),
                 e1, [t \in Tids |-> t])

\* In the slow attempt of both.  An edge against the order of the trace is
\* added only until the first such edge of a pass has changed something.
ReadSlow(e0, r) ==
    LET w == rf(r)
        m == merge(e0, r, w)
        e1 == IF w < r \/ ~e0.update
              THEN [Note(m, m.ok /\ r < w) EXCEPT !.update = m.ok /\ r < w]
              ELSE e0
        forward(e, x, y) == x < y \/ ~e.update
        take(e, x, y) == LET n == merge(e, y, x)      \* x before y
                         IN  [Note(n, n.ok) EXCEPT !.update = @ \/ (n.ok /\ y < x)]
        other(e, w2) ==
            IF ~IsWrite(w2) \/ w2 = w \/ w2 = r \/ e.cv[w2] = <<>> THEN e
            ELSE LET a == IF since(e, w2, w) /\ forward(e, r, w2) THEN take(e, r, w2) ELSE e
                 IN  IF ~since(a, r, w2) THEN a
                     ELSE [(IF ~forward(a, w2, w) THEN a
                            ELSE IF a.cv[w] = <<>>
                                 THEN [Note(a, TRUE) EXCEPT !.update = @ \/ w < w2]
                                 ELSE take(a, w2, w)) EXCEPT !.stop = TRUE]
        threads == SelectSeq([t \in Tids |-> t], LAMBDA t : input.tool = "SCGenerator" \/ t # tid(r))
    IN  ForEach(LAMBDA e, t : UntilStop(OnObj(loc(r), t), other, e), e1, threads)

\* One pass over the trace.
Visit(e0, a) ==
    LET fresh == IF input.tool = "SCGenerator" THEN act_cv(a) ELSE Own(a)
        e1 == IF e0.cv[a] = <<>> THEN [e0 EXCEPT !.cv[a] = fresh] ELSE e0
        before == IF whole[a].kind # "START" THEN e1.last[tid(a)]
                  ELSE IF tid(a) = 1 THEN NONE ELSE creation(tid(a))
        e2 == IF before = NONE THEN e1 ELSE merge(e1, a, before)
        e3 == IF whole[a].kind # "JOIN" THEN e2
              ELSE LET m == merge(e2, a, LastOf(loc(a))) IN Note(m, m.ok)
        e4 == IF ~IsRead(a) THEN e3
              ELSE IF e3.fast THEN GenReadFast(e3, a) ELSE ReadSlow(e3, a)
    IN  [e4 EXCEPT !.last[tid(a)] = a]

Pass(e) == ForEach(Visit, [e EXCEPT !.changed = FALSE, !.update = FALSE,
                                     !.last = [t \in Tids |-> NONE]],
                    [a \in Index |-> a])

-----------------------------------------------------------------------------
(***************************************************************************)
(* The fast attempt of SCAnalysis.                                         *)
(***************************************************************************)
\* action_node: the next action of the thread, and one other successor.  A
\* store has room for one reader only, the last.
sb(a) == LET s == {b \in Index : tid(b) = tid(a) /\ a < b} IN IF s = {} THEN NONE ELSE Min(s)
specialEdge(a) ==
    LET s == {b \in Index : \/ IsRead(b) /\ rf(b) = a
                            \/ whole[b].kind = "START" /\ tid(b) # 1 /\ creation(tid(b)) = a
                            \/ whole[b].kind = "JOIN" /\ LastOf(loc(b)) = a}
    IN  IF s = {} THEN NONE ELSE Max(s)

pushChange(e, a) == [e EXCEPT !.queue = Append(@, a)]

passChange(e, a) ==
    LET pass(s, next) == IF next = NONE THEN s
                         ELSE LET m == merge(s, next, a) IN IF m.ok THEN pushChange(m, next) ELSE m
    IN  pass(pass(e, sb(a)), specialEdge(a))

\* The lists of stores of a location: a vector indexed by thread.  It grows
\* when its size is less than the thread, not when it is equal: then the code
\* works behind its end, and what it puts there is not in the vector.
EnterStore(e, a) ==
    LET w == e.writes[loc(a)]
        sized == IF w.size < tid(a) THEN tid(a) + 1 ELSE w.size
    IN  IF ~IsRead(a) /\ ~IsWrite(a) THEN e
        ELSE IF w.size = tid(a) THEN [e EXCEPT !.overrun = TRUE]
        ELSE [e EXCEPT !.writes[loc(a)] =
                 [size |-> sized,
                  of |-> IF IsWrite(a) THEN [w.of EXCEPT ![tid(a)] = Append(@, a)] ELSE w.of]]

BuildVisit(e0, a) ==
    LET own(e, b) == IF e.cv[b] = <<>> THEN [e EXCEPT !.cv[b] = Own(b)] ELSE e
        e1 == EnterStore(own(e0, a), a)
    IN  IF IsRead(a) THEN pushChange(merge(own(e1, rf(a)), a, rf(a)), a)
        ELSE IF whole[a].kind = "START" /\ tid(a) # 1 THEN pushChange(e1, creation(tid(a)))
        ELSE IF whole[a].kind = "JOIN" THEN pushChange(e1, LastOf(loc(a)))
        ELSE e1

\* Binary searches in the stores of a thread, with indexes from 0 as in the code.
StoreAt(list, i) == list[i + 1]

LastBefore(e, list, r) ==
    LET narrow[x \in (0..Len(list)) \X (0..Len(list))] ==
            IF x[1] + 1 >= x[2] THEN x
            ELSE LET mid == (x[1] + x[2]) \div 2
                 IN  IF since(e, r, StoreAt(list, mid)) THEN narrow[<<mid, x[2]>>]
                     ELSE narrow[<<x[1], mid - 1>>]
        b == narrow[<<0, Len(list) - 1>>]
    IN  IF since(e, r, StoreAt(list, b[2])) THEN b[2]
        ELSE IF b[1] # b[2] /\ since(e, r, StoreAt(list, b[1])) THEN b[1] ELSE -1

FirstAfter(e, list, w, from) ==
    LET narrow[x \in (0..Len(list)) \X (0..Len(list))] ==
            IF x[1] + 1 >= x[2] THEN x
            ELSE LET mid == (x[1] + x[2]) \div 2
                 IN  IF since(e, StoreAt(list, mid), w) THEN narrow[<<x[1], mid>>]
                     ELSE narrow[<<mid + 1, x[2]>>]
        b == narrow[<<IF from = Len(list) THEN 0 ELSE from, Len(list) - 1>>]
    IN  IF since(e, StoreAt(list, b[1]), w) THEN b[1]
        ELSE IF b[1] # b[2] /\ since(e, StoreAt(list, b[2]), w) THEN b[2] ELSE -1

\* x before y; who is told of the change is up to the caller.
Order(e, x, y, told) == LET m == merge(e, y, x) IN IF m.ok THEN passChange(m, told) ELSE m

ReadFast(e0, r) ==
    LET w == rf(r)
        own(e, list) ==      \* the store after w in its own thread
            LET k == {i \in 0..Len(list)-2 : StoreAt(list, i) = w}
            IN  IF k = {} THEN e ELSE Order(e, r, StoreAt(list, Max(k) + 1), w)
        other(e, list) ==
            LET i == LastBefore(e, list, r)
                a == IF i = -1 THEN e ELSE Order(e, StoreAt(list, i), w, w)
                j == FirstAfter(a, list, w, i + 1)
            IN  IF j = -1 THEN a ELSE Order(a, r, StoreAt(list, j), StoreAt(list, j))
        visit(e, t) ==
            LET v == e.writes[loc(r)]
            IN  IF t = tid(r) \/ t >= v.size \/ v.of[t] = <<>> THEN e
                ELSE IF t = tid(w) THEN own(e, v.of[t]) ELSE other(e, v.of[t])
    IN  ForEach(visit, e0, [t \in Tids |-> t])

-----------------------------------------------------------------------------
(***************************************************************************)
(* Drawing up the order.                                                   *)
(***************************************************************************)
Heads(lists) == {t \in Tids : lists[t] # <<>>}

\* The heads that need no other head before them; when a cycle leaves none,
\* happens-before decides.
getNextActions(e, lists) ==
    LET free(before(_, _)) == {t \in Heads(lists) :
            \A u \in Heads(lists) \ {t} : ~before(lists[t][1], lists[u][1])}
        byOrder == free(LAMBDA a, b : since(e, a, b))
        best == IF byOrder # {} THEN byOrder ELSE free(LAMBDA a, b : happens_before(b, a))
        threads == SelectSeq([t \in Tids |-> t], LAMBDA t : t \in best)
    IN  [i \in DOMAIN threads |-> lists[threads[i]][1]]

\* The first store of list that a has to be put before, or NONE: stores that
\* follow one known to come after a need nothing.
Conflict(e, list, a) ==
    LET seen == SelectInSeq(list, LAMBDA b : IsWrite(b) /\ (since(e, b, a) \/ loc(b) = loc(a)))
    IN  IF seen = 0 \/ since(e, list[seen], a) THEN NONE ELSE list[seen]

Others(lists, a) == {t \in Tids \ {tid(a)} : lists[t] # <<>>}

\* What to take next without a choice, or NONE.
pruneArray(e, lists, next) ==
    LET all == ToSet(next)
        loads == {a \in all : ~IsWrite(a)}
        quiet == {a \in all : \A t \in Others(lists, a) : Conflict(e, lists[t], a) = NONE}
    IN  IF Len(next) = 1 THEN next[1]
        ELSE IF loads # {} THEN Min(loads)
        ELSE IF quiet # {} THEN Min(quiet) ELSE NONE

\* a goes into the order before the stores left that conflict with it.
updateConstraints(e0, lists, a) ==
    LET visit(e, t) ==
            LET w == IF t = tid(a) THEN NONE ELSE Conflict(e, lists[t], a)
                m == merge(e, w, a)
            IN  IF w = NONE THEN e
                ELSE [(IF input.tool = "SCAnalysis" /\ m.ok THEN passChange(m, w) ELSE m)
                         EXCEPT !.changed = TRUE]
    IN  ForEach(visit, [e0 EXCEPT !.changed = FALSE], [t \in Tids |-> t])

-----------------------------------------------------------------------------
NoVectors == [a \in Index |-> <<>>]
NoStores  == [l \in 1..input.family.locs |-> [size |-> 0, of |-> [t \in Tids |-> <<>>]]]
FastAnalysis == input.tool = "SCAnalysis" /\ ~slow

\* The shape of a family: all that an execution needs of it.
Shape(f) == [threads |-> f.threads, locs |-> f.locs]

Inputs ==
    {[tool |-> t, family |-> x.f, tr |-> x.e.tr, whole |-> Whole(x.f, x.e.tr), past |-> Before(x.f, x.e)] :
        t \in Tools, x \in UNION {UNION {{[f |-> Shape(f), e |-> e] : e \in Executions(Shape(f), b)} :
                                            b \in f.bodies} : f \in Families}}

Init ==
    /\ input \in Inputs
    /\ pc = "build" /\ slow = FALSE
    /\ g = [cv |-> NoVectors, cyclic |-> FALSE, allow |-> FALSE, fast |-> TRUE,
            ok |-> FALSE, changed |-> FALSE, update |-> FALSE, stop |-> FALSE, was |-> FALSE,
            last |-> [t \in Tids |-> NONE], queue |-> <<>>, writes |-> NoStores, overrun |-> FALSE]
    /\ threadlists = [t \in Tids |-> <<>>]
    /\ sweep = "first" /\ chosen = NONE
    /\ choice = [plan |-> <<>>, picks |-> <<>>, last |-> 0]
    /\ sclist = <<>> /\ badrf = {}

\* buildVectors
Build ==
    /\ pc = "build"
    /\ threadlists' = [t \in Tids |-> SelectSeq([a \in Index |-> a], LAMBDA a : tid(a) = t)]
    /\ \E e \in {IF FastAnalysis THEN ForEach(BuildVisit, g, [a \in Index |-> a])
                 ELSE IF input.tool = "SCAnalysis" THEN [g EXCEPT !.cv = [a \in Index |-> Own(a)]]
                 ELSE g} :
          /\ g' = [e EXCEPT !.fast = ~slow]
          /\ pc' = IF FastAnalysis /\ e.queue = <<>> THEN "settled" ELSE "compute"
    /\ sweep' = "first" /\ chosen' = NONE
    /\ UNCHANGED <<input, slow, choice, sclist, badrf>>

\* A write behind the end of the vector may end the program.
Crash ==
    /\ pc = "compute" /\ g.overrun
    /\ pc' = "crashed"
    /\ UNCHANGED <<input, slow, g, threadlists, sweep, chosen, choice, sclist, badrf>>

\* computeCVFast: one action of the update set.
Pop ==
    /\ pc = "compute" /\ FastAnalysis
    /\ \E a \in {Head(g.queue)} :
       \E e \in {passChange([g EXCEPT !.queue = Tail(@)], a)} :
       \E x \in {IF IsRead(a) THEN ReadFast(e, a) ELSE e} :
          /\ g' = x
          /\ pc' = IF x.queue = <<>> THEN "settled" ELSE "compute"
    /\ UNCHANGED <<input, slow, threadlists, sweep, chosen, choice, sclist, badrf>>

\* computeCV of SCGenerator, computeCVSlow of SCAnalysis: one pass.
Sweep ==
    /\ pc = "compute" /\ ~FastAnalysis
    /\ \E e \in {Pass(g)} :
          LET again == sweep = "first" \/ e.changed
              relax == ~again /\ slow /\ ~e.allow
          IN  /\ g' = [e EXCEPT !.allow = @ \/ relax]
              /\ pc' = IF again \/ relax THEN "compute" ELSE "settled"
    /\ sweep' = "more"
    /\ UNCHANGED <<input, slow, threadlists, chosen, choice, sclist, badrf>>

Reset(e) == [e EXCEPT !.cv = NoVectors, !.queue = <<>>, !.cyclic = FALSE]

\* The end of the first attempt: reset, and once more with the slow one.
StartOver ==
    /\ g' = Reset(g) /\ slow' = TRUE /\ pc' = "build"
    /\ threadlists' = [t \in Tids |-> <<>>]
    /\ choice' = [plan |-> <<>>, picks |-> <<>>, last |-> 0]
    /\ sclist' = <<>> /\ chosen' = NONE

\* The first constraints are there, and SCAnalysis sees a cycle at once.
QuickReturn ==
    /\ pc = "settled" /\ chosen = NONE /\ FastAnalysis /\ choice.plan = <<>> /\ g.cyclic
    /\ StartOver
    /\ UNCHANGED <<input, sweep, badrf>>

Ready ==
    /\ pc = "settled" /\ chosen = NONE
    /\ ~(FastAnalysis /\ choice.plan = <<>> /\ g.cyclic)
    /\ pc' = "choose"
    /\ UNCHANGED <<input, slow, g, threadlists, sweep, chosen, choice, sclist, badrf>>

\* One round of generateSC: the next action, its constraints.
Choose ==
    /\ pc = "choose" /\ Heads(threadlists) # {}
    /\ \E next \in {getNextActions(g, threadlists)} :
          /\ next # <<>>
          /\ \E a \in {pruneArray(g, threadlists, next)} :
             LET k == Len(choice.picks) + 1
                 pick == IF k <= Len(choice.plan) THEN choice.plan[k] ELSE 0
                 act == IF a = NONE THEN next[pick + 1] ELSE a
             IN  \E left \in {[threadlists EXCEPT ![tid(act)] = Tail(@)]} :
                 \E e \in {updateConstraints(g, left, act)} :
                    /\ threadlists' = left
                    /\ choice' = IF a # NONE THEN choice
                                 ELSE [choice EXCEPT !.picks = Append(@, pick),
                                                     !.last = IF pick + 1 < Len(next) THEN k ELSE @]
                    /\ g' = [e EXCEPT !.was = g.cyclic]
                    /\ chosen' = IF e.changed THEN act ELSE NONE
                    /\ sclist' = IF e.changed THEN sclist ELSE Append(sclist, act)
                    /\ pc' = IF ~e.changed THEN "choose"
                             ELSE IF FastAnalysis /\ e.queue = <<>> THEN "settled" ELSE "compute"
    /\ sweep' = "first"
    /\ UNCHANGED <<input, slow, badrf>>

\* The choice holds, or SCGenerator has no other.
Take ==
    /\ pc = "settled" /\ chosen # NONE
    /\ g.was \/ ~g.cyclic \/ (choice.last = 0 /\ input.tool = "SCGenerator")
    /\ sclist' = Append(sclist, chosen) /\ chosen' = NONE /\ pc' = "choose"
    /\ UNCHANGED <<input, slow, g, threadlists, sweep, choice, badrf>>

\* The choice closed a cycle: the last choice with an alternative takes it.
Rollback ==
    /\ pc = "settled" /\ chosen # NONE /\ ~g.was /\ g.cyclic /\ choice.last # 0
    /\ choice' = [plan |-> [SubSeq(choice.picks, 1, choice.last) EXCEPT ![choice.last] = @ + 1],
                  picks |-> <<>>, last |-> 0]
    /\ g' = Reset(g) /\ pc' = "build" /\ sclist' = <<>> /\ chosen' = NONE
    /\ threadlists' = [t \in Tids |-> <<>>]
    /\ UNCHANGED <<input, slow, sweep, badrf>>

\* SCAnalysis gives the order up where it stands.
GiveUp ==
    /\ pc = "settled" /\ chosen # NONE /\ ~g.was /\ g.cyclic
    /\ choice.last = 0 /\ input.tool = "SCAnalysis"
    /\ IF slow THEN pc' = "check" /\ UNCHANGED <<slow, g, threadlists, chosen, choice, sclist>>
       ELSE StartOver
    /\ UNCHANGED <<input, sweep, badrf>>

Finished ==
    /\ pc = "choose"
    /\ Heads(threadlists) = {} \/ getNextActions(g, threadlists) = <<>>
    /\ IF ~slow /\ g.cyclic THEN StartOver
       ELSE pc' = "check" /\ UNCHANGED <<slow, g, threadlists, chosen, choice, sclist>>
    /\ UNCHANGED <<input, sweep, badrf>>

\* The last store to the location of position p of the order.
LastWrite(list, p) ==
    LET s == {q \in 1..p-1 : IsWrite(list[q]) /\ loc(list[q]) = loc(list[p])}
    IN  IF s = {} THEN NONE ELSE list[Max(s)]

check_rf ==
    /\ pc = "check"
    /\ badrf' = {sclist[p] : p \in {q \in DOMAIN sclist : IsRead(sclist[q])
                                                        /\ rf(sclist[q]) # LastWrite(sclist, q)}}
    /\ pc' = "done"
    /\ UNCHANGED <<input, slow, g, threadlists, sweep, chosen, choice, sclist>>

Next == Build \/ Crash \/ Pop \/ Sweep \/ QuickReturn \/ Ready \/ Choose \/ Take
        \/ Rollback \/ GiveUp \/ Finished \/ check_rf

\* Some action is enabled until the analysis is done: with Running for
\* ENABLED Next, this is WF_vars(Next).
Running  == pc \notin {"done", "crashed"}
Progress == []<>~Running \/ []<><<Next>>_vars

Spec == Init /\ [][Next]_vars /\ Progress

-----------------------------------------------------------------------------
(***************************************************************************)
(* Properties.                                                             *)
(***************************************************************************)
TypeOK ==
    /\ pc \in {"build", "compute", "settled", "choose", "check", "done", "crashed"}
    /\ sweep \in {"first", "more"} /\ chosen \in Index \cup {NONE}
    /\ \A a \in Index : g.cv[a] = <<>> \/ \A t \in Tids : g.cv[a][t] \in 0..Len(whole)
    /\ {g.cyclic, g.allow, g.fast, g.overrun, slow} \subseteq BOOLEAN
    /\ ToSet(g.queue) \cup ToSet(sclist) \cup badrf \subseteq Index
    /\ \A t \in Tids : \A a \in ToSet(threadlists[t]) : tid(a) = t /\ a \notin ToSet(sclist) \cup {chosen}
    /\ choice.last \in 0..Len(choice.picks)

Generator == input.tool = "SCGenerator"

\* check_rf of SCGenerator asserts that its order has a load that does not
\* read the last store exactly if a cycle was found.
CheckRfAsserts == pc = "done" /\ Generator => (g.cyclic <=> badrf # {})

\* getNextActions asserts that only a cycle leaves no head of a thread free:
\* as long as there is none, some head is not preceded by another one.
NextAsserts ==
    pc = "choose" /\ Heads(threadlists) # {} =>
        \/ g.cyclic
        \/ \E t \in Heads(threadlists) : \A u \in Heads(threadlists) \ {t} :
               ~since(g, threadlists[t][1], threadlists[u][1])

\* What either tool calls non-SC (cyclic, which print_list and the statistics
\* go by) has no sequentially consistent order; SCAnalysis misses edges, but
\* SCGenerator finds all that have none: the edges of the loads and the choices
\* tried again cover every order.
VerdictExact ==
    pc = "done" => LET sc == SequentiallyConsistent(input.tr)
                   IN  IF Generator THEN g.cyclic <=> ~sc ELSE g.cyclic => ~sc

\* The order handed to check_rf and print_list respects happens-before, even
\* if it holds a cycle, and has every action, unless SCAnalysis gave up
\* with the chosen action in its hands.
ListOrdered ==
    pc = "done" =>
        /\ chosen = NONE => ToSet(sclist) = Index
        /\ Cardinality(ToSet(sclist)) = Len(sclist)
        /\ \A p \in DOMAIN sclist : input.past[sclist[p]] \subseteq ToSet(SubSeq(sclist, 1, p))

\* The lists and the assertions of both tools hold together, on the way and at
\* the end.
ListExact == TypeOK /\ ListOrdered /\ NextAsserts /\ CheckRfAsserts

\* The propagation of constraints reaches a fixed point, the slow attempt
\* runs out of edges to allow, and the choices run out.
Terminates == <>(pc \in {"done", "crashed"})
=============================================================================
