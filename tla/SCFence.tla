------------------------------- MODULE SCFence -------------------------------
(***************************************************************************)
(* SCFence (scfence/scfence.cc): it model-checks the program under one     *)
(* assignment of memory orders after the other, strengthens an assignment  *)
(* that admits an execution that is not sequentially consistent, weakens   *)
(* one that does not, and keeps the ones that hold up.                     *)
(*                                                                         *)
(* The model checker is what it is for SCFence: it presents the executions *)
(* that the memory model allows, in some order, and says when it is done.  *)
(***************************************************************************)
EXTENDS InferenceSet

CONSTANTS
    Programs        \* records [ops, file, fails, weaken]

VARIABLES
    prog,           \* the program, and the options
    set,            \* priv->inferenceSet
    cur,            \* priv->curInference
    left,           \* the executions still to come, of those that matter
    phase,          \* "checking", or "done" once the exit flag is set
    checked         \* the assignments checked so far

vars == <<prog, set, cur, left, phase, checked>>

ops == prog.ops
CurOrders == set.infers[cur].orders

\* An assertion of the program fails.
Fails(x) == \E f \in prog.fails : \A r \in DOMAIN f : x.rf[r] = f[r]

\* Evaluated once for every program.
ListsOf == [p \in {q.ops : q \in Programs} |-> Interleavings(p)]
SCReads == [p \in {q.ops : q \in Programs} |->
               {rf \in ReadsFroms(p) : \E s \in ListsOf[p] : BadReads(p, rf, s) = {}}]

IsSC(x) == x.rf \in SCReads[ops]

\* The orders the analysis may find: what happens before comes before, and
\* so does a load that the order of the seq_cst operations puts before a store.
SCLists(x) ==
    {s \in ListsOf[ops] :
        \A k \in DOMAIN s : \A m \in 1..k : s[k] \notin x.hb[s[m]] /\ <<s[k], s[m]>> \notin x.early}

Matters(x) == ~IsSC(x) \/ Races(ops, x) # {} \/ Fails(x)

-----------------------------------------------------------------------------
\* Every operation with a wildcard runs: what has no order yet is relaxed.
inspectModelActions(p, orders) ==
    LET sized == Resized(orders, Max(Wildcards(p) \cup {InitialSize}))
    IN  [w \in DOMAIN sized |-> IF w \in Wildcards(p) /\ sized[w] = NOTSET THEN "rlx" ELSE sized[w]]

\* The model checker starts over with the assignment i of S.
Start(p, S, i) ==
    LET orders == inspectModelActions(p, S.infers[i].orders)
    IN  /\ set' = [S EXCEPT !.infers[i].orders = orders]
        /\ cur' = i
        /\ left' = {x \in ExecutionsOf(p, orders) : Matters(x)}
        /\ checked' = checked \cup {orders}
        /\ phase' = "checking"

Exit(S) ==
    /\ set' = S
    /\ left' = {}
    /\ phase' = "done"
    /\ UNCHANGED <<cur, checked>>

routineBacktrack(S, feasible) ==
    LET committed == commitInference(S, cur, feasible)
        weakened == IF feasible /\ prog.weaken /\ ~S.infers[cur].buggy
                    THEN addWeakerInference(committed, cur) ELSE committed
        popped == getNextInference(weakened)
    IN  IF popped.next # NONE THEN Start(ops, popped.set, popped.next) ELSE Exit(popped.set)

routineAfterAddFixes(S) ==
    LET popped == getNextInference(S)
    IN  IF popped.next # NONE THEN Start(ops, popped.set, popped.next)
        ELSE routineBacktrack(popped.set, FALSE)

\* The set once an execution with bug reports was seen.
Noted(x) == [set EXCEPT !.infers[cur].buggy = @ \/ Fails(x)]

\* analyze, of an execution that is not sequentially consistent.
AnalyzeNonSC ==
    /\ phase = "checking"
    /\ \E fixed \in
          {IF set.infers[cur].shouldFix
           THEN addCandidates(Noted(x), cur, addFixesNonSC(ops, x, s, CurOrders)) ELSE Noted(x) :
             <<x, s>> \in {<<y, t>> \in left \X ListsOf[ops] : ~IsSC(y) /\ t \in SCLists(y)}} :
          IF Added(set, fixed) THEN routineAfterAddFixes(fixed) ELSE routineBacktrack(fixed, FALSE)
    /\ UNCHANGED prog

\* analyze, of one that is.  What addFixesDataRace returns is never true: the
\* fixes it adds do not stop the check.
AnalyzeSC ==
    /\ phase = "checking"
    /\ \E x \in left : \E s \in SCLists(x) :
          /\ IsSC(x) /\ BadReads(ops, x.rf, s) = {}
          /\ left' = left \ {x}
          /\ set' = IF Races(ops, x) = {} \/ ~set.infers[cur].shouldFix THEN Noted(x)
                    ELSE FoldLeft(LAMBDA S, list : addCandidates(S, cur, list), Noted(x),
                                  addFixesDataRace(ops, x, s, CurOrders))
    /\ UNCHANGED <<prog, cur, phase, checked>>

\* actionAtModelCheckingFinish
Finish ==
    /\ phase = "checking"
    /\ left = {}
    /\ routineBacktrack(set, TRUE)
    /\ UNCHANGED prog

\* initializeByFile
FromFile(file) ==
    LET root == [EmptySet EXCEPT !.infers = <<Inference(NewInference, 1, TRUE)>>]
        read(S, orders) == addInference(S, Inference(orders, Len(S.infers) + 1, TRUE))
    IN  getNextInference(FoldLeft(read, root, file))

Init ==
    /\ prog \in Programs
    /\ phase = "checking"
    /\ LET popped == FromFile(prog.file)
           i == IF popped.next = NONE THEN 1 ELSE popped.next
           orders == inspectModelActions(ops, popped.set.infers[i].orders)
       IN  /\ cur = i
           /\ set = [popped.set EXCEPT !.infers[i].orders = orders]
           /\ left = {x \in ExecutionsOf(ops, orders) : Matters(x)}
           /\ checked = {orders}

\* Nothing happens after the exit flag is set.
Exited == phase = "done" /\ UNCHANGED vars

Next == AnalyzeNonSC \/ AnalyzeSC \/ Finish \/ Exited

\* The search does not stop on the way: WF_vars(Next) in other words, as Next
\* is always enabled (the run looks for deadlocks), and costly to evaluate.
Progress == []<>(phase = "done") \/ []<><<Next>>_vars

Spec == Init /\ [][Next]_vars /\ Progress

-----------------------------------------------------------------------------
(* Properties.                                                             *)

\* Assignments are known by numbers, and every wildcard has an order of C11.
TypeOK ==
    /\ prog \in Programs
    /\ set.infers \in Seq([orders : Seq(Orders \cup {NOTSET}), initial : Nat \ {0}, leaf : BOOLEAN,
                           explored : BOOLEAN, shouldFix : BOOLEAN, buggy : BOOLEAN])
    /\ LET ids == DOMAIN set.infers
       IN  /\ cur \in ids
           /\ set.candidates \in Seq(ids)
           /\ set.discoveredSet \subseteq ids
           /\ set.results \subseteq ids
    /\ phase \in {"checking", "done"}

\* Every assignment printed as a result makes every execution sequentially
\* consistent, whatever was strengthened or weakened on the way.
ResultsAreSC ==
    phase = "done" => \A r \in set.results : \A x \in ExecutionsOf(ops, set.infers[r].orders) : IsSC(x)

AllSeqCst == [w \in 1..Max(Wildcards(ops)) |-> "sc"]
TwoThreads == \A i \in DOMAIN ops : ops[i].tid <= 2
AllWild == \A i \in DOMAIN ops : ops[i].wild # NONE \/ ops[i].ord = NORMAL \/ ops[i].kind = "UNINIT"

\* Two threads whose atomic operations all have wildcards: the search gives up
\* without a result only if seq_cst everywhere does not help either.
Repaired ==
    phase = "done" /\ TwoThreads /\ AllWild /\ set.results = {} =>
        \E x \in ExecutionsOf(ops, AllSeqCst) : ~IsSC(x)

\* The assertion of addWeakerInference: no order falls below the initial one,
\* through all strengthening and weakening.
WeakerAsserts ==
    /\ TypeOK
    /\ \A i \in DOMAIN set.infers : \A w \in DOMAIN set.infers[i].orders :
          AtLeast(set.infers[i].orders[w], OrderOf(set.infers[set.infers[i].initial].orders, w))

\* The model checker is never restarted with an assignment it has checked,
\* by whichever way the search comes back to it.
CheckedOnce == [][cur' # cur => set'.infers[cur'].orders \notin checked]_vars

\* The search comes to an end.
Terminates == <>(phase = "done")
=============================================================================
