----------------------------- MODULE CycleGraph -----------------------------
(***************************************************************************)
(* The modification-order graph of one atomic location (CycleGraph and     *)
(* CycleNode).  Nodes are the writes of the location and the promises:     *)
(* writes some thread has still to perform.  An edge orders its two ends,  *)
(* and hasRMW records the read-modify-write that reads from a node and so  *)
(* comes immediately after it.  The graph announces a cycle as soon as no  *)
(* modification order is left.                                             *)
(*                                                                         *)
(* ModelExecution adds edges in transactions.  A read tries a store or a   *)
(* promise to read from and commits or rolls back; a write adds its edges, *)
(* may resolve one promise and commits; the RMW edge commits on its own    *)
(* before the write part of the RMW goes on.  Which edges a transaction    *)
(* asks for depends on the happens-before relation and is left free here,  *)
(* within what the callers respect.                                        *)
(*                                                                         *)
(* What was asked for is kept beside the graph, as the pairs of nodes to   *)
(* order and the pairs that must be adjacent, to judge the graph by.       *)
(***************************************************************************)
EXTENDS Integers, FiniteSets, Sequences, SequencesExt

CONSTANTS
    MaxWrites,      \* the writes are 1..MaxWrites; 1 is the uninitialized value,
                    \* the others come in the order they execute
    Promises,       \* Promise objects
    MaxEdges,       \* edges one transaction asks for
    MaxReads        \* read transactions, committed or rolled back

ASSUME CycleGraphAssumption ==
    /\ MaxWrites \in Nat \ {0}
    /\ MaxEdges \in Nat
    /\ MaxReads \in Nat
    /\ Promises \cap (0..MaxWrites) = {}
    /\ IsFiniteSet(Promises)

VARIABLES
    graph,      \* the CycleGraph
    phase,      \* "idle", or the transaction in progress: "read", "future" or "write"
    focus,      \* the node whose edges the transaction adds
    written,    \* number of writes executed so far
    made,       \* Promise objects created so far
    promised,   \* ModelExecution::promises, the ones not yet resolved
    failed,     \* priv->hard_failed_promise: resolvePromise returned false
    order,      \* asked for: pairs <<a, b>>, a before b
    adjacent,   \* asked for: pairs <<a, r>>, RMW r immediately after a
    saved,      \* graph, order and adjacent at the last commit
    handed,     \* a merge gave an RMW to a write that had edges of its own
    asked,      \* edges asked for in this transaction
    reads       \* read transactions so far

vars == <<graph, phase, focus, written, made, promised, failed, order, adjacent,
          saved, handed, asked, reads>>

NULL  == 0
Nodes == (1..MaxWrites) \cup Promises

EmptyGraph ==
    [edges       |-> [n \in Nodes |-> <<>>],    \* CycleNode::edges
     back        |-> [n \in Nodes |-> <<>>],    \* CycleNode::back_edges
     rmw         |-> [n \in Nodes |-> NULL],    \* CycleNode::hasRMW
     cycles      |-> FALSE,                     \* hasCycles
     oldCycles   |-> FALSE,
     rollback    |-> <<>>,                      \* rollbackvector
     rmwRollback |-> <<>>,                      \* rmwrollbackvector
     endless     |-> FALSE]     \* addNodeEdge met an RMW chain without end

Initial  == 1
Fresh    == written + 1
Present  == (1..written) \cup promised
Feasible == ~graph.cycles /\ ~failed
-----------------------------------------------------------------------------
(***************************************************************************)
(* CycleNode and CycleGraph operations, as functions of the graph.         *)
(***************************************************************************)
HasEdge(g, f, t) == t \in ToSet(g.edges[f])

\* CycleNode::addEdge; a second edge between the same ends adds nothing.
Link(g, f, t) ==
    IF HasEdge(g, f, t) THEN g
    ELSE [g EXCEPT !.edges[f] = Append(@, t), !.back[t] = Append(@, f)]

\* CycleNode::removeEdge; the last edge of a node goes first.
RemoveLast(g, f) ==
    IF g.edges[f] = <<>> THEN g
    ELSE [g EXCEPT !.edges[f] = Front(@), !.back[Last(g.edges[f])] = RemoveFirst(@, f)]

\* Both ends of an edge lose it (removeEdge and removeBackEdge).
Unlink(g, f, t) ==
    [g EXCEPT !.edges[f] = RemoveFirst(@, t), !.back[t] = RemoveFirst(@, f)]

ReachableFrom(g, n) ==
    LET upTo[i \in 0..Cardinality(Nodes)] ==
          IF i = 0 THEN {n}
          ELSE LET seen == upTo[i-1] IN seen \cup UNION {ToSet(g.edges[x]) : x \in seen}
    IN  upTo[Cardinality(Nodes)]

checkReachable(g, from, to) == to \in ReachableFrom(g, from)

\* Where the walk along the RMW chain of f ends: at t, or at the end of the chain.
ChainEnd(g, f, t) ==
    LET hop[i \in 0..Cardinality(Nodes)] ==
          IF i = 0 THEN g.rmw[f]
          ELSE LET r == hop[i-1] IN IF r = t \/ g.rmw[r] = NULL THEN r ELSE g.rmw[r]
    IN  hop[Cardinality(Nodes)]

\* One new edge: remember it for a rollback and look for a cycle through it.
AddTracked(g, f, t) ==
    LET linked == Link(g, f, t)
    IN  IF HasEdge(g, f, t) THEN g
        ELSE [linked EXCEPT !.rollback = Append(@, f),
                            !.cycles = @ \/ checkReachable(linked, t, f)]

\* Mutant: the chain of RMWs is not followed.
addNodeEdge_NoChain(g, f, t) == AddTracked(g, f, t)

\* Mutant: the edge is added at every RMW of the chain's start, even to itself.
addNodeEdge_IntoChain(g, f, t) ==
    IF HasEdge(g, f, t) THEN g
    ELSE IF g.rmw[f] = NULL THEN AddTracked(g, f, t)
    ELSE AddTracked(AddTracked(g, f, t), g.rmw[f], t)

\* Mutant: the edge at the end of the chain is not remembered.
addNodeEdge_Untracked(g, f, t) ==
    LET first == AddTracked(g, f, t)
        last  == ChainEnd(g, f, t)
    IN  IF HasEdge(g, f, t) \/ g.rmw[f] = NULL \/ last = t THEN first
        ELSE [AddTracked(first, last, t) EXCEPT !.rollback = first.rollback]

\* A new edge from f is also an edge from the last RMW of f's chain, unless
\* it leads into the chain.
addNodeEdge(g, f, t) ==
    LET first == AddTracked(g, f, t)
        last  == ChainEnd(g, f, t)
    IN  IF HasEdge(g, f, t) THEN g
        ELSE IF g.rmw[f] = NULL \/ last = t THEN first
        ELSE IF g.rmw[last] # NULL THEN [first EXCEPT !.endless = TRUE]
        ELSE AddTracked(first, last, t)

\* setRMW fails when another RMW reads from the node already.
TakenByAnother(g, f) == g.rmw[f] # NULL

\* Whatever comes after f comes after its RMW r.
Transfer(g, f, r) ==
    LET tos == g.edges[f]
        upTo[i \in 0..Len(tos)] ==
          IF i = 0 THEN g
          ELSE LET h == upTo[i-1]
               IN  IF tos[i] = r \/ HasEdge(h, r, tos[i]) THEN h
                   ELSE [Link(h, r, tos[i]) EXCEPT !.rollback = Append(@, r)]
    IN  upTo[Len(tos)]

\* RMW r, which has no RMW of its own yet, reads from f.
addRMWEdge(g, f, r) ==
    LET taken == IF TakenByAnother(g, f) THEN [g EXCEPT !.cycles = TRUE]
                 ELSE [g EXCEPT !.rmw[f] = r, !.rmwRollback = Append(@, f)]
    IN  addNodeEdge(Transfer(taken, f, r), f, r)

\* A merge goes on as long as there is no cycle.
Checked(g) == [graph |-> g, ok |-> ~g.cycles]

\* The edges to promise p become edges to write w, the last one first.
MoveBack(start, w, p) ==
    LET froms == Reverse(start.graph.back[p])
        upTo[i \in 0..Len(froms)] ==
          IF i = 0 THEN start
          ELSE LET done == upTo[i-1]
                   cut == Unlink(done.graph, froms[i], p)
               IN  IF ~done.ok THEN done
                   ELSE IF froms[i] = w THEN [graph |-> cut, ok |-> TRUE]
                   ELSE Checked(addNodeEdge(cut, froms[i], w))
    IN  upTo[Len(froms)]

\* The edges from promise p become edges from write w, the last one first.
MoveForward(start, w, p) ==
    LET tos == Reverse(start.graph.edges[p])
        upTo[i \in 0..Len(tos)] ==
          IF i = 0 THEN start
          ELSE LET done == upTo[i-1]
                   cut == Unlink(done.graph, p, tos[i])
               IN  IF ~done.ok THEN done
                   ELSE IF tos[i] = w THEN [graph |-> cut, ok |-> TRUE]
                   ELSE Checked(addNodeEdge(cut, w, tos[i]))
    IN  upTo[Len(tos)]

\* Write w, which has edges already, takes over the edges and the RMW of p.
\* It stops with ok = FALSE at the first edge after which there is a cycle,
\* or at once when both have an RMW.
mergeNodes(g, w, p) ==
    LET rmw == g.rmw[p]
        clash == rmw # NULL /\ rmw # g.rmw[w] /\ TakenByAnother(g, w)
        start == [graph |-> IF rmw = NULL THEN g ELSE [g EXCEPT !.rmw[w] = rmw],
                  ok    |-> TRUE]
        end == MoveForward(MoveBack(start, w, p), w, p)
    IN  IF clash THEN [graph |-> g, ok |-> FALSE]
        ELSE [end EXCEPT !.ok = @ /\ ~end.graph.cycles]

\* Node p becomes the node of write w, which had none.
convert(g, w, p) ==
    LET as(x) == IF x = p THEN w ELSE x
        all(s) == [i \in DOMAIN s |-> as(s[i])]
        moved(v, none) == [[n \in Nodes |-> v[n]] EXCEPT ![w] = v[p], ![p] = none]
    IN  [g EXCEPT !.edges = moved([n \in Nodes |-> all(@[n])], <<>>),
                  !.back  = moved([n \in Nodes |-> all(@[n])], <<>>),
                  !.rmw   = moved(@, NULL),
                  !.rollback = all(@)]

resolvePromise(g, w, p) ==
    IF g.edges[w] # <<>> \/ g.back[w] # <<>> THEN mergeNodes(g, w, p)
    ELSE [graph |-> convert(g, w, p), ok |-> TRUE]

\* commitChanges
Committed(g) == [g EXCEPT !.rollback = <<>>, !.rmwRollback = <<>>, !.oldCycles = g.cycles]

\* rollbackChanges
RolledBack(g) ==
    LET undone[i \in 0..Len(g.rollback)] ==
          IF i = 0 THEN g ELSE RemoveLast(undone[i-1], g.rollback[i])
    IN  [undone[Len(g.rollback)] EXCEPT
            !.rmw = [n \in Nodes |-> IF n \in ToSet(g.rmwRollback) THEN NULL ELSE @[n]],
            !.cycles = g.oldCycles, !.rollback = <<>>, !.rmwRollback = <<>>]
-----------------------------------------------------------------------------
(***************************************************************************)
(* The transactions of ModelExecution.                                     *)
(***************************************************************************)
Init ==
    /\ graph = EmptyGraph
    /\ phase = "idle"
    /\ focus = NULL
    /\ written = Initial
    /\ made = {}
    /\ promised = {}
    /\ failed = FALSE
    /\ order = {}
    /\ adjacent = {}
    /\ saved = [graph |-> EmptyGraph, order |-> {}, adjacent |-> {}]
    /\ handed = FALSE
    /\ asked = 0
    /\ reads = 0

\* A transaction on node n of graph g, with constraint set o, starts with the
\* list of the model thread, which holds the uninitialized value alone.
Begin(ph, n, g, o) ==
    /\ Feasible
    /\ phase = "idle"
    /\ phase' = ph
    /\ focus' = n
    /\ asked' = 0
    /\ IF n = Initial THEN graph' = g /\ order' = o
       ELSE graph' = addNodeEdge(g, Initial, n) /\ order' = o \cup {<<Initial, n>>}

Ask(f, t) ==
    /\ asked < MaxEdges
    /\ asked' = asked + 1
    /\ graph' = addNodeEdge(graph, f, t)
    /\ order' = order \cup {<<f, t>>}
    /\ UNCHANGED <<phase, focus, written, made, promised, failed, adjacent, saved, handed, reads>>

\* What remains after committing graph g with the constraints o and a.
CommitTo(g, o, a) ==
    /\ graph' = Committed(g)
    /\ order' = o
    /\ adjacent' = a
    /\ saved' = [graph |-> Committed(g), order |-> o, adjacent |-> a]

\* process_read, or build_may_read_from trying future values: a read tries to
\* read from a store or a promise that exists.
StartRead(rf) ==
    /\ Begin("read", rf, graph, order)
    /\ reads < MaxReads
    /\ reads' = reads + 1
    /\ UNCHANGED <<written, made, promised, failed, adjacent, saved, handed>>

\* process_read, READ_FROM_FUTURE: a new promise; this read always commits.
StartFutureRead(p) ==
    /\ Begin("future", p, graph, order)
    /\ reads < MaxReads
    /\ reads' = reads + 1
    /\ p \notin made
    /\ made' = made \cup {p}
    /\ promised' = promised \cup {p}
    /\ UNCHANGED <<written, failed, adjacent, saved, handed>>

Reading == phase \in {"read", "future"}

\* r_modification_order: a write that happens before the read, or that was
\* read by an action that does, comes before the one read now.
ReadEdge(f) ==
    /\ Reading
    /\ f # focus
    /\ Ask(f, focus)

\* r_modification_order: a promise only the reading thread can fulfil comes later.
ReadExclusive(p) ==
    /\ Reading
    /\ p # focus
    /\ Ask(focus, p)

CommitRead ==
    /\ Reading
    /\ phase' = "idle"
    /\ CommitTo(graph, order, adjacent)
    /\ UNCHANGED <<focus, written, made, promised, failed, handed, asked, reads>>

Rollback ==
    /\ phase = "read"
    /\ phase' = "idle"
    /\ graph' = RolledBack(graph)
    /\ order' = saved.order
    /\ adjacent' = saved.adjacent
    /\ UNCHANGED <<focus, written, made, promised, failed, saved, handed, asked, reads>>

\* process_write
StartWrite ==
    /\ written < MaxWrites
    /\ Begin("write", Fresh, graph, order)
    /\ written' = Fresh
    /\ UNCHANGED <<made, promised, failed, adjacent, saved, handed, reads>>

\* process_rmw: the RMW edge is committed before process_write goes on.
StartRMW(from) ==
    /\ written < MaxWrites
    /\ LET g == Committed(addRMWEdge(graph, from, Fresh))
           a == adjacent \cup {<<from, Fresh>>}
       IN  /\ Begin("write", Fresh, g, order)
           /\ adjacent' = a
           /\ saved' = [graph |-> g, order |-> order, adjacent |-> a]
    /\ written' = Fresh
    /\ UNCHANGED <<made, promised, failed, handed, reads>>

\* w_modification_order: an earlier write, or one that an earlier read read.
WriteEdge(f) ==
    /\ phase = "write"
    /\ f # focus
    /\ Ask(f, focus)

\* w_modification_order: a promise only the writing thread can fulfil comes later.
WriteExclusive(p) ==
    /\ phase = "write"
    /\ Ask(focus, p)

CommitWrite ==
    /\ phase = "write"
    /\ phase' = "idle"
    /\ CommitTo(graph, order, adjacent)
    /\ UNCHANGED <<focus, written, made, promised, failed, handed, asked, reads>>

\* compute_promises: no reader of p happens before the write, or is the write.
MayResolve(p) == <<p, focus>> \notin order \cup adjacent

\* p is the write, in what was asked for.
Substitute(pairs, p, w) ==
    LET as(x) == IF x = p THEN w ELSE x
    IN  {<<as(e[1]), as(e[2])>> : e \in pairs}

\* resolve_promise, then the commit of process_write.
ResolveAndCommit(p) ==
    /\ phase = "write"
    /\ MayResolve(p)
    /\ LET result == resolvePromise(graph, focus, p)
       IN  /\ CommitTo(result.graph, Substitute(order \ {<<focus, p>>}, p, focus),
                       Substitute(adjacent, p, focus))
           /\ failed' = ~result.ok
    /\ handed' = (handed \/ (graph.rmw[p] # NULL /\ graph.edges[focus] # <<>>))
    /\ promised' = promised \ {p}
    /\ phase' = "idle"
    /\ UNCHANGED <<focus, written, made, asked, reads>>

\* An infeasible execution stops, and so does one out of bounds.
Ended ==
    /\ phase = "idle"
    /\ ~Feasible \/ written = MaxWrites
    /\ UNCHANGED vars

Next ==
    \/ \E n \in Present : StartRead(n) \/ StartRMW(n)
    \/ \E p \in Promises : StartFutureRead(p)
    \/ \E n \in Present : ReadEdge(n) \/ WriteEdge(n)
    \/ \E p \in promised : ReadExclusive(p) \/ WriteExclusive(p) \/ ResolveAndCommit(p)
    \/ CommitRead \/ Rollback \/ StartWrite \/ CommitWrite \/ Ended

Spec == Init /\ [][Next]_vars
-----------------------------------------------------------------------------
(***************************************************************************)
(* Correctness.  A modification order places every node: Places are the    *)
(* possible ones, and one is left if it respects all that was asked for.   *)
(***************************************************************************)
\* The uninitialized value is first in all of them: every node is asked to
\* come after it.
Places == {at \in [Nodes -> 1..Cardinality(Nodes)] : at[Initial] = 1 /\ IsInjective(at)}

Respects(at) ==
    /\ \A e \in order \cup adjacent : at[e[1]] < at[e[2]]
    /\ \A e \in adjacent, n \in Present : ~(at[e[1]] < at[n] /\ at[n] < at[e[2]])

OrderLeft == \E at \in Places : Respects(at)

\* Types; an edge is known at both its ends.
TypeOK ==
    /\ graph.edges \in [Nodes -> Seq(Nodes)]
    /\ graph.back \in [Nodes -> Seq(Nodes)]
    /\ graph.rmw \in [Nodes -> 1..MaxWrites \cup {NULL}]
    /\ phase \in {"idle", "read", "future", "write"}
    /\ written \in 0..MaxWrites
    /\ promised \subseteq made /\ made \subseteq Promises
    /\ \A f, t \in Nodes : HasEdge(graph, f, t) <=> f \in ToSet(graph.back[t])

\* checkForCycles (or the failed resolution that is reported beside it) is only
\* true when no modification order is left: no execution is dropped that has one.
InfeasibleHasNoOrder == ~Feasible => ~OrderLeft

\* Once every promise is resolved, which isfeasibleprefix asks for before an
\* execution counts, a graph that reports no cycle has a modification order:
\* "No write can occur in between the rmw and from actions" (addRMWEdge).
\* Violated: mergeNodes hands the promise's RMW to the write without adding
\* edges from that RMW to what already comes after the write, as addRMWEdge does.
FeasiblePrefixHasOrder ==
    phase = "idle" /\ promised = {} /\ Feasible => OrderLeft

\* checkReachable, which prunes promises and release sequences, only claims
\* an order that every modification order left has.
ReachableIsOrdered ==
    LET claims == {e \in Present \X Present :
                     e[1] # e[2] /\ checkReachable(graph, e[1], e[2])}
    IN  Feasible => \A at \in Places : Respects(at) => \A e \in claims : at[e[1]] < at[e[2]]

\* The loop in addNodeEdge that follows the RMW chain ends.
NoEndlessChain == ~graph.endless

\* After a rollback the graph is the one of the last commit, edge for edge;
\* a walk without end never gets there.
RollbackExact == phase = "idle" /\ NoEndlessChain => graph = saved.graph

\* The ASSERTs of startChanges hold whenever a transaction can start.
StartAsserts ==
    phase = "idle" => /\ graph.rollback = <<>>
                      /\ graph.rmwRollback = <<>>
                      /\ graph.oldCycles = graph.cycles

\* What the graph says of modification order is so: a cycle leaves no order,
\* and every order left has what checkReachable claims.
ClaimsAreTrue == InfeasibleHasNoOrder /\ ReachableIsOrdered

\* Transactions leave a graph behind that is well formed, and the one that was
\* committed last.
TransactionsExact == TypeOK /\ RollbackExact /\ StartAsserts

\* What goes wrong comes from a merge with an RMW: a cycle of RMW chains is
\* missed, or closed before its edges are there, and then walked for ever (this
\* takes two such merges in one chain, seven writes and three promises).
OnlyHandoverFails == ~handed => FeasiblePrefixHasOrder /\ NoEndlessChain
=============================================================================
