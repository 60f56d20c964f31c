--------------------------- MODULE CycleOrderProofs ---------------------------
(***************************************************************************)
(* As long as no merge has handed an RMW to a write with edges of its own, *)
(* a graph without a cycle has a modification order, for any number of     *)
(* writes, promises and edges, and the walk along an RMW chain ends.       *)
(*                                                                         *)
(* A cycle in the edges is not the only thing that could leave no order:   *)
(* an RMW has to follow its store at once.  So chains of RMWs are ordered  *)
(* as blocks, and what keeps the blocks without a cycle is that addNodeEdge *)
(* passes an edge on to the end of the chain it leaves (PassedOn).          *)
(***************************************************************************)
EXTENDS CycleGraphProofs, FunctionTheorems

ChainClosed(g, S) == \A n \in S : g.rmw[n] # NULL => g.rmw[n] \in S

\* Node n, the RMW that reads from it, the RMW that reads from that, ...
Chain(g, n) == {e \in Nodes : \A S \in SUBSET Nodes : n \in S /\ ChainClosed(g, S) => e \in S}

\* rank goes up along the chains.
Ranks(rank, g, P) ==
    /\ rank \in [Nodes -> Int]
    /\ \A n \in P : g.rmw[n] # NULL => rank[n] < rank[g.rmw[n]]

\* An edge from f to t leads into the chain of f, or there is one from its end.
PassedTo(g, f, t) ==
    t \in Chain(g, f) \/ \E e \in Chain(g, f) : g.rmw[e] = NULL /\ HasEdge(g, e, t)
PassedOn(g) == \A f, t \in Nodes : HasEdge(g, f, t) => PassedTo(g, f, t)

\* The edges go up.
Acyclic(g) == \E at \in [Nodes -> Int] : Ascends(g, at)

\* A node has one RMW, and an edge to it.
Once(g, P)     == \A m, n \in P : g.rmw[m] = g.rmw[n] /\ g.rmw[m] # NULL => m = n
RMWEdges(g, P) == \A n \in P : g.rmw[n] # NULL => HasEdge(g, n, g.rmw[n])

\* All that was asked for is in the graph, and in such a way that an order can
\* be read from it.
Orders(g, o, a, P) ==
    /\ \E rank : Ranks(rank, g, P)
    /\ Once(g, P) /\ RMWEdges(g, P) /\ PassedOn(g)
    /\ \A e \in o : HasEdge(g, e[1], e[2])
    /\ g.cycles \/ Acyclic(g)
    /\ g.cycles \/ \A e \in a : g.rmw[e[1]] = e[2]

\* The uninitialized value comes first.
InitialFirst(g, P) == \A n \in P : n # Initial => HasEdge(g, Initial, n)

\* What holds until a merge hands over an RMW.
OrderInv ==
    ~handed => /\ ~graph.endless
               /\ ~failed => /\ Orders(graph, order, adjacent, Present)
                             /\ InitialFirst(graph, Present)
               /\ ~failed /\ phase \in {"idle", "read"} =>
                             /\ Orders(saved.graph, saved.order, saved.adjacent, Present)
                             /\ InitialFirst(saved.graph, Present)
-----------------------------------------------------------------------------
(***************************************************************************)
(* Chains.                                                                 *)
(***************************************************************************)
LEMMA RMWNode ==
    ASSUME NEW g \in Graphs, NEW n \in Nodes
    PROVE  g.rmw[n] # NULL => g.rmw[n] \in Nodes /\ g.rmw[n] \in 1..MaxWrites
BY GraphFields, NodeFacts

LEMMA ChainFacts ==
    ASSUME NEW g \in Graphs, NEW n \in Nodes
    PROVE  /\ n \in Chain(g, n) /\ Chain(g, n) \in SUBSET Nodes
           /\ ChainClosed(g, Chain(g, n))
           /\ \A S \in SUBSET Nodes : n \in S /\ ChainClosed(g, S) => Chain(g, n) \subseteq S
           /\ \A e \in Chain(g, n) : Chain(g, e) \subseteq Chain(g, n)
           /\ \A e \in Chain(g, n) : e # n => g.rmw[n] # NULL /\ e \in Chain(g, g.rmw[n])
<1>1. n \in Chain(g, n) /\ Chain(g, n) \in SUBSET Nodes
  BY DEF Chain
<1>2. ChainClosed(g, Chain(g, n))
  <2> SUFFICES ASSUME NEW e \in Chain(g, n), g.rmw[e] # NULL PROVE g.rmw[e] \in Chain(g, n)
    BY DEF ChainClosed
  <2>1. e \in Nodes /\ g.rmw[e] \in Nodes
    BY RMWNode DEF Chain
  <2> QED BY <2>1 DEF Chain, ChainClosed
<1>3. \A S \in SUBSET Nodes : n \in S /\ ChainClosed(g, S) => Chain(g, n) \subseteq S
  BY DEF Chain
<1>4. \A e \in Chain(g, n) : Chain(g, e) \subseteq Chain(g, n)
  BY <1>1, <1>2 DEF Chain
<1>5. ASSUME NEW e \in Chain(g, n), e # n
      PROVE  g.rmw[n] # NULL /\ e \in Chain(g, g.rmw[n])
  <2>1. g.rmw[n] # NULL
    <3> SUFFICES ASSUME g.rmw[n] = NULL PROVE FALSE
      OBVIOUS
    <3>1. ChainClosed(g, {n})
      BY DEF ChainClosed
    <3> QED BY <1>3, <1>5, <3>1
  <2> DEFINE r == g.rmw[n]
             S == {n} \cup Chain(g, r)
  <2>2. r \in Nodes
    BY <2>1, RMWNode
  <2>3. r \in Chain(g, r) /\ Chain(g, r) \in SUBSET Nodes
    BY <2>2 DEF Chain
  <2>4. ChainClosed(g, Chain(g, r))
    <3> SUFFICES ASSUME NEW x \in Chain(g, r), g.rmw[x] # NULL PROVE g.rmw[x] \in Chain(g, r)
      BY DEF ChainClosed
    <3>1. x \in Nodes /\ g.rmw[x] \in Nodes
      BY RMWNode DEF Chain
    <3> QED BY <3>1 DEF Chain, ChainClosed
  <2>5. ChainClosed(g, S)
    BY <2>3, <2>4 DEF ChainClosed
  <2> HIDE DEF r
  <2>6. e \in S
    BY <1>3, <1>5, <2>3, <2>5
  <2> QED BY <1>5, <2>1, <2>6 DEF r
<1> QED BY <1>1, <1>2, <1>3, <1>4, <1>5

\* Chains depend on the RMWs alone.
LEMMA SameChains ==
    ASSUME NEW g, NEW h, h.rmw = g.rmw
    PROVE  \A n : Chain(h, n) = Chain(g, n)
BY DEF Chain, ChainClosed

\* What the lemmas below assume of the graph.
Ranked(g, P, rank) == g \in Graphs /\ P \in SUBSET Nodes /\ ClosedUp(g, P) /\ Ranks(rank, g, P)

LEMMA ChainClimbs ==
    ASSUME NEW g, NEW P, NEW rank, Ranked(g, P, rank), NEW n \in P, NEW e \in Chain(g, n)
    PROVE  e \in P /\ (e = n \/ rank[n] < rank[e])
<1> DEFINE S == {x \in P : x = n \/ rank[n] < rank[x]}
<1>1. S \in SUBSET Nodes /\ n \in S /\ n \in Nodes /\ g \in Graphs
  BY DEF Ranked
<1>2. ASSUME NEW x \in S, g.rmw[x] # NULL PROVE g.rmw[x] \in S
  <2>1. g.rmw[x] \in P /\ rank[x] < rank[g.rmw[x]] /\ x \in P
    BY <1>2 DEF Ranked, ClosedUp, Ranks
  <2>2. rank[n] \in Int /\ rank[x] \in Int /\ rank[g.rmw[x]] \in Int
    BY <1>1, <2>1 DEF Ranks, Ranked
  <2>3. x = n \/ rank[n] < rank[x]
    BY <1>2
  <2> HIDE DEF S
  <2>4. rank[n] < rank[g.rmw[x]]
    BY <2>1, <2>2, <2>3
  <2> QED BY <2>1, <2>4 DEF S
<1>3. ChainClosed(g, S)
  BY <1>2 DEF ChainClosed
<1>4. Chain(g, n) \subseteq S
  <2> HIDE DEF S
  <2> QED BY <1>1, <1>3, ChainFacts
<1> QED BY <1>4

\* One of two nodes of a chain comes first.
LEMMA ChainLinear ==
    ASSUME NEW g \in Graphs, NEW n \in Nodes, NEW x \in Chain(g, n), NEW y \in Chain(g, n)
    PROVE  y \in Chain(g, x) \/ x \in Chain(g, y)
<1> DEFINE S == {u \in Chain(g, n) : \A v \in Chain(g, n) : v \in Chain(g, u) \/ u \in Chain(g, v)}
<1>1. S \in SUBSET Nodes /\ n \in S
  BY ChainFacts
<1>2. ASSUME NEW u \in S, g.rmw[u] # NULL PROVE g.rmw[u] \in S
  <2>1. u \in Chain(g, n) /\ g.rmw[u] \in Chain(g, n) /\ u \in Nodes /\ g.rmw[u] \in Nodes
    BY <1>2, ChainFacts DEF ChainClosed
  <2>2. ASSUME NEW v \in Chain(g, n) PROVE v \in Chain(g, g.rmw[u]) \/ g.rmw[u] \in Chain(g, v)
    <3>1. v \in Nodes /\ (v \in Chain(g, u) \/ u \in Chain(g, v))
      BY <1>2, ChainFacts
    <3>2. CASE u \in Chain(g, v)
      BY <1>2, <3>1, <3>2, ChainFacts DEF ChainClosed
    <3>3. CASE v \in Chain(g, u) /\ v # u
      BY <2>1, <3>3, ChainFacts
    <3>4. CASE v = u
      BY <1>2, <3>1, <3>4, ChainFacts DEF ChainClosed
    <3> QED BY <3>1, <3>2, <3>3, <3>4
  <2> QED BY <2>1, <2>2
<1>3. ChainClosed(g, S)
  BY <1>2 DEF ChainClosed
<1>4. x \in S
  <2> HIDE DEF S
  <2> QED BY <1>1, <1>3, ChainFacts
<1> QED BY <1>4

LEMMA ChainHasEnd ==
    ASSUME NEW g, NEW P, NEW rank, Ranked(g, P, rank), NEW n \in P
    PROVE  \E e \in Chain(g, n) : g.rmw[e] = NULL
<1> DEFINE S == {Cardinality(Chain(g, e)) : e \in Chain(g, n)}
<1>1. g \in Graphs /\ n \in Nodes /\ P \subseteq Nodes
  BY DEF Ranked
<1>2. \A e \in Nodes : IsFiniteSet(Chain(g, e)) /\ Cardinality(Chain(g, e)) \in Nat
  BY <1>1, ChainFacts, NodeFacts, FS_Subset, FS_CardinalityType
<1>3. S \in SUBSET Nat /\ S # {} /\ Chain(g, n) \subseteq Nodes
  BY <1>1, <1>2, ChainFacts
<1>4. PICK i \in S : \A j \in S : i <= j
  <2> HIDE DEF S
  <2> QED BY <1>3, Least
<1>5. PICK e \in Chain(g, n) : i = Cardinality(Chain(g, e))
  BY <1>4
<1>6. SUFFICES ASSUME g.rmw[e] # NULL PROVE FALSE
  BY <1>5
<1> DEFINE r == g.rmw[e]
<1>7. e \in Nodes /\ r \in Chain(g, n) /\ r \in Chain(g, e) /\ r \in Nodes /\ e \in P
  BY <1>1, <1>3, <1>6, ChainFacts, ChainClimbs DEF ChainClosed
<1>8. Chain(g, r) \subseteq Chain(g, e) /\ e \in Chain(g, e)
  BY <1>1, <1>7, ChainFacts
<1>9. e \notin Chain(g, r)
  <2> SUFFICES ASSUME e \in Chain(g, r) PROVE FALSE
    OBVIOUS
  <2>1. r \in P /\ rank[e] < rank[r]
    BY <1>6, <1>7 DEF Ranked, ClosedUp, Ranks
  <2>2. e = r \/ rank[r] < rank[e]
    BY <2>1, ChainClimbs
  <2>3. rank[e] \in Int /\ rank[r] \in Int
    BY <1>7 DEF Ranked, Ranks
  <2> HIDE DEF r
  <2> QED BY <2>1, <2>2, <2>3
<1>10. Cardinality(Chain(g, r)) < Cardinality(Chain(g, e))
  <2>1. Chain(g, r) # Chain(g, e)
    BY <1>8, <1>9
  <2> QED BY <1>2, <1>7, <1>8, <2>1, FS_Subset
<1>11. Cardinality(Chain(g, r)) \in S
  BY <1>7
<1> QED BY <1>2, <1>4, <1>5, <1>7, <1>10, <1>11

\* Two nodes whose chains meet are on one chain.
LEMMA ChainsMeet ==
    ASSUME NEW g, NEW P, NEW rank, Ranked(g, P, rank), Once(g, P),
           NEW m \in P, NEW n \in P, NEW e \in Chain(g, m), e \in Chain(g, n)
    PROVE  m \in Chain(g, n) \/ n \in Chain(g, m)
<1>1. /\ g \in Graphs /\ P \subseteq Nodes /\ m \in Nodes /\ n \in Nodes
      /\ Chain(g, m) \subseteq P /\ Chain(g, n) \subseteq P
  BY ChainClimbs DEF Ranked
<1> DEFINE S == {x \in Chain(g, m) : x \notin Chain(g, n)}
           T(r) == Chain(g, n) \ {r}
<1>2. SUFFICES ASSUME m \notin Chain(g, n), n \notin Chain(g, m) PROVE FALSE
  OBVIOUS
<1>3. m \in S /\ S \in SUBSET Nodes
  BY <1>1, <1>2, ChainFacts
<1>4. ASSUME NEW x \in S, g.rmw[x] # NULL PROVE g.rmw[x] \in S
  <2> DEFINE r == g.rmw[x]
  <2>1. r \in Chain(g, m) /\ x \in P /\ r # n
    BY <1>1, <1>2, <1>4, ChainFacts DEF ChainClosed
  <2>2. ASSUME r \in Chain(g, n) PROVE FALSE
    <3>1. \A y \in Chain(g, n) : g.rmw[y] # r
      BY <1>1, <1>4, <2>1 DEF Once
    <3>2. ChainClosed(g, T(r)) /\ n \in T(r) /\ T(r) \in SUBSET Nodes
      BY <1>1, <2>1, <3>1, ChainFacts DEF ChainClosed
    <3>3. Chain(g, n) \subseteq T(r)
      <4> HIDE DEF T
      <4> QED BY <1>1, <3>2, ChainFacts
    <3> QED BY <2>2, <3>3
  <2> QED BY <2>1, <2>2
<1>5. ChainClosed(g, S)
  BY <1>4 DEF ChainClosed
<1>6. Chain(g, m) \subseteq S
  <2> HIDE DEF S
  <2> QED BY <1>1, <1>3, <1>5, ChainFacts
<1> QED BY <1>6
-----------------------------------------------------------------------------
(***************************************************************************)
(* The walk along a chain ends where it should.                            *)
(***************************************************************************)
Stops(g, n, t) == n = t \/ g.rmw[n] = NULL
Hop(g, r, t) == IF r = t \/ g.rmw[r] = NULL THEN r ELSE g.rmw[r]

\* The walk is in S, where rank goes up as long as it does not stop.
Walks(g, t, S, rank) ==
    /\ S \in SUBSET Nodes /\ rank \in [Nodes -> Int]
    /\ \A n \in S : ~Stops(g, n, t) => g.rmw[n] \in S /\ rank[n] < rank[g.rmw[n]]

LEMMA WalkIs ==
    ASSUME NEW g \in Graphs, NEW f, NEW t, NEW S, NEW rank, Walks(g, t, S, rank), g.rmw[f] \in S
    PROVE  \E hop \in [0..Cardinality(Nodes) -> S] :
              /\ hop[0] = g.rmw[f]
              /\ \A i \in 1..Cardinality(Nodes) : hop[i] = Hop(g, hop[i-1], t)
              /\ hop[Cardinality(Nodes)] = ChainEnd(g, f, t)
<1> DEFINE N == Cardinality(Nodes)
           F == [e \in (1..N) \X S |-> Hop(g, e[2], t)]
           hop[i \in 0..N] ==
              IF i = 0 THEN g.rmw[f]
              ELSE LET r == hop[i-1] IN IF r = t \/ g.rmw[r] = NULL THEN r ELSE g.rmw[r]
           Solves(u) == u = [i \in 0..N |->
              IF i = 0 THEN g.rmw[f]
              ELSE LET r == u[i-1] IN IF r = t \/ g.rmw[r] = NULL THEN r ELSE g.rmw[r]]
<1>1. N \in Nat
  BY NodeFacts
<1>2. \A r \in S : Hop(g, r, t) \in S
  BY DEF Walks, Hop, Stops
<1>3. F \in [(1..N) \X S -> S]
  BY <1>2
<1>4. \E u : Iterates(u, S, g.rmw[f], N, F)
  <2> HIDE DEF N, F
  <2> QED BY <1>1, <1>3, Iteration, Zenon
<1>5. PICK u \in [0..N -> S] : u[0] = g.rmw[f] /\ \A i \in 1..N : u[i] = F[<<i, u[i-1]>>]
  <2> HIDE DEF N, F
  <2> QED BY <1>4 DEF Iterates
<1>6. ASSUME NEW i \in 0..N, i # 0
      PROVE  u[i] = Hop(g, u[i-1], t)
  <2>1. i \in 1..N /\ i-1 \in 0..N
    BY <1>1, <1>6
  <2>2. <<i, u[i-1]>> \in (1..N) \X S
    BY <1>5, <2>1
  <2> QED BY <1>5, <2>1, <2>2
<1>7. Solves(u)
  BY <1>5, <1>6 DEF Hop
<1>8. Solves(hop)
  <2>1. hop = CHOOSE v : Solves(v)
    OBVIOUS
  <2> HIDE DEF hop, Solves
  <2> QED BY <1>7, <2>1
<1>9. hop[N] = ChainEnd(g, f, t)
  BY DEF ChainEnd
<1> HIDE DEF hop
<1>10. hop[0] = g.rmw[f]
  BY <1>1, <1>8
<1>11. ASSUME NEW i \in 1..N PROVE hop[i] = Hop(g, hop[i-1], t)
  <2>1. i \in 0..N /\ i # 0
    BY <1>1
  <2> QED BY <1>8, <2>1 DEF Hop
<1>12. DOMAIN hop = 0..N
  BY <1>8
<1>13. hop = [i \in 0..N |-> hop[i]]
  BY <1>8
<1> HIDE DEF Solves
<1> DEFINE A == {i \in 0..N : hop[i] \in S}
<1>14. 0 \in A
  BY <1>1, <1>10
<1>15. \A i \in 1..N : i-1 \in A => i \in A
  BY <1>1, <1>2, <1>11
<1>16. A = 0..N
  <2>1. A \in SUBSET (0..N)
    OBVIOUS
  <2> HIDE DEF A, N
  <2> QED BY <1>1, <1>14, <1>15, <2>1, Induction
<1>17. hop \in [0..N -> S]
  BY <1>13, <1>16
<1> QED BY <1>9, <1>10, <1>11, <1>17

\* No more nodes lie below a node than there are others.
LEMMA FewBelow ==
    ASSUME NEW rank \in [Nodes -> Int], NEW S \in SUBSET Nodes, NEW n \in S,
           NEW B, B = {m \in S : rank[m] < rank[n]}
    PROVE  IsFiniteSet(B) /\ Cardinality(B) \in Nat /\ Cardinality(B) < Cardinality(Nodes)
<1>1. B \subseteq Nodes /\ B # Nodes
  OBVIOUS
<1> QED BY <1>1, NodeFacts, FS_Subset, FS_CardinalityType

LEMMA WalkFacts ==
    ASSUME NEW g \in Graphs, NEW f, NEW t, NEW S, NEW rank, Walks(g, t, S, rank), g.rmw[f] \in S,
           NEW last, last = ChainEnd(g, f, t)
    PROVE  last \in S /\ Stops(g, last, t)
<1> DEFINE N == Cardinality(Nodes)
           Below(n) == {m \in S : rank[m] < rank[n]}
<1>1. N \in Nat
  BY NodeFacts
<1>2. PICK hop \in [0..N -> S] : /\ \A i \in 1..N : hop[i] = Hop(g, hop[i-1], t)
                                /\ hop[N] = last
  BY WalkIs
<1> DEFINE A == {i \in 0..N : Stops(g, hop[i], t) \/ i <= Cardinality(Below(hop[i]))}
<1>3. S \in SUBSET Nodes /\ rank \in [Nodes -> Int]
  BY DEF Walks
<1>4. ASSUME NEW n \in S
      PROVE  IsFiniteSet(Below(n)) /\ Cardinality(Below(n)) \in Nat /\ Cardinality(Below(n)) < N
  <2> DEFINE B == Below(n)
  <2>1. B = {m \in S : rank[m] < rank[n]}
    OBVIOUS
  <2> HIDE DEF B
  <2>2. IsFiniteSet(B) /\ Cardinality(B) \in Nat /\ Cardinality(B) < Cardinality(Nodes)
    BY <1>3, <1>4, <2>1, FewBelow
  <2> QED BY <2>2 DEF B
<1>5. 0 \in A
  <2>1. 0 \in 0..N /\ hop[0] \in S
    BY <1>1
  <2> HIDE DEF Below
  <2>2. Cardinality(Below(hop[0])) \in Nat
    BY <1>4, <2>1
  <2> QED BY <2>1, <2>2
<1>6. ASSUME NEW i \in 1..N, i-1 \in A PROVE i \in A
  <2>1. i \in 0..N /\ i-1 \in 0..N /\ hop[i-1] \in S /\ hop[i] \in S /\ hop[i] = Hop(g, hop[i-1], t)
    BY <1>1, <1>2
  <2>2. CASE Stops(g, hop[i-1], t)
    BY <2>1, <2>2 DEF Hop, Stops
  <2>3. CASE ~Stops(g, hop[i-1], t)
    <3> DEFINE m == hop[i-1]
               n == hop[i]
    <3>1. rank[m] < rank[n]
      BY <2>1, <2>3 DEF Hop, Stops, Walks
    <3>2. i-1 <= Cardinality(Below(m))
      BY <1>6, <2>3
    <3>3. m \in Nodes /\ n \in Nodes /\ m \in S /\ n \in S
      BY <1>3, <2>1
    <3> HIDE DEF m, n
    <3>4. Below(m) \subseteq Below(n) /\ m \in Below(n) /\ m \notin Below(m)
      <4>1. \A x \in S : rank[x] \in Int
        BY <1>3
      <4>2. \A x \in S : rank[x] < rank[m] => rank[x] < rank[n]
        BY <3>1, <3>3, <4>1
      <4> QED BY <3>1, <3>3, <4>1, <4>2
    <3>5. Cardinality(Below(m)) < Cardinality(Below(n))
      <4>1. Below(m) # Below(n)
        BY <3>4
      <4> HIDE DEF Below
      <4> QED BY <1>4, <3>3, <3>4, <4>1, FS_Subset
    <3>6. Cardinality(Below(m)) \in Nat /\ Cardinality(Below(n)) \in Nat /\ i \in Int
      <4> HIDE DEF Below
      <4> QED BY <1>4, <3>3, <2>1
    <3> HIDE DEF Below
    <3>7. i <= Cardinality(Below(n))
      BY <3>2, <3>5, <3>6
    <3> QED BY <2>1, <3>7 DEF n
  <2> QED BY <2>2, <2>3
<1>7. A = 0..N
  <2>1. A \in SUBSET (0..N)
    OBVIOUS
  <2> HIDE DEF A, N
  <2> QED BY <1>1, <1>5, <1>6, <2>1, Induction
<1>8. N \in A /\ hop[N] \in S
  BY <1>1, <1>7
<1>9. Stops(g, last, t)
  <2> HIDE DEF Below, N
  <2> QED BY <1>1, <1>2, <1>4, <1>8
<1> QED BY <1>2, <1>8, <1>9

\* The walk of addNodeEdge(g, f, t) ends, on the chain of f.
Arrives(g, f, t) ==
    g.rmw[f] # NULL => ChainEnd(g, f, t) \in Chain(g, f) /\ Stops(g, ChainEnd(g, f, t), t)

LEMMA WalkArrives ==
    ASSUME NEW g \in Graphs, NEW f \in Nodes, NEW t, NEW S, NEW rank, Walks(g, t, S, rank),
           g.rmw[f] # NULL => g.rmw[f] \in S
    PROVE  Arrives(g, f, t)
<1> SUFFICES ASSUME g.rmw[f] # NULL
             PROVE  ChainEnd(g, f, t) \in Chain(g, f) /\ Stops(g, ChainEnd(g, f, t), t)
  BY DEF Arrives
<1> DEFINE C == Chain(g, f)
           T == S \cap C
<1>1. f \in C /\ C \in SUBSET Nodes /\ \A n \in C : g.rmw[n] # NULL => g.rmw[n] \in C
  BY ChainFacts DEF ChainClosed
<1> HIDE DEF C
<1>2. Walks(g, t, T, rank) /\ g.rmw[f] \in T
  BY <1>1 DEF Walks, Stops
<1> HIDE DEF T
<1>3. ChainEnd(g, f, t) \in T /\ Stops(g, ChainEnd(g, f, t), t)
  BY <1>2, WalkFacts
<1> QED BY <1>3 DEF T, C

LEMMA RankArrives ==
    ASSUME NEW g, NEW P, NEW rank, Ranked(g, P, rank), NEW f \in P, NEW t
    PROVE  Arrives(g, f, t)
<1>1. Walks(g, t, P, rank) /\ (g.rmw[f] # NULL => g.rmw[f] \in P) /\ f \in Nodes /\ g \in Graphs
  BY DEF Walks, Stops, Ranked, Ranks, ClosedUp
<1> QED BY <1>1, WalkArrives
-----------------------------------------------------------------------------
(***************************************************************************)
(* checkReachable finds all that can be reached.                           *)
(***************************************************************************)
Successors(g, S) == UNION {ToSet(g.edges[x]) : x \in S}
EdgeClosed(g, S) == \A m \in S, n \in Nodes : HasEdge(g, m, n) => n \in S

LEMMA SuccessorsFacts ==
    ASSUME NEW g \in Graphs, NEW S \in SUBSET Nodes
    PROVE  /\ Successors(g, S) \in SUBSET Nodes
           /\ \A n : n \in Successors(g, S) <=> \E m \in S : HasEdge(g, m, n)
<1>1. \A x \in Nodes : ToSet(g.edges[x]) \subseteq Nodes
  BY GraphFields DEF ToSet
<1> QED BY <1>1 DEF Successors, HasEdge

LEMMA ReachIs ==
    ASSUME NEW g \in Graphs, NEW n \in Nodes
    PROVE  \E u \in [0..Cardinality(Nodes) -> SUBSET Nodes] :
              /\ u[0] = {n}
              /\ \A i \in 1..Cardinality(Nodes) : u[i] = u[i-1] \cup Successors(g, u[i-1])
              /\ u[Cardinality(Nodes)] = ReachableFrom(g, n)
<1> DEFINE N == Cardinality(Nodes)
           V == SUBSET Nodes
           F == [e \in (1..N) \X V |-> e[2] \cup Successors(g, e[2])]
           upTo[i \in 0..N] ==
              IF i = 0 THEN {n}
              ELSE LET seen == upTo[i-1] IN seen \cup UNION {ToSet(g.edges[x]) : x \in seen}
           Solves(u) == u = [i \in 0..N |->
              IF i = 0 THEN {n}
              ELSE LET seen == u[i-1] IN seen \cup UNION {ToSet(g.edges[x]) : x \in seen}]
<1>1. N \in Nat /\ {n} \in V
  BY NodeFacts
<1>2. \A S \in V : S \cup Successors(g, S) \in V
  BY SuccessorsFacts
<1>3. F \in [(1..N) \X V -> V]
  <2> HIDE DEF V
  <2> QED BY <1>2
<1>4. \E u : Iterates(u, V, {n}, N, F)
  <2> HIDE DEF N, V, F
  <2> QED BY <1>1, <1>3, Iteration, Zenon
<1>5. PICK u \in [0..N -> V] : u[0] = {n} /\ \A i \in 1..N : u[i] = F[<<i, u[i-1]>>]
  <2> HIDE DEF N, V, F
  <2> QED BY <1>4 DEF Iterates
<1>6. ASSUME NEW i \in 0..N, i # 0
      PROVE  u[i] = u[i-1] \cup Successors(g, u[i-1])
  <2>1. i \in 1..N /\ i-1 \in 0..N
    BY <1>1, <1>6
  <2> HIDE DEF V
  <2>2. <<i, u[i-1]>> \in (1..N) \X V
    BY <1>5, <2>1
  <2> QED BY <1>5, <2>1, <2>2
<1>7. Solves(u)
  BY <1>5, <1>6 DEF Successors
<1>8. Solves(upTo)
  <2>1. upTo = CHOOSE v : Solves(v)
    OBVIOUS
  <2> HIDE DEF upTo, Solves
  <2> QED BY <1>7, <2>1
<1>9. upTo[N] = ReachableFrom(g, n)
  BY DEF ReachableFrom
<1> HIDE DEF upTo
<1>10. upTo[0] = {n} /\ upTo = [i \in 0..N |-> upTo[i]]
  BY <1>1, <1>8
<1>11. ASSUME NEW i \in 1..N PROVE upTo[i] = upTo[i-1] \cup Successors(g, upTo[i-1])
  <2>1. i \in 0..N /\ i # 0
    BY <1>1
  <2> QED BY <1>8, <2>1 DEF Successors
<1> HIDE DEF Solves
<1> DEFINE A == {i \in 0..N : upTo[i] \in V}
<1>12. 0 \in A
  BY <1>1, <1>10
<1>13. \A i \in 1..N : i-1 \in A => i \in A
  <2> HIDE DEF V
  <2> QED BY <1>1, <1>2, <1>11
<1>14. A = 0..N
  <2>1. A \in SUBSET (0..N)
    OBVIOUS
  <2> HIDE DEF A, N
  <2> QED BY <1>1, <1>12, <1>13, <2>1, Induction
<1>15. upTo \in [0..N -> V]
  <2> HIDE DEF V
  <2> QED BY <1>10, <1>14
<1> QED BY <1>9, <1>10, <1>11, <1>15

\* A round that finds something new finds a node more, and there are not more
\* rounds than nodes.
LEMMA ReachCloses ==
    ASSUME NEW g \in Graphs, NEW n \in Nodes, NEW R, R = ReachableFrom(g, n)
    PROVE  R \in SUBSET Nodes /\ n \in R /\ EdgeClosed(g, R)
<1> DEFINE N == Cardinality(Nodes)
<1>1. N \in Nat /\ IsFiniteSet(Nodes)
  BY NodeFacts
<1>2. PICK u \in [0..N -> SUBSET Nodes] :
          /\ u[0] = {n}
          /\ \A i \in 1..N : u[i] = u[i-1] \cup Successors(g, u[i-1])
          /\ u[N] = R
  BY ReachIs
<1> DEFINE A == {i \in 0..N : n \in u[i] /\ (EdgeClosed(g, u[i]) \/ i < Cardinality(u[i]))}
<1>3. \A S \in SUBSET Nodes : IsFiniteSet(S) /\ Cardinality(S) \in Nat /\ Cardinality(S) <= N
  BY <1>1, FS_Subset, FS_CardinalityType
<1>4. 0 \in A
  <2>1. Cardinality({n}) = 1
    BY FS_Singleton
  <2>2. Cardinality(u[0]) = 1 /\ n \in u[0] /\ 0 \in 0..N /\ 0 < 1
    BY <1>1, <1>2, <2>1
  <2> HIDE DEF N
  <2> QED BY <2>2
<1>5. ASSUME NEW i \in 1..N, i-1 \in A PROVE i \in A
  <2>1. /\ i \in 0..N /\ i-1 \in 0..N /\ u[i-1] \in SUBSET Nodes /\ u[i] \in SUBSET Nodes
        /\ u[i] = u[i-1] \cup Successors(g, u[i-1]) /\ i \in Int
    BY <1>1, <1>2
  <2>2. \A x : x \in Successors(g, u[i-1]) <=> \E m \in u[i-1] : HasEdge(g, m, x)
    BY <2>1, SuccessorsFacts
  <2>3. CASE EdgeClosed(g, u[i-1])
    <3>1. u[i] = u[i-1]
      <4>1. Successors(g, u[i-1]) \subseteq Nodes
        BY <2>1
      <4> QED BY <2>1, <2>2, <2>3, <4>1 DEF EdgeClosed
    <3> QED BY <1>5, <2>1, <2>3, <3>1
  <2>4. CASE ~EdgeClosed(g, u[i-1])
    <3>1. u[i-1] \subseteq u[i] /\ u[i-1] # u[i]
      BY <2>1, <2>2, <2>4 DEF EdgeClosed
    <3>2. Cardinality(u[i-1]) < Cardinality(u[i])
      BY <1>3, <2>1, <3>1, FS_Subset
    <3>3. i-1 < Cardinality(u[i-1])
      BY <1>5, <2>4
    <3>4. Cardinality(u[i-1]) \in Nat /\ Cardinality(u[i]) \in Nat
      BY <1>3, <2>1
    <3>5. i < Cardinality(u[i])
      BY <2>1, <3>2, <3>3, <3>4
    <3> QED BY <1>5, <2>1, <3>1, <3>5
  <2> QED BY <2>3, <2>4
<1>6. A = 0..N
  <2>1. A \in SUBSET (0..N)
    OBVIOUS
  <2> HIDE DEF A, N
  <2> QED BY <1>1, <1>4, <1>5, <2>1, Induction
<1>7. N \in A /\ R \in SUBSET Nodes
  BY <1>1, <1>2, <1>6
<1> QED BY <1>1, <1>2, <1>3, <1>7
-----------------------------------------------------------------------------
(***************************************************************************)
(* addNodeEdge.                                                            *)
(***************************************************************************)
\* h differs from g in its edges, and announces a cycle or has none.
KeepsAcyclic(g, h) ==
    /\ g.cycles => h.cycles
    /\ g.cycles \/ Acyclic(g) => h.cycles \/ Acyclic(h)

\* A cycle that a new edge closes is found.
LEMMA TrackedAcyclic ==
    ASSUME NEW g, WellFormed(g), NEW f \in Nodes, NEW t \in Nodes, f # t,
           NEW h, h = AddTracked(g, f, t)
    PROVE  KeepsAcyclic(g, h) /\ h.endless = g.endless /\ h.rmw = g.rmw
<1>1. CASE HasEdge(g, f, t)
  BY <1>1 DEF AddTracked, KeepsAcyclic
<1>2. CASE ~HasEdge(g, f, t)
  <2> DEFINE l == Link(g, f, t)
             c == g.cycles \/ checkReachable(l, t, f)
  <2>1. WellFormed(l) /\ OneMore(g, l, f, t) /\ SameRest(g, l)
    BY <1>2, LinkFacts, Zenon
  <2>2. l \in Graphs /\ g \in Graphs
    BY <2>1 DEF WellFormed
  <2>3. h = [l EXCEPT !.rollback = Append(@, f), !.cycles = @ \/ checkReachable(l, t, f)]
    BY <1>2 DEF AddTracked
  <2> HIDE DEF l
  <2>4. /\ h.edges = l.edges /\ h.endless = g.endless /\ h.rmw = g.rmw
        /\ h.cycles = (l.cycles \/ checkReachable(l, t, f)) /\ l.cycles = g.cycles
    BY <2>1, <2>2, <2>3 DEF Graphs, SameRest
  <2>5. ASSUME NEW at \in [Nodes -> Int], Ascends(g, at), ~checkReachable(l, t, f)
        PROVE  Acyclic(h)
    <3> DEFINE R == ReachableFrom(l, t)
               K == IF at[f] < at[t] THEN 0 ELSE at[f] - at[t] + 1
               up == [n \in Nodes |-> IF n \in R THEN at[n] + K ELSE at[n]]
    <3>1. R \in SUBSET Nodes /\ t \in R /\ EdgeClosed(l, R) /\ f \notin R
      BY <2>2, <2>5, ReachCloses DEF checkReachable
    <3> HIDE DEF R
    <3>2. K \in Int /\ K >= 0 /\ at[f] < at[t] + K /\ \A n \in Nodes : at[n] \in Int
      BY <2>5
    <3> HIDE DEF K
    <3>3. up \in [Nodes -> Int]
      BY <3>2
    <3>4. ASSUME NEW m \in Nodes, NEW n \in Nodes, HasEdge(h, m, n) PROVE up[m] < up[n]
      <4>1. HasEdge(l, m, n)
        BY <2>4, <3>4 DEF HasEdge
      <4>2. CASE m = f /\ n = t
        BY <3>1, <3>2, <4>2
      <4>3. CASE ~(m = f /\ n = t)
        <5>1. HasEdge(g, m, n)
          BY <2>1, <4>1, <4>3 DEF OneMore
        <5>2. at[m] < at[n] /\ at[m] \in Int /\ at[n] \in Int
          BY <2>5, <3>2, <5>1 DEF Ascends
        <5>3. m \in R => n \in R
          BY <3>1, <4>1 DEF EdgeClosed
        <5> QED BY <3>2, <5>2, <5>3
      <4> QED BY <4>2, <4>3
    <3> HIDE DEF up
    <3> QED BY <3>3, <3>4 DEF Acyclic, Ascends
  <2> QED BY <2>4, <2>5 DEF KeepsAcyclic, Acyclic
<1> QED BY <1>1, <1>2

\* What addNodeEdge adds to g: an edge, passed on to the end of the chain.
Added(g, h, f, t) ==
    /\ WellFormed(h) /\ h.rmw = g.rmw /\ h.endless = g.endless
    /\ KeepsAcyclic(g, h)
    /\ HasEdge(h, f, t)
    /\ \A m, n \in Nodes : HasEdge(g, m, n) => HasEdge(h, m, n)
    /\ \A m, n \in Nodes : HasEdge(h, m, n) =>
          HasEdge(g, m, n) \/ (n = t /\ m \in Chain(g, f) /\ PassedTo(h, m, n))

LEMMA EdgeAdds ==
    ASSUME NEW g, WellFormed(g), NEW f \in Nodes, NEW t \in Nodes, f # t, Arrives(g, f, t),
           NEW h, h = addNodeEdge(g, f, t)
    PROVE  Added(g, h, f, t)
<1> DEFINE first == AddTracked(g, f, t)
           last  == ChainEnd(g, f, t)
<1>1. g \in Graphs /\ f \in Chain(g, f) /\ Chain(g, f) \in SUBSET Nodes
  BY ChainFacts DEF WellFormed
<1>2. WellFormed(first) /\ OneMore(g, first, f, t)
  BY AddTrackedFacts, Zenon
<1>3. KeepsAcyclic(g, first) /\ first.endless = g.endless /\ first.rmw = g.rmw
  <2>1. first = AddTracked(g, f, t)
    OBVIOUS
  <2> HIDE DEF first
  <2> QED BY <2>1, TrackedAcyclic
<1>4. CASE HasEdge(g, f, t)
  <2>1. h = g
    BY <1>4 DEF addNodeEdge
  <2> QED BY <1>4, <2>1 DEF Added, KeepsAcyclic
<1>5. CASE ~HasEdge(g, f, t) /\ (g.rmw[f] = NULL \/ last = t)
  <2>1. h = first
    BY <1>5 DEF addNodeEdge
  <2>2. \A n : Chain(h, n) = Chain(g, n)
    BY <1>3, <2>1, SameChains
  <2>3. PassedTo(h, f, t)
    <3>1. CASE g.rmw[f] = NULL
      <4>1. f \in Chain(h, f) /\ h.rmw[f] = NULL /\ HasEdge(h, f, t)
        BY <1>1, <1>2, <1>3, <2>1, <2>2, <3>1 DEF OneMore
      <4> QED BY <4>1 DEF PassedTo
    <3>2. CASE g.rmw[f] # NULL /\ last = t
      BY <2>2, <3>2 DEF PassedTo, Arrives
    <3> QED BY <1>5, <3>1, <3>2
  <2> HIDE DEF first
  <2> QED BY <1>1, <1>2, <1>3, <2>1, <2>3 DEF Added, OneMore
<1>6. CASE ~HasEdge(g, f, t) /\ g.rmw[f] # NULL /\ last # t
  <2>1. last \in Chain(g, f) /\ g.rmw[last] = NULL /\ last \in Nodes
    BY <1>1, <1>6 DEF Arrives, Stops
  <2>2. h = AddTracked(first, last, t)
    BY <1>6, <2>1 DEF addNodeEdge
  <2> HIDE DEF first, last
  <2>3. WellFormed(h) /\ OneMore(first, h, last, t)
    BY <1>2, <1>6, <2>1, <2>2, AddTrackedFacts, Zenon
  <2>4. KeepsAcyclic(first, h) /\ h.endless = first.endless /\ h.rmw = first.rmw
    BY <1>2, <1>6, <2>1, <2>2, TrackedAcyclic
  <2>5. \A n : Chain(h, n) = Chain(g, n)
    BY <1>3, <2>4, SameChains
  <2>6. HasEdge(h, last, t) /\ h.rmw[last] = NULL
    BY <1>3, <2>1, <2>3, <2>4 DEF OneMore
  <2>7. PassedTo(h, f, t)
    BY <2>1, <2>5, <2>6 DEF PassedTo
  <2>8. PassedTo(h, last, t)
    <3>1. last \in Chain(h, last)
      BY <1>1, <2>1, <2>5, ChainFacts
    <3> QED BY <2>6, <3>1 DEF PassedTo
  <2>9. KeepsAcyclic(g, h)
    BY <1>3, <2>4 DEF KeepsAcyclic
  <2>10. \A m, n \in Nodes : HasEdge(h, m, n) <=> \/ HasEdge(g, m, n) \/ (m = f /\ n = t)
                                                  \/ (m = last /\ n = t)
    BY <1>2, <2>3 DEF OneMore
  <2> QED BY <1>1, <1>3, <2>1, <2>3, <2>4, <2>7, <2>8, <2>9, <2>10 DEF Added
<1> QED BY <1>4, <1>5, <1>6
-----------------------------------------------------------------------------
(***************************************************************************)
(* Asking for an edge.                                                     *)
(***************************************************************************)
\* The edges of g are in h, and no walk went on for ever.
Keeps(g, h) ==
    /\ h.endless = g.endless
    /\ \A m, n \in Nodes : HasEdge(g, m, n) => HasEdge(h, m, n)

LEMMA PassedMore ==
    ASSUME NEW g \in Graphs, NEW h, h.rmw = g.rmw, Keeps(g, h), NEW f \in Nodes, NEW t \in Nodes,
           PassedTo(g, f, t)
    PROVE  PassedTo(h, f, t)
<1>1. Chain(h, f) = Chain(g, f)
  BY SameChains
<1>2. Chain(g, f) \subseteq Nodes
  BY ChainFacts
<1> QED BY <1>1, <1>2 DEF PassedTo, Keeps

LEMMA PassedStays ==
    ASSUME NEW g \in Graphs, PassedOn(g), NEW f, NEW t, NEW h, Added(g, h, f, t)
    PROVE  PassedOn(h)
<1> SUFFICES ASSUME NEW m \in Nodes, NEW n \in Nodes, HasEdge(h, m, n) PROVE PassedTo(h, m, n)
  BY DEF PassedOn
<1>1. CASE HasEdge(g, m, n)
  <2>1. PassedTo(g, m, n) /\ h.rmw = g.rmw /\ Keeps(g, h)
    BY <1>1 DEF PassedOn, Added, Keeps
  <2> QED BY <2>1, PassedMore
<1>2. CASE ~HasEdge(g, m, n)
  BY <1>2 DEF Added
<1> QED BY <1>1, <1>2

LEMMA OrdersSame ==
    ASSUME NEW g, NEW h, h.edges = g.edges, h.rmw = g.rmw, h.cycles = g.cycles
    PROVE  /\ \A o, a, P : Orders(g, o, a, P) => Orders(h, o, a, P)
           /\ \A P : InitialFirst(g, P) => InitialFirst(h, P)
<1>1. \A m, n : HasEdge(h, m, n) <=> HasEdge(g, m, n)
  BY DEF HasEdge
<1>2. \A n : Chain(h, n) = Chain(g, n)
  BY SameChains
<1>3. \A f, t : PassedTo(g, f, t) => PassedTo(h, f, t)
  BY <1>1, <1>2 DEF PassedTo
<1>4. PassedOn(g) => PassedOn(h)
  BY <1>1, <1>3 DEF PassedOn
<1>5. Acyclic(g) => Acyclic(h)
  BY <1>1 DEF Acyclic, Ascends
<1>6. \A rank, P : Ranks(rank, g, P) => Ranks(rank, h, P)
  BY DEF Ranks
<1>7. ASSUME NEW o, NEW a, NEW P, Orders(g, o, a, P) PROVE Orders(h, o, a, P)
  BY <1>1, <1>4, <1>5, <1>6, <1>7 DEF Orders, Once, RMWEdges
<1> QED BY <1>1, <1>7 DEF InitialFirst

\* Nodes that nothing reads from.
LEMMA OrdersMore ==
    ASSUME NEW g, NEW o, NEW a, NEW P, Orders(g, o, a, P),
           NEW P2, \A n \in P2 \ P : g.rmw[n] = NULL
    PROVE  Orders(g, o, a, P2)
<1>1. \A rank : Ranks(rank, g, P) => Ranks(rank, g, P2)
  BY DEF Ranks
<1>2. Once(g, P2) /\ RMWEdges(g, P2)
  BY DEF Orders, Once, RMWEdges
<1> QED BY <1>1, <1>2 DEF Orders

LEMMA AskOrders ==
    ASSUME NEW g, WellFormed(g), NEW o, NEW a, NEW P \in SUBSET Nodes,
           Pairs(o, a, P), ClosedUp(g, P), Orders(g, o, a, P),
           NEW f \in P, NEW t \in P, f # t,
           NEW h, h = addNodeEdge(g, f, t), NEW o2, o2 = o \cup {<<f, t>>}
    PROVE  Orders(h, o2, a, P) /\ Keeps(g, h) /\ HasEdge(h, f, t)
<1>1. PICK rank : Ranks(rank, g, P)
  BY DEF Orders
<1>2. g \in Graphs /\ Ranked(g, P, rank) /\ f \in Nodes /\ t \in Nodes
  BY <1>1 DEF WellFormed, Ranked
<1>3. Arrives(g, f, t)
  BY <1>2, RankArrives
<1>4. Added(g, h, f, t)
  BY <1>2, <1>3, EdgeAdds
<1>5. PassedOn(h)
  BY <1>2, <1>4, PassedStays DEF Orders
<1>6. Keeps(g, h) /\ HasEdge(h, f, t) /\ h.rmw = g.rmw /\ KeepsAcyclic(g, h)
  BY <1>4 DEF Added, Keeps
<1>7. Ranks(rank, h, P)
  BY <1>1, <1>6 DEF Ranks
<1>8. Once(h, P) /\ RMWEdges(h, P)
  <2>1. \A n \in P : g.rmw[n] # NULL => g.rmw[n] \in Nodes /\ n \in Nodes
    BY DEF ClosedUp
  <2> QED BY <1>6, <2>1 DEF Orders, Once, RMWEdges, Keeps
<1>9. \A e \in o2 : HasEdge(h, e[1], e[2])
  <2>1. \A e \in o : e[1] \in Nodes /\ e[2] \in Nodes /\ HasEdge(g, e[1], e[2])
    BY DEF Pairs, Orders
  <2>2. \A e \in o : HasEdge(h, e[1], e[2])
    BY <1>6, <2>1 DEF Keeps
  <2> QED BY <1>6, <2>2
<1>10. h.cycles \/ Acyclic(h)
  BY <1>6 DEF KeepsAcyclic, Orders
<1>11. h.cycles \/ \A e \in a : h.rmw[e[1]] = e[2]
  BY <1>6 DEF KeepsAcyclic, Orders
<1> QED BY <1>5, <1>6, <1>7, <1>8, <1>9, <1>10, <1>11 DEF Orders

LEMMA BegunOrders ==
    ASSUME NEW P \in SUBSET Nodes, NEW n \in P, Initial \in P,
           NEW g, WellFormed(g), NEW o, NEW a, Pairs(o, a, P), ClosedUp(g, P),
           Orders(g, o, a, P), InitialFirst(g, P \ {n}),
           NEW h, h = Begun(g, n)
    PROVE  Orders(h, BegunOrder(o, n), a, P) /\ InitialFirst(h, P) /\ h.endless = g.endless
<1>1. CASE n = Initial
  BY <1>1 DEF Begun, BegunOrder, InitialFirst
<1>2. CASE n # Initial
  <2> DEFINE o2 == BegunOrder(o, n)
  <2>1. h = addNodeEdge(g, Initial, n) /\ o2 = o \cup {<<Initial, n>>}
    BY <1>2 DEF Begun, BegunOrder
  <2> HIDE DEF o2
  <2>2. Orders(h, o2, a, P) /\ Keeps(g, h) /\ HasEdge(h, Initial, n)
    BY <1>2, <2>1, AskOrders
  <2>3. Initial \in Nodes /\ P \subseteq Nodes
    BY NodeFacts
  <2>4. InitialFirst(h, P)
    BY <2>2, <2>3 DEF InitialFirst, Keeps
  <2> QED BY <2>2, <2>4 DEF o2, Keeps
<1> QED BY <1>1, <1>2
-----------------------------------------------------------------------------
(***************************************************************************)
(* addRMWEdge.                                                             *)
(***************************************************************************)
\* Graphs that differ in their edges and rollback vector alone.
Alike(g, h) == h.rmw = g.rmw /\ h.cycles = g.cycles /\ h.endless = g.endless

\* Graph k has an edge more, unless that is an edge from r to itself.
Given(h, k, r, e) ==
    \A m, n \in Nodes : HasEdge(k, m, n) <=> HasEdge(h, m, n) \/ (m = r /\ n = e /\ e # r)

LEMMA TransferRoundIs ==
    ASSUME NEW h, WellFormed(h), NEW r \in Nodes, NEW e \in Nodes,
           NEW k, k = TransferRound(h, e, r)
    PROVE  WellFormed(k) /\ Alike(h, k) /\ Given(h, k, r, e)
<1>1. CASE e = r \/ HasEdge(h, r, e)
  BY <1>1 DEF TransferRound, Alike, Given
<1>2. CASE e # r /\ ~HasEdge(h, r, e)
  <2> DEFINE l == Link(h, r, e)
  <2>1. WellFormed(l) /\ OneMore(h, l, r, e) /\ SameRest(h, l)
    BY <1>2, LinkFacts, Zenon
  <2>2. k = [l EXCEPT !.rollback = Append(l.rollback, r)]
    BY <1>2 DEF TransferRound
  <2> HIDE DEF l
  <2>3. l \in Graphs /\ Append(l.rollback, r) \in Seq(Nodes)
    BY <2>1, GraphFields DEF WellFormed
  <2>4. /\ k \in Graphs /\ k.edges = l.edges /\ k.back = l.back
        /\ k.rmw = l.rmw /\ k.cycles = l.cycles /\ k.endless = l.endless
    BY <2>2, <2>3 DEF Graphs
  <2>5. WellFormed(k)
    BY <2>1, <2>4 DEF WellFormed, HasEdge
  <2>6. \A m, n \in Nodes : HasEdge(k, m, n) <=> HasEdge(l, m, n)
    BY <2>4 DEF HasEdge
  <2> QED BY <1>2, <2>1, <2>4, <2>5, <2>6 DEF Alike, SameRest, OneMore, Given
<1> QED BY <1>1, <1>2

LEMMA TransferLoop ==
    ASSUME NEW g, NEW f, NEW r, NEW V, g \in V,
           NEW tos, tos = g.edges[f], NEW N \in Nat, N = Len(tos),
           \A k \in V, i \in 1..N : TransferRound(k, tos[i], r) \in V
    PROVE  \E u \in [0..N -> V] :
              /\ u[0] = g /\ u[N] = Transfer(g, f, r)
              /\ \A i \in 1..N : u[i] = TransferRound(u[i-1], tos[i], r)
<1> DEFINE F == [e \in (1..N) \X V |-> TransferRound(e[2], tos[e[1]], r)]
           upTo[i \in 0..N] ==
              IF i = 0 THEN g
              ELSE LET k == upTo[i-1]
                   IN  IF tos[i] = r \/ HasEdge(k, r, tos[i]) THEN k
                       ELSE [Link(k, r, tos[i]) EXCEPT !.rollback = Append(@, r)]
           Solves(u) == u = [i \in 0..N |->
              IF i = 0 THEN g
              ELSE LET k == u[i-1]
                   IN  IF tos[i] = r \/ HasEdge(k, r, tos[i]) THEN k
                       ELSE [Link(k, r, tos[i]) EXCEPT !.rollback = Append(@, r)]]
<1>1. F \in [(1..N) \X V -> V]
  OBVIOUS
<1>2. \E u : Iterates(u, V, g, N, F)
  <2> HIDE DEF F
  <2> QED BY <1>1, Iteration, Zenon
<1>3. PICK u \in [0..N -> V] : u[0] = g /\ \A i \in 1..N : u[i] = F[<<i, u[i-1]>>]
  <2> HIDE DEF F
  <2> QED BY <1>2 DEF Iterates
<1>4. ASSUME NEW i \in 0..N, i # 0
      PROVE  u[i] = TransferRound(u[i-1], tos[i], r)
  <2>1. i \in 1..N /\ i-1 \in 0..N
    BY <1>4
  <2>2. <<i, u[i-1]>> \in (1..N) \X V
    BY <1>3, <2>1
  <2> QED BY <1>3, <2>1, <2>2
<1>5. Solves(u)
  <2>1. u = [i \in 0..N |-> IF i = 0 THEN g ELSE TransferRound(u[i-1], tos[i], r)]
    BY <1>3, <1>4
  <2> QED BY <2>1 DEF TransferRound
<1>6. Solves(upTo)
  <2>1. upTo = CHOOSE v : Solves(v)
    OBVIOUS
  <2> HIDE DEF upTo, Solves
  <2> QED BY <1>5, <2>1
<1>7. Transfer(g, f, r) = upTo[N]
  BY DEF Transfer
<1> HIDE DEF upTo
<1>8. upTo[0] = g /\ DOMAIN upTo = 0..N /\ upTo = [i \in 0..N |-> upTo[i]]
  BY <1>6
<1>9. ASSUME NEW i \in 1..N PROVE upTo[i] = TransferRound(upTo[i-1], tos[i], r)
  <2>1. i \in 0..N /\ i # 0
    OBVIOUS
  <2> QED BY <1>6, <2>1 DEF TransferRound
<1> HIDE DEF Solves
<1> DEFINE A == {i \in 0..N : upTo[i] \in V}
<1>10. 0 \in A
  BY <1>8
<1>11. ASSUME NEW i \in 1..N, i-1 \in A PROVE i \in A
  BY <1>9, <1>11
<1>12. A = 0..N
  <2>1. A \in SUBSET (0..N)
    OBVIOUS
  <2> HIDE DEF A
  <2> QED BY <1>10, <1>11, <2>1, Induction
<1>13. upTo \in [0..N -> V]
  BY <1>8, <1>12
<1> QED BY <1>7, <1>8, <1>9, <1>13

\* The RMW r comes before all that f comes before.
Transferred(g, h, f, r) ==
    /\ WellFormed(h) /\ Alike(g, h)
    /\ \A m, n \in Nodes :
          HasEdge(h, m, n) <=> HasEdge(g, m, n) \/ (m = r /\ n # r /\ HasEdge(g, f, n))

LEMMA TransferIs ==
    ASSUME NEW g, WellFormed(g), NEW f \in Nodes, NEW r \in Nodes,
           NEW h, h = Transfer(g, f, r)
    PROVE  Transferred(g, h, f, r)
<1> DEFINE tos == g.edges[f]
           N == Len(tos)
           V == {k \in Graphs : WellFormed(k) /\ Alike(g, k)}
           Soon(i, n) == \E j \in 1..i : n = tos[j]
           With(k, i) == \A m, n \in Nodes :
              HasEdge(k, m, n) <=> HasEdge(g, m, n) \/ (m = r /\ n # r /\ Soon(i, n))
<1>1. tos \in Seq(Nodes) /\ N \in Nat /\ g \in V /\ \A i \in 1..N : tos[i] \in Nodes
  BY FieldFacts DEF Alike, WellFormed
<1>2. \A n : HasEdge(g, f, n) <=> Soon(N, n)
  BY <1>1 DEF HasEdge, ToSet
<1>3. tos = g.edges[f] /\ N = Len(tos)
  OBVIOUS
<1> HIDE DEF tos, N
<1>4. ASSUME NEW k \in V, NEW i \in 1..N PROVE TransferRound(k, tos[i], r) \in V
  <2> DEFINE l == TransferRound(k, tos[i], r)
  <2>0. l = TransferRound(k, tos[i], r) /\ tos[i] \in Nodes /\ WellFormed(k)
    BY <1>1
  <2> HIDE DEF l
  <2>1. WellFormed(l) /\ Alike(k, l)
    BY <2>0, TransferRoundIs
  <2>2. l \in V
    BY <2>1 DEF WellFormed, Alike
  <2> QED BY <2>2 DEF l
<1>5. PICK u \in [0..N -> V] :
          /\ u[0] = g /\ u[N] = h
          /\ \A i \in 1..N : u[i] = TransferRound(u[i-1], tos[i], r)
  <2> HIDE DEF V
  <2> QED BY <1>1, <1>3, <1>4, TransferLoop
<1> DEFINE A == {i \in 0..N : With(u[i], i)}
<1>6. 0 \in A
  BY <1>1, <1>5
<1>7. ASSUME NEW i \in 1..N, i-1 \in A PROVE i \in A
  <2>1. i-1 \in 0..N /\ i \in 0..N /\ u[i-1] \in V /\ tos[i] \in Nodes
    BY <1>1, <1>5
  <2>2. \A m, n \in Nodes :
           HasEdge(u[i], m, n) <=> HasEdge(u[i-1], m, n) \/ (m = r /\ n = tos[i] /\ tos[i] # r)
    <3> DEFINE k == u[i-1]
               l == u[i]
               e == tos[i]
    <3>1. WellFormed(k) /\ e \in Nodes /\ l = TransferRound(k, e, r)
      BY <1>5, <2>1
    <3> HIDE DEF k, l, e
    <3>2. Given(k, l, r, e)
      BY <3>1, TransferRoundIs
    <3> QED BY <3>2 DEF k, l, e, Given
  <2>3. \A n : Soon(i, n) <=> Soon(i-1, n) \/ n = tos[i]
    BY <1>1
  <2>4. With(u[i-1], i-1)
    BY <1>7
  <2> HIDE DEF Soon
  <2>5. With(u[i], i)
    BY <2>2, <2>3, <2>4
  <2> QED BY <2>1, <2>5
<1>8. A = 0..N
  <2>1. A \in SUBSET (0..N)
    OBVIOUS
  <2> HIDE DEF A
  <2> QED BY <1>1, <1>6, <1>7, <2>1, Induction
<1>9. N \in 0..N /\ h \in V
  BY <1>1, <1>5
<1>10. With(h, N)
  <2>1. N \in A /\ u[N] = h
    BY <1>5, <1>8, <1>9
  <2> QED BY <2>1
<1> HIDE DEF Soon
<1> QED BY <1>2, <1>9, <1>10 DEF Transferred

\* What setRMW makes of g.
Took(g, h, f, r) ==
    /\ WellFormed(h) /\ h.edges = g.edges /\ h.endless = g.endless
    /\ g.rmw[f] # NULL => h.rmw = g.rmw /\ h.cycles
    /\ g.rmw[f] = NULL => h.rmw = [g.rmw EXCEPT ![f] = r] /\ h.cycles = g.cycles

LEMMA TookFacts ==
    ASSUME NEW g, WellFormed(g), NEW f \in Nodes, NEW r \in 1..MaxWrites, NEW h, h = Taking(g, f, r)
    PROVE  Took(g, h, f, r)
<1>1. /\ g \in Graphs /\ g.rmw \in [Nodes -> 1..MaxWrites \cup {NULL}]
      /\ g.rmwRollback \in Seq(Nodes)
  BY GraphFields DEF WellFormed
<1>2. CASE g.rmw[f] # NULL
  <2>1. h = [g EXCEPT !.cycles = TRUE]
    BY <1>2 DEF Taking, TakenByAnother
  <2>2. /\ h \in Graphs /\ h.edges = g.edges /\ h.back = g.back /\ h.rmw = g.rmw
        /\ h.endless = g.endless /\ h.cycles
    BY <1>1, <2>1 DEF Graphs
  <2>3. WellFormed(h)
    BY <2>2 DEF WellFormed, HasEdge
  <2> QED BY <1>2, <2>2, <2>3 DEF Took
<1>3. CASE g.rmw[f] = NULL
  <2> DEFINE rmw == [g.rmw EXCEPT ![f] = r]
             log == Append(g.rmwRollback, f)
  <2>1. h = [g EXCEPT !.rmw = rmw, !.rmwRollback = log]
    BY <1>1, <1>3 DEF Taking, TakenByAnother, Graphs
  <2>2. rmw \in [Nodes -> 1..MaxWrites \cup {NULL}] /\ log \in Seq(Nodes)
    BY <1>1
  <2> HIDE DEF rmw, log
  <2>3. /\ h \in Graphs /\ h.edges = g.edges /\ h.back = g.back /\ h.rmw = rmw
        /\ h.endless = g.endless /\ h.cycles = g.cycles
    BY <1>1, <2>1, <2>2 DEF Graphs
  <2>4. WellFormed(h)
    BY <2>3 DEF WellFormed, HasEdge
  <2> QED BY <1>3, <2>3, <2>4 DEF Took, rmw
<1> QED BY <1>2, <1>3

\* Orders, but for the edge from f to its RMW r.
NearlyOrders(g, o, a, P, f, r) ==
    /\ WellFormed(g) /\ ClosedUp(g, P)
    /\ \E rank : Ranks(rank, g, P)
    /\ Once(g, P) /\ PassedOn(g)
    /\ \A n \in P : g.rmw[n] # NULL => HasEdge(g, n, g.rmw[n]) \/ (n = f /\ g.rmw[n] = r)
    /\ \A e \in o : HasEdge(g, e[1], e[2])
    /\ g.cycles \/ Acyclic(g)
    /\ g.cycles \/ \A e \in a : g.rmw[e[1]] = e[2]

LEMMA NearlyEnough ==
    ASSUME NEW P \in SUBSET Nodes, NEW o \in SUBSET (Nodes \X Nodes), NEW a,
           NEW f \in P, NEW r \in P, f # r,
           NEW g, NearlyOrders(g, o, a, P, f, r), NEW h, h = addNodeEdge(g, f, r)
    PROVE  Orders(h, o, a, P) /\ Keeps(g, h)
<1>1. PICK rank : Ranks(rank, g, P)
  BY DEF NearlyOrders
<1>2. g \in Graphs /\ WellFormed(g) /\ Ranked(g, P, rank) /\ f \in Nodes /\ r \in Nodes
  BY <1>1 DEF WellFormed, Ranked, NearlyOrders
<1>3. Arrives(g, f, r)
  BY <1>2, RankArrives
<1>4. Added(g, h, f, r)
  BY <1>2, <1>3, EdgeAdds
<1>5. PassedOn(h)
  BY <1>2, <1>4, PassedStays DEF NearlyOrders
<1>6. Keeps(g, h) /\ HasEdge(h, f, r) /\ h.rmw = g.rmw /\ KeepsAcyclic(g, h)
  BY <1>4 DEF Added, Keeps
<1>7. Ranks(rank, h, P)
  BY <1>1, <1>6 DEF Ranks
<1>8. Once(h, P) /\ RMWEdges(h, P)
  <2>1. \A n \in P : g.rmw[n] # NULL => g.rmw[n] \in Nodes /\ n \in Nodes
    BY DEF ClosedUp, NearlyOrders
  <2> QED BY <1>6, <2>1 DEF NearlyOrders, Once, RMWEdges, Keeps
<1>9. \A e \in o : HasEdge(h, e[1], e[2])
  BY <1>6 DEF NearlyOrders, Keeps
<1>10. h.cycles \/ Acyclic(h)
  BY <1>6 DEF KeepsAcyclic, NearlyOrders
<1>11. h.cycles \/ \A e \in a : h.rmw[e[1]] = e[2]
  BY <1>6 DEF KeepsAcyclic, NearlyOrders
<1> QED BY <1>5, <1>6, <1>7, <1>8, <1>9, <1>10, <1>11 DEF Orders

\* RMW r is new, and is to read from f.
MayRead(g, o, a, P, f, r) ==
    /\ P \in SUBSET Nodes /\ WellFormed(g) /\ Within(g, P) /\ ClosedUp(g, P)
    /\ Pairs(o, a, P) /\ Orders(g, o, a, P)
    /\ f \in P /\ r \in 1..MaxWrites /\ r \notin P /\ g.rmw[r] = NULL

LEMMA TransferNearly ==
    ASSUME NEW g, NEW o, NEW a, NEW P, NEW f, NEW r, MayRead(g, o, a, P, f, r),
           NEW l, l = Transfer(Taking(g, f, r), f, r)
    PROVE  NearlyOrders(l, o, a \cup {<<f, r>>}, P \cup {r}, f, r) /\ Keeps(g, l)
<1> DEFINE k == Taking(g, f, r)
           Q == P \cup {r}
           b == a \cup {<<f, r>>}
<1>0. /\ P \in SUBSET Nodes /\ WellFormed(g) /\ Within(g, P) /\ ClosedUp(g, P)
      /\ Pairs(o, a, P) /\ Orders(g, o, a, P) /\ g \in Graphs
      /\ f \in P /\ r \in 1..MaxWrites /\ r \notin P /\ g.rmw[r] = NULL
      /\ f \in Nodes /\ r \in Nodes /\ r # f /\ Q \in SUBSET Nodes /\ r # NULL
  BY NodeFacts DEF MayRead, WellFormed
<1>1. Took(g, k, f, r)
  BY <1>0, TookFacts
<1>2. Transferred(k, l, f, r)
  <2>1. WellFormed(k) /\ l = Transfer(k, f, r)
    BY <1>1 DEF Took
  <2> HIDE DEF k
  <2> QED BY <1>0, <2>1, TransferIs
<1>3. \A m, n : HasEdge(k, m, n) <=> HasEdge(g, m, n)
  BY <1>1 DEF Took, HasEdge
<1> HIDE DEF k
<1>4. /\ \A m, n \in Nodes : HasEdge(l, m, n) <=> HasEdge(g, m, n) \/ (m = r /\ HasEdge(g, f, n))
      /\ \A m, n \in Nodes : HasEdge(l, m, n) /\ m # r => HasEdge(g, m, n)
  BY <1>0, <1>2, <1>3 DEF Transferred, Within
<1>5. WellFormed(l) /\ l.rmw = k.rmw /\ l.cycles = k.cycles /\ l.endless = g.endless /\ l \in Graphs
  BY <1>1, <1>2 DEF Transferred, Alike, Took, WellFormed
<1>6. Keeps(g, l)
  BY <1>4, <1>5 DEF Keeps
<1>7. \A e \in o : HasEdge(l, e[1], e[2])
  <2>1. \A e \in o : e[1] \in Nodes /\ e[2] \in Nodes /\ HasEdge(g, e[1], e[2])
    BY <1>0 DEF Pairs, Orders
  <2> QED BY <1>6, <2>1 DEF Keeps
<1>8. PICK rank : Ranks(rank, g, P)
  BY <1>0 DEF Orders
<1>9. CASE g.rmw[f] # NULL
  <2>1. l.rmw = g.rmw /\ l.cycles
    BY <1>1, <1>5, <1>9 DEF Took
  <2>2. Ranks(rank, l, Q)
    BY <1>0, <1>8, <2>1 DEF Ranks
  <2>3. Once(l, Q) /\ ClosedUp(l, Q)
    BY <1>0, <2>1 DEF Orders, Once, ClosedUp
  <2>4. \A n \in Q : l.rmw[n] # NULL => HasEdge(l, n, l.rmw[n])
    <3>1. \A n \in P : g.rmw[n] # NULL => n \in Nodes /\ g.rmw[n] \in Nodes /\ HasEdge(g, n, g.rmw[n])
      BY <1>0 DEF ClosedUp, Orders, RMWEdges
    <3> QED BY <1>0, <1>6, <2>1, <3>1 DEF Keeps
  <2>5. PassedOn(l)
    <3> SUFFICES ASSUME NEW m \in Nodes, NEW n \in Nodes, HasEdge(l, m, n) PROVE PassedTo(l, m, n)
      BY DEF PassedOn
    <3>1. CASE m # r
      <4>1. PassedTo(g, m, n)
        BY <1>0, <1>4, <3>1 DEF PassedOn, Orders
      <4> QED BY <1>0, <1>6, <2>1, <4>1, PassedMore
    <3>2. CASE m = r
      <4>1. r \in Chain(l, r) /\ l.rmw[r] = NULL
        BY <1>0, <1>5, <2>1, ChainFacts
      <4> QED BY <3>2, <4>1 DEF PassedTo
    <3> QED BY <3>1, <3>2
  <2> HIDE DEF Q, b
  <2>6. NearlyOrders(l, o, b, Q, f, r)
    BY <1>5, <1>7, <2>1, <2>2, <2>3, <2>4, <2>5 DEF NearlyOrders
  <2> QED BY <1>6, <2>6 DEF Q, b
<1>10. CASE g.rmw[f] = NULL
  <2>1. l.rmw = [g.rmw EXCEPT ![f] = r] /\ l.cycles = g.cycles
    BY <1>1, <1>5, <1>10 DEF Took
  <2>2. /\ g.rmw \in [Nodes -> 1..MaxWrites \cup {NULL}]
        /\ l.rmw[f] = r /\ \A n \in Nodes : n # f => l.rmw[n] = g.rmw[n]
    BY <1>0, <2>1, GraphFields
  <2>3. \A n \in P : g.rmw[n] # NULL => /\ n \in Nodes /\ g.rmw[n] \in P /\ g.rmw[n] \in 1..MaxWrites
                                        /\ n # f /\ g.rmw[n] # r
    BY <1>0, <1>10 DEF ClosedUp
  <2> DEFINE up == [n \in Nodes |-> IF n = r THEN rank[f] + 1 ELSE rank[n]]
  <2>4. Ranks(up, l, Q)
    <3>1. \A n \in Nodes : rank[n] \in Int
      BY <1>8 DEF Ranks
    <3>2. up \in [Nodes -> Int]
      BY <1>0, <3>1
    <3>3. ASSUME NEW n \in Q, l.rmw[n] # NULL PROVE up[n] < up[l.rmw[n]]
      <4>1. CASE n = f
        BY <1>0, <2>2, <3>1, <4>1
      <4>2. CASE n # f
        <5>1. n \in P /\ l.rmw[n] = g.rmw[n] /\ n \in Nodes /\ n # r
          BY <1>0, <2>2, <3>3, <4>2
        <5>2. g.rmw[n] \in Nodes /\ g.rmw[n] # r /\ rank[n] < rank[g.rmw[n]]
          BY <1>0, <1>8, <2>3, <3>3, <5>1 DEF Ranks
        <5> QED BY <5>1, <5>2
      <4> QED BY <4>1, <4>2
    <3> HIDE DEF up
    <3> QED BY <3>2, <3>3 DEF Ranks
  <2>5. Once(l, Q) /\ ClosedUp(l, Q)
    BY <1>0, <2>2, <2>3 DEF Orders, Once, ClosedUp
  <2>6. \A n \in Q : l.rmw[n] # NULL => HasEdge(l, n, l.rmw[n]) \/ (n = f /\ l.rmw[n] = r)
    <3>1. \A n \in P : g.rmw[n] # NULL => n \in Nodes /\ g.rmw[n] \in Nodes /\ HasEdge(g, n, g.rmw[n])
      BY <1>0 DEF ClosedUp, Orders, RMWEdges
    <3> QED BY <1>0, <1>6, <2>2, <3>1 DEF Keeps
  <2>7. ASSUME NEW m \in Nodes PROVE Chain(g, m) \subseteq Chain(l, m)
    <3>1. /\ m \in Chain(l, m) /\ Chain(l, m) \in SUBSET Nodes
          /\ \A n \in Chain(l, m) : l.rmw[n] # NULL => l.rmw[n] \in Chain(l, m)
      BY <1>5, ChainFacts DEF ChainClosed
    <3>2. ChainClosed(g, Chain(l, m))
      BY <1>10, <2>2, <3>1 DEF ChainClosed
    <3> QED BY <1>0, <3>1, <3>2, ChainFacts
  <2>8. PassedOn(l)
    <3> SUFFICES ASSUME NEW m \in Nodes, NEW n \in Nodes, HasEdge(l, m, n) PROVE PassedTo(l, m, n)
      BY DEF PassedOn
    <3>1. CASE m = r
      <4>1. r \in Chain(l, r) /\ l.rmw[r] = NULL
        BY <1>0, <1>5, <2>2, ChainFacts
      <4> QED BY <3>1, <4>1 DEF PassedTo
    <3>2. CASE m # r
      <4>1. PassedTo(g, m, n)
        BY <1>0, <1>4, <3>2 DEF PassedOn, Orders
      <4>2. CASE n \in Chain(g, m)
        BY <2>7, <4>2 DEF PassedTo
      <4>3. ASSUME NEW e \in Chain(g, m), g.rmw[e] = NULL, HasEdge(g, e, n)
            PROVE  PassedTo(l, m, n)
        <5>1. e \in Nodes /\ e \in Chain(l, m)
          BY <1>0, <2>7, ChainFacts
        <5>2. CASE e # f
          <6>1. l.rmw[e] = NULL /\ HasEdge(l, e, n)
            BY <1>6, <2>2, <4>3, <5>1, <5>2 DEF Keeps
          <6> QED BY <5>1, <6>1 DEF PassedTo
        <5>3. CASE e = f
          <6>1. r \in Chain(l, m)
            BY <1>0, <1>5, <2>2, <5>1, <5>3, ChainFacts DEF ChainClosed
          <6>2. l.rmw[r] = NULL /\ HasEdge(l, r, n)
            BY <1>0, <1>4, <2>2, <4>3, <5>3
          <6> QED BY <6>1, <6>2 DEF PassedTo
        <5> QED BY <5>2, <5>3
      <4> QED BY <4>1, <4>2, <4>3 DEF PassedTo
    <3> QED BY <3>1, <3>2
  <2>9. l.cycles \/ Acyclic(l)
    <3> SUFFICES ASSUME NEW at \in [Nodes -> Int], Ascends(g, at) PROVE Acyclic(l)
      BY <1>0, <2>1 DEF Orders, Acyclic
    <3> DEFINE to == [n \in Nodes |-> IF n = r THEN at[f] ELSE at[n]]
    <3>1. to \in [Nodes -> Int]
      BY <1>0
    <3>2. ASSUME NEW m \in Nodes, NEW n \in Nodes, HasEdge(l, m, n) PROVE to[m] < to[n]
      <4>1. n # r
        BY <1>0, <1>4, <3>2 DEF Within
      <4>2. CASE HasEdge(g, m, n)
        <5>1. at[m] < at[n] /\ m # r
          BY <1>0, <4>2 DEF Within, Ascends
        <5> QED BY <4>1, <5>1
      <4>3. CASE m = r /\ HasEdge(g, f, n)
        <5>1. at[f] < at[n]
          BY <1>0, <4>3 DEF Ascends
        <5> QED BY <4>1, <4>3, <5>1
      <4> QED BY <1>4, <3>2, <4>2, <4>3
    <3> HIDE DEF to
    <3> QED BY <3>1, <3>2 DEF Acyclic, Ascends
  <2>10. l.cycles \/ \A e \in b : l.rmw[e[1]] = e[2]
    <3> SUFFICES ASSUME ~l.cycles, NEW e \in b PROVE l.rmw[e[1]] = e[2]
      OBVIOUS
    <3>1. CASE e = <<f, r>>
      BY <2>2, <3>1
    <3>2. CASE e \in a
      <4>1. g.rmw[e[1]] = e[2] /\ e[1] \in Nodes /\ e[2] # NULL
        BY <1>0, <2>1, <3>2, NodeFacts DEF Orders, Pairs
      <4> QED BY <1>10, <2>2, <4>1
    <3> QED BY <3>1, <3>2
  <2> HIDE DEF Q, b
  <2>11. NearlyOrders(l, o, b, Q, f, r)
    BY <1>5, <1>7, <2>4, <2>5, <2>6, <2>8, <2>9, <2>10 DEF NearlyOrders
  <2> QED BY <1>6, <2>11 DEF Q, b
<1> QED BY <1>9, <1>10

LEMMA RMWOrders ==
    ASSUME NEW g, NEW o, NEW a, NEW P, NEW f, NEW r, MayRead(g, o, a, P, f, r),
           NEW b, b = a \cup {<<f, r>>}, NEW Q, Q = P \cup {r},
           NEW h, h = addRMWEdge(g, f, r)
    PROVE  Orders(h, o, b, Q) /\ Keeps(g, h)
<1> DEFINE l == Transfer(Taking(g, f, r), f, r)
<1>1. /\ Q \in SUBSET Nodes /\ o \in SUBSET (Nodes \X Nodes)
      /\ f \in Q /\ r \in Q /\ f # r
  BY NodeFacts DEF MayRead, Pairs
<1>2. l = Transfer(Taking(g, f, r), f, r) /\ h = addNodeEdge(l, f, r)
  BY DEF addRMWEdge, Taking
<1> HIDE DEF l
<1>3. NearlyOrders(l, o, b, Q, f, r) /\ Keeps(g, l)
  BY <1>2, TransferNearly
<1>4. Orders(h, o, b, Q) /\ Keeps(l, h)
  BY <1>1, <1>2, <1>3, NearlyEnough
<1> QED BY <1>3, <1>4 DEF Keeps
-----------------------------------------------------------------------------
(***************************************************************************)
(* Resolving a promise without handing an RMW over.                        *)
(***************************************************************************)
\* Graph g before the merge of promise p into write w: if p has an RMW then
\* nothing comes after w yet.
MergesInto(g, w, p, P, rank) ==
    /\ WellFormed(g) /\ P \in SUBSET Nodes /\ Within(g, P) /\ Ranked(g, P, rank)
    /\ w \in P /\ w \in 1..MaxWrites /\ p \in P /\ p \notin 1..MaxWrites
    /\ g.rmw[w] = NULL
    /\ g.rmw[p] = NULL \/ \A n \in Nodes : ~HasEdge(g, w, n)
    /\ PassedOn(g)

\* Graph k during the merge.
Merged(k, g, w, p) ==
    /\ WellFormed(k) /\ k.rmw = TakenOver(g, w, p).rmw /\ k.endless = g.endless
    /\ KeepsAcyclic(g, k)
    /\ \A m, n \in Nodes \ {p} : HasEdge(g, m, n) => HasEdge(k, m, n)
    /\ \A n \in Nodes : /\ HasEdge(k, n, p) => HasEdge(g, n, p)
                        /\ HasEdge(k, p, n) => HasEdge(g, p, n)
    /\ \A n \in Nodes \ {w} : /\ HasEdge(g, n, p) => HasEdge(k, n, p) \/ HasEdge(k, n, w)
                              /\ HasEdge(g, p, n) => HasEdge(k, p, n) \/ HasEdge(k, w, n)
    /\ \A m, n \in Nodes \ {p} : HasEdge(k, m, n) => PassedTo(k, m, n)

LEMMA MergeNodeFacts ==
    ASSUME NEW g, NEW w, NEW p, NEW P, NEW rank, MergesInto(g, w, p, P, rank)
    PROVE  /\ g \in Graphs /\ w \in Nodes /\ p \in Nodes /\ w # p /\ P \subseteq Nodes
           /\ Ranked(g, P, rank) /\ TookOver(g, TakenOver(g, w, p), w, p)
           /\ WellFormed(g) /\ g.rmw[w] = NULL /\ PassedOn(g) /\ w \in P /\ p \in P
           /\ \A n \in P : g.rmw[n] # NULL => g.rmw[n] \in P /\ g.rmw[n] # p
           /\ \A n \in P : g.rmw[n] # NULL => rank[n] < rank[g.rmw[n]]
           /\ rank \in [Nodes -> Int]
<1>1. /\ g \in Graphs /\ w \in Nodes /\ p \in Nodes /\ w # p /\ P \subseteq Nodes
      /\ Ranked(g, P, rank) /\ WellFormed(g) /\ g.rmw[w] = NULL /\ PassedOn(g)
      /\ w \in P /\ p \in P /\ p \notin 1..MaxWrites
  BY DEF MergesInto, Ranked
<1>2. TookOver(g, TakenOver(g, w, p), w, p)
  BY <1>1, TakenOverFacts
<1>3. \A n \in P : g.rmw[n] # NULL => g.rmw[n] \in P /\ g.rmw[n] # p
  BY <1>1 DEF Ranked, ClosedUp
<1>4. /\ \A n \in P : g.rmw[n] # NULL => rank[n] < rank[g.rmw[n]]
      /\ rank \in [Nodes -> Int]
  BY <1>1 DEF Ranked, Ranks
<1> QED BY <1>1, <1>2, <1>3, <1>4

\* Whatever comes before p is on no chain that the walk to w leaves.
LEMMA ArrivesBefore ==
    ASSUME NEW g, NEW w, NEW p, NEW P, NEW rank, MergesInto(g, w, p, P, rank),
           NEW s, s = TakenOver(g, w, p), s \in Graphs, NEW e \in P, e # w
    PROVE  Arrives(s, e, w)
<1>1. TookOver(g, s, w, p) /\ w \in Nodes /\ P \in SUBSET Nodes
  BY MergeNodeFacts
<1>2. ASSUME NEW n \in P, n # w, s.rmw[n] # NULL
      PROVE  s.rmw[n] \in P /\ rank[n] < rank[s.rmw[n]]
  <2>1. s.rmw[n] = g.rmw[n]
    BY <1>1, <1>2 DEF TookOver
  <2> QED BY <1>2, <2>1, MergeNodeFacts
<1>3. rank \in [Nodes -> Int]
  BY MergeNodeFacts
<1>4. Walks(s, w, P, rank)
  BY <1>1, <1>2, <1>3 DEF Walks, Stops
<1>5. e \in Nodes /\ (s.rmw[e] # NULL => s.rmw[e] \in P)
  BY <1>1, <1>2
<1> QED BY <1>4, <1>5, WalkArrives

\* What comes after p is on the chain of p, or that chain does not lead to w.
LEMMA ArrivesAfter ==
    ASSUME NEW g, NEW w, NEW p, NEW P, NEW rank, MergesInto(g, w, p, P, rank),
           NEW s, s = TakenOver(g, w, p), s \in Graphs,
           NEW t \in P, t # w, HasEdge(g, p, t)
    PROVE  Arrives(s, w, t)
<1>1. /\ TookOver(g, s, w, p) /\ w \in Nodes /\ p \in Nodes /\ p # w /\ P \in SUBSET Nodes
      /\ g \in Graphs /\ Ranked(g, P, rank) /\ w \in P /\ p \in P /\ g.rmw[w] = NULL
      /\ rank \in [Nodes -> Int] /\ WellFormed(g)
  BY MergeNodeFacts
<1>2. CASE g.rmw[p] = NULL
  <2>1. s = g
    BY <1>2 DEF TakenOver
  <2> QED BY <1>1, <2>1, RankArrives
<1>3. CASE g.rmw[p] # NULL
  <2> DEFINE r == g.rmw[p]
  <2>1. s.rmw[w] = r /\ \A n \in Nodes : n # w => s.rmw[n] = g.rmw[n]
    BY <1>1, <1>3 DEF TookOver
  <2>2. r \in P /\ r \in Nodes /\ \A n \in Nodes : ~HasEdge(g, w, n)
    BY <1>1, <1>3, MergeNodeFacts DEF MergesInto
  <2>3. \A n \in P : g.rmw[n] # NULL => g.rmw[n] \in P /\ rank[n] < rank[g.rmw[n]]
    BY MergeNodeFacts
  <2> HIDE DEF r
  <2>4. ASSUME NEW e \in Chain(g, w) PROVE e = w
    BY <1>1, ChainFacts
  <2>5. CASE t \in Chain(g, r)
    <3> DEFINE S == {n \in P : t \in Chain(g, n)}
    <3>1. S \in SUBSET Nodes /\ r \in S
      BY <1>1, <2>2, <2>5
    <3>2. ASSUME NEW n \in S, n # t, s.rmw[n] # NULL
          PROVE  s.rmw[n] \in S /\ rank[n] < rank[s.rmw[n]]
      <4>1. n \in P /\ n \in Nodes /\ n # w
        BY <1>1, <2>4, <3>2
      <4>2. s.rmw[n] = g.rmw[n]
        BY <2>1, <4>1
      <4>3. t \in Chain(g, g.rmw[n])
        BY <1>1, <3>2, <4>1, ChainFacts
      <4> QED BY <2>3, <3>2, <4>1, <4>2, <4>3
    <3> HIDE DEF S
    <3>3. Walks(s, t, S, rank)
      BY <1>1, <3>1, <3>2 DEF Walks, Stops
    <3> QED BY <1>1, <2>1, <3>1, <3>3, WalkArrives
  <2>6. CASE t \notin Chain(g, r)
    <3> DEFINE S == Chain(g, r)
    <3>1. S \in SUBSET Nodes /\ r \in S /\ \A n \in S : n \in P
      BY <1>1, <2>2, ChainFacts, ChainClimbs
    <3>2. t \notin Chain(g, p)
      <4>1. t # p /\ t \in Nodes
        BY <1>1 DEF WellFormed
      <4> QED BY <1>1, <2>6, <4>1, ChainFacts DEF r
    <3>3. PICK e \in Chain(g, p) : g.rmw[e] = NULL /\ HasEdge(g, e, t)
      <4>1. PassedTo(g, p, t) /\ t \in Nodes
        BY <1>1, MergeNodeFacts DEF PassedOn
      <4> QED BY <3>2, <4>1 DEF PassedTo
    <3>4. w \notin S
      <4> SUFFICES ASSUME w \in S PROVE FALSE
        OBVIOUS
      <4>1. w \in Chain(g, p)
        BY <1>1, <1>3, ChainFacts DEF ChainClosed, r
      <4>2. e \in Nodes /\ e # w /\ t \in Nodes
        BY <1>1, <2>2, <3>3, ChainFacts
      <4>3. e \in Chain(g, w) \/ w \in Chain(g, e)
        BY <1>1, <3>3, <4>1, ChainLinear
      <4> QED BY <1>1, <2>4, <3>3, <4>2, <4>3, ChainFacts
    <3>5. ASSUME NEW n \in S, s.rmw[n] # NULL
          PROVE  s.rmw[n] \in S /\ rank[n] < rank[s.rmw[n]]
      <4>1. n \in P /\ n \in Nodes /\ n # w
        BY <3>1, <3>4, <3>5
      <4>2. s.rmw[n] = g.rmw[n]
        BY <2>1, <4>1
      <4>3. g.rmw[n] \in S
        BY <1>1, <2>2, <3>5, <4>2, ChainFacts DEF ChainClosed
      <4> QED BY <2>3, <3>5, <4>1, <4>2, <4>3
    <3> HIDE DEF S
    <3>6. Walks(s, t, S, rank)
      BY <1>1, <3>1, <3>5 DEF Walks, Stops
    <3> QED BY <1>1, <2>1, <3>1, <3>6, WalkArrives
  <2> QED BY <2>5, <2>6
<1> QED BY <1>2, <1>3

LEMMA ArrivesSame ==
    ASSUME NEW s, NEW k, k.rmw = s.rmw, NEW f, NEW t, Arrives(s, f, t)
    PROVE  Arrives(k, f, t)
<1>1. Chain(k, f) = Chain(s, f)
  BY SameChains
<1>2. ChainEnd(k, f, t) = ChainEnd(s, f, t)
  BY DEF ChainEnd
<1> QED BY <1>1, <1>2 DEF Arrives, Stops

\* Only writes are RMWs.
LEMMA ChainAvoids ==
    ASSUME NEW g \in Graphs, NEW p, p \notin 1..MaxWrites, NEW m \in Nodes, m # p
    PROVE  p \notin Chain(g, m)
<1>1. ChainClosed(g, Nodes \ {p})
  BY RMWNode DEF ChainClosed
<1> QED BY <1>1, ChainFacts

LEMMA MergeBegins ==
    ASSUME NEW g, NEW w, NEW p, NEW P, NEW rank, MergesInto(g, w, p, P, rank),
           NEW s, s = TakenOver(g, w, p)
    PROVE  Merged(s, g, w, p)
<1>1. /\ TookOver(g, s, w, p) /\ w \in Nodes /\ p \in Nodes /\ p # w
      /\ g \in Graphs /\ g.rmw[w] = NULL /\ WellFormed(g) /\ PassedOn(g)
  BY MergeNodeFacts
<1>2. WellFormed(s) /\ s \in Graphs /\ s.cycles = g.cycles
  BY <1>1 DEF TookOver, WellFormed
<1>3. s.endless = g.endless
  BY <1>1 DEF TakenOver, Graphs
<1>4. \A m, n : HasEdge(s, m, n) <=> HasEdge(g, m, n)
  BY <1>1 DEF TookOver, HasEdge
<1>5. KeepsAcyclic(g, s)
  BY <1>2, <1>4 DEF KeepsAcyclic, Acyclic, Ascends
<1>6. ASSUME NEW m \in Nodes \ {p}, NEW n \in Nodes \ {p}, HasEdge(s, m, n)
      PROVE  PassedTo(s, m, n)
  <2>1. PassedTo(g, m, n)
    BY <1>1, <1>4, <1>6 DEF PassedOn
  <2>2. CASE g.rmw[p] = NULL
    BY <2>1, <2>2 DEF TakenOver
  <2>3. CASE g.rmw[p] # NULL
    <3>1. /\ \A x \in Nodes : ~HasEdge(g, w, x)
          /\ \A x \in Nodes : x # w => s.rmw[x] = g.rmw[x]
      BY <1>1, <2>3 DEF MergesInto, TookOver
    <3>2. Chain(g, m) \subseteq Chain(s, m)
      <4>1. /\ m \in Chain(s, m) /\ Chain(s, m) \in SUBSET Nodes
            /\ \A x \in Chain(s, m) : s.rmw[x] # NULL => s.rmw[x] \in Chain(s, m)
        BY <1>2, ChainFacts DEF ChainClosed
      <4>2. ChainClosed(g, Chain(s, m))
        BY <1>1, <3>1, <4>1 DEF ChainClosed
      <4> QED BY <1>1, <4>1, <4>2, ChainFacts
    <3>3. \A e \in Chain(g, m) : e \in Nodes
      BY <1>1, ChainFacts
    <3> QED BY <1>4, <2>1, <3>1, <3>2, <3>3 DEF PassedTo
  <2> QED BY <2>2, <2>3
<1> QED BY <1>2, <1>3, <1>4, <1>5, <1>6 DEF Merged

\* The edge from f to t, one of them being p, is given to w instead, unless it
\* then leads from w to itself.
MovedEdge(k, f, t, w, p, h) ==
    LET x == As(f, p, w)
        y == As(t, p, w)
        cut == Unlink(k, f, t)
    IN  h = IF x = y THEN cut ELSE addNodeEdge(cut, x, y)

LEMMA MoveKeeps ==
    ASSUME NEW g, NEW w, NEW p, NEW P, NEW rank, MergesInto(g, w, p, P, rank),
           NEW k, Merged(k, g, w, p), NEW f \in Nodes, NEW t \in Nodes, f = p \/ t = p,
           HasEdge(g, f, t), NEW h, MovedEdge(k, f, t, w, p, h)
    PROVE  Merged(h, g, w, p)
<1> DEFINE x == As(f, p, w)
           y == As(t, p, w)
           cut == Unlink(k, f, t)
           s == TakenOver(g, w, p)
<1>1. /\ w \in Nodes /\ p \in Nodes /\ p # w /\ P \in SUBSET Nodes /\ w \in P /\ p \in P
      /\ g \in Graphs /\ WellFormed(g) /\ TookOver(g, s, w, p) /\ p \notin 1..MaxWrites
  BY MergeNodeFacts DEF MergesInto
<1>2. f # t /\ f \in P /\ t \in P /\ (f = p => t # p)
  BY <1>1 DEF WellFormed, MergesInto, Within
<1>3. x \in P /\ y \in P /\ x # p /\ y # p /\ x \in Nodes /\ y \in Nodes
  BY <1>1, <1>2 DEF As
<1>4. WellFormed(k) /\ k.rmw = s.rmw
  BY DEF Merged
<1>5. WellFormed(cut) /\ SameRest(k, cut) /\ OneLess(k, cut, f, t)
  BY <1>4, UnlinkFacts
<1>6. x # y => Arrives(s, x, y)
  <2>1. s \in Graphs
    BY <1>1 DEF TookOver, WellFormed
  <2>2. CASE f = p
    <3>1. x = w /\ y = t
      BY <1>2, <2>2 DEF As
    <3> QED BY <1>2, <2>1, <2>2, <3>1, ArrivesAfter
  <2>3. CASE t = p
    <3>1. x = f /\ y = w
      BY <1>2, <2>3 DEF As
    <3> QED BY <1>2, <2>1, <3>1, ArrivesBefore
  <2> QED BY <2>2, <2>3
<1>7. KeepsAcyclic(k, cut)
  BY <1>5 DEF KeepsAcyclic, Acyclic, Ascends, OneLess, SameRest
<1>8. x # y => h = addNodeEdge(cut, x, y)
  BY DEF MovedEdge
<1>9. x = y => h = cut
  BY DEF MovedEdge
<1>10. HasEdge(k, f, t) \/ f \in Nodes
  OBVIOUS
<1>11. (t = p => x = f /\ y = w) /\ (f = p => x = w /\ y = t)
  BY <1>2 DEF As
<1>12. cut \in Graphs /\ cut.rmw = s.rmw /\ cut.endless = k.endless
  BY <1>4, <1>5 DEF WellFormed, SameRest
<1> HIDE DEF x, y, cut, s
<1>13. CASE x = y
  <2>1. \A m, n \in Nodes \ {p} : HasEdge(k, m, n) <=> HasEdge(cut, m, n)
    BY <1>5 DEF OneLess
  <2>2. \A m, n \in Nodes \ {p} : HasEdge(cut, m, n) => PassedTo(cut, m, n)
    <3> SUFFICES ASSUME NEW m \in Nodes \ {p}, NEW n \in Nodes \ {p}, HasEdge(cut, m, n)
                 PROVE  PassedTo(cut, m, n)
      OBVIOUS
    <3>1. PassedTo(k, m, n)
      BY <2>1 DEF Merged
    <3>2. Chain(cut, m) = Chain(k, m)
      BY <1>4, <1>12, SameChains
    <3>3. \A e \in Chain(k, m) : e \in Nodes \ {p}
      BY <1>1, <1>12, <3>2, ChainFacts, ChainAvoids
    <3> QED BY <1>4, <1>12, <2>1, <3>1, <3>2, <3>3 DEF PassedTo
  <2>3. KeepsAcyclic(g, cut)
    BY <1>7 DEF KeepsAcyclic, Merged
  <2>4. \A n \in Nodes : /\ HasEdge(cut, n, p) => HasEdge(g, n, p)
                         /\ HasEdge(cut, p, n) => HasEdge(g, p, n)
    BY <1>1, <1>5 DEF Merged, OneLess
  <2>5. \A n \in Nodes \ {w} :
           /\ HasEdge(g, n, p) => HasEdge(cut, n, p) \/ HasEdge(cut, n, w)
           /\ HasEdge(g, p, n) => HasEdge(cut, p, n) \/ HasEdge(cut, w, n)
    <3>1. (f = p /\ t = w) \/ (t = p /\ f = w)
      BY <1>2, <1>11, <1>13
    <3>2. \A m, n \in Nodes : HasEdge(k, m, n) /\ (m # w \/ n # p) /\ (m # p \/ n # w) => HasEdge(cut, m, n)
      BY <1>5, <3>1 DEF OneLess
    <3>3. ~HasEdge(g, p, p)
      BY <1>1 DEF WellFormed
    <3>4. \A n \in Nodes \ {w} :
             /\ HasEdge(g, n, p) => HasEdge(k, n, p) \/ HasEdge(k, n, w)
             /\ HasEdge(g, p, n) => HasEdge(k, p, n) \/ HasEdge(k, w, n)
      BY DEF Merged
    <3> QED BY <1>1, <3>2, <3>3, <3>4
  <2>6. \A m, n \in Nodes \ {p} : HasEdge(g, m, n) => HasEdge(cut, m, n)
    BY <2>1 DEF Merged
  <2> QED BY <1>5, <1>9, <1>12, <1>13, <2>2, <2>3, <2>4, <2>5, <2>6 DEF Merged, s
<1>14. CASE x # y
  <2>1. Arrives(cut, x, y)
    BY <1>6, <1>12, <1>14, ArrivesSame
  <2>2. Added(cut, h, x, y)
    BY <1>3, <1>5, <1>8, <1>14, <2>1, EdgeAdds
  <2>3. /\ WellFormed(h) /\ h.rmw = s.rmw /\ h.endless = k.endless /\ KeepsAcyclic(cut, h)
        /\ HasEdge(h, x, y)
        /\ \A m, n \in Nodes : HasEdge(cut, m, n) => HasEdge(h, m, n)
        /\ \A m, n \in Nodes : HasEdge(h, m, n) =>
              HasEdge(cut, m, n) \/ (n = y /\ m \in Chain(cut, x) /\ PassedTo(h, m, n))
    BY <1>12, <2>2 DEF Added
  <2>4. p \notin Chain(cut, x)
    BY <1>1, <1>3, <1>12, ChainAvoids
  <2>5. \A m, n \in Nodes \ {p} : HasEdge(k, m, n) <=> HasEdge(cut, m, n)
    BY <1>5 DEF OneLess
  <2>6. \A m, n \in Nodes \ {p} : HasEdge(h, m, n) => PassedTo(h, m, n)
    <3> SUFFICES ASSUME NEW m \in Nodes \ {p}, NEW n \in Nodes \ {p}, HasEdge(cut, m, n)
                 PROVE  PassedTo(h, m, n)
      BY <2>3
    <3>1. PassedTo(k, m, n)
      BY <2>5 DEF Merged
    <3>2. Chain(h, m) = Chain(k, m) /\ Chain(cut, m) = Chain(k, m)
      BY <1>4, <1>12, <2>3, SameChains
    <3>3. \A e \in Chain(k, m) : e \in Nodes \ {p}
      BY <1>1, <1>12, <3>2, ChainFacts, ChainAvoids
    <3> QED BY <1>4, <2>3, <2>5, <3>1, <3>2, <3>3 DEF PassedTo
  <2>7. KeepsAcyclic(g, h)
    BY <1>7, <2>3 DEF KeepsAcyclic, Merged
  <2>8. \A n \in Nodes : /\ HasEdge(h, n, p) => HasEdge(g, n, p)
                         /\ HasEdge(h, p, n) => HasEdge(g, p, n)
    BY <1>1, <1>3, <1>5, <2>3, <2>4 DEF Merged, OneLess
  <2>9. \A n \in Nodes \ {w} :
           /\ HasEdge(g, n, p) => HasEdge(h, n, p) \/ HasEdge(h, n, w)
           /\ HasEdge(g, p, n) => HasEdge(h, p, n) \/ HasEdge(h, w, n)
    <3>1. \A m, n \in Nodes : HasEdge(k, m, n) /\ ~(m = f /\ n = t) => HasEdge(h, m, n)
      BY <1>5, <2>3 DEF OneLess
    <3>2. ~HasEdge(g, p, p)
      BY <1>1 DEF WellFormed
    <3>3. \A n \in Nodes \ {w} :
             /\ HasEdge(g, n, p) => HasEdge(k, n, p) \/ HasEdge(k, n, w)
             /\ HasEdge(g, p, n) => HasEdge(k, p, n) \/ HasEdge(k, w, n)
      BY DEF Merged
    <3> QED BY <1>1, <1>11, <2>3, <3>1, <3>2, <3>3
  <2>10. \A m, n \in Nodes \ {p} : HasEdge(g, m, n) => HasEdge(h, m, n)
    BY <2>3, <2>5 DEF Merged
  <2>11. h.endless = g.endless
    BY <2>3 DEF Merged
  <2> QED BY <2>3, <2>6, <2>7, <2>8, <2>9, <2>10, <2>11 DEF Merged, s
<1> QED BY <1>13, <1>14

LEMMA BackLoop ==
    ASSUME NEW start, NEW w, NEW p \in Nodes, NEW V, start \in V, WellFormed(start.graph),
           \A x \in V, e \in Nodes : HasEdge(start.graph, e, p) => BackRound(x, e, w, p) \in V
    PROVE  MoveBack(start, w, p) \in V
<1> DEFINE es == Reverse(start.graph.back[p])
           N == Len(es)
           Round(x, e) == BackRound(x, e, w, p)
           F == [e \in (1..N) \X V |-> Round(e[2], es[e[1]])]
           upTo[i \in 0..N] ==
              IF i = 0 THEN start
              ELSE LET done == upTo[i-1]
                       cut == Unlink(done.graph, es[i], p)
                   IN  IF ~done.ok THEN done
                       ELSE IF es[i] = w THEN [graph |-> cut, ok |-> TRUE]
                       ELSE Checked(addNodeEdge(cut, es[i], w))
           Solves(u) == u = [i \in 0..N |->
              IF i = 0 THEN start
              ELSE LET done == u[i-1]
                       cut == Unlink(done.graph, es[i], p)
                   IN  IF ~done.ok THEN done
                       ELSE IF es[i] = w THEN [graph |-> cut, ok |-> TRUE]
                       ELSE Checked(addNodeEdge(cut, es[i], w))]
<1>1. es \in Seq(Nodes) /\ N \in Nat /\ ToSet(es) = ToSet(start.graph.back[p])
  <2>1. start.graph.back[p] \in Seq(Nodes)
    BY FieldFacts
  <2>2. es \in Seq(Nodes) /\ ToSet(es) = ToSet(start.graph.back[p])
    BY <2>1, ReverseFacts
  <2> QED BY <2>2
<1>2. ASSUME NEW i \in 1..N PROVE es[i] \in Nodes /\ HasEdge(start.graph, es[i], p)
  <2>1. es[i] \in Nodes /\ es[i] \in ToSet(es)
    BY <1>1 DEF ToSet
  <2> HIDE DEF es
  <2> QED BY <1>1, <2>1 DEF WellFormed, HasEdge
<1>3. MoveBack(start, w, p) = upTo[N]
  BY DEF MoveBack
<1> HIDE DEF es, N
<1>4. ASSUME NEW x \in V, NEW i \in 1..N PROVE Round(x, es[i]) \in V
  <2> DEFINE e == es[i]
  <2>1. e \in Nodes /\ HasEdge(start.graph, e, p)
    BY <1>2
  <2> HIDE DEF e
  <2>2. BackRound(x, e, w, p) \in V
    BY <2>1
  <2> QED BY <2>2 DEF e
<1>5. F \in [(1..N) \X V -> V]
  <2> HIDE DEF Round
  <2> QED BY <1>4
<1>6. \E u : Iterates(u, V, start, N, F)
  <2> HIDE DEF F
  <2> QED BY <1>1, <1>5, Iteration, Zenon
<1>7. PICK u \in [0..N -> V] : u[0] = start /\ \A i \in 1..N : u[i] = F[<<i, u[i-1]>>]
  <2> HIDE DEF F
  <2> QED BY <1>6 DEF Iterates
<1>8. Solves(u)
  <2>1. ASSUME NEW i \in 0..N, i # 0
        PROVE  u[i] = Round(u[i-1], es[i])
    <3>1. i \in 1..N /\ i-1 \in 0..N
      BY <1>1, <2>1
    <3> HIDE DEF Round
    <3>2. <<i, u[i-1]>> \in (1..N) \X V
      BY <1>7, <3>1
    <3> QED BY <1>7, <3>1, <3>2
  <2>2. u = [i \in 0..N |-> IF i = 0 THEN start ELSE Round(u[i-1], es[i])]
    <3> HIDE DEF Round
    <3> QED BY <1>7, <2>1
  <2> QED BY <2>2 DEF BackRound
<1>9. Solves(upTo)
  <2>1. upTo = CHOOSE v : Solves(v)
    OBVIOUS
  <2> HIDE DEF upTo, Solves
  <2> QED BY <1>8, <2>1
<1> HIDE DEF upTo
<1>10. upTo[0] = start
  BY <1>1, <1>9
<1>11. ASSUME NEW i \in 1..N PROVE upTo[i] = Round(upTo[i-1], es[i])
  <2>1. i \in 0..N /\ i # 0
    BY <1>1
  <2> QED BY <1>9, <2>1 DEF BackRound
<1> HIDE DEF Solves
<1> DEFINE A == {i \in 0..N : upTo[i] \in V}
<1>12. 0 \in A
  BY <1>1, <1>10
<1>13. ASSUME NEW i \in 1..N, i-1 \in A PROVE i \in A
  <2>1. i \in 0..N /\ upTo[i-1] \in V
    BY <1>1, <1>13
  <2> HIDE DEF Round
  <2> QED BY <1>4, <1>11, <2>1
<1>14. A = 0..N
  <2>1. A \in SUBSET (0..N)
    OBVIOUS
  <2> HIDE DEF A
  <2> QED BY <1>1, <1>12, <1>13, <2>1, Induction
<1> QED BY <1>1, <1>3, <1>14

LEMMA ForwardLoop ==
    ASSUME NEW start, NEW w, NEW p \in Nodes, NEW V, start \in V, WellFormed(start.graph),
           \A x \in V, e \in Nodes : HasEdge(start.graph, p, e) => ForwardRound(x, e, w, p) \in V
    PROVE  MoveForward(start, w, p) \in V
<1> DEFINE es == Reverse(start.graph.edges[p])
           N == Len(es)
           Round(x, e) == ForwardRound(x, e, w, p)
           F == [e \in (1..N) \X V |-> Round(e[2], es[e[1]])]
           upTo[i \in 0..N] ==
              IF i = 0 THEN start
              ELSE LET done == upTo[i-1]
                       cut == Unlink(done.graph, p, es[i])
                   IN  IF ~done.ok THEN done
                       ELSE IF es[i] = w THEN [graph |-> cut, ok |-> TRUE]
                       ELSE Checked(addNodeEdge(cut, w, es[i]))
           Solves(u) == u = [i \in 0..N |->
              IF i = 0 THEN start
              ELSE LET done == u[i-1]
                       cut == Unlink(done.graph, p, es[i])
                   IN  IF ~done.ok THEN done
                       ELSE IF es[i] = w THEN [graph |-> cut, ok |-> TRUE]
                       ELSE Checked(addNodeEdge(cut, w, es[i]))]
<1>1. es \in Seq(Nodes) /\ N \in Nat /\ ToSet(es) = ToSet(start.graph.edges[p])
  <2>1. start.graph.edges[p] \in Seq(Nodes)
    BY FieldFacts
  <2>2. es \in Seq(Nodes) /\ ToSet(es) = ToSet(start.graph.edges[p])
    BY <2>1, ReverseFacts
  <2> QED BY <2>2
<1>2. ASSUME NEW i \in 1..N PROVE es[i] \in Nodes /\ HasEdge(start.graph, p, es[i])
  <2>1. es[i] \in Nodes /\ es[i] \in ToSet(es)
    BY <1>1 DEF ToSet
  <2> HIDE DEF es
  <2> QED BY <1>1, <2>1 DEF WellFormed, HasEdge
<1>3. MoveForward(start, w, p) = upTo[N]
  BY DEF MoveForward
<1> HIDE DEF es, N
<1>4. ASSUME NEW x \in V, NEW i \in 1..N PROVE Round(x, es[i]) \in V
  <2> DEFINE e == es[i]
  <2>1. e \in Nodes /\ HasEdge(start.graph, p, e)
    BY <1>2
  <2> HIDE DEF e
  <2>2. ForwardRound(x, e, w, p) \in V
    BY <2>1
  <2> QED BY <2>2 DEF e
<1>5. F \in [(1..N) \X V -> V]
  <2> HIDE DEF Round
  <2> QED BY <1>4
<1>6. \E u : Iterates(u, V, start, N, F)
  <2> HIDE DEF F
  <2> QED BY <1>1, <1>5, Iteration, Zenon
<1>7. PICK u \in [0..N -> V] : u[0] = start /\ \A i \in 1..N : u[i] = F[<<i, u[i-1]>>]
  <2> HIDE DEF F
  <2> QED BY <1>6 DEF Iterates
<1>8. Solves(u)
  <2>1. ASSUME NEW i \in 0..N, i # 0
        PROVE  u[i] = Round(u[i-1], es[i])
    <3>1. i \in 1..N /\ i-1 \in 0..N
      BY <1>1, <2>1
    <3> HIDE DEF Round
    <3>2. <<i, u[i-1]>> \in (1..N) \X V
      BY <1>7, <3>1
    <3> QED BY <1>7, <3>1, <3>2
  <2>2. u = [i \in 0..N |-> IF i = 0 THEN start ELSE Round(u[i-1], es[i])]
    <3> HIDE DEF Round
    <3> QED BY <1>7, <2>1
  <2> QED BY <2>2 DEF ForwardRound
<1>9. Solves(upTo)
  <2>1. upTo = CHOOSE v : Solves(v)
    OBVIOUS
  <2> HIDE DEF upTo, Solves
  <2> QED BY <1>8, <2>1
<1> HIDE DEF upTo
<1>10. upTo[0] = start
  BY <1>1, <1>9
<1>11. ASSUME NEW i \in 1..N PROVE upTo[i] = Round(upTo[i-1], es[i])
  <2>1. i \in 0..N /\ i # 0
    BY <1>1
  <2> QED BY <1>9, <2>1 DEF ForwardRound
<1> HIDE DEF Solves
<1> DEFINE A == {i \in 0..N : upTo[i] \in V}
<1>12. 0 \in A
  BY <1>1, <1>10
<1>13. ASSUME NEW i \in 1..N, i-1 \in A PROVE i \in A
  <2>1. i \in 0..N /\ upTo[i-1] \in V
    BY <1>1, <1>13
  <2> HIDE DEF Round
  <2> QED BY <1>4, <1>11, <2>1
<1>14. A = 0..N
  <2>1. A \in SUBSET (0..N)
    OBVIOUS
  <2> HIDE DEF A
  <2> QED BY <1>1, <1>12, <1>13, <2>1, Induction
<1> QED BY <1>1, <1>3, <1>14

LEMMA MergeOrders ==
    ASSUME NEW g, NEW w, NEW p, NEW P, NEW rank, MergesInto(g, w, p, P, rank),
           NEW y, y = mergeNodes(g, w, p)
    PROVE  Merged(y.graph, g, w, p) /\ (y.ok => ~y.graph.cycles)
<1> DEFINE V == {x \in [graph : Graphs, ok : BOOLEAN] : Merged(x.graph, g, w, p)}
           s == TakenOver(g, w, p)
           start == [graph |-> s, ok |-> TRUE]
           middle == MoveBack(start, w, p)
           end == MoveForward(middle, w, p)
<1>1. w \in Nodes /\ p \in Nodes /\ p # w /\ g.rmw[w] = NULL
  BY MergeNodeFacts
<1>2. Merged(s, g, w, p)
  BY MergeBegins
<1>3. (y.graph = end.graph /\ (y.ok => ~end.graph.cycles)) \/ end \notin V
  <2>1. ~TakenByAnother(g, w)
    BY <1>1 DEF TakenByAnother
  <2>2. y = [end EXCEPT !.ok = @ /\ ~end.graph.cycles]
    BY <2>1 DEF mergeNodes, TakenOver
  <2> HIDE DEF end
  <2> QED BY <2>2
<1>4. start \in V
  <2>1. s \in Graphs
    BY <1>2 DEF Merged, WellFormed
  <2> HIDE DEF s
  <2> QED BY <1>2, <2>1
<1> HIDE DEF s, start
<1>5. ASSUME NEW k, Merged(k, g, w, p), NEW f \in Nodes, NEW t \in Nodes,
             f = p \/ t = p, HasEdge(g, f, t), NEW h, MovedEdge(k, f, t, w, p, h)
      PROVE  Merged(h, g, w, p) /\ h \in Graphs /\ h.cycles \in BOOLEAN
  <2>1. Merged(h, g, w, p)
    BY <1>5, MoveKeeps
  <2> QED BY <2>1, GraphFields DEF Merged, WellFormed
<1>6. ASSUME NEW x \in V, NEW e \in Nodes, HasEdge(g, e, p)
      PROVE  BackRound(x, e, w, p) \in V
  <2> DEFINE k == x.graph
             cut == Unlink(k, e, p)
             more == addNodeEdge(cut, e, w)
  <2>1. Merged(k, g, w, p) /\ e # p
    <3>1. WellFormed(g)
      BY MergeNodeFacts
    <3> QED BY <1>1, <1>6, <3>1 DEF WellFormed
  <2>2. e = w => MovedEdge(k, e, p, w, p, cut)
    BY <1>1 DEF MovedEdge, As
  <2>3. e # w => MovedEdge(k, e, p, w, p, more)
    BY <1>1, <2>1 DEF MovedEdge, As
  <2> HIDE DEF cut, more, k
  <2>4. e = w => Merged(cut, g, w, p) /\ cut \in Graphs
    BY <1>1, <1>5, <1>6, <2>1, <2>2
  <2>5. e # w => Merged(more, g, w, p) /\ more \in Graphs /\ more.cycles \in BOOLEAN
    BY <1>1, <1>5, <1>6, <2>1, <2>3
  <2>6. BackRound(x, e, w, p) = IF ~x.ok THEN x
                                ELSE IF e = w THEN [graph |-> cut, ok |-> TRUE]
                                ELSE [graph |-> more, ok |-> ~more.cycles]
    BY DEF BackRound, Checked, cut, more, k
  <2> QED BY <2>4, <2>5, <2>6
<1>7. ASSUME NEW x \in V, NEW e \in Nodes, HasEdge(g, p, e)
      PROVE  ForwardRound(x, e, w, p) \in V
  <2> DEFINE k == x.graph
             cut == Unlink(k, p, e)
             more == addNodeEdge(cut, w, e)
  <2>1. Merged(k, g, w, p) /\ e # p
    <3>1. WellFormed(g)
      BY MergeNodeFacts
    <3> QED BY <1>1, <1>7, <3>1 DEF WellFormed
  <2>2. e = w => MovedEdge(k, p, e, w, p, cut)
    BY <1>1 DEF MovedEdge, As
  <2>3. e # w => MovedEdge(k, p, e, w, p, more)
    BY <1>1, <2>1 DEF MovedEdge, As
  <2> HIDE DEF cut, more, k
  <2>4. e = w => Merged(cut, g, w, p) /\ cut \in Graphs
    BY <1>1, <1>5, <1>7, <2>1, <2>2
  <2>5. e # w => Merged(more, g, w, p) /\ more \in Graphs /\ more.cycles \in BOOLEAN
    BY <1>1, <1>5, <1>7, <2>1, <2>3
  <2>6. ForwardRound(x, e, w, p) = IF ~x.ok THEN x
                                   ELSE IF e = w THEN [graph |-> cut, ok |-> TRUE]
                                   ELSE [graph |-> more, ok |-> ~more.cycles]
    BY DEF ForwardRound, Checked, cut, more, k
  <2> QED BY <2>4, <2>5, <2>6
<1>8. \A x \in V : /\ WellFormed(x.graph)
                   /\ \A n \in Nodes : /\ HasEdge(x.graph, n, p) => HasEdge(g, n, p)
                                       /\ HasEdge(x.graph, p, n) => HasEdge(g, p, n)
  BY DEF Merged
<1>9. middle \in V
  <2> HIDE DEF V
  <2> QED BY <1>1, <1>4, <1>6, <1>8, BackLoop
<1>10. end \in V
  <2> HIDE DEF V, middle
  <2> QED BY <1>1, <1>7, <1>8, <1>9, ForwardLoop
<1> HIDE DEF end
<1> QED BY <1>3, <1>10

\* What was asked for before and after p is w.
LEMMA ResolvedOrders ==
    ASSUME NEW g, NEW o, NEW a, NEW P, NEW w, NEW p, NEW o2, NEW a2,
           MergeCase(g, o, a, P, w, p, o2, a2),
           NEW rank, MergesInto(g, w, p, P, rank), Orders(g, o, a, P), InitialFirst(g, P),
           NEW k, Merged(k, g, w, p), ~k.cycles,
           \A n \in Nodes : ~HasEdge(k, n, p) /\ ~HasEdge(k, p, n),
           NEW Q, Q = P \ {p}
    PROVE  Orders(k, o2, a2, Q) /\ InitialFirst(k, Q)
<1>1. /\ w \in Nodes /\ p \in Nodes /\ p # w /\ P \in SUBSET Nodes /\ w \in P /\ p \in P
      /\ g \in Graphs /\ WellFormed(g) /\ TookOver(g, TakenOver(g, w, p), w, p)
      /\ g.rmw[w] = NULL /\ p \notin 1..MaxWrites /\ Initial \in Nodes /\ Initial # p
  BY MergeNodeFacts, NodeFacts DEF MergesInto
<1>2. /\ \A n \in Nodes : n # w => k.rmw[n] = g.rmw[n]
      /\ g.rmw[p] = NULL => k.rmw[w] = NULL
      /\ g.rmw[p] # NULL => k.rmw[w] = g.rmw[p]
  BY <1>1 DEF Merged, TookOver
<1>3. /\ \A m, n \in Nodes \ {p} : HasEdge(g, m, n) => HasEdge(k, m, n)
      /\ \A n \in Nodes \ {w} : HasEdge(g, n, p) => HasEdge(k, n, w)
      /\ \A n \in Nodes \ {w} : HasEdge(g, p, n) => HasEdge(k, w, n)
  BY DEF Merged
<1>4. ~g.cycles /\ Acyclic(k)
  BY DEF Merged, KeepsAcyclic, Orders
<1>5. /\ \A n \in P : g.rmw[n] # NULL => /\ n \in Nodes /\ g.rmw[n] \in Nodes /\ g.rmw[n] # p
                                         /\ HasEdge(g, n, g.rmw[n])
      /\ g.rmw[p] # NULL => g.rmw[p] # w
  <2>1. \A n \in P : g.rmw[n] # NULL => g.rmw[n] \in P /\ g.rmw[n] # p
    BY MergeNodeFacts
  <2>2. <<p, w>> \notin a /\ RMWAsked(g, a, P)
    BY DEF MergeCase, Resolvable, Fits
  <2> QED BY <1>1, <2>1, <2>2 DEF Orders, RMWEdges, RMWAsked
<1>6. RMWEdges(k, Q)
  <2> SUFFICES ASSUME NEW n \in Q, k.rmw[n] # NULL PROVE HasEdge(k, n, k.rmw[n])
    BY DEF RMWEdges
  <2>1. CASE n = w
    BY <1>1, <1>2, <1>3, <1>5, <2>1
  <2>2. CASE n # w
    BY <1>1, <1>2, <1>3, <1>5, <2>2
  <2> QED BY <2>1, <2>2
<1>7. \E at : Ranks(at, k, Q)
  <2>1. PICK at \in [Nodes -> Int] : Ascends(k, at)
    BY <1>4 DEF Acyclic
  <2>2. \A n \in Q : k.rmw[n] # NULL => n \in Nodes /\ k.rmw[n] \in Nodes
    BY <1>1, RMWNode DEF Merged, WellFormed
  <2> QED BY <1>6, <2>1, <2>2 DEF Ranks, RMWEdges, Ascends
<1>8. Once(k, Q)
  <2> SUFFICES ASSUME NEW m \in Q, NEW n \in Q, k.rmw[m] = k.rmw[n], k.rmw[m] # NULL PROVE m = n
    BY DEF Once
  <2>1. m \in P /\ n \in P /\ m # p /\ n # p /\ m \in Nodes /\ n \in Nodes
    BY <1>1
  <2>2. \A x, z \in P : g.rmw[x] = g.rmw[z] /\ g.rmw[x] # NULL => x = z
    BY DEF Orders, Once
  <2> QED BY <1>1, <1>2, <2>1, <2>2
<1>9. PassedOn(k)
  BY DEF Merged, PassedOn
<1>10. \A e \in o2 : HasEdge(k, e[1], e[2])
  <2> SUFFICES ASSUME NEW e \in o2 PROVE HasEdge(k, e[1], e[2])
    OBVIOUS
  <2>1. PICK d \in o \ {<<w, p>>} : e = <<As(d[1], p, w), As(d[2], p, w)>>
    BY SubstituteFacts DEF MergeCase, ResolvedOrder
  <2>2. /\ d = <<d[1], d[2]>> /\ d[1] \in Nodes /\ d[2] \in Nodes
        /\ d # <<w, p>> /\ d # <<p, w>>
    BY <2>1 DEF MergeCase, Fits, Pairs, Resolvable
  <2>3. HasEdge(g, d[1], d[2]) /\ d[1] # d[2]
    BY <1>1, <2>1, <2>2 DEF Orders, WellFormed
  <2>4. e[1] = As(d[1], p, w) /\ e[2] = As(d[2], p, w)
    BY <2>1
  <2>5. CASE d[1] = p
    BY <1>1, <1>3, <2>2, <2>3, <2>4, <2>5 DEF As
  <2>6. CASE d[2] = p
    BY <1>1, <1>3, <2>2, <2>3, <2>4, <2>6 DEF As
  <2>7. CASE d[1] # p /\ d[2] # p
    BY <1>1, <1>3, <2>2, <2>3, <2>4, <2>7 DEF As
  <2> QED BY <2>5, <2>6, <2>7
<1>11. \A e \in a2 : k.rmw[e[1]] = e[2]
  <2> SUFFICES ASSUME NEW e \in a2 PROVE k.rmw[e[1]] = e[2]
    OBVIOUS
  <2>1. PICK d \in a : e = <<As(d[1], p, w), As(d[2], p, w)>>
    BY SubstituteFacts DEF MergeCase
  <2>2. d[1] \in Nodes /\ d[2] # p /\ d[1] # w /\ d[2] # NULL
    BY <1>1, <2>1, NodeFacts DEF MergeCase, Fits, Pairs, Resolvable
  <2>3. g.rmw[d[1]] = d[2]
    BY <1>4, <2>1 DEF Orders
  <2>4. e[1] = As(d[1], p, w) /\ e[2] = As(d[2], p, w)
    BY <2>1
  <2> QED BY <1>1, <1>2, <2>2, <2>3, <2>4 DEF As
<1>12. InitialFirst(k, Q)
  BY <1>1, <1>3 DEF InitialFirst
<1> QED BY <1>4, <1>6, <1>7, <1>8, <1>9, <1>10, <1>11, <1>12 DEF Orders
-----------------------------------------------------------------------------
(***************************************************************************)
(* The order that can be read from a graph without a cycle.                *)
(***************************************************************************)
\* A strict total order on the nodes, as a set of pairs.
Linear(R) ==
    /\ \A n \in Nodes : <<n, n>> \notin R
    /\ \A l, m, n \in Nodes : <<l, m>> \in R /\ <<m, n>> \in R => <<l, n>> \in R
    /\ \A m, n \in Nodes : m = n \/ <<m, n>> \in R \/ <<n, m>> \in R

\* The places of the nodes in that order.
Numbers(at, R) ==
    /\ at \in [Nodes -> 1..Cardinality(Nodes)] /\ at \in [Nodes -> Int]
    /\ \A m, n \in Nodes : at[m] = at[n] => m = n
    /\ \A m, n \in Nodes : <<m, n>> \in R <=> at[m] < at[n]
    /\ \A n \in Nodes : (\A m \in Nodes : <<m, n>> \notin R) => at[n] = 1

LEMMA Numbering ==
    ASSUME NEW R, Linear(R)
    PROVE  \E at : Numbers(at, R)
<1> DEFINE N == Cardinality(Nodes)
           Below(n) == {m \in Nodes : <<m, n>> \in R}
           C(n) == Cardinality(Below(n))
           at == [n \in Nodes |-> C(n) + 1]
<1>1. IsFiniteSet(Nodes) /\ N \in Nat
  BY NodeFacts
<1>2. ASSUME NEW n \in Nodes PROVE IsFiniteSet(Below(n)) /\ C(n) \in Nat /\ C(n) + 1 \in 1..N
  <2> DEFINE B == Below(n)
  <2>1. B \subseteq Nodes /\ B # Nodes
    BY DEF Linear
  <2> HIDE DEF B
  <2>2. IsFiniteSet(B) /\ Cardinality(B) \in Nat /\ Cardinality(B) < N
    BY <1>1, <2>1, FS_Subset, FS_CardinalityType
  <2>3. Cardinality(B) + 1 \in 1..N
    <3> HIDE DEF N
    <3> QED BY <1>1, <2>2
  <2> QED BY <2>2, <2>3 DEF B
<1>3. ASSUME NEW m \in Nodes, NEW n \in Nodes, <<m, n>> \in R
      PROVE  C(m) < C(n)
  <2> DEFINE A == Below(m)
             B == Below(n)
  <2>1. A \subseteq B /\ A # B /\ IsFiniteSet(B)
    BY <1>2, <1>3 DEF Linear
  <2> HIDE DEF A, B
  <2>2. Cardinality(A) < Cardinality(B)
    BY <2>1, FS_Subset, FS_CardinalityType
  <2> QED BY <2>2 DEF A, B
<1>4. \A n \in Nodes : (\A m \in Nodes : <<m, n>> \notin R) => C(n) = 0
  <2> SUFFICES ASSUME NEW n \in Nodes, \A m \in Nodes : <<m, n>> \notin R PROVE C(n) = 0
    OBVIOUS
  <2>1. Below(n) = {}
    OBVIOUS
  <2> QED BY <2>1, FS_EmptySet
<1>5. \A n \in Nodes : C(n) \in Nat /\ C(n) + 1 \in 1..N
  <2> HIDE DEF C
  <2> QED BY <1>2
<1> HIDE DEF C, N
<1>6. at \in [Nodes -> 1..N] /\ at \in [Nodes -> Int]
  BY <1>5
<1>7. \A m, n \in Nodes : <<m, n>> \in R => at[m] < at[n]
  BY <1>3, <1>5
<1>8. \A n \in Nodes : (\A m \in Nodes : <<m, n>> \notin R) => at[n] = 1
  BY <1>4
<1>9. \A m, n \in Nodes : at[m] \in Int /\ at[n] \in Int
  BY <1>6
<1> HIDE DEF at
<1>10. \A m, n \in Nodes : at[m] = at[n] => m = n
  <2> SUFFICES ASSUME NEW m \in Nodes, NEW n \in Nodes, at[m] = at[n], m # n PROVE FALSE
    OBVIOUS
  <2>1. at[m] < at[n] \/ at[n] < at[m]
    BY <1>7 DEF Linear
  <2> QED BY <1>9, <2>1
<1>11. \A m, n \in Nodes : at[m] < at[n] => <<m, n>> \in R
  <2> SUFFICES ASSUME NEW m \in Nodes, NEW n \in Nodes, at[m] < at[n], <<m, n>> \notin R PROVE FALSE
    OBVIOUS
  <2>1. m = n \/ at[n] < at[m]
    BY <1>7 DEF Linear
  <2> QED BY <1>9, <2>1
<1> QED BY <1>6, <1>7, <1>8, <1>10, <1>11 DEF Numbers, N

\* Nodes at the same place are put one after the other.
LEMMA Separate ==
    ASSUME NEW f \in [Nodes -> Int]
    PROVE  \E at \in [Nodes -> Int] :
              /\ \A m, n \in Nodes : at[m] = at[n] => m = n
              /\ \A m, n \in Nodes : f[m] < f[n] => at[m] < at[n]
<1>1. PICK b \in Bijection(Nodes, 1..Cardinality(Nodes)) : TRUE
  <2>1. ExistsBijection(1..Cardinality(Nodes), Nodes)
    BY NodeFacts, FS_CardinalityType
  <2>2. ExistsBijection(Nodes, 1..Cardinality(Nodes))
    BY <2>1, Fun_ExistsBijSymmetric
  <2> QED BY <2>2 DEF ExistsBijection
<1>2. /\ \A n \in Nodes : b[n] \in Int
      /\ \A m, n \in Nodes : b[m] = b[n] => m = n
  BY <1>1 DEF Bijection, Injection, IsInjective
<1> DEFINE R == {e \in Nodes \X Nodes :
                    f[e[1]] < f[e[2]] \/ (f[e[1]] = f[e[2]] /\ b[e[1]] < b[e[2]])}
<1>3. \A m, n \in Nodes : <<m, n>> \in R <=> f[m] < f[n] \/ (f[m] = f[n] /\ b[m] < b[n])
  OBVIOUS
<1>4. \A n \in Nodes : f[n] \in Int
  OBVIOUS
<1> HIDE DEF R
<1>5. Linear(R)
  BY <1>2, <1>3, <1>4 DEF Linear
<1>6. PICK at : Numbers(at, R)
  BY <1>5, Numbering
<1> QED BY <1>3, <1>6 DEF Numbers

\* Where the chains end.
EndsAt(last, g, P) ==
    /\ last \in [Nodes -> Nodes]
    /\ \A n \in Nodes \ P : last[n] = n
    /\ \A n \in P : last[n] \in Chain(g, n) /\ last[n] \in P /\ g.rmw[last[n]] = NULL
    /\ \A n \in P : \A e \in Chain(g, n) : last[e] = last[n] /\ (g.rmw[e] = NULL => e = last[n])

LEMMA ChainsEnd ==
    ASSUME NEW g, NEW P, NEW rank, Ranked(g, P, rank)
    PROVE  \E last : EndsAt(last, g, P)
<1> DEFINE last == [n \in Nodes |-> IF n \in P THEN CHOOSE e \in Chain(g, n) : g.rmw[e] = NULL ELSE n]
<1>1. g \in Graphs /\ P \subseteq Nodes
  BY DEF Ranked
<1>2. ASSUME NEW n \in P
      PROVE  last[n] \in Chain(g, n) /\ last[n] \in P /\ g.rmw[last[n]] = NULL
  <2>1. \E e \in Chain(g, n) : g.rmw[e] = NULL
    BY ChainHasEnd
  <2>2. last[n] = CHOOSE e \in Chain(g, n) : g.rmw[e] = NULL
    BY <1>1
  <2>3. last[n] \in Chain(g, n) /\ g.rmw[last[n]] = NULL
    BY <2>1, <2>2
  <2> HIDE DEF last
  <2> QED BY <2>3, ChainClimbs
<1>3. last \in [Nodes -> Nodes]
  <2>1. \A n \in P : (CHOOSE e \in Chain(g, n) : g.rmw[e] = NULL) \in Nodes
    BY <1>1, <1>2
  <2> QED BY <2>1
<1>4. \A n \in Nodes \ P : last[n] = n
  OBVIOUS
<1> HIDE DEF last
<1>5. ASSUME NEW n \in P, NEW e \in Chain(g, n), g.rmw[e] = NULL, NEW d \in Chain(g, n), g.rmw[d] = NULL
      PROVE  e = d
  <2>1. e \in Nodes /\ d \in Nodes /\ n \in Nodes
    BY <1>1, ChainFacts
  <2>2. d \in Chain(g, e) \/ e \in Chain(g, d)
    BY <1>1, <1>5, <2>1, ChainLinear
  <2> QED BY <1>1, <1>5, <2>1, <2>2, ChainFacts
<1>6. ASSUME NEW n \in P, NEW e \in Chain(g, n)
      PROVE  last[e] = last[n] /\ (g.rmw[e] = NULL => e = last[n])
  <2>1. e \in P /\ n \in Nodes
    BY <1>1, ChainClimbs
  <2>2. last[e] \in Chain(g, n)
    BY <1>1, <1>2, <2>1, ChainFacts
  <2> QED BY <1>2, <1>5, <2>1, <2>2
<1> QED BY <1>2, <1>3, <1>4, <1>6 DEF EndsAt

\* The order asked for leaves room for RMWs right after their stores.
Fulfils(at, o, a, P) ==
    /\ \A e \in o \cup a : at[e[1]] < at[e[2]]
    /\ \A e \in a, n \in P : ~(at[e[1]] < at[n] /\ at[n] < at[e[2]])

\* Chains are put one after the other, in the order of their ends.
Blocks(R, last, rank) ==
    \A m, n \in Nodes : <<m, n>> \in R <=> \/ rank[last[m]] < rank[last[n]]
                                           \/ last[m] = last[n] /\ rank[m] < rank[n]

LEMMA BlocksLinear ==
    ASSUME NEW last \in [Nodes -> Nodes], NEW rank \in [Nodes -> Int],
           \A m, n \in Nodes : rank[m] = rank[n] => m = n
    PROVE  \E R : Linear(R) /\ Blocks(R, last, rank)
<1> DEFINE R == {e \in Nodes \X Nodes : \/ rank[last[e[1]]] < rank[last[e[2]]]
                                        \/ last[e[1]] = last[e[2]] /\ rank[e[1]] < rank[e[2]]}
           key == [n \in Nodes |-> rank[last[n]]]
<1>1. Blocks(R, last, rank)
  BY DEF Blocks
<1> HIDE DEF R
<1>2. /\ \A n \in Nodes : key[n] = rank[last[n]] /\ key[n] \in Int /\ rank[n] \in Int
      /\ \A m, n \in Nodes : key[m] = key[n] <=> last[m] = last[n]
  OBVIOUS
<1> HIDE DEF key
<1>3. \A m, n \in Nodes : <<m, n>> \in R <=> key[m] < key[n] \/ (key[m] = key[n] /\ rank[m] < rank[n])
  BY <1>1, <1>2 DEF Blocks
<1>4. Linear(R)
  BY <1>2, <1>3 DEF Linear
<1> QED BY <1>1, <1>4

\* All that was asked for is in the graph.
Ready(g, o, a, P) ==
    /\ WellFormed(g) /\ P \in SUBSET Nodes /\ Initial \in P
    /\ Within(g, P) /\ ClosedUp(g, P) /\ Pairs(o, a, P)
    /\ Orders(g, o, a, P) /\ InitialFirst(g, P)

\* ... and it announces no cycle.
Orderly(g, o, a, P) == Ready(g, o, a, P) /\ ~g.cycles

\* The nodes are ranked along the edges, those that are not there last.
Ranking(g, P, last, rank) ==
    /\ Ranked(g, P, rank) /\ EndsAt(last, g, P) /\ Ascends(g, rank)
    /\ \A m, n \in Nodes : rank[m] = rank[n] => m = n
    /\ \A n \in Nodes \ P : rank[last[Initial]] < rank[n]

LEMMA RankingExists ==
    ASSUME NEW g, NEW o, NEW a, NEW P, Orderly(g, o, a, P)
    PROVE  \E last, rank : Ranking(g, P, last, rank)
<1>1. /\ g \in Graphs /\ P \in SUBSET Nodes /\ ClosedUp(g, P) /\ Within(g, P) /\ Initial \in P
      /\ RMWEdges(g, P)
  BY DEF Orderly, Ready, WellFormed, Orders
<1>2. PICK r : Ranked(g, P, r)
  BY <1>1 DEF Orderly, Ready, Orders, Ranked
<1>3. PICK last : EndsAt(last, g, P)
  BY <1>2, ChainsEnd
<1>4. PICK at \in [Nodes -> Int] : Ascends(g, at)
  BY DEF Orderly, Ready, Orders, Acyclic
<1> DEFINE far == at[last[Initial]] + 1
           f == [n \in Nodes |-> IF n \in P THEN at[n] ELSE far]
<1>5. last[Initial] \in P /\ last[Initial] \in Nodes
  BY <1>1, <1>3 DEF EndsAt
<1>6. /\ \A n \in Nodes : at[n] \in Int
      /\ far \in Int /\ at[last[Initial]] < far
  BY <1>5
<1> HIDE DEF far
<1>7. /\ f \in [Nodes -> Int]
      /\ \A n \in P : f[n] = at[n]
      /\ \A n \in Nodes \ P : f[n] = far
  BY <1>1, <1>6
<1> HIDE DEF f
<1>8. PICK rank \in [Nodes -> Int] : /\ \A m, n \in Nodes : rank[m] = rank[n] => m = n
                                     /\ \A m, n \in Nodes : f[m] < f[n] => rank[m] < rank[n]
  BY <1>7, Separate
<1>9. Ascends(g, rank)
  BY <1>1, <1>4, <1>7, <1>8 DEF Ascends, Within
<1>10. Ranked(g, P, rank)
  BY <1>1, <1>8, <1>9 DEF Ranked, Ranks, RMWEdges, Ascends, ClosedUp
<1>11. \A n \in Nodes \ P : rank[last[Initial]] < rank[n]
  BY <1>5, <1>6, <1>7, <1>8
<1> QED BY <1>3, <1>8, <1>9, <1>10, <1>11 DEF Ranking

LEMMA RankingOrders ==
    ASSUME NEW g, NEW o, NEW a, NEW P, Orderly(g, o, a, P),
           NEW last, NEW rank, Ranking(g, P, last, rank), NEW R, Blocks(R, last, rank)
    PROVE  /\ \A f, t \in Nodes : HasEdge(g, f, t) => <<f, t>> \in R
           /\ \A n \in Nodes : n # Initial => <<Initial, n>> \in R
           /\ \A e \in a : \A n \in P : ~(<<e[1], n>> \in R /\ <<n, e[2]>> \in R)
<1>1. /\ WellFormed(g) /\ g \in Graphs /\ P \in SUBSET Nodes /\ Initial \in P /\ Initial \in Nodes
      /\ Within(g, P) /\ PassedOn(g) /\ Once(g, P) /\ RMWEdges(g, P) /\ InitialFirst(g, P)
      /\ ~g.cycles
  BY DEF Orderly, Ready, WellFormed, Orders
<1>2. /\ Ranked(g, P, rank) /\ EndsAt(last, g, P) /\ Ascends(g, rank)
      /\ last \in [Nodes -> Nodes] /\ \A n \in Nodes : rank[n] \in Int
      /\ \A n \in Nodes : last[n] \in Nodes
      /\ \A m, n \in Nodes : rank[m] = rank[n] => m = n
  BY DEF Ranking, Ranked, Ranks, EndsAt
<1>3. ASSUME NEW n \in P PROVE last[n] = n \/ rank[n] < rank[last[n]]
  BY <1>2, ChainClimbs DEF EndsAt
<1>4. ASSUME NEW f \in Nodes, NEW t \in Nodes, HasEdge(g, f, t) PROVE <<f, t>> \in R
  <2>1. f \in P /\ t \in P /\ PassedTo(g, f, t) /\ rank[f] < rank[t]
    BY <1>1, <1>2, <1>4 DEF Within, PassedOn, Ascends
  <2>2. CASE t \in Chain(g, f)
    <3>1. last[t] = last[f]
      BY <1>2, <2>1, <2>2 DEF EndsAt
    <3> QED BY <2>1, <3>1 DEF Blocks
  <2>3. ASSUME NEW e \in Chain(g, f), g.rmw[e] = NULL, HasEdge(g, e, t)
        PROVE  <<f, t>> \in R
    <3>1. e = last[f] /\ e \in Nodes
      BY <1>2, <2>1, <2>3 DEF EndsAt
    <3>2. rank[e] < rank[t]
      BY <1>2, <2>3, <3>1 DEF Ascends
    <3>3. rank[last[f]] < rank[last[t]]
      BY <1>2, <1>3, <2>1, <3>1, <3>2
    <3> QED BY <3>3 DEF Blocks
  <2> QED BY <2>1, <2>2, <2>3 DEF PassedTo
<1>5. ASSUME NEW n \in Nodes, n # Initial PROVE <<Initial, n>> \in R
  <2>1. CASE n \in P
    <3>1. HasEdge(g, Initial, n)
      BY <1>1, <1>5, <2>1 DEF InitialFirst
    <3> QED BY <1>1, <1>4, <3>1
  <2>2. CASE n \notin P
    <3>1. last[n] = n /\ rank[last[Initial]] < rank[n]
      BY <2>2 DEF Ranking, EndsAt
    <3> QED BY <1>1, <3>1 DEF Blocks
  <2> QED BY <2>1, <2>2
<1>6. ASSUME NEW e \in a, NEW n \in P, <<e[1], n>> \in R, <<n, e[2]>> \in R PROVE FALSE
  <2> DEFINE f == e[1]
             r == e[2]
  <2>1. /\ f \in P /\ r \in P /\ f \in Nodes /\ r \in Nodes /\ n \in Nodes
        /\ g.rmw[f] = r /\ r # NULL
    BY <1>1, NodeFacts DEF Orderly, Ready, Orders, Pairs
  <2>2. <<f, n>> \in R /\ <<n, r>> \in R
    BY <1>6
  <2> HIDE DEF f, r
  <2>3. /\ r \in Chain(g, f)
        /\ \A x \in Chain(g, f) : x # f => x \in Chain(g, r)
    BY <1>1, <2>1, ChainFacts DEF ChainClosed
  <2>4. last[f] = last[r]
    BY <1>2, <2>1, <2>3 DEF EndsAt
  <2>5. rank[last[f]] \in Int /\ rank[last[n]] \in Int
    BY <1>2, <2>1
  <2>6. last[n] = last[f] /\ rank[f] < rank[n] /\ rank[n] < rank[r]
    <3>1. /\ rank[last[f]] < rank[last[n]] \/ (last[f] = last[n] /\ rank[f] < rank[n])
          /\ rank[last[n]] < rank[last[f]] \/ (last[n] = last[f] /\ rank[n] < rank[r])
      BY <2>1, <2>2, <2>4 DEF Blocks
    <3> QED BY <2>5, <3>1
  <2>7. last[f] \in Chain(g, f) /\ last[f] \in Chain(g, n)
    <3>1. last[n] \in Chain(g, n) /\ last[f] \in Chain(g, f)
      BY <1>2, <2>1 DEF EndsAt
    <3> QED BY <2>6, <3>1
  <2>8. f \in Chain(g, n) \/ n \in Chain(g, f)
    BY <1>1, <1>2, <2>1, <2>7, ChainsMeet
  <2>9. rank[f] \in Int /\ rank[n] \in Int /\ rank[r] \in Int
    BY <1>2, <2>1
  <2>10. CASE f \in Chain(g, n)
    <3>1. f = n \/ rank[n] < rank[f]
      BY <1>2, <2>10, ChainClimbs
    <3> QED BY <2>6, <2>9, <3>1
  <2>11. CASE n \in Chain(g, f)
    <3>1. n = f \/ n \in Chain(g, r)
      BY <2>3, <2>11
    <3>2. n = f \/ n = r \/ rank[r] < rank[n]
      BY <1>2, <2>1, <3>1, ChainClimbs
    <3> QED BY <2>6, <2>9, <3>2
  <2> QED BY <2>8, <2>10, <2>11
<1> QED BY <1>4, <1>5, <1>6

LEMMA OrderExists ==
    ASSUME NEW g, NEW o, NEW a, NEW P, Orderly(g, o, a, P)
    PROVE  \E at \in Places : Fulfils(at, o, a, P)
<1>1. PICK last, rank : Ranking(g, P, last, rank)
  BY RankingExists
<1>2. /\ last \in [Nodes -> Nodes] /\ rank \in [Nodes -> Int]
      /\ \A m, n \in Nodes : rank[m] = rank[n] => m = n
  BY <1>1 DEF Ranking, EndsAt, Ranked, Ranks
<1>3. PICK R : Linear(R) /\ Blocks(R, last, rank)
  BY <1>2, BlocksLinear
<1>4. /\ \A f, t \in Nodes : HasEdge(g, f, t) => <<f, t>> \in R
      /\ \A n \in Nodes : n # Initial => <<Initial, n>> \in R
      /\ \A e \in a : \A n \in P : ~(<<e[1], n>> \in R /\ <<n, e[2]>> \in R)
  BY <1>1, <1>3, RankingOrders
<1>5. PICK at : Numbers(at, R)
  BY <1>3, Numbering
<1>6. at[Initial] = 1
  <2>1. \A m \in Nodes : <<m, Initial>> \notin R
    BY <1>3, <1>4, NodeFacts DEF Linear
  <2> QED BY <1>5, <2>1, NodeFacts DEF Numbers
<1>7. at \in Places
  BY <1>5, <1>6 DEF Numbers, Places, IsInjective
<1>8. /\ \A e \in o : e[1] \in Nodes /\ e[2] \in Nodes /\ HasEdge(g, e[1], e[2])
      /\ \A e \in a : e[1] \in P /\ g.rmw[e[1]] = e[2] /\ e[2] # NULL /\ e[2] \in P
      /\ P \subseteq Nodes
  BY NodeFacts DEF Orderly, Ready, Pairs, Orders
<1>9. \A e \in o \cup a : HasEdge(g, e[1], e[2]) /\ e[1] \in Nodes /\ e[2] \in Nodes
  BY <1>8 DEF Orderly, Ready, Orders, RMWEdges
<1>10. \A e \in o \cup a : at[e[1]] < at[e[2]]
  <2> SUFFICES ASSUME NEW e \in o \cup a PROVE at[e[1]] < at[e[2]]
    OBVIOUS
  <2> DEFINE f == e[1]
             t == e[2]
  <2>1. f \in Nodes /\ t \in Nodes /\ HasEdge(g, f, t)
    BY <1>9
  <2> HIDE DEF f, t
  <2>2. <<f, t>> \in R
    BY <1>4, <2>1
  <2>3. at[f] < at[t]
    BY <1>5, <2>1, <2>2 DEF Numbers
  <2> QED BY <2>3 DEF f, t
<1>11. \A e \in a, n \in P : ~(at[e[1]] < at[n] /\ at[n] < at[e[2]])
  <2> SUFFICES ASSUME NEW e \in a, NEW n \in P, at[e[1]] < at[n], at[n] < at[e[2]] PROVE FALSE
    OBVIOUS
  <2>1. e[1] \in Nodes /\ e[2] \in Nodes /\ n \in Nodes
    BY <1>8
  <2>2. <<e[1], n>> \in R /\ <<n, e[2]>> \in R
    BY <1>5, <2>1 DEF Numbers
  <2> QED BY <1>4, <2>2
<1> QED BY <1>7, <1>10, <1>11 DEF Fulfils
-----------------------------------------------------------------------------
(***************************************************************************)
(* Every step keeps an order within reach.                                 *)
(***************************************************************************)
LEMMA ReadyFacts ==
    ASSUME CGInv, OrderInv, ~handed
    PROVE  /\ ~graph.endless /\ Types /\ Transaction /\ Unread(graph)
           /\ ~failed => /\ Ready(graph, order, adjacent, Present)
                         /\ Fits(graph, order, adjacent, Present)
           /\ ~failed /\ phase \in {"idle", "read"} =>
                 /\ Orders(saved.graph, saved.order, saved.adjacent, Present)
                 /\ InitialFirst(saved.graph, Present)
<1>1. /\ Types /\ Transaction /\ Unread(graph) /\ Present \in SUBSET Nodes /\ Initial \in Present
      /\ ~failed => Fits(graph, order, adjacent, Present)
      /\ WellFormed(graph) /\ graph \in Graphs
  BY PresentFacts DEF CGInv, Types, Judgement, WellFormed
<1>2. ~failed => ClosedUp(graph, Present)
  BY <1>1, FitsClosed
<1> QED BY <1>1, <1>2 DEF OrderInv, Ready, Fits

LEMMA AskOrderInv ==
    ASSUME CGInv, OrderInv, phase # "idle", NEW f \in Present, NEW t \in Present, f # t, Ask(f, t)
    PROVE  OrderInv'
<1> SUFFICES ASSUME ~handed PROVE OrderInv'
  BY DEF Ask, OrderInv
<1>1. /\ graph' = addNodeEdge(graph, f, t) /\ order' = order \cup {<<f, t>>}
      /\ UNCHANGED <<phase, failed, adjacent, saved, handed>> /\ Present' = Present
  BY DEF Ask, Present
<1>2. ~graph.endless /\ ~failed /\ Ready(graph, order, adjacent, Present)
  BY ReadyFacts DEF Transaction
<1>3. Orders(graph', order', adjacent, Present) /\ Keeps(graph, graph')
  BY <1>1, <1>2, AskOrders DEF Ready
<1>4. InitialFirst(graph', Present)
  BY <1>2, <1>3 DEF InitialFirst, Keeps, Ready
<1>5. ~graph'.endless
  BY <1>2, <1>3 DEF Keeps
<1> QED BY <1>1, <1>3, <1>4, <1>5, ReadyFacts DEF OrderInv

\* A transaction on node n starts, with graph g, which may be new to it.
LEMMA BeginOrders ==
    ASSUME NEW g, NEW o, NEW a, NEW P \in SUBSET Nodes, WellFormed(g), Fits(g, o, a, P),
           Orders(g, o, a, P), NEW n \in P, Initial \in P, InitialFirst(g, P \ {n}),
           NEW h, h = Begun(g, n), NEW o2, o2 = BegunOrder(o, n)
    PROVE  Orders(h, o2, a, P) /\ InitialFirst(h, P) /\ h.endless = g.endless
<1>1. ClosedUp(g, P) /\ Pairs(o, a, P)
  BY FitsClosed DEF Fits, WellFormed
<1> QED BY <1>1, BegunOrders

LEMMA StartReadOrderInv ==
    ASSUME CGInv, OrderInv, NEW rf \in Present, StartRead(rf)
    PROVE  OrderInv'
<1> SUFFICES ASSUME ~handed PROVE OrderInv'
  BY DEF StartRead, OrderInv
<1>1. /\ ~failed /\ phase = "idle" /\ phase' = "read"
      /\ UNCHANGED <<failed, adjacent, saved, handed>> /\ Present' = Present
      /\ graph' = Begun(graph, rf) /\ order' = BegunOrder(order, rf)
  BY DEF StartRead, Begin, Feasible, Present, Begun, BegunOrder
<1>2. /\ ~graph.endless /\ Fits(graph, order, adjacent, Present)
      /\ Ready(graph, order, adjacent, Present)
  BY <1>1, ReadyFacts
<1>3. InitialFirst(graph, Present \ {rf})
  BY <1>2 DEF InitialFirst, Ready
<1>4. /\ Orders(graph', order', adjacent, Present) /\ InitialFirst(graph', Present)
      /\ graph'.endless = graph.endless
  BY <1>1, <1>2, <1>3, BeginOrders DEF Ready
<1> QED BY <1>1, <1>2, <1>4, ReadyFacts DEF OrderInv

\* A node n that is new, and that nothing reads from.
LEMMA NewNodeOrders ==
    ASSUME NEW g, NEW o, NEW a, NEW P, Ready(g, o, a, P), Fits(g, o, a, P),
           NEW n \in Nodes, n \notin P, g.rmw[n] = NULL, NEW Q, Q = P \cup {n},
           NEW h, h = Begun(g, n), NEW o2, o2 = BegunOrder(o, n)
    PROVE  Orders(h, o2, a, Q) /\ InitialFirst(h, Q) /\ h.endless = g.endless
<1>1. Q \in SUBSET Nodes /\ n \in Q /\ Initial \in Q /\ WellFormed(g)
  BY DEF Ready
<1>2. Fits(g, o, a, Q)
  <2>1. /\ o \in SUBSET (Nodes \X Nodes)
        /\ a \in SUBSET (Q \X (Q \cap (1..MaxWrites)))
        /\ \A m \in Q \ P : g.rmw[m] = NULL
        /\ P \subseteq Q
    BY DEF Fits, Pairs
  <2> QED BY <1>1, <2>1, FitsMore
<1>3. Orders(g, o, a, Q)
  BY OrdersMore DEF Ready
<1>4. InitialFirst(g, Q \ {n})
  BY DEF Ready, InitialFirst
<1> QED BY <1>1, <1>2, <1>3, <1>4, BeginOrders

LEMMA StartFutureReadOrderInv ==
    ASSUME CGInv, OrderInv, NEW p \in Promises, StartFutureRead(p)
    PROVE  OrderInv'
<1> SUFFICES ASSUME ~handed PROVE OrderInv'
  BY DEF StartFutureRead, OrderInv
<1>1. /\ ~failed /\ phase = "idle" /\ phase' = "future" /\ p \notin made
      /\ UNCHANGED <<failed, adjacent, saved, handed>> /\ Present' = Present \cup {p}
      /\ graph' = Begun(graph, p) /\ order' = BegunOrder(order, p)
  BY DEF StartFutureRead, Begin, Feasible, Present, Begun, BegunOrder
<1>2. /\ ~graph.endless /\ Fits(graph, order, adjacent, Present)
      /\ Ready(graph, order, adjacent, Present) /\ Types /\ Unread(graph)
  BY <1>1, ReadyFacts
<1>3. p \in Nodes /\ p \notin Present /\ graph.rmw[p] = NULL
  <2>1. p \notin 1..written /\ p \notin promised /\ p \in Nodes
    BY <1>1, <1>2, NodeFacts, CycleGraphAssumption DEF Types
  <2> QED BY <1>1, <1>2, <2>1 DEF Unread, Present
<1>4. /\ Orders(graph', order', adjacent, Present') /\ InitialFirst(graph', Present')
      /\ graph'.endless = graph.endless
  BY <1>1, <1>2, <1>3, NewNodeOrders
<1> QED BY <1>1, <1>2, <1>4 DEF OrderInv

LEMMA StartWriteOrderInv ==
    ASSUME CGInv, OrderInv, StartWrite
    PROVE  OrderInv'
<1> SUFFICES ASSUME ~handed PROVE OrderInv'
  BY DEF StartWrite, OrderInv
<1>1. /\ ~failed /\ phase = "idle" /\ phase' = "write" /\ written < MaxWrites
      /\ written' = Fresh
      /\ UNCHANGED <<failed, adjacent, saved, handed, promised>>
      /\ graph' = Begun(graph, Fresh) /\ order' = BegunOrder(order, Fresh)
  BY DEF StartWrite, Begin, Feasible, Begun, BegunOrder
<1>2. /\ ~graph.endless /\ Fits(graph, order, adjacent, Present)
      /\ Ready(graph, order, adjacent, Present) /\ Types /\ Unread(graph)
  BY <1>1, ReadyFacts
<1>3. /\ Fresh \in Nodes /\ Fresh \notin Present /\ graph.rmw[Fresh] = NULL
      /\ Present' = Present \cup {Fresh}
  <2>1. /\ Fresh \in Nodes /\ Fresh \notin Present /\ Fresh \notin (1..written) \cup made
        /\ 1..Fresh = (1..written) \cup {Fresh}
    BY <1>1, <1>2, FreshFacts
  <2> QED BY <1>1, <1>2, <2>1 DEF Unread, Present
<1>4. /\ Orders(graph', order', adjacent, Present') /\ InitialFirst(graph', Present')
      /\ graph'.endless = graph.endless
  BY <1>1, <1>2, <1>3, NewNodeOrders
<1> QED BY <1>1, <1>2, <1>4 DEF OrderInv

LEMMA CommittedOrders ==
    ASSUME NEW g, WellFormed(g), NEW h, h = Committed(g)
    PROVE  /\ WellFormed(h) /\ h.endless = g.endless
           /\ \A o, a, P : /\ Orders(g, o, a, P) => Orders(h, o, a, P)
                           /\ Fits(g, o, a, P) => Fits(h, o, a, P)
           /\ \A P : InitialFirst(g, P) => InitialFirst(h, P)
<1>1. /\ WellFormed(h) /\ h.edges = g.edges /\ h.rmw = g.rmw /\ h.cycles = g.cycles
  BY CommittedFacts
<1>2. h.endless = g.endless
  BY DEF Committed, WellFormed, Graphs
<1> QED BY <1>1, <1>2, OrdersSame, FitsSame

\* The RMW edge is committed, and then the write part starts.
LEMMA RMWBegins ==
    ASSUME NEW g, NEW o, NEW a, NEW P, Ready(g, o, a, P), Fits(g, o, a, P),
           NEW f \in P, NEW r \in 1..MaxWrites, r \notin P, g.rmw[r] = NULL,
           NEW b, b = a \cup {<<f, r>>}, NEW Q, Q = P \cup {r},
           NEW e, e = addRMWEdge(g, f, r), NEW k, k = Committed(e),
           NEW h, h = Begun(k, r), NEW o2, o2 = BegunOrder(o, r)
    PROVE  Orders(h, o2, b, Q) /\ InitialFirst(h, Q) /\ h.endless = g.endless
<1>1. MayRead(g, o, a, P, f, r) /\ Q \in SUBSET Nodes /\ r \in Q /\ Initial \in Q
  BY NodeFacts DEF MayRead, Ready
<1>2. Orders(e, o, b, Q) /\ Keeps(g, e)
  BY <1>1, RMWOrders
<1>3. WellFormed(e) /\ Fits(e, o, b, Q)
  BY RMWFits DEF Ready
<1>4. /\ WellFormed(k) /\ k.endless = e.endless
      /\ Orders(k, o, b, Q) /\ Fits(k, o, b, Q)
      /\ InitialFirst(e, Q \ {r}) => InitialFirst(k, Q \ {r})
  BY <1>2, <1>3, CommittedOrders
<1>5. InitialFirst(e, Q \ {r})
  BY <1>1, <1>2 DEF InitialFirst, Keeps, Ready
<1>6. Orders(h, o2, b, Q) /\ InitialFirst(h, Q) /\ h.endless = k.endless
  BY <1>1, <1>4, <1>5, BeginOrders
<1> QED BY <1>2, <1>4, <1>6 DEF Keeps

LEMMA StartRMWOrderInv ==
    ASSUME CGInv, OrderInv, NEW from \in Present, StartRMW(from)
    PROVE  OrderInv'
<1> SUFFICES ASSUME ~handed PROVE OrderInv'
  BY DEF StartRMW, OrderInv
<1>1. /\ ~failed /\ phase = "idle" /\ phase' = "write" /\ written < MaxWrites
      /\ written' = Fresh /\ adjacent' = adjacent \cup {<<from, Fresh>>}
      /\ UNCHANGED <<failed, handed, promised>>
      /\ graph' = Begun(Committed(addRMWEdge(graph, from, Fresh)), Fresh)
      /\ order' = BegunOrder(order, Fresh)
  BY DEF StartRMW, Begin, Feasible, Begun, BegunOrder
<1>2. /\ ~graph.endless /\ Fits(graph, order, adjacent, Present)
      /\ Ready(graph, order, adjacent, Present) /\ Types /\ Unread(graph)
  BY <1>1, ReadyFacts
<1>3. /\ Fresh \in 1..MaxWrites /\ Fresh \notin Present /\ graph.rmw[Fresh] = NULL
      /\ Present' = Present \cup {Fresh}
  <2>1. /\ Fresh \in Nodes /\ Fresh \notin Present /\ Fresh \notin (1..written) \cup made
        /\ 1..Fresh = (1..written) \cup {Fresh} /\ Fresh \in 1..MaxWrites
    BY <1>1, <1>2, FreshFacts
  <2> QED BY <1>1, <1>2, <2>1 DEF Unread, Present
<1>4. /\ Orders(graph', order', adjacent', Present') /\ InitialFirst(graph', Present')
      /\ graph'.endless = graph.endless
  BY <1>1, <1>2, <1>3, RMWBegins
<1> QED BY <1>1, <1>2, <1>4 DEF OrderInv

LEMMA CommitOrderInv ==
    ASSUME CGInv, OrderInv, phase # "idle", phase' = "idle", CommitTo(graph, order, adjacent),
           UNCHANGED <<written, promised, failed, handed>>
    PROVE  OrderInv'
<1> SUFFICES ASSUME ~handed PROVE OrderInv'
  BY DEF OrderInv
<1>1. /\ graph' = Committed(graph) /\ order' = order /\ adjacent' = adjacent
      /\ saved'.graph = graph' /\ saved'.order = order' /\ saved'.adjacent = adjacent'
      /\ Present' = Present
  BY DEF CommitTo, Present
<1>2. ~graph.endless /\ ~failed /\ Ready(graph, order, adjacent, Present)
  BY ReadyFacts DEF Transaction
<1>3. /\ Orders(graph', order, adjacent, Present) /\ InitialFirst(graph', Present)
      /\ graph'.endless = graph.endless
  BY <1>1, <1>2, CommittedOrders DEF Ready
<1> QED BY <1>1, <1>2, <1>3 DEF OrderInv

LEMMA RollbackOrderInv ==
    ASSUME CGInv, OrderInv, Rollback
    PROVE  OrderInv'
<1> SUFFICES ASSUME ~handed PROVE OrderInv'
  BY DEF Rollback, OrderInv
<1>1. /\ WellFormed(graph) /\ WellFormed(saved.graph) /\ ~failed
      /\ Settled(saved.graph) /\ Extends(graph, saved.graph)
  BY DEF CGInv, Types, Transaction, Rollback
<1>2. /\ phase = "read" /\ phase' = "idle" /\ graph' = RolledBack(graph)
      /\ order' = saved.order /\ adjacent' = saved.adjacent
      /\ UNCHANGED <<failed, handed, saved>> /\ Present' = Present
  BY DEF Rollback, Present
<1>3. /\ ~graph.endless
      /\ Orders(saved.graph, saved.order, saved.adjacent, Present)
      /\ InitialFirst(saved.graph, Present)
  BY <1>1, <1>2, ReadyFacts
<1>4. /\ graph'.edges = saved.graph.edges /\ graph'.rmw = saved.graph.rmw
      /\ graph'.cycles = saved.graph.cycles /\ graph'.endless = graph.endless
  BY <1>1, <1>2, RolledBackFacts
<1>5. Orders(graph', order', adjacent', Present) /\ InitialFirst(graph', Present)
  BY <1>2, <1>3, <1>4, OrdersSame
<1> QED BY <1>1, <1>2, <1>3, <1>4, <1>5 DEF OrderInv

\* What ResolveAndCommit makes of a graph, without handing an RMW over.
ResolvedWell(y, g, o, a, P) ==
    /\ WellFormed(y.graph) /\ y.graph.endless = g.endless
    /\ y.ok => Orders(y.graph, o, a, P) /\ InitialFirst(y.graph, P)

LEMMA ResolveOrders ==
    ASSUME NEW g, NEW o, NEW a, NEW P, NEW w, NEW p, NEW o2, NEW a2,
           MergeCase(g, o, a, P, w, p, o2, a2), Ready(g, o, a, P),
           g.rmw[p] = NULL \/ g.edges[w] = <<>>,
           NEW y, y = mergeNodes(g, w, p), NEW Q, Q = P \ {p}
    PROVE  ResolvedWell(y, g, o2, a2, Q)
<1>1. /\ Resolvable(w, p, o, a, P) /\ WellFormed(g) /\ Fits(g, o, a, P) /\ Orders(g, o, a, P)
      /\ P \in SUBSET Nodes /\ Within(g, P) /\ ClosedUp(g, P) /\ PassedOn(g)
      /\ InitialFirst(g, P)
  BY DEF MergeCase, Ready, Orders
<1>2. PICK rank : Ranks(rank, g, P)
  BY <1>1 DEF Orders
<1>3. MergesInto(g, w, p, P, rank)
  <2>1. Ranked(g, P, rank)
    BY <1>1, <1>2 DEF Ranked, WellFormed
  <2>2. g.rmw[w] = NULL
    <3>1. g.rmw[w] # NULL => <<w, g.rmw[w]>> \in a
      BY <1>1 DEF Fits, RMWAsked, Resolvable
    <3> QED BY <1>1, <3>1 DEF Resolvable
  <2>3. g.rmw[p] = NULL \/ \A n \in Nodes : ~HasEdge(g, w, n)
    BY DEF HasEdge, ToSet
  <2> QED BY <1>1, <2>1, <2>2, <2>3 DEF MergesInto, Resolvable
<1>4. Merged(y.graph, g, w, p) /\ (y.ok => ~y.graph.cycles)
  BY <1>3, MergeOrders
<1>5. Resolved(y, g, w, p, o2, a2, Q)
  BY ResolveFits
<1>6. ASSUME y.ok
      PROVE  Orders(y.graph, o2, a2, Q) /\ InitialFirst(y.graph, Q)
  <2> DEFINE k == y.graph
  <2>1. Merged(k, g, w, p) /\ ~k.cycles /\ Within(k, Q)
    BY <1>4, <1>5, <1>6 DEF Resolved, Fits
  <2> HIDE DEF k
  <2>2. \A n \in Nodes : ~HasEdge(k, n, p) /\ ~HasEdge(k, p, n)
    BY <1>1, <2>1 DEF Within, Resolvable
  <2>3. Orders(k, o2, a2, Q) /\ InitialFirst(k, Q)
    BY <1>1, <1>3, <2>1, <2>2, ResolvedOrders
  <2> QED BY <2>3 DEF k
<1> QED BY <1>4, <1>6 DEF Merged, ResolvedWell

LEMMA ResolveOrderInv ==
    ASSUME CGInv, OrderInv, NEW p \in promised, ResolveAndCommit(p)
    PROVE  OrderInv'
<1> SUFFICES ASSUME ~handed' PROVE OrderInv'
  BY DEF OrderInv
<1> DEFINE result == mergeNodes(graph, focus, p)
           order2 == ResolvedOrder(order, focus, p)
           adjacent2 == Substitute(adjacent, p, focus)
           left == Present \ {p}
<1>1. /\ Types /\ Transaction /\ WellFormed(graph) /\ phase = "write" /\ MayResolve(p)
      /\ ~failed /\ ~handed /\ (graph.rmw[p] = NULL \/ graph.edges[focus] = <<>>)
  BY DEF CGInv, Types, Transaction, ResolveAndCommit
<1>2. /\ ~graph.endless /\ Fits(graph, order, adjacent, Present)
      /\ Ready(graph, order, adjacent, Present)
  BY <1>1, ReadyFacts
<1>3. /\ Present \in SUBSET Nodes /\ Initial \in Present /\ Initial \in Nodes
      /\ focus = written /\ focus \in Present /\ focus \in 1..MaxWrites
      /\ p \in Present /\ p \notin 1..MaxWrites /\ focus \in Nodes /\ p # focus
  BY <1>1, PresentFacts DEF Transaction
<1>4. resolvePromise(graph, focus, p) = result
  <2>1. focus # Initial /\ HasEdge(graph, Initial, focus)
    BY <1>1 DEF Transaction
  <2>2. Initial \in ToSet(graph.back[focus])
    BY <1>1, <1>3, <2>1 DEF WellFormed
  <2>3. graph.back[focus] # <<>>
    BY <2>2 DEF ToSet
  <2> QED BY <2>3 DEF resolvePromise
<1>5. /\ graph' = Committed(result.graph) /\ order' = order2 /\ adjacent' = adjacent2
      /\ saved'.graph = graph' /\ saved'.order = order' /\ saved'.adjacent = adjacent'
      /\ failed' = ~result.ok
      /\ phase' = "idle" /\ promised' = promised \ {p} /\ written' = written
  <2> HIDE DEF result
  <2> QED BY <1>4 DEF ResolveAndCommit, CommitTo, ResolvedOrder
<1>6. Present' = left
  <2>1. (1..written) \cup (promised \ {p}) = ((1..written) \cup promised) \ {p}
    BY <1>1, <1>3, CycleGraphAssumption DEF Types
  <2> QED BY <1>5, <2>1 DEF Present
<1>7. MergeCase(graph, order, adjacent, Present, focus, p, order2, adjacent2)
  <2>1. Resolvable(focus, p, order, adjacent, Present)
    BY <1>1, <1>3 DEF Resolvable, MayResolve, Transaction
  <2> QED BY <1>1, <1>2, <2>1 DEF MergeCase
<1>8. /\ result = mergeNodes(graph, focus, p) /\ left = Present \ {p}
  OBVIOUS
<1> HIDE DEF result, order2, adjacent2, left
<1> DEFINE merged == result.graph
<1>9. /\ WellFormed(merged) /\ merged.endless = graph.endless
      /\ result.ok => Orders(merged, order2, adjacent2, left) /\ InitialFirst(merged, left)
  <2>1. ResolvedWell(result, graph, order2, adjacent2, left)
    BY <1>1, <1>2, <1>7, <1>8, ResolveOrders
  <2> QED BY <2>1 DEF ResolvedWell
<1>10. graph' = Committed(merged)
  BY <1>5
<1> HIDE DEF merged
<1>11. /\ graph'.endless = graph.endless
       /\ result.ok => Orders(graph', order2, adjacent2, left) /\ InitialFirst(graph', left)
  BY <1>9, <1>10, CommittedOrders
<1> QED BY <1>2, <1>5, <1>6, <1>11 DEF OrderInv

-----------------------------------------------------------------------------
(***************************************************************************)
(* The result.                                                             *)
(***************************************************************************)
LEMMA OrderInit == Init => OrderInv
<1> SUFFICES ASSUME Init PROVE OrderInv
  OBVIOUS
<1> DEFINE g == EmptyGraph
<1>1. /\ graph = g /\ saved.graph = g /\ written = 1 /\ promised = {}
      /\ order = {} /\ adjacent = {} /\ saved.order = {} /\ saved.adjacent = {}
      /\ Present = {Initial}
  BY DEF Init, Initial, Present
<1>2. /\ ~g.endless /\ g.cycles = FALSE
      /\ \A n \in Nodes : g.edges[n] = <<>> /\ g.rmw[n] = NULL
      /\ Initial \in Nodes
  BY NodeFacts, CycleGraphAssumption DEF EmptyGraph, Nodes, Initial
<1> HIDE DEF g
<1>3. \A f, t \in Nodes : ~HasEdge(g, f, t)
  BY <1>2 DEF HasEdge, ToSet
<1> DEFINE zero == [n \in Nodes |-> 0]
<1>4. zero \in [Nodes -> Int]
  OBVIOUS
<1> HIDE DEF zero
<1>5. (\E rank : Ranks(rank, g, {Initial})) /\ Acyclic(g)
  BY <1>2, <1>3, <1>4 DEF Ranks, Acyclic, Ascends
<1>6. Orders(g, {}, {}, {Initial})
  BY <1>2, <1>3, <1>5 DEF Orders, Once, RMWEdges, PassedOn
<1>7. InitialFirst(g, {Initial})
  BY DEF InitialFirst
<1> QED BY <1>1, <1>2, <1>6, <1>7 DEF OrderInv

LEMMA OrderNext == CGInv /\ OrderInv /\ [Next]_vars => OrderInv'
<1> SUFFICES ASSUME CGInv, OrderInv, [Next]_vars PROVE OrderInv'
  OBVIOUS
<1>1. /\ Types /\ Transaction
      /\ \A p \in promised : p \in Present /\ p \notin 1..MaxWrites
      /\ focus \in Present \/ phase \notin {"read", "future", "write"}
      /\ phase = "write" => focus \in 1..MaxWrites
  BY PresentFacts DEF CGInv, Transaction, Types, Reading
<1>2. ASSUME NEW n \in Present, StartRead(n) \/ StartRMW(n) PROVE OrderInv'
  BY <1>2, StartReadOrderInv, StartRMWOrderInv
<1>3. ASSUME NEW p \in Promises, StartFutureRead(p) PROVE OrderInv'
  BY <1>3, StartFutureReadOrderInv
<1>4. ASSUME NEW n \in Present, ReadEdge(n) \/ WriteEdge(n) PROVE OrderInv'
  <2>1. /\ phase # "idle" /\ focus \in Present /\ n # focus /\ Ask(n, focus)
    BY <1>1, <1>4 DEF ReadEdge, WriteEdge, Reading
  <2> QED BY <2>1, AskOrderInv
<1>5. ASSUME NEW p \in promised, ReadExclusive(p) \/ WriteExclusive(p) PROVE OrderInv'
  <2>1. /\ phase # "idle" /\ focus \in Present /\ p # focus /\ p \in Present /\ Ask(focus, p)
    BY <1>1, <1>5 DEF ReadExclusive, WriteExclusive, Reading
  <2> QED BY <2>1, AskOrderInv
<1>6. ASSUME NEW p \in promised, ResolveAndCommit(p) PROVE OrderInv'
  BY <1>6, ResolveOrderInv
<1>7. CASE CommitRead \/ CommitWrite
  <2>1. /\ phase # "idle" /\ phase' = "idle" /\ CommitTo(graph, order, adjacent)
        /\ UNCHANGED <<written, promised, failed, handed>>
    BY <1>7 DEF CommitRead, CommitWrite, Reading
  <2> QED BY <2>1, CommitOrderInv
<1>8. CASE Rollback
  BY <1>8, RollbackOrderInv
<1>9. CASE StartWrite
  BY <1>9, StartWriteOrderInv
<1>10. CASE UNCHANGED vars
  BY <1>10 DEF vars, OrderInv, Present
<1>11. CASE Ended
  BY <1>10, <1>11 DEF Ended
<1> QED BY <1>2, <1>3, <1>4, <1>5, <1>6, <1>7, <1>8, <1>9, <1>10, <1>11 DEF Next

LEMMA OrderFollows == CGInv /\ OrderInv => OnlyHandoverFails
<1> SUFFICES ASSUME CGInv, OrderInv, ~handed PROVE FeasiblePrefixHasOrder /\ NoEndlessChain
  BY DEF OnlyHandoverFails
<1>1. ASSUME Feasible PROVE OrderLeft
  <2>1. Orderly(graph, order, adjacent, Present)
    BY <1>1, ReadyFacts DEF Orderly, Feasible
  <2>2. PICK at \in Places : Fulfils(at, order, adjacent, Present)
    BY <2>1, OrderExists
  <2> QED BY <2>2 DEF OrderLeft, Respects, Fulfils
<1> QED BY <1>1, ReadyFacts DEF FeasiblePrefixHasOrder, NoEndlessChain

\* Until mergeNodes hands the RMW of a promise over to a write with edges of its
\* own, an execution whose CycleGraph reports no cycle has a modification order
\* in which every RMW comes right after the write it reads from: following the
\* RMW chain in addNodeEdge, and copying the edges of the write in addRMWEdge,
\* is all it takes.  And the loop of addNodeEdge along that chain ends.
THEOREM OnlyHandoverCanFail == Spec => []OnlyHandoverFails
<1>1. Init => CGInv /\ OrderInv
  BY CGInit, OrderInit
<1>2. CGInv /\ OrderInv /\ [Next]_vars => (CGInv /\ OrderInv)'
  BY CGNext, OrderNext
<1>3. CGInv /\ OrderInv => OnlyHandoverFails
  BY OrderFollows
<1> QED BY <1>1, <1>2, <1>3, PTL DEF Spec
=============================================================================
