-------------------------- MODULE CycleGraphProofs --------------------------
(***************************************************************************)
(* What CycleGraph claims is true, for any number of writes, promises and  *)
(* edges: no execution is dropped that has a modification order left, and  *)
(* checkReachable finds only what every order left has.  A transaction     *)
(* that is rolled back leaves the graph as it was.                         *)
(*                                                                         *)
(* The orders are judged by placings, which give every node a place of its *)
(* own: Sound says that every placing that obeys what was asked for goes   *)
(* up along every edge, so that a cycle leaves none.                       *)
(***************************************************************************)
EXTENDS CycleGraph, FiniteSetTheorems, WellFoundedInduction, TLAPS

Graphs ==
    [edges : [Nodes -> Seq(Nodes)], back : [Nodes -> Seq(Nodes)],
     rmw : [Nodes -> 1..MaxWrites \cup {NULL}],
     cycles : BOOLEAN, oldCycles : BOOLEAN, endless : BOOLEAN,
     rollback : Seq(Nodes), rmwRollback : Seq(Nodes)]

NoRepeat(s) == \A i, j \in DOMAIN s : s[i] = s[j] => i = j

\* Both ends of an edge know it, and know it once.
WellFormed(g) ==
    /\ g \in Graphs
    /\ \A f, t \in Nodes : HasEdge(g, f, t) <=> f \in ToSet(g.back[t])
    /\ \A n \in Nodes : NoRepeat(g.edges[n]) /\ NoRepeat(g.back[n]) /\ ~HasEdge(g, n, n)

Placings == {at \in [Nodes -> Int] : \A m, n \in Nodes : at[m] = at[n] => m = n}

\* A placing of the nodes respects order o and adjacency a among the nodes of P.
Obeys(at, o, a, P) ==
    /\ \A e \in o \cup a : at[e[1]] < at[e[2]]
    /\ \A e \in a, n \in P : ~(at[e[1]] < at[n] /\ at[n] < at[e[2]])

Ascends(g, at) == \A f, t \in Nodes : HasEdge(g, f, t) => at[f] < at[t]

Sound(g, o, a, P) ==
    \A at \in Placings : Obeys(at, o, a, P) => Ascends(g, at) /\ ~g.cycles

\* Graph g fits what was asked for: it is about the nodes of P, its RMWs are
\* those asked for, and it is sound.
Within(g, P) == \A f, t \in Nodes : HasEdge(g, f, t) => f \in P /\ t \in P
RMWAsked(g, a, P) == \A n \in P : g.rmw[n] # NULL => <<n, g.rmw[n]>> \in a
Pairs(o, a, P) == o \subseteq Nodes \X Nodes /\ a \subseteq P \X (P \cap (1..MaxWrites))

Fits(g, o, a, P) ==
    Within(g, P) /\ RMWAsked(g, a, P) /\ Pairs(o, a, P) /\ Sound(g, o, a, P)

\* How often a node occurs in the rollback vector.
Times(s, n) == Cardinality({i \in DOMAIN s : s[i] = n})

Size(g, n)  == Len(g.edges[n])
Marks(g, n) == Times(g.rollback, n)

Begins(s, r) == Len(s) <= Len(r) /\ \A i \in DOMAIN s : r[i] = s[i]

\* Graph g is the committed graph s and the edges in its rollback vector.
Extends(g, s) ==
    /\ \A n \in Nodes : /\ Begins(s.edges[n], g.edges[n])
                        /\ Begins(s.back[n], g.back[n])
                        /\ Size(g, n) = Size(s, n) + Marks(g, n)
    /\ g.rmw = s.rmw
    /\ g.oldCycles = s.cycles
    /\ g.rmwRollback = <<>>
    /\ s.endless => g.endless

\* As commitChanges leaves a graph.
Settled(g) == g.rollback = <<>> /\ g.rmwRollback = <<>> /\ g.oldCycles = g.cycles

Types ==
    /\ phase \in {"idle", "read", "future", "write"}
    /\ written \in 1..MaxWrites
    /\ promised \subseteq made /\ made \subseteq Promises
    /\ failed \in BOOLEAN
    /\ WellFormed(graph)
    /\ WellFormed(saved.graph)

\* Nothing reads from a node that is not there yet.
Unread(g) == \A n \in Nodes \ ((1..written) \cup made) : g.rmw[n] = NULL

Transaction ==
    /\ Extends(graph, saved.graph)
    /\ Settled(saved.graph)
    /\ phase = "idle" => Settled(graph)
    /\ phase # "idle" => ~failed
    /\ Reading => focus \in Present
    /\ phase = "write" => /\ focus = written /\ focus # Initial
                          /\ HasEdge(graph, Initial, focus)
                          /\ \A e \in adjacent : e[1] # focus

Judgement ==
    /\ ~failed => Fits(graph, order, adjacent, Present)
    /\ ~failed /\ phase \in {"idle", "read"} =>
          Fits(saved.graph, saved.order, saved.adjacent, Present)
    /\ failed => \A at \in Placings : ~Obeys(at, order, adjacent, Present)

CGInv == Types /\ Unread(graph) /\ Transaction /\ Judgement
-----------------------------------------------------------------------------
(***************************************************************************)
(* Recursion and induction over the numbers 0..n, which the loops of the   *)
(* code are modelled by.                                                   *)
(***************************************************************************)
LEMMA Least ==
    ASSUME NEW S \in SUBSET Nat, S # {}
    PROVE  \E i \in S : \A j \in S : i <= j
<1>1. PICK i \in S : \A j \in S : ~(<<j, i>> \in OpToRel(<, Nat))
  BY WFMin, NatLessThanWellFounded
<1>2. \A j \in S : ~(j < i)
  BY <1>1 DEF OpToRel
<1> QED BY <1>2

\* What holds at 0 and is passed on holds up to n.
LEMMA Induction ==
    ASSUME NEW n \in Nat, NEW A \in SUBSET (0..n), 0 \in A,
           \A i \in 1..n : i-1 \in A => i \in A
    PROVE  A = 0..n
<1> DEFINE Out == (0..n) \ A
<1> SUFFICES ASSUME Out # {} PROVE FALSE
  OBVIOUS
<1>1. PICK k \in Out : \A j \in Out : k <= j
  <2>1. Out \in SUBSET Nat
    OBVIOUS
  <2> HIDE DEF Out
  <2> QED BY <2>1, Least
<1>2. k \in 1..n /\ k-1 \in 0..n /\ ~(k <= k-1)
  OBVIOUS
<1>3. k-1 \in A
  BY <1>1, <1>2
<1> QED BY <1>2, <1>3

\* What the n iterations of a loop make of a, F being its body.
Iterates(f, V, a, n, F) ==
    f \in [0..n -> V] /\ f[0] = a /\ \A i \in 1..n : f[i] = F[<<i, f[i-1]>>]

LEMMA Iteration ==
    ASSUME NEW V, NEW a \in V, NEW n \in Nat, NEW F \in [(1..n) \X V -> V]
    PROVE  \E f : Iterates(f, V, a, n, F)
<1> DEFINE Reaches(k) == \E f \in [0..k -> V] :
                            f[0] = a /\ \A i \in 1..k : f[i] = F[<<i, f[i-1]>>]
           A == {k \in 0..n : Reaches(k)}
<1>1. 0 \in A
  <2> DEFINE f == [i \in 0..0 |-> a]
  <2>1. f \in [0..0 -> V] /\ f[0] = a /\ \A i \in 1..0 : f[i] = F[<<i, f[i-1]>>]
    OBVIOUS
  <2>2. Reaches(0)
    BY <2>1
  <2> QED BY <2>2
<1>2. ASSUME NEW k \in 1..n, k-1 \in A
      PROVE  k \in A
  <2>1. PICK g \in [0..k-1 -> V] : g[0] = a /\ \A i \in 1..k-1 : g[i] = F[<<i, g[i-1]>>]
    BY <1>2
  <2>2. F[<<k, g[k-1]>>] \in V
    <3>1. <<k, g[k-1]>> \in (1..n) \X V
      BY <2>1
    <3> QED BY <3>1
  <2> DEFINE f == [i \in 0..k |-> IF i = k THEN F[<<k, g[k-1]>>] ELSE g[i]]
  <2>3. f \in [0..k -> V]
    BY <2>1, <2>2
  <2>4. f[0] = a
    BY <2>1
  <2>5. ASSUME NEW i \in 1..k PROVE f[i] = F[<<i, f[i-1]>>]
    <3>1. i-1 \in 0..k-1 /\ i-1 # k /\ i \in 0..k /\ i-1 \in 0..k
      OBVIOUS
    <3>2. f[i-1] = g[i-1]
      BY <3>1
    <3>3. CASE i = k
      BY <3>1, <3>2, <3>3
    <3>4. CASE i # k
      <4>1. i \in 1..k-1 /\ f[i] = g[i]
        BY <3>1, <3>4
      <4> QED BY <2>1, <3>2, <4>1
    <3> QED BY <3>3, <3>4
  <2> HIDE DEF f
  <2>6. Reaches(k)
    BY <2>3, <2>4, <2>5
  <2> HIDE DEF Reaches
  <2> QED BY <2>6
<1>3. A = 0..n
  <2> HIDE DEF Reaches
  <2>1. A \in SUBSET (0..n)
    OBVIOUS
  <2> HIDE DEF A
  <2> QED BY <1>1, <1>2, <2>1, Induction
<1>4. Reaches(n)
  BY <1>3
<1> QED BY <1>4 DEF Iterates
-----------------------------------------------------------------------------
(***************************************************************************)
(* Sequences without repetition.                                           *)
(***************************************************************************)
LEMMA AppendFacts ==
    ASSUME NEW S, NEW s \in Seq(S), NEW e \in S
    PROVE  /\ Append(s, e) \in Seq(S)
           /\ Len(Append(s, e)) = Len(s) + 1
           /\ Append(s, e)[Len(s) + 1] = e
           /\ \A i \in 1..Len(s) : Append(s, e)[i] = s[i]
           /\ ToSet(Append(s, e)) = ToSet(s) \cup {e}
           /\ NoRepeat(s) /\ e \notin ToSet(s) => NoRepeat(Append(s, e))
<1> DEFINE r == Append(s, e)
<1>1. r \in Seq(S) /\ Len(r) = Len(s)+1 /\ r[Len(s)+1] = e /\ \A i \in 1..Len(s) : r[i] = s[i]
  OBVIOUS
<1>2. DOMAIN r = 1..Len(s)+1 /\ DOMAIN s = 1..Len(s) /\ Len(s) \in Nat
  BY <1>1
<1> HIDE DEF r
<1>3. ToSet(r) = ToSet(s) \cup {e}
  <2>1. \A i \in DOMAIN r : r[i] \in ToSet(s) \cup {e}
    BY <1>1, <1>2 DEF ToSet
  <2>2. e \in ToSet(r) /\ \A i \in DOMAIN s : s[i] \in ToSet(r)
    BY <1>1, <1>2 DEF ToSet
  <2> QED BY <2>1, <2>2 DEF ToSet
<1>4. ASSUME NoRepeat(s), e \notin ToSet(s) PROVE NoRepeat(r)
  BY <1>1, <1>2, <1>4 DEF NoRepeat, ToSet
<1> QED BY <1>1, <1>3, <1>4 DEF r

LEMMA FrontFacts ==
    ASSUME NEW S, NEW s \in Seq(S), s # <<>>
    PROVE  /\ Front(s) \in Seq(S)
           /\ Len(Front(s)) = Len(s) - 1
           /\ \A i \in 1..Len(s)-1 : Front(s)[i] = s[i]
           /\ Last(s) \in S /\ Last(s) = s[Len(s)] /\ Len(s) \in DOMAIN s
           /\ NoRepeat(s) => /\ NoRepeat(Front(s))
                             /\ ToSet(Front(s)) = ToSet(s) \ {Last(s)}
<1> DEFINE r == Front(s)
<1>0. Len(s) \in Nat \ {0} /\ DOMAIN s = 1..Len(s)
  OBVIOUS
<1>1. r \in Seq(S) /\ Len(r) = Len(s)-1 /\ \A i \in 1..Len(s)-1 : r[i] = s[i]
  <2>1. r = SubSeq(s, 1, Len(s)-1)
    BY DEF Front
  <2> HIDE DEF r
  <2> QED BY <1>0, <2>1
<1>2. DOMAIN r = 1..Len(s)-1 /\ DOMAIN s = 1..Len(s) /\ Len(s) \in Nat \ {0}
  BY <1>0, <1>1
<1> HIDE DEF r
<1>3. Last(s) \in S /\ Last(s) = s[Len(s)] /\ Len(s) \in DOMAIN s
  BY <1>2 DEF Last
<1>4. ASSUME NoRepeat(s) PROVE NoRepeat(r) /\ ToSet(r) = ToSet(s) \ {Last(s)}
  <2>1. NoRepeat(r)
    BY <1>1, <1>2, <1>4 DEF NoRepeat
  <2>2. ASSUME NEW i \in DOMAIN r PROVE r[i] \in ToSet(s) \ {Last(s)}
    BY <1>1, <1>2, <1>3, <1>4 DEF NoRepeat, ToSet
  <2>3. ASSUME NEW i \in DOMAIN s, s[i] # Last(s) PROVE s[i] \in ToSet(r)
    <3>1. i \in DOMAIN r /\ r[i] = s[i]
      BY <1>1, <1>2, <1>3, <2>3
    <3> QED BY <3>1 DEF ToSet
  <2> QED BY <2>1, <2>2, <2>3 DEF ToSet
<1> QED BY <1>1, <1>3, <1>4 DEF r

LEMMA RemoveAtFacts ==
    ASSUME NEW S, NEW s \in Seq(S), NEW q \in 1..Len(s)
    PROVE  /\ RemoveAt(s, q) \in Seq(S)
           /\ Len(RemoveAt(s, q)) = Len(s)-1
           /\ \A j \in 1..q-1 : RemoveAt(s, q)[j] = s[j]
           /\ \A j \in q..Len(s)-1 : RemoveAt(s, q)[j] = s[j+1]
<1> DEFINE front == SubSeq(s, 1, q-1)
           tail  == SubSeq(s, q+1, Len(s))
           r     == front \o tail
<1>1. front \in Seq(S) /\ Len(front) = q-1 /\ \A j \in 1..q-1 : front[j] = s[j]
  OBVIOUS
<1>2. tail \in Seq(S) /\ Len(tail) = Len(s)-q /\ \A j \in 1..Len(s)-q : tail[j] = s[q+j]
  OBVIOUS
<1> HIDE DEF front, tail
<1>3. r \in Seq(S) /\ Len(r) = Len(s)-1
  <2>1. front \in Seq(S) /\ tail \in Seq(S)
    BY <1>1, <1>2
  <2>2. r \in Seq(S)
    BY <2>1
  <2>3. Len(r) = Len(front) + Len(tail)
    BY <2>1
  <2> HIDE DEF r
  <2> QED BY <1>1, <1>2, <2>2, <2>3
<1>4. \A j \in 1..q-1 : r[j] = s[j]
  BY <1>1, <1>2
<1>5. ASSUME NEW j \in q..Len(s)-1 PROVE r[j] = s[j+1]
  <2>1. r[j] = tail[j-q+1] /\ j-q+1 \in 1..Len(s)-q
    BY <1>1, <1>2, <1>3
  <2> QED BY <1>2, <2>1
<1>6. r = RemoveAt(s, q)
  BY DEF RemoveAt, front, tail
<1> QED BY <1>3, <1>4, <1>5, <1>6

\* vector_remove_node.
LEMMA RemoveFirstFacts ==
    ASSUME NEW S, NEW s \in Seq(S), NEW e
    PROVE  /\ RemoveFirst(s, e) \in Seq(S)
           /\ NoRepeat(s) => /\ NoRepeat(RemoveFirst(s, e))
                             /\ ToSet(RemoveFirst(s, e)) = ToSet(s) \ {e}
           /\ \A k \in 0..Len(s) : (\A i \in 1..k : s[i] # e) =>
                 /\ k <= Len(RemoveFirst(s, e))
                 /\ \A i \in 1..k : RemoveFirst(s, e)[i] = s[i]
<1> DEFINE r == RemoveFirst(s, e)
<1>0. DOMAIN s = 1..Len(s) /\ Len(s) \in Nat
  OBVIOUS
<1>1. CASE ~\E i \in 1..Len(s) : s[i] = e
  <2>1. r = s
    BY <1>1 DEF RemoveFirst
  <2>2. e \notin ToSet(s)
    BY <1>0, <1>1 DEF ToSet
  <2> QED BY <1>0, <2>1, <2>2
<1>2. CASE \E i \in 1..Len(s) : s[i] = e
  <2> DEFINE I == {i \in 1..Len(s) : s[i] = e}
             q == Min(I)
  <2>1. q \in I /\ \A i \in I : q <= i
    <3>0. I \in SUBSET Nat /\ I # {}
      BY <1>2
    <3>1. \E i \in I : \A j \in I : i <= j
      <4> HIDE DEF I
      <4> QED BY <3>0, Least
    <3> QED BY <3>1 DEF Min
  <2>2. r = RemoveAt(s, q)
    <3>1. SelectInSeq(s, LAMBDA v : v = e) = q
      BY <1>2 DEF SelectInSeq
    <3> QED BY <1>2, <3>1 DEF RemoveFirst
  <2> HIDE DEF q
  <2>3. q \in 1..Len(s) /\ s[q] = e /\ \A i \in 1..q-1 : s[i] # e
    BY <1>0, <2>1
  <2> DEFINE front == SubSeq(s, 1, q-1)
             tail == SubSeq(s, q+1, Len(s))
  <2>7. /\ r \in Seq(S) /\ Len(r) = Len(s)-1
        /\ \A j \in 1..q-1 : r[j] = s[j]
        /\ \A j \in q..Len(s)-1 : r[j] = s[j+1]
    <3>1. q \in 1..Len(s)
      BY <2>3
    <3> HIDE DEF r
    <3> QED BY <2>2, <3>1, RemoveAtFacts
  <2>8. \A j \in 1..q-1 : r[j] = s[j]
    BY <2>7
  <2>9. \A j \in q..Len(s)-1 : r[j] = s[j+1]
    BY <2>7
  <2> HIDE DEF r
  <2>10. \A j \in DOMAIN r : (j < q /\ r[j] = s[j]) \/ (j >= q /\ r[j] = s[j+1] /\ j+1 \in 1..Len(s))
    BY <1>0, <2>3, <2>7
  <2>11. ASSUME NoRepeat(s) PROVE NoRepeat(r) /\ ToSet(r) = ToSet(s) \ {e}
    <3>1. NoRepeat(r)
      BY <1>0, <2>3, <2>7, <2>10, <2>11 DEF NoRepeat
    <3>2. ASSUME NEW j \in DOMAIN r PROVE r[j] \in ToSet(s) \ {e}
      BY <1>0, <2>3, <2>7, <2>10, <2>11 DEF NoRepeat, ToSet
    <3>3. ASSUME NEW i \in DOMAIN s, s[i] # e PROVE s[i] \in ToSet(r)
      <4>1. CASE i < q
        <5>1. i \in DOMAIN r /\ r[i] = s[i]
          BY <1>0, <2>3, <2>7, <2>8, <4>1
        <5> QED BY <5>1 DEF ToSet
      <4>2. CASE ~(i < q)
        <5>1. i # q
          BY <2>3, <3>3
        <5>2. i-1 \in q..Len(s)-1 /\ (i-1)+1 = i
          BY <1>0, <2>3, <4>2, <5>1
        <5>3. i-1 \in DOMAIN r /\ r[i-1] = s[i]
          BY <1>0, <2>3, <2>7, <2>9, <5>2
        <5> QED BY <5>3 DEF ToSet
      <4> QED BY <4>1, <4>2
    <3> QED BY <3>1, <3>2, <3>3 DEF ToSet
  <2>12. ASSUME NEW k \in 0..Len(s), \A i \in 1..k : s[i] # e
         PROVE  k <= Len(r) /\ \A i \in 1..k : r[i] = s[i]
    <3>1. k < q
      BY <1>0, <2>3, <2>12
    <3> QED BY <1>0, <2>3, <2>7, <2>8, <3>1
  <2> QED BY <2>7, <2>11, <2>12 DEF r
<1> QED BY <1>1, <1>2

LEMMA ReverseFacts ==
    ASSUME NEW S, NEW s \in Seq(S)
    PROVE  /\ Reverse(s) \in Seq(S)
           /\ Len(Reverse(s)) = Len(s)
           /\ ToSet(Reverse(s)) = ToSet(s)
<1> DEFINE r == Reverse(s)
<1>1. r \in Seq(S) /\ Len(r) = Len(s)
  BY DEF Reverse
<1>2. DOMAIN r = 1..Len(s) /\ DOMAIN s = 1..Len(s) /\ Len(s) \in Nat
  BY <1>1
<1>3. \A i \in 1..Len(s) : r[i] = s[(Len(s)-i)+1] /\ (Len(s)-i)+1 \in 1..Len(s)
  BY <1>2 DEF Reverse
<1> HIDE DEF r
<1>4. \A i \in DOMAIN r : r[i] \in ToSet(s)
  BY <1>2, <1>3 DEF ToSet
<1>5. ASSUME NEW i \in DOMAIN s PROVE s[i] \in ToSet(r)
  <2>1. (Len(s)-i)+1 \in 1..Len(s) /\ (Len(s)-((Len(s)-i)+1))+1 = i
    BY <1>2
  <2>2. r[(Len(s)-i)+1] = s[i]
    BY <1>3, <2>1
  <2> QED BY <1>2, <2>1, <2>2 DEF ToSet
<1> QED BY <1>1, <1>4, <1>5 DEF ToSet, r

\* Appending to the rollback vector counts one more.
LEMMA TimesAppend ==
    ASSUME NEW S, NEW s \in Seq(S), NEW e \in S, NEW n
    PROVE  /\ Times(s, n) \in Nat
           /\ n = e => Times(Append(s, e), n) = Times(s, n) + 1
           /\ n # e => Times(Append(s, e), n) = Times(s, n)
<1> DEFINE I == {i \in DOMAIN s : s[i] = n}
           J == {i \in DOMAIN Append(s, e) : Append(s, e)[i] = n}
<1>0. Times(s, n) = Cardinality(I) /\ Times(Append(s, e), n) = Cardinality(J)
  BY DEF Times
<1>1. DOMAIN s = 1..Len(s) /\ Len(s) \in Nat /\ Len(s) \in Int
  OBVIOUS
<1>2. IsFiniteSet(I)
  <2>1. IsFiniteSet(1..Len(s))
    BY <1>1, FS_Interval
  <2> QED BY <1>1, <2>1, FS_Subset
<1>3. Cardinality(I) \in Nat
  BY <1>2, FS_CardinalityType
<1>4. DOMAIN Append(s, e) = 1..Len(s)+1
  OBVIOUS
<1>5. CASE n = e
  <2>1. J = I \cup {Len(s)+1}
    BY <1>1, <1>4, <1>5, AppendFacts
  <2>2. Len(s)+1 \notin I
    BY <1>1
  <2> HIDE DEF I, J
  <2>3. Cardinality(J) = Cardinality(I) + 1
    BY <1>2, <2>1, <2>2, FS_AddElement
  <2> QED BY <1>0, <1>3, <1>5, <2>3
<1>6. CASE n # e
  <2>1. J = I
    BY <1>1, <1>4, <1>6, AppendFacts
  <2> HIDE DEF I, J
  <2> QED BY <1>0, <1>3, <1>6, <2>1
<1> QED BY <1>5, <1>6
-----------------------------------------------------------------------------
(***************************************************************************)
(* The graph: its records, the search for a path, the walk along a chain.  *)
(***************************************************************************)
LEMMA NodeFacts ==
    /\ IsFiniteSet(Nodes) /\ Cardinality(Nodes) \in Nat
    /\ NULL \notin Nodes
    /\ 1..MaxWrites \subseteq Nodes /\ Initial \in 1..MaxWrites
    /\ Promises \subseteq Nodes /\ Promises \cap (1..MaxWrites) = {}
<1>1. MaxWrites \in Nat \ {0} /\ IsFiniteSet(Promises) /\ Promises \cap (0..MaxWrites) = {}
  BY CycleGraphAssumption
<1>2. IsFiniteSet(1..MaxWrites)
  BY <1>1, FS_Interval
<1>3. IsFiniteSet(Nodes)
  BY <1>1, <1>2, FS_Union DEF Nodes
<1>4. NULL \notin Nodes
  <2>1. 0 \in 0..MaxWrites /\ 0 \notin 1..MaxWrites
    BY <1>1
  <2> QED BY <1>1, <2>1 DEF Nodes, NULL
<1>5. 1..MaxWrites \subseteq 0..MaxWrites /\ 1 \in 1..MaxWrites
  BY <1>1
<1> QED BY <1>1, <1>3, <1>4, <1>5, FS_CardinalityType DEF Nodes, Initial

LEMMA GraphFields ==
    ASSUME NEW g \in Graphs
    PROVE  /\ g.edges \in [Nodes -> Seq(Nodes)] /\ g.back \in [Nodes -> Seq(Nodes)]
           /\ g.rmw \in [Nodes -> 1..MaxWrites \cup {NULL}]
           /\ g.cycles \in BOOLEAN /\ g.oldCycles \in BOOLEAN /\ g.endless \in BOOLEAN
           /\ g.rollback \in Seq(Nodes) /\ g.rmwRollback \in Seq(Nodes)
BY DEF Graphs

\* Graphs that differ in their edges alone.
SameRest(g, h) ==
    /\ h.rmw = g.rmw /\ h.cycles = g.cycles /\ h.oldCycles = g.oldCycles
    /\ h.endless = g.endless
    /\ h.rollback = g.rollback /\ h.rmwRollback = g.rmwRollback

WithEdges(g, edges, back) == [g EXCEPT !.edges = edges, !.back = back]

LEMMA WithEdgesFacts ==
    ASSUME NEW g \in Graphs,
           NEW edges \in [Nodes -> Seq(Nodes)], NEW back \in [Nodes -> Seq(Nodes)]
    PROVE  /\ WithEdges(g, edges, back) \in Graphs
           /\ WithEdges(g, edges, back).edges = edges
           /\ WithEdges(g, edges, back).back = back
           /\ SameRest(g, WithEdges(g, edges, back))
BY DEF WithEdges, Graphs, SameRest

LEMMA LinkIs ==
    ASSUME NEW g \in Graphs, NEW f \in Nodes, NEW t \in Nodes, ~HasEdge(g, f, t)
    PROVE  Link(g, f, t) = WithEdges(g, [g.edges EXCEPT ![f] = Append(g.edges[f], t)],
                                        [g.back EXCEPT ![t] = Append(g.back[t], f)])
BY DEF Link, WithEdges, Graphs

\* Graph h has one edge more.
OneMore(g, h, f, t) ==
    \A m, n \in Nodes : HasEdge(h, m, n) <=> HasEdge(g, m, n) \/ (m = f /\ n = t)

\* The edges after Link.
LEMMA LinkFacts ==
    ASSUME NEW g, WellFormed(g), NEW f \in Nodes, NEW t \in Nodes, f # t, ~HasEdge(g, f, t),
           NEW h, h = Link(g, f, t)
    PROVE  /\ WellFormed(h) /\ OneMore(g, h, f, t)
           /\ h.edges = [g.edges EXCEPT ![f] = Append(g.edges[f], t)]
           /\ h.back = [g.back EXCEPT ![t] = Append(g.back[t], f)]
           /\ SameRest(g, h)
<1> DEFINE newEdges == [g.edges EXCEPT ![f] = Append(g.edges[f], t)]
           newBack == [g.back EXCEPT ![t] = Append(g.back[t], f)]
<1>1. /\ g \in Graphs /\ g.edges \in [Nodes -> Seq(Nodes)] /\ g.back \in [Nodes -> Seq(Nodes)]
      /\ g.edges[f] \in Seq(Nodes) /\ g.back[t] \in Seq(Nodes)
  BY GraphFields DEF WellFormed
<1>2. /\ Append(g.edges[f], t) \in Seq(Nodes)
      /\ ToSet(Append(g.edges[f], t)) = ToSet(g.edges[f]) \cup {t}
      /\ NoRepeat(g.edges[f]) /\ t \notin ToSet(g.edges[f]) => NoRepeat(Append(g.edges[f], t))
  BY <1>1, AppendFacts
<1>3. /\ Append(g.back[t], f) \in Seq(Nodes)
      /\ ToSet(Append(g.back[t], f)) = ToSet(g.back[t]) \cup {f}
      /\ NoRepeat(g.back[t]) /\ f \notin ToSet(g.back[t]) => NoRepeat(Append(g.back[t], f))
  BY <1>1, AppendFacts
<1>4. newEdges \in [Nodes -> Seq(Nodes)] /\ newBack \in [Nodes -> Seq(Nodes)]
  BY <1>1, <1>2, <1>3
<1>5. /\ h \in Graphs /\ h.edges = newEdges /\ h.back = newBack
      /\ SameRest(g, h)
  <2>1. h = WithEdges(g, newEdges, newBack)
    BY <1>1, LinkIs
  <2> HIDE DEF newEdges, newBack
  <2>2. /\ WithEdges(g, newEdges, newBack) \in Graphs
        /\ WithEdges(g, newEdges, newBack).edges = newEdges
        /\ WithEdges(g, newEdges, newBack).back = newBack
        /\ SameRest(g, WithEdges(g, newEdges, newBack))
    BY <1>1, <1>4, WithEdgesFacts
  <2> QED BY <2>1, <2>2
<1>6. \A n \in Nodes : /\ h.edges[n] = IF n = f THEN Append(g.edges[f], t) ELSE g.edges[n]
                       /\ h.back[n] = IF n = t THEN Append(g.back[t], f) ELSE g.back[n]
  BY <1>1, <1>5
<1> HIDE DEF newEdges, newBack
<1>7. \A m, n \in Nodes : /\ HasEdge(h, m, n) <=> HasEdge(g, m, n) \/ (m = f /\ n = t)
                          /\ m \in ToSet(h.back[n]) <=> m \in ToSet(g.back[n]) \/ (m = f /\ n = t)
  BY <1>2, <1>3, <1>6 DEF HasEdge
<1>8. \A m, n \in Nodes : HasEdge(h, m, n) <=> m \in ToSet(h.back[n])
  BY <1>7 DEF WellFormed
<1>9. ASSUME NEW n \in Nodes
      PROVE  NoRepeat(h.edges[n]) /\ NoRepeat(h.back[n]) /\ ~HasEdge(h, n, n)
  <2>1. t \notin ToSet(g.edges[f]) /\ f \notin ToSet(g.back[t])
    BY DEF WellFormed, HasEdge
  <2>2. NoRepeat(g.edges[n]) /\ NoRepeat(g.back[n]) /\ ~HasEdge(g, n, n)
    BY DEF WellFormed
  <2> QED BY <1>2, <1>3, <1>6, <1>7, <2>1, <2>2
<1>10. WellFormed(h)
  BY <1>5, <1>8, <1>9 DEF WellFormed
<1>11. OneMore(g, h, f, t)
  BY <1>7 DEF OneMore
<1> QED BY <1>5, <1>10, <1>11 DEF newEdges, newBack

\* A placing that goes up along the edges, weakly, goes up along the paths.
Climbs(g, at) == \A f, t \in Nodes : HasEdge(g, f, t) => at[f] <= at[t]

LEMMA PathsClimb ==
    ASSUME NEW g \in Graphs, NEW n \in Nodes, NEW m \in Nodes, NEW at \in [Nodes -> Int],
           Climbs(g, at), checkReachable(g, n, m)
    PROVE  at[n] <= at[m]
<1> DEFINE N == Cardinality(Nodes)
           upTo[i \in 0..N] ==
              IF i = 0 THEN {n}
              ELSE LET seen == upTo[i-1] IN seen \cup UNION {ToSet(g.edges[x]) : x \in seen}
           V == SUBSET Nodes
           F == [e \in (1..N) \X V |-> e[2] \cup UNION {ToSet(g.edges[x]) : x \in e[2]}]
           Solves(u) == u = [i \in 0..N |->
              IF i = 0 THEN {n}
              ELSE LET seen == u[i-1] IN seen \cup UNION {ToSet(g.edges[x]) : x \in seen}]
<1>1. N \in Nat /\ {n} \in V
  BY NodeFacts
<1>2. \A x \in Nodes : ToSet(g.edges[x]) \subseteq Nodes
  BY GraphFields DEF ToSet
<1>3. F \in [(1..N) \X V -> V]
  BY <1>2
<1>4. \E u : Iterates(u, V, {n}, N, F)
  <2> HIDE DEF N, V, F
  <2> QED BY <1>1, <1>3, Iteration, Zenon
<1>5. PICK u \in [0..N -> V] : u[0] = {n} /\ \A i \in 1..N : u[i] = F[<<i, u[i-1]>>]
  <2> HIDE DEF N, V, F
  <2> QED BY <1>4 DEF Iterates
<1>6. Solves(u)
  <2>1. ASSUME NEW i \in 0..N, i # 0
        PROVE  u[i] = u[i-1] \cup UNION {ToSet(g.edges[x]) : x \in u[i-1]}
    <3>1. i \in 1..N /\ i-1 \in 0..N
      BY <1>1, <2>1
    <3>2. <<i, u[i-1]>> \in (1..N) \X V
      BY <1>5, <3>1
    <3> QED BY <1>5, <3>1, <3>2
  <2> QED BY <1>5, <2>1
<1>7. Solves(upTo)
  <2>1. upTo = CHOOSE v : Solves(v)
    OBVIOUS
  <2> HIDE DEF upTo, Solves
  <2> QED BY <1>6, <2>1
<1>8. m \in upTo[N]
  BY DEF checkReachable, ReachableFrom
<1> HIDE DEF upTo
<1>9. upTo[0] = {n}
  BY <1>1, <1>7
<1>10. ASSUME NEW i \in 1..N
       PROVE  upTo[i] = upTo[i-1] \cup UNION {ToSet(g.edges[x]) : x \in upTo[i-1]}
  <2>1. i \in 0..N /\ i # 0
    BY <1>1
  <2> QED BY <1>7, <2>1
<1> HIDE DEF Solves, N
<1> DEFINE A == {i \in 0..N : \A x \in upTo[i] : x \in Nodes /\ at[n] <= at[x]}
<1>11. 0 \in A
  BY <1>1, <1>9
<1>12. ASSUME NEW i \in 1..N, i-1 \in A PROVE i \in A
  <2> SUFFICES ASSUME NEW y \in upTo[i] PROVE y \in Nodes /\ at[n] <= at[y]
    OBVIOUS
  <2>1. CASE y \in upTo[i-1]
    BY <1>12, <2>1
  <2>2. CASE y \notin upTo[i-1]
    <3>1. PICK x \in upTo[i-1] : y \in ToSet(g.edges[x])
      BY <1>10, <2>2
    <3>2. x \in Nodes /\ at[n] <= at[x]
      BY <1>12, <3>1
    <3>3. y \in Nodes /\ HasEdge(g, x, y)
      BY <1>2, <3>1, <3>2 DEF HasEdge
    <3>4. at[x] <= at[y]
      BY <3>2, <3>3 DEF Climbs
    <3>5. at[n] \in Int /\ at[x] \in Int /\ at[y] \in Int
      BY <3>2, <3>3
    <3> QED BY <3>2, <3>3, <3>4, <3>5
  <2> QED BY <2>1, <2>2
<1>13. N \in A
  <2>1. A \in SUBSET (0..N)
    OBVIOUS
  <2> HIDE DEF A
  <2>2. A = 0..N
    BY <1>1, <1>11, <1>12, <2>1, Induction
  <2> QED BY <1>1, <2>2
<1> QED BY <1>8, <1>13
-----------------------------------------------------------------------------
(***************************************************************************)
(* Adding an edge: h is g and the new edges into t.                        *)
(***************************************************************************)
\* The edges of g are still there, in front; the new ones are in the rollback
\* vector.
Grows(g, h) ==
    /\ \A n \in Nodes :
          /\ Begins(g.edges[n], h.edges[n])
          /\ Begins(g.back[n], h.back[n])
          /\ Size(h, n) + Marks(g, n) = Size(g, n) + Marks(h, n)
    /\ h.rmw = g.rmw
    /\ h.oldCycles = g.oldCycles
    /\ h.rmwRollback = g.rmwRollback
    /\ g.endless => h.endless

LEMMA BeginsFacts ==
    ASSUME NEW S, NEW r \in Seq(S), NEW s \in Seq(S), NEW u \in Seq(S)
    PROVE  /\ Begins(r, r)
           /\ Begins(r, s) /\ Begins(s, u) => Begins(r, u)
           /\ \A e \in S : Begins(r, Append(r, e))
<1>1. /\ DOMAIN r = 1..Len(r) /\ DOMAIN s = 1..Len(s) /\ DOMAIN u = 1..Len(u)
      /\ Len(r) \in Nat /\ Len(s) \in Nat /\ Len(u) \in Nat
  OBVIOUS
<1>2. Begins(r, r)
  BY <1>1 DEF Begins
<1>3. Begins(r, s) /\ Begins(s, u) => Begins(r, u)
  BY <1>1 DEF Begins
<1>4. \A e \in S : Begins(r, Append(r, e))
  BY <1>1, AppendFacts DEF Begins
<1> QED BY <1>2, <1>3, <1>4

LEMMA TimesNat ==
    ASSUME NEW s \in Seq(Nodes), NEW n
    PROVE  Times(s, n) \in Nat
BY TimesAppend, NodeFacts

\* What WellFormed says about the fields that the proofs compute with.
LEMMA FieldFacts ==
    ASSUME NEW g, WellFormed(g), NEW n \in Nodes
    PROVE  /\ g \in Graphs
           /\ g.edges[n] \in Seq(Nodes) /\ Size(g, n) \in Nat
           /\ g.back[n] \in Seq(Nodes) /\ Len(g.back[n]) \in Nat
           /\ g.rollback \in Seq(Nodes) /\ Marks(g, n) \in Nat
           /\ ~HasEdge(g, n, n)
<1>1. g \in Graphs /\ ~HasEdge(g, n, n)
  BY DEF WellFormed
<1>2. g.edges[n] \in Seq(Nodes) /\ g.back[n] \in Seq(Nodes) /\ g.rollback \in Seq(Nodes)
  BY <1>1, GraphFields
<1> QED BY <1>1, <1>2, TimesNat DEF Size, Marks

LEMMA GrowsFacts ==
    ASSUME NEW g, WellFormed(g), NEW h, WellFormed(h), NEW k, WellFormed(k)
    PROVE  /\ Grows(g, g)
           /\ Grows(g, h) /\ Grows(h, k) => Grows(g, k)
<1>1. Grows(g, g)
  BY FieldFacts, BeginsFacts DEF Grows
<1>2. ASSUME Grows(g, h), Grows(h, k)
      PROVE  Grows(g, k)
  <2>1. ASSUME NEW n \in Nodes
        PROVE  /\ Begins(g.edges[n], k.edges[n])
               /\ Begins(g.back[n], k.back[n])
               /\ Size(k, n) + Marks(g, n)
                     = Size(g, n) + Marks(k, n)
    <3>1. /\ g.edges[n] \in Seq(Nodes) /\ h.edges[n] \in Seq(Nodes) /\ k.edges[n] \in Seq(Nodes)
          /\ g.back[n] \in Seq(Nodes) /\ h.back[n] \in Seq(Nodes) /\ k.back[n] \in Seq(Nodes)
      BY FieldFacts
    <3>2. /\ Begins(g.edges[n], h.edges[n]) /\ Begins(h.edges[n], k.edges[n])
          /\ Begins(g.back[n], h.back[n]) /\ Begins(h.back[n], k.back[n])
      BY <1>2 DEF Grows
    <3>3. Begins(g.edges[n], k.edges[n]) /\ Begins(g.back[n], k.back[n])
      BY <3>1, <3>2, BeginsFacts
    <3>4. /\ Size(h, n) + Marks(g, n) = Size(g, n) + Marks(h, n)
          /\ Size(k, n) + Marks(h, n) = Size(h, n) + Marks(k, n)
      BY <1>2 DEF Grows
    <3>5. /\ Size(g, n) \in Nat /\ Size(h, n) \in Nat /\ Size(k, n) \in Nat
          /\ Marks(g, n) \in Nat /\ Marks(h, n) \in Nat
          /\ Marks(k, n) \in Nat
      BY FieldFacts
    <3>6. Size(k, n) + Marks(g, n) = Size(g, n) + Marks(k, n)
      BY <3>4, <3>5
    <3> QED BY <3>3, <3>6
  <2>2. /\ k.rmw = g.rmw /\ k.oldCycles = g.oldCycles /\ k.rmwRollback = g.rmwRollback
        /\ g.endless => k.endless
    BY <1>2 DEF Grows
  <2> QED BY <2>1, <2>2 DEF Grows
<1> QED BY <1>1, <1>2

\* A new edge, remembered in the rollback vector.
Tracked(g, f, t, c) == [Link(g, f, t) EXCEPT !.rollback = Append(@, f), !.cycles = c]

LEMMA TrackedLink ==
    ASSUME NEW g, WellFormed(g), NEW f \in Nodes, NEW t \in Nodes, f # t, ~HasEdge(g, f, t),
           NEW c \in BOOLEAN,
           NEW h, h = Tracked(g, f, t, c)
    PROVE  WellFormed(h) /\ Grows(g, h) /\ OneMore(g, h, f, t) /\ h.cycles = c
<1> DEFINE l == Link(g, f, t)
<1>1. /\ WellFormed(l) /\ l \in Graphs
      /\ l.edges = [g.edges EXCEPT ![f] = Append(g.edges[f], t)]
      /\ l.back = [g.back EXCEPT ![t] = Append(g.back[t], f)]
      /\ OneMore(g, l, f, t)
      /\ SameRest(g, l)
  <2>1. /\ WellFormed(l) /\ OneMore(g, l, f, t)
        /\ l.edges = [g.edges EXCEPT ![f] = Append(g.edges[f], t)]
        /\ l.back = [g.back EXCEPT ![t] = Append(g.back[t], f)]
        /\ SameRest(g, l)
    BY LinkFacts, Zenon
  <2> QED BY <2>1 DEF WellFormed
<1> HIDE DEF l
<1>2. h = [l EXCEPT !.rollback = Append(l.rollback, f), !.cycles = c]
  BY DEF l, Tracked
<1>3. Append(l.rollback, f) \in Seq(Nodes)
  BY <1>1, GraphFields
<1>4. /\ h \in Graphs /\ h.edges = l.edges /\ h.back = l.back /\ h.rmw = l.rmw
      /\ h.oldCycles = l.oldCycles /\ h.endless = l.endless /\ h.rmwRollback = l.rmwRollback
      /\ h.cycles = c /\ h.rollback = Append(l.rollback, f)
  BY <1>1, <1>2, <1>3 DEF Graphs
<1>5. WellFormed(h)
  BY <1>1, <1>4 DEF WellFormed, HasEdge
<1>6. OneMore(g, h, f, t)
  BY <1>1, <1>4 DEF OneMore, HasEdge
<1>7. ASSUME NEW n \in Nodes
      PROVE  /\ Begins(g.edges[n], h.edges[n])
             /\ Begins(g.back[n], h.back[n])
             /\ Size(h, n) + Marks(g, n) = Size(g, n) + Marks(h, n)
  <2>1. /\ g.edges \in [Nodes -> Seq(Nodes)] /\ g.back \in [Nodes -> Seq(Nodes)]
        /\ g.rollback \in Seq(Nodes)
    BY GraphFields DEF WellFormed
  <2>2. /\ h.edges[n] = IF n = f THEN Append(g.edges[f], t) ELSE g.edges[n]
        /\ h.back[n] = IF n = t THEN Append(g.back[t], f) ELSE g.back[n]
    BY <1>1, <1>4, <2>1
  <2>3. h.rollback = Append(g.rollback, f)
    BY <1>1, <1>4 DEF SameRest
  <2>4. /\ Marks(g, n) \in Nat
        /\ n = f => Marks(h, n) = Marks(g, n) + 1
        /\ n # f => Marks(h, n) = Marks(g, n)
    <3>1. /\ Marks(g, n) \in Nat
          /\ n = f => Times(Append(g.rollback, f), n) = Marks(g, n) + 1
          /\ n # f => Times(Append(g.rollback, f), n) = Marks(g, n)
      BY <2>1, TimesAppend, Zenon DEF Marks
    <3>2. Marks(h, n) = Times(Append(g.rollback, f), n)
      BY <2>3 DEF Marks
    <3> QED BY <3>1, <3>2
  <2>5. /\ Begins(g.edges[n], h.edges[n])
        /\ Begins(g.back[n], h.back[n])
    BY <2>1, <2>2, BeginsFacts
  <2>6. g.edges[n] \in Seq(Nodes) /\ Size(g, n) \in Nat
    BY <2>1 DEF Size
  <2>7. /\ n = f => Size(h, n) = Size(g, n) + 1
        /\ n # f => Size(h, n) = Size(g, n)
    BY <2>2, <2>6 DEF Size
  <2>8. Size(h, n) + Marks(g, n) = Size(g, n) + Marks(h, n)
    BY <2>4, <2>6, <2>7
  <2> QED BY <2>5, <2>8
<1>8. Grows(g, h)
  BY <1>1, <1>4, <1>7 DEF Grows, SameRest
<1> QED BY <1>4, <1>5, <1>6, <1>8

\* One new edge closes a cycle only if no placing goes up along the edges.
LEMMA AddTrackedFacts ==
    ASSUME NEW g, WellFormed(g), NEW f \in Nodes, NEW t \in Nodes, f # t,
           NEW h, h = AddTracked(g, f, t)
    PROVE  /\ WellFormed(h) /\ Grows(g, h) /\ OneMore(g, h, f, t)
           /\ g.cycles => h.cycles
           /\ \A at \in [Nodes -> Int] :
                 at[f] < at[t] /\ Climbs(g, at) /\ ~g.cycles => Climbs(h, at) /\ ~h.cycles
<1>1. CASE HasEdge(g, f, t)
  <2>1. h = g
    BY <1>1 DEF AddTracked
  <2> QED BY <1>1, <2>1, GrowsFacts DEF OneMore
<1>2. CASE ~HasEdge(g, f, t)
  <2> DEFINE l == Link(g, f, t)
             c == g.cycles \/ checkReachable(l, t, f)
  <2>1. l \in Graphs /\ l.cycles = g.cycles /\ g.cycles \in BOOLEAN /\ OneMore(g, l, f, t)
    <3>1. WellFormed(l) /\ OneMore(g, l, f, t) /\ SameRest(g, l)
      BY <1>2, LinkFacts, Zenon
    <3>2. g \in Graphs /\ l \in Graphs
      BY <3>1 DEF WellFormed
    <3> QED BY <3>1, <3>2, GraphFields DEF SameRest
  <2>2. h = Tracked(g, f, t, c)
    BY <1>2, <2>1 DEF AddTracked, Tracked
  <2>3. c \in BOOLEAN
    BY <2>1 DEF checkReachable
  <2> HIDE DEF c
  <2>4. WellFormed(h) /\ Grows(g, h) /\ OneMore(g, h, f, t) /\ h.cycles = c
    BY <1>2, <2>2, <2>3, TrackedLink, Zenon
  <2>5. ASSUME NEW at \in [Nodes -> Int], at[f] < at[t], Climbs(g, at), ~g.cycles
        PROVE  Climbs(h, at) /\ ~h.cycles
    <3>1. at[f] \in Int /\ at[t] \in Int /\ at[f] <= at[t]
      BY <2>5
    <3>2. Climbs(l, at) /\ Climbs(h, at)
      BY <2>1, <2>4, <2>5, <3>1 DEF Climbs, OneMore
    <3>3. ~checkReachable(l, t, f)
      <4> HIDE DEF l
      <4> SUFFICES ASSUME checkReachable(l, t, f) PROVE FALSE
        OBVIOUS
      <4>1. at[t] <= at[f]
        BY <2>1, <3>2, PathsClimb
      <4> QED BY <2>5, <3>1, <4>1
    <3> QED BY <2>4, <2>5, <3>2, <3>3 DEF c
  <2> QED BY <2>4, <2>5 DEF c
<1> QED BY <1>1, <1>2
-----------------------------------------------------------------------------
(***************************************************************************)
(* The walk along a chain of RMWs stays before t, in every placing that    *)
(* has no node between another and its RMW.                                *)
(***************************************************************************)
ChainsUp(g, at, P, t) ==
    \A n \in P : at[n] < at[t] /\ g.rmw[n] \notin {NULL, t} => at[g.rmw[n]] < at[t]

\* The RMWs of the nodes of P are writes of P.
ClosedUp(g, P) == \A n \in P : g.rmw[n] # NULL => g.rmw[n] \in P /\ g.rmw[n] \in 1..MaxWrites

LEMMA ChainEndFacts ==
    ASSUME NEW g \in Graphs, NEW P \in SUBSET Nodes, ClosedUp(g, P),
           NEW f \in P, NEW t \in P, g.rmw[f] # NULL,
           NEW last, last = ChainEnd(g, f, t)
    PROVE  /\ last \in P /\ last \in 1..MaxWrites
           /\ \A at \in [Nodes -> Int] :
                 at[f] < at[t] /\ ChainsUp(g, at, P, t) => last = t \/ at[last] < at[t]
<1> DEFINE N == Cardinality(Nodes)
           Good(n) == \A at \in [Nodes -> Int] :
                         at[f] < at[t] /\ ChainsUp(g, at, P, t) => n = t \/ at[n] < at[t]
           V == {n \in P : n \in 1..MaxWrites /\ Good(n)}
           Hop(r) == IF r = t \/ g.rmw[r] = NULL THEN r ELSE g.rmw[r]
           F == [e \in (1..N) \X V |-> Hop(e[2])]
           hop[i \in 0..N] ==
              IF i = 0 THEN g.rmw[f]
              ELSE LET r == hop[i-1] IN IF r = t \/ g.rmw[r] = NULL THEN r ELSE g.rmw[r]
           Solves(u) == u = [i \in 0..N |->
              IF i = 0 THEN g.rmw[f]
              ELSE LET r == u[i-1] IN IF r = t \/ g.rmw[r] = NULL THEN r ELSE g.rmw[r]]
<1>1. N \in Nat /\ NULL \notin Nodes
  BY NodeFacts
<1>2. ASSUME NEW n \in P, Good(n) \/ n = f, n # t, g.rmw[n] # NULL
      PROVE  g.rmw[n] \in V
  <2>1. g.rmw[n] \in P /\ g.rmw[n] \in 1..MaxWrites
    BY <1>2 DEF ClosedUp
  <2>2. ASSUME NEW at \in [Nodes -> Int], at[f] < at[t], ChainsUp(g, at, P, t)
        PROVE  g.rmw[n] = t \/ at[g.rmw[n]] < at[t]
    <3>1. at[n] < at[t]
      BY <1>2, <2>2
    <3> QED BY <1>2, <2>2, <3>1 DEF ChainsUp
  <2> QED BY <2>1, <2>2
<1>3. f # t => g.rmw[f] \in V
  BY <1>2
<1>4. f = t => g.rmw[f] \in V
  <2>1. \A at \in [Nodes -> Int] : ~(at[t] < at[t])
    OBVIOUS
  <2> QED BY <2>1 DEF ClosedUp
<1>5. \A r \in V : Hop(r) \in V
  <2> SUFFICES ASSUME NEW r \in V, r # t, g.rmw[r] # NULL PROVE g.rmw[r] \in V
    OBVIOUS
  <2> QED BY <1>2
<1>6. F \in [(1..N) \X V -> V]
  <2> HIDE DEF V, Hop
  <2> QED BY <1>5
<1>7. \E u : Iterates(u, V, g.rmw[f], N, F)
  <2> HIDE DEF N, V, F
  <2> QED BY <1>1, <1>3, <1>4, <1>6, Iteration, Zenon
<1>8. PICK u \in [0..N -> V] : u[0] = g.rmw[f] /\ \A i \in 1..N : u[i] = F[<<i, u[i-1]>>]
  <2> HIDE DEF N, V, F
  <2> QED BY <1>7 DEF Iterates
<1>9. Solves(u)
  <2>1. ASSUME NEW i \in 0..N, i # 0
        PROVE  u[i] = Hop(u[i-1])
    <3>1. i \in 1..N /\ i-1 \in 0..N
      BY <1>1, <2>1
    <3> HIDE DEF V, Hop
    <3>2. <<i, u[i-1]>> \in (1..N) \X V
      BY <1>8, <3>1
    <3> QED BY <1>8, <3>1, <3>2
  <2> HIDE DEF V
  <2> QED BY <1>8, <2>1
<1>10. Solves(hop)
  <2>1. hop = CHOOSE v : Solves(v)
    OBVIOUS
  <2> HIDE DEF hop, Solves
  <2> QED BY <1>9, <2>1
<1>11. last = hop[N]
  BY DEF ChainEnd
<1> HIDE DEF hop
<1> DEFINE A == {i \in 0..N : hop[i] \in V}
<1>12. 0 \in A
  <2> HIDE DEF V
  <2> QED BY <1>1, <1>3, <1>4, <1>10
<1>13. ASSUME NEW i \in 1..N, i-1 \in A PROVE i \in A
  <2>1. i \in 0..N /\ i # 0
    BY <1>1
  <2>2. hop[i] = Hop(hop[i-1])
    BY <1>10, <2>1
  <2> HIDE DEF V, Hop
  <2> QED BY <1>5, <1>13, <2>1, <2>2
<1>14. last \in V
  <2>1. A \in SUBSET (0..N)
    OBVIOUS
  <2> HIDE DEF A
  <2>2. A = 0..N
    BY <1>1, <1>12, <1>13, <2>1, Induction
  <2> HIDE DEF V
  <2> QED BY <1>1, <1>11, <2>2 DEF A
<1> QED BY <1>14

\* What addNodeEdge does to g, whatever happens along the chain.
EdgeAdded(g, h, f, t, P) ==
    /\ WellFormed(h) /\ Grows(g, h)
    /\ HasEdge(h, f, t)
    /\ \A m, n \in Nodes : HasEdge(g, m, n) => HasEdge(h, m, n)
    /\ \A m, n \in Nodes : HasEdge(h, m, n) =>
          HasEdge(g, m, n) \/ (n = t /\ m \in P /\ (m = f \/ m \in 1..MaxWrites))
    /\ g.cycles => h.cycles
    /\ \A at \in [Nodes -> Int] :
          at[f] < at[t] /\ ChainsUp(g, at, P, t) /\ Climbs(g, at) /\ ~g.cycles =>
             /\ ~h.cycles
             /\ \A m, n \in Nodes : HasEdge(h, m, n) => HasEdge(g, m, n) \/ at[m] < at[n]

LEMMA NodeEdgeFacts ==
    ASSUME NEW g, WellFormed(g), NEW P \in SUBSET Nodes, ClosedUp(g, P),
           NEW f \in P, NEW t \in P, f # t,
           NEW h, h = addNodeEdge(g, f, t)
    PROVE  EdgeAdded(g, h, f, t, P)
<1> DEFINE first == AddTracked(g, f, t)
           last  == ChainEnd(g, f, t)
<1>1. f \in Nodes /\ t \in Nodes /\ g \in Graphs
  BY DEF WellFormed
<1>2. /\ WellFormed(first) /\ Grows(g, first) /\ OneMore(g, first, f, t)
      /\ g.cycles => first.cycles
      /\ \A at \in [Nodes -> Int] :
            at[f] < at[t] /\ Climbs(g, at) /\ ~g.cycles => Climbs(first, at) /\ ~first.cycles
  BY <1>1, AddTrackedFacts, Zenon
<1>3. CASE HasEdge(g, f, t)
  <2>1. h = g
    BY <1>3 DEF addNodeEdge
  <2> QED BY <1>3, <2>1, GrowsFacts DEF EdgeAdded
<1>4. EdgeAdded(g, first, f, t, P)
  <2> HIDE DEF first
  <2> QED BY <1>1, <1>2 DEF EdgeAdded, OneMore
<1>5. CASE ~HasEdge(g, f, t) /\ (g.rmw[f] = NULL \/ last = t)
  <2>1. h = first
    BY <1>5 DEF addNodeEdge
  <2> QED BY <1>4, <2>1
<1>6. CASE ~HasEdge(g, f, t) /\ g.rmw[f] # NULL /\ last # t
  <2>1. /\ last \in P /\ last \in 1..MaxWrites
        /\ \A at \in [Nodes -> Int] :
              at[f] < at[t] /\ ChainsUp(g, at, P, t) => last = t \/ at[last] < at[t]
    BY <1>1, <1>6, ChainEndFacts, Zenon
  <2>2. CASE g.rmw[last] # NULL
    <3>1. h = [first EXCEPT !.endless = TRUE]
      BY <1>6, <2>2 DEF addNodeEdge
    <3> HIDE DEF first
    <3>2. /\ h \in Graphs /\ h.edges = first.edges /\ h.back = first.back
          /\ h.rmw = first.rmw /\ h.cycles = first.cycles /\ h.oldCycles = first.oldCycles
          /\ h.rollback = first.rollback /\ h.rmwRollback = first.rmwRollback /\ h.endless
      BY <1>2, <3>1 DEF WellFormed, Graphs
    <3>3. WellFormed(h)
      BY <1>2, <3>2 DEF WellFormed, HasEdge
    <3>4. Grows(g, h)
      BY <1>2, <3>2 DEF Grows, Size, Marks
    <3>5. \A m, n \in Nodes : HasEdge(h, m, n) <=> HasEdge(first, m, n)
      BY <3>2 DEF HasEdge
    <3> QED BY <1>4, <3>2, <3>3, <3>4, <3>5 DEF EdgeAdded
  <2>3. CASE g.rmw[last] = NULL
    <3>1. h = AddTracked(first, last, t)
      BY <1>6, <2>3 DEF addNodeEdge
    <3> HIDE DEF first, last
    <3>2. /\ WellFormed(h) /\ Grows(first, h) /\ OneMore(first, h, last, t)
          /\ first.cycles => h.cycles
          /\ \A at \in [Nodes -> Int] :
                at[last] < at[t] /\ Climbs(first, at) /\ ~first.cycles =>
                   Climbs(h, at) /\ ~h.cycles
      BY <1>1, <1>2, <1>6, <2>1, <3>1, AddTrackedFacts
    <3>3. Grows(g, h)
      BY <1>2, <3>2, GrowsFacts
    <3>4. \A m, n \in Nodes : HasEdge(h, m, n) <=>
             HasEdge(g, m, n) \/ (n = t /\ (m = f \/ m = last))
      BY <1>2, <3>2 DEF OneMore
    <3>5. ASSUME NEW at \in [Nodes -> Int],
                 at[f] < at[t], ChainsUp(g, at, P, t), Climbs(g, at), ~g.cycles
          PROVE  /\ ~h.cycles
                 /\ \A m, n \in Nodes : HasEdge(h, m, n) => HasEdge(g, m, n) \/ at[m] < at[n]
      BY <1>2, <1>6, <2>1, <3>2, <3>4, <3>5
    <3> QED BY <1>1, <1>2, <2>1, <3>2, <3>3, <3>4, <3>5 DEF EdgeAdded
  <2> QED BY <2>2, <2>3
<1> QED BY <1>3, <1>5, <1>6
-----------------------------------------------------------------------------
(***************************************************************************)
(* What was asked for, and the commit.                                     *)
(***************************************************************************)
LEMMA FitsSame ==
    ASSUME NEW g, NEW h, h.edges = g.edges, h.rmw = g.rmw, h.cycles = g.cycles,
           NEW o, NEW a, NEW P, Fits(g, o, a, P)
    PROVE  Fits(h, o, a, P)
BY DEF Fits, Within, RMWAsked, Sound, Ascends, HasEdge

\* Asking for more, about more nodes, leaves fewer placings.
LEMMA FitsMore ==
    ASSUME NEW g, NEW o, NEW a, NEW P, Fits(g, o, a, P),
           NEW o2 \in SUBSET (Nodes \X Nodes), o \subseteq o2,
           NEW P2 \in SUBSET Nodes, P \subseteq P2,
           NEW a2 \in SUBSET (P2 \X (P2 \cap (1..MaxWrites))), a \subseteq a2,
           \A n \in P2 \ P : g.rmw[n] = NULL
    PROVE  Fits(g, o2, a2, P2)
<1>1. Within(g, P2) /\ RMWAsked(g, a2, P2)
  BY DEF Fits, Within, RMWAsked
<1>2. Pairs(o2, a2, P2)
  BY DEF Pairs
<1>3. \A at : Obeys(at, o2, a2, P2) => Obeys(at, o, a, P)
  BY DEF Obeys
<1>4. Sound(g, o2, a2, P2)
  BY <1>3 DEF Fits, Sound
<1> QED BY <1>1, <1>2, <1>4 DEF Fits

LEMMA FitsClosed ==
    ASSUME NEW g \in Graphs, NEW o, NEW a, NEW P \in SUBSET Nodes, Fits(g, o, a, P)
    PROVE  ClosedUp(g, P)
<1> SUFFICES ASSUME NEW n \in P, g.rmw[n] # NULL
             PROVE  g.rmw[n] \in P /\ g.rmw[n] \in 1..MaxWrites
  BY DEF ClosedUp
<1>1. <<n, g.rmw[n]>> \in a
  BY DEF Fits, RMWAsked
<1>2. <<n, g.rmw[n]>> \in P \X (P \cap (1..MaxWrites))
  BY <1>1 DEF Fits, Pairs
<1> QED BY <1>2

\* A placing has its nodes at different places.
LEMMA PlacingFacts ==
    ASSUME NEW at \in Placings, NEW m \in Nodes, NEW n \in Nodes
    PROVE  /\ at \in [Nodes -> Int] /\ at[m] \in Int /\ at[n] \in Int
           /\ m # n => at[m] < at[n] \/ at[n] < at[m]
BY DEF Placings

LEMMA ObeysChains ==
    ASSUME NEW g \in Graphs, NEW o, NEW a, NEW P \in SUBSET Nodes, Fits(g, o, a, P),
           NEW t \in P, NEW at \in Placings, Obeys(at, o, a, P)
    PROVE  ChainsUp(g, at, P, t)
<1> SUFFICES ASSUME NEW n \in P, at[n] < at[t], g.rmw[n] \notin {NULL, t}
             PROVE  at[g.rmw[n]] < at[t]
  BY DEF ChainsUp
<1>1. <<n, g.rmw[n]>> \in a /\ g.rmw[n] \in Nodes /\ t \in Nodes
  BY FitsClosed DEF Fits, RMWAsked, ClosedUp
<1>2. ~(at[n] < at[t] /\ at[t] < at[g.rmw[n]])
  BY <1>1 DEF Obeys
<1> QED BY <1>1, <1>2, PlacingFacts

\* An edge that was asked for keeps the graph sound.
LEMMA AskFits ==
    ASSUME NEW g, WellFormed(g), NEW o, NEW a, NEW P \in SUBSET Nodes, Fits(g, o, a, P),
           NEW f \in P, NEW t \in P, f # t, <<f, t>> \in o \cup a,
           NEW h, h = addNodeEdge(g, f, t)
    PROVE  EdgeAdded(g, h, f, t, P) /\ Fits(h, o, a, P)
<1>1. g \in Graphs /\ ClosedUp(g, P)
  BY FitsClosed DEF WellFormed
<1>2. EdgeAdded(g, h, f, t, P)
  BY <1>1, NodeEdgeFacts, Zenon
<1>3. Within(h, P) /\ RMWAsked(h, a, P)
  BY <1>2 DEF EdgeAdded, Grows, Fits, Within, RMWAsked
<1>4. ASSUME NEW at \in Placings, Obeys(at, o, a, P)
      PROVE  Ascends(h, at) /\ ~h.cycles
  <2>1. Ascends(g, at) /\ ~g.cycles
    BY <1>4 DEF Fits, Sound
  <2>2. at \in [Nodes -> Int] /\ \A m, n \in Nodes : at[m] < at[n] => at[m] <= at[n]
    BY PlacingFacts
  <2>3. Climbs(g, at)
    BY <2>1, <2>2 DEF Ascends, Climbs
  <2>4. at[f] < at[t]
    BY <1>4 DEF Obeys
  <2>5. ChainsUp(g, at, P, t)
    BY <1>1, <1>4, ObeysChains
  <2>6. /\ ~h.cycles
        /\ \A m, n \in Nodes : HasEdge(h, m, n) => HasEdge(g, m, n) \/ at[m] < at[n]
    BY <1>2, <2>1, <2>2, <2>3, <2>4, <2>5 DEF EdgeAdded
  <2> QED BY <2>1, <2>6 DEF Ascends
<1>5. Sound(h, o, a, P)
  BY <1>4 DEF Sound
<1> QED BY <1>2, <1>3, <1>5 DEF Fits

LEMMA ExtendsFacts ==
    ASSUME NEW s, WellFormed(s), NEW g, WellFormed(g), NEW h, WellFormed(h)
    PROVE  /\ Settled(s) => Extends(s, s)
           /\ Extends(g, s) /\ Grows(g, h) => Extends(h, s)
<1>1. ASSUME Settled(s) PROVE Extends(s, s)
  <2>1. ASSUME NEW n \in Nodes
        PROVE  Size(s, n) = Size(s, n) + Marks(s, n)
    <3>1. {i \in DOMAIN s.rollback : s.rollback[i] = n} = {}
      BY <1>1 DEF Settled
    <3>2. Marks(s, n) = 0
      BY <3>1, FS_EmptySet DEF Marks, Times
    <3>3. Size(s, n) \in Nat
      BY FieldFacts DEF Size
    <3> QED BY <3>2, <3>3
  <2>2. \A n \in Nodes : Begins(s.edges[n], s.edges[n]) /\ Begins(s.back[n], s.back[n])
    BY FieldFacts, BeginsFacts
  <2> QED BY <1>1, <2>1, <2>2 DEF Settled, Extends
<1>2. ASSUME Extends(g, s), Grows(g, h) PROVE Extends(h, s)
  <2>1. ASSUME NEW n \in Nodes
        PROVE  /\ Begins(s.edges[n], h.edges[n]) /\ Begins(s.back[n], h.back[n])
               /\ Size(h, n) = Size(s, n) + Marks(h, n)
    <3>1. /\ Begins(s.edges[n], g.edges[n]) /\ Begins(s.back[n], g.back[n])
          /\ Begins(g.edges[n], h.edges[n]) /\ Begins(g.back[n], h.back[n])
          /\ Size(g, n) = Size(s, n) + Marks(g, n)
          /\ Size(h, n) + Marks(g, n) = Size(g, n) + Marks(h, n)
      BY <1>2 DEF Extends, Grows
    <3>2. /\ s.edges[n] \in Seq(Nodes) /\ g.edges[n] \in Seq(Nodes) /\ h.edges[n] \in Seq(Nodes)
          /\ s.back[n] \in Seq(Nodes) /\ g.back[n] \in Seq(Nodes) /\ h.back[n] \in Seq(Nodes)
      BY FieldFacts
    <3>3. Begins(s.edges[n], h.edges[n]) /\ Begins(s.back[n], h.back[n])
      BY <3>1, <3>2, BeginsFacts
    <3>4. /\ Size(s, n) \in Nat /\ Size(g, n) \in Nat /\ Size(h, n) \in Nat
          /\ Marks(g, n) \in Nat /\ Marks(h, n) \in Nat
      BY FieldFacts DEF Size, Marks
    <3>5. Size(h, n) = Size(s, n) + Marks(h, n)
      BY <3>1, <3>4
    <3> QED BY <3>3, <3>5
  <2> QED BY <1>2, <2>1 DEF Extends, Grows
<1> QED BY <1>1, <1>2

LEMMA CommittedFacts ==
    ASSUME NEW g, WellFormed(g), NEW h, h = Committed(g)
    PROVE  /\ WellFormed(h) /\ Settled(h) /\ Extends(h, h)
           /\ h.edges = g.edges /\ h.rmw = g.rmw /\ h.cycles = g.cycles
<1>1. /\ h \in Graphs /\ h.edges = g.edges /\ h.back = g.back /\ h.rmw = g.rmw
      /\ h.cycles = g.cycles /\ h.oldCycles = g.cycles
      /\ h.rollback = <<>> /\ h.rmwRollback = <<>>
  <2> DEFINE k1 == [g EXCEPT !.rollback = <<>>]
             k2 == [k1 EXCEPT !.rmwRollback = <<>>]
  <2>1. g \in Graphs /\ g.cycles \in BOOLEAN /\ <<>> \in Seq(Nodes)
    BY GraphFields DEF WellFormed
  <2>2. /\ k1 \in Graphs /\ k1.edges = g.edges /\ k1.back = g.back /\ k1.rmw = g.rmw
        /\ k1.cycles = g.cycles /\ k1.rollback = <<>>
    BY <2>1 DEF Graphs
  <2> HIDE DEF k1
  <2>3. /\ k2 \in Graphs /\ k2.edges = g.edges /\ k2.back = g.back /\ k2.rmw = g.rmw
        /\ k2.cycles = g.cycles /\ k2.rollback = <<>> /\ k2.rmwRollback = <<>>
    BY <2>1, <2>2 DEF Graphs
  <2>4. h = [k2 EXCEPT !.oldCycles = g.cycles]
    BY DEF Committed, k1
  <2> HIDE DEF k2
  <2> QED BY <2>1, <2>3, <2>4 DEF Graphs
<1>2. WellFormed(h)
  BY <1>1 DEF WellFormed, HasEdge
<1>3. Settled(h)
  BY <1>1 DEF Settled
<1> QED BY <1>1, <1>2, <1>3, ExtendsFacts
-----------------------------------------------------------------------------
(***************************************************************************)
(* The rollback takes away what was added since the commit, and no more.   *)
(***************************************************************************)
LEMMA BackToStart ==
    ASSUME NEW s, WellFormed(s), NEW g, WellFormed(g),
           \A n \in Nodes : /\ Begins(s.edges[n], g.edges[n]) /\ Begins(s.back[n], g.back[n])
                            /\ Size(g, n) = Size(s, n)
    PROVE  g.edges = s.edges /\ g.back = s.back
<1>1. /\ g.edges \in [Nodes -> Seq(Nodes)] /\ s.edges \in [Nodes -> Seq(Nodes)]
      /\ g.back \in [Nodes -> Seq(Nodes)] /\ s.back \in [Nodes -> Seq(Nodes)]
  BY GraphFields DEF WellFormed
<1>2. ASSUME NEW n \in Nodes PROVE g.edges[n] = s.edges[n]
  <2>1. g.edges[n] \in Seq(Nodes) /\ s.edges[n] \in Seq(Nodes)
    BY <1>1
  <2>2. Len(g.edges[n]) = Len(s.edges[n]) /\ Begins(s.edges[n], g.edges[n])
    BY DEF Size
  <2> QED BY <2>1, <2>2 DEF Begins
<1>3. g.edges = s.edges
  BY <1>1, <1>2
<1>4. ASSUME NEW t \in Nodes PROVE g.back[t] = s.back[t]
  <2> DEFINE b == g.back[t]
             c == s.back[t]
  <2>1. b \in Seq(Nodes) /\ c \in Seq(Nodes)
    BY <1>1
  <2>2. Begins(c, b) /\ NoRepeat(b)
    BY DEF WellFormed
  <2>3. \A f \in Nodes : f \in ToSet(b) <=> f \in ToSet(c)
    BY <1>3 DEF WellFormed, HasEdge
  <2> HIDE DEF b, c
  <2>4. Len(b) \in Nat /\ Len(c) \in Nat /\ DOMAIN b = 1..Len(b) /\ DOMAIN c = 1..Len(c)
    BY <2>1
  <2>5. Len(b) <= Len(c)
    <3> SUFFICES ASSUME Len(c) + 1 <= Len(b) PROVE FALSE
      BY <2>4
    <3>1. Len(c) + 1 \in DOMAIN b
      BY <2>4
    <3>2. b[Len(c) + 1] \in ToSet(c)
      BY <2>1, <2>3, <3>1 DEF ToSet
    <3>3. PICK j \in DOMAIN c : c[j] = b[Len(c) + 1]
      BY <3>2 DEF ToSet
    <3>4. b[j] = c[j] /\ j \in DOMAIN b /\ j # Len(c) + 1
      BY <2>2, <2>4, <3>3 DEF Begins
    <3> QED BY <2>2, <3>1, <3>3, <3>4 DEF NoRepeat
  <2> QED BY <2>1, <2>2, <2>4, <2>5 DEF Begins, b, c
<1> QED BY <1>1, <1>3, <1>4

LEMMA RemoveLastIs ==
    ASSUME NEW g \in Graphs, NEW f \in Nodes, g.edges[f] # <<>>, NEW t, t = Last(g.edges[f])
    PROVE  RemoveLast(g, f) =
              WithEdges(g, [g.edges EXCEPT ![f] = Front(g.edges[f])],
                           [g.back EXCEPT ![t] = RemoveFirst(g.back[t], f)])
BY DEF RemoveLast, WithEdges, Graphs

LEMMA RemoveLastFacts ==
    ASSUME NEW g, WellFormed(g), NEW f \in Nodes, NEW h, h = RemoveLast(g, f)
    PROVE  /\ WellFormed(h) /\ SameRest(g, h)
           /\ g.edges[f] # <<>> =>
                 /\ Last(g.edges[f]) \in Nodes
                 /\ h.edges = [g.edges EXCEPT ![f] = Front(g.edges[f])]
                 /\ h.back = [g.back EXCEPT ![Last(g.edges[f])] =
                                 RemoveFirst(g.back[Last(g.edges[f])], f)]
<1>1. CASE g.edges[f] = <<>>
  <2>1. h = g
    BY <1>1 DEF RemoveLast
  <2> QED BY <1>1, <2>1 DEF SameRest
<1>2. CASE g.edges[f] # <<>>
  <2> DEFINE t == Last(g.edges[f])
             newEdges == [g.edges EXCEPT ![f] = Front(g.edges[f])]
             newBack == [g.back EXCEPT ![t] = RemoveFirst(g.back[t], f)]
  <2>1. /\ g \in Graphs /\ g.edges \in [Nodes -> Seq(Nodes)] /\ g.back \in [Nodes -> Seq(Nodes)]
        /\ g.edges[f] \in Seq(Nodes)
    BY GraphFields DEF WellFormed
  <2>2. /\ NoRepeat(g.edges[f])
        /\ Front(g.edges[f]) \in Seq(Nodes) /\ t \in Nodes
        /\ t = g.edges[f][Len(g.edges[f])] /\ Len(g.edges[f]) \in DOMAIN g.edges[f]
        /\ NoRepeat(Front(g.edges[f]))
        /\ ToSet(Front(g.edges[f])) = ToSet(g.edges[f]) \ {t}
    BY <1>2, <2>1, FrontFacts DEF WellFormed
  <2>3. h = WithEdges(g, newEdges, newBack)
    BY <1>2, <2>1, RemoveLastIs
  <2>4. HasEdge(g, f, t)
    BY <2>2 DEF HasEdge, ToSet
  <2> HIDE DEF t
  <2>5. /\ g.back[t] \in Seq(Nodes) /\ NoRepeat(g.back[t])
    BY <2>1, <2>2 DEF WellFormed
  <2>6. /\ RemoveFirst(g.back[t], f) \in Seq(Nodes)
        /\ NoRepeat(RemoveFirst(g.back[t], f))
        /\ ToSet(RemoveFirst(g.back[t], f)) = ToSet(g.back[t]) \ {f}
    BY <2>5, RemoveFirstFacts
  <2>7. newEdges \in [Nodes -> Seq(Nodes)] /\ newBack \in [Nodes -> Seq(Nodes)]
    BY <2>1, <2>2, <2>6
  <2>8. h \in Graphs /\ h.edges = newEdges /\ h.back = newBack /\ SameRest(g, h)
    <3> HIDE DEF newEdges, newBack
    <3>1. /\ WithEdges(g, newEdges, newBack) \in Graphs
          /\ WithEdges(g, newEdges, newBack).edges = newEdges
          /\ WithEdges(g, newEdges, newBack).back = newBack
          /\ SameRest(g, WithEdges(g, newEdges, newBack))
      BY <2>1, <2>7, WithEdgesFacts
    <3> QED BY <2>3, <3>1
  <2>9. \A n \in Nodes :
           /\ h.edges[n] = IF n = f THEN Front(g.edges[f]) ELSE g.edges[n]
           /\ h.back[n] = IF n = t THEN RemoveFirst(g.back[t], f) ELSE g.back[n]
    BY <2>1, <2>8
  <2> HIDE DEF newEdges, newBack
  <2>10. \A m, n \in Nodes : /\ HasEdge(h, m, n) <=> HasEdge(g, m, n) /\ ~(m = f /\ n = t)
                             /\ m \in ToSet(h.back[n]) <=>
                                   m \in ToSet(g.back[n]) /\ ~(m = f /\ n = t)
    BY <2>2, <2>6, <2>9 DEF HasEdge
  <2>11. \A m, n \in Nodes : HasEdge(h, m, n) <=> m \in ToSet(h.back[n])
    BY <2>10 DEF WellFormed
  <2>12. ASSUME NEW n \in Nodes
         PROVE  NoRepeat(h.edges[n]) /\ NoRepeat(h.back[n]) /\ ~HasEdge(h, n, n)
    <3>1. NoRepeat(g.edges[n]) /\ NoRepeat(g.back[n]) /\ ~HasEdge(g, n, n)
      BY DEF WellFormed
    <3> QED BY <2>2, <2>6, <2>9, <2>10, <3>1
  <2>13. WellFormed(h)
    BY <2>8, <2>11, <2>12 DEF WellFormed
  <2> QED BY <2>2, <2>8, <2>13 DEF newEdges, newBack, t
<1> QED BY <1>1, <1>2

\* How many of the marks after the first k are for node n.
MarksAfter(r, k, n) == Cardinality({i \in k+1..Len(r) : r[i] = n})

LEMMA MarksAfterFacts ==
    ASSUME NEW r \in Seq(Nodes), NEW n
    PROVE  /\ \A k \in 0..Len(r) : MarksAfter(r, k, n) \in Nat
           /\ MarksAfter(r, 0, n) = Times(r, n)
           /\ MarksAfter(r, Len(r), n) = 0
           /\ \A k \in 1..Len(r) :
                 /\ r[k] = n => MarksAfter(r, k-1, n) = MarksAfter(r, k, n) + 1
                 /\ r[k] # n => MarksAfter(r, k-1, n) = MarksAfter(r, k, n)
<1> DEFINE I(k) == {i \in k+1..Len(r) : r[i] = n}
<1>1. Len(r) \in Nat /\ DOMAIN r = 1..Len(r) /\ Len(r) \in Int
  OBVIOUS
<1>2. \A k \in Int : IsFiniteSet(I(k))
  <2> SUFFICES ASSUME NEW k \in Int PROVE IsFiniteSet(I(k))
    OBVIOUS
  <2>1. IsFiniteSet(k+1..Len(r))
    BY <1>1, FS_Interval
  <2> QED BY <2>1, FS_Subset
<1>3. \A k \in Int : Cardinality(I(k)) \in Nat
  BY <1>2, FS_CardinalityType
<1>4. I(0) = {i \in DOMAIN r : r[i] = n}
  BY <1>1
<1>5. I(Len(r)) = {}
  BY <1>1
<1>6. ASSUME NEW k \in 1..Len(r)
      PROVE  /\ r[k] = n => Cardinality(I(k-1)) = Cardinality(I(k)) + 1
             /\ r[k] # n => Cardinality(I(k-1)) = Cardinality(I(k))
  <2>1. k \in Int /\ k-1 \in Int /\ (k-1)+1 = k
    BY <1>1
  <2>2. r[k] = n => I(k-1) = I(k) \cup {k}
    BY <1>1, <2>1
  <2>3. r[k] # n => I(k-1) = I(k)
    BY <1>1, <2>1
  <2>4. k \notin I(k)
    BY <1>1, <2>1
  <2>5. IsFiniteSet(I(k))
    BY <1>2, <2>1
  <2> HIDE DEF I
  <2> QED BY <2>2, <2>3, <2>4, <2>5, FS_AddElement
<1>7. Cardinality(I(Len(r))) = 0
  BY <1>5, FS_EmptySet
<1>8. \A k \in 0..Len(r) : k \in Int
  BY <1>1
<1> QED BY <1>3, <1>4, <1>6, <1>7, <1>8 DEF MarksAfter, Times
-----------------------------------------------------------------------------
\* Graph u is the committed graph s and the edges whose marks come after the
\* first k.
Partly(u, s, r, k) ==
    \A n \in Nodes : /\ Begins(s.edges[n], u.edges[n]) /\ Begins(s.back[n], u.back[n])
                     /\ Size(u, n) = Size(s, n) + MarksAfter(r, k, n)

\* The edge that a mark stands for is the last one of its node.
LEMMA UndoOne ==
    ASSUME NEW s, WellFormed(s), NEW u, WellFormed(u), NEW r \in Seq(Nodes),
           NEW k \in 1..Len(r), Partly(u, s, r, k-1),
           NEW h, h = RemoveLast(u, r[k])
    PROVE  Partly(h, s, r, k)
<1> DEFINE f == r[k]
           t == Last(u.edges[f])
<1>1. f \in Nodes /\ k \in 0..Len(r)
  OBVIOUS
<1>2. /\ \A n \in Nodes : MarksAfter(r, k, n) \in Nat
      /\ \A n \in Nodes : f = n => MarksAfter(r, k-1, n) = MarksAfter(r, k, n) + 1
      /\ \A n \in Nodes : f # n => MarksAfter(r, k-1, n) = MarksAfter(r, k, n)
  BY <1>1, MarksAfterFacts
<1>3. /\ u.edges \in [Nodes -> Seq(Nodes)] /\ u.back \in [Nodes -> Seq(Nodes)]
      /\ s.edges \in [Nodes -> Seq(Nodes)] /\ s.back \in [Nodes -> Seq(Nodes)]
  BY GraphFields DEF WellFormed
<1> HIDE DEF f
<1>4. \A n \in Nodes : Size(u, n) \in Nat /\ Size(s, n) \in Nat
  BY <1>3 DEF Size
<1>5. Size(u, f) >= Size(s, f) + 1
  <2>1. Size(u, f) = Size(s, f) + MarksAfter(r, k-1, f)
    BY <1>1 DEF Partly
  <2>2. MarksAfter(r, k-1, f) = MarksAfter(r, k, f) + 1 /\ MarksAfter(r, k, f) \in Nat
    BY <1>1, <1>2
  <2> QED BY <1>1, <1>4, <2>1, <2>2
<1>6. u.edges[f] # <<>> /\ u.edges[f] \in Seq(Nodes)
  <2>1. Len(u.edges[f]) >= 1
    BY <1>1, <1>4, <1>5 DEF Size
  <2> QED BY <1>1, <1>3, <2>1
<1>7. /\ t \in Nodes
      /\ h.edges = [u.edges EXCEPT ![f] = Front(u.edges[f])]
      /\ h.back = [u.back EXCEPT ![t] = RemoveFirst(u.back[t], f)]
  <2>1. h = RemoveLast(u, f)
    BY DEF f
  <2> QED BY <1>1, <1>6, <2>1, RemoveLastFacts
<1>8. /\ Front(u.edges[f]) \in Seq(Nodes)
      /\ Len(Front(u.edges[f])) = Len(u.edges[f]) - 1
      /\ \A i \in 1..Len(u.edges[f])-1 : Front(u.edges[f])[i] = u.edges[f][i]
      /\ t = u.edges[f][Len(u.edges[f])] /\ Len(u.edges[f]) \in DOMAIN u.edges[f]
  BY <1>6, FrontFacts
<1> HIDE DEF t
<1>9. ASSUME NEW n \in Nodes PROVE Size(h, n) = Size(s, n) + MarksAfter(r, k, n)
  <2>1. Size(u, n) = Size(s, n) + MarksAfter(r, k-1, n)
    BY DEF Partly
  <2>2. CASE n = f
    <3>1. Size(h, n) = Size(u, n) - 1
      BY <1>1, <1>3, <1>7, <1>8, <2>2 DEF Size
    <3> QED BY <1>2, <1>4, <2>1, <2>2, <3>1
  <2>3. CASE n # f
    <3>1. Size(h, n) = Size(u, n)
      BY <1>1, <1>3, <1>7, <2>3 DEF Size
    <3> QED BY <1>2, <1>4, <2>1, <2>3, <3>1
  <2> QED BY <2>2, <2>3
<1>10. ASSUME NEW n \in Nodes PROVE Begins(s.edges[n], h.edges[n])
  <2>1. Begins(s.edges[n], u.edges[n])
    BY DEF Partly
  <2>2. CASE n # f
    BY <1>1, <1>3, <1>7, <2>1, <2>2
  <2>3. CASE n = f
    <3> DEFINE e == s.edges[f]
               d == u.edges[f]
    <3>1. h.edges[n] = Front(d)
      BY <1>1, <1>3, <1>7, <2>3
    <3>2. e \in Seq(Nodes) /\ d \in Seq(Nodes) /\ Len(d) >= Len(e) + 1 /\ Begins(e, d)
      BY <1>1, <1>3, <1>5, <2>1, <2>3 DEF Size
    <3>3. /\ Len(Front(d)) = Len(d) - 1
          /\ \A i \in 1..Len(d)-1 : Front(d)[i] = d[i]
      BY <1>8
    <3> HIDE DEF e, d
    <3>4. Begins(e, Front(d))
      <4>1. Len(e) \in Nat /\ Len(d) \in Nat /\ DOMAIN e = 1..Len(e)
        BY <3>2
      <4> QED BY <3>2, <3>3, <4>1 DEF Begins
    <3> QED BY <2>3, <3>1, <3>4 DEF e
  <2> QED BY <2>2, <2>3
<1>11. f \notin ToSet(s.back[t])
  <2>1. SUFFICES ASSUME HasEdge(s, f, t) PROVE FALSE
    BY <1>1, <1>7 DEF WellFormed
  <2> DEFINE e == s.edges[f]
             d == u.edges[f]
  <2>2. e \in Seq(Nodes) /\ d \in Seq(Nodes) /\ Len(d) >= Len(e) + 1 /\ Begins(e, d) /\ NoRepeat(d)
    BY <1>1, <1>3, <1>5 DEF Size, Partly, WellFormed
  <2>3. t = d[Len(d)] /\ Len(d) \in DOMAIN d /\ t \in ToSet(e)
    BY <1>8, <2>1 DEF HasEdge
  <2> HIDE DEF e, d
  <2>4. PICK j \in DOMAIN e : e[j] = t
    BY <2>3 DEF ToSet
  <2>5. /\ Len(e) \in Nat /\ Len(d) \in Nat
        /\ DOMAIN e = 1..Len(e) /\ DOMAIN d = 1..Len(d)
    BY <2>2
  <2>6. j \in DOMAIN d /\ d[j] = t /\ j # Len(d)
    BY <2>2, <2>4, <2>5 DEF Begins
  <2> QED BY <2>2, <2>3, <2>6 DEF NoRepeat
<1>12. ASSUME NEW n \in Nodes PROVE Begins(s.back[n], h.back[n])
  <2>1. Begins(s.back[n], u.back[n])
    BY DEF Partly
  <2>2. CASE n # t
    BY <1>3, <1>7, <2>1, <2>2
  <2>3. CASE n = t
    <3> DEFINE c == s.back[t]
               b == u.back[t]
    <3>1. h.back[n] = RemoveFirst(b, f)
      BY <1>3, <1>7, <2>3
    <3>2. c \in Seq(Nodes) /\ b \in Seq(Nodes) /\ Begins(c, b) /\ f \notin ToSet(c)
      BY <1>3, <1>7, <1>11, <2>1, <2>3
    <3> HIDE DEF c, b
    <3>3. /\ Len(c) \in 0..Len(b) /\ DOMAIN c = 1..Len(c)
          /\ \A i \in 1..Len(c) : b[i] = c[i] /\ c[i] # f
      <4>1. Len(c) \in Nat /\ Len(b) \in Nat /\ DOMAIN c = 1..Len(c)
        BY <3>2
      <4> QED BY <3>2, <4>1 DEF Begins, ToSet
    <3>4. /\ Len(c) <= Len(RemoveFirst(b, f))
          /\ \A i \in 1..Len(c) : RemoveFirst(b, f)[i] = b[i]
      <4>1. \A i \in 1..Len(c) : b[i] # f
        BY <3>3
      <4> QED BY <3>2, <3>3, <4>1, RemoveFirstFacts, Zenon
    <3>5. Begins(c, RemoveFirst(b, f))
      BY <3>3, <3>4 DEF Begins
    <3> QED BY <2>3, <3>1, <3>5 DEF c
  <2> QED BY <2>2, <2>3
<1> QED BY <1>9, <1>10, <1>12 DEF Partly

LEMMA RolledBackFacts ==
    ASSUME NEW s, WellFormed(s), Settled(s), NEW g, WellFormed(g), Extends(g, s),
           NEW h, h = RolledBack(g)
    PROVE  /\ WellFormed(h) /\ Extends(h, s) /\ Settled(h)
           /\ h.edges = s.edges /\ h.rmw = s.rmw /\ h.cycles = s.cycles
           /\ h.endless = g.endless
<1> DEFINE r == g.rollback
           N == Len(r)
           V == {u \in Graphs : WellFormed(u) /\ SameRest(g, u)}
           F == [e \in (1..N) \X V |-> RemoveLast(e[2], r[e[1]])]
           undone[i \in 0..N] == IF i = 0 THEN g ELSE RemoveLast(undone[i-1], r[i])
           Solves(u) == u = [i \in 0..N |-> IF i = 0 THEN g ELSE RemoveLast(u[i-1], r[i])]
<1>1. g \in Graphs /\ r \in Seq(Nodes) /\ N \in Nat /\ g \in V
  BY GraphFields DEF WellFormed, SameRest
<1>2. ASSUME NEW u \in V, NEW i \in 1..N
      PROVE  RemoveLast(u, r[i]) \in V
  <2>1. r[i] \in Nodes
    BY <1>1
  <2> DEFINE v == RemoveLast(u, r[i])
  <2>2. WellFormed(v) /\ SameRest(u, v)
    BY <2>1, RemoveLastFacts, Zenon
  <2> HIDE DEF v
  <2>3. SameRest(g, v)
    BY <2>2 DEF SameRest
  <2>4. v \in Graphs
    BY <2>2 DEF WellFormed
  <2> QED BY <2>2, <2>3, <2>4 DEF v
<1>3. F \in [(1..N) \X V -> V]
  <2> HIDE DEF V, N, r
  <2> QED BY <1>2
<1>4. \E u : Iterates(u, V, g, N, F)
  <2> HIDE DEF N, V, F
  <2> QED BY <1>1, <1>3, Iteration, Zenon
<1>5. PICK u \in [0..N -> V] : u[0] = g /\ \A i \in 1..N : u[i] = F[<<i, u[i-1]>>]
  <2> HIDE DEF N, V, F
  <2> QED BY <1>4 DEF Iterates
<1>6. Solves(u)
  <2>1. ASSUME NEW i \in 0..N, i # 0
        PROVE  u[i] = RemoveLast(u[i-1], r[i])
    <3>1. i \in 1..N /\ i-1 \in 0..N
      BY <1>1, <2>1
    <3> HIDE DEF V, N, r
    <3>2. <<i, u[i-1]>> \in (1..N) \X V
      BY <1>5, <3>1
    <3> QED BY <1>5, <3>1, <3>2
  <2> HIDE DEF V, N, r
  <2> QED BY <1>5, <2>1
<1>7. Solves(undone)
  <2>1. undone = CHOOSE v : Solves(v)
    OBVIOUS
  <2> HIDE DEF undone, Solves
  <2> QED BY <1>6, <2>1
<1>8. h = [undone[N] EXCEPT
             !.rmw = [n \in Nodes |-> IF n \in ToSet(g.rmwRollback) THEN NULL ELSE @[n]],
             !.cycles = g.oldCycles, !.rollback = <<>>, !.rmwRollback = <<>>]
  BY DEF RolledBack
<1> HIDE DEF undone
<1>9. undone[0] = g
  BY <1>1, <1>7
<1>10. ASSUME NEW i \in 1..N PROVE undone[i] = RemoveLast(undone[i-1], r[i])
  <2>1. i \in 0..N /\ i # 0
    BY <1>1
  <2> QED BY <1>7, <2>1
<1> HIDE DEF Solves
<1> DEFINE A == {i \in 0..N : undone[i] \in V /\ Partly(undone[i], s, r, i)}
<1>11. 0 \in A
  <2>1. \A n \in Nodes : MarksAfter(r, 0, n) = Marks(g, n)
    BY <1>1, MarksAfterFacts DEF Marks
  <2>2. Partly(g, s, r, 0)
    BY <2>1 DEF Partly, Extends
  <2> QED BY <1>1, <1>9, <2>2
<1>12. ASSUME NEW i \in 1..N, i-1 \in A PROVE i \in A
  <2>1. i \in 0..N
    BY <1>1
  <2>2. undone[i] \in V
    <3> HIDE DEF V
    <3> QED BY <1>2, <1>10, <1>12
  <2>3. WellFormed(undone[i-1]) /\ Partly(undone[i-1], s, r, i-1)
    BY <1>12
  <2>4. Partly(undone[i], s, r, i)
    BY <1>1, <1>10, <2>3, UndoOne
  <2> QED BY <2>1, <2>2, <2>4
<1>13. undone[N] \in V /\ Partly(undone[N], s, r, N)
  <2>1. A \in SUBSET (0..N)
    OBVIOUS
  <2> HIDE DEF A
  <2>2. A = 0..N
    BY <1>1, <1>11, <1>12, <2>1, Induction
  <2> QED BY <1>1, <2>2 DEF A
<1> DEFINE u1 == undone[N]
<1>14. WellFormed(u1) /\ SameRest(g, u1) /\ u1 \in Graphs
  BY <1>13
<1>15. u1.edges = s.edges /\ u1.back = s.back
  <2>1. ASSUME NEW n \in Nodes
        PROVE  /\ Begins(s.edges[n], u1.edges[n]) /\ Begins(s.back[n], u1.back[n])
               /\ Size(u1, n) = Size(s, n)
    <3>1. MarksAfter(r, N, n) = 0
      BY <1>1, MarksAfterFacts
    <3>2. Size(s, n) \in Nat
      BY FieldFacts DEF Size
    <3> QED BY <1>13, <3>1, <3>2 DEF Partly
  <2> HIDE DEF u1
  <2> QED BY <1>14, <2>1, BackToStart
<1> DEFINE rmw1 == [n \in Nodes |-> IF n \in ToSet(g.rmwRollback) THEN NULL ELSE u1.rmw[n]]
<1>16. rmw1 = s.rmw /\ rmw1 \in [Nodes -> 1..MaxWrites \cup {NULL}]
  <2>1. ToSet(g.rmwRollback) = {} /\ u1.rmw = s.rmw
    BY <1>14 DEF Extends, SameRest, ToSet
  <2>2. s.rmw \in [Nodes -> 1..MaxWrites \cup {NULL}]
    BY GraphFields DEF WellFormed
  <2> QED BY <2>1, <2>2
<1>17. /\ h \in Graphs /\ h.edges = u1.edges /\ h.back = u1.back
       /\ h.rmw = rmw1 /\ h.cycles = g.oldCycles
       /\ h.rollback = <<>> /\ h.rmwRollback = <<>>
       /\ h.oldCycles = u1.oldCycles /\ h.endless = u1.endless
  <2> DEFINE k1 == [u1 EXCEPT !.rmw = rmw1]
             k2 == [k1 EXCEPT !.cycles = g.oldCycles]
             k3 == [k2 EXCEPT !.rollback = <<>>]
  <2>1. h = [k3 EXCEPT !.rmwRollback = <<>>]
    BY <1>8
  <2>2. g.oldCycles \in BOOLEAN /\ <<>> \in Seq(Nodes)
    BY <1>1, GraphFields
  <2> HIDE DEF u1, rmw1
  <2>3. /\ k1 \in Graphs /\ k1.edges = u1.edges /\ k1.back = u1.back /\ k1.rmw = rmw1
        /\ k1.oldCycles = u1.oldCycles /\ k1.endless = u1.endless
    BY <1>14, <1>16 DEF Graphs
  <2> HIDE DEF k1
  <2>4. /\ k2 \in Graphs /\ k2.edges = u1.edges /\ k2.back = u1.back /\ k2.rmw = rmw1
        /\ k2.oldCycles = u1.oldCycles /\ k2.endless = u1.endless /\ k2.cycles = g.oldCycles
    BY <2>2, <2>3 DEF Graphs
  <2> HIDE DEF k2
  <2>5. /\ k3 \in Graphs /\ k3.edges = u1.edges /\ k3.back = u1.back /\ k3.rmw = rmw1
        /\ k3.oldCycles = u1.oldCycles /\ k3.endless = u1.endless /\ k3.cycles = g.oldCycles
        /\ k3.rollback = <<>>
    BY <2>2, <2>4 DEF Graphs
  <2> HIDE DEF k3
  <2> QED BY <2>1, <2>2, <2>5 DEF Graphs
<1> HIDE DEF u1, rmw1
<1>18. WellFormed(h)
  BY <1>14, <1>17 DEF WellFormed, HasEdge
<1>19. /\ g.oldCycles = s.cycles /\ s.oldCycles = s.cycles
       /\ u1.oldCycles = g.oldCycles /\ u1.endless = g.endless
       /\ s.endless => g.endless
  BY <1>14 DEF Extends, Settled, SameRest
<1>20. Settled(h)
  BY <1>17, <1>19 DEF Settled
<1>21. Extends(h, s)
  <2>1. Extends(s, s)
    BY ExtendsFacts
  <2>2. s.rollback = <<>>
    BY DEF Settled
  <2>3. \A n \in Nodes : Marks(h, n) = Marks(s, n) /\ Size(h, n) = Size(s, n)
    BY <1>15, <1>17, <2>2 DEF Marks, Size
  <2>4. ASSUME NEW n \in Nodes
        PROVE  /\ Begins(s.edges[n], h.edges[n]) /\ Begins(s.back[n], h.back[n])
               /\ Size(h, n) = Size(s, n) + Marks(h, n)
    <3>1. /\ Begins(s.edges[n], s.edges[n]) /\ Begins(s.back[n], s.back[n])
          /\ Size(s, n) = Size(s, n) + Marks(s, n)
      BY <2>1 DEF Extends
    <3>2. h.edges = s.edges /\ h.back = s.back
      BY <1>15, <1>17
    <3> QED BY <2>3, <3>1, <3>2
  <2>5. /\ h.rmw = s.rmw /\ h.oldCycles = s.cycles /\ h.rmwRollback = <<>>
        /\ s.endless => h.endless
    BY <1>16, <1>17, <1>19
  <2> QED BY <2>4, <2>5 DEF Extends
<1> QED BY <1>15, <1>16, <1>17, <1>18, <1>19, <1>20, <1>21
-----------------------------------------------------------------------------
(***************************************************************************)
(* A merge moves the edges of promise p to write w, one by one.  It is     *)
(* judged by the placings of Q, the ones that obey what is asked for once  *)
(* p is w: with p put where w is, they go up along all edges, weakly.      *)
(***************************************************************************)
Moved(at, p, w) == [n \in Nodes |-> at[IF n = p THEN w ELSE n]]

MergeOf(w, p, P, Q) ==
    /\ P \subseteq Nodes /\ Q \subseteq Placings
    /\ w \in P /\ w \in 1..MaxWrites
    /\ p \in P /\ p \notin 1..MaxWrites

Merging(g, w, p, P, Q) ==
    /\ WellFormed(g) /\ Within(g, P) /\ ClosedUp(g, P)
    /\ \A at \in Q : /\ Climbs(g, Moved(at, p, w)) /\ ~g.cycles
                     /\ \A t \in P \ {p} : ChainsUp(g, Moved(at, p, w), P, t)

\* Nothing is added to p, and the merge stops for a cycle only.
Carried(x, start, w, p, P, Q) ==
    /\ x \in [graph : Graphs, ok : BOOLEAN]
    /\ Merging(x.graph, w, p, P, Q)
    /\ x.graph.rmw = start.graph.rmw
    /\ \A n \in Nodes : /\ HasEdge(x.graph, n, p) => HasEdge(start.graph, n, p)
                        /\ HasEdge(x.graph, p, n) => HasEdge(start.graph, p, n)
    /\ x.ok => start.ok
    /\ x.ok \/ x.graph.cycles

LEMMA UnlinkIs ==
    ASSUME NEW g \in Graphs, NEW f \in Nodes, NEW t \in Nodes
    PROVE  Unlink(g, f, t) =
              WithEdges(g, [g.edges EXCEPT ![f] = RemoveFirst(g.edges[f], t)],
                           [g.back EXCEPT ![t] = RemoveFirst(g.back[t], f)])
BY DEF Unlink, WithEdges, Graphs

OneLess(g, h, f, t) ==
    \A m, n \in Nodes : HasEdge(h, m, n) <=> HasEdge(g, m, n) /\ ~(m = f /\ n = t)

LEMMA UnlinkFacts ==
    ASSUME NEW g, WellFormed(g), NEW f \in Nodes, NEW t \in Nodes, NEW h, h = Unlink(g, f, t)
    PROVE  WellFormed(h) /\ SameRest(g, h) /\ OneLess(g, h, f, t)
<1> DEFINE newEdges == [g.edges EXCEPT ![f] = RemoveFirst(g.edges[f], t)]
           newBack == [g.back EXCEPT ![t] = RemoveFirst(g.back[t], f)]
<1>1. /\ g \in Graphs /\ g.edges \in [Nodes -> Seq(Nodes)] /\ g.back \in [Nodes -> Seq(Nodes)]
      /\ g.edges[f] \in Seq(Nodes) /\ g.back[t] \in Seq(Nodes)
      /\ NoRepeat(g.edges[f]) /\ NoRepeat(g.back[t])
  BY GraphFields DEF WellFormed
<1>2. /\ RemoveFirst(g.edges[f], t) \in Seq(Nodes)
      /\ NoRepeat(RemoveFirst(g.edges[f], t))
      /\ ToSet(RemoveFirst(g.edges[f], t)) = ToSet(g.edges[f]) \ {t}
  BY <1>1, RemoveFirstFacts
<1>3. /\ RemoveFirst(g.back[t], f) \in Seq(Nodes)
      /\ NoRepeat(RemoveFirst(g.back[t], f))
      /\ ToSet(RemoveFirst(g.back[t], f)) = ToSet(g.back[t]) \ {f}
  BY <1>1, RemoveFirstFacts
<1>4. newEdges \in [Nodes -> Seq(Nodes)] /\ newBack \in [Nodes -> Seq(Nodes)]
  BY <1>1, <1>2, <1>3
<1>5. h \in Graphs /\ h.edges = newEdges /\ h.back = newBack /\ SameRest(g, h)
  <2>1. h = WithEdges(g, newEdges, newBack)
    BY <1>1, UnlinkIs
  <2> HIDE DEF newEdges, newBack
  <2>2. /\ WithEdges(g, newEdges, newBack) \in Graphs
        /\ WithEdges(g, newEdges, newBack).edges = newEdges
        /\ WithEdges(g, newEdges, newBack).back = newBack
        /\ SameRest(g, WithEdges(g, newEdges, newBack))
    BY <1>1, <1>4, WithEdgesFacts
  <2> QED BY <2>1, <2>2
<1>6. \A n \in Nodes :
         /\ h.edges[n] = IF n = f THEN RemoveFirst(g.edges[f], t) ELSE g.edges[n]
         /\ h.back[n] = IF n = t THEN RemoveFirst(g.back[t], f) ELSE g.back[n]
  BY <1>1, <1>5
<1> HIDE DEF newEdges, newBack
<1>7. \A m, n \in Nodes : /\ HasEdge(h, m, n) <=> HasEdge(g, m, n) /\ ~(m = f /\ n = t)
                          /\ m \in ToSet(h.back[n]) <=>
                                m \in ToSet(g.back[n]) /\ ~(m = f /\ n = t)
  BY <1>2, <1>3, <1>6 DEF HasEdge
<1>8. \A m, n \in Nodes : HasEdge(h, m, n) <=> m \in ToSet(h.back[n])
  BY <1>7 DEF WellFormed
<1>9. ASSUME NEW n \in Nodes
      PROVE  NoRepeat(h.edges[n]) /\ NoRepeat(h.back[n]) /\ ~HasEdge(h, n, n)
  <2>1. NoRepeat(g.edges[n]) /\ NoRepeat(g.back[n]) /\ ~HasEdge(g, n, n)
    BY DEF WellFormed
  <2> QED BY <1>2, <1>3, <1>6, <1>7, <2>1
<1>10. WellFormed(h)
  BY <1>5, <1>8, <1>9 DEF WellFormed
<1>11. OneLess(g, h, f, t)
  BY <1>7 DEF OneLess
<1> QED BY <1>5, <1>10, <1>11

LEMMA MovedFacts ==
    ASSUME NEW w, NEW p, NEW P, NEW Q, MergeOf(w, p, P, Q), NEW at \in Q
    PROVE  /\ Moved(at, p, w) \in [Nodes -> Int]
           /\ \A n \in Nodes : n # p => Moved(at, p, w)[n] = at[n]
           /\ Moved(at, p, w)[p] = at[w]
           /\ \A m, n \in Nodes : m # n => at[m] # at[n]
           /\ \A n \in Nodes : at[n] \in Int
BY DEF MergeOf, Moved, Placings

\* Taking an edge of p away.
LEMMA CutStep ==
    ASSUME NEW w, NEW p, NEW P, NEW Q, MergeOf(w, p, P, Q),
           NEW g, Merging(g, w, p, P, Q), NEW f \in Nodes, NEW t \in Nodes,
           NEW h, h = Unlink(g, f, t)
    PROVE  Merging(h, w, p, P, Q) /\ h.rmw = g.rmw /\ OneLess(g, h, f, t)
<1>1. WellFormed(h) /\ SameRest(g, h) /\ OneLess(g, h, f, t)
  <2>1. WellFormed(g)
    BY DEF Merging
  <2> QED BY <2>1, UnlinkFacts, Zenon
<1>2. h.rmw = g.rmw /\ h.cycles = g.cycles
  BY <1>1 DEF SameRest
<1>3. Within(h, P) /\ ClosedUp(h, P)
  BY <1>1, <1>2 DEF Merging, Within, ClosedUp, OneLess
<1>4. ASSUME NEW at \in Q
      PROVE  /\ Climbs(h, Moved(at, p, w)) /\ ~h.cycles
             /\ \A t1 \in P \ {p} : ChainsUp(h, Moved(at, p, w), P, t1)
  BY <1>1, <1>2 DEF Merging, Climbs, ChainsUp, OneLess
<1> QED BY <1>1, <1>2, <1>3, <1>4 DEF Merging

\* Giving w an edge instead.
LEMMA AddStep ==
    ASSUME NEW w, NEW p, NEW P, NEW Q, MergeOf(w, p, P, Q),
           NEW g, Merging(g, w, p, P, Q),
           NEW f \in P \ {p}, NEW t \in P \ {p}, f # t, \A at \in Q : at[f] <= at[t],
           NEW h, h = addNodeEdge(g, f, t)
    PROVE  /\ Merging(h, w, p, P, Q) /\ h.rmw = g.rmw
           /\ \A n \in Nodes : /\ HasEdge(h, n, p) => HasEdge(g, n, p)
                               /\ HasEdge(h, p, n) => HasEdge(g, p, n)
<1>1. /\ WellFormed(g) /\ ClosedUp(g, P) /\ P \in SUBSET Nodes
      /\ f \in P /\ t \in P /\ p \in Nodes
  BY DEF Merging, MergeOf
<1>2. EdgeAdded(g, h, f, t, P)
  BY <1>1, NodeEdgeFacts
<1>3. WellFormed(h) /\ h.rmw = g.rmw
  BY <1>2 DEF EdgeAdded, Grows
<1>4. \A m, n \in Nodes : HasEdge(h, m, n) =>
         HasEdge(g, m, n) \/ (n = t /\ m \in P /\ (m = f \/ m \in 1..MaxWrites))
  BY <1>2 DEF EdgeAdded
<1>5. Within(h, P) /\ ClosedUp(h, P)
  BY <1>1, <1>3, <1>4 DEF Merging, Within, ClosedUp
<1>6. ASSUME NEW at \in Q
      PROVE  /\ Climbs(h, Moved(at, p, w)) /\ ~h.cycles
             /\ \A t1 \in P \ {p} : ChainsUp(h, Moved(at, p, w), P, t1)
  <2> DEFINE c == Moved(at, p, w)
  <2>1. /\ c \in [Nodes -> Int]
        /\ c[f] = at[f] /\ c[t] = at[t] /\ at[f] # at[t] /\ at[f] \in Int /\ at[t] \in Int
    BY <1>1, MovedFacts
  <2>2. at[f] <= at[t]
    OBVIOUS
  <2>3. c[f] < c[t]
    BY <2>1, <2>2
  <2>4. Climbs(g, c) /\ ~g.cycles /\ \A t1 \in P \ {p} : ChainsUp(g, c, P, t1)
    BY DEF Merging
  <2> HIDE DEF c
  <2>5. /\ ~h.cycles
        /\ \A m, n \in Nodes : HasEdge(h, m, n) => HasEdge(g, m, n) \/ c[m] < c[n]
    BY <1>2, <2>1, <2>3, <2>4 DEF EdgeAdded
  <2>6. \A m, n \in Nodes : c[m] < c[n] => c[m] <= c[n]
    BY <2>1
  <2>7. Climbs(h, c)
    BY <2>4, <2>5, <2>6 DEF Climbs
  <2>8. \A t1 \in P \ {p} : ChainsUp(h, c, P, t1)
    BY <1>3, <2>4 DEF ChainsUp
  <2> QED BY <2>5, <2>7, <2>8 DEF c
<1>7. Merging(h, w, p, P, Q)
  BY <1>3, <1>5, <1>6 DEF Merging
<1>8. ASSUME NEW n \in Nodes
      PROVE  /\ HasEdge(h, n, p) => HasEdge(g, n, p)
             /\ HasEdge(h, p, n) => HasEdge(g, p, n)
  BY <1>1, <1>4 DEF MergeOf
<1> QED BY <1>3, <1>7, <1>8
-----------------------------------------------------------------------------
\* The loops of mergeNodes, one round: x is where the merge is, e the end of
\* the edge that is moved.
BackRound(x, e, w, p) ==
    LET cut == Unlink(x.graph, e, p)
    IN  IF ~x.ok THEN x
        ELSE IF e = w THEN [graph |-> cut, ok |-> TRUE]
        ELSE Checked(addNodeEdge(cut, e, w))

ForwardRound(x, e, w, p) ==
    LET cut == Unlink(x.graph, p, e)
    IN  IF ~x.ok THEN x
        ELSE IF e = w THEN [graph |-> cut, ok |-> TRUE]
        ELSE Checked(addNodeEdge(cut, w, e))

\* No edge comes back to p.
Fewer(x, y, p) ==
    \A n \in Nodes : /\ HasEdge(y.graph, n, p) => HasEdge(x.graph, n, p)
                     /\ HasEdge(y.graph, p, n) => HasEdge(x.graph, p, n)

LEMMA CarriedCut ==
    ASSUME NEW w, NEW p, NEW P, NEW Q, MergeOf(w, p, P, Q),
           NEW start, NEW x, Carried(x, start, w, p, P, Q), x.ok,
           NEW f \in Nodes, NEW t \in Nodes, f = p \/ t = p,
           NEW cut, cut = Unlink(x.graph, f, t),
           NEW y, \/ y = [graph |-> cut, ok |-> TRUE]
                  \/ \E a \in P \ {p}, b \in P \ {p} :
                        /\ a # b /\ \A at \in Q : at[a] <= at[b]
                        /\ y = Checked(addNodeEdge(cut, a, b))
    PROVE  Carried(y, start, w, p, P, Q) /\ Fewer(x, y, p) /\ ~HasEdge(y.graph, f, t)
<1> DEFINE g == x.graph
<1>1. /\ Merging(g, w, p, P, Q) /\ g.rmw = start.graph.rmw /\ start.ok
      /\ \A n \in Nodes : /\ HasEdge(g, n, p) => HasEdge(start.graph, n, p)
                          /\ HasEdge(g, p, n) => HasEdge(start.graph, p, n)
  BY DEF Carried
<1>2. /\ Merging(cut, w, p, P, Q) /\ cut.rmw = g.rmw
      /\ OneLess(g, cut, f, t)
  <2> HIDE DEF g
  <2>1. cut = Unlink(g, f, t)
    BY DEF g
  <2> QED BY <1>1, <2>1, CutStep, Zenon
<1>3. /\ Merging(y.graph, w, p, P, Q) /\ y.graph.rmw = cut.rmw
      /\ y.ok \in BOOLEAN
      /\ y.ok \/ y.graph.cycles
      /\ y \in [graph : Graphs, ok : BOOLEAN]
      /\ \A n \in Nodes : /\ HasEdge(y.graph, n, p) => HasEdge(cut, n, p)
                          /\ HasEdge(y.graph, p, n) => HasEdge(cut, p, n)
  <2>1. CASE y = [graph |-> cut, ok |-> TRUE]
    BY <1>2, <2>1 DEF Merging, WellFormed
  <2>2. CASE y # [graph |-> cut, ok |-> TRUE]
    <3>1. PICK a \in P \ {p}, b \in P \ {p} :
             /\ a # b /\ \A at \in Q : at[a] <= at[b]
             /\ y = Checked(addNodeEdge(cut, a, b))
      BY <2>2
    <3> DEFINE h == addNodeEdge(cut, a, b)
    <3>2. /\ Merging(h, w, p, P, Q) /\ h.rmw = cut.rmw
          /\ \A n \in Nodes : /\ HasEdge(h, n, p) => HasEdge(cut, n, p)
                              /\ HasEdge(h, p, n) => HasEdge(cut, p, n)
      BY <1>2, <3>1, AddStep
    <3>3. y = [graph |-> h, ok |-> ~h.cycles]
      BY <3>1 DEF Checked
    <3> HIDE DEF h
    <3>4. /\ y.graph = h /\ y.ok = ~h.cycles
          /\ y \in [graph : Graphs, ok : BOOLEAN]
      BY <3>2, <3>3 DEF Merging, WellFormed
    <3> QED BY <3>2, <3>3, <3>4
  <2> QED BY <2>1, <2>2
<1>5. p \in Nodes
  BY DEF MergeOf
<1>6. ~HasEdge(y.graph, f, t)
  BY <1>2, <1>3, <1>5 DEF OneLess
<1>7. Fewer(x, y, p)
  BY <1>2, <1>3, <1>5 DEF Fewer, OneLess
<1>8. \A n \in Nodes : /\ HasEdge(y.graph, n, p) => HasEdge(start.graph, n, p)
                       /\ HasEdge(y.graph, p, n) => HasEdge(start.graph, p, n)
  BY <1>1, <1>7 DEF Fewer
<1> QED BY <1>1, <1>2, <1>3, <1>6, <1>7, <1>8 DEF Carried

LEMMA BackRoundFacts ==
    ASSUME NEW w, NEW p, NEW P, NEW Q, MergeOf(w, p, P, Q),
           NEW start, Merging(start.graph, w, p, P, Q),
           NEW x, Carried(x, start, w, p, P, Q),
           NEW e \in Nodes, HasEdge(start.graph, e, p),
           NEW y, y = BackRound(x, e, w, p)
    PROVE  /\ Carried(y, start, w, p, P, Q) /\ Fewer(x, y, p)
           /\ y.ok => x.ok /\ ~HasEdge(y.graph, e, p)
<1>1. p \in Nodes /\ w \in Nodes /\ w \in P \ {p}
  BY DEF MergeOf
<1>2. CASE ~x.ok
  <2>1. y = x
    BY <1>2 DEF BackRound
  <2> QED BY <1>2, <2>1 DEF Fewer
<1>3. CASE x.ok
  <2> DEFINE cut == Unlink(x.graph, e, p)
  <2>1. CASE e = w
    <3>1. y = [graph |-> cut, ok |-> TRUE]
      BY <1>3, <2>1 DEF BackRound
    <3> HIDE DEF cut
    <3> QED BY <1>1, <1>3, <3>1, CarriedCut DEF cut
  <2>2. CASE e # w
    <3>1. e \in P \ {p}
      BY <1>1 DEF Merging, Within, WellFormed
    <3>2. ASSUME NEW at \in Q PROVE at[e] <= at[w]
      <4>1. Moved(at, p, w)[e] <= Moved(at, p, w)[p]
        BY <1>1 DEF Merging, Climbs
      <4> QED BY <1>1, <3>1, <4>1, MovedFacts
    <3>3. y = Checked(addNodeEdge(cut, e, w))
      BY <1>3, <2>2 DEF BackRound
    <3> HIDE DEF cut
    <3>4. \E a \in P \ {p}, b \in P \ {p} :
             /\ a # b /\ \A at \in Q : at[a] <= at[b]
             /\ y = Checked(addNodeEdge(cut, a, b))
      BY <1>1, <2>2, <3>1, <3>2, <3>3
    <3> QED BY <1>1, <1>3, <3>4, CarriedCut DEF cut
  <2> QED BY <2>1, <2>2
<1> QED BY <1>2, <1>3

LEMMA ForwardRoundFacts ==
    ASSUME NEW w, NEW p, NEW P, NEW Q, MergeOf(w, p, P, Q),
           NEW start, Merging(start.graph, w, p, P, Q),
           NEW x, Carried(x, start, w, p, P, Q),
           NEW e \in Nodes, HasEdge(start.graph, p, e),
           NEW y, y = ForwardRound(x, e, w, p)
    PROVE  /\ Carried(y, start, w, p, P, Q) /\ Fewer(x, y, p)
           /\ y.ok => x.ok /\ ~HasEdge(y.graph, p, e)
<1>1. p \in Nodes /\ w \in Nodes /\ w \in P \ {p}
  BY DEF MergeOf
<1>2. CASE ~x.ok
  <2>1. y = x
    BY <1>2 DEF ForwardRound
  <2> QED BY <1>2, <2>1 DEF Fewer
<1>3. CASE x.ok
  <2> DEFINE cut == Unlink(x.graph, p, e)
  <2>1. CASE e = w
    <3>1. y = [graph |-> cut, ok |-> TRUE]
      BY <1>3, <2>1 DEF ForwardRound
    <3> HIDE DEF cut
    <3> QED BY <1>1, <1>3, <3>1, CarriedCut DEF cut
  <2>2. CASE e # w
    <3>1. e \in P \ {p}
      BY <1>1 DEF Merging, Within, WellFormed
    <3>2. ASSUME NEW at \in Q PROVE at[w] <= at[e]
      <4>1. Moved(at, p, w)[p] <= Moved(at, p, w)[e]
        BY <1>1 DEF Merging, Climbs
      <4> QED BY <1>1, <3>1, <4>1, MovedFacts
    <3>3. y = Checked(addNodeEdge(cut, w, e))
      BY <1>3, <2>2 DEF ForwardRound
    <3> HIDE DEF cut
    <3>4. \E a \in P \ {p}, b \in P \ {p} :
             /\ a # b /\ \A at \in Q : at[a] <= at[b]
             /\ y = Checked(addNodeEdge(cut, a, b))
      BY <1>1, <2>2, <3>1, <3>2, <3>3
    <3> QED BY <1>1, <1>3, <3>4, CarriedCut DEF cut
  <2> QED BY <2>1, <2>2
<1> QED BY <1>2, <1>3

LEMMA MoveBackFacts ==
    ASSUME NEW w, NEW p, NEW P, NEW Q, MergeOf(w, p, P, Q),
           NEW start \in [graph : Graphs, ok : BOOLEAN],
           Merging(start.graph, w, p, P, Q), start.ok \/ start.graph.cycles,
           NEW y, y = MoveBack(start, w, p)
    PROVE  /\ Carried(y, start, w, p, P, Q)
           /\ y.ok => \A m \in Nodes : ~HasEdge(y.graph, m, p)
<1> DEFINE es == Reverse(start.graph.back[p])
           N == Len(es)
           V == {x \in [graph : Graphs, ok : BOOLEAN] : Carried(x, start, w, p, P, Q)}
           Round(x, e) == BackRound(x, e, w, p)
           F == [e \in (1..N) \X V |-> Round(e[2], es[e[1]])]
           upTo[i \in 0..N] ==
              IF i = 0 THEN start
              ELSE LET done == upTo[i-1]
                       cut == Unlink(done.graph, es[i], p)
                   IN  IF ~done.ok THEN done
                       ELSE IF es[i] = w THEN [graph |-> cut, ok |-> TRUE]
                       ELSE Checked(addNodeEdge(cut, es[i], w))
           Solves(u) == u = [i \in 0..N |->
              IF i = 0 THEN start
              ELSE LET done == u[i-1]
                       cut == Unlink(done.graph, es[i], p)
                   IN  IF ~done.ok THEN done
                       ELSE IF es[i] = w THEN [graph |-> cut, ok |-> TRUE]
                       ELSE Checked(addNodeEdge(cut, es[i], w))]
<1>1. WellFormed(start.graph) /\ p \in Nodes
  BY DEF Merging, MergeOf
<1>2. es \in Seq(Nodes) /\ N \in Nat /\ ToSet(es) = ToSet(start.graph.back[p])
  <2>1. start.graph.back[p] \in Seq(Nodes)
    BY <1>1, FieldFacts
  <2>2. es \in Seq(Nodes) /\ ToSet(es) = ToSet(start.graph.back[p])
    BY <2>1, ReverseFacts
  <2> QED BY <2>2
<1>3. ASSUME NEW i \in 1..N PROVE es[i] \in Nodes /\ HasEdge(start.graph, es[i], p)
  <2>1. es[i] \in Nodes /\ es[i] \in ToSet(es)
    BY <1>2 DEF ToSet
  <2> HIDE DEF es
  <2> QED BY <1>1, <1>2, <2>1 DEF WellFormed, HasEdge
<1>4. start \in V
  BY DEF Carried
<1> HIDE DEF es, N
<1>5. ASSUME NEW x \in V, NEW i \in 1..N
      PROVE  /\ Round(x, es[i]) \in V
             /\ Fewer(x, Round(x, es[i]), p)
             /\ Round(x, es[i]).ok => x.ok /\ ~HasEdge(Round(x, es[i]).graph, es[i], p)
  <2> DEFINE z == Round(x, es[i])
  <2>1. /\ Carried(z, start, w, p, P, Q) /\ Fewer(x, z, p)
        /\ z.ok => x.ok /\ ~HasEdge(z.graph, es[i], p)
    BY <1>3, BackRoundFacts
  <2>2. z \in [graph : Graphs, ok : BOOLEAN]
    BY <2>1 DEF Carried
  <2> HIDE DEF z, Round
  <2> QED BY <2>1, <2>2 DEF z
<1>6. F \in [(1..N) \X V -> V]
  <2> HIDE DEF V, Round
  <2> QED BY <1>5
<1>7. \E u : Iterates(u, V, start, N, F)
  <2> HIDE DEF V, F
  <2> QED BY <1>2, <1>4, <1>6, Iteration, Zenon
<1>8. PICK u \in [0..N -> V] : u[0] = start /\ \A i \in 1..N : u[i] = F[<<i, u[i-1]>>]
  <2> HIDE DEF V, F
  <2> QED BY <1>7 DEF Iterates
<1>9. Solves(u)
  <2>1. ASSUME NEW i \in 0..N, i # 0
        PROVE  u[i] = Round(u[i-1], es[i])
    <3>1. i \in 1..N /\ i-1 \in 0..N
      BY <1>2, <2>1
    <3> HIDE DEF V, Round
    <3>2. <<i, u[i-1]>> \in (1..N) \X V
      BY <1>8, <3>1
    <3> QED BY <1>8, <3>1, <3>2
  <2>2. u = [i \in 0..N |-> IF i = 0 THEN start ELSE Round(u[i-1], es[i])]
    <3> HIDE DEF V, Round
    <3> QED BY <1>8, <2>1
  <2> HIDE DEF V
  <2> QED BY <2>2 DEF BackRound
<1>10. Solves(upTo)
  <2>1. upTo = CHOOSE v : Solves(v)
    OBVIOUS
  <2> HIDE DEF upTo, Solves
  <2> QED BY <1>9, <2>1
<1>11. y = upTo[N]
  BY DEF MoveBack, es, N
<1> HIDE DEF upTo
<1>12. upTo[0] = start
  BY <1>2, <1>10
<1>13. ASSUME NEW i \in 1..N PROVE upTo[i] = Round(upTo[i-1], es[i])
  <2>1. i \in 0..N /\ i # 0
    BY <1>2
  <2> QED BY <1>10, <2>1 DEF BackRound
<1> HIDE DEF Solves
<1> DEFINE Gone(x, i) == \A j \in 1..i : ~HasEdge(x.graph, es[j], p)
           A == {i \in 0..N : upTo[i] \in V /\ (upTo[i].ok => Gone(upTo[i], i))}
<1>14. 0 \in A
  <2> HIDE DEF V
  <2> QED BY <1>2, <1>4, <1>12
<1>15. ASSUME NEW i \in 1..N, i-1 \in A PROVE i \in A
  <2>1. i \in 0..N /\ i \in Int /\ i-1 \in Int
    BY <1>2
  <2> HIDE DEF V
  <2>2. upTo[i-1] \in V /\ (upTo[i-1].ok => Gone(upTo[i-1], i-1))
    BY <1>15
  <2>3. /\ upTo[i] \in V
        /\ Fewer(upTo[i-1], upTo[i], p)
        /\ upTo[i].ok => upTo[i-1].ok /\ ~HasEdge(upTo[i].graph, es[i], p)
    <3> HIDE DEF Round
    <3> QED BY <1>5, <1>13, <2>2
  <2>4. ASSUME upTo[i].ok, NEW j \in 1..i PROVE ~HasEdge(upTo[i].graph, es[j], p)
    <3>1. CASE j = i
      BY <2>3, <2>4, <3>1
    <3>2. CASE j # i
      <4>1. j \in 1..i-1 /\ j \in 1..N
        BY <1>2, <2>1, <3>2
      <4>2. ~HasEdge(upTo[i-1].graph, es[j], p) /\ es[j] \in Nodes
        BY <1>3, <2>2, <2>3, <2>4, <4>1
      <4> QED BY <2>3, <4>2 DEF Fewer
    <3> QED BY <3>1, <3>2
  <2> QED BY <2>1, <2>3, <2>4
<1>16. upTo[N] \in V /\ (upTo[N].ok => Gone(upTo[N], N))
  <2>1. A \in SUBSET (0..N)
    OBVIOUS
  <2> HIDE DEF A
  <2>2. A = 0..N
    BY <1>2, <1>14, <1>15, <2>1, Induction
  <2>3. N \in A
    BY <1>2, <2>2
  <2> HIDE DEF V, Gone
  <2> QED BY <2>3 DEF A
<1>17. Carried(y, start, w, p, P, Q)
  BY <1>11, <1>16
<1>18. ASSUME y.ok, NEW m \in Nodes, HasEdge(y.graph, m, p) PROVE FALSE
  <2>1. HasEdge(start.graph, m, p)
    BY <1>17, <1>18 DEF Carried
  <2>2. m \in ToSet(es)
    BY <1>1, <1>2, <2>1 DEF WellFormed, HasEdge
  <2>3. PICK j \in 1..N : es[j] = m
    BY <1>2, <2>2 DEF ToSet, N
  <2> QED BY <1>11, <1>16, <1>18, <2>3
<1> QED BY <1>17, <1>18

LEMMA MoveForwardFacts ==
    ASSUME NEW w, NEW p, NEW P, NEW Q, MergeOf(w, p, P, Q),
           NEW start \in [graph : Graphs, ok : BOOLEAN],
           Merging(start.graph, w, p, P, Q), start.ok \/ start.graph.cycles,
           NEW y, y = MoveForward(start, w, p)
    PROVE  /\ Carried(y, start, w, p, P, Q)
           /\ y.ok => \A m \in Nodes : ~HasEdge(y.graph, p, m)
<1> DEFINE es == Reverse(start.graph.edges[p])
           N == Len(es)
           V == {x \in [graph : Graphs, ok : BOOLEAN] : Carried(x, start, w, p, P, Q)}
           Round(x, e) == ForwardRound(x, e, w, p)
           F == [e \in (1..N) \X V |-> Round(e[2], es[e[1]])]
           upTo[i \in 0..N] ==
              IF i = 0 THEN start
              ELSE LET done == upTo[i-1]
                       cut == Unlink(done.graph, p, es[i])
                   IN  IF ~done.ok THEN done
                       ELSE IF es[i] = w THEN [graph |-> cut, ok |-> TRUE]
                       ELSE Checked(addNodeEdge(cut, w, es[i]))
           Solves(u) == u = [i \in 0..N |->
              IF i = 0 THEN start
              ELSE LET done == u[i-1]
                       cut == Unlink(done.graph, p, es[i])
                   IN  IF ~done.ok THEN done
                       ELSE IF es[i] = w THEN [graph |-> cut, ok |-> TRUE]
                       ELSE Checked(addNodeEdge(cut, w, es[i]))]
<1>1. WellFormed(start.graph) /\ p \in Nodes
  BY DEF Merging, MergeOf
<1>2. es \in Seq(Nodes) /\ N \in Nat /\ ToSet(es) = ToSet(start.graph.edges[p])
  <2>1. start.graph.edges[p] \in Seq(Nodes)
    BY <1>1, FieldFacts
  <2>2. es \in Seq(Nodes) /\ ToSet(es) = ToSet(start.graph.edges[p])
    BY <2>1, ReverseFacts
  <2> QED BY <2>2
<1>3. ASSUME NEW i \in 1..N PROVE es[i] \in Nodes /\ HasEdge(start.graph, p, es[i])
  <2>1. es[i] \in Nodes /\ es[i] \in ToSet(es)
    BY <1>2 DEF ToSet
  <2> HIDE DEF es
  <2> QED BY <1>1, <1>2, <2>1 DEF WellFormed, HasEdge
<1>4. start \in V
  BY DEF Carried
<1> HIDE DEF es, N
<1>5. ASSUME NEW x \in V, NEW i \in 1..N
      PROVE  /\ Round(x, es[i]) \in V
             /\ Fewer(x, Round(x, es[i]), p)
             /\ Round(x, es[i]).ok => x.ok /\ ~HasEdge(Round(x, es[i]).graph, p, es[i])
  <2> DEFINE z == Round(x, es[i])
  <2>1. /\ Carried(z, start, w, p, P, Q) /\ Fewer(x, z, p)
        /\ z.ok => x.ok /\ ~HasEdge(z.graph, p, es[i])
    BY <1>3, ForwardRoundFacts
  <2>2. z \in [graph : Graphs, ok : BOOLEAN]
    BY <2>1 DEF Carried
  <2> HIDE DEF z, Round
  <2> QED BY <2>1, <2>2 DEF z
<1>6. F \in [(1..N) \X V -> V]
  <2> HIDE DEF V, Round
  <2> QED BY <1>5
<1>7. \E u : Iterates(u, V, start, N, F)
  <2> HIDE DEF V, F
  <2> QED BY <1>2, <1>4, <1>6, Iteration, Zenon
<1>8. PICK u \in [0..N -> V] : u[0] = start /\ \A i \in 1..N : u[i] = F[<<i, u[i-1]>>]
  <2> HIDE DEF V, F
  <2> QED BY <1>7 DEF Iterates
<1>9. Solves(u)
  <2>1. ASSUME NEW i \in 0..N, i # 0
        PROVE  u[i] = Round(u[i-1], es[i])
    <3>1. i \in 1..N /\ i-1 \in 0..N
      BY <1>2, <2>1
    <3> HIDE DEF V, Round
    <3>2. <<i, u[i-1]>> \in (1..N) \X V
      BY <1>8, <3>1
    <3> QED BY <1>8, <3>1, <3>2
  <2>2. u = [i \in 0..N |-> IF i = 0 THEN start ELSE Round(u[i-1], es[i])]
    <3> HIDE DEF V, Round
    <3> QED BY <1>8, <2>1
  <2> HIDE DEF V
  <2> QED BY <2>2 DEF ForwardRound
<1>10. Solves(upTo)
  <2>1. upTo = CHOOSE v : Solves(v)
    OBVIOUS
  <2> HIDE DEF upTo, Solves
  <2> QED BY <1>9, <2>1
<1>11. y = upTo[N]
  BY DEF MoveForward, es, N
<1> HIDE DEF upTo
<1>12. upTo[0] = start
  BY <1>2, <1>10
<1>13. ASSUME NEW i \in 1..N PROVE upTo[i] = Round(upTo[i-1], es[i])
  <2>1. i \in 0..N /\ i # 0
    BY <1>2
  <2> QED BY <1>10, <2>1 DEF ForwardRound
<1> HIDE DEF Solves
<1> DEFINE Gone(x, i) == \A j \in 1..i : ~HasEdge(x.graph, p, es[j])
           A == {i \in 0..N : upTo[i] \in V /\ (upTo[i].ok => Gone(upTo[i], i))}
<1>14. 0 \in A
  <2> HIDE DEF V
  <2> QED BY <1>2, <1>4, <1>12
<1>15. ASSUME NEW i \in 1..N, i-1 \in A PROVE i \in A
  <2>1. i \in 0..N /\ i \in Int /\ i-1 \in Int
    BY <1>2
  <2> HIDE DEF V
  <2>2. upTo[i-1] \in V /\ (upTo[i-1].ok => Gone(upTo[i-1], i-1))
    BY <1>15
  <2>3. /\ upTo[i] \in V
        /\ Fewer(upTo[i-1], upTo[i], p)
        /\ upTo[i].ok => upTo[i-1].ok /\ ~HasEdge(upTo[i].graph, p, es[i])
    <3> HIDE DEF Round
    <3> QED BY <1>5, <1>13, <2>2
  <2>4. ASSUME upTo[i].ok, NEW j \in 1..i PROVE ~HasEdge(upTo[i].graph, p, es[j])
    <3>1. CASE j = i
      BY <2>3, <2>4, <3>1
    <3>2. CASE j # i
      <4>1. j \in 1..i-1 /\ j \in 1..N
        BY <1>2, <2>1, <3>2
      <4>2. ~HasEdge(upTo[i-1].graph, p, es[j]) /\ es[j] \in Nodes
        BY <1>3, <2>2, <2>3, <2>4, <4>1
      <4> QED BY <2>3, <4>2 DEF Fewer
    <3> QED BY <3>1, <3>2
  <2> QED BY <2>1, <2>3, <2>4
<1>16. upTo[N] \in V /\ (upTo[N].ok => Gone(upTo[N], N))
  <2>1. A \in SUBSET (0..N)
    OBVIOUS
  <2> HIDE DEF A
  <2>2. A = 0..N
    BY <1>2, <1>14, <1>15, <2>1, Induction
  <2>3. N \in A
    BY <1>2, <2>2
  <2> HIDE DEF V, Gone
  <2> QED BY <2>3 DEF A
<1>17. Carried(y, start, w, p, P, Q)
  BY <1>11, <1>16
<1>18. ASSUME y.ok, NEW m \in Nodes, HasEdge(y.graph, p, m) PROVE FALSE
  <2>1. HasEdge(start.graph, p, m)
    BY <1>17, <1>18 DEF Carried
  <2>2. m \in ToSet(es)
    BY <1>1, <1>2, <2>1 DEF WellFormed, HasEdge
  <2>3. PICK j \in 1..N : es[j] = m
    BY <1>2, <2>2 DEF ToSet, N
  <2> QED BY <1>11, <1>16, <1>18, <2>3
<1> QED BY <1>17, <1>18
-----------------------------------------------------------------------------
\* The graph a merge starts from: w has the RMW of p.
TakenOver(g, w, p) == IF g.rmw[p] = NULL THEN g ELSE [g EXCEPT !.rmw[w] = g.rmw[p]]

TookOver(g, h, w, p) ==
    /\ WellFormed(h) /\ h.edges = g.edges /\ h.cycles = g.cycles
    /\ \A n \in Nodes : n # w => h.rmw[n] = g.rmw[n]
    /\ g.rmw[p] = NULL => h.rmw[w] = g.rmw[w]
    /\ g.rmw[p] # NULL => h.rmw[w] = g.rmw[p]

LEMMA TakenOverFacts ==
    ASSUME NEW g, WellFormed(g), NEW w \in Nodes, NEW p \in Nodes
    PROVE  TookOver(g, TakenOver(g, w, p), w, p)
<1> DEFINE h == TakenOver(g, w, p)
<1>1. g \in Graphs /\ g.rmw \in [Nodes -> 1..MaxWrites \cup {NULL}]
  BY GraphFields DEF WellFormed
<1>2. CASE g.rmw[p] = NULL
  <2>1. h = g
    BY <1>2 DEF TakenOver
  <2> HIDE DEF h
  <2> QED BY <1>1, <1>2, <2>1 DEF TookOver, h
<1>3. CASE g.rmw[p] # NULL
  <2> DEFINE rmw1 == [g.rmw EXCEPT ![w] = g.rmw[p]]
  <2>1. rmw1 \in [Nodes -> 1..MaxWrites \cup {NULL}]
    BY <1>1
  <2>2. h = [g EXCEPT !.rmw = rmw1]
    BY <1>1, <1>3 DEF TakenOver, Graphs
  <2> HIDE DEF rmw1, h
  <2>3. /\ h \in Graphs /\ h.edges = g.edges /\ h.back = g.back
        /\ h.rmw = rmw1 /\ h.cycles = g.cycles
    BY <1>1, <2>1, <2>2 DEF Graphs
  <2>4. WellFormed(h)
    BY <2>3 DEF WellFormed, HasEdge
  <2> QED BY <1>1, <1>3, <2>1, <2>3, <2>4 DEF rmw1, h, TookOver
<1> QED BY <1>2, <1>3

\* A merge ends with all edges moved, or with a cycle.
LEMMA MergeFacts ==
    ASSUME NEW w, NEW p, NEW P, NEW Q, MergeOf(w, p, P, Q),
           NEW g, WellFormed(g), g.rmw[w] = NULL,
           Merging(TakenOver(g, w, p), w, p, P, Q),
           NEW y, y = mergeNodes(g, w, p)
    PROVE  /\ Merging(y.graph, w, p, P, Q)
           /\ y.graph.rmw = TakenOver(g, w, p).rmw
           /\ y.ok \in BOOLEAN
           /\ ~y.ok => y.graph.cycles
           /\ y.ok => \A m \in Nodes : ~HasEdge(y.graph, m, p) /\ ~HasEdge(y.graph, p, m)
<1> DEFINE start == [graph |-> TakenOver(g, w, p), ok |-> TRUE]
           middle == MoveBack(start, w, p)
           end == MoveForward(middle, w, p)
<1>1. w \in Nodes /\ p \in Nodes
  BY DEF MergeOf
<1>2. start \in [graph : Graphs, ok : BOOLEAN] /\ start.ok /\ Merging(start.graph, w, p, P, Q)
  BY DEF Merging, WellFormed
<1> HIDE DEF start
<1>3. /\ Carried(middle, start, w, p, P, Q)
      /\ middle.ok => \A m \in Nodes : ~HasEdge(middle.graph, m, p)
  BY <1>2, MoveBackFacts
<1> HIDE DEF middle
<1>4. /\ middle \in [graph : Graphs, ok : BOOLEAN]
      /\ middle.ok \/ middle.graph.cycles
      /\ Merging(middle.graph, w, p, P, Q)
      /\ middle.graph.rmw = start.graph.rmw
  BY <1>3 DEF Carried
<1>5. /\ Carried(end, middle, w, p, P, Q)
      /\ end.ok => \A m \in Nodes : ~HasEdge(end.graph, p, m)
  BY <1>4, MoveForwardFacts
<1> HIDE DEF end
<1>6. y = [end EXCEPT !.ok = @ /\ ~end.graph.cycles]
  <2>1. ~TakenByAnother(g, w)
    BY DEF TakenByAnother
  <2> QED BY <2>1 DEF mergeNodes, TakenOver, start, middle, end
<1>7. /\ end \in [graph : Graphs, ok : BOOLEAN]
      /\ end.ok \/ end.graph.cycles
      /\ end.ok => middle.ok
      /\ Merging(end.graph, w, p, P, Q)
      /\ end.graph.rmw = middle.graph.rmw
      /\ \A n \in Nodes : HasEdge(end.graph, n, p) => HasEdge(middle.graph, n, p)
  BY <1>5 DEF Carried
<1>8. y.graph = end.graph /\ y.ok = (end.ok /\ ~end.graph.cycles) /\ y.ok \in BOOLEAN
  BY <1>6, <1>7
<1>9. y.graph.rmw = TakenOver(g, w, p).rmw
  BY <1>4, <1>7, <1>8 DEF start
<1>10. ~y.ok => y.graph.cycles
  BY <1>7, <1>8
<1>11. y.ok => \A m \in Nodes : ~HasEdge(y.graph, m, p) /\ ~HasEdge(y.graph, p, m)
  BY <1>3, <1>5, <1>7, <1>8
<1> QED BY <1>7, <1>8, <1>9, <1>10, <1>11

\* What was asked for once p is w.
As(x, p, w) == IF x = p THEN w ELSE x

LEMMA SubstituteFacts ==
    ASSUME NEW pairs, NEW p, NEW w
    PROVE  /\ \A e \in pairs : <<As(e[1], p, w), As(e[2], p, w)>> \in Substitute(pairs, p, w)
           /\ \A s \in Substitute(pairs, p, w) :
                 \E e \in pairs : s = <<As(e[1], p, w), As(e[2], p, w)>>
BY DEF Substitute, As

\* Once p is w, a placing leaves room for p right after w.
Spread(at, p, w) == [n \in Nodes |-> IF n = p THEN 2 * at[w] + 1 ELSE 2 * at[n]]

LEMMA SpreadFacts ==
    ASSUME NEW p \in Nodes, NEW w \in Nodes, p # w, NEW at \in Placings
    PROVE  /\ Spread(at, p, w) \in Placings
           /\ Spread(at, p, w)[p] = 2 * at[w] + 1
           /\ \A n \in Nodes : n # p => Spread(at, p, w)[n] = 2 * at[n]
           /\ at[w] \in Int /\ \A n \in Nodes : at[n] \in Int
<1>1. at \in [Nodes -> Int] /\ \A m, n \in Nodes : at[m] = at[n] => m = n
  BY DEF Placings
<1> DEFINE b == Spread(at, p, w)
<1>2. /\ b[p] = 2 * at[w] + 1
      /\ \A n \in Nodes : n # p => b[n] = 2 * at[n]
      /\ at[w] \in Int /\ \A n \in Nodes : at[n] \in Int
      /\ b = [n \in Nodes |-> b[n]]
  BY <1>1 DEF Spread
<1>3. b \in [Nodes -> Int]
  BY <1>1 DEF Spread
<1>4. \A n \in Nodes : n # p => b[n] # b[p]
  <2> SUFFICES ASSUME NEW n \in Nodes, n # p PROVE 2 * at[n] # 2 * at[w] + 1
    BY <1>2
  <2>1. \A i, j \in Int : 2 * i # 2 * j + 1
    OBVIOUS
  <2> QED BY <1>2, <2>1
<1>5. ASSUME NEW m \in Nodes, NEW n \in Nodes, b[m] = b[n] PROVE m = n
  <2>1. CASE m # p /\ n # p
    <3>1. 2 * at[m] = 2 * at[n] /\ at[m] \in Int /\ at[n] \in Int
      BY <1>2, <1>5, <2>1
    <3>2. at[m] = at[n]
      BY <3>1
    <3> QED BY <1>1, <3>2
  <2>2. CASE m = p \/ n = p
    BY <1>4, <1>5, <2>2
  <2> QED BY <2>1, <2>2
<1> HIDE DEF b
<1>6. b \in Placings
  BY <1>3, <1>5 DEF Placings
<1> QED BY <1>2, <1>6 DEF b
-----------------------------------------------------------------------------
\* A promise may be resolved by a write that no RMW reads from and that was
\* not asked to come after the promise.
Resolvable(w, p, o, a, P) ==
    /\ P \subseteq Nodes
    /\ w \in P /\ w \in 1..MaxWrites
    /\ p \in P /\ p \notin 1..MaxWrites
    /\ <<p, w>> \notin o \cup a
    /\ \A e \in a : e[1] # w

ResolvedOrder(o, w, p) == Substitute(o \ {<<w, p>>}, p, w)

\* A placing of what is asked for once p is w gives one of what was asked for.
LEMMA SpreadObeys ==
    ASSUME NEW w, NEW p, NEW o, NEW a, NEW P, Resolvable(w, p, o, a, P), Pairs(o, a, P),
           NEW at \in Placings,
           Obeys(at, ResolvedOrder(o, w, p), Substitute(a, p, w), P \ {p})
    PROVE  Obeys(Spread(at, p, w), o, a, P)
<1> DEFINE b == Spread(at, p, w)
           A(n) == at[As(n, p, w)]
<1>1. /\ p \in Nodes /\ w \in Nodes /\ p # w /\ P \subseteq Nodes /\ w \in P \ {p}
      /\ o \subseteq Nodes \X Nodes /\ a \subseteq P \X (P \cap (1..MaxWrites))
  BY NodeFacts DEF Resolvable, Pairs
<1>2. /\ b[p] = 2 * at[w] + 1
      /\ \A n \in Nodes : n # p => b[n] = 2 * at[n]
      /\ at[w] \in Int /\ \A n \in Nodes : at[n] \in Int
  BY <1>1, SpreadFacts
<1> HIDE DEF b
<1>3. /\ \A n \in Nodes : /\ A(n) \in Int /\ b[n] \in Int
                          /\ b[n] = 2 * A(n) \/ b[n] = 2 * A(n) + 1
                          /\ n # p => b[n] = 2 * A(n)
      /\ b[p] = 2 * A(p) + 1 /\ A(p) = A(w)
  BY <1>1, <1>2 DEF As
<1>4. /\ \A e \in o : e # <<w, p>> => A(e[1]) < A(e[2])
      /\ \A e \in a : A(e[1]) < A(e[2])
      /\ \A e \in a, n \in P \ {p} : ~(A(e[1]) < A(n) /\ A(n) < A(e[2]))
  <2>1. ASSUME NEW e \in o, e # <<w, p>> PROVE A(e[1]) < A(e[2])
    <3>1. <<As(e[1], p, w), As(e[2], p, w)>> \in ResolvedOrder(o, w, p)
      BY <2>1, SubstituteFacts DEF ResolvedOrder
    <3> QED BY <3>1 DEF Obeys
  <2>2. ASSUME NEW e \in a
        PROVE  /\ A(e[1]) < A(e[2])
               /\ \A n \in P \ {p} : ~(A(e[1]) < A(n) /\ A(n) < A(e[2]))
    <3>1. <<As(e[1], p, w), As(e[2], p, w)>> \in Substitute(a, p, w)
      BY SubstituteFacts
    <3>2. \A n \in P \ {p} : As(n, p, w) = n
      BY DEF As
    <3> QED BY <3>1, <3>2 DEF Obeys
  <2> QED BY <2>1, <2>2
<1>5. ASSUME NEW m \in Nodes, NEW n \in Nodes, A(m) < A(n) PROVE b[m] < b[n]
  <2>1. \A i, j, x, y \in Int :
           i < j /\ x <= 2 * i + 1 /\ 2 * j <= y => x < y
    OBVIOUS
  <2>2. /\ b[m] \in Int /\ A(m) \in Int /\ b[m] <= 2 * A(m) + 1
        /\ b[n] \in Int /\ A(n) \in Int /\ 2 * A(n) <= b[n]
    <3> HIDE DEF A
    <3> QED BY <1>3
  <2> HIDE DEF A
  <2> QED BY <1>5, <2>1, <2>2
<1>6. ASSUME NEW m \in Nodes, NEW n \in Nodes, b[m] < b[n], m # p \/ n # p
      PROVE  A(m) < A(n) \/ (A(m) = A(n) /\ m # p /\ n = p)
  <2> HIDE DEF A
  <2>1. CASE m # p /\ n # p
    <3>1. 2 * A(m) < 2 * A(n) /\ A(m) \in Int /\ A(n) \in Int
      BY <1>3, <1>6, <2>1
    <3> QED BY <3>1
  <2>2. CASE m = p /\ n # p
    <3>1. 2 * A(m) + 1 < 2 * A(n) /\ A(m) \in Int /\ A(n) \in Int
      BY <1>3, <1>6, <2>2
    <3> QED BY <3>1
  <2>3. CASE m # p /\ n = p
    <3>1. 2 * A(m) < 2 * A(n) + 1 /\ A(m) \in Int /\ A(n) \in Int
      BY <1>3, <1>6, <2>3
    <3> QED BY <2>3, <3>1
  <2> QED BY <1>6, <2>1, <2>2, <2>3
<1>7. ASSUME NEW e \in o \cup a PROVE b[e[1]] < b[e[2]]
  <2>1. e[1] \in Nodes /\ e[2] \in Nodes
    BY <1>1
  <2>2. CASE e = <<w, p>>
    <3>1. b[w] = 2 * at[w]
      BY <1>1, <1>2
    <3> QED BY <1>2, <2>2, <3>1
  <2>3. CASE e # <<w, p>>
    <3>1. A(e[1]) < A(e[2])
      BY <1>4, <2>3
    <3> HIDE DEF A
    <3> QED BY <1>5, <2>1, <3>1
  <2> QED BY <2>2, <2>3
<1>8. ASSUME NEW e \in a, NEW n \in P, b[e[1]] < b[n], b[n] < b[e[2]] PROVE FALSE
  <2>1. /\ e[1] \in Nodes /\ e[2] \in Nodes /\ n \in Nodes
        /\ e[2] # p /\ e[1] # w
    BY <1>1 DEF Resolvable
  <2> HIDE DEF A
  <2>2. CASE n # p
    <3>1. A(e[1]) < A(n) /\ A(n) < A(e[2])
      BY <1>6, <1>8, <2>1, <2>2
    <3> QED BY <1>4, <2>2, <3>1
  <2>3. CASE n = p
    <3>1. A(p) < A(e[2])
      BY <1>6, <1>8, <2>1, <2>3
    <3>2. e[1] # p
      BY <1>3, <1>8, <2>1, <2>3
    <3>3. A(e[1]) < A(p) \/ A(e[1]) = A(p)
      BY <1>6, <1>8, <2>1, <2>3, <3>2
    <3>4. A(e[1]) # A(w)
      <4>1. As(e[1], p, w) = e[1] /\ As(w, p, w) = w
        BY <3>2 DEF As
      <4> QED BY <1>1, <2>1, <4>1, PlacingFacts DEF A
    <3>5. A(e[1]) < A(w) /\ A(w) < A(e[2])
      BY <1>3, <3>1, <3>3, <3>4
    <3> QED BY <1>1, <1>4, <3>5
  <2> QED BY <2>2, <2>3
<1> QED BY <1>7, <1>8 DEF Obeys, b

Allowed(o, a, P) == {at \in Placings : Obeys(at, o, a, P)}

\* The RMWs of g are those of a, with p taken for w.
RMWAskedOnce(g, a, w, p, P) ==
    \A n \in P : g.rmw[n] # NULL => <<As(n, p, w), g.rmw[n]>> \in a

MergeCase(g, o, a, P, w, p, o2, a2) ==
    /\ Resolvable(w, p, o, a, P) /\ WellFormed(g) /\ Fits(g, o, a, P)
    /\ o2 = ResolvedOrder(o, w, p) /\ a2 = Substitute(a, p, w)

LEMMA MergeStarts ==
    ASSUME NEW g, NEW o, NEW a, NEW P, NEW w, NEW p, NEW o2, NEW a2,
           MergeCase(g, o, a, P, w, p, o2, a2),
           NEW Q, Q = Allowed(o2, a2, P \ {p})
    PROVE  /\ MergeOf(w, p, P, Q)
           /\ Merging(TakenOver(g, w, p), w, p, P, Q)
           /\ g.rmw[w] = NULL
           /\ RMWAskedOnce(TakenOver(g, w, p), a2, w, p, P)
<1>0. /\ Resolvable(w, p, o, a, P) /\ WellFormed(g) /\ Fits(g, o, a, P)
      /\ o2 = ResolvedOrder(o, w, p) /\ a2 = Substitute(a, p, w)
  BY DEF MergeCase
<1> DEFINE h == TakenOver(g, w, p)
<1>1. /\ P \in SUBSET Nodes /\ w \in P /\ p \in P /\ p \notin 1..MaxWrites
      /\ w \in Nodes /\ p \in Nodes /\ w \in 1..MaxWrites /\ g \in Graphs /\ p # w
  BY <1>0 DEF Resolvable, WellFormed
<1>2. MergeOf(w, p, P, Q)
  BY <1>0, <1>1 DEF MergeOf, Allowed
<1>3. g.rmw[w] = NULL
  BY <1>0, <1>1 DEF Fits, RMWAsked, Resolvable
<1>4. /\ WellFormed(h) /\ h.edges = g.edges /\ h.cycles = g.cycles
      /\ \A n \in Nodes : n # w => h.rmw[n] = g.rmw[n]
      /\ g.rmw[p] = NULL => h.rmw[w] = g.rmw[w]
      /\ g.rmw[p] # NULL => h.rmw[w] = g.rmw[p]
  BY <1>0, <1>1, TakenOverFacts DEF TookOver
<1> HIDE DEF h
<1>5. ClosedUp(g, P)
  BY <1>0, <1>1, FitsClosed
<1>6. Within(h, P) /\ ClosedUp(h, P)
  BY <1>0, <1>1, <1>3, <1>4, <1>5 DEF Fits, Within, HasEdge, ClosedUp
<1>7. ASSUME NEW n \in P, h.rmw[n] # NULL
      PROVE  <<As(n, p, w), h.rmw[n]>> \in a2
  <2>1. PICK m \in P : h.rmw[n] = g.rmw[m] /\ As(m, p, w) = As(n, p, w)
    BY <1>0, <1>1, <1>3, <1>4, <1>7 DEF As
  <2>2. <<m, g.rmw[m]>> \in a
    BY <1>0, <1>7, <2>1 DEF Fits, RMWAsked
  <2>3. As(g.rmw[m], p, w) = g.rmw[m]
    BY <1>0, <1>1, <1>5, <1>7, <2>1 DEF As, ClosedUp
  <2>4. <<As(m, p, w), As(g.rmw[m], p, w)>> \in a2
    BY <1>0, <2>2, SubstituteFacts
  <2> QED BY <2>1, <2>3, <2>4
<1>8. ASSUME NEW at \in Q
      PROVE  /\ Climbs(h, Moved(at, p, w)) /\ ~h.cycles
             /\ \A t \in P \ {p} : ChainsUp(h, Moved(at, p, w), P, t)
  <2> DEFINE b == Spread(at, p, w)
             c == Moved(at, p, w)
  <2>1. at \in Placings /\ Obeys(at, ResolvedOrder(o, w, p), a2, P \ {p})
    BY <1>0 DEF Allowed
  <2>2. Obeys(b, o, a, P)
    BY <1>0, <2>1, SpreadObeys DEF Fits
  <2>3. /\ b \in Placings
        /\ b[p] = 2 * at[w] + 1
        /\ \A n \in Nodes : n # p => b[n] = 2 * at[n]
        /\ \A n \in Nodes : at[n] \in Int
    BY <1>0, <1>1, <2>1, SpreadFacts
  <2>4. Ascends(g, b) /\ ~g.cycles
    BY <1>0, <2>2, <2>3 DEF Fits, Sound
  <2>5. \A n \in Nodes : c[n] = at[As(n, p, w)] /\ c[n] \in Int
    BY <1>0, <1>1, <2>3 DEF Moved, As
  <2>6. \A n \in Nodes : /\ b[n] \in Int /\ c[n] \in Int
                         /\ 2 * c[n] <= b[n] /\ b[n] <= 2 * c[n] + 1
    BY <1>0, <1>1, <2>3, <2>5 DEF As
  <2> HIDE DEF b, c
  <2>7. ASSUME NEW m \in Nodes, NEW n \in Nodes, HasEdge(h, m, n) PROVE c[m] <= c[n]
    <3>1. b[m] < b[n]
      BY <1>0, <1>4, <2>4, <2>7 DEF Ascends, HasEdge
    <3> QED BY <2>6, <3>1
  <2>8. ASSUME NEW t \in P \ {p}, NEW n \in P, c[n] < c[t], h.rmw[n] \notin {NULL, t}
        PROVE  c[h.rmw[n]] < c[t]
    <3> DEFINE r == h.rmw[n]
    <3>1. <<As(n, p, w), r>> \in a2
      BY <1>0, <1>7, <2>8
    <3>2. r \in Nodes /\ r # p /\ t \in Nodes /\ n \in Nodes /\ r # t
      BY <1>0, <1>1, <1>6, <2>8 DEF ClosedUp
    <3> HIDE DEF r
    <3>3. ~(at[As(n, p, w)] < at[t] /\ at[t] < at[r])
      BY <1>0, <2>1, <3>1 DEF Obeys
    <3>4. c[n] = at[As(n, p, w)] /\ c[t] = at[t] /\ c[r] = at[r]
      BY <1>0, <2>5, <3>2 DEF As
    <3>5. at[r] # at[t] /\ at[r] \in Int /\ at[t] \in Int
      BY <1>0, <2>1, <3>2, PlacingFacts
    <3>6. c[r] < c[t]
      BY <1>0, <2>8, <3>3, <3>4, <3>5
    <3> QED BY <3>6 DEF r
  <2> QED BY <1>0, <1>4, <2>4, <2>7, <2>8 DEF Climbs, ChainsUp, c
<1>9. Merging(h, w, p, P, Q)
  BY <1>0, <1>4, <1>6, <1>8 DEF Merging
<1> QED BY <1>0, <1>2, <1>3, <1>7, <1>9 DEF h, RMWAskedOnce

\* Resolving a promise keeps the graph sound; when it fails no order is left.
Resolved(y, g, w, p, o, a, P) ==
    /\ WellFormed(y.graph) /\ y.ok \in BOOLEAN
    /\ y.graph.rmw = TakenOver(g, w, p).rmw
    /\ y.ok => Fits(y.graph, o, a, P)
    /\ ~y.ok => \A at \in Placings : ~Obeys(at, o, a, P)

LEMMA ResolveFits ==
    ASSUME NEW g, NEW o, NEW a, NEW P, NEW w, NEW p, NEW o2, NEW a2,
           MergeCase(g, o, a, P, w, p, o2, a2),
           NEW y, y = mergeNodes(g, w, p)
    PROVE  Resolved(y, g, w, p, o2, a2, P \ {p})
<1> DEFINE Q == Allowed(o2, a2, P \ {p})
           h == y.graph
<1>0. /\ Resolvable(w, p, o, a, P) /\ WellFormed(g) /\ Fits(g, o, a, P)
      /\ o2 = ResolvedOrder(o, w, p) /\ a2 = Substitute(a, p, w)
  BY DEF MergeCase
<1>1. /\ MergeOf(w, p, P, Q)
      /\ Merging(TakenOver(g, w, p), w, p, P, Q)
      /\ g.rmw[w] = NULL
      /\ RMWAskedOnce(TakenOver(g, w, p), a2, w, p, P)
  <2>1. Q = Allowed(o2, a2, P \ {p})
    OBVIOUS
  <2> HIDE DEF Q
  <2> QED BY <2>1, MergeStarts, Zenon
<1> HIDE DEF Q
<1>2. /\ Merging(h, w, p, P, Q)
      /\ h.rmw = TakenOver(g, w, p).rmw
      /\ y.ok \in BOOLEAN
      /\ ~y.ok => h.cycles
      /\ y.ok => \A m \in Nodes : ~HasEdge(h, m, p) /\ ~HasEdge(h, p, m)
  BY <1>0, <1>1, MergeFacts
<1> HIDE DEF h
<1>3. WellFormed(h)
  BY <1>2 DEF Merging
<1>4. ASSUME ~y.ok, NEW at \in Placings, Obeys(at, o2, a2, P \ {p}) PROVE FALSE
  BY <1>2, <1>4 DEF Merging, Q, Allowed
<1>5. ASSUME y.ok PROVE Fits(h, o2, a2, P \ {p})
  <2>1. Within(h, P \ {p})
    BY <1>2, <1>5 DEF Merging, Within
  <2>2. RMWAsked(h, a2, P \ {p})
    BY <1>1, <1>2 DEF RMWAsked, RMWAskedOnce, As
  <2>3. Pairs(o2, a2, P \ {p})
    <3>1. /\ o \subseteq Nodes \X Nodes /\ a \subseteq P \X (P \cap (1..MaxWrites))
          /\ w \in Nodes /\ w \in P \ {p} /\ p \notin 1..MaxWrites
      BY <1>0 DEF Fits, Pairs, Resolvable
    <3>2. \A n \in Nodes : As(n, p, w) \in Nodes
      BY <3>1 DEF As
    <3>3. /\ \A n \in P : As(n, p, w) \in P \ {p}
          /\ \A n \in P \cap (1..MaxWrites) : As(n, p, w) \in (P \ {p}) \cap (1..MaxWrites)
      BY <3>1 DEF As
    <3>4. ASSUME NEW e \in o2 PROVE e \in Nodes \X Nodes
      <4>1. PICK d \in o : e = <<As(d[1], p, w), As(d[2], p, w)>>
        BY <1>0, SubstituteFacts DEF ResolvedOrder
      <4> QED BY <3>1, <3>2, <4>1
    <3>5. ASSUME NEW e \in a2 PROVE e \in (P \ {p}) \X ((P \ {p}) \cap (1..MaxWrites))
      <4>1. PICK d \in a : e = <<As(d[1], p, w), As(d[2], p, w)>>
        BY <1>0, SubstituteFacts
      <4>2. d[1] \in P /\ d[2] \in P \cap (1..MaxWrites)
        BY <3>1
      <4> QED BY <3>3, <4>1, <4>2
    <3> QED BY <3>4, <3>5 DEF Pairs
  <2>4. ASSUME NEW at \in Placings, Obeys(at, o2, a2, P \ {p})
        PROVE  Ascends(h, at) /\ ~h.cycles
    <3>1. at \in Q
      BY <2>4 DEF Q, Allowed
    <3>2. Climbs(h, Moved(at, p, w)) /\ ~h.cycles
      BY <1>2, <3>1 DEF Merging
    <3>3. ASSUME NEW m \in Nodes, NEW n \in Nodes, HasEdge(h, m, n) PROVE at[m] < at[n]
      <4>1. m # p /\ n # p /\ m # n
        BY <1>2, <1>3, <1>5, <3>3 DEF WellFormed
      <4>2. Moved(at, p, w)[m] = at[m] /\ Moved(at, p, w)[n] = at[n]
        BY <1>1, <3>1, <4>1, MovedFacts
      <4>3. at[m] <= at[n]
        BY <3>2, <3>3, <4>2 DEF Climbs
      <4> QED BY <4>1, <4>3, PlacingFacts
    <3> QED BY <3>2, <3>3 DEF Ascends
  <2> QED BY <2>1, <2>2, <2>3, <2>4 DEF Fits, Sound
<1> QED BY <1>2, <1>3, <1>4, <1>5 DEF h, Resolved
-----------------------------------------------------------------------------
(***************************************************************************)
(* The transactions keep the invariant.                                    *)
(***************************************************************************)
LEMMA PresentFacts ==
    ASSUME Types
    PROVE  /\ Present \in SUBSET Nodes /\ Initial \in Present
           /\ written \in Present /\ written \in 1..MaxWrites
           /\ promised \subseteq Present /\ promised \cap (1..MaxWrites) = {}
           /\ \A n \in Nodes \ ((1..written) \cup made) : n \notin Present
<1>1. /\ written \in 1..MaxWrites /\ promised \subseteq Promises /\ promised \subseteq made
      /\ MaxWrites \in Nat
  BY CycleGraphAssumption DEF Types
<1>2. 1..written \subseteq 1..MaxWrites /\ written \in 1..written /\ Initial \in 1..written
  BY <1>1 DEF Initial
<1> QED BY <1>1, <1>2, NodeFacts DEF Present

\* How a transaction starts on graph g: the uninitialized value comes first.
Begun(g, n) == IF n = Initial THEN g ELSE addNodeEdge(g, Initial, n)
BegunOrder(o, n) == IF n = Initial THEN o ELSE o \cup {<<Initial, n>>}

BegunWell(g, h, n) ==
    WellFormed(h) /\ Grows(g, h) /\ (n # Initial => HasEdge(h, Initial, n))

LEMMA BegunFits ==
    ASSUME NEW P \in SUBSET Nodes, NEW n \in P, Initial \in P,
           NEW g, WellFormed(g), NEW o, NEW a, Fits(g, o, a, P)
    PROVE  BegunWell(g, Begun(g, n), n) /\ Fits(Begun(g, n), BegunOrder(o, n), a, P)
<1>1. CASE n = Initial
  <2>1. Begun(g, n) = g /\ BegunOrder(o, n) = o
    BY <1>1 DEF Begun, BegunOrder
  <2> QED BY <1>1, <2>1, GrowsFacts DEF BegunWell
<1>2. CASE n # Initial
  <2> DEFINE o2 == o \cup {<<Initial, n>>}
             h == addNodeEdge(g, Initial, n)
  <2>1. Begun(g, n) = h /\ BegunOrder(o, n) = o2
    BY <1>2 DEF Begun, BegunOrder
  <2>2. o2 \in SUBSET (Nodes \X Nodes) /\ a \in SUBSET (P \X (P \cap (1..MaxWrites)))
    BY DEF Fits, Pairs
  <2>3. Fits(g, o2, a, P)
    <3> HIDE DEF o2
    <3>1. o \subseteq o2 /\ P \ P = {}
      BY DEF o2
    <3> QED BY <2>2, <3>1, FitsMore
  <2>4. EdgeAdded(g, h, Initial, n, P) /\ Fits(h, o2, a, P)
    BY <1>2, <2>3, AskFits
  <2> HIDE DEF h, o2
  <2> QED BY <2>1, <2>4 DEF EdgeAdded, BegunWell
<1> QED BY <1>1, <1>2

LEMMA AskInv ==
    ASSUME CGInv, phase # "idle", NEW f \in Present, NEW t \in Present, f # t, Ask(f, t)
    PROVE  CGInv'
<1>1. /\ Types /\ Unread(graph) /\ Transaction /\ Judgement
      /\ WellFormed(graph) /\ WellFormed(saved.graph) /\ ~failed
  BY DEF CGInv, Types, Transaction
<1>2. /\ graph' = addNodeEdge(graph, f, t) /\ order' = order \cup {<<f, t>>}
      /\ UNCHANGED <<phase, focus, written, made, promised, failed, adjacent, saved>>
      /\ Present' = Present
  BY DEF Ask, Present
<1>3. Present \in SUBSET Nodes
  BY <1>1, PresentFacts
<1>4. Fits(graph, order, adjacent, Present)
  BY <1>1 DEF Judgement
<1>5. Fits(graph, order', adjacent, Present)
  <2>1. /\ order' \in SUBSET (Nodes \X Nodes) /\ order \subseteq order'
        /\ adjacent \in SUBSET (Present \X (Present \cap (1..MaxWrites)))
    BY <1>2, <1>3, <1>4 DEF Fits, Pairs
  <2>2. Present \ Present = {}
    OBVIOUS
  <2> QED BY <1>3, <1>4, <2>1, <2>2, FitsMore
<1>6. EdgeAdded(graph, graph', f, t, Present) /\ Fits(graph', order', adjacent, Present)
  <2>1. <<f, t>> \in order' \cup adjacent
    BY <1>2
  <2> QED BY <1>1, <1>2, <1>3, <1>5, <2>1, AskFits
<1>7. /\ WellFormed(graph') /\ Grows(graph, graph')
      /\ \A m, n \in Nodes : HasEdge(graph, m, n) => HasEdge(graph', m, n)
  BY <1>6 DEF EdgeAdded
<1>8. Types'
  BY <1>1, <1>2, <1>7 DEF Types
<1>9. Unread(graph)'
  BY <1>1, <1>2, <1>7 DEF Unread, Grows
<1>10. Transaction'
  <2>1. Extends(graph', saved.graph)
    BY <1>1, <1>7, ExtendsFacts DEF Transaction
  <2>2. phase = "write" => HasEdge(graph', Initial, focus)
    BY <1>1, <1>3, <1>7, PresentFacts DEF Transaction
  <2> QED BY <1>1, <1>2, <2>1, <2>2 DEF Transaction, Reading
<1>11. Judgement'
  BY <1>1, <1>2, <1>6 DEF Judgement
<1> QED BY <1>8, <1>9, <1>10, <1>11 DEF CGInv

LEMMA StartReadInv ==
    ASSUME CGInv, NEW rf \in Present, StartRead(rf)
    PROVE  CGInv'
<1>1. /\ Types /\ Unread(graph) /\ Transaction /\ Judgement
      /\ WellFormed(graph) /\ WellFormed(saved.graph)
  BY DEF CGInv, Types
<1>2. /\ ~failed /\ phase = "idle" /\ phase' = "read" /\ focus' = rf
      /\ UNCHANGED <<written, made, promised, failed, adjacent, saved>>
      /\ Present' = Present
      /\ graph' = Begun(graph, rf) /\ order' = BegunOrder(order, rf)
  BY DEF StartRead, Begin, Feasible, Present, Begun, BegunOrder
<1>3. Present \in SUBSET Nodes /\ Initial \in Present
  BY <1>1, PresentFacts
<1>4. /\ Fits(graph, order, adjacent, Present)
      /\ Fits(saved.graph, saved.order, saved.adjacent, Present)
  BY <1>1, <1>2 DEF Judgement
<1>5. BegunWell(graph, graph', rf) /\ Fits(graph', order', adjacent, Present)
  BY <1>1, <1>2, <1>3, <1>4, BegunFits
<1>6. WellFormed(graph') /\ Grows(graph, graph')
  BY <1>5 DEF BegunWell
<1>7. Types'
  BY <1>1, <1>2, <1>6 DEF Types
<1>8. Unread(graph)'
  BY <1>1, <1>2, <1>6 DEF Unread, Grows
<1>9. Transaction'
  <2>1. Extends(graph', saved.graph)
    BY <1>1, <1>6, ExtendsFacts DEF Transaction
  <2> QED BY <1>1, <1>2, <2>1 DEF Transaction, Reading
<1>10. Judgement'
  BY <1>2, <1>4, <1>5 DEF Judgement
<1> QED BY <1>7, <1>8, <1>9, <1>10 DEF CGInv

LEMMA StartFutureReadInv ==
    ASSUME CGInv, NEW p \in Promises, StartFutureRead(p)
    PROVE  CGInv'
<1>1. /\ Types /\ Unread(graph) /\ Transaction /\ Judgement
      /\ WellFormed(graph) /\ WellFormed(saved.graph)
  BY DEF CGInv, Types
<1>2. /\ ~failed /\ phase = "idle" /\ phase' = "future" /\ focus' = p
      /\ p \notin made /\ made' = made \cup {p} /\ promised' = promised \cup {p}
      /\ UNCHANGED <<written, failed, adjacent, saved>>
      /\ Present' = Present \cup {p}
      /\ graph' = Begun(graph, p) /\ order' = BegunOrder(order, p)
  BY DEF StartFutureRead, Begin, Feasible, Present, Begun, BegunOrder
<1>3. /\ Present \in SUBSET Nodes /\ Initial \in Present
      /\ Present' \in SUBSET Nodes /\ p \in Present' /\ Initial \in Present'
      /\ p \notin 1..MaxWrites /\ p \in Nodes
  BY <1>1, <1>2, PresentFacts, NodeFacts
<1>4. Fits(graph, order, adjacent, Present)
  BY <1>1, <1>2 DEF Judgement
<1>5. Fits(graph, order, adjacent, Present')
  <2>1. graph.rmw[p] = NULL
    <3>1. p \notin 1..written
      BY <1>1, <1>3, CycleGraphAssumption DEF Types
    <3> QED BY <1>1, <1>2, <1>3, <3>1 DEF Unread
  <2>2. /\ order \in SUBSET (Nodes \X Nodes)
        /\ adjacent \in SUBSET (Present' \X (Present' \cap (1..MaxWrites)))
        /\ \A n \in Present' \ Present : graph.rmw[n] = NULL
        /\ Present \subseteq Present'
    BY <1>2, <1>4, <2>1 DEF Fits, Pairs
  <2> QED BY <1>3, <1>4, <2>2, FitsMore
<1>6. BegunWell(graph, graph', p) /\ Fits(graph', order', adjacent, Present')
  BY <1>1, <1>2, <1>3, <1>5, BegunFits
<1>7. WellFormed(graph') /\ Grows(graph, graph')
  BY <1>6 DEF BegunWell
<1>8. Types'
  BY <1>1, <1>2, <1>7 DEF Types
<1>9. Unread(graph)'
  BY <1>1, <1>2, <1>7 DEF Unread, Grows
<1>10. Transaction'
  <2>1. Extends(graph', saved.graph)
    BY <1>1, <1>7, ExtendsFacts DEF Transaction
  <2> QED BY <1>1, <1>2, <1>3, <2>1 DEF Transaction, Reading
<1>11. Judgement'
  BY <1>2, <1>6 DEF Judgement
<1> QED BY <1>8, <1>9, <1>10, <1>11 DEF CGInv

LEMMA FreshFacts ==
    ASSUME Types, written < MaxWrites
    PROVE  /\ Fresh \in 1..MaxWrites /\ Fresh \in Nodes /\ Fresh # Initial
           /\ Fresh \notin Present /\ Fresh \notin (1..written) \cup made
           /\ 1..Fresh = (1..written) \cup {Fresh}
<1>1. /\ written \in 1..MaxWrites /\ promised \subseteq Promises /\ made \subseteq Promises
      /\ MaxWrites \in Nat /\ written \in Int /\ written >= 1
  BY CycleGraphAssumption DEF Types
<1>2. /\ written + 1 \in 1..MaxWrites /\ written + 1 # 1 /\ written + 1 \notin 1..written
      /\ 1..(written + 1) = (1..written) \cup {written + 1}
  BY <1>1
<1> QED BY <1>1, <1>2, NodeFacts DEF Fresh, Present, Initial

LEMMA StartWriteInv ==
    ASSUME CGInv, StartWrite
    PROVE  CGInv'
<1>1. /\ Types /\ Unread(graph) /\ Transaction /\ Judgement
      /\ WellFormed(graph) /\ WellFormed(saved.graph)
  BY DEF CGInv, Types
<1>2. /\ ~failed /\ phase = "idle" /\ phase' = "write" /\ focus' = Fresh
      /\ written < MaxWrites /\ written' = Fresh
      /\ UNCHANGED <<made, promised, failed, adjacent, saved>>
      /\ graph' = Begun(graph, Fresh) /\ order' = BegunOrder(order, Fresh)
  BY DEF StartWrite, Begin, Feasible, Begun, BegunOrder
<1>3. /\ Fresh \in 1..MaxWrites /\ Fresh \in Nodes /\ Fresh # Initial
      /\ Fresh \notin Present /\ Fresh \notin (1..written) \cup made
      /\ 1..Fresh = (1..written) \cup {Fresh}
      /\ Present \in SUBSET Nodes /\ Initial \in Present
  BY <1>1, <1>2, FreshFacts, PresentFacts
<1>4. Present' = Present \cup {Fresh}
  BY <1>2, <1>3 DEF Present
<1>5. Fits(graph, order, adjacent, Present)
  BY <1>1, <1>2 DEF Judgement
<1>6. Fits(graph, order, adjacent, Present')
  <2>1. /\ order \in SUBSET (Nodes \X Nodes)
        /\ adjacent \in SUBSET (Present' \X (Present' \cap (1..MaxWrites)))
        /\ \A n \in Present' \ Present : graph.rmw[n] = NULL
        /\ Present \subseteq Present' /\ Present' \in SUBSET Nodes
    BY <1>1, <1>3, <1>4, <1>5 DEF Fits, Pairs, Unread
  <2> QED BY <1>3, <1>5, <2>1, FitsMore
<1>7. BegunWell(graph, graph', Fresh) /\ Fits(graph', order', adjacent, Present')
  <2>1. Present' \in SUBSET Nodes /\ Fresh \in Present' /\ Initial \in Present'
    BY <1>3, <1>4
  <2> QED BY <1>1, <1>2, <1>6, <2>1, BegunFits
<1>8. WellFormed(graph') /\ Grows(graph, graph') /\ HasEdge(graph', Initial, Fresh)
  BY <1>3, <1>7 DEF BegunWell
<1>9. Types'
  BY <1>1, <1>2, <1>3, <1>8 DEF Types
<1>10. Unread(graph)'
  <2>1. Nodes \ ((1..written') \cup made') \subseteq Nodes \ ((1..written) \cup made)
    BY <1>2, <1>3
  <2> QED BY <1>1, <1>8, <2>1 DEF Unread, Grows
<1>11. Transaction'
  <2>1. Extends(graph', saved.graph)
    BY <1>1, <1>8, ExtendsFacts DEF Transaction
  <2>2. \A e \in adjacent : e[1] # Fresh
    BY <1>3, <1>5 DEF Fits, Pairs
  <2> QED BY <1>1, <1>2, <1>3, <1>8, <2>1, <2>2 DEF Transaction, Reading
<1>12. Judgement'
  BY <1>2, <1>7 DEF Judgement
<1> QED BY <1>9, <1>10, <1>11, <1>12 DEF CGInv

LEMMA CommitInv ==
    ASSUME CGInv, phase # "idle", phase' = "idle", CommitTo(graph, order, adjacent),
           UNCHANGED <<focus, written, made, promised, failed>>
    PROVE  CGInv'
<1>1. /\ Types /\ Unread(graph) /\ Transaction /\ Judgement /\ WellFormed(graph) /\ ~failed
  BY DEF CGInv, Types, Transaction
<1>2. /\ graph' = Committed(graph) /\ order' = order /\ adjacent' = adjacent
      /\ saved'.graph = graph' /\ saved'.order = order' /\ saved'.adjacent = adjacent'
      /\ Present' = Present
  BY DEF CommitTo, Present
<1>3. /\ WellFormed(graph') /\ Settled(graph') /\ Extends(graph', graph')
      /\ graph'.edges = graph.edges /\ graph'.rmw = graph.rmw /\ graph'.cycles = graph.cycles
  BY <1>1, <1>2, CommittedFacts
<1>4. Fits(graph', order, adjacent, Present)
  <2>1. Fits(graph, order, adjacent, Present)
    BY <1>1 DEF Judgement
  <2> QED BY <1>3, <2>1, FitsSame
<1>5. Types'
  BY <1>1, <1>2, <1>3 DEF Types
<1>6. Unread(graph)'
  BY <1>1, <1>3 DEF Unread
<1>7. Transaction'
  BY <1>1, <1>2, <1>3 DEF Transaction, Reading
<1>8. Judgement'
  BY <1>1, <1>2, <1>4 DEF Judgement
<1> QED BY <1>5, <1>6, <1>7, <1>8 DEF CGInv

LEMMA RollbackInv ==
    ASSUME CGInv, Rollback
    PROVE  CGInv'
<1>1. /\ Types /\ Unread(graph) /\ Transaction /\ Judgement /\ ~failed
      /\ WellFormed(graph) /\ WellFormed(saved.graph)
      /\ Settled(saved.graph) /\ Extends(graph, saved.graph)
  BY DEF CGInv, Types, Transaction, Rollback
<1>2. /\ phase = "read" /\ phase' = "idle" /\ graph' = RolledBack(graph)
      /\ order' = saved.order /\ adjacent' = saved.adjacent
      /\ UNCHANGED <<focus, written, made, promised, failed, saved>>
      /\ Present' = Present
  BY DEF Rollback, Present
<1>3. /\ WellFormed(graph') /\ Extends(graph', saved.graph) /\ Settled(graph')
      /\ graph'.edges = saved.graph.edges /\ graph'.rmw = saved.graph.rmw
      /\ graph'.cycles = saved.graph.cycles
  BY <1>1, <1>2, RolledBackFacts
<1>4. Fits(saved.graph, saved.order, saved.adjacent, Present)
  BY <1>1, <1>2 DEF Judgement
<1>5. Fits(graph', order', adjacent', Present)
  BY <1>2, <1>3, <1>4, FitsSame
<1>6. Types'
  BY <1>1, <1>2, <1>3 DEF Types
<1>7. Unread(graph)'
  BY <1>1, <1>2, <1>3 DEF Unread, Extends
<1>8. Transaction'
  BY <1>1, <1>2, <1>3 DEF Transaction, Reading
<1>9. Judgement'
  BY <1>1, <1>2, <1>4, <1>5 DEF Judgement
<1> QED BY <1>6, <1>7, <1>8, <1>9 DEF CGInv
-----------------------------------------------------------------------------
\* What comes after f comes after its RMW, in every placing.
TransferRound(h, e, r) ==
    IF e = r \/ HasEdge(h, r, e) THEN h ELSE [Link(h, r, e) EXCEPT !.rollback = Append(@, r)]

LEMMA TransferRoundFacts ==
    ASSUME NEW o, NEW a, NEW P \in SUBSET Nodes,
           NEW g, WellFormed(g), Fits(g, o, a, P),
           NEW f \in P, NEW r \in P, <<f, r>> \in a,
           NEW h, WellFormed(h), Fits(h, o, a, P), h.rmw = g.rmw,
           NEW e \in Nodes, HasEdge(g, f, e),
           NEW k, k = TransferRound(h, e, r)
    PROVE  WellFormed(k) /\ Fits(k, o, a, P) /\ k.rmw = g.rmw
<1>1. CASE e = r \/ HasEdge(h, r, e)
  BY <1>1 DEF TransferRound
<1>2. CASE e # r /\ ~HasEdge(h, r, e)
  <2>1. h \in Graphs /\ h.cycles \in BOOLEAN /\ f \in Nodes /\ r \in Nodes
    BY GraphFields DEF WellFormed
  <2>2. k = Tracked(h, r, e, h.cycles)
    <3> DEFINE l == Link(h, r, e)
    <3>1. WellFormed(l) /\ SameRest(h, l)
      BY <1>2, <2>1, LinkFacts
    <3>2. k = [l EXCEPT !.rollback = Append(l.rollback, r)]
      BY <1>2 DEF TransferRound
    <3>3. Tracked(h, r, e, h.cycles) =
             [l EXCEPT !.rollback = Append(l.rollback, r), !.cycles = l.cycles]
      BY <3>1 DEF Tracked, SameRest
    <3> HIDE DEF l
    <3>4. l \in Graphs /\ Append(l.rollback, r) \in Seq(Nodes)
      BY <2>1, <3>1, GraphFields DEF WellFormed
    <3> DEFINE m == [l EXCEPT !.rollback = Append(l.rollback, r)]
    <3>5. m \in Graphs /\ m.cycles = l.cycles
      BY <3>4 DEF Graphs
    <3>6. Tracked(h, r, e, h.cycles) = [m EXCEPT !.cycles = l.cycles]
      BY <3>3
    <3> HIDE DEF m
    <3>7. [m EXCEPT !.cycles = l.cycles] = m
      BY <3>5 DEF Graphs
    <3> QED BY <3>2, <3>6, <3>7 DEF m
  <2>3. WellFormed(k) /\ Grows(h, k) /\ OneMore(h, k, r, e) /\ k.cycles = h.cycles
    BY <1>2, <2>1, <2>2, TrackedLink
  <2>4. e \in P
    BY <2>1 DEF Fits, Within
  <2>5. k.rmw = h.rmw
    BY <2>3 DEF Grows
  <2>6. Within(k, P) /\ RMWAsked(k, a, P) /\ Pairs(o, a, P)
    BY <2>3, <2>4, <2>5 DEF Fits, Within, RMWAsked, OneMore
  <2>7. ASSUME NEW at \in Placings, Obeys(at, o, a, P)
        PROVE  Ascends(k, at) /\ ~k.cycles
    <3>1. Ascends(g, at) /\ Ascends(h, at) /\ ~h.cycles
      BY <2>7 DEF Fits, Sound
    <3>2. at[f] < at[e]
      BY <2>1, <3>1 DEF Ascends
    <3>3. ~(at[f] < at[e] /\ at[e] < at[r])
      BY <2>4, <2>7 DEF Obeys
    <3>4. at[r] < at[e]
      BY <1>2, <2>1, <3>2, <3>3, PlacingFacts
    <3> QED BY <2>3, <3>1, <3>4 DEF Ascends, OneMore
  <2> QED BY <2>3, <2>5, <2>6, <2>7 DEF Fits, Sound
<1> QED BY <1>1, <1>2

MayTransfer(g, o, a, P, f, r) ==
    /\ P \in SUBSET Nodes /\ WellFormed(g) /\ Fits(g, o, a, P)
    /\ f \in P /\ r \in P /\ <<f, r>> \in a

LEMMA TransferFacts ==
    ASSUME NEW g, NEW o, NEW a, NEW P, NEW f, NEW r, MayTransfer(g, o, a, P, f, r),
           NEW h, h = Transfer(g, f, r)
    PROVE  WellFormed(h) /\ Fits(h, o, a, P) /\ h.rmw = g.rmw
<1> DEFINE tos == g.edges[f]
           N == Len(tos)
           Good(k) == WellFormed(k) /\ Fits(k, o, a, P) /\ k.rmw = g.rmw
           V == {k \in Graphs : Good(k)}
           F == [e \in (1..N) \X V |-> TransferRound(e[2], tos[e[1]], r)]
           upTo[i \in 0..N] ==
              IF i = 0 THEN g
              ELSE LET k == upTo[i-1]
                   IN  IF tos[i] = r \/ HasEdge(k, r, tos[i]) THEN k
                       ELSE [Link(k, r, tos[i]) EXCEPT !.rollback = Append(@, r)]
           Solves(u) == u = [i \in 0..N |->
              IF i = 0 THEN g
              ELSE LET k == u[i-1]
                   IN  IF tos[i] = r \/ HasEdge(k, r, tos[i]) THEN k
                       ELSE [Link(k, r, tos[i]) EXCEPT !.rollback = Append(@, r)]]
<1>0. /\ P \in SUBSET Nodes /\ WellFormed(g) /\ Fits(g, o, a, P)
      /\ f \in P /\ r \in P /\ <<f, r>> \in a
  BY DEF MayTransfer
<1>1. tos \in Seq(Nodes) /\ N \in Nat /\ g \in V
  BY <1>0, FieldFacts
<1>2. \A i \in 1..N : tos[i] \in Nodes /\ HasEdge(g, f, tos[i])
  BY <1>1 DEF HasEdge, ToSet
<1> HIDE DEF tos, N
<1>3. ASSUME NEW k \in V, NEW i \in 1..N PROVE TransferRound(k, tos[i], r) \in V
  <2>1. Good(TransferRound(k, tos[i], r))
    BY <1>0, <1>2, TransferRoundFacts
  <2> QED BY <2>1 DEF WellFormed
<1>4. F \in [(1..N) \X V -> V]
  <2> HIDE DEF V
  <2> QED BY <1>3
<1>5. \E u : Iterates(u, V, g, N, F)
  <2> HIDE DEF V, F
  <2> QED BY <1>1, <1>4, Iteration, Zenon
<1>6. PICK u \in [0..N -> V] : u[0] = g /\ \A i \in 1..N : u[i] = F[<<i, u[i-1]>>]
  <2> HIDE DEF V, F
  <2> QED BY <1>5 DEF Iterates
<1>7. Solves(u)
  <2>1. ASSUME NEW i \in 0..N, i # 0
        PROVE  u[i] = TransferRound(u[i-1], tos[i], r)
    <3>1. i \in 1..N /\ i-1 \in 0..N
      BY <1>1, <2>1
    <3> HIDE DEF V
    <3>2. <<i, u[i-1]>> \in (1..N) \X V
      BY <1>6, <3>1
    <3> QED BY <1>6, <3>1, <3>2
  <2>2. u = [i \in 0..N |-> IF i = 0 THEN g ELSE TransferRound(u[i-1], tos[i], r)]
    <3> HIDE DEF V
    <3> QED BY <1>6, <2>1
  <2> HIDE DEF V
  <2> QED BY <2>2 DEF TransferRound
<1>8. Solves(upTo)
  <2>1. upTo = CHOOSE v : Solves(v)
    OBVIOUS
  <2> HIDE DEF upTo, Solves
  <2> QED BY <1>7, <2>1
<1>9. h = upTo[N]
  BY DEF Transfer, tos, N
<1> HIDE DEF upTo
<1>10. upTo[0] = g
  BY <1>1, <1>8
<1>11. ASSUME NEW i \in 1..N PROVE upTo[i] = TransferRound(upTo[i-1], tos[i], r)
  <2>1. i \in 0..N /\ i # 0
    BY <1>1
  <2> QED BY <1>8, <2>1 DEF TransferRound
<1> HIDE DEF Solves
<1> DEFINE A == {i \in 0..N : upTo[i] \in V}
<1>12. 0 \in A
  <2> HIDE DEF V
  <2> QED BY <1>1, <1>10
<1>13. ASSUME NEW i \in 1..N, i-1 \in A PROVE i \in A
  <2>1. i \in 0..N
    BY <1>1
  <2> HIDE DEF V
  <2> QED BY <1>3, <1>11, <1>13, <2>1
<1>14. h \in V
  <2>1. A \in SUBSET (0..N)
    OBVIOUS
  <2> HIDE DEF A
  <2>2. A = 0..N
    BY <1>1, <1>12, <1>13, <2>1, Induction
  <2> HIDE DEF V
  <2> QED BY <1>1, <1>9, <2>2 DEF A
<1> QED BY <1>14

\* An RMW reads from f.  When another one does already, no order is left.
Taking(g, f, r) ==
    IF TakenByAnother(g, f) THEN [g EXCEPT !.cycles = TRUE]
    ELSE [g EXCEPT !.rmw[f] = r, !.rmwRollback = Append(@, f)]

SameRMWs(g, h, f) == \A n \in Nodes : n # f => h.rmw[n] = g.rmw[n]

LEMMA TakingFacts ==
    ASSUME NEW o, NEW a, NEW P \in SUBSET Nodes, NEW g, WellFormed(g), Fits(g, o, a, P),
           NEW f \in P, NEW r \in 1..MaxWrites, r \notin P, g.rmw[r] = NULL,
           NEW a2, a2 = a \cup {<<f, r>>}, NEW P2, P2 = P \cup {r},
           NEW h, h = Taking(g, f, r)
    PROVE  WellFormed(h) /\ Fits(h, o, a2, P2) /\ SameRMWs(g, h, f)
<1>1. /\ g \in Graphs /\ g.rmw \in [Nodes -> 1..MaxWrites \cup {NULL}]
      /\ f \in Nodes /\ r \in Nodes /\ r # f /\ P2 \in SUBSET Nodes /\ r # NULL
  BY GraphFields, NodeFacts DEF WellFormed
<1>2. /\ o \in SUBSET (Nodes \X Nodes) /\ a \in SUBSET (P \X (P \cap (1..MaxWrites)))
      /\ a2 \in SUBSET (P2 \X (P2 \cap (1..MaxWrites)))
  BY DEF Fits, Pairs
<1>3. Fits(g, o, a2, P2)
  <2>1. \A n \in P2 \ P : g.rmw[n] = NULL
    OBVIOUS
  <2> QED BY <1>1, <1>2, <2>1, FitsMore
<1>4. CASE TakenByAnother(g, f)
  <2>1. h = [g EXCEPT !.cycles = TRUE]
    BY <1>4 DEF Taking
  <2>2. h \in Graphs /\ h.edges = g.edges /\ h.back = g.back /\ h.rmw = g.rmw
    BY <1>1, <2>1 DEF Graphs
  <2>3. WellFormed(h)
    BY <2>2 DEF WellFormed, HasEdge
  <2>4. ASSUME NEW at \in Placings, Obeys(at, o, a2, P2) PROVE FALSE
    <3> DEFINE q == g.rmw[f]
    <3>1. q # NULL /\ <<f, q>> \in a
      BY <1>4 DEF TakenByAnother, Fits, RMWAsked
    <3>2. q \in P /\ q \in Nodes /\ q # r /\ q \in P2 /\ r \in P2
      BY <1>1, <1>2, <3>1
    <3> HIDE DEF q
    <3>3. <<f, q>> \in a2 /\ <<f, r>> \in a2
      BY <3>1
    <3>4. at[f] < at[q] /\ at[f] < at[r]
      BY <2>4, <3>3 DEF Obeys
    <3>5. ~(at[f] < at[r] /\ at[r] < at[q]) /\ ~(at[f] < at[q] /\ at[q] < at[r])
      BY <2>4, <3>2, <3>3 DEF Obeys
    <3> QED BY <1>1, <3>2, <3>4, <3>5, PlacingFacts
  <2>5. Fits(h, o, a2, P2)
    BY <1>3, <2>2, <2>4 DEF Fits, Within, HasEdge, RMWAsked, Sound
  <2> QED BY <2>2, <2>3, <2>5 DEF SameRMWs
<1>5. CASE ~TakenByAnother(g, f)
  <2> DEFINE rmw1 == [g.rmw EXCEPT ![f] = r]
             k == [g EXCEPT !.rmw = rmw1]
  <2>1. rmw1 \in [Nodes -> 1..MaxWrites \cup {NULL}]
    BY <1>1
  <2>2. h = [k EXCEPT !.rmwRollback = Append(g.rmwRollback, f)]
    BY <1>1, <1>5 DEF Taking, Graphs
  <2> HIDE DEF rmw1
  <2>3. /\ k \in Graphs /\ k.edges = g.edges /\ k.back = g.back
        /\ k.rmw = rmw1 /\ k.cycles = g.cycles
    BY <1>1, <2>1 DEF Graphs
  <2>4. Append(g.rmwRollback, f) \in Seq(Nodes)
    BY <1>1, GraphFields
  <2> HIDE DEF k
  <2>5. /\ h \in Graphs /\ h.edges = g.edges /\ h.back = g.back
        /\ h.rmw = rmw1 /\ h.cycles = g.cycles
    BY <2>2, <2>3, <2>4 DEF Graphs
  <2>6. WellFormed(h)
    BY <2>5 DEF WellFormed, HasEdge
  <2>7. \A n \in Nodes : h.rmw[n] = IF n = f THEN r ELSE g.rmw[n]
    BY <1>1, <2>5 DEF rmw1
  <2>8. Fits(h, o, a2, P2)
    <3>1. Within(h, P2) /\ Pairs(o, a2, P2) /\ Sound(h, o, a2, P2)
      BY <1>3, <2>5 DEF Fits, Within, HasEdge, Sound, Ascends
    <3>2. RMWAsked(h, a2, P2)
      BY <1>1, <1>3, <2>7 DEF Fits, RMWAsked
    <3> QED BY <3>1, <3>2 DEF Fits
  <2> QED BY <2>6, <2>7, <2>8 DEF SameRMWs
<1> QED BY <1>4, <1>5

LEMMA RMWFits ==
    ASSUME NEW o, NEW a, NEW P \in SUBSET Nodes, NEW g, WellFormed(g), Fits(g, o, a, P),
           NEW f \in P, NEW r \in 1..MaxWrites, r \notin P, g.rmw[r] = NULL,
           NEW a2, a2 = a \cup {<<f, r>>}, NEW P2, P2 = P \cup {r},
           NEW h, h = addRMWEdge(g, f, r)
    PROVE  WellFormed(h) /\ Fits(h, o, a2, P2) /\ SameRMWs(g, h, f)
<1> DEFINE k == Taking(g, f, r)
           l == Transfer(k, f, r)
<1>1. WellFormed(k) /\ Fits(k, o, a2, P2) /\ SameRMWs(g, k, f)
  <2>1. k = Taking(g, f, r)
    OBVIOUS
  <2> HIDE DEF k
  <2> QED BY <2>1, TakingFacts
<1>2. /\ P2 \in SUBSET Nodes /\ f \in P2 /\ r \in P2 /\ f # r
      /\ <<f, r>> \in a2 /\ <<f, r>> \in o \cup a2
  BY NodeFacts
<1> HIDE DEF k
<1>3. WellFormed(l) /\ Fits(l, o, a2, P2) /\ l.rmw = k.rmw
  <2>1. l = Transfer(k, f, r)
    OBVIOUS
  <2> HIDE DEF l
  <2>2. MayTransfer(k, o, a2, P2, f, r)
    BY <1>1, <1>2 DEF MayTransfer
  <2> QED BY <2>1, <2>2, TransferFacts
<1>4. h = addNodeEdge(l, f, r)
  BY DEF addRMWEdge, Taking, k
<1> HIDE DEF l
<1>5. EdgeAdded(l, h, f, r, P2) /\ Fits(h, o, a2, P2)
  BY <1>2, <1>3, <1>4, AskFits
<1>6. WellFormed(h) /\ h.rmw = l.rmw
  BY <1>5 DEF EdgeAdded, Grows
<1> QED BY <1>1, <1>3, <1>5, <1>6 DEF SameRMWs
-----------------------------------------------------------------------------
LEMMA StartRMWInv ==
    ASSUME CGInv, NEW from \in Present, StartRMW(from)
    PROVE  CGInv'
<1> DEFINE e == addRMWEdge(graph, from, Fresh)
           g == Committed(e)
           a == adjacent \cup {<<from, Fresh>>}
           P == Present \cup {Fresh}
<1>1. /\ Types /\ Unread(graph) /\ Transaction /\ Judgement /\ WellFormed(graph)
  BY DEF CGInv, Types
<1>2. /\ ~failed /\ phase = "idle" /\ phase' = "write" /\ focus' = Fresh
      /\ written < MaxWrites /\ written' = Fresh /\ adjacent' = a /\ saved'.graph = g
      /\ UNCHANGED <<made, promised, failed>>
      /\ graph' = Begun(g, Fresh) /\ order' = BegunOrder(order, Fresh)
  BY DEF StartRMW, Begin, Feasible, Begun, BegunOrder
<1>3. /\ Fresh \in 1..MaxWrites /\ Fresh \in Nodes /\ Fresh # Initial
      /\ Fresh \notin Present /\ Fresh \notin (1..written) \cup made
      /\ 1..Fresh = (1..written) \cup {Fresh}
      /\ Present \in SUBSET Nodes /\ Initial \in Present
      /\ from # Fresh /\ from \in (1..written) \cup made
  BY <1>1, <1>2, FreshFacts, PresentFacts DEF Types, Present
<1>4. Present' = P /\ P \in SUBSET Nodes /\ Fresh \in P /\ Initial \in P
  BY <1>2, <1>3 DEF Present
<1>5. Fits(graph, order, adjacent, Present) /\ graph.rmw[Fresh] = NULL
  BY <1>1, <1>2, <1>3 DEF Judgement, Unread
<1>6. WellFormed(e) /\ Fits(e, order, a, P) /\ SameRMWs(graph, e, from)
  <2>1. e = addRMWEdge(graph, from, Fresh) /\ a = adjacent \cup {<<from, Fresh>>}
        /\ P = Present \cup {Fresh}
    OBVIOUS
  <2> HIDE DEF e, a, P
  <2> QED BY <1>1, <1>3, <1>5, <2>1, RMWFits
<1> HIDE DEF e, P
<1>7. /\ WellFormed(g) /\ Settled(g) /\ Extends(g, g)
      /\ g.edges = e.edges /\ g.rmw = e.rmw /\ g.cycles = e.cycles
  BY <1>6, CommittedFacts
<1> HIDE DEF g, a
<1>8. Fits(g, order, a, P)
  BY <1>6, <1>7, FitsSame
<1>9. BegunWell(g, graph', Fresh) /\ Fits(graph', order', a, P)
  BY <1>2, <1>4, <1>7, <1>8, BegunFits
<1>10. WellFormed(graph') /\ Grows(g, graph') /\ HasEdge(graph', Initial, Fresh)
  BY <1>3, <1>9 DEF BegunWell
<1>11. Types'
  BY <1>1, <1>2, <1>3, <1>7, <1>10 DEF Types
<1>12. Unread(graph)'
  <2>1. Nodes \ ((1..written') \cup made') \subseteq Nodes \ ((1..written) \cup made)
    BY <1>2, <1>3
  <2>2. from \notin Nodes \ ((1..written') \cup made')
    BY <1>2, <1>3
  <2>3. \A n \in Nodes : n # from => graph'.rmw[n] = graph.rmw[n]
    BY <1>6, <1>7, <1>10 DEF SameRMWs, Grows
  <2> QED BY <1>1, <2>1, <2>2, <2>3 DEF Unread
<1>13. Transaction'
  <2>1. Extends(graph', g)
    BY <1>7, <1>10, ExtendsFacts
  <2>2. \A d \in a : d[1] # Fresh
    BY <1>3, <1>5 DEF Fits, Pairs, a
  <2> QED BY <1>2, <1>3, <1>7, <1>10, <2>1, <2>2 DEF Transaction, Reading
<1>14. Judgement'
  BY <1>2, <1>4, <1>9 DEF Judgement
<1> QED BY <1>11, <1>12, <1>13, <1>14 DEF CGInv

LEMMA ResolveInv ==
    ASSUME CGInv, NEW p \in promised, ResolveAndCommit(p)
    PROVE  CGInv'
<1> DEFINE write == focus
           result == mergeNodes(graph, write, p)
           merged == result.graph
           order2 == ResolvedOrder(order, write, p)
           adjacent2 == Substitute(adjacent, p, write)
           left == Present \ {p}
<1>1. /\ Types /\ Unread(graph) /\ Transaction /\ Judgement /\ WellFormed(graph)
      /\ phase = "write" /\ MayResolve(p) /\ ~failed /\ write = written
  BY DEF CGInv, Types, Transaction, ResolveAndCommit
<1>2. /\ Present \in SUBSET Nodes /\ Initial \in Present /\ Initial \in Nodes
      /\ write \in Present /\ write \in 1..MaxWrites /\ p \in Present /\ p \notin 1..MaxWrites
      /\ write \in Nodes /\ p \in Nodes /\ p # write
  BY <1>1, PresentFacts
<1>3. resolvePromise(graph, write, p) = result
  <2>1. write # Initial /\ HasEdge(graph, Initial, write)
    BY <1>1 DEF Transaction
  <2>2. Initial \in ToSet(graph.back[write])
    BY <1>1, <1>2, <2>1 DEF WellFormed
  <2>3. graph.back[write] # <<>>
    BY <2>2 DEF ToSet
  <2> QED BY <2>3 DEF resolvePromise
<1>4. /\ graph' = Committed(merged) /\ order' = order2 /\ adjacent' = adjacent2
      /\ saved'.graph = graph' /\ saved'.order = order' /\ saved'.adjacent = adjacent'
      /\ failed' = ~result.ok
      /\ phase' = "idle" /\ promised' = promised \ {p}
      /\ UNCHANGED <<focus, written, made>>
  <2> HIDE DEF result
  <2> QED BY <1>3 DEF ResolveAndCommit, CommitTo, ResolvedOrder
<1>5. Present' = left
  <2>1. (1..written) \cup (promised \ {p}) = ((1..written) \cup promised) \ {p}
    BY <1>1, <1>2, CycleGraphAssumption DEF Types
  <2> QED BY <1>4, <2>1 DEF Present
<1>6. MergeCase(graph, order, adjacent, Present, write, p, order2, adjacent2)
  <2>1. Resolvable(write, p, order, adjacent, Present)
    BY <1>1, <1>2 DEF Resolvable, MayResolve, Transaction
  <2> QED BY <1>1, <2>1 DEF MergeCase, Judgement
<1>7. /\ WellFormed(merged) /\ result.ok \in BOOLEAN
      /\ merged.rmw = TakenOver(graph, write, p).rmw
      /\ result.ok => Fits(merged, order2, adjacent2, left)
      /\ ~result.ok => \A at \in Placings : ~Obeys(at, order2, adjacent2, left)
  <2>1. result = mergeNodes(graph, write, p)
    OBVIOUS
  <2> HIDE DEF result, order2, adjacent2, write
  <2>2. Resolved(result, graph, write, p, order2, adjacent2, Present \ {p})
    BY <1>6, <2>1, ResolveFits, Zenon
  <2> QED BY <2>2 DEF Resolved
<1> HIDE DEF result, order2, adjacent2, left
<1>8. /\ WellFormed(graph') /\ Settled(graph') /\ Extends(graph', graph')
      /\ graph'.edges = merged.edges /\ graph'.rmw = merged.rmw /\ graph'.cycles = merged.cycles
  BY <1>4, <1>7, CommittedFacts
<1> HIDE DEF merged
<1>9. Types'
  BY <1>1, <1>4, <1>7, <1>8 DEF Types
<1>10. Unread(graph)'
  <2>1. TookOver(graph, TakenOver(graph, write, p), write, p)
    BY <1>1, <1>2, TakenOverFacts
  <2>2. \A n \in Nodes : n # write => graph'.rmw[n] = graph.rmw[n]
    BY <1>7, <1>8, <2>1 DEF TookOver
  <2>3. write \in 1..written
    BY <1>1 DEF Types
  <2> QED BY <1>1, <1>4, <2>2, <2>3 DEF Unread
<1>11. Transaction'
  BY <1>4, <1>8 DEF Transaction, Reading
<1>12. Judgement'
  <2>1. ASSUME result.ok PROVE Fits(graph', order2, adjacent2, left)
    BY <1>7, <1>8, <2>1, FitsSame
  <2> QED BY <1>4, <1>5, <1>7, <2>1 DEF Judgement
<1> QED BY <1>9, <1>10, <1>11, <1>12 DEF CGInv

LEMMA CGInit == Init => CGInv
<1> SUFFICES ASSUME Init PROVE CGInv
  OBVIOUS
<1> DEFINE g == EmptyGraph
<1>1. /\ graph = g /\ saved.graph = g /\ phase = "idle" /\ written = 1
      /\ promised = {} /\ made = {} /\ failed = FALSE
      /\ order = {} /\ adjacent = {} /\ saved.order = {} /\ saved.adjacent = {}
  BY DEF Init, Initial
<1>2. /\ g \in Graphs /\ g.cycles = FALSE /\ Settled(g)
      /\ \A n \in Nodes : g.edges[n] = <<>> /\ g.back[n] = <<>> /\ g.rmw[n] = NULL
  BY DEF EmptyGraph, Graphs, Settled
<1> HIDE DEF g
<1>3. \A f, t \in Nodes : ~HasEdge(g, f, t) /\ f \notin ToSet(g.back[t])
  BY <1>2 DEF HasEdge, ToSet
<1>4. WellFormed(g)
  BY <1>2, <1>3 DEF WellFormed, NoRepeat
<1>5. Extends(g, g)
  BY <1>2, <1>4, ExtendsFacts
<1>6. Types
  <2>1. 1 \in 1..MaxWrites
    BY CycleGraphAssumption
  <2> QED BY <1>1, <1>4, <2>1 DEF Types
<1>7. Fits(g, {}, {}, Present)
  <2>1. Present \subseteq Nodes
    BY <1>6, PresentFacts
  <2> QED BY <1>2, <1>3, <2>1 DEF Fits, Within, RMWAsked, Pairs, Sound, Ascends
<1>8. Unread(graph) /\ Transaction /\ Judgement
  BY <1>1, <1>2, <1>5, <1>7 DEF Unread, Transaction, Reading, Judgement
<1> QED BY <1>6, <1>8 DEF CGInv

LEMMA CGNext == CGInv /\ [Next]_vars => CGInv'
<1> SUFFICES ASSUME CGInv, [Next]_vars PROVE CGInv'
  OBVIOUS
<1>1. /\ Types /\ Transaction
      /\ \A p \in promised : p \in Present /\ p \notin 1..MaxWrites
      /\ focus \in Present \/ phase \notin {"read", "future", "write"}
      /\ phase = "write" => focus \in 1..MaxWrites
  BY PresentFacts DEF CGInv, Transaction, Types, Reading
<1>2. ASSUME NEW n \in Present, StartRead(n) \/ StartRMW(n) PROVE CGInv'
  BY <1>2, StartReadInv, StartRMWInv
<1>3. ASSUME NEW p \in Promises, StartFutureRead(p) PROVE CGInv'
  BY <1>3, StartFutureReadInv
<1>4. ASSUME NEW n \in Present, ReadEdge(n) \/ WriteEdge(n) PROVE CGInv'
  <2>1. /\ phase # "idle" /\ focus \in Present /\ n # focus /\ Ask(n, focus)
    BY <1>1, <1>4 DEF ReadEdge, WriteEdge, Reading
  <2> QED BY <2>1, AskInv
<1>5. ASSUME NEW p \in promised, ReadExclusive(p) \/ WriteExclusive(p) PROVE CGInv'
  <2>1. /\ phase # "idle" /\ focus \in Present /\ p # focus /\ p \in Present /\ Ask(focus, p)
    BY <1>1, <1>5 DEF ReadExclusive, WriteExclusive, Reading
  <2> QED BY <2>1, AskInv
<1>6. ASSUME NEW p \in promised, ResolveAndCommit(p) PROVE CGInv'
  BY <1>6, ResolveInv
<1>7. CASE CommitRead \/ CommitWrite
  <2>1. /\ phase # "idle" /\ phase' = "idle" /\ CommitTo(graph, order, adjacent)
        /\ UNCHANGED <<focus, written, made, promised, failed>>
    BY <1>7 DEF CommitRead, CommitWrite, Reading
  <2> QED BY <2>1, CommitInv
<1>8. CASE Rollback
  BY <1>8, RollbackInv
<1>9. CASE StartWrite
  BY <1>9, StartWriteInv
<1>10. CASE UNCHANGED vars
  <2>1. /\ Types' /\ Unread(graph)' /\ Transaction' /\ Judgement'
    BY <1>10 DEF vars, CGInv, Types, Unread, Transaction, Reading, Judgement, Present
  <2> QED BY <2>1 DEF CGInv
<1>11. CASE Ended
  BY <1>10, <1>11 DEF Ended
<1> QED BY <1>2, <1>3, <1>4, <1>5, <1>6, <1>7, <1>8, <1>9, <1>10, <1>11 DEF Next
-----------------------------------------------------------------------------
(***************************************************************************)
(* The results.                                                            *)
(***************************************************************************)
\* The invariant behind both results: what the CycleGraph holds, at every
\* point of a transaction of ModelExecution, fits what was asked for.
THEOREM GraphFitsRequests == Spec => []CGInv
<1>1. Init => CGInv
  BY CGInit
<1>2. CGInv /\ [Next]_vars => CGInv'
  BY CGNext
<1> QED BY <1>1, <1>2, PTL DEF Spec

LEMMA ClaimsFollow == CGInv => ClaimsAreTrue
<1> SUFFICES ASSUME CGInv PROVE ClaimsAreTrue
  OBVIOUS
<1>1. /\ WellFormed(graph) /\ graph \in Graphs /\ Present \in SUBSET Nodes
      /\ ~failed => Fits(graph, order, adjacent, Present)
      /\ failed => \A at \in Placings : ~Obeys(at, order, adjacent, Present)
  BY PresentFacts DEF CGInv, Types, WellFormed, Judgement
<1>2. ASSUME NEW at \in Places, Respects(at)
      PROVE  /\ at \in Placings /\ Obeys(at, order, adjacent, Present)
             /\ at \in [Nodes -> Int]
  <2>1. at \in [Nodes -> 1..Cardinality(Nodes)] /\ \A m, n \in Nodes : at[m] = at[n] => m = n
    BY DEF Places, IsInjective
  <2>2. at \in [Nodes -> Int]
    BY <2>1, NodeFacts
  <2> QED BY <1>2, <2>1, <2>2 DEF Placings, Respects, Obeys
<1>3. ASSUME ~Feasible, NEW at \in Places, Respects(at) PROVE FALSE
  <2>1. at \in Placings /\ Obeys(at, order, adjacent, Present)
    BY <1>2, <1>3
  <2> QED BY <1>1, <1>3, <2>1 DEF Feasible, Fits, Sound
<1>4. ASSUME Feasible, NEW at \in Places, Respects(at),
             NEW f \in Present, NEW t \in Present, f # t, checkReachable(graph, f, t)
      PROVE  at[f] < at[t]
  <2>1. /\ at \in Placings /\ Obeys(at, order, adjacent, Present) /\ at \in [Nodes -> Int]
        /\ f \in Nodes /\ t \in Nodes
    BY <1>1, <1>2, <1>4
  <2>2. Ascends(graph, at)
    BY <1>1, <1>4, <2>1 DEF Feasible, Fits, Sound
  <2>3. Climbs(graph, at)
    <3>1. \A m, n \in Nodes : at[m] < at[n] => at[m] <= at[n]
      BY <2>1
    <3> QED BY <2>2, <3>1 DEF Ascends, Climbs
  <2>4. at[f] <= at[t]
    BY <1>1, <1>4, <2>1, <2>3, PathsClimb
  <2> QED BY <1>4, <2>1, <2>4, PlacingFacts
<1>5. InfeasibleHasNoOrder
  BY <1>3 DEF InfeasibleHasNoOrder, OrderLeft
<1>6. ReachableIsOrdered
  <2>1. \A e \in Present \X Present : e[1] \in Present /\ e[2] \in Present
    OBVIOUS
  <2> QED BY <1>4, <2>1 DEF ReachableIsOrdered
<1> QED BY <1>5, <1>6 DEF ClaimsAreTrue

\* A cycle reported by the CycleGraph, or a promise that a write fails to
\* resolve, leaves no modification order at all, and what checkReachable finds
\* is so in every order left: no execution is pruned that could have happened.
THEOREM ClaimsStayTrue == Spec => []ClaimsAreTrue
BY GraphFitsRequests, ClaimsFollow, PTL

LEMMA TransactionsFollow == CGInv => TransactionsExact
<1> SUFFICES ASSUME CGInv PROVE TransactionsExact
  OBVIOUS
<1> DEFINE g == graph
           s == saved.graph
<1>1. /\ Types /\ WellFormed(g) /\ WellFormed(s) /\ g \in Graphs /\ s \in Graphs
      /\ Extends(g, s) /\ Settled(s)
      /\ phase = "idle" => Settled(g)
  BY DEF CGInv, Types, Transaction, WellFormed
<1>2. TypeOK
  <2>1. written \in 0..MaxWrites
    BY <1>1, CycleGraphAssumption DEF Types
  <2> QED BY <1>1, <2>1, GraphFields DEF Types, TypeOK, WellFormed
<1>3. StartAsserts
  BY <1>1 DEF StartAsserts, Settled
<1>4. ASSUME phase = "idle", NoEndlessChain PROVE g = s
  <2>1. Settled(g) /\ g.endless = FALSE
    BY <1>1, <1>4, GraphFields DEF NoEndlessChain
  <2> HIDE DEF g, s
  <2>2. \A n \in Nodes : Size(g, n) = Size(s, n)
    <3> SUFFICES ASSUME NEW n \in Nodes PROVE Size(g, n) = Size(s, n)
      OBVIOUS
    <3>1. {i \in DOMAIN g.rollback : g.rollback[i] = n} = {}
      BY <2>1 DEF Settled
    <3>2. Marks(g, n) = 0
      BY <3>1, FS_EmptySet DEF Marks, Times
    <3>3. Size(s, n) \in Nat
      BY <1>1, FieldFacts DEF Size
    <3>4. Size(g, n) = Size(s, n) + Marks(g, n)
      BY <1>1 DEF Extends
    <3> QED BY <3>2, <3>3, <3>4
  <2>3. g.edges = s.edges /\ g.back = s.back
    BY <1>1, <2>2, BackToStart DEF Extends
  <2>4. /\ g.rmw = s.rmw /\ g.oldCycles = s.oldCycles /\ g.cycles = s.cycles
        /\ g.rollback = s.rollback /\ g.rmwRollback = s.rmwRollback
    BY <1>1, <2>1 DEF Extends, Settled
  <2>5. g.endless = s.endless
    BY <1>1, <2>1, GraphFields DEF Extends
  <2>6. \A h \in Graphs :
           h = [edges |-> h.edges, back |-> h.back, rmw |-> h.rmw, cycles |-> h.cycles,
                oldCycles |-> h.oldCycles, endless |-> h.endless,
                rollback |-> h.rollback, rmwRollback |-> h.rmwRollback]
    BY DEF Graphs
  <2> QED BY <1>1, <2>3, <2>4, <2>5, <2>6
<1>5. RollbackExact
  BY <1>4 DEF RollbackExact
<1> QED BY <1>2, <1>3, <1>5 DEF TransactionsExact

\* When no transaction is going on the CycleGraph is the one that was committed
\* last: rollbackChanges undoes every edge of a read that fails, edge for edge,
\* and the assertions of startChanges hold.  An edge is known at both its ends.
THEOREM TransactionsStayExact == Spec => []TransactionsExact
BY GraphFitsRequests, TransactionsFollow, PTL
=============================================================================
