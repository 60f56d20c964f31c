---------------------------- MODULE PromisesProofs ----------------------------
(***************************************************************************)
(* Promises are given up only when they cannot be kept, and what is        *)
(* accepted is real, for any number of threads, promises and accesses.     *)
(*                                                                         *)
(* An edge of the modification order says what some action knew, or what   *)
(* every thread that may still keep a promise knows; so every completion   *)
(* of the execution obeys it, and a thread that modification order puts    *)
(* behind a promise keeps it in no completion.  A completion of the state  *)
(* after a step is one of the state before.                                *)
(***************************************************************************)
EXTENDS Promises, FiniteSetTheorems, SequenceTheorems, WellFoundedInduction, TLAPS

\* The writes of the location, and the promises, as nodes of mo.
Stores(tr) == {i \in DOMAIN tr : tr[i].op = "W"}
Ids(ps)    == {Node(ps[k].id) : k \in DOMAIN ps}

Actions    == [tid : Threads, op : {"R", "W"}, val : Values \cup {0}, rf : Int \cup {NONE}, hb : SUBSET Nat]
PromiseSet == [id : Nat \ {0}, val : Values, readers : Seq(Nat),
               available : SUBSET Threads, was : SUBSET Threads]
Releases   == [tid : Threads, cv : SUBSET Nat]

Types ==
    /\ trace \in Seq(Actions)
    /\ Len(trace) \in 1..MaxAccesses
    /\ promises \in Seq(PromiseSet)
    /\ made \in 0..MaxPromises
    /\ state \in [Threads -> {"new", "ready", "blocked", "complete"}]
    /\ joining \in [Threads -> Threads \cup {NONE}]
    /\ cv \in [Threads -> SUBSET Nat]
    /\ released \subseteq Releases /\ IsFiniteSet(released)
    /\ failed_promise \in BOOLEAN /\ hard_failed_promise \in BOOLEAN

\* Whom the threads wait for.
Waiting ==
    \A t \in Threads :
      /\ state[t] = "blocked" => joining[t] # NONE /\ state[joining[t]] \in {"ready", "blocked"}
      /\ joining[t] # NONE => /\ state[t] \in {"ready", "blocked"}
                              /\ state[t] = "ready" => state[joining[t]] = "complete"
      /\ state[t] = "new" => cv[t] = {}

\* A set of actions that holds what happens before its members.
Closed(tr, S) == S \subseteq DOMAIN tr /\ \A i \in S : tr[i].hb \subseteq S

Clocks ==
    /\ \A i \in DOMAIN trace :
         /\ Closed(trace, trace[i].hb) /\ trace[i].hb \subseteq 1..i /\ i \in trace[i].hb
         /\ \A j \in 1..i : trace[j].tid = trace[i].tid => j \in trace[i].hb
         /\ i \in cv[trace[i].tid]
    /\ \A t \in Threads : Closed(trace, cv[t])
    /\ \A r \in released : Closed(trace, r.cv) /\ r.cv \subseteq cv[r.tid]

\* Loads read stores or promises; a promise has its readers, and threads that run.
ReadsOf(tr, ps) ==
    /\ \A i \in DOMAIN tr :
         /\ tr[i].op = "W" => tr[i].rf = NONE
         /\ tr[i].op = "R" => /\ tr[i].rf \in Stores(tr) \cup Ids(ps)
                              /\ tr[i].rf \in Stores(tr) => i \notin tr[tr[i].rf].hb
    /\ \A k \in DOMAIN ps :
         /\ ps[k].readers # <<>>
         /\ \A i \in DOMAIN tr : tr[i].rf = Node(ps[k].id) <=> i \in ToSet(ps[k].readers)
         /\ ToSet(ps[k].readers) \subseteq DOMAIN tr

Available(ps, st) ==
    \A k \in DOMAIN ps :
       /\ ps[k].available \subseteq ps[k].was
       /\ \A u \in ps[k].was : st[u] # "new"
       /\ \A u \in ps[k].available : st[u] # "complete"

Named(ps, n) ==
    /\ \A k \in DOMAIN ps : ps[k].id \in 1..n
    /\ \A k, l \in DOMAIN ps : ps[k].id = ps[l].id => k = l

Reads == ReadsOf(trace, promises) /\ Available(promises, state) /\ Named(promises, made)

\* What load or store i is about, in trace tr.
StoreIn(tr, i) == IF tr[i].op = "W" THEN i ELSE tr[i].rf

\* An edge of mo says what an action knew, or what whoever may keep a promise knows.
Known(tr, e) == \E i, j \in DOMAIN tr :
    i \in tr[j].hb /\ StoreIn(tr, i) = e[1] /\ StoreIn(tr, j) = e[2] /\ e[1] # e[2]
Kept(tr, ps, c, e) == \E k \in DOMAIN ps :
    e[2] = Node(ps[k].id) /\ \A u \in ps[k].available : \E i \in c[u] : StoreIn(tr, i) = e[1] /\ e[1] # e[2]
Grounded(tr, ps, c, E) == \A e \in E : Known(tr, e) \/ Kept(tr, ps, c, e)

\* mo orders what the actions know to be ordered.
Ordered(tr, E) == \A i, j \in DOMAIN tr :
    i \in tr[j].hb => StoreIn(tr, j) \in Reach(E, StoreIn(tr, i))

GraphOf(tr, ps, E) == IsFiniteSet(E) /\ E \subseteq (Stores(tr) \cup Ids(ps)) \X (Stores(tr) \cup Ids(ps))

Graph == GraphOf(trace, promises, mo) /\ Grounded(trace, promises, cv, mo) /\ Ordered(trace, mo)

\* Whoever could keep a promise may.
Hopeless == \A f \in Completions : \A k \in DOMAIN promises : f[k] \in promises[k].available
GivenUp  == is_infeasible \/ failed_promise => Completions = {}

PInv == Types /\ Waiting /\ Clocks /\ Reads /\ Graph /\ Hopeless /\ GivenUp
-----------------------------------------------------------------------------
(***************************************************************************)
(* Recursion and induction over the numbers 0..n.                          *)
(***************************************************************************)
LEMMA Least ==
    ASSUME NEW S \in SUBSET Nat, S # {}
    PROVE  \E i \in S : \A j \in S : i <= j
<1>1. PICK i \in S : \A j \in S : ~(<<j, i>> \in OpToRel(<, Nat))
  BY WFMin, NatLessThanWellFounded
<1>2. \A j \in S : ~(j < i)
  BY <1>1 DEF OpToRel
<1> QED BY <1>2

\* What holds at 0 and is passed on holds up to n.
LEMMA Induction ==
    ASSUME NEW n \in Nat, NEW A \in SUBSET (0..n), 0 \in A,
           \A i \in 1..n : i-1 \in A => i \in A
    PROVE  A = 0..n
<1> DEFINE Out == (0..n) \ A
<1> SUFFICES ASSUME Out # {} PROVE FALSE
  OBVIOUS
<1>1. PICK k \in Out : \A j \in Out : k <= j
  <2>1. Out \in SUBSET Nat
    OBVIOUS
  <2> HIDE DEF Out
  <2> QED BY <2>1, Least
<1>2. k \in 1..n /\ k-1 \in 0..n /\ ~(k <= k-1)
  OBVIOUS
<1>3. k-1 \in A
  BY <1>1, <1>2
<1> QED BY <1>2, <1>3

\* What the n iterations of a loop make of a, F being its body.
Iterates(f, V, a, n, F) ==
    f \in [0..n -> V] /\ f[0] = a /\ \A i \in 1..n : f[i] = F[<<i, f[i-1]>>]

LEMMA Iteration ==
    ASSUME NEW V, NEW a \in V, NEW n \in Nat, NEW F \in [(1..n) \X V -> V]
    PROVE  \E f : Iterates(f, V, a, n, F)
<1> DEFINE Reaches(k) == \E f \in [0..k -> V] :
                            f[0] = a /\ \A i \in 1..k : f[i] = F[<<i, f[i-1]>>]
           A == {k \in 0..n : Reaches(k)}
<1>1. 0 \in A
  <2> DEFINE f == [i \in 0..0 |-> a]
  <2>1. f \in [0..0 -> V] /\ f[0] = a /\ \A i \in 1..0 : f[i] = F[<<i, f[i-1]>>]
    OBVIOUS
  <2>2. Reaches(0)
    BY <2>1
  <2> QED BY <2>2
<1>2. ASSUME NEW k \in 1..n, k-1 \in A
      PROVE  k \in A
  <2>1. PICK g \in [0..k-1 -> V] : g[0] = a /\ \A i \in 1..k-1 : g[i] = F[<<i, g[i-1]>>]
    BY <1>2
  <2>2. F[<<k, g[k-1]>>] \in V
    <3>1. <<k, g[k-1]>> \in (1..n) \X V
      BY <2>1
    <3> QED BY <3>1
  <2> DEFINE f == [i \in 0..k |-> IF i = k THEN F[<<k, g[k-1]>>] ELSE g[i]]
  <2>3. f \in [0..k -> V]
    BY <2>1, <2>2
  <2>4. f[0] = a
    BY <2>1
  <2>5. ASSUME NEW i \in 1..k PROVE f[i] = F[<<i, f[i-1]>>]
    <3>1. i-1 \in 0..k-1 /\ i-1 # k /\ i \in 0..k /\ i-1 \in 0..k
      OBVIOUS
    <3>2. f[i-1] = g[i-1]
      BY <3>1
    <3>3. CASE i = k
      BY <3>1, <3>2, <3>3
    <3>4. CASE i # k
      <4>1. i \in 1..k-1 /\ f[i] = g[i]
        BY <3>1, <3>4
      <4> QED BY <2>1, <3>2, <4>1
    <3> QED BY <3>3, <3>4
  <2> HIDE DEF f
  <2>6. Reaches(k)
    BY <2>3, <2>4, <2>5
  <2> HIDE DEF Reaches
  <2> QED BY <2>6
<1>3. A = 0..n
  <2> HIDE DEF Reaches
  <2>1. A \in SUBSET (0..n)
    OBVIOUS
  <2> HIDE DEF A
  <2> QED BY <1>1, <1>2, <2>1, Induction
<1>4. Reaches(n)
  BY <1>3
<1> QED BY <1>4 DEF Iterates
-----------------------------------------------------------------------------
(***************************************************************************)
(* Reachability.                                                           *)
(***************************************************************************)
ClosedUnder(E, T) == \A e \in E : e[1] \in T => e[2] \in T

\* Closure is the least set that holds S and that no edge leads out of.
LEMMA ClosureFacts ==
    ASSUME NEW E, IsFiniteSet(E), NEW S
    PROVE  /\ S \subseteq Closure(E, S)
           /\ ClosedUnder(E, Closure(E, S))
           /\ \A T : S \subseteq T /\ ClosedUnder(E, T) => Closure(E, S) \subseteq T
<1> DEFINE N == Cardinality(E)
           U == S \cup {e[2] : e \in E}
           V == SUBSET U
           upTo[i \in 0..N] == IF i = 0 THEN S ELSE Follow(E, upTo[i-1])
           F == [x \in (1..N) \X V |-> Follow(E, x[2])]
           Solves(u) == u = [i \in 0..N |-> IF i = 0 THEN S ELSE Follow(E, u[i-1])]
<1>1. N \in Nat /\ S \in V
  BY FS_CardinalityType
<1>2. \A X \in V : Follow(E, X) \in V
  BY DEF Follow
<1>3. F \in [(1..N) \X V -> V]
  <2> HIDE DEF V
  <2> QED BY <1>2
<1>4. \E u : Iterates(u, V, S, N, F)
  <2> HIDE DEF N, V, F
  <2> QED BY <1>1, <1>3, Iteration, Zenon
<1>5. PICK u \in [0..N -> V] : u[0] = S /\ \A i \in 1..N : u[i] = F[<<i, u[i-1]>>]
  <2> HIDE DEF N, V, F
  <2> QED BY <1>4 DEF Iterates
<1>6. Solves(u)
  <2>1. ASSUME NEW i \in 0..N, i # 0 PROVE u[i] = Follow(E, u[i-1])
    <3>1. i \in 1..N /\ i-1 \in 0..N
      BY <1>1, <2>1
    <3> HIDE DEF V
    <3>2. <<i, u[i-1]>> \in (1..N) \X V
      BY <1>5, <3>1
    <3> QED BY <1>5, <3>1, <3>2
  <2> HIDE DEF V
  <2> QED BY <1>5, <2>1
<1>7. Solves(upTo)
  <2>1. upTo = CHOOSE v : Solves(v)
    OBVIOUS
  <2> HIDE DEF upTo, Solves
  <2> QED BY <1>6, <2>1
<1>8. Closure(E, S) = upTo[N]
  BY DEF Closure
<1> HIDE DEF upTo
<1>9. upTo[0] = S
  BY <1>1, <1>7
<1>10. ASSUME NEW i \in 1..N PROVE upTo[i] = Follow(E, upTo[i-1])
  <2>1. i \in 0..N /\ i # 0
    BY <1>1
  <2> QED BY <1>7, <2>1
<1> HIDE DEF Solves, N, F, V, U
<1>11. S \subseteq upTo[N]
  <2> DEFINE A == {i \in 0..N : S \subseteq upTo[i]}
  <2>1. 0 \in A
    BY <1>1, <1>9
  <2>2. \A i \in 1..N : i-1 \in A => i \in A
    BY <1>1, <1>10 DEF Follow
  <2>3. A \in SUBSET (0..N)
    OBVIOUS
  <2> HIDE DEF A
  <2>4. A = 0..N
    BY <1>1, <2>1, <2>2, <2>3, Induction
  <2>5. N \in A
    BY <1>1, <2>4
  <2> QED BY <2>5 DEF A
<1>12. ASSUME NEW T, S \subseteq T, ClosedUnder(E, T) PROVE upTo[N] \subseteq T
  <2> DEFINE A == {i \in 0..N : upTo[i] \subseteq T}
  <2>1. 0 \in A
    BY <1>1, <1>9, <1>12
  <2>2. \A i \in 1..N : i-1 \in A => i \in A
    BY <1>1, <1>10, <1>12 DEF Follow, ClosedUnder
  <2>3. A \in SUBSET (0..N)
    OBVIOUS
  <2> HIDE DEF A
  <2>4. A = 0..N
    BY <1>1, <2>1, <2>2, <2>3, Induction
  <2>5. N \in A
    BY <1>1, <2>4
  <2> QED BY <2>5 DEF A
<1>13. ClosedUnder(E, upTo[N])
  <2> DEFINE Used(i) == {e \in E : e[2] \in upTo[i]}
             A == {i \in 0..N : ClosedUnder(E, upTo[i]) \/ Cardinality(Used(i)) >= i}
  <2>1. \A i \in 0..N : IsFiniteSet(Used(i)) /\ Cardinality(Used(i)) \in Nat
    <3> SUFFICES ASSUME NEW i \in 0..N PROVE IsFiniteSet(Used(i)) /\ Cardinality(Used(i)) \in Nat
      OBVIOUS
    <3>1. Used(i) \in SUBSET E
      OBVIOUS
    <3> HIDE DEF Used
    <3> QED BY <3>1, FS_Subset, FS_CardinalityType
  <2>2. 0 \in A
    <3>1. Cardinality(Used(0)) >= 0
      <4> HIDE DEF Used
      <4> QED BY <1>1, <2>1
    <3> QED BY <1>1, <3>1
  <2>3. ASSUME NEW i \in 1..N, i-1 \in A PROVE i \in A
    <3>1. i-1 \in 0..N /\ i \in 0..N
      BY <1>1
    <3>2. upTo[i] = Follow(E, upTo[i-1])
      BY <1>10
    <3>3. CASE ClosedUnder(E, upTo[i-1])
      <4>1. upTo[i] = upTo[i-1]
        BY <3>2, <3>3 DEF Follow, ClosedUnder
      <4> QED BY <3>1, <3>3, <4>1
    <3>4. CASE ~ClosedUnder(E, upTo[i-1])
      <4>1. PICK e \in E : e[1] \in upTo[i-1] /\ e[2] \notin upTo[i-1]
        BY <3>4 DEF ClosedUnder
      <4>2. e \in Used(i) /\ e \notin Used(i-1) /\ Used(i-1) \subseteq Used(i)
        BY <3>2, <4>1 DEF Follow
      <4> DEFINE B == Used(i-1) \cup {e}
      <4>3. B \in SUBSET Used(i)
        BY <4>2
      <4>4. Cardinality(B) = Cardinality(Used(i-1)) + 1
        <5> HIDE DEF Used
        <5> QED BY <2>1, <3>1, <4>2, FS_AddElement
      <4>5. Cardinality(B) <= Cardinality(Used(i))
        <5> HIDE DEF Used, B
        <5> QED BY <2>1, <3>1, <4>3, FS_Subset
      <4>6. Cardinality(Used(i-1)) >= i-1
        BY <2>3, <3>4
      <4> HIDE DEF B, Used
      <4>7. Cardinality(Used(i)) >= i
        BY <1>1, <2>1, <3>1, <4>4, <4>5, <4>6
      <4> QED BY <3>1, <4>7
    <3> QED BY <3>3, <3>4
  <2>4. N \in A
    <3>1. A \in SUBSET (0..N)
      OBVIOUS
    <3> HIDE DEF A
    <3>2. A = 0..N
      BY <1>1, <2>2, <2>3, <3>1, Induction
    <3> QED BY <1>1, <3>2
  <2>5. CASE Cardinality(Used(N)) >= N
    <3>1. Used(N) \in SUBSET E
      OBVIOUS
    <3>2. Cardinality(Used(N)) <= Cardinality(E) /\ (Cardinality(E) = Cardinality(Used(N)) => E = Used(N))
      <4> HIDE DEF Used
      <4> QED BY <3>1, FS_Subset
    <3>3. Cardinality(Used(N)) \in Nat
      <4> HIDE DEF Used
      <4> QED BY <1>1, <2>1
    <3>4. E = Used(N)
      <4> HIDE DEF Used
      <4> QED BY <1>1, <2>5, <3>2, <3>3 DEF N
    <3> QED BY <3>4 DEF ClosedUnder
  <2> QED BY <2>4, <2>5
<1> QED BY <1>8, <1>11, <1>12, <1>13

LEMMA ReachFacts ==
    ASSUME NEW E, IsFiniteSet(E), NEW n
    PROVE  /\ n \in Reach(E, n)
           /\ \A e \in E : e[1] \in Reach(E, n) => e[2] \in Reach(E, n)
           /\ \A T : n \in T /\ (\A e \in E : e[1] \in T => e[2] \in T) => Reach(E, n) \subseteq T
<1> DEFINE S == {n}
<1>1. Reach(E, n) = Closure(E, S)
  BY DEF Reach
<1> HIDE DEF S
<1>2. /\ S \subseteq Closure(E, S)
      /\ ClosedUnder(E, Closure(E, S))
      /\ \A T : S \subseteq T /\ ClosedUnder(E, T) => Closure(E, S) \subseteq T
  BY ClosureFacts
<1>3. n \in Reach(E, n)
  BY <1>1, <1>2 DEF S
<1>4. \A e \in E : e[1] \in Reach(E, n) => e[2] \in Reach(E, n)
  BY <1>1, <1>2 DEF ClosedUnder
<1>5. ASSUME NEW T, n \in T, \A e \in E : e[1] \in T => e[2] \in T PROVE Reach(E, n) \subseteq T
  <2>1. S \subseteq T /\ ClosedUnder(E, T)
    BY <1>5 DEF S, ClosedUnder
  <2> QED BY <1>1, <1>2, <2>1
<1> QED BY <1>3, <1>4, <1>5

\* Reachability is transitive.
LEMMA ReachOn ==
    ASSUME NEW E, IsFiniteSet(E), NEW a, NEW b, NEW c, b \in Reach(E, a), c \in Reach(E, b)
    PROVE  c \in Reach(E, a)
<1>1. \A e \in E : e[1] \in Reach(E, a) => e[2] \in Reach(E, a)
  BY ReachFacts
<1>2. Reach(E, b) \subseteq Reach(E, a)
  BY <1>1, ReachFacts
<1> QED BY <1>2

\* Whoever comes back to where he was has gone along a cycle.
LEMMA RoundTrip ==
    ASSUME NEW E, IsFiniteSet(E), NEW a, NEW b, a # b, b \in Reach(E, a), a \in Reach(E, b)
    PROVE  HasCycle(E)
<1> SUFFICES ASSUME ~HasCycle(E) PROVE FALSE
  OBVIOUS
<1> DEFINE T == {x \in Reach(E, a) : x = a \/ a \notin Reach(E, x)}
<1>1. ASSUME NEW e \in E, e[1] \in T PROVE e[2] \in T
  <2>1. e[2] \in Reach(E, a) /\ e[1] \in Reach(E, a)
    BY <1>1, ReachFacts
  <2>2. ASSUME a \in Reach(E, e[2]) PROVE FALSE
    <3>1. e[1] \in Reach(E, e[2])
      BY <2>1, <2>2, ReachOn
    <3> QED BY <3>1 DEF HasCycle
  <2> QED BY <2>1, <2>2
<1>2. a \in T
  BY ReachFacts
<1> HIDE DEF T
<1>3. Reach(E, a) \subseteq T
  BY <1>1, <1>2, ReachFacts
<1> QED BY <1>3 DEF T

\* A graph that maps into another has no cycle that the other has not.
LEMMA Homomorphism ==
    ASSUME NEW E, IsFiniteSet(E), NEW F, IsFiniteSet(F), NEW X, E \subseteq X \X X, NEW To,
           \A e \in E : <<To[e[1]], To[e[2]]>> \in F
    PROVE  /\ HasCycle(E) => HasCycle(F)
           /\ \A a \in X : \A b : b \in Reach(E, a) => b \in X /\ To[b] \in Reach(F, To[a])
<1>1. ASSUME NEW a \in X, NEW b, b \in Reach(E, a) PROVE b \in X /\ To[b] \in Reach(F, To[a])
  <2> DEFINE T == {x \in X : To[x] \in Reach(F, To[a])}
  <2>1. a \in T
    BY ReachFacts
  <2>2. ASSUME NEW e \in E, e[1] \in T PROVE e[2] \in T
    <3>1. e[2] \in X
      OBVIOUS
    <3>2. <<To[e[1]], To[e[2]]>> \in F
      OBVIOUS
    <3>3. To[e[2]] \in Reach(F, To[a])
      <4> DEFINE p == <<To[e[1]], To[e[2]]>>
      <4>1. p \in F /\ p[1] \in Reach(F, To[a]) /\ p[2] = To[e[2]]
        BY <2>2, <3>2
      <4> HIDE DEF p
      <4> QED BY <4>1, ReachFacts
    <3> QED BY <3>1, <3>3
  <2> HIDE DEF T
  <2>3. Reach(E, a) \subseteq T
    BY <2>1, <2>2, ReachFacts
  <2> QED BY <1>1, <2>3 DEF T
<1>2. ASSUME HasCycle(E) PROVE HasCycle(F)
  <2>1. PICK e \in E : e[1] \in Reach(E, e[2])
    BY <1>2 DEF HasCycle
  <2>2. e[1] \in X /\ e[2] \in X
    OBVIOUS
  <2> DEFINE p == <<To[e[1]], To[e[2]]>>
  <2>3. p \in F /\ p[1] = To[e[1]] /\ p[2] = To[e[2]]
    OBVIOUS
  <2>4. p[1] \in Reach(F, p[2])
    BY <1>1, <2>1, <2>2, <2>3
  <2> HIDE DEF p
  <2> QED BY <2>3, <2>4 DEF HasCycle
<1> QED BY <1>1, <1>2

\* More edges reach further.
LEMMA ReachMore ==
    ASSUME NEW E, IsFiniteSet(E), NEW F, IsFiniteSet(F), E \subseteq F
    PROVE  /\ HasCycle(E) => HasCycle(F)
           /\ \A a, b : b \in Reach(E, a) => b \in Reach(F, a)
<1>1. ASSUME NEW a PROVE Reach(E, a) \subseteq Reach(F, a)
  <2>1. a \in Reach(F, a) /\ \A e \in E : e[1] \in Reach(F, a) => e[2] \in Reach(F, a)
    BY ReachFacts
  <2> QED BY <2>1, ReachFacts
<1> QED BY <1>1 DEF HasCycle
-----------------------------------------------------------------------------
(***************************************************************************)
(* Completions, for any trace tr, knowledge kn of the threads, promises ps *)
(* and states st of the threads.                                           *)
(***************************************************************************)
Coh(tr, kn, ps, f) ==
    {e \in Int \X Int :
       \/ \E i, j \in DOMAIN tr : i \in tr[j].hb /\ StoreIn(tr, i) # StoreIn(tr, j)
                                  /\ e = <<StoreIn(tr, i), StoreIn(tr, j)>>
       \/ \E k \in DOMAIN ps : \E i \in kn[f[k]] : e = <<StoreIn(tr, i), Node(ps[k].id)>>}

AbleIn(p, t, kn, st) == t \in p.was /\ st[t] # "complete" /\ ToSet(p.readers) \cap kn[t] = {}

Completing(tr, kn, ps, st, f) ==
    /\ f \in [DOMAIN ps -> Threads]
    /\ \A k \in DOMAIN ps : AbleIn(ps[k], f[k], kn, st)
    /\ ~HasCycle(Coh(tr, kn, ps, f))

Knowledge == [t \in Threads |-> Knows(t)]

\* A trace, its promises and what the threads know of it.
Fitting(tr, kn, ps) ==
    /\ tr \in Seq(Actions) /\ ps \in Seq(PromiseSet)
    /\ kn \in [Threads -> SUBSET (DOMAIN tr)]
    /\ ReadsOf(tr, ps)

LEMMA NodeNumbers ==
    ASSUME NEW tr \in Seq(Actions), NEW ps \in Seq(PromiseSet), ReadsOf(tr, ps)
    PROVE  /\ \A i \in DOMAIN tr : StoreIn(tr, i) \in Stores(tr) \cup Ids(ps)
           /\ Stores(tr) \cup Ids(ps) \subseteq Int
           /\ IsFiniteSet(Stores(tr) \cup Ids(ps))
<1>1. \A i \in DOMAIN tr : tr[i] \in Actions
  OBVIOUS
<1>2. \A k \in DOMAIN ps : ps[k] \in PromiseSet
  OBVIOUS
<1>3. ASSUME NEW i \in DOMAIN tr PROVE StoreIn(tr, i) \in Stores(tr) \cup Ids(ps)
  BY <1>1 DEF ReadsOf, StoreIn, Stores, Actions
<1>4. Stores(tr) \subseteq 1..Len(tr) /\ Len(tr) \in Nat
  BY DEF Stores
<1>5. DOMAIN ps = 1..Len(ps) /\ Len(ps) \in Nat
  OBVIOUS
<1>6. Ids(ps) \subseteq Int
  BY <1>2 DEF Ids, Node, PromiseSet
<1>7. IsFiniteSet(Stores(tr))
  <2>1. IsFiniteSet(1..Len(tr))
    BY <1>4, FS_Interval
  <2>2. Stores(tr) \in SUBSET (1..Len(tr))
    BY <1>4
  <2> QED BY <2>1, <2>2, FS_Subset
<1>8. IsFiniteSet(Ids(ps))
  <2> DEFINE g == [k \in 1..Len(ps) |-> Node(ps[k].id)]
  <2>1. g \in Surjection(1..Len(ps), Ids(ps))
    BY <1>5 DEF Surjection, Ids
  <2>2. IsFiniteSet(1..Len(ps))
    BY <1>5, FS_Interval
  <2> HIDE DEF g
  <2> QED BY <2>1, <2>2, FS_Surjection
<1>9. IsFiniteSet(Stores(tr) \cup Ids(ps))
  BY <1>7, <1>8, FS_Union
<1>10. Stores(tr) \subseteq Int
  BY <1>4
<1> QED BY <1>3, <1>6, <1>9, <1>10

LEMMA CohFacts ==
    ASSUME NEW tr, NEW kn, NEW ps, Fitting(tr, kn, ps), NEW f \in [DOMAIN ps -> Threads]
    PROVE  /\ Coh(tr, kn, ps, f) \subseteq (Stores(tr) \cup Ids(ps)) \X (Stores(tr) \cup Ids(ps))
           /\ IsFiniteSet(Coh(tr, kn, ps, f))
           /\ \A i, j \in DOMAIN tr : i \in tr[j].hb /\ StoreIn(tr, i) # StoreIn(tr, j) =>
                 <<StoreIn(tr, i), StoreIn(tr, j)>> \in Coh(tr, kn, ps, f)
           /\ \A k \in DOMAIN ps : \A i \in kn[f[k]] :
                 <<StoreIn(tr, i), Node(ps[k].id)>> \in Coh(tr, kn, ps, f)
<1> DEFINE M == Stores(tr) \cup Ids(ps)
<1>1. /\ \A i \in DOMAIN tr : StoreIn(tr, i) \in M
      /\ M \subseteq Int
      /\ IsFiniteSet(M)
  BY NodeNumbers DEF Fitting
<1>2. \A k \in DOMAIN ps : Node(ps[k].id) \in M /\ kn[f[k]] \subseteq DOMAIN tr
  BY DEF Fitting, Ids
<1> HIDE DEF M
<1>3. Coh(tr, kn, ps, f) \in SUBSET (M \X M)
  <2> SUFFICES ASSUME NEW e \in Coh(tr, kn, ps, f) PROVE e \in M \X M
    OBVIOUS
  <2> QED BY <1>1, <1>2 DEF Coh
<1>4. IsFiniteSet(M \X M)
  BY <1>1, FS_Product
<1>5. IsFiniteSet(Coh(tr, kn, ps, f))
  BY <1>3, <1>4, FS_Subset
<1>6. ASSUME NEW i \in DOMAIN tr, NEW j \in DOMAIN tr, i \in tr[j].hb, StoreIn(tr, i) # StoreIn(tr, j)
      PROVE  <<StoreIn(tr, i), StoreIn(tr, j)>> \in Coh(tr, kn, ps, f)
  BY <1>1, <1>6 DEF Coh
<1>7. ASSUME NEW k \in DOMAIN ps, NEW i \in kn[f[k]]
      PROVE  <<StoreIn(tr, i), Node(ps[k].id)>> \in Coh(tr, kn, ps, f)
  BY <1>1, <1>2 DEF Coh
<1> QED BY <1>3, <1>5, <1>6, <1>7 DEF M

\* A completion of what came after a step tells one of what was before.
LEMMA CompletionBack ==
    ASSUME NEW tr, NEW kn, NEW ps, NEW st, NEW f \in [DOMAIN ps -> Threads], Fitting(tr, kn, ps),
           NEW tr2, NEW kn2, NEW ps2, NEW st2, NEW g, Fitting(tr2, kn2, ps2),
           Completing(tr2, kn2, ps2, st2, g),
           \A k \in DOMAIN ps : AbleIn(ps[k], f[k], kn, st),
           NEW To,
           \A e \in Coh(tr, kn, ps, f) : <<To[e[1]], To[e[2]]>> \in Coh(tr2, kn2, ps2, g)
    PROVE  Completing(tr, kn, ps, st, f)
<1> DEFINE E == Coh(tr, kn, ps, f)
           F == Coh(tr2, kn2, ps2, g)
<1>1. g \in [DOMAIN ps2 -> Threads] /\ ~HasCycle(F)
  BY DEF Completing
<1>2. IsFiniteSet(E) /\ IsFiniteSet(F) /\ E \subseteq Int \X Int
  <2>1. IsFiniteSet(E) /\ IsFiniteSet(F)
    BY <1>1, CohFacts
  <2> QED BY <2>1 DEF Coh
<1>3. \A e \in E : <<To[e[1]], To[e[2]]>> \in F
  OBVIOUS
<1> HIDE DEF E, F
<1>4. ~HasCycle(E)
  BY <1>1, <1>2, <1>3, Homomorphism
<1> QED BY <1>4 DEF Completing, E

\* The promises are the same, with perhaps more readers, or there are more; and more is known.
Continues(tr, kn, ps, st, tr2, kn2, ps2, st2) ==
    /\ DOMAIN tr \subseteq DOMAIN tr2
    /\ \A i \in DOMAIN tr : tr2[i].hb = tr[i].hb /\ StoreIn(tr2, i) = StoreIn(tr, i)
    /\ \A t \in Threads : kn[t] \subseteq kn2[t] /\ (st[t] = "complete" => st2[t] = "complete")
    /\ DOMAIN ps \subseteq DOMAIN ps2
    /\ \A k \in DOMAIN ps : /\ ps2[k].id = ps[k].id /\ ps2[k].was = ps[k].was
                            /\ ToSet(ps[k].readers) \subseteq ToSet(ps2[k].readers)

LEMMA SameCompletions ==
    ASSUME NEW tr, NEW kn, NEW ps, NEW st, Fitting(tr, kn, ps),
           NEW tr2, NEW kn2, NEW ps2, NEW st2, Fitting(tr2, kn2, ps2),
           Continues(tr, kn, ps, st, tr2, kn2, ps2, st2),
           NEW g, Completing(tr2, kn2, ps2, st2, g), NEW f, f = [k \in DOMAIN ps |-> g[k]]
    PROVE  Completing(tr, kn, ps, st, f)
<1> DEFINE To == [x \in Int |-> x]
<1>1. /\ g \in [DOMAIN ps2 -> Threads] /\ f \in [DOMAIN ps -> Threads]
      /\ \A k \in DOMAIN ps : f[k] = g[k]
  BY DEF Completing, Continues
<1>2. \A k \in DOMAIN ps : AbleIn(ps[k], f[k], kn, st)
  <2> SUFFICES ASSUME NEW k \in DOMAIN ps PROVE AbleIn(ps[k], f[k], kn, st)
    OBVIOUS
  <2>1. AbleIn(ps2[k], f[k], kn2, st2) /\ f[k] \in Threads /\ f[k] = g[k]
    BY <1>1 DEF Completing, Continues
  <2> QED BY <2>1 DEF AbleIn, Continues
<1>3. ASSUME NEW e \in Coh(tr, kn, ps, f)
      PROVE  <<To[e[1]], To[e[2]]>> \in Coh(tr2, kn2, ps2, g)
  <2>1. e \in Int \X Int
    BY DEF Coh
  <2>2. <<To[e[1]], To[e[2]]>> = e
    BY <2>1
  <2>3. e \in Coh(tr2, kn2, ps2, g)
    <3>1. CASE \E i, j \in DOMAIN tr : i \in tr[j].hb /\ StoreIn(tr, i) # StoreIn(tr, j)
                                       /\ e = <<StoreIn(tr, i), StoreIn(tr, j)>>
      <4>1. PICK i, j \in DOMAIN tr : i \in tr[j].hb /\ StoreIn(tr, i) # StoreIn(tr, j)
                                       /\ e = <<StoreIn(tr, i), StoreIn(tr, j)>>
        BY <3>1
      <4>2. i \in DOMAIN tr2 /\ j \in DOMAIN tr2 /\ i \in tr2[j].hb
        BY <4>1 DEF Continues
      <4>3. StoreIn(tr2, i) = StoreIn(tr, i) /\ StoreIn(tr2, j) = StoreIn(tr, j)
        BY DEF Continues
      <4> QED BY <1>1, <4>1, <4>2, <4>3, CohFacts
    <3>2. CASE \E k \in DOMAIN ps : \E i \in kn[f[k]] : e = <<StoreIn(tr, i), Node(ps[k].id)>>
      <4>0. PICK k \in DOMAIN ps : \E i \in kn[f[k]] : e = <<StoreIn(tr, i), Node(ps[k].id)>>
        BY <3>2
      <4>1. PICK i \in kn[f[k]] : e = <<StoreIn(tr, i), Node(ps[k].id)>>
        BY <4>0
      <4>2. f[k] \in Threads /\ f[k] = g[k] /\ i \in DOMAIN tr
        BY <1>1, <4>1 DEF Fitting
      <4>3. k \in DOMAIN ps2 /\ i \in kn2[g[k]] /\ ps2[k].id = ps[k].id /\ StoreIn(tr2, i) = StoreIn(tr, i)
        BY <4>1, <4>2 DEF Continues
      <4> QED BY <1>1, <4>1, <4>2, <4>3, CohFacts
    <3> QED BY <3>1, <3>2 DEF Coh
  <2> QED BY <2>2, <2>3
<1> HIDE DEF To
<1> QED BY <1>1, <1>2, <1>3, CompletionBack
-----------------------------------------------------------------------------
(***************************************************************************)
(* What a thread knows, and what those it waits for know.                  *)
(***************************************************************************)
ChainOf(j, t) == Closure({<<v, j[v]>> : v \in Threads}, {t})
KnownBy(c, j, t) == UNION {c[u] : u \in ChainOf(j, t) \ {NONE}}

LEMMA KnowsIs ==
    /\ \A t : Knows(t) = KnownBy(cv, joining, t)
    /\ \A t : Knows(t)' = KnownBy(cv', joining', t)
BY DEF Knows, KnownBy, WaitChain, ChainOf

LEMMA ChainFacts ==
    ASSUME NEW j, NEW t
    PROVE  /\ t \in ChainOf(j, t)
           /\ \A v \in Threads : v \in ChainOf(j, t) => j[v] \in ChainOf(j, t)
           /\ \A T : t \in T /\ (\A v \in Threads : v \in T => j[v] \in T) => ChainOf(j, t) \subseteq T
<1> DEFINE E == {<<v, j[v]>> : v \in Threads}
           S == {t}
           g == [v \in Threads |-> <<v, j[v]>>]
<1>1. IsFiniteSet(E)
  <2>1. g \in Surjection(Threads, E)
    BY DEF Surjection
  <2> HIDE DEF E, g
  <2> QED BY <2>1, PromisesAssumption, FS_Surjection
<1>2. ChainOf(j, t) = Closure(E, S)
  BY DEF ChainOf
<1> HIDE DEF E, S
<1>3. /\ S \subseteq Closure(E, S)
      /\ ClosedUnder(E, Closure(E, S))
      /\ \A T : S \subseteq T /\ ClosedUnder(E, T) => Closure(E, S) \subseteq T
  BY <1>1, ClosureFacts
<1>4. t \in ChainOf(j, t)
  BY <1>2, <1>3 DEF S
<1>5. ASSUME NEW v \in Threads, v \in ChainOf(j, t) PROVE j[v] \in ChainOf(j, t)
  <2> DEFINE e == <<v, j[v]>>
  <2>1. e \in E /\ e[1] = v /\ e[2] = j[v]
    BY DEF E
  <2> HIDE DEF e
  <2> QED BY <1>2, <1>3, <1>5, <2>1 DEF ClosedUnder
<1>6. ASSUME NEW T, t \in T, \A v \in Threads : v \in T => j[v] \in T PROVE ChainOf(j, t) \subseteq T
  <2>1. S \subseteq T
    BY <1>6 DEF S
  <2>2. ClosedUnder(E, T)
    BY <1>6 DEF ClosedUnder, E
  <2> QED BY <1>2, <1>3, <2>1, <2>2
<1> QED BY <1>4, <1>5, <1>6

LEMMA KnownFacts ==
    ASSUME NEW D, NEW c \in [Threads -> SUBSET D], NEW j \in [Threads -> Threads \cup {NONE}],
           NEW t \in Threads
    PROVE  /\ c[t] \subseteq KnownBy(c, j, t)
           /\ j[t] # NONE => c[j[t]] \subseteq KnownBy(c, j, t)
           /\ j[t] = NONE => KnownBy(c, j, t) = c[t]
           /\ KnownBy(c, j, t) \in SUBSET D
<1>1. t \in ChainOf(j, t) /\ j[t] \in ChainOf(j, t) /\ t # NONE
  BY ChainFacts, PromisesAssumption
<1>2. ChainOf(j, t) \subseteq Threads \cup {NONE}
  <2> DEFINE T == Threads \cup {NONE}
  <2>1. t \in T /\ \A v \in Threads : v \in T => j[v] \in T
    OBVIOUS
  <2> HIDE DEF T
  <2>2. ChainOf(j, t) \subseteq T
    BY <2>1, ChainFacts
  <2> QED BY <2>2 DEF T
<1>3. ASSUME j[t] = NONE PROVE KnownBy(c, j, t) = c[t]
  <2> DEFINE T == {t, NONE}
  <2>1. t \in T /\ \A v \in Threads : v \in T => j[v] \in T
    BY <1>3, PromisesAssumption
  <2> HIDE DEF T
  <2>2. ChainOf(j, t) \subseteq T
    BY <2>1, ChainFacts
  <2>3. ChainOf(j, t) \ {NONE} = {t}
    BY <1>1, <2>2 DEF T
  <2> QED BY <2>3 DEF KnownBy
<1>4. KnownBy(c, j, t) \in SUBSET D
  BY <1>2 DEF KnownBy
<1> QED BY <1>1, <1>3, <1>4 DEF KnownBy

\* Nobody forgets when a thread learns something, begins to wait, or goes on
\* with what the one it waited for knows.
LEMMA KnownGrows ==
    ASSUME NEW D, NEW c \in [Threads -> SUBSET D], NEW j \in [Threads -> Threads \cup {NONE}],
           NEW c2 \in [Threads -> SUBSET D], NEW j2 \in [Threads -> Threads \cup {NONE}],
           \A v \in Threads :
              /\ c[v] \subseteq c2[v]
              /\ \/ j2[v] = j[v]
                 \/ j[v] = NONE
                 \/ j[j[v]] = NONE /\ c[j[v]] \subseteq c2[v],
           NEW t \in Threads
    PROVE  KnownBy(c, j, t) \subseteq KnownBy(c2, j2, t)
<1> DEFINE K == KnownBy(c2, j2, t)
           T == {v \in Threads : c[v] \subseteq K /\ (v \in ChainOf(j2, t) \/ j[v] = NONE)} \cup {NONE}
<1>1. \A v \in Threads : v \in ChainOf(j2, t) => c2[v] \subseteq K /\ c[v] \subseteq K
  BY PromisesAssumption DEF KnownBy
<1>2. t \in T
  BY <1>1, ChainFacts
<1>3. ASSUME NEW v \in Threads, v \in T PROVE j[v] \in T
  <2>1. CASE j[v] = NONE
    BY <2>1
  <2>2. CASE j[v] # NONE /\ j2[v] = j[v]
    <3>1. v \in ChainOf(j2, t)
      BY <1>3, <2>2, PromisesAssumption
    <3>2. j[v] \in ChainOf(j2, t) /\ j[v] \in Threads
      BY <2>2, <3>1, ChainFacts
    <3> QED BY <1>1, <3>2
  <2>3. CASE j[v] # NONE /\ j[j[v]] = NONE /\ c[j[v]] \subseteq c2[v]
    <3>1. v \in ChainOf(j2, t)
      BY <1>3, <2>3, PromisesAssumption
    <3>2. c[j[v]] \subseteq K /\ j[v] \in Threads
      BY <1>1, <2>3, <3>1
    <3> QED BY <2>3, <3>2
  <2> QED BY <2>1, <2>2, <2>3
<1> HIDE DEF T
<1>4. ChainOf(j, t) \subseteq T
  BY <1>2, <1>3, ChainFacts
<1>5. \A u \in ChainOf(j, t) \ {NONE} : c[u] \subseteq K
  BY <1>4 DEF T
<1> QED BY <1>5 DEF KnownBy
-----------------------------------------------------------------------------
(***************************************************************************)
(* Elimination.                                                            *)
(***************************************************************************)
\* Of ps, only threads that may keep a promise are gone in qs.
Narrowed(ps, qs) ==
    /\ qs \in Seq(PromiseSet) /\ DOMAIN qs = DOMAIN ps
    /\ \A k \in DOMAIN ps : /\ qs[k].id = ps[k].id /\ qs[k].val = ps[k].val
                            /\ qs[k].readers = ps[k].readers /\ qs[k].was = ps[k].was
                            /\ qs[k].available \subseteq ps[k].available

LEMMA WithoutFacts ==
    ASSUME NEW p \in PromiseSet, NEW q, NEW B, q = [p EXCEPT !.available = @ \ B]
    PROVE  /\ q \in PromiseSet
           /\ q.id = p.id /\ q.val = p.val /\ q.readers = p.readers /\ q.was = p.was
           /\ q.available = p.available \ B
BY DEF PromiseSet

Lessened(p, q) == q = p \/ \E B : q = [p EXCEPT !.available = @ \ B]
Function(g, D) == g = [x \in D |-> g[x]]

LEMMA LessenedIs ==
    ASSUME NEW p \in PromiseSet, NEW q, Lessened(p, q)
    PROVE  /\ q \in PromiseSet
           /\ q.id = p.id /\ q.val = p.val /\ q.readers = p.readers /\ q.was = p.was
           /\ q.available \subseteq p.available
<1>1. CASE q = p
  BY <1>1
<1>2. CASE \E B : q = [p EXCEPT !.available = @ \ B]
  <2>1. PICK B : q = [p EXCEPT !.available = @ \ B]
    BY <1>2
  <2>2. /\ q \in PromiseSet
        /\ q.id = p.id /\ q.val = p.val /\ q.readers = p.readers /\ q.was = p.was
        /\ q.available = p.available \ B
    BY <2>1, WithoutFacts
  <2> QED BY <2>2
<1> QED BY <1>1, <1>2 DEF Lessened

LEMMA NarrowedIs ==
    ASSUME NEW ps \in Seq(PromiseSet), NEW qs, Function(qs, DOMAIN ps),
           \A k \in DOMAIN ps : Lessened(ps[k], qs[k])
    PROVE  Narrowed(ps, qs)
<1>1. \A k \in DOMAIN ps : ps[k] \in PromiseSet
  OBVIOUS
<1>2. ASSUME NEW k \in DOMAIN ps
      PROVE  /\ qs[k] \in PromiseSet
             /\ qs[k].id = ps[k].id /\ qs[k].val = ps[k].val
             /\ qs[k].readers = ps[k].readers /\ qs[k].was = ps[k].was
             /\ qs[k].available \subseteq ps[k].available
  BY <1>1, LessenedIs
<1>3. DOMAIN ps = 1..Len(ps) /\ Len(ps) \in Nat
  OBVIOUS
<1>4. qs \in [1..Len(ps) -> PromiseSet]
  BY <1>2, <1>3 DEF Function
<1>5. qs \in Seq(PromiseSet) /\ DOMAIN qs = DOMAIN ps
  BY <1>3, <1>4
<1> QED BY <1>2, <1>5 DEF Narrowed

LEMMA NarrowedSame ==
    ASSUME NEW tr, NEW kn, NEW ps, Fitting(tr, kn, ps), NEW qs, Narrowed(ps, qs)
    PROVE  /\ Fitting(tr, kn, qs)
           /\ Ids(qs) = Ids(ps)
           /\ \A f : Coh(tr, kn, qs, f) = Coh(tr, kn, ps, f)
           /\ \A st, f : Completing(tr, kn, qs, st, f) <=> Completing(tr, kn, ps, st, f)
<1>1. Ids(qs) = Ids(ps)
  BY DEF Ids, Narrowed
<1>2. ReadsOf(tr, qs)
  BY <1>1 DEF ReadsOf, Narrowed, Fitting
<1>3. \A f : Coh(tr, kn, qs, f) = Coh(tr, kn, ps, f)
  BY DEF Coh, Narrowed
<1>4. ASSUME NEW st, NEW f PROVE Completing(tr, kn, qs, st, f) <=> Completing(tr, kn, ps, st, f)
  <2>1. \A k \in DOMAIN ps : AbleIn(qs[k], f[k], kn, st) <=> AbleIn(ps[k], f[k], kn, st)
    BY DEF AbleIn, Narrowed
  <2>2. DOMAIN qs = DOMAIN ps
    BY DEF Narrowed
  <2> QED BY <1>3, <2>1, <2>2, Zenon DEF Completing
<1>5. Fitting(tr, kn, qs)
  BY <1>2 DEF Fitting, Narrowed
<1> QED BY <1>1, <1>3, <1>4, <1>5

LEMMA CheckShape ==
    ASSUME NEW tr, NEW E, NEW ps \in Seq(PromiseSet), NEW act, NEW w
    PROVE  /\ Narrowed(ps, mo_check_promises(tr, E, ps, act, w).promises)
           /\ mo_check_promises(tr, E, ps, act, w).hard \in BOOLEAN
<1> DEFINE qs == mo_check_promises(tr, E, ps, act, w).promises
           B == BehindStores(tr, E, w)
<1>1. Function(qs, DOMAIN ps)
  BY DEF mo_check_promises, Function
<1>2. mo_check_promises(tr, E, ps, act, w).hard \in BOOLEAN
  BY DEF mo_check_promises
<1>3. \A k \in DOMAIN ps : qs[k] = ps[k] \/ qs[k] = [ps[k] EXCEPT !.available = @ \ B]
  BY DEF mo_check_promises
<1> HIDE DEF qs, B
<1>4. \A k \in DOMAIN ps : Lessened(ps[k], qs[k])
  BY <1>3 DEF Lessened
<1>5. Narrowed(ps, qs)
  BY <1>1, <1>4, NarrowedIs
<1> QED BY <1>2, <1>5 DEF qs

\* A completion that obeys modification order E keeps its promises by threads
\* that the check leaves, and the check does not fail.
LEMMA CheckSound ==
    ASSUME NEW tr, NEW kn, NEW ps, NEW st, Fitting(tr, kn, ps),
           \A i \in DOMAIN tr : i \in kn[tr[i].tid],
           NEW f, Completing(tr, kn, ps, st, f), \A k \in DOMAIN ps : f[k] \in ps[k].available,
           NEW E, E \subseteq Coh(tr, kn, ps, f),
           NEW a \in DOMAIN tr, NEW w, w \in Stores(tr), StoreIn(tr, a) = w,
           NEW tr1, \A n \in Stores(tr) : tr1[n].tid = tr[n].tid,
           NEW r, r = mo_check_promises(tr1, E, ps, tr[a], w)
    PROVE  ~r.hard /\ \A k \in DOMAIN ps : f[k] \in r.promises[k].available
<1> DEFINE C == Coh(tr, kn, ps, f)
           M == Stores(tr) \cup Ids(ps)
           act == tr[a]
           Precedes(p) == \/ ToSet(p.readers) \cap act.hb # {}
                          \/ act.tid \in p.available /\ w \in Reach(E, Node(p.id))
<1>1. f \in [DOMAIN ps -> Threads] /\ ~HasCycle(C)
  BY DEF Completing
<1>2. IsFiniteSet(C) /\ C \subseteq M \X M
  BY <1>1, CohFacts
<1>3. IsFiniteSet(E) /\ E \subseteq M \X M
  <2>1. E \in SUBSET C
    OBVIOUS
  <2> HIDE DEF C, M
  <2> QED BY <1>2, <2>1, FS_Subset
<1>4. w \in DOMAIN tr /\ w \in 1..Len(tr) /\ Len(tr) \in Nat /\ StoreIn(tr, w) = w
  BY DEF Stores, Fitting, StoreIn
<1>5. ASSUME NEW k \in DOMAIN ps
      PROVE  ps[k] \in PromiseSet /\ Node(ps[k].id) < 0 /\ Node(ps[k].id) \in Int /\ Node(ps[k].id) # w
  <2>1. ps[k] \in PromiseSet
    BY DEF Fitting
  <2>2. ps[k].id \in Nat \ {0}
    BY <2>1 DEF PromiseSet
  <2>3. Node(ps[k].id) < 0 /\ Node(ps[k].id) \in Int
    BY <2>2 DEF Node
  <2> QED BY <1>4, <2>1, <2>3
<1>6. ASSUME NEW k \in DOMAIN ps, Precedes(ps[k]) PROVE w \in Reach(C, Node(ps[k].id))
  <2>1. CASE ToSet(ps[k].readers) \cap act.hb # {}
    <3>1. PICK i \in ToSet(ps[k].readers) : i \in act.hb
      BY <2>1
    <3>2. i \in DOMAIN tr /\ tr[i].rf = Node(ps[k].id)
      BY <3>1 DEF Fitting, ReadsOf
    <3>3. StoreIn(tr, i) = Node(ps[k].id)
      <4>1. tr[i].op = "W" => tr[i].rf = NONE
        BY <3>2 DEF Fitting, ReadsOf
      <4>2. tr[i].op # "W"
        BY <1>5, <3>2, <4>1, PromisesAssumption
      <4> QED BY <3>2, <4>2 DEF StoreIn
    <3>4. <<Node(ps[k].id), w>> \in C
      <4>1. StoreIn(tr, i) # StoreIn(tr, a)
        BY <1>5, <3>3
      <4>2. <<StoreIn(tr, i), StoreIn(tr, a)>> \in C
        BY <1>1, <3>1, <3>2, <4>1, CohFacts
      <4> QED BY <3>3, <4>2
    <3> DEFINE e == <<Node(ps[k].id), w>>
    <3>5. e \in C /\ e[1] = Node(ps[k].id) /\ e[2] = w
      BY <3>4
    <3> HIDE DEF e, C
    <3> QED BY <1>2, <3>5, ReachFacts
  <2>2. CASE w \in Reach(E, Node(ps[k].id))
    <3> HIDE DEF C, M
    <3> QED BY <1>2, <1>3, <2>2, ReachMore DEF C
  <2> QED BY <1>6, <2>1, <2>2
<1>7. ASSUME NEW k \in DOMAIN ps, Precedes(ps[k]) PROVE Node(ps[k].id) \notin Reach(E, w)
  <2>1. SUFFICES ASSUME Node(ps[k].id) \in Reach(E, w) PROVE FALSE
    OBVIOUS
  <2>2. w \in Reach(C, Node(ps[k].id)) /\ Node(ps[k].id) # w
    BY <1>5, <1>6, <1>7
  <2>3. Node(ps[k].id) \in Reach(C, w)
    <3> HIDE DEF C, M
    <3> QED BY <1>2, <1>3, <2>1, ReachMore DEF C
  <2> HIDE DEF C
  <2> QED BY <1>1, <1>2, <2>2, <2>3, RoundTrip
<1>8. ASSUME NEW k \in DOMAIN ps, Precedes(ps[k]) PROVE f[k] \notin BehindStores(tr1, E, w)
  <2>1. SUFFICES ASSUME f[k] \in BehindStores(tr1, E, w) PROVE FALSE
    OBVIOUS
  <2>2. PICK n \in Reach(E, w) : ~IsPromise(n) /\ tr1[n].tid = f[k]
    BY <2>1 DEF BehindStores
  <2>3. n \in M
    <3>1. w \in M /\ \A e \in E : e[1] \in M => e[2] \in M
      BY <1>3
    <3> HIDE DEF M
    <3>2. Reach(E, w) \subseteq M
      BY <1>3, <3>1, ReachFacts
    <3> QED BY <2>2, <3>2
  <2>4. n \in Stores(tr)
    <3>1. n \notin Ids(ps)
      BY <1>5, <2>2 DEF Ids, IsPromise
    <3> QED BY <2>3, <3>1
  <2>5. n \in DOMAIN tr /\ StoreIn(tr, n) = n /\ n \in kn[f[k]]
    <3>1. tr[n].tid = f[k]
      BY <2>2, <2>4
    <3> QED BY <2>4, <3>1 DEF Stores, StoreIn
  <2>6. <<StoreIn(tr, n), Node(ps[k].id)>> \in C
    BY <1>1, <2>5, CohFacts
  <2> DEFINE e == <<n, Node(ps[k].id)>>
  <2>7. e \in C /\ e[1] = n /\ e[2] = Node(ps[k].id)
    BY <2>5, <2>6
  <2> HIDE DEF e, C
  <2>8. n \in Reach(C, w)
    BY <1>2, <1>3, <2>2, ReachMore DEF C
  <2>9. Node(ps[k].id) \in Reach(C, w)
    BY <1>2, <2>7, <2>8, ReachFacts
  <2>10. w \in Reach(C, Node(ps[k].id)) /\ Node(ps[k].id) # w
    BY <1>5, <1>6, <1>8
  <2> QED BY <1>1, <1>2, <2>9, <2>10, RoundTrip
<1>9. ~r.hard
  BY <1>7 DEF mo_check_promises
<1>10. ASSUME NEW k \in DOMAIN ps PROVE f[k] \in r.promises[k].available
  <2>1. \/ r.promises[k] = ps[k]
        \/ Precedes(ps[k]) /\ r.promises[k] = [ps[k] EXCEPT !.available = @ \ BehindStores(tr1, E, w)]
    BY DEF mo_check_promises
  <2>2. CASE r.promises[k] = ps[k]
    BY <2>2
  <2>3. CASE Precedes(ps[k]) /\ r.promises[k] = [ps[k] EXCEPT !.available = @ \ BehindStores(tr1, E, w)]
    <3>1. f[k] \notin BehindStores(tr1, E, w)
      BY <1>8, <2>3
    <3>2. r.promises[k].available = ps[k].available \ BehindStores(tr1, E, w)
      <4> DEFINE q == r.promises[k]
                 p == ps[k]
                 B == BehindStores(tr1, E, w)
      <4>1. p \in PromiseSet /\ q = [p EXCEPT !.available = @ \ B]
        BY <1>5, <2>3
      <4> HIDE DEF p, q, B
      <4>2. q.available = p.available \ B
        BY <4>1, WithoutFacts
      <4> QED BY <4>2 DEF p, q, B
    <3> QED BY <3>1, <3>2
  <2> QED BY <2>1, <2>2, <2>3
<1> QED BY <1>9, <1>10
-----------------------------------------------------------------------------
(***************************************************************************)
(* The invariant, over what the definitions above are about.               *)
(***************************************************************************)
LEMMA KnowledgeFacts ==
    ASSUME Types, Clocks, Reads
    PROVE  /\ Fitting(trace, Knowledge, promises)
           /\ \A t \in Threads : cv[t] \subseteq Knowledge[t]
           /\ \A t \in Threads : joining[t] = NONE => Knowledge[t] = cv[t]
           /\ \A i \in DOMAIN trace : i \in Knowledge[trace[i].tid]
<1> DEFINE D == DOMAIN trace
<1>1. cv \in [Threads -> SUBSET D] /\ joining \in [Threads -> Threads \cup {NONE}]
  BY DEF Types, Clocks, Closed
<1> HIDE DEF D
<1>2. ASSUME NEW t \in Threads
      PROVE  /\ cv[t] \subseteq Knowledge[t] /\ Knowledge[t] \in SUBSET D
             /\ joining[t] = NONE => Knowledge[t] = cv[t]
  BY <1>1, KnownFacts, KnowsIs DEF Knowledge
<1>3. Knowledge \in [Threads -> SUBSET D]
  BY <1>2 DEF Knowledge
<1>4. Fitting(trace, Knowledge, promises)
  BY <1>3 DEF Fitting, Types, Reads, D
<1>5. ASSUME NEW i \in DOMAIN trace PROVE i \in Knowledge[trace[i].tid]
  <2>0. trace[i] \in Actions
    BY DEF Types
  <2>1. trace[i].tid \in Threads
    BY <2>0 DEF Actions
  <2> QED BY <1>2, <2>1 DEF Clocks
<1> QED BY <1>2, <1>4, <1>5

LEMMA CoherenceIs ==
    ASSUME Fitting(trace, Knowledge, promises), NEW f \in [DOMAIN promises -> Threads]
    PROVE  Coherence(f) = Coh(trace, Knowledge, promises, f)
<1>1. \A i : Store(i) = StoreIn(trace, i)
  BY DEF Store, StoreIn
<1>2. \A k \in DOMAIN promises : Knows(f[k]) = Knowledge[f[k]] /\ Knows(f[k]) \subseteq DOMAIN trace
  BY DEF Fitting, Knowledge
<1>3. /\ \A i \in DOMAIN trace : StoreIn(trace, i) \in Int
      /\ \A k \in DOMAIN promises : Node(promises[k].id) \in Int
  BY NodeNumbers DEF Fitting, Ids
<1>4. ASSUME NEW e \in Coherence(f) PROVE e \in Coh(trace, Knowledge, promises, f)
  BY <1>1, <1>2, <1>3, <1>4 DEF Coherence, Coh
<1>5. ASSUME NEW e \in Coh(trace, Knowledge, promises, f) PROVE e \in Coherence(f)
  <2>1. CASE \E i, j \in DOMAIN trace : /\ i \in trace[j].hb /\ StoreIn(trace, i) # StoreIn(trace, j)
                                        /\ e = <<StoreIn(trace, i), StoreIn(trace, j)>>
    <3>1. PICK i, j \in DOMAIN trace : /\ i \in trace[j].hb /\ StoreIn(trace, i) # StoreIn(trace, j)
                                       /\ e = <<StoreIn(trace, i), StoreIn(trace, j)>>
      BY <2>1
    <3> DEFINE y == <<i, j>>
    <3>2. /\ y \in (DOMAIN trace) \X (DOMAIN trace) /\ y[1] \in trace[y[2]].hb
          /\ Store(y[1]) # Store(y[2]) /\ e = <<Store(y[1]), Store(y[2])>>
      BY <1>1, <3>1
    <3> HIDE DEF y
    <3> QED BY <3>2 DEF Coherence
  <2>2. CASE \E k \in DOMAIN promises : \E i \in Knowledge[f[k]] :
                                          e = <<StoreIn(trace, i), Node(promises[k].id)>>
    BY <1>1, <1>2, <2>2 DEF Coherence
  <2> QED BY <1>5, <2>1, <2>2 DEF Coh
<1> QED BY <1>4, <1>5

LEMMA CompletionsAre ==
    ASSUME Fitting(trace, Knowledge, promises)
    PROVE  Completions = {f \in [DOMAIN promises -> Threads] : Completing(trace, Knowledge, promises, state, f)}
<1> SUFFICES ASSUME NEW f \in [DOMAIN promises -> Threads]
             PROVE  Completes(f) <=> Completing(trace, Knowledge, promises, state, f)
  BY DEF Completions
<1>1. ASSUME NEW k \in DOMAIN promises
      PROVE  Able(promises[k], f[k]) <=> AbleIn(promises[k], f[k], Knowledge, state)
  BY DEF Able, AbleIn, Knowledge, ToSet
<1>2. Coherence(f) = Coh(trace, Knowledge, promises, f)
  BY CoherenceIs
<1> QED BY <1>1, <1>2, Zenon DEF Completes, Completing

\* Each edge of the modification order is one that a completion obeys.
LEMMA GroundedCoh ==
    ASSUME NEW tr, NEW kn, NEW ps, Fitting(tr, kn, ps),
           NEW c, \A t \in Threads : c[t] \subseteq kn[t],
           NEW E, GraphOf(tr, ps, E), Grounded(tr, ps, c, E),
           NEW f \in [DOMAIN ps -> Threads], \A k \in DOMAIN ps : f[k] \in ps[k].available
    PROVE  E \subseteq Coh(tr, kn, ps, f)
<1> SUFFICES ASSUME NEW e \in E PROVE e \in Coh(tr, kn, ps, f)
  OBVIOUS
<1>1. e = <<e[1], e[2]>>
  BY DEF GraphOf
<1>2. CASE Known(tr, e)
  <2>1. PICK i, j \in DOMAIN tr :
           i \in tr[j].hb /\ StoreIn(tr, i) = e[1] /\ StoreIn(tr, j) = e[2] /\ e[1] # e[2]
    BY <1>2 DEF Known
  <2>2. <<StoreIn(tr, i), StoreIn(tr, j)>> \in Coh(tr, kn, ps, f)
    BY <2>1, CohFacts
  <2> QED BY <1>1, <2>1, <2>2
<1>3. CASE Kept(tr, ps, c, e)
  <2>1. PICK k \in DOMAIN ps :
           e[2] = Node(ps[k].id) /\ \A u \in ps[k].available : \E i \in c[u] : StoreIn(tr, i) = e[1]
    BY <1>3 DEF Kept
  <2>2. f[k] \in Threads /\ f[k] \in ps[k].available
    OBVIOUS
  <2>3. PICK i \in c[f[k]] : StoreIn(tr, i) = e[1]
    BY <2>1, <2>2
  <2>4. <<StoreIn(tr, i), Node(ps[k].id)>> \in Coh(tr, kn, ps, f)
    BY <2>2, <2>3, CohFacts
  <2> QED BY <1>1, <2>1, <2>3, <2>4
<1> QED BY <1>2, <1>3 DEF Grounded

\* The same after a step.
KnowledgeFits ==
    /\ Fitting(trace, Knowledge, promises)
    /\ \A t \in Threads : cv[t] \subseteq Knowledge[t]
    /\ \A t \in Threads : joining[t] = NONE => Knowledge[t] = cv[t]
    /\ \A i \in DOMAIN trace : i \in Knowledge[trace[i].tid]
    /\ Completions = {f \in [DOMAIN promises -> Threads] :
                         Completing(trace, Knowledge, promises, state, f)}

LEMMA Afterwards ==
    /\ Types /\ Clocks /\ Reads => KnowledgeFits
    /\ Types' /\ Clocks' /\ Reads' => KnowledgeFits'
<1>1. Types /\ Clocks /\ Reads => KnowledgeFits
  BY KnowledgeFacts, CompletionsAre DEF KnowledgeFits
<1> QED BY <1>1, PTL
-----------------------------------------------------------------------------
(***************************************************************************)
(* What a step has to show of the completions that remain.                 *)
(***************************************************************************)
LEMMA NoCycle ==
    ASSUME KnowledgeFits, Graph, Hopeless, NEW f \in Completions
    PROVE  ~HasCycle(mo)
<1>1. f \in [DOMAIN promises -> Threads] /\ Completing(trace, Knowledge, promises, state, f)
  BY DEF KnowledgeFits
<1> DEFINE C == Coh(trace, Knowledge, promises, f)
<1>2. Fitting(trace, Knowledge, promises) /\ \A t \in Threads : cv[t] \subseteq Knowledge[t]
  BY DEF KnowledgeFits
<1>3. GraphOf(trace, promises, mo) /\ Grounded(trace, promises, cv, mo) /\ IsFiniteSet(mo)
  BY DEF Graph, GraphOf
<1>4. mo \subseteq C
  BY <1>1, <1>2, <1>3, GroundedCoh DEF Hopeless
<1>5. IsFiniteSet(C)
  BY <1>1, <1>2, CohFacts
<1>6. ~HasCycle(C)
  BY <1>1 DEF Completing
<1> HIDE DEF C
<1> QED BY <1>3, <1>4, <1>5, <1>6, ReachMore

Acyclic == \A f \in Completions : ~HasCycle(mo)

LEMMA NoCycleAfter ==
    KnowledgeFits' /\ Graph' /\ Hopeless' => Acyclic'
<1>1. KnowledgeFits /\ Graph /\ Hopeless => Acyclic
  BY NoCycle DEF Acyclic
<1> QED BY <1>1, PTL

LEMMA Remaining ==
    ASSUME Types', Clocks', Reads', Graph', GivenUp,
           \A g \in Completions' :
              /\ Completions # {}
              /\ \A k \in DOMAIN promises' : g[k] \in promises'[k].available
              /\ ~hard_failed_promise',
           failed_promise' => failed_promise \/ \E k \in DOMAIN promises' : has_failed(promises'[k])
    PROVE  Hopeless' /\ GivenUp'
<1>1. KnowledgeFits'
  BY Afterwards
<1>2. Hopeless'
  BY DEF Hopeless
<1>3. ASSUME NEW g \in Completions' PROVE ~is_infeasible' /\ ~failed_promise'
  <2>1. ~HasCycle(mo')
    BY <1>1, <1>2, NoCycleAfter DEF Acyclic
  <2>2. ~is_infeasible'
    BY <2>1 DEF is_infeasible
  <2>3. ~failed_promise
    BY DEF GivenUp
  <2>4. \A k \in DOMAIN promises' : promises'[k].available # {}
    OBVIOUS
  <2> QED BY <2>2, <2>3, <2>4 DEF has_failed
<1> QED BY <1>2, <1>3 DEF GivenUp

\* When the promises stay and more is known, what completes the execution
\* after the step did before.
LEMMA Transfer ==
    ASSUME KnowledgeFits, KnowledgeFits', Hopeless,
           Continues(trace, Knowledge, promises, state, trace', Knowledge', promises', state'),
           NEW g \in Completions'
    PROVE  /\ Completions # {}
           /\ Completing(trace', Knowledge', promises', state', g)
           /\ \A k \in DOMAIN promises : g[k] \in promises[k].available
<1> DEFINE f == [k \in DOMAIN promises |-> g[k]]
<1>1. Completing(trace', Knowledge', promises', state', g)
  BY DEF KnowledgeFits
<1>2. Fitting(trace, Knowledge, promises) /\ Fitting(trace', Knowledge', promises')
  BY DEF KnowledgeFits
<1>3. Completing(trace, Knowledge, promises, state, f)
  BY <1>1, <1>2, SameCompletions
<1>4. f \in Completions
  <2> HIDE DEF f
  <2> QED BY <1>3 DEF KnowledgeFits, Completing
<1> QED BY <1>1, <1>4 DEF Hopeless
-----------------------------------------------------------------------------
(***************************************************************************)
(* An access.                                                              *)
(***************************************************************************)
\* Trace tr goes on with one more action, of thread t; others may change what they read.
Goes(tr, tr2, t, h) ==
    /\ tr2 \in Seq(Actions) /\ Len(tr2) = Len(tr) + 1
    /\ tr2[Len(tr) + 1].tid = t /\ tr2[Len(tr) + 1].hb = h
    /\ \A i \in DOMAIN tr : tr2[i].tid = tr[i].tid /\ tr2[i].hb = tr[i].hb /\ tr2[i].op = tr[i].op

Longer(tr, tr2, t, h, n) ==
    /\ n \in Nat \ {0} /\ n \notin DOMAIN tr /\ DOMAIN tr2 = DOMAIN tr \cup {n}
    /\ DOMAIN tr2 = 1..n /\ DOMAIN tr \subseteq 1..n /\ DOMAIN tr \subseteq Nat
    /\ \A i \in DOMAIN tr : ~(n \in 1..i) /\ 1..i \subseteq DOMAIN tr
    /\ tr2[n].tid = t /\ tr2[n].hb = h

LEMMA GoesTo ==
    ASSUME NEW tr \in Seq(Actions), NEW tr2, NEW t, NEW h, Goes(tr, tr2, t, h), NEW n, n = Len(tr) + 1
    PROVE  Longer(tr, tr2, t, h, n)
<1>1. Len(tr) \in Nat /\ DOMAIN tr = 1..Len(tr) /\ DOMAIN tr2 = 1..n
  BY DEF Goes
<1>2. n \in Nat \ {0} /\ n \notin DOMAIN tr /\ DOMAIN tr2 = DOMAIN tr \cup {n} /\ DOMAIN tr \subseteq 1..n
  BY <1>1
<1>3. \A i \in DOMAIN tr : ~(n \in 1..i) /\ 1..i \subseteq DOMAIN tr
  BY <1>1
<1> QED BY <1>1, <1>2, <1>3 DEF Goes, Longer

LEMMA AccessClocks ==
    ASSUME Types, Waiting, Clocks, NEW t \in Threads, Accesses(t), Accessed(t),
           Goes(trace, trace', t, cv[t] \cup {Number})
    PROVE  /\ cv' \in [Threads -> SUBSET Nat] /\ state' = state /\ joining' = joining /\ released' = released
           /\ Len(trace') \in 1..MaxAccesses
           /\ state[t] = "ready" /\ joining[t] = NONE
           /\ \A u \in Threads : cv[u] \subseteq cv'[u]
           /\ cv'[t] = cv[t] \cup {Number}
           /\ Waiting' /\ Clocks'
<1> DEFINE n == Number
           h == cv[t] \cup {n}
           D == DOMAIN trace
<1>1. n = Len(trace) + 1 /\ trace \in Seq(Actions) /\ Len(trace) \in Nat
  BY DEF Number, Types
<1>2. Goes(trace, trace', t, h)
  OBVIOUS
<1> HIDE DEF h
<1>3. /\ n \in Nat \ {0} /\ n \notin D /\ DOMAIN trace' = D \cup {n}
      /\ DOMAIN trace' = 1..n /\ D \subseteq 1..n /\ D \subseteq Nat
      /\ \A i \in D : ~(n \in 1..i) /\ 1..i \subseteq D
      /\ trace'[n].tid = t /\ trace'[n].hb = h
  <2> HIDE DEF n
  <2>1. Longer(trace, trace', t, h, n)
    BY <1>1, <1>2, GoesTo
  <2> QED BY <2>1 DEF Longer
<1>4. \A i \in D : trace'[i].tid = trace[i].tid /\ trace'[i].hb = trace[i].hb
  BY DEF Goes
<1>5. /\ \A u \in Threads : Closed(trace, cv[u])
      /\ cv \in [Threads -> SUBSET Nat]
  BY DEF Clocks, Types
<1>6. /\ cv' = [cv EXCEPT ![t] = @ \cup {n}]
      /\ state' = state /\ joining' = joining /\ released' = released
  BY DEF Accessed
<1>7. state[t] = "ready" /\ joining[t] = NONE
  BY DEF Accesses, CanRun
<1>8. /\ Len(trace') \in 1..MaxAccesses
  <2>1. IsFiniteSet(released)
    BY DEF Types
  <2>2. Cardinality(released) \in Nat
    BY <2>1, FS_CardinalityType
  <2>3. Len(trace') = Len(trace) + 1
    BY DEF Goes
  <2>4. Len(trace) + Cardinality(released) < MaxAccesses
    BY DEF Accesses
  <2> QED BY <1>1, <2>2, <2>3, <2>4, PromisesAssumption
<1> HIDE DEF n, D
<1>9. /\ cv' \in [Threads -> SUBSET Nat] /\ cv'[t] = cv[t] \cup {n}
      /\ \A u \in Threads \ {t} : cv'[u] = cv[u]
  BY <1>3, <1>5, <1>6
<1>10. Waiting'
  <2>1. \A u \in Threads : state[u] = "new" => cv'[u] = {}
    BY <1>7, <1>9 DEF Waiting
  <2> QED BY <1>6, <2>1 DEF Waiting
<1>11. ASSUME NEW S, Closed(trace, S) PROVE Closed(trace', S)
  BY <1>3, <1>4, <1>11 DEF Closed, D
<1>12. Closed(trace', h)
  <2>1. Closed(trace, cv[t])
    BY <1>5
  <2> QED BY <1>3, <1>4, <2>1 DEF Closed, D, h
<1>13. ASSUME NEW i \in DOMAIN trace'
       PROVE  /\ Closed(trace', trace'[i].hb) /\ trace'[i].hb \subseteq 1..i /\ i \in trace'[i].hb
              /\ \A j \in 1..i : trace'[j].tid = trace'[i].tid => j \in trace'[i].hb
              /\ i \in cv'[trace'[i].tid]
  <2>1. CASE i = n
    <3>1. h \subseteq 1..n /\ n \in h
      BY <1>3, <1>5 DEF Closed, D, h
    <3>2. ASSUME NEW j \in 1..n, trace'[j].tid = t PROVE j \in h
      <4>1. CASE j = n
        BY <4>1 DEF h
      <4>2. CASE j \in D
        <5>1. trace[j].tid = t
          BY <1>4, <3>2, <4>2
        <5>2. j \in cv[t]
          BY <4>2, <5>1 DEF Clocks, D
        <5> QED BY <5>2 DEF h
      <4> QED BY <1>3, <4>1, <4>2
    <3>3. n \in cv'[t]
      BY <1>9
    <3> QED BY <1>3, <1>12, <2>1, <3>1, <3>2, <3>3
  <2>2. CASE i \in D
    <3>1. /\ Closed(trace, trace[i].hb) /\ trace[i].hb \subseteq 1..i /\ i \in trace[i].hb
          /\ \A j \in 1..i : trace[j].tid = trace[i].tid => j \in trace[i].hb
          /\ i \in cv[trace[i].tid]
      BY <2>2 DEF Clocks, D
    <3>2. trace[i].tid \in Threads
      <4>1. trace[i] \in Actions
        BY <1>1, <2>2 DEF D
      <4> QED BY <4>1 DEF Actions
    <3>3. \A j \in 1..i : trace'[j].tid = trace[j].tid
      BY <1>3, <1>4, <2>2
    <3>4. i \in cv'[trace[i].tid]
      BY <1>9, <3>1, <3>2
    <3> QED BY <1>4, <1>11, <2>2, <3>1, <3>3, <3>4
  <2> QED BY <1>3, <2>1, <2>2
<1>14. \A u \in Threads : Closed(trace', cv'[u])
  BY <1>5, <1>9, <1>11, <1>12 DEF h
<1>15. \A r \in released : Closed(trace', r.cv) /\ r.cv \subseteq cv'[r.tid]
  <2>1. \A r \in released : r.tid \in Threads
    BY DEF Types, Releases
  <2> QED BY <1>9, <1>11, <2>1 DEF Clocks
<1>16. Clocks'
  BY <1>6, <1>13, <1>14, <1>15 DEF Clocks
<1> QED BY <1>6, <1>7, <1>8, <1>9, <1>10, <1>16 DEF n
\* Of what is known, each thread's last action knows the others.
Lasts(tr, S) == {i \in S : \A j \in S : tr[j].tid = tr[i].tid => j <= i}
KnowsOwn(tr) == \A i \in DOMAIN tr : \A j \in 1..i : tr[j].tid = tr[i].tid => j \in tr[i].hb

LEMMA LastFacts ==
    ASSUME NEW tr \in Seq(Actions), KnowsOwn(tr), NEW S \in SUBSET (DOMAIN tr), NEW i \in S
    PROVE  \E m \in Lasts(tr, S) : i \in tr[m].hb
<1> DEFINE N == Len(tr)
           B == {j \in S : tr[j].tid = tr[i].tid}
           A == {N - j : j \in B}
<1>1. N \in Nat /\ DOMAIN tr = 1..N /\ S \subseteq 1..N
  OBVIOUS
<1> HIDE DEF N
<1>2. A \in SUBSET Nat /\ N - i \in A
  BY <1>1
<1>3. PICK x \in A : \A y \in A : x <= y
  <2> HIDE DEF A
  <2> QED BY <1>2, Least
<1>4. PICK m \in B : x = N - m
  OBVIOUS
<1>5. ASSUME NEW j \in B PROVE j <= m
  <2>1. N - m <= N - j
    BY <1>3, <1>4
  <2> QED BY <1>1, <2>1
<1>6. m \in Lasts(tr, S)
  BY <1>5 DEF Lasts
<1>7. i <= m /\ i \in 1..m
  BY <1>1, <1>5
<1> QED BY <1>1, <1>6, <1>7 DEF KnowsOwn

\* What the step of thread t that reads or writes node x adds to modification order E.
Adds(tr, ps, t, S, x, E, F) ==
    /\ E \subseteq F
    /\ \A i \in Lasts(tr, S) : StoreIn(tr, i) # x => <<StoreIn(tr, i), x>> \in F
    /\ \A e \in F : \/ e \in E
                    \/ \E i \in S : StoreIn(tr, i) # x /\ e = <<StoreIn(tr, i), x>>
                    \/ \E k \in DOMAIN ps : /\ ps[k].available \subseteq {t} /\ Node(ps[k].id) # x
                                            /\ e = <<x, Node(ps[k].id)>>

\* The trace goes on with action n, about node x; the promises stay, new ones may come.
Follows(tr, ps, c, tr2, ps2, c2, n, x) ==
    /\ n \notin DOMAIN tr /\ DOMAIN tr2 = DOMAIN tr \cup {n} /\ StoreIn(tr2, n) = x
    /\ \A i \in DOMAIN tr : /\ tr2[i].hb = tr[i].hb /\ StoreIn(tr2, i) = StoreIn(tr, i)
                            /\ tr2[i].op = tr[i].op /\ tr[i].hb \subseteq DOMAIN tr
    /\ DOMAIN ps \subseteq DOMAIN ps2
    /\ \A k \in DOMAIN ps : ps2[k].id = ps[k].id /\ ps2[k].available \subseteq ps[k].available
    /\ \A u \in Threads : c[u] \subseteq DOMAIN tr /\ c[u] \subseteq c2[u]

GraphAt(tr, ps, c, E) == GraphOf(tr, ps, E) /\ Grounded(tr, ps, c, E) /\ Ordered(tr, E)

LEMMA AccessGraph ==
    ASSUME NEW tr \in Seq(Actions), NEW ps \in Seq(PromiseSet), NEW c, NEW E,
           NEW tr2 \in Seq(Actions), NEW ps2 \in Seq(PromiseSet), NEW c2, NEW F,
           NEW n, NEW x, NEW t \in Threads, Follows(tr, ps, c, tr2, ps2, c2, n, x),
           KnowsOwn(tr), tr2[n].hb = c[t] \cup {n}, n \in c2[t], ReadsOf(tr2, ps2),
           GraphOf(tr, ps, E), Grounded(tr, ps, c, E), Ordered(tr, E),
           Adds(tr, ps2, t, c[t], x, E, F)
    PROVE  GraphAt(tr2, ps2, c2, F)
<1> DEFINE M == Stores(tr) \cup Ids(ps)
           M2 == Stores(tr2) \cup Ids(ps2)
<1>1. M \subseteq M2
  <2>1. Stores(tr) \subseteq Stores(tr2)
    BY DEF Follows, Stores
  <2>2. Ids(ps) \subseteq Ids(ps2)
    BY DEF Follows, Ids
  <2> QED BY <2>1, <2>2
<1>2. IsFiniteSet(M2) /\ \A i \in DOMAIN tr2 : StoreIn(tr2, i) \in M2
  BY NodeNumbers
<1>3. x \in M2 /\ \A i \in DOMAIN tr : StoreIn(tr, i) \in M2
  BY <1>2 DEF Follows
<1>4. c[t] \subseteq DOMAIN tr
  BY DEF Follows
<1>5. \A k \in DOMAIN ps2 : Node(ps2[k].id) \in M2
  BY DEF Ids
<1>6. E \subseteq M \X M
  BY DEF GraphOf
<1> HIDE DEF M, M2
<1>7. F \in SUBSET (M2 \X M2)
  <2> SUFFICES ASSUME NEW e \in F PROVE e \in M2 \X M2
    OBVIOUS
  <2>1. \/ e \in E
        \/ \E i \in c[t] : e = <<StoreIn(tr, i), x>>
        \/ \E k \in DOMAIN ps2 : e = <<x, Node(ps2[k].id)>>
    BY DEF Adds
  <2> QED BY <1>1, <1>3, <1>4, <1>5, <1>6, <2>1
<1>8. IsFiniteSet(F)
  BY <1>2, <1>7, FS_Product, FS_Subset
<1>9. GraphOf(tr2, ps2, F)
  BY <1>7, <1>8 DEF GraphOf, M2
<1>10. ASSUME NEW e \in F PROVE Known(tr2, e) \/ Kept(tr2, ps2, c2, e)
  <2>1. CASE e \in E /\ Known(tr, e)
    <3>1. PICK i, j \in DOMAIN tr :
             i \in tr[j].hb /\ StoreIn(tr, i) = e[1] /\ StoreIn(tr, j) = e[2] /\ e[1] # e[2]
      BY <2>1 DEF Known
    <3>2. /\ i \in DOMAIN tr2 /\ j \in DOMAIN tr2 /\ i \in tr2[j].hb
          /\ StoreIn(tr2, i) = e[1] /\ StoreIn(tr2, j) = e[2]
      BY <3>1 DEF Follows
    <3> QED BY <3>1, <3>2 DEF Known
  <2>2. CASE e \in E /\ Kept(tr, ps, c, e)
    <3>1. PICK k \in DOMAIN ps : e[2] = Node(ps[k].id) /\ \A u \in ps[k].available :
                                   \E i \in c[u] : StoreIn(tr, i) = e[1] /\ e[1] # e[2]
      BY <2>2 DEF Kept
    <3>2. k \in DOMAIN ps2 /\ e[2] = Node(ps2[k].id) /\ ps2[k].available \subseteq ps[k].available
      BY <3>1 DEF Follows
    <3>3. ps2[k].available \subseteq Threads
      <4>1. ps2[k] \in PromiseSet
        BY <3>2
      <4> QED BY <4>1 DEF PromiseSet
    <3>4. ASSUME NEW u \in ps2[k].available
          PROVE  \E i \in c2[u] : StoreIn(tr2, i) = e[1] /\ e[1] # e[2]
      <4>1. u \in Threads /\ u \in ps[k].available
        BY <3>2, <3>3
      <4>2. PICK i \in c[u] : StoreIn(tr, i) = e[1] /\ e[1] # e[2]
        BY <3>1, <4>1
      <4>3. i \in c2[u] /\ StoreIn(tr2, i) = e[1]
        BY <4>1, <4>2 DEF Follows
      <4> QED BY <4>2, <4>3
    <3> QED BY <3>2, <3>4 DEF Kept
  <2>3. CASE \E i \in c[t] : StoreIn(tr, i) # x /\ e = <<StoreIn(tr, i), x>>
    <3>1. PICK i \in c[t] : StoreIn(tr, i) # x /\ e = <<StoreIn(tr, i), x>>
      BY <2>3
    <3>2. /\ i \in DOMAIN tr2 /\ n \in DOMAIN tr2 /\ i \in tr2[n].hb
          /\ StoreIn(tr2, i) = e[1] /\ StoreIn(tr2, n) = e[2] /\ e[1] # e[2]
      BY <1>4, <3>1 DEF Follows
    <3> QED BY <3>2 DEF Known
  <2>4. CASE \E k \in DOMAIN ps2 : /\ ps2[k].available \subseteq {t} /\ Node(ps2[k].id) # x
                                   /\ e = <<x, Node(ps2[k].id)>>
    <3>1. PICK k \in DOMAIN ps2 : /\ ps2[k].available \subseteq {t} /\ Node(ps2[k].id) # x
                                  /\ e = <<x, Node(ps2[k].id)>>
      BY <2>4
    <3>2. n \in c2[t] /\ StoreIn(tr2, n) = e[1] /\ e[1] # e[2] /\ e[2] = Node(ps2[k].id)
      BY <3>1 DEF Follows
    <3> QED BY <3>1, <3>2 DEF Kept
  <2> QED BY <2>1, <2>2, <2>3, <2>4 DEF Adds, Grounded
<1>11. ASSUME NEW i \in DOMAIN tr2, NEW j \in DOMAIN tr2, i \in tr2[j].hb
       PROVE  StoreIn(tr2, j) \in Reach(F, StoreIn(tr2, i))
  <2>1. IsFiniteSet(E) /\ E \subseteq F
    BY DEF GraphOf, Adds
  <2>2. CASE j \in DOMAIN tr
    <3>1. i \in DOMAIN tr /\ i \in tr[j].hb
      BY <1>11, <2>2 DEF Follows
    <3>2. StoreIn(tr, j) \in Reach(E, StoreIn(tr, i))
      BY <2>2, <3>1 DEF Ordered
    <3>3. StoreIn(tr, j) \in Reach(F, StoreIn(tr, i))
      BY <1>8, <2>1, <3>2, ReachMore
    <3> QED BY <2>2, <3>1, <3>3 DEF Follows
  <2>3. CASE j = n /\ i = n
    BY <1>8, <2>3, ReachFacts
  <2>4. CASE j = n /\ i # n
    <3>1. i \in c[t] /\ i \in DOMAIN tr
      BY <1>4, <1>11, <2>4
    <3>2. PICK m \in Lasts(tr, c[t]) : i \in tr[m].hb
      BY <1>4, <3>1, LastFacts
    <3>3. m \in c[t] /\ m \in DOMAIN tr
      BY <1>4 DEF Lasts
    <3>4. StoreIn(tr, m) \in Reach(E, StoreIn(tr, i))
      BY <3>1, <3>2, <3>3 DEF Ordered
    <3>5. StoreIn(tr, m) \in Reach(F, StoreIn(tr, i))
      BY <1>8, <2>1, <3>4, ReachMore
    <3>6. x \in Reach(F, StoreIn(tr, i))
      <4>1. CASE StoreIn(tr, m) = x
        BY <3>5, <4>1
      <4>2. CASE StoreIn(tr, m) # x
        <5> DEFINE e == <<StoreIn(tr, m), x>>
        <5>1. e \in F /\ e[1] = StoreIn(tr, m) /\ e[2] = x
          BY <4>2 DEF Adds
        <5> HIDE DEF e
        <5> QED BY <1>8, <3>5, <5>1, ReachFacts
      <4> QED BY <4>1, <4>2
    <3>7. StoreIn(tr2, i) = StoreIn(tr, i) /\ StoreIn(tr2, j) = x
      BY <2>4, <3>1 DEF Follows
    <3> QED BY <3>6, <3>7
  <2>5. j \in DOMAIN tr \/ j = n
    BY DEF Follows
  <2> QED BY <2>2, <2>3, <2>4, <2>5
<1> QED BY <1>9, <1>10, <1>11 DEF Grounded, Ordered, GraphAt

\* Modification order stays what it says when promises lose threads, or get one
\* that knows what another knew.
LEMMA GraphKeeps ==
    ASSUME NEW tr, NEW ps, NEW c, NEW E, GraphOf(tr, ps, E), Grounded(tr, ps, c, E),
           NEW qs, NEW c2, DOMAIN qs = DOMAIN ps,
           \A k \in DOMAIN ps : /\ qs[k].id = ps[k].id
                                /\ \A u \in qs[k].available : \E v \in ps[k].available : c[v] \subseteq c2[u]
    PROVE  GraphOf(tr, qs, E) /\ Grounded(tr, qs, c2, E)
<1>1. Ids(qs) = Ids(ps)
  BY DEF Ids
<1>2. ASSUME NEW e \in E, Kept(tr, ps, c, e) PROVE Kept(tr, qs, c2, e)
  <2>1. PICK k \in DOMAIN ps : e[2] = Node(ps[k].id) /\ \A u \in ps[k].available :
                                 \E i \in c[u] : StoreIn(tr, i) = e[1] /\ e[1] # e[2]
    BY <1>2 DEF Kept
  <2>2. ASSUME NEW u \in qs[k].available PROVE \E i \in c2[u] : StoreIn(tr, i) = e[1] /\ e[1] # e[2]
    <3>1. PICK v \in ps[k].available : c[v] \subseteq c2[u]
      OBVIOUS
    <3> QED BY <2>1, <3>1
  <2> QED BY <2>1, <2>2 DEF Kept
<1> QED BY <1>1, <1>2 DEF GraphOf, Grounded
-----------------------------------------------------------------------------
(***************************************************************************)
(* Loads of past stores, and stores that keep no promise.                  *)
(***************************************************************************)
LEMMA KnowledgeGrows ==
    ASSUME NEW D, cv \in [Threads -> SUBSET D], joining \in [Threads -> Threads \cup {NONE}],
           cv' \in [Threads -> SUBSET D], joining' \in [Threads -> Threads \cup {NONE}],
           \A v \in Threads :
              /\ cv[v] \subseteq cv'[v]
              /\ \/ joining'[v] = joining[v]
                 \/ joining[v] = NONE
                 \/ joining[joining[v]] = NONE /\ cv[joining[v]] \subseteq cv'[v]
    PROVE  \A t \in Threads : Knowledge[t] \subseteq Knowledge'[t]
<1> SUFFICES ASSUME NEW t \in Threads PROVE Knowledge[t] \subseteq Knowledge'[t]
  OBVIOUS
<1>1. KnownBy(cv, joining, t) \subseteq KnownBy(cv', joining', t)
  BY KnownGrows
<1>2. Knowledge[t] = KnownBy(cv, joining, t) /\ Knowledge'[t] = KnownBy(cv', joining', t)
  BY KnowsIs DEF Knowledge
<1> QED BY <1>1, <1>2

LEMMA NarrowedReads ==
    ASSUME NEW tr, NEW ps, NEW qs, NEW st, NEW n, Narrowed(ps, qs)
    PROVE  /\ ReadsOf(tr, ps) => ReadsOf(tr, qs)
           /\ Available(ps, st) => Available(qs, st)
           /\ Named(ps, n) => Named(qs, n)
<1>1. Ids(qs) = Ids(ps)
  BY DEF Ids, Narrowed
<1>2. ReadsOf(tr, ps) => ReadsOf(tr, qs)
  BY <1>1 DEF ReadsOf, Narrowed
<1>3. Available(ps, st) => Available(qs, st)
  BY DEF Available, Narrowed
<1>4. Named(ps, n) => Named(qs, n)
  BY DEF Named, Narrowed
<1> QED BY <1>2, <1>3, <1>4

LEMMA NarrowedGraph ==
    ASSUME NEW tr, NEW ps, NEW c, NEW E, GraphOf(tr, ps, E), Grounded(tr, ps, c, E),
           NEW qs, NEW c2, Narrowed(ps, qs), ps \in Seq(PromiseSet), \A u \in Threads : c[u] \subseteq c2[u]
    PROVE  GraphOf(tr, qs, E) /\ Grounded(tr, qs, c2, E)
<1>1. DOMAIN qs = DOMAIN ps
  BY DEF Narrowed
<1>2. ASSUME NEW k \in DOMAIN ps
      PROVE  /\ qs[k].id = ps[k].id
             /\ \A u \in qs[k].available : \E v \in ps[k].available : c[v] \subseteq c2[u]
  <2>1. ps[k] \in PromiseSet
    OBVIOUS
  <2>2. ps[k].available \subseteq Threads
    BY <2>1 DEF PromiseSet
  <2> QED BY <2>2 DEF Narrowed
<1> QED BY <1>1, <1>2, GraphKeeps

LEMMA CheckStep ==
    ASSUME PInv, NEW t \in Threads, Accesses(t), Accessed(t),
           Goes(trace, trace', t, cv[t] \cup {Number}),
           NEW w \in Stores(trace'), ReadsOf(trace', promises),
           Follows(trace, promises, cv, trace', promises, cv', Number, w),
           Adds(trace, promises, t, cv[t], w, mo, mo'),
           NEW tr1, \A n \in Stores(trace') : tr1[n].tid = trace'[n].tid,
           NEW r, r = mo_check_promises(tr1, mo', promises, trace'[Number], w),
           promises' = r.promises, hard_failed_promise' = r.hard,
           made' = made, failed_promise' = failed_promise
    PROVE  PInv'
<1>1. Types /\ Waiting /\ Clocks /\ Reads /\ Graph /\ Hopeless /\ GivenUp /\ KnowledgeFits
  BY Afterwards DEF PInv
<1>2. /\ cv' \in [Threads -> SUBSET Nat] /\ state' = state /\ joining' = joining /\ released' = released
      /\ Len(trace') \in 1..MaxAccesses
      /\ state[t] = "ready" /\ joining[t] = NONE
      /\ \A u \in Threads : cv[u] \subseteq cv'[u]
      /\ cv'[t] = cv[t] \cup {Number}
      /\ Waiting' /\ Clocks'
  BY <1>1, AccessClocks
<1>3. trace \in Seq(Actions) /\ trace' \in Seq(Actions) /\ promises \in Seq(PromiseSet)
  BY <1>1 DEF Goes, Types
<1>4. Narrowed(promises, promises') /\ r.hard \in BOOLEAN
  BY <1>3, CheckShape
<1>5. Types'
  BY <1>1, <1>2, <1>3, <1>4 DEF Types, Narrowed
<1>6. Reads'
  BY <1>1, <1>2, <1>4, NarrowedReads DEF Reads
<1>7. trace'[Number].hb = cv[t] \cup {Number} /\ KnowsOwn(trace)
  BY <1>1 DEF Goes, Number, Clocks, KnowsOwn
<1>8. GraphOf(trace', promises, mo') /\ Grounded(trace', promises, cv', mo') /\ Ordered(trace', mo')
  BY <1>1, <1>2, <1>3, <1>7, AccessGraph DEF Graph, GraphAt
<1>9. Graph'
  BY <1>3, <1>4, <1>8, NarrowedGraph DEF Graph
<1>10. KnowledgeFits'
  BY <1>2, <1>5, <1>6, Afterwards
<1>11. \A u \in Threads : Knowledge[u] \subseteq Knowledge'[u]
  BY <1>1, <1>2, KnowledgeGrows DEF Types
<1>12. Continues(trace, Knowledge, promises, state, trace', Knowledge', promises', state')
  BY <1>2, <1>4, <1>11 DEF Continues, Narrowed, Follows
<1>13. Fitting(trace', Knowledge', promises)
  BY <1>3, <1>10 DEF KnowledgeFits, Fitting
<1>14. ASSUME NEW g \in Completions'
       PROVE  /\ Completions # {}
              /\ \A k \in DOMAIN promises' : g[k] \in promises'[k].available
              /\ ~hard_failed_promise'
  <2>1. /\ Completions # {}
        /\ Completing(trace', Knowledge', promises', state', g)
        /\ \A k \in DOMAIN promises : g[k] \in promises[k].available
    BY <1>1, <1>10, <1>12, Transfer
  <2>2. Completing(trace', Knowledge', promises, state', g)
    BY <1>4, <1>13, <2>1, NarrowedSame
  <2>3. DOMAIN promises' = DOMAIN promises /\ g \in [DOMAIN promises -> Threads]
    BY <1>4, <2>2 DEF Narrowed, Completing
  <2> DEFINE kn == Knowledge'
             C == Coh(trace', kn, promises, g)
  <2>4. /\ Fitting(trace', kn, promises) /\ Completing(trace', kn, promises, state', g)
        /\ \A u \in Threads : cv'[u] \subseteq kn[u]
        /\ \A i \in DOMAIN trace' : i \in kn[trace'[i].tid]
    BY <1>10, <1>13, <2>2 DEF KnowledgeFits
  <2> HIDE DEF kn
  <2>5. mo' \subseteq C
    BY <1>8, <2>1, <2>3, <2>4, GroundedCoh
  <2>6. Number \in DOMAIN trace' /\ StoreIn(trace', Number) = w
    BY DEF Follows
  <2>7. ~r.hard /\ \A k \in DOMAIN promises : g[k] \in r.promises[k].available
    BY <2>1, <2>3, <2>4, <2>5, <2>6, CheckSound
  <2> QED BY <2>1, <2>3, <2>7
<1>15. Hopeless' /\ GivenUp'
  BY <1>1, <1>2, <1>5, <1>6, <1>9, <1>14, Remaining
<1> QED BY <1>2, <1>5, <1>6, <1>9, <1>15 DEF PInv
\* What the step appends to the trace.
Appended(tr, t, op, v, rf) ==
    /\ Goes(trace, tr, t, cv[t] \cup {Number})
    /\ tr[Number] = Access(t, op, v, rf)
    /\ Number \notin DOMAIN trace /\ DOMAIN tr = DOMAIN trace \cup {Number} /\ Number \in Nat \ {0}
    /\ \A i \in DOMAIN trace : tr[i] = trace[i] /\ StoreIn(tr, i) = StoreIn(trace, i)
    /\ \A u \in Threads : Number \notin cv[u]

LEMMA Appending ==
    ASSUME Types, Clocks, NEW t \in Threads, NEW op \in {"R", "W"}, NEW v \in Values \cup {0},
           NEW rf \in Int \cup {NONE}, NEW tr, tr = Append(trace, Access(t, op, v, rf))
    PROVE  Appended(tr, t, op, v, rf)
<1> DEFINE a == Access(t, op, v, rf)
           n == Number
<1>1. trace \in Seq(Actions) /\ cv \in [Threads -> SUBSET Nat] /\ Len(trace) \in Nat
  BY DEF Types
<1>2. n = Len(trace) + 1 /\ n \in Nat \ {0}
  BY <1>1 DEF Number
<1>3. a \in Actions /\ a.tid = t /\ a.hb = cv[t] \cup {n}
  BY <1>1, <1>2 DEF Access, Actions
<1>4. tr = Append(trace, a)
  OBVIOUS
<1> HIDE DEF a, n
<1>5. /\ tr \in Seq(Actions) /\ Len(tr) = Len(trace) + 1 /\ tr[n] = a
      /\ n \notin DOMAIN trace /\ DOMAIN tr = DOMAIN trace \cup {n}
      /\ \A i \in DOMAIN trace : tr[i] = trace[i]
  BY <1>1, <1>2, <1>3, <1>4
<1>6. Goes(trace, tr, t, cv[t] \cup {n})
  BY <1>2, <1>3, <1>5 DEF Goes
<1>7. \A i \in DOMAIN trace : StoreIn(tr, i) = StoreIn(trace, i)
  BY <1>5 DEF StoreIn
<1>8. \A u \in Threads : n \notin cv[u]
  BY <1>5 DEF Clocks, Closed
<1> QED BY <1>2, <1>5, <1>6, <1>7, <1>8 DEF Appended, a, n

LEMMA AppendFollows ==
    ASSUME Types, Clocks, NEW t \in Threads, NEW op, NEW v, NEW rf, NEW tr, Appended(tr, t, op, v, rf),
           Accessed(t), NEW x, x = IF op = "W" THEN Number ELSE rf,
           NEW ps, DOMAIN promises \subseteq DOMAIN ps,
           \A k \in DOMAIN promises : /\ ps[k].id = promises[k].id
                                      /\ ps[k].available \subseteq promises[k].available
    PROVE  Follows(trace, promises, cv, tr, ps, cv', Number, x)
<1>1. StoreIn(tr, Number) = x
  BY DEF Appended, StoreIn, Access
<1>2. \A i \in DOMAIN trace : /\ tr[i] = trace[i] /\ StoreIn(tr, i) = StoreIn(trace, i)
                              /\ trace[i].hb \subseteq DOMAIN trace
  BY DEF Appended, Clocks, Closed
<1>3. \A u \in Threads : cv[u] \subseteq DOMAIN trace /\ cv[u] \subseteq cv'[u]
  BY DEF Clocks, Closed, Accessed, Types
<1> QED BY <1>1, <1>2, <1>3 DEF Follows, Appended

LEMMA OrderAdds ==
    ASSUME NEW ps, NEW t, NEW n, \A k \in DOMAIN ps : is_compatible_exclusive(ps[k], t) => Node(ps[k].id) # n
    PROVE  /\ Adds(trace, ps, t, cv[t], n, mo, mo \cup r_modification_order(ps, t, n))
           /\ (\A i \in cv[t] : StoreIn(trace, i) # n) =>
                 Adds(trace, ps, t, cv[t], n, mo, mo \cup w_modification_order(ps, t, n))
<1>1. LastOfEach(cv[t]) = Lasts(trace, cv[t]) /\ \A i : Store(i) = StoreIn(trace, i)
  BY DEF LastOfEach, Lasts, Store, StoreIn
<1>2. \A i \in Lasts(trace, cv[t]) : i \in cv[t]
  BY DEF Lasts
<1>3. ASSUME NEW e \in Exclusive(ps, t, n)
      PROVE  \E k \in DOMAIN ps : /\ ps[k].available \subseteq {t} /\ Node(ps[k].id) # n
                                  /\ e = <<n, Node(ps[k].id)>>
  BY <1>3 DEF Exclusive, is_compatible_exclusive
<1>4. Adds(trace, ps, t, cv[t], n, mo, mo \cup r_modification_order(ps, t, n))
  <2> DEFINE F == mo \cup r_modification_order(ps, t, n)
  <2>1. mo \subseteq F
    OBVIOUS
  <2>2. \A i \in Lasts(trace, cv[t]) : StoreIn(trace, i) # n => <<StoreIn(trace, i), n>> \in F
    BY <1>1 DEF r_modification_order
  <2>3. ASSUME NEW e \in F
        PROVE \/ e \in mo
              \/ \E i \in cv[t] : StoreIn(trace, i) # n /\ e = <<StoreIn(trace, i), n>>
              \/ e \in Exclusive(ps, t, n)
    BY <1>1, <1>2 DEF r_modification_order
  <2> HIDE DEF F
  <2>4. Adds(trace, ps, t, cv[t], n, mo, F)
    BY <1>3, <2>1, <2>2, <2>3 DEF Adds
  <2> QED BY <2>4 DEF F
<1>5. ASSUME \A i \in cv[t] : StoreIn(trace, i) # n
      PROVE  Adds(trace, ps, t, cv[t], n, mo, mo \cup w_modification_order(ps, t, n))
  <2> DEFINE F == mo \cup w_modification_order(ps, t, n)
  <2>1. mo \subseteq F
    OBVIOUS
  <2>2. \A i \in Lasts(trace, cv[t]) : StoreIn(trace, i) # n => <<StoreIn(trace, i), n>> \in F
    BY <1>1 DEF w_modification_order
  <2>3. ASSUME NEW e \in F
        PROVE \/ e \in mo
              \/ \E i \in cv[t] : StoreIn(trace, i) # n /\ e = <<StoreIn(trace, i), n>>
              \/ e \in Exclusive(ps, t, n)
    BY <1>1, <1>2, <1>5 DEF w_modification_order
  <2> HIDE DEF F
  <2>4. Adds(trace, ps, t, cv[t], n, mo, F)
    BY <1>3, <2>1, <2>2, <2>3 DEF Adds
  <2> QED BY <2>4 DEF F
<1> QED BY <1>4, <1>5

LEMMA PromiseNodes ==
    ASSUME Types, NEW k \in DOMAIN promises
    PROVE  /\ promises[k] \in PromiseSet
           /\ Node(promises[k].id) \in Int /\ Node(promises[k].id) < 0 /\ Node(promises[k].id) \notin Nat
<1>1. promises[k] \in PromiseSet
  BY DEF Types
<1>2. promises[k].id \in Nat \ {0}
  BY <1>1 DEF PromiseSet
<1> QED BY <1>1, <1>2 DEF Node

ReadersFit(tr, qs, rf) ==
    \A k \in DOMAIN qs :
       /\ qs[k].readers # <<>> /\ ToSet(qs[k].readers) \subseteq DOMAIN tr
       /\ rf = Node(qs[k].id) <=> Number \in ToSet(qs[k].readers)
       /\ \A j \in DOMAIN trace : trace[j].rf = Node(qs[k].id) <=> j \in ToSet(qs[k].readers)

\* What the loads read after the step, qs being the promises then.
LEMMA ReadsGo ==
    ASSUME Types, Clocks, Reads, NEW t \in Threads, NEW op, NEW v, NEW rf, NEW tr, Appended(tr, t, op, v, rf),
           op = "W" => rf = NONE,
           NEW qs, Ids(promises) \subseteq Ids(qs), \A k \in DOMAIN qs : Node(qs[k].id) \notin Nat,
           op = "R" => rf \in Stores(trace) \cup Ids(qs), ReadersFit(tr, qs, rf)
    PROVE  ReadsOf(tr, qs)
<1>1. Stores(trace) \subseteq Stores(tr)
  BY DEF Appended, Stores
<1>2. tr \in Seq(Actions) /\ tr[Number].op = op /\ tr[Number].rf = rf
  BY DEF Appended, Goes, Access
<1>3. \A s \in Stores(tr) : s \in Nat /\ s \notin Ids(qs)
  <2>1. \A s \in Stores(tr) : s \in Nat
    BY <1>2 DEF Stores
  <2> QED BY <2>1 DEF Ids
<1>4. ASSUME NEW s \in Stores(trace)
      PROVE  s \in DOMAIN trace /\ tr[s].hb = trace[s].hb /\ Number \notin tr[s].hb
  BY DEF Appended, Clocks, Closed, Stores
<1>5. ASSUME NEW j \in DOMAIN trace
      PROVE  /\ tr[j] = trace[j]
             /\ trace[j].op = "W" => trace[j].rf = NONE
             /\ trace[j].op = "R" => /\ trace[j].rf \in Stores(trace) \cup Ids(qs)
                                     /\ trace[j].rf \in Stores(trace) => j \notin trace[trace[j].rf].hb
  BY DEF Reads, ReadsOf, Appended
<1>6. ASSUME NEW j \in DOMAIN tr
      PROVE  /\ tr[j].op = "W" => tr[j].rf = NONE
             /\ tr[j].op = "R" => /\ tr[j].rf \in Stores(tr) \cup Ids(qs)
                                  /\ tr[j].rf \in Stores(tr) => j \notin tr[tr[j].rf].hb
  <2>1. CASE j = Number
    BY <1>1, <1>2, <1>3, <1>4, <2>1
  <2>2. CASE j \in DOMAIN trace
    BY <1>1, <1>3, <1>4, <1>5, <2>2
  <2> QED BY <2>1, <2>2 DEF Appended
<1>7. ASSUME NEW k \in DOMAIN qs, NEW j \in DOMAIN tr
      PROVE  tr[j].rf = Node(qs[k].id) <=> j \in ToSet(qs[k].readers)
  <2>1. CASE j = Number
    BY <1>2, <2>1 DEF ReadersFit
  <2>2. CASE j \in DOMAIN trace
    BY <1>5, <2>2 DEF ReadersFit
  <2>3. DOMAIN tr = DOMAIN trace \cup {Number}
    BY DEF Appended
  <2> QED BY <2>1, <2>2, <2>3
<1> QED BY <1>6, <1>7 DEF ReadsOf, ReadersFit

LEMMA ReadersKnown ==
    ASSUME Reads, Types, NEW k \in DOMAIN promises, NEW t \in Threads, NEW op, NEW v, NEW rf,
           NEW tr, Appended(tr, t, op, v, rf)
    PROVE  /\ promises[k].readers # <<>> /\ ToSet(promises[k].readers) \subseteq DOMAIN tr
           /\ Number \notin ToSet(promises[k].readers)
           /\ \A j \in DOMAIN trace : trace[j].rf = Node(promises[k].id) <=> j \in ToSet(promises[k].readers)
BY DEF Reads, ReadsOf, Appended

LEMMA ReadFromPastStep ==
    ASSUME PInv, NEW t \in Threads, ReadFromPast(t)
    PROVE  PInv'
<1>1. Types /\ Clocks /\ Reads
  BY DEF PInv
<1>2. PICK i \in MayReadFrom(t) :
        LET act == Access(t, "R", trace[i].val, i)
            E == mo \cup r_modification_order(promises, t, i)
            r == mo_check_promises(trace, E, promises, act, i)
        IN  /\ Accesses(t) /\ Accessed(t) /\ trace' = Append(trace, act) /\ mo' = E
            /\ promises' = r.promises /\ hard_failed_promise' = r.hard
            /\ made' = made /\ failed_promise' = failed_promise
  BY DEF ReadFromPast
<1> DEFINE act == Access(t, "R", trace[i].val, i)
           v == trace[i].val
<1>3. i \in DOMAIN trace /\ trace[i].op = "W" /\ i \in Nat \ {0} /\ v \in Values \cup {0}
  <2>1. i \in DOMAIN trace /\ trace[i].op = "W" /\ trace \in Seq(Actions)
    BY <1>1 DEF MayReadFrom, Types
  <2>2. trace[i] \in Actions
    BY <2>1
  <2> QED BY <2>1, <2>2 DEF Actions
<1>31. trace' = Append(trace, Access(t, "R", v, i))
  BY <1>2
<1> HIDE DEF v
<1>32. i \in Int \cup {NONE} /\ "R" \in {"R", "W"}
  BY <1>3
<1>4. Appended(trace', t, "R", v, i)
  BY <1>1, <1>3, <1>31, <1>32, Appending
<1>5. i \in Stores(trace') /\ trace'[Number] = act /\ act.rf = i /\ act.op = "R"
  BY <1>3, <1>4 DEF Appended, Stores, Access, v
<1>6. ReadsOf(trace', promises)
  <2>1. i \in Stores(trace)
    BY <1>3 DEF Stores
  <2>2. ASSUME NEW k \in DOMAIN promises PROVE Node(promises[k].id) \notin Nat /\ i # Node(promises[k].id)
    BY <1>1, <1>3, PromiseNodes
  <2>3. ASSUME NEW k \in DOMAIN promises
        PROVE  /\ promises[k].readers # <<>> /\ ToSet(promises[k].readers) \subseteq DOMAIN trace'
               /\ i = Node(promises[k].id) <=> Number \in ToSet(promises[k].readers)
               /\ \A j \in DOMAIN trace :
                     trace[j].rf = Node(promises[k].id) <=> j \in ToSet(promises[k].readers)
    BY <1>1, <1>4, <2>2, ReadersKnown
  <2> QED BY <1>1, <1>4, <2>1, <2>2, <2>3, ReadsGo DEF ReadersFit
<1>7. Follows(trace, promises, cv, trace', promises, cv', Number, i)
  BY <1>1, <1>2, <1>4, AppendFollows
<1>8. Adds(trace, promises, t, cv[t], i, mo, mo')
  <2>1. \A k \in DOMAIN promises : Node(promises[k].id) # i
    BY <1>1, <1>3, PromiseNodes
  <2> QED BY <1>2, <2>1, OrderAdds
<1>9. \A n \in Stores(trace') : trace[n].tid = trace'[n].tid
  BY <1>4, <1>5 DEF Appended, Stores
<1> DEFINE r == mo_check_promises(trace, mo', promises, trace'[Number], i)
<1>10. /\ promises' = r.promises /\ hard_failed_promise' = r.hard
       /\ made' = made /\ failed_promise' = failed_promise
  BY <1>2, <1>5
<1>11. Goes(trace, trace', t, cv[t] \cup {Number}) /\ Accesses(t) /\ Accessed(t)
  BY <1>2, <1>4 DEF Appended
<1> HIDE DEF r, act
<1>12. r = mo_check_promises(trace, mo', promises, trace'[Number], i)
  BY DEF r
<1> QED BY <1>5, <1>6, <1>7, <1>8, <1>9, <1>10, <1>11, <1>12, CheckStep

LEMMA WriteUnpromisedStep ==
    ASSUME PInv, NEW t \in Threads, NEW v \in Values, WriteUnpromised(t, v)
    PROVE  PInv'
<1> DEFINE act == Access(t, "W", v, NONE)
           E == mo \cup w_modification_order(promises, t, Number)
           r == mo_check_promises(trace', mo', promises, trace'[Number], Number)
<1>1. Types /\ Clocks /\ Reads
  BY DEF PInv
<1>2. /\ Accesses(t) /\ Accessed(t) /\ trace' = Append(trace, act) /\ mo' = E
      /\ made' = made /\ failed_promise' = failed_promise
  BY DEF WriteUnpromised
<1>3. Appended(trace', t, "W", v, NONE)
  BY <1>1, <1>2, Appending
<1>4. Number \in Stores(trace') /\ trace'[Number] = act
  BY <1>3 DEF Appended, Stores, Access
<1>5. promises' = r.promises /\ hard_failed_promise' = r.hard
  BY <1>2, <1>4 DEF WriteUnpromised
<1>6. ASSUME NEW k \in DOMAIN promises
      PROVE  /\ Node(promises[k].id) \notin Nat /\ NONE # Node(promises[k].id)
             /\ Number # Node(promises[k].id)
  <2>1. Node(promises[k].id) \in Int /\ Node(promises[k].id) \notin Nat
    BY <1>1, PromiseNodes
  <2>2. Number \in Nat /\ NONE \notin Int
    BY <1>3, PromisesAssumption DEF Appended
  <2> QED BY <2>1, <2>2
<1>7. ReadsOf(trace', promises)
  <2>1. ASSUME NEW k \in DOMAIN promises
        PROVE  /\ promises[k].readers # <<>> /\ ToSet(promises[k].readers) \subseteq DOMAIN trace'
               /\ NONE = Node(promises[k].id) <=> Number \in ToSet(promises[k].readers)
               /\ \A j \in DOMAIN trace :
                     trace[j].rf = Node(promises[k].id) <=> j \in ToSet(promises[k].readers)
    BY <1>1, <1>3, <1>6, ReadersKnown
  <2> QED BY <1>1, <1>3, <1>6, <2>1, ReadsGo DEF ReadersFit
<1>8. Follows(trace, promises, cv, trace', promises, cv', Number, Number)
  BY <1>1, <1>2, <1>3, AppendFollows
<1>9. \A i \in cv[t] : StoreIn(trace, i) # Number
  <2>1. \A i \in cv[t] : i \in DOMAIN trace
    BY <1>1 DEF Clocks, Closed
  <2>2. \A i \in DOMAIN trace : StoreIn(trace, i) \in Stores(trace) \cup Ids(promises)
    BY <1>1, NodeNumbers DEF Types, Reads
  <2>3. Number \notin Stores(trace) \cup Ids(promises)
    BY <1>3, <1>6 DEF Appended, Stores, Ids
  <2> QED BY <2>1, <2>2, <2>3
<1>10. Adds(trace, promises, t, cv[t], Number, mo, mo')
  BY <1>2, <1>6, <1>9, OrderAdds
<1>11. Goes(trace, trace', t, cv[t] \cup {Number})
  BY <1>3 DEF Appended
<1> HIDE DEF r, act, E
<1>12. r = mo_check_promises(trace', mo', promises, trace'[Number], Number)
  BY DEF r
<1> QED BY <1>2, <1>4, <1>5, <1>7, <1>8, <1>10, <1>11, <1>12, CheckStep
-----------------------------------------------------------------------------
(***************************************************************************)
(* Loads of promises.                                                      *)
(***************************************************************************)
\* Of promises ps, qs has all, with perhaps more readers and fewer threads.
Keeps(ps, qs) ==
    /\ DOMAIN ps \subseteq DOMAIN qs
    /\ \A k \in DOMAIN ps : /\ qs[k].id = ps[k].id /\ qs[k].was = ps[k].was
                            /\ qs[k].available \subseteq ps[k].available
                            /\ ToSet(ps[k].readers) \subseteq ToSet(qs[k].readers)

\* Nothing but thread t is gone, from a promise that action n reads.
Loses(ps, qs, t, n) ==
    \A k \in DOMAIN qs :
       \/ k \in DOMAIN ps /\ qs[k].available = ps[k].available
       \/ k \in DOMAIN ps /\ qs[k].available = ps[k].available \ {t} /\ n \in ToSet(qs[k].readers)
       \/ qs[k].available = qs[k].was

NotSole(ps, t, x)  == \A k \in DOMAIN ps : is_compatible_exclusive(ps[k], t) => Node(ps[k].id) # x
SomeFailed(ps)     == \E k \in DOMAIN ps : has_failed(ps[k])

\* What a load of promise node x has to show, qs being the promises then.
LEMMA PromisedStep ==
    ASSUME PInv, NEW t \in Threads, Accesses(t), Accessed(t),
           NEW v, NEW x, Appended(trace', t, "R", v, x), promises' \in Seq(PromiseSet),
           Keeps(promises, promises'), Loses(promises, promises', t, Number), NotSole(promises', t, x),
           ReadsOf(trace', promises'), Available(promises', state), Named(promises', made'),
           made' \in 0..MaxPromises,
           mo' = mo \cup r_modification_order(promises', t, x),
           hard_failed_promise' = hard_failed_promise, failed_promise' \in BOOLEAN,
           failed_promise' => failed_promise \/ SomeFailed(promises')
    PROVE  PInv'
<1>1. Types /\ Waiting /\ Clocks /\ Reads /\ Graph /\ Hopeless /\ GivenUp /\ KnowledgeFits
  BY Afterwards DEF PInv
<1>2. Goes(trace, trace', t, cv[t] \cup {Number})
  BY DEF Appended
<1>3. /\ cv' \in [Threads -> SUBSET Nat] /\ state' = state /\ joining' = joining /\ released' = released
      /\ Len(trace') \in 1..MaxAccesses
      /\ state[t] = "ready" /\ joining[t] = NONE
      /\ \A u \in Threads : cv[u] \subseteq cv'[u]
      /\ cv'[t] = cv[t] \cup {Number}
      /\ Waiting' /\ Clocks'
  BY <1>1, <1>2, AccessClocks
<1>4. trace \in Seq(Actions) /\ trace' \in Seq(Actions) /\ promises \in Seq(PromiseSet)
  BY <1>1, <1>2 DEF Goes, Types
<1>5. Types'
  BY <1>1, <1>3, <1>4 DEF Types
<1>6. Reads'
  BY <1>3 DEF Reads
<1>7. trace'[Number].hb = cv[t] \cup {Number} /\ KnowsOwn(trace)
  BY <1>1, <1>2 DEF Goes, Number, Clocks, KnowsOwn
<1>8. Follows(trace, promises, cv, trace', promises', cv', Number, x)
  BY <1>1, AppendFollows DEF Keeps
<1>9. Adds(trace, promises', t, cv[t], x, mo, mo')
  BY OrderAdds DEF NotSole
<1>10. Graph'
  <2>1. GraphOf(trace, promises, mo) /\ Grounded(trace, promises, cv, mo) /\ Ordered(trace, mo)
    BY <1>1 DEF Graph
  <2>2. Number \in cv'[t]
    BY <1>3
  <2>3. GraphOf(trace', promises', mo') /\ Grounded(trace', promises', cv', mo') /\ Ordered(trace', mo')
    <3> DEFINE qs == promises'
               d == cv'
               s == trace'
               G == mo'
    <3>1. /\ trace \in Seq(Actions) /\ promises \in Seq(PromiseSet) /\ s \in Seq(Actions)
          /\ qs \in Seq(PromiseSet)
      BY <1>4
    <3>2. /\ Follows(trace, promises, cv, s, qs, d, Number, x) /\ KnowsOwn(trace)
          /\ s[Number].hb = cv[t] \cup {Number} /\ Number \in d[t] /\ ReadsOf(s, qs)
          /\ Adds(trace, qs, t, cv[t], x, mo, G)
      BY <1>7, <1>8, <1>9, <2>2
    <3> HIDE DEF qs, d, s, G
    <3>3. GraphAt(s, qs, d, G)
      BY <2>1, <3>1, <3>2, AccessGraph
    <3> QED BY <3>3 DEF qs, d, s, G, GraphAt
  <2> QED BY <2>3 DEF Graph
<1>11. KnowledgeFits'
  BY <1>3, <1>5, <1>6, Afterwards
<1>12. \A u \in Threads : Knowledge[u] \subseteq Knowledge'[u]
  BY <1>1, <1>3, KnowledgeGrows DEF Types
<1>13. Continues(trace, Knowledge, promises, state, trace', Knowledge', promises', state')
  BY <1>3, <1>8, <1>12 DEF Continues, Keeps, Follows
<1>14. ASSUME NEW g \in Completions'
       PROVE  /\ Completions # {}
              /\ \A k \in DOMAIN promises' : g[k] \in promises'[k].available
              /\ ~hard_failed_promise'
  <2>1. /\ Completions # {}
        /\ Completing(trace', Knowledge', promises', state', g)
        /\ \A k \in DOMAIN promises : g[k] \in promises[k].available
    BY <1>1, <1>11, <1>13, Transfer
  <2>2. ~hard_failed_promise'
    BY DEF Accesses, CanRun, is_infeasible
  <2>3. Number \in Knowledge'[t]
    BY <1>3, <1>7, <1>11 DEF KnowledgeFits
  <2>4. ASSUME NEW k \in DOMAIN promises' PROVE g[k] \in promises'[k].available
    <3>1. AbleIn(promises'[k], g[k], Knowledge', state')
      BY <2>1 DEF Completing
    <3>2. CASE k \in DOMAIN promises /\ promises'[k].available = promises[k].available
      BY <2>1, <3>2
    <3>3. CASE /\ k \in DOMAIN promises /\ promises'[k].available = promises[k].available \ {t}
               /\ Number \in ToSet(promises'[k].readers)
      <4>1. g[k] # t
        BY <2>3, <3>1, <3>3 DEF AbleIn
      <4> QED BY <2>1, <3>3, <4>1
    <3>4. CASE promises'[k].available = promises'[k].was
      BY <3>1, <3>4 DEF AbleIn
    <3> QED BY <3>2, <3>3, <3>4 DEF Loses
  <2> QED BY <2>1, <2>2, <2>4
<1>15. Hopeless' /\ GivenUp'
  BY <1>1, <1>3, <1>5, <1>6, <1>10, <1>14, Remaining DEF SomeFailed
<1> QED BY <1>3, <1>5, <1>6, <1>10, <1>15 DEF PInv

WithReader(p, n, t, q) ==
    /\ q \in PromiseSet /\ q.id = p.id /\ q.val = p.val /\ q.was = p.was
    /\ q.available = p.available \ {t}
    /\ ToSet(q.readers) = ToSet(p.readers) \cup {n} /\ q.readers # <<>>

LEMMA AddedReader ==
    ASSUME NEW p \in PromiseSet, NEW n \in Nat, NEW t, NEW q,
           q = eliminate_thread([p EXCEPT !.readers = Append(@, n)], t)
    PROVE  WithReader(p, n, t, q)
<1>1. p.readers \in Seq(Nat)
  BY DEF PromiseSet
<1>2. /\ q.id = p.id /\ q.val = p.val /\ q.was = p.was /\ q.readers = Append(p.readers, n)
      /\ q.available = p.available \ {t}
  BY DEF eliminate_thread, PromiseSet
<1>3. q \in PromiseSet
  <2>1. Append(p.readers, n) \in Seq(Nat)
    BY <1>1
  <2> QED BY <2>1 DEF eliminate_thread, PromiseSet
<1> DEFINE s == p.readers
           r == Append(s, n)
<1>4. s \in Seq(Nat)
  BY <1>1
<1> HIDE DEF s
<1>5. Len(r) = Len(s) + 1 /\ r[Len(s) + 1] = n /\ \A i \in 1..Len(s) : r[i] = s[i]
  BY <1>4
<1>6. r \in Seq(Nat) /\ r # <<>>
  BY <1>4
<1> HIDE DEF r
<1>7. ToSet(r) = ToSet(s) \cup {n}
  <2>1. DOMAIN r = 1..(Len(s) + 1) /\ DOMAIN s = 1..Len(s) /\ Len(s) \in Nat
    BY <1>4, <1>5, <1>6
  <2>2. DOMAIN r = DOMAIN s \cup {Len(s) + 1}
    BY <2>1
  <2> QED BY <1>5, <2>1, <2>2 DEF ToSet
<1> QED BY <1>2, <1>3, <1>6, <1>7 DEF s, r, WithReader

LEMMA ReadFromPromiseStep ==
    ASSUME PInv, NEW t \in Threads, ReadFromPromise(t)
    PROVE  PInv'
<1>1. Types /\ Clocks /\ Reads
  BY DEF PInv
<1>2. PICK k \in MayInherit(t) :
        LET p == [promises[k] EXCEPT !.readers = Append(@, Number)]
            ps == [promises EXCEPT ![k] = eliminate_thread(p, t)]
        IN  /\ Accesses(t) /\ Accessed(t)
            /\ trace' = Append(trace, Access(t, "R", p.val, Node(p.id)))
            /\ promises' = ps
            /\ failed_promise' = (failed_promise \/ FailsIn(promises, ps))
            /\ mo' = mo \cup r_modification_order(ps, t, Node(p.id))
            /\ made' = made /\ hard_failed_promise' = hard_failed_promise
  BY DEF ReadFromPromise
<1> DEFINE old == promises[k]
           new == eliminate_thread([old EXCEPT !.readers = Append(@, Number)], t)
           x == Node(old.id)
<1>3. /\ k \in DOMAIN promises /\ promises \in Seq(PromiseSet) /\ old \in PromiseSet /\ x \in Int
      /\ old.val \in Values
  <2>1. k \in DOMAIN promises /\ promises \in Seq(PromiseSet)
    BY <1>1 DEF MayInherit, Types
  <2>2. old \in PromiseSet /\ x \in Int
    BY <1>1, <2>1, PromiseNodes
  <2> QED BY <2>1, <2>2 DEF PromiseSet
<1>4. /\ Accesses(t) /\ Accessed(t) /\ made' = made /\ hard_failed_promise' = hard_failed_promise
      /\ promises' = [promises EXCEPT ![k] = new]
      /\ failed_promise' = (failed_promise \/ FailsIn(promises, promises'))
  BY <1>2
<1>5. trace' = Append(trace, Access(t, "R", old.val, x)) /\ mo' = mo \cup r_modification_order(promises', t, x)
  <2> DEFINE p1 == [old EXCEPT !.readers = Append(@, Number)]
  <2>1. p1.val = old.val /\ p1.id = old.id
    BY <1>3 DEF PromiseSet
  <2> QED BY <1>2, <2>1
<1>6. Appended(trace', t, "R", old.val, x)
  BY <1>1, <1>3, <1>5, Appending
<1>7. Number \in Nat
  BY <1>6 DEF Appended
<1> HIDE DEF old
<1>71. new = eliminate_thread([old EXCEPT !.readers = Append(@, Number)], t)
  OBVIOUS
<1> HIDE DEF new, x
<1>8. /\ new \in PromiseSet /\ new.id = old.id /\ new.val = old.val /\ new.was = old.was
      /\ new.available = old.available \ {t}
      /\ ToSet(new.readers) = ToSet(old.readers) \cup {Number} /\ new.readers # <<>>
  <2>1. WithReader(old, Number, t, new)
    BY <1>3, <1>7, <1>71, AddedReader
  <2> QED BY <2>1 DEF WithReader
<1>9. /\ DOMAIN promises' = DOMAIN promises /\ promises' \in Seq(PromiseSet)
      /\ promises'[k] = new /\ \A j \in DOMAIN promises : j # k => promises'[j] = promises[j]
  BY <1>3, <1>4, <1>8
<1>10. \A j \in DOMAIN promises :
              /\ promises'[j].id = promises[j].id /\ promises'[j].was = promises[j].was
              /\ promises'[j].available \subseteq promises[j].available
              /\ ToSet(promises[j].readers) \subseteq ToSet(promises'[j].readers)
  BY <1>8, <1>9 DEF old
<1>11. ASSUME NEW j \in DOMAIN promises'
       PROVE  (x = Node(promises'[j].id) <=> j = k) /\ Node(promises'[j].id) \notin Nat
  <2>1. x = Node(promises[j].id) => promises[j].id = promises[k].id
    <3>1. promises[j].id \in Nat /\ promises[k].id \in Nat
      BY <1>1, <1>3, <1>9, PromiseNodes DEF PromiseSet
    <3> QED BY <3>1 DEF x, old, Node
  <2>2. promises[j].id = promises[k].id => j = k
    BY <1>1, <1>3, <1>9 DEF Reads, Named
  <2>3. Node(promises[j].id) \notin Nat
    BY <1>1, <1>9, PromiseNodes
  <2> QED BY <1>9, <1>10, <2>1, <2>2, <2>3 DEF x, old
<1>12. ReadsOf(trace', promises')
  <2>1. Ids(promises) \subseteq Ids(promises') /\ x \in Ids(promises')
    <3>1. Ids(promises) \subseteq Ids(promises')
      BY <1>9, <1>10 DEF Ids
    <3> QED BY <1>3, <3>1 DEF Ids, x, old
  <2>2. ASSUME NEW j \in DOMAIN promises'
        PROVE  /\ promises'[j].readers # <<>> /\ ToSet(promises'[j].readers) \subseteq DOMAIN trace'
               /\ x = Node(promises'[j].id) <=> Number \in ToSet(promises'[j].readers)
               /\ \A i \in DOMAIN trace :
                     trace[i].rf = Node(promises'[j].id) <=> i \in ToSet(promises'[j].readers)
    <3>1. /\ promises[j].readers # <<>> /\ ToSet(promises[j].readers) \subseteq DOMAIN trace'
          /\ Number \notin ToSet(promises[j].readers)
          /\ \A i \in DOMAIN trace : trace[i].rf = Node(promises[j].id) <=> i \in ToSet(promises[j].readers)
      BY <1>1, <1>6, <1>9, ReadersKnown
    <3>2. CASE j = k
      <4>1. Number \in DOMAIN trace' /\ Number \notin DOMAIN trace
        BY <1>6 DEF Appended
      <4> QED BY <1>8, <1>9, <1>11, <3>1, <3>2, <4>1 DEF old
    <3>3. CASE j # k
      BY <1>9, <1>11, <3>1, <3>3
    <3> QED BY <3>2, <3>3
  <2> QED BY <1>1, <1>6, <1>11, <2>1, <2>2, ReadsGo DEF ReadersFit
<1>13. Available(promises', state) /\ Named(promises', made')
  BY <1>1, <1>4, <1>9, <1>10 DEF Reads, Available, Named
<1>14. made' \in 0..MaxPromises /\ failed_promise' \in BOOLEAN
  BY <1>1, <1>4 DEF Types
<1>15. \A j \in DOMAIN promises' : is_compatible_exclusive(promises'[j], t) => Node(promises'[j].id) # x
  BY <1>8, <1>9, <1>11 DEF is_compatible_exclusive
<1>16. failed_promise' => failed_promise \/ \E j \in DOMAIN promises' : has_failed(promises'[j])
  BY <1>4 DEF FailsIn
<1>17. \A j \in DOMAIN promises' :
              \/ j \in DOMAIN promises /\ promises'[j].available = promises[j].available
              \/ /\ j \in DOMAIN promises /\ promises'[j].available = promises[j].available \ {t}
                 /\ Number \in ToSet(promises'[j].readers)
  BY <1>8, <1>9 DEF old
<1>18. Keeps(promises, promises') /\ Loses(promises, promises', t, Number) /\ NotSole(promises', t, x)
  BY <1>9, <1>10, <1>15, <1>17 DEF Keeps, Loses, NotSole
<1> QED BY <1>4, <1>5, <1>6, <1>9, <1>12, <1>13, <1>14, <1>16, <1>18, PromisedStep DEF SomeFailed
LEMMA ReadFromFutureStep ==
    ASSUME PInv, NEW t \in Threads, ReadFromFuture(t)
    PROVE  PInv'
<1>1. Types /\ Clocks /\ Reads
  BY DEF PInv
<1>2. PICK u \in Threads \ {t}, v \in Values :
        LET p == [id |-> made + 1, val |-> v, readers |-> <<Number>>, available |-> {u}, was |-> {u}]
            ps == Append(promises, p)
        IN  /\ Accesses(t) /\ Accessed(t) /\ made < MaxPromises /\ state[u] \in {"ready", "blocked"}
            /\ trace' = Append(trace, Access(t, "R", v, Node(p.id)))
            /\ made' = made + 1 /\ promises' = ps
            /\ mo' = mo \cup r_modification_order(ps, t, Node(p.id))
            /\ failed_promise' = failed_promise /\ hard_failed_promise' = hard_failed_promise
  BY DEF ReadFromFuture
<1> DEFINE p == [id |-> made + 1, val |-> v, readers |-> <<Number>>, available |-> {u}, was |-> {u}]
           m == made + 1
           x == Node(m)
           K == Len(promises) + 1
<1>3. m \in Nat \ {0} /\ m \in 0..MaxPromises /\ ~(m \in 1..made) /\ 1..made \subseteq 1..m /\ m \in 1..m
  BY <1>1, <1>2, PromisesAssumption DEF Types
<1>4. x \in Int /\ x \notin Nat /\ NONE # x
  <2>1. x \in Int /\ x \notin Nat
    BY <1>3 DEF Node
  <2> QED BY <2>1, PromisesAssumption
<1>5. /\ Accesses(t) /\ Accessed(t) /\ state[u] \in {"ready", "blocked"}
      /\ trace' = Append(trace, Access(t, "R", v, x))
      /\ made' = m /\ promises' = Append(promises, p)
      /\ mo' = mo \cup r_modification_order(promises', t, x)
      /\ failed_promise' = failed_promise /\ hard_failed_promise' = hard_failed_promise
  BY <1>2
<1>6. Appended(trace', t, "R", v, x)
  BY <1>1, <1>4, <1>5, Appending
<1>7. Number \in Nat /\ Number \in DOMAIN trace' /\ Number \notin DOMAIN trace
  BY <1>6 DEF Appended
<1>8. p \in PromiseSet
  BY <1>3, <1>7 DEF PromiseSet
<1>9. /\ p.id = m /\ p.available = {u} /\ p.was = {u} /\ p.readers # <<>>
      /\ ToSet(p.readers) = {Number}
  BY DEF ToSet
<1>10. promises \in Seq(PromiseSet)
  BY <1>1 DEF Types
<1> HIDE DEF p
<1>11. /\ promises' \in Seq(PromiseSet) /\ DOMAIN promises' = DOMAIN promises \cup {K}
       /\ K \notin DOMAIN promises /\ promises'[K] = p
       /\ \A k \in DOMAIN promises : promises'[k] = promises[k]
  BY <1>5, <1>8, <1>10
<1> HIDE DEF m, K, x
<1>12. ASSUME NEW k \in DOMAIN promises'
       PROVE  (x = Node(promises'[k].id) <=> k = K) /\ Node(promises'[k].id) \notin Nat
  <2>1. CASE k = K
    BY <1>4, <1>9, <1>11, <2>1 DEF x
  <2>2. CASE k \in DOMAIN promises
    <3>1. promises[k].id \in 1..made /\ promises[k].id \in Nat /\ Node(promises[k].id) \notin Nat
      BY <1>1, <2>2, PromiseNodes DEF Reads, Named, PromiseSet
    <3>2. promises[k].id # m
      BY <1>3, <3>1
    <3>3. Node(promises[k].id) # x
      BY <1>3, <3>1, <3>2 DEF x, Node
    <3> QED BY <1>11, <2>2, <3>1, <3>3
  <2> QED BY <1>11, <2>1, <2>2
<1>13. ReadsOf(trace', promises')
  <2>1. Ids(promises) \subseteq Ids(promises')
    BY <1>11 DEF Ids
  <2>2. x \in Ids(promises')
    BY <1>11, <1>12 DEF Ids
  <2>3. \A i \in DOMAIN trace : trace[i].rf # x
    <3> SUFFICES ASSUME NEW i \in DOMAIN trace PROVE trace[i].rf # x
      OBVIOUS
    <3>1. trace[i] \in Actions /\ trace \in Seq(Actions)
      BY <1>1 DEF Types
    <3>2. trace[i].rf = NONE \/ trace[i].rf \in Stores(trace) \cup Ids(promises)
      BY <1>1, <3>1 DEF Actions, Reads, ReadsOf
    <3>3. \A s \in Stores(trace) : s \in Nat
      BY <3>1 DEF Stores
    <3>4. x \notin Ids(promises)
      BY <1>11, <1>12 DEF Ids
    <3> QED BY <1>4, <3>2, <3>3, <3>4
  <2>4. ASSUME NEW k \in DOMAIN promises'
        PROVE  /\ promises'[k].readers # <<>> /\ ToSet(promises'[k].readers) \subseteq DOMAIN trace'
               /\ x = Node(promises'[k].id) <=> Number \in ToSet(promises'[k].readers)
               /\ \A i \in DOMAIN trace :
                     trace[i].rf = Node(promises'[k].id) <=> i \in ToSet(promises'[k].readers)
    <3>1. CASE k = K
      BY <1>7, <1>9, <1>11, <1>12, <2>3, <3>1
    <3>2. CASE k \in DOMAIN promises
      <4>1. /\ promises[k].readers # <<>> /\ ToSet(promises[k].readers) \subseteq DOMAIN trace'
            /\ Number \notin ToSet(promises[k].readers)
            /\ \A i \in DOMAIN trace : trace[i].rf = Node(promises[k].id) <=> i \in ToSet(promises[k].readers)
        BY <1>1, <1>6, <3>2, ReadersKnown
      <4> QED BY <1>11, <1>12, <3>2, <4>1
    <3> QED BY <1>11, <3>1, <3>2
  <2> QED BY <1>1, <1>6, <1>12, <2>1, <2>2, <2>4, ReadsGo DEF ReadersFit
<1>14. Available(promises', state)
  BY <1>1, <1>5, <1>9, <1>11 DEF Reads, Available
<1>15. Named(promises', made')
  <2>1. \A k \in DOMAIN promises' : promises'[k].id \in 1..m
    BY <1>1, <1>3, <1>9, <1>11 DEF Reads, Named
  <2>2. \A k \in DOMAIN promises : promises[k].id # m
    BY <1>1, <1>3 DEF Reads, Named
  <2>3. \A k, l \in DOMAIN promises' : promises'[k].id = promises'[l].id => k = l
    BY <1>1, <1>9, <1>11, <2>2 DEF Reads, Named
  <2> QED BY <1>5, <2>1, <2>3 DEF Named
<1>16. \A k \in DOMAIN promises' : is_compatible_exclusive(promises'[k], t) => Node(promises'[k].id) # x
  BY <1>9, <1>11, <1>12 DEF is_compatible_exclusive
<1>17. \A k \in DOMAIN promises' :
              \/ k \in DOMAIN promises /\ promises'[k].available = promises[k].available
              \/ promises'[k].available = promises'[k].was
  BY <1>9, <1>11
<1>18. \A k \in DOMAIN promises :
              /\ promises'[k].id = promises[k].id /\ promises'[k].was = promises[k].was
              /\ promises'[k].available \subseteq promises[k].available
              /\ ToSet(promises[k].readers) \subseteq ToSet(promises'[k].readers)
  BY <1>11
<1>19. made' \in 0..MaxPromises /\ failed_promise' \in BOOLEAN /\ DOMAIN promises \subseteq DOMAIN promises'
  BY <1>1, <1>3, <1>5, <1>11 DEF Types
<1>20. Keeps(promises, promises') /\ Loses(promises, promises', t, Number) /\ NotSole(promises', t, x)
  BY <1>16, <1>17, <1>18, <1>19 DEF Keeps, Loses, NotSole
<1> QED BY <1>5, <1>6, <1>11, <1>13, <1>14, <1>15, <1>19, <1>20, PromisedStep
-----------------------------------------------------------------------------
(***************************************************************************)
(* A store that keeps a promise.                                           *)
(***************************************************************************)
\* The other promises, at the places that back gives them.
Rest(ps, qs, k, fwd, back) ==
    /\ qs \in Seq(PromiseSet)
    /\ fwd \in [DOMAIN qs -> DOMAIN ps \ {k}] /\ back \in [DOMAIN ps \ {k} -> DOMAIN qs]
    /\ \A j \in DOMAIN qs : qs[j] = ps[fwd[j]] /\ back[fwd[j]] = j
    /\ \A i \in DOMAIN ps \ {k} : fwd[back[i]] = i

LEMMA RestFacts ==
    ASSUME NEW ps \in Seq(PromiseSet), NEW k \in DOMAIN ps
    PROVE  \E fwd, back : Rest(ps, RemoveAt(ps, k), k, fwd, back)
<1> DEFINE N == Len(ps)
           qs == RemoveAt(ps, k)
           fwd == [j \in 1..(N-1) |-> IF j < k THEN j ELSE j+1]
           back == [i \in (1..N) \ {k} |-> IF i < k THEN i ELSE i-1]
<1>1. N \in Nat \ {0} /\ k \in 1..N /\ DOMAIN ps = 1..N
  OBVIOUS
<1>2. /\ SubSeq(ps, 1, k-1) \in Seq(PromiseSet) /\ Len(SubSeq(ps, 1, k-1)) = k-1
      /\ \A j \in 1..(k-1) : SubSeq(ps, 1, k-1)[j] = ps[j]
  BY <1>1
<1>3. /\ SubSeq(ps, k+1, N) \in Seq(PromiseSet) /\ Len(SubSeq(ps, k+1, N)) = N-k
      /\ \A j \in 1..(N-k) : SubSeq(ps, k+1, N)[j] = ps[k+j]
  BY <1>1
<1>4. /\ qs \in Seq(PromiseSet) /\ Len(qs) = N-1
      /\ \A j \in 1..(N-1) : qs[j] = ps[fwd[j]]
  <2> DEFINE a == SubSeq(ps, 1, k-1)
             b == SubSeq(ps, k+1, N)
  <2>1. qs = a \o b
    BY DEF RemoveAt
  <2>2. a \in Seq(PromiseSet) /\ b \in Seq(PromiseSet) /\ Len(a) = k-1 /\ Len(b) = N-k
    BY <1>2, <1>3
  <2>3. (\A j \in 1..(k-1) : a[j] = ps[j]) /\ (\A j \in 1..(N-k) : b[j] = ps[k+j])
    BY <1>2, <1>3
  <2> HIDE DEF a, b, qs, N
  <2>31. qs \in Seq(PromiseSet)
    BY <2>1, <2>2, ConcatProperties
  <2>33. Len(qs) = Len(a) + Len(b)
    BY <2>1, <2>2, ConcatProperties
  <2>32. \A j \in 1..Len(qs) : qs[j] = IF j <= Len(a) THEN a[j] ELSE b[j - Len(a)]
    BY <2>1, <2>2, <2>33, ConcatProperties
  <2>4. qs \in Seq(PromiseSet) /\ Len(qs) = N-1
    BY <1>1, <2>2, <2>31, <2>33
  <2>5. ASSUME NEW j \in 1..(N-1) PROVE qs[j] = ps[fwd[j]]
    <3>1. CASE j < k
      <4>1. j \in 1..(k-1)
        BY <1>1, <3>1
      <4>2. qs[j] = a[j]
        BY <1>1, <2>2, <2>32, <2>4, <4>1
      <4> QED BY <2>3, <3>1, <4>1, <4>2
    <3>2. CASE ~(j < k)
      <4>1. j - (k-1) \in 1..(N-k) /\ k + (j - (k-1)) = j+1
        BY <1>1, <3>2
      <4>2. qs[j] = b[j - (k-1)]
        BY <1>1, <2>2, <2>32, <2>4, <3>2
      <4> QED BY <2>3, <3>2, <4>1, <4>2
    <3> QED BY <3>1, <3>2
  <2> QED BY <2>4, <2>5
<1> HIDE DEF N
<1>5. fwd \in [1..(N-1) -> (1..N) \ {k}] /\ back \in [(1..N) \ {k} -> 1..(N-1)]
  BY <1>1
<1>6. /\ \A j \in 1..(N-1) : back[fwd[j]] = j
      /\ \A i \in (1..N) \ {k} : fwd[back[i]] = i
  BY <1>1
<1> HIDE DEF fwd, back, qs
<1>7. DOMAIN qs = 1..(N-1)
  BY <1>1, <1>4
<1>8. Rest(ps, qs, k, fwd, back)
  BY <1>1, <1>4, <1>5, <1>6, <1>7 DEF Rest
<1> QED BY <1>8 DEF qs

\* The rounds of the check leave fewer threads, and none that a completion needs.
LEMMA NarrowedOn ==
    ASSUME NEW ps, NEW qs, Narrowed(ps, qs), NEW rs, Narrowed(qs, rs)
    PROVE  Narrowed(ps, rs)
BY DEF Narrowed

\* One round: what the check of action a makes of x.
Round(tr, E, x, a, w) ==
    LET r == mo_check_promises(tr, E, x.promises, a, w)
    IN  [promises |-> r.promises, hard |-> x.hard \/ r.hard]

Rounds(u, n, tr, E, ps, h, list, w) ==
    /\ u[0] = [promises |-> ps, hard |-> h]
    /\ \A i \in 1..n : u[i] = Round(tr, E, u[i-1], tr[list[i]], w)
    /\ \A i \in 0..n : Narrowed(ps, u[i].promises) /\ u[i].hard \in BOOLEAN
    /\ CheckAll(tr, E, ps, h, list, w) = u[n]

LEMMA CheckAllRounds ==
    ASSUME NEW tr, NEW E, NEW ps \in Seq(PromiseSet), NEW h \in BOOLEAN, NEW list \in Seq(Nat), NEW w
    PROVE  \E u : Rounds(u, Len(list), tr, E, ps, h, list, w)
<1> DEFINE N == Len(list)
           V == {x \in [promises : Seq(PromiseSet), hard : BOOLEAN] : Narrowed(ps, x.promises)}
           a == [promises |-> ps, hard |-> h]
           Body(i, x) == Round(tr, E, x, tr[list[i]], w)
           check[i \in 0..N] == IF i = 0 THEN a ELSE Body(i, check[i-1])
           F == [x \in (1..N) \X V |-> Body(x[1], x[2])]
           Solves(u) == u = [i \in 0..N |-> IF i = 0 THEN a ELSE Body(i, u[i-1])]
<1>1. N \in Nat /\ a \in V
  BY DEF Narrowed
<1>2. ASSUME NEW i \in 1..N, NEW x \in V PROVE Body(i, x) \in V
  <2> DEFINE y == mo_check_promises(tr, E, x.promises, tr[list[i]], w)
  <2>1. x.promises \in Seq(PromiseSet) /\ Narrowed(ps, x.promises)
    OBVIOUS
  <2>2. Narrowed(x.promises, y.promises) /\ y.hard \in BOOLEAN
    BY <2>1, CheckShape
  <2>3. Body(i, x) = [promises |-> y.promises, hard |-> x.hard \/ y.hard]
    BY DEF Round
  <2> HIDE DEF y, Body
  <2>4. y.promises \in Seq(PromiseSet) /\ Narrowed(ps, y.promises)
    BY <2>1, <2>2, NarrowedOn DEF Narrowed
  <2>5. (x.hard \/ y.hard) \in BOOLEAN
    OBVIOUS
  <2> DEFINE h2 == x.hard \/ y.hard
             z == y.promises
  <2>6. Body(i, x) = [promises |-> z, hard |-> h2] /\ h2 \in BOOLEAN
    BY <2>3, <2>5
  <2> HIDE DEF h2
  <2> QED BY <2>4, <2>6
<1>3. F \in [(1..N) \X V -> V]
  <2> HIDE DEF V, Body
  <2> QED BY <1>2
<1>4. \E u : Iterates(u, V, a, N, F)
  <2> HIDE DEF N, V, F, a
  <2> QED BY <1>1, <1>3, Iteration, Zenon
<1>5. PICK u \in [0..N -> V] : u[0] = a /\ \A i \in 1..N : u[i] = F[<<i, u[i-1]>>]
  <2> HIDE DEF N, V, F, a
  <2> QED BY <1>4 DEF Iterates
<1>6. ASSUME NEW i \in 1..N PROVE u[i] = Body(i, u[i-1])
  <2>1. i-1 \in 0..N
    BY <1>1
  <2> HIDE DEF V, Body
  <2>2. <<i, u[i-1]>> \in (1..N) \X V
    BY <1>5, <2>1
  <2> QED BY <1>5, <2>2
<1>7. Solves(u)
  <2>1. ASSUME NEW i \in 0..N, i # 0 PROVE u[i] = Body(i, u[i-1])
    <3>1. i \in 1..N
      BY <1>1, <2>1
    <3> QED BY <1>6, <3>1
  <2> HIDE DEF V, Body, a
  <2> QED BY <1>5, <2>1
<1>8. Solves(check)
  <2>1. check = CHOOSE v : Solves(v)
    OBVIOUS
  <2> HIDE DEF check, Solves
  <2> QED BY <1>7, <2>1
<1>9. CheckAll(tr, E, ps, h, list, w) = check[N]
  BY DEF CheckAll, Round
<1> HIDE DEF check
<1>10. check[0] = a
  BY <1>1, <1>8
<1>11. ASSUME NEW i \in 1..N PROVE check[i] = Body(i, check[i-1])
  <2>1. i \in 0..N /\ i # 0
    BY <1>1
  <2> HIDE DEF Body
  <2> QED BY <1>8, <2>1
<1>12. \A i \in 0..N : check[i] \in V
  <2> DEFINE A == {i \in 0..N : check[i] \in V}
  <2> HIDE DEF Body, V, a, Solves, F
  <2>1. 0 \in A
    BY <1>1, <1>10
  <2>2. \A i \in 1..N : i-1 \in A => i \in A
    BY <1>1, <1>2, <1>11
  <2>3. A \in SUBSET (0..N)
    OBVIOUS
  <2> HIDE DEF A
  <2>4. A = 0..N
    BY <1>1, <2>1, <2>2, <2>3, Induction
  <2> QED BY <2>4 DEF A
<1>13. \A i \in 0..N : Narrowed(ps, check[i].promises) /\ check[i].hard \in BOOLEAN
  BY <1>12
<1> HIDE DEF Solves, V, F
<1>14. Rounds(check, N, tr, E, ps, h, list, w)
  BY <1>9, <1>10, <1>11, <1>13 DEF Rounds
<1> QED BY <1>14

LEMMA CheckAllSound ==
    ASSUME NEW tr, NEW kn, NEW ps, NEW st, Fitting(tr, kn, ps),
           \A i \in DOMAIN tr : i \in kn[tr[i].tid],
           NEW f, Completing(tr, kn, ps, st, f), \A k \in DOMAIN ps : f[k] \in ps[k].available,
           NEW E, E \subseteq Coh(tr, kn, ps, f),
           NEW w, w \in Stores(tr), NEW list \in Seq(Nat),
           \A i \in 1..Len(list) : list[i] \in DOMAIN tr /\ StoreIn(tr, list[i]) = w,
           NEW r, r = CheckAll(tr, E, ps, FALSE, list, w)
    PROVE  ~r.hard /\ \A k \in DOMAIN ps : f[k] \in r.promises[k].available
<1> DEFINE N == Len(list)
<1>1. N \in Nat /\ ps \in Seq(PromiseSet)
  BY DEF Fitting
<1>11. PICK u : Rounds(u, N, tr, E, ps, FALSE, list, w)
  BY <1>1, CheckAllRounds
<1>2. /\ u[0] = [promises |-> ps, hard |-> FALSE]
      /\ \A i \in 1..N : u[i] = Round(tr, E, u[i-1], tr[list[i]], w)
      /\ \A i \in 0..N : Narrowed(ps, u[i].promises) /\ u[i].hard \in BOOLEAN
      /\ r = u[N]
  BY <1>11 DEF Rounds
<1> DEFINE A == {i \in 0..N : ~u[i].hard /\ \A k \in DOMAIN ps : f[k] \in u[i].promises[k].available}
<1>3. 0 \in A
  BY <1>1, <1>2
<1>4. ASSUME NEW i \in 1..N, i-1 \in A PROVE i \in A
  <2> DEFINE qs == u[i-1].promises
             x == u[i]
             b == list[i]
             y == mo_check_promises(tr, E, qs, tr[b], w)
  <2>1. /\ ~u[i-1].hard /\ Narrowed(ps, qs) /\ \A k \in DOMAIN ps : f[k] \in qs[k].available
        /\ b \in DOMAIN tr /\ StoreIn(tr, b) = w
    BY <1>1, <1>2, <1>4
  <2>6. x.hard = (u[i-1].hard \/ y.hard) /\ x.promises = y.promises
    <3>1. x = [promises |-> y.promises, hard |-> u[i-1].hard \/ y.hard]
      BY <1>2 DEF Round
    <3> HIDE DEF x, y
    <3> QED BY <3>1
  <2>7. y = mo_check_promises(tr, E, qs, tr[b], w)
    OBVIOUS
  <2> HIDE DEF qs, x, b, A, y
  <2>2. /\ Fitting(tr, kn, qs) /\ Coh(tr, kn, qs, f) = Coh(tr, kn, ps, f)
        /\ Completing(tr, kn, qs, st, f) /\ DOMAIN qs = DOMAIN ps
    BY <2>1, NarrowedSame DEF Narrowed
  <2>3. E \subseteq Coh(tr, kn, qs, f) /\ \A k \in DOMAIN qs : f[k] \in qs[k].available
    BY <2>1, <2>2
  <2>4. ~y.hard /\ \A k \in DOMAIN qs : f[k] \in y.promises[k].available
    BY <2>1, <2>2, <2>3, <2>7, CheckSound
  <2>5. i \in 0..N
    BY <1>1
  <2> QED BY <2>1, <2>2, <2>4, <2>5, <2>6 DEF A, x
<1>5. A \in SUBSET (0..N)
  OBVIOUS
<1> HIDE DEF A
<1>6. A = 0..N
  BY <1>1, <1>3, <1>4, <1>5, Induction
<1>7. N \in A
  BY <1>1, <1>6
<1> QED BY <1>2, <1>7 DEF A
\* The name of node m when store w has taken the place of promise node p.
Renamed(p, w, m) == IF m = p THEN w ELSE m

LEMMA MergedIs ==
    ASSUME NEW E, NEW p, NEW w
    PROVE  /\ \A e \in E : Renamed(p, w, e[1]) # Renamed(p, w, e[2]) =>
                 <<Renamed(p, w, e[1]), Renamed(p, w, e[2])>> \in Merged(E, p, w)
           /\ \A d \in Merged(E, p, w) : \E e \in E :
                 /\ Renamed(p, w, e[1]) # Renamed(p, w, e[2])
                 /\ d = <<Renamed(p, w, e[1]), Renamed(p, w, e[2])>>
BY DEF Merged, Renamed

\* In trace tr2 store w is read where tr had promise node p.
Renames(tr, tr2, p, w) ==
    /\ DOMAIN tr2 = DOMAIN tr
    /\ \A i \in DOMAIN tr : /\ tr2[i].hb = tr[i].hb /\ tr2[i].op = tr[i].op
                            /\ StoreIn(tr2, i) = Renamed(p, w, StoreIn(tr, i))

LEMMA MergeGraph ==
    ASSUME NEW tr \in Seq(Actions), NEW ps \in Seq(PromiseSet), NEW c, NEW E,
           GraphOf(tr, ps, E), Grounded(tr, ps, c, E), Ordered(tr, E),
           NEW tr2 \in Seq(Actions), NEW qs \in Seq(PromiseSet), ReadsOf(tr2, qs),
           NEW k \in DOMAIN ps, NEW fwd, NEW back, Rest(ps, qs, k, fwd, back),
           NEW p, p = Node(ps[k].id), \A i \in DOMAIN ps : Node(ps[i].id) = p => i = k,
           NEW w \in Stores(tr), w # p, \A i \in DOMAIN ps : Node(ps[i].id) # w, Renames(tr, tr2, p, w),
           NEW t, t \in ps[k].available, c[t] = tr[w].hb,
           \A u \in Threads : c[u] \subseteq DOMAIN tr,
           NEW F, F = Merged(E, p, w)
    PROVE  GraphOf(tr2, qs, F) /\ Grounded(tr2, qs, c, F) /\ Ordered(tr2, F)
<1> DEFINE M == Stores(tr) \cup Ids(ps)
           M2 == Stores(tr2) \cup Ids(qs)
           To(m) == Renamed(p, w, m)
<1>1. /\ \A e \in E : To(e[1]) # To(e[2]) => <<To(e[1]), To(e[2])>> \in F
      /\ \A d \in F : \E e \in E : To(e[1]) # To(e[2]) /\ d = <<To(e[1]), To(e[2])>>
  BY MergedIs
<1>2. Stores(tr2) = Stores(tr)
  BY DEF Renames, Stores
<1>3. ASSUME NEW m \in M PROVE To(m) \in M2
  <2>1. CASE m = p
    BY <1>2, <2>1 DEF Renamed
  <2>2. CASE m # p /\ m \in Stores(tr)
    BY <1>2, <2>2 DEF Renamed
  <2>3. CASE m # p /\ m \in Ids(ps)
    <3>1. PICK i \in DOMAIN ps : m = Node(ps[i].id)
      BY <2>3 DEF Ids
    <3>2. i \in DOMAIN ps \ {k}
      BY <2>3, <3>1
    <3>3. back[i] \in DOMAIN qs /\ qs[back[i]] = ps[i]
      BY <3>2 DEF Rest
    <3> QED BY <2>3, <3>1, <3>3 DEF Ids, Renamed
  <2> QED BY <2>1, <2>2, <2>3
<1>4. E \subseteq M \X M /\ IsFiniteSet(E)
  BY DEF GraphOf
<1>5. IsFiniteSet(M2)
  BY NodeNumbers
<1> HIDE DEF M, M2
<1>6. F \in SUBSET (M2 \X M2)
  <2> SUFFICES ASSUME NEW d \in F PROVE d \in M2 \X M2
    OBVIOUS
  <2>1. PICK e \in E : d = <<To(e[1]), To(e[2])>>
    BY <1>1
  <2>2. e[1] \in M /\ e[2] \in M
    BY <1>4
  <2> QED BY <1>3, <2>1, <2>2
<1>7. IsFiniteSet(F)
  BY <1>5, <1>6, FS_Product, FS_Subset
<1>8. GraphOf(tr2, qs, F)
  BY <1>6, <1>7 DEF GraphOf, M2
<1>9. w \in DOMAIN tr /\ StoreIn(tr, w) = w /\ StoreIn(tr2, w) = w
  <2>1. w \in DOMAIN tr /\ StoreIn(tr, w) = w
    BY DEF Stores, StoreIn
  <2> QED BY <2>1 DEF Renames, Renamed
<1>13. \A i \in DOMAIN ps : \A u \in ps[i].available : c[u] \subseteq DOMAIN tr
  <2>1. \A i \in DOMAIN ps : ps[i] \in PromiseSet
    OBVIOUS
  <2>2. \A i \in DOMAIN ps : ps[i].available \subseteq Threads
    BY <2>1 DEF PromiseSet
  <2> QED BY <2>2
<1>10. ASSUME NEW d \in F PROVE Known(tr2, d) \/ Kept(tr2, qs, c, d)
  <2>1. PICK e \in E : To(e[1]) # To(e[2]) /\ d = <<To(e[1]), To(e[2])>>
    BY <1>1
  <2>2. d[1] = To(e[1]) /\ d[2] = To(e[2]) /\ d[1] # d[2]
    BY <2>1
  <2> HIDE DEF To
  <2>3. CASE Known(tr, e)
    <3>1. PICK i, j \in DOMAIN tr :
             i \in tr[j].hb /\ StoreIn(tr, i) = e[1] /\ StoreIn(tr, j) = e[2] /\ e[1] # e[2]
      BY <2>3 DEF Known
    <3>2. /\ i \in DOMAIN tr2 /\ j \in DOMAIN tr2 /\ i \in tr2[j].hb
          /\ StoreIn(tr2, i) = d[1] /\ StoreIn(tr2, j) = d[2]
      BY <2>2, <3>1 DEF Renames, To
    <3> QED BY <2>2, <3>2 DEF Known
  <2>4. CASE Kept(tr, ps, c, e)
    <3>1. PICK i \in DOMAIN ps : e[2] = Node(ps[i].id) /\ \A u \in ps[i].available :
                                   \E a \in c[u] : StoreIn(tr, a) = e[1] /\ e[1] # e[2]
      BY <2>4 DEF Kept
    <3>2. ASSUME NEW a, a \in DOMAIN tr, StoreIn(tr, a) = e[1] PROVE StoreIn(tr2, a) = d[1]
      BY <2>2, <3>2 DEF Renames, To
    <3>3. CASE i = k
      <4>1. PICK a \in c[t] : StoreIn(tr, a) = e[1]
        BY <3>1, <3>3
      <4>2. a \in tr2[w].hb /\ w \in DOMAIN tr2
        BY <1>9, <4>1 DEF Renames
      <4>3. d[2] = w
        BY <2>2, <3>1, <3>3 DEF To, Renamed
      <4>4. a \in DOMAIN tr
        BY <1>13, <4>1
      <4> QED BY <1>9, <2>2, <3>2, <4>1, <4>2, <4>3, <4>4 DEF Known, Renames
    <3>4. CASE i # k
      <4>1. back[i] \in DOMAIN qs /\ qs[back[i]] = ps[i]
        BY <3>4 DEF Rest
      <4>2. d[2] = Node(ps[i].id)
        BY <2>2, <3>1, <3>4 DEF To, Renamed
      <4>3. ASSUME NEW u \in ps[i].available PROVE \E a \in c[u] : StoreIn(tr2, a) = d[1] /\ d[1] # d[2]
        <5>1. PICK a \in c[u] : StoreIn(tr, a) = e[1]
          BY <3>1
        <5>2. a \in DOMAIN tr
          BY <1>13, <5>1
        <5> QED BY <2>2, <3>2, <5>1, <5>2
      <4> QED BY <4>1, <4>2, <4>3 DEF Kept
    <3> QED BY <3>3, <3>4
  <2> QED BY <2>3, <2>4 DEF Grounded
<1>11. ASSUME NEW i \in DOMAIN tr, NEW j \in DOMAIN tr, i \in tr[j].hb
       PROVE  To(StoreIn(tr, j)) \in Reach(F, To(StoreIn(tr, i)))
  <2> DEFINE R == Reach(F, To(StoreIn(tr, i)))
             T == {x \in M \cup {StoreIn(tr, i)} : To(x) \in R}
  <2>1. To(StoreIn(tr, i)) \in R /\ \A d \in F : d[1] \in R => d[2] \in R
    BY <1>7, ReachFacts
  <2> HIDE DEF R, To
  <2>2. StoreIn(tr, i) \in T
    BY <2>1
  <2>3. ASSUME NEW e \in E, e[1] \in T PROVE e[2] \in T
    <3>1. e[2] \in M
      BY <1>4
    <3>2. To(e[2]) \in R
      <4>1. CASE To(e[1]) = To(e[2])
        BY <2>3, <4>1
      <4>2. CASE To(e[1]) # To(e[2])
        <5> DEFINE d == <<To(e[1]), To(e[2])>>
        <5>1. d \in F /\ d[1] = To(e[1]) /\ d[2] = To(e[2])
          BY <1>1, <4>2 DEF To
        <5> HIDE DEF d
        <5> QED BY <2>1, <2>3, <5>1
      <4> QED BY <4>1, <4>2
    <3> QED BY <3>1, <3>2
  <2> HIDE DEF T
  <2>4. Reach(E, StoreIn(tr, i)) \subseteq T
    BY <1>4, <2>2, <2>3, ReachFacts
  <2>5. StoreIn(tr, j) \in Reach(E, StoreIn(tr, i))
    BY <1>11 DEF Ordered
  <2> QED BY <2>4, <2>5 DEF T, R
<1>12. Ordered(tr2, F)
  BY <1>11 DEF Ordered, Renames
<1> QED BY <1>8, <1>10, <1>12 DEF Grounded
NodeOf(ps, k, p) ==
    p = Node(ps[k].id) /\ \A i \in DOMAIN ps : Node(ps[i].id) \notin Nat /\ (Node(ps[i].id) = p => i = k)
Replaces(tr, tr2, p, n) ==
    /\ n \in Stores(tr2) /\ n \in Nat /\ n \notin DOMAIN tr /\ DOMAIN tr \subseteq DOMAIN tr2
    /\ \A i \in DOMAIN tr : tr2[i].hb = tr[i].hb /\ StoreIn(tr2, i) = Renamed(p, n, StoreIn(tr, i))
Learned(kn, st, kn2, st2) ==
    \A u \in Threads : kn[u] \subseteq kn2[u] /\ (st[u] = "complete" => st2[u] = "complete")

\* A completion after the store tells one before it, in which its thread keeps the promise.
LEMMA ResolveBack ==
    ASSUME NEW tr, NEW kn, NEW ps, NEW st, Fitting(tr, kn, ps),
           NEW tr2, NEW kn2, NEW qs, NEW st2, Fitting(tr2, kn2, qs),
           NEW g, Completing(tr2, kn2, qs, st2, g),
           NEW k \in DOMAIN ps, NEW fwd, NEW back, Rest(ps, qs, k, fwd, back),
           NEW p, NodeOf(ps, k, p), NEW n, Replaces(tr, tr2, p, n), Learned(kn, st, kn2, st2),
           NEW t \in Threads, AbleIn(ps[k], t, kn, st), kn[t] \subseteq tr2[n].hb,
           NEW f, f = [i \in DOMAIN ps |-> IF i = k THEN t ELSE g[back[i]]]
    PROVE  Completing(tr, kn, ps, st, f)
<1> DEFINE To == [x \in Int |-> Renamed(p, n, x)]
           C == Coh(tr2, kn2, qs, g)
<1>0. /\ p = Node(ps[k].id) /\ \A i \in DOMAIN ps : Node(ps[i].id) \notin Nat
      /\ \A i \in DOMAIN ps : Node(ps[i].id) = p => i = k
      /\ n \in Stores(tr2) /\ n \in Nat /\ n \notin DOMAIN tr /\ DOMAIN tr \subseteq DOMAIN tr2
      /\ \A i \in DOMAIN tr : tr2[i].hb = tr[i].hb /\ StoreIn(tr2, i) = Renamed(p, n, StoreIn(tr, i))
      /\ \A u \in Threads : kn[u] \subseteq kn2[u] /\ (st[u] = "complete" => st2[u] = "complete")
  BY DEF NodeOf, Replaces, Learned
<1>1. g \in [DOMAIN qs -> Threads] /\ \A j \in DOMAIN qs : AbleIn(qs[j], g[j], kn2, st2)
  BY DEF Completing
<1>2. \A i \in DOMAIN ps : i # k => back[i] \in DOMAIN qs /\ qs[back[i]] = ps[i]
  BY DEF Rest
<1>3. /\ f \in [DOMAIN ps -> Threads] /\ f[k] = t
      /\ \A i \in DOMAIN ps : i # k => f[i] = g[back[i]] /\ f[i] \in Threads
  BY <1>1, <1>2
<1>4. ASSUME NEW i \in DOMAIN ps PROVE AbleIn(ps[i], f[i], kn, st)
  <2>1. CASE i = k
    BY <1>3, <2>1
  <2>2. CASE i # k
    <3>1. AbleIn(ps[i], f[i], kn2, st2) /\ f[i] \in Threads
      BY <1>1, <1>2, <1>3, <2>2
    <3> QED BY <1>0, <3>1 DEF AbleIn
  <2> QED BY <2>1, <2>2
<1>5. /\ \A i \in DOMAIN tr : StoreIn(tr, i) \in Stores(tr) \cup Ids(ps)
      /\ Stores(tr) \cup Ids(ps) \subseteq Int
  BY NodeNumbers DEF Fitting
<1>6. n \notin Stores(tr) \cup Ids(ps) /\ StoreIn(tr2, n) = n /\ n \in DOMAIN tr2
  BY <1>0 DEF Stores, Ids, StoreIn
<1>7. \A j \in DOMAIN qs : Node(qs[j].id) # p
  BY <1>0 DEF Rest
<1>8. ASSUME NEW i \in kn[t] PROVE StoreIn(tr, i) # p /\ i \in DOMAIN tr
  <2>1. i \in DOMAIN tr /\ i \in Nat
    BY DEF Fitting
  <2>2. i # p /\ i \notin ToSet(ps[k].readers)
    BY <1>0, <2>1 DEF AbleIn
  <2>3. tr[i].rf # p
    BY <1>0, <2>1, <2>2 DEF Fitting, ReadsOf
  <2> QED BY <2>1, <2>2, <2>3 DEF StoreIn
<1> HIDE DEF C
<1>9. /\ \A i, j \in DOMAIN tr2 : i \in tr2[j].hb /\ StoreIn(tr2, i) # StoreIn(tr2, j) =>
                 <<StoreIn(tr2, i), StoreIn(tr2, j)>> \in C
      /\ \A k1 \in DOMAIN qs : \A i \in kn2[g[k1]] : <<StoreIn(tr2, i), Node(qs[k1].id)>> \in C
  BY <1>1, CohFacts DEF C
<1>10. \A i \in DOMAIN tr : To[StoreIn(tr, i)] = StoreIn(tr2, i)
  BY <1>0, <1>5
<1>11. ASSUME NEW e \in Coh(tr, kn, ps, f) PROVE <<To[e[1]], To[e[2]]>> \in C
  <2>1. CASE \E i, j \in DOMAIN tr : i \in tr[j].hb /\ StoreIn(tr, i) # StoreIn(tr, j)
                                     /\ e = <<StoreIn(tr, i), StoreIn(tr, j)>>
    <3>1. PICK i, j \in DOMAIN tr : i \in tr[j].hb /\ StoreIn(tr, i) # StoreIn(tr, j)
                                    /\ e = <<StoreIn(tr, i), StoreIn(tr, j)>>
      BY <2>1
    <3>2. i \in DOMAIN tr2 /\ j \in DOMAIN tr2 /\ i \in tr2[j].hb
      BY <1>0, <3>1
    <3>3. StoreIn(tr2, i) # StoreIn(tr2, j)
      BY <1>0, <1>5, <1>6, <3>1 DEF Renamed
    <3>4. To[e[1]] = StoreIn(tr2, i) /\ To[e[2]] = StoreIn(tr2, j)
      BY <1>10, <3>1
    <3> QED BY <1>9, <3>2, <3>3, <3>4
  <2>2. CASE \E k1 \in DOMAIN ps : \E i \in kn[f[k1]] : e = <<StoreIn(tr, i), Node(ps[k1].id)>>
    <3>0. PICK k1 \in DOMAIN ps : \E i \in kn[f[k1]] : e = <<StoreIn(tr, i), Node(ps[k1].id)>>
      BY <2>2
    <3>1. PICK i \in kn[f[k1]] : e = <<StoreIn(tr, i), Node(ps[k1].id)>>
      BY <3>0
    <3>2. i \in DOMAIN tr /\ f[k1] \in Threads
      BY <1>3, <3>1 DEF Fitting
    <3>3. To[e[1]] = StoreIn(tr2, i)
      BY <1>10, <3>1, <3>2
    <3>4. Node(ps[k1].id) \in Int /\ To[e[2]] = Renamed(p, n, Node(ps[k1].id))
      <4>1. Node(ps[k1].id) \in Int
        BY <1>5 DEF Ids
      <4> QED BY <3>1, <4>1
    <3>5. CASE k1 = k
      <4>1. i \in kn[t]
        BY <1>3, <3>1, <3>5
      <4>2. StoreIn(tr2, i) # n /\ i \in tr2[n].hb /\ i \in DOMAIN tr2
        BY <1>0, <1>5, <1>6, <1>8, <4>1 DEF Renamed
      <4>3. To[e[2]] = n
        BY <1>0, <3>4, <3>5 DEF Renamed
      <4> QED BY <1>6, <1>9, <3>3, <4>2, <4>3
    <3>6. CASE k1 # k
      <4>1. To[e[2]] = Node(ps[k1].id)
        BY <1>0, <3>4, <3>6 DEF Renamed
      <4>2. back[k1] \in DOMAIN qs /\ qs[back[k1]] = ps[k1] /\ f[k1] = g[back[k1]]
        BY <1>2, <1>3, <3>6
      <4>3. i \in kn2[g[back[k1]]]
        BY <1>0, <3>1, <3>2, <4>2
      <4> QED BY <1>9, <3>3, <4>1, <4>2, <4>3
    <3> QED BY <3>5, <3>6
  <2> QED BY <2>1, <2>2 DEF Coh
<1> HIDE DEF To
<1> QED BY <1>3, <1>4, <1>11, CompletionBack DEF C
\* The trace when store n, by thread t, has taken the place of promise node p.
Resolves(tr, t, v, n, p) ==
    /\ Goes(trace, tr, t, cv[t] \cup {n}) /\ n = Number /\ tr[n] = Access(t, "W", v, NONE)
    /\ DOMAIN tr = DOMAIN trace \cup {n} /\ n \notin DOMAIN trace /\ n \in Nat \ {0}
    /\ \A i \in DOMAIN trace : /\ tr[i].op = trace[i].op /\ tr[i].hb = trace[i].hb
                               /\ tr[i].rf = IF trace[i].rf = p THEN n ELSE trace[i].rf
                               /\ StoreIn(tr, i) = Renamed(p, n, StoreIn(trace, i))

LEMMA ResolvedTrace ==
    ASSUME Types, Clocks, Reads, NEW t \in Threads, NEW v \in Values, NEW k \in DOMAIN promises,
           NEW p, p = Node(promises[k].id), NEW act, act = Access(t, "W", v, NONE),
           NEW n, n = Number, NEW tr,
           tr = [i \in 1..n |-> IF i = n THEN act
                                ELSE IF trace[i].rf = p THEN [trace[i] EXCEPT !.rf = n] ELSE trace[i]]
    PROVE  Resolves(tr, t, v, n, p)
<1>1. trace \in Seq(Actions) /\ cv \in [Threads -> SUBSET Nat] /\ Len(trace) \in Nat
  BY DEF Types
<1>2. n = Len(trace) + 1 /\ n \in Nat \ {0}
  BY <1>1 DEF Number
<1>3. act \in Actions /\ act.tid = t /\ act.hb = cv[t] \cup {n} /\ act.op = "W"
  BY <1>1, <1>2 DEF Access, Actions
<1>4. DOMAIN trace \cup {n} = 1..n /\ n \notin DOMAIN trace /\ DOMAIN trace \subseteq Nat \ {0}
  BY <1>1, <1>2
<1>5. p < 0 /\ p \notin Nat
  BY PromiseNodes
<1>6. tr[n] = act /\ DOMAIN tr = 1..n
  BY <1>2
<1>7. ASSUME NEW i \in DOMAIN trace
      PROVE  /\ tr[i] \in Actions
             /\ tr[i].op = trace[i].op /\ tr[i].hb = trace[i].hb /\ tr[i].tid = trace[i].tid
             /\ tr[i].rf = IF trace[i].rf = p THEN n ELSE trace[i].rf
  <2>1. trace[i] \in Actions
    BY <1>1
  <2>2. tr[i] = IF trace[i].rf = p THEN [trace[i] EXCEPT !.rf = n] ELSE trace[i]
    BY <1>4
  <2>3. CASE trace[i].rf = p
    <3> DEFINE a == trace[i]
               b == tr[i]
    <3>1. a \in Actions /\ b = [a EXCEPT !.rf = n] /\ n \in Int
      BY <1>2, <2>1, <2>2, <2>3
    <3> HIDE DEF a, b
    <3>2. b \in Actions /\ b.op = a.op /\ b.hb = a.hb /\ b.tid = a.tid /\ b.rf = n
      BY <3>1 DEF Actions
    <3> QED BY <2>3, <3>2 DEF a, b
  <2>4. CASE trace[i].rf # p
    BY <2>1, <2>2, <2>4
  <2> QED BY <2>3, <2>4
<1>8. ASSUME NEW i \in DOMAIN trace PROVE StoreIn(tr, i) = Renamed(p, n, StoreIn(trace, i))
  <2>1. i # p
    BY <1>4, <1>5
  <2> QED BY <1>7, <2>1 DEF StoreIn, Renamed
<1>9. tr \in Seq(Actions) /\ Len(tr) = n
  <2>1. \A i \in 1..n : tr[i] \in Actions
    BY <1>3, <1>4, <1>6, <1>7
  <2>2. tr \in [1..n -> Actions]
    BY <1>6, <2>1
  <2> QED BY <1>2, <2>2
<1>10. Goes(trace, tr, t, cv[t] \cup {n})
  BY <1>2, <1>3, <1>6, <1>7, <1>9 DEF Goes
<1> QED BY <1>2, <1>4, <1>6, <1>7, <1>8, <1>10 DEF Resolves

LEMMA ResolvedReads ==
    ASSUME Types, Clocks, Reads, NEW t \in Threads, NEW v, NEW k \in DOMAIN promises,
           NEW p, p = Node(promises[k].id), NEW n, NEW tr, Resolves(tr, t, v, n, p),
           ToSet(promises[k].readers) \cap cv[t] = {},
           NEW qs, NEW fwd, NEW back, Rest(promises, qs, k, fwd, back)
    PROVE  ReadsOf(tr, qs) /\ Available(qs, state) /\ Named(qs, made)
<1>1. /\ tr[n].op = "W" /\ tr[n].rf = NONE /\ tr[n].hb = cv[t] \cup {n}
      /\ tr \in Seq(Actions) /\ n \in Nat
  BY DEF Resolves, Access, Goes
<1>2. Stores(tr) = Stores(trace) \cup {n}
  BY <1>1 DEF Resolves, Stores
<1>3. ASSUME NEW m \in Ids(promises), m # p PROVE m \in Ids(qs)
  <2>1. PICK i \in DOMAIN promises : m = Node(promises[i].id)
    BY DEF Ids
  <2>2. i # k
    BY <1>3, <2>1
  <2>3. back[i] \in DOMAIN qs /\ qs[back[i]] = promises[i]
    BY <2>2 DEF Rest
  <2> QED BY <2>1, <2>3 DEF Ids
<1>4. ASSUME NEW j \in DOMAIN qs
      PROVE  /\ fwd[j] \in DOMAIN promises /\ fwd[j] # k /\ qs[j] = promises[fwd[j]]
             /\ Node(qs[j].id) # p /\ Node(qs[j].id) \notin Nat /\ Node(qs[j].id) \in Int
  <2>1. fwd[j] \in DOMAIN promises /\ fwd[j] # k /\ qs[j] = promises[fwd[j]]
    BY DEF Rest
  <2>2. qs[j].id # promises[k].id
    BY <2>1 DEF Reads, Named
  <2>3. qs[j].id \in Nat /\ promises[k].id \in Nat
    BY <2>1, PromiseNodes DEF PromiseSet
  <2>4. Node(qs[j].id) # p
    BY <2>2, <2>3 DEF Node
  <2> QED BY <2>1, <2>4, PromiseNodes
<1>5. p \notin Nat /\ p \in Int /\ p # NONE /\ n # NONE
  BY <1>1, PromiseNodes, PromisesAssumption
<1>6. \A s \in Stores(tr) : s \in Nat /\ s \in DOMAIN tr
  BY <1>1 DEF Stores
<1>7. ASSUME NEW i \in DOMAIN tr
      PROVE  /\ tr[i].op = "W" => tr[i].rf = NONE
             /\ tr[i].op = "R" => /\ tr[i].rf \in Stores(tr) \cup Ids(qs)
                                  /\ tr[i].rf \in Stores(tr) => i \notin tr[tr[i].rf].hb
  <2>1. CASE i = n
    BY <1>1, <2>1
  <2>2. CASE i \in DOMAIN trace
    <3>1. /\ tr[i].op = trace[i].op /\ tr[i].rf = IF trace[i].rf = p THEN n ELSE trace[i].rf
          /\ i # n
      BY <2>2 DEF Resolves
    <3>2. /\ trace[i].op = "W" => trace[i].rf = NONE
          /\ trace[i].op = "R" => /\ trace[i].rf \in Stores(trace) \cup Ids(promises)
                                  /\ trace[i].rf \in Stores(trace) => i \notin trace[trace[i].rf].hb
      BY <2>2 DEF Reads, ReadsOf
    <3>3. CASE trace[i].rf = p
      <4>1. i \in ToSet(promises[k].readers)
        BY <2>2, <3>3 DEF Reads, ReadsOf
      <4>2. i \notin tr[n].hb
        BY <1>1, <3>1, <4>1
      <4> QED BY <1>2, <1>5, <3>1, <3>2, <3>3, <4>2
    <3>4. CASE trace[i].rf # p
      <4>1. tr[i].rf = trace[i].rf
        BY <3>1, <3>4
      <4>2. trace[i].op = "R" /\ trace[i].rf \in Ids(promises) => trace[i].rf \in Ids(qs)
        BY <1>3, <3>4
      <4>3. \A m \in Ids(qs) : m \notin Stores(tr)
        BY <1>4, <1>6 DEF Ids
      <4>4. \A s \in Stores(trace) : tr[s].hb = trace[s].hb
        BY DEF Resolves, Stores
      <4> QED BY <1>2, <3>1, <3>2, <4>1, <4>2, <4>3, <4>4
    <3> QED BY <3>3, <3>4
  <2> QED BY <2>1, <2>2 DEF Resolves
<1>8. ASSUME NEW j \in DOMAIN qs
      PROVE  /\ qs[j].readers # <<>>
             /\ \A i \in DOMAIN tr : tr[i].rf = Node(qs[j].id) <=> i \in ToSet(qs[j].readers)
             /\ ToSet(qs[j].readers) \subseteq DOMAIN tr
  <2>1. /\ qs[j].readers # <<>>
        /\ \A i \in DOMAIN trace : trace[i].rf = Node(qs[j].id) <=> i \in ToSet(qs[j].readers)
        /\ ToSet(qs[j].readers) \subseteq DOMAIN trace
    BY <1>4 DEF Reads, ReadsOf
  <2>2. ASSUME NEW i \in DOMAIN tr PROVE tr[i].rf = Node(qs[j].id) <=> i \in ToSet(qs[j].readers)
    <3>1. CASE i = n
      <4>1. tr[i].rf # Node(qs[j].id)
        BY <1>1, <1>4, <3>1, PromisesAssumption
      <4>2. n \notin DOMAIN trace
        BY DEF Resolves
      <4> QED BY <2>1, <3>1, <4>1, <4>2
    <3>2. CASE i \in DOMAIN trace
      <4>1. tr[i].rf = IF trace[i].rf = p THEN n ELSE trace[i].rf
        BY <3>2 DEF Resolves
      <4>2. n # Node(qs[j].id) /\ p # Node(qs[j].id)
        BY <1>1, <1>4
      <4> QED BY <2>1, <3>2, <4>1, <4>2
    <3> QED BY <3>1, <3>2 DEF Resolves
  <2>3. DOMAIN trace \subseteq DOMAIN tr
    BY DEF Resolves
  <2> QED BY <2>1, <2>2, <2>3
<1>9. ReadsOf(tr, qs)
  BY <1>7, <1>8 DEF ReadsOf
<1>10. Available(qs, state)
  BY <1>4 DEF Available, Reads
<1>11. Named(qs, made)
  <2>1. ASSUME NEW i \in DOMAIN qs, NEW j \in DOMAIN qs, qs[i].id = qs[j].id PROVE i = j
    <3>1. fwd[i] = fwd[j]
      BY <1>4, <2>1 DEF Reads, Named
    <3> QED BY <3>1 DEF Rest
  <2>2. \A j \in DOMAIN qs : qs[j].id \in 1..made
    BY <1>4 DEF Reads, Named
  <2> QED BY <2>1, <2>2 DEF Named
<1> QED BY <1>9, <1>10, <1>11
\* What a store adds to modification order.
LEMMA WrittenGraph ==
    ASSUME Types, Clocks, Reads, Graph, NEW t \in Threads, NEW v \in Values, Accessed(t),
           cv'[t] = cv[t] \cup {Number},
           NEW tr, tr = Append(trace, Access(t, "W", v, NONE)), NEW F,
           F = mo \cup w_modification_order(promises, t, Number)
    PROVE  /\ Appended(tr, t, "W", v, NONE)
           /\ GraphOf(tr, promises, F) /\ Grounded(tr, promises, cv', F) /\ Ordered(tr, F)
<1>1. trace \in Seq(Actions) /\ promises \in Seq(PromiseSet)
  BY DEF Types
<1>2. Appended(tr, t, "W", v, NONE)
  BY Appending
<1>3. ASSUME NEW k \in DOMAIN promises
      PROVE  /\ Node(promises[k].id) \notin Nat /\ NONE # Node(promises[k].id)
             /\ Number # Node(promises[k].id)
  <2>1. Node(promises[k].id) \in Int /\ Node(promises[k].id) \notin Nat
    BY PromiseNodes
  <2>2. Number \in Nat /\ NONE \notin Int
    BY <1>2, PromisesAssumption DEF Appended
  <2> QED BY <2>1, <2>2
<1>4. ReadsOf(tr, promises)
  <2>1. ASSUME NEW k \in DOMAIN promises
        PROVE  /\ promises[k].readers # <<>> /\ ToSet(promises[k].readers) \subseteq DOMAIN tr
               /\ NONE = Node(promises[k].id) <=> Number \in ToSet(promises[k].readers)
               /\ \A j \in DOMAIN trace :
                     trace[j].rf = Node(promises[k].id) <=> j \in ToSet(promises[k].readers)
    BY <1>2, <1>3, ReadersKnown
  <2>2. ReadersFit(tr, promises, NONE)
    BY <2>1 DEF ReadersFit
  <2> QED BY <1>2, <1>3, <2>2, ReadsGo
<1>5. Follows(trace, promises, cv, tr, promises, cv', Number, Number)
  BY <1>2, AppendFollows
<1>6. \A i \in cv[t] : StoreIn(trace, i) # Number
  <2>1. \A i \in cv[t] : i \in DOMAIN trace
    BY DEF Clocks, Closed
  <2>2. \A i \in DOMAIN trace : StoreIn(trace, i) \in Stores(trace) \cup Ids(promises)
    BY NodeNumbers DEF Types, Reads
  <2>3. Number \notin Stores(trace) \cup Ids(promises)
    BY <1>2, <1>3 DEF Appended, Stores, Ids
  <2> QED BY <2>1, <2>2, <2>3
<1>7. Adds(trace, promises, t, cv[t], Number, mo, F)
  BY <1>3, <1>6, OrderAdds
<1>8. tr \in Seq(Actions) /\ tr[Number].hb = cv[t] \cup {Number} /\ KnowsOwn(trace) /\ Number \in cv'[t]
  BY <1>2 DEF Appended, Goes, Access, Clocks, KnowsOwn
<1>9. GraphOf(trace, promises, mo) /\ Grounded(trace, promises, cv, mo) /\ Ordered(trace, mo)
  BY DEF Graph
<1>10. GraphOf(tr, promises, F) /\ Grounded(tr, promises, cv', F) /\ Ordered(tr, F)
  <2> DEFINE d == cv'
  <2>1. Follows(trace, promises, cv, tr, promises, d, Number, Number) /\ Number \in d[t]
    BY <1>5, <1>8
  <2> HIDE DEF d
  <2>2. GraphAt(tr, promises, d, F)
    BY <1>1, <1>4, <1>7, <1>8, <1>9, <2>1, AccessGraph
  <2> QED BY <2>2 DEF d, GraphAt
<1> QED BY <1>2, <1>10

LEMMA WriteResolvingStep ==
    ASSUME PInv, NEW t \in Threads, NEW v \in Values, WriteResolving(t, v)
    PROVE  PInv'
<1>1. Types /\ Waiting /\ Clocks /\ Reads /\ Graph /\ Hopeless /\ GivenUp /\ KnowledgeFits
  BY Afterwards DEF PInv
<1>2. PICK k \in compute_promises(t, v) :
        LET act == Access(t, "W", v, NONE)
            p == promises[k]
            Resolved(a) == IF a.rf = Node(p.id) THEN [a EXCEPT !.rf = Number] ELSE a
            tr == [i \in 1..Number |-> IF i = Number THEN act ELSE Resolved(trace[i])]
            E == Merged(mo \cup w_modification_order(promises, t, Number), Node(p.id), Number)
            r == CheckAll(tr, E, RemoveAt(promises, k), HasCycle(E), Append(p.readers, Number), Number)
        IN  /\ Accesses(t) /\ trace' = tr /\ Accessed(t) /\ mo' = E
            /\ promises' = r.promises /\ hard_failed_promise' = r.hard
            /\ made' = made /\ failed_promise' = failed_promise
  BY DEF WriteResolving
<1> DEFINE n == Number
           act == Access(t, "W", v, NONE)
           p == Node(promises[k].id)
           E1 == mo \cup w_modification_order(promises, t, n)
           E == Merged(E1, p, n)
           qs == RemoveAt(promises, k)
           list == Append(promises[k].readers, n)
           r == CheckAll(trace', E, qs, HasCycle(E), list, n)
<1>3. /\ k \in DOMAIN promises /\ t \in promises[k].available
      /\ ToSet(promises[k].readers) \cap cv[t] = {}
  BY DEF compute_promises, is_compatible, ToSet
<1>4. /\ Accesses(t) /\ Accessed(t) /\ mo' = E /\ made' = made /\ failed_promise' = failed_promise
      /\ promises' = r.promises /\ hard_failed_promise' = r.hard
      /\ trace' = [i \in 1..n |-> IF i = n THEN act
                                  ELSE IF trace[i].rf = p THEN [trace[i] EXCEPT !.rf = n] ELSE trace[i]]
  BY <1>2
<1> HIDE DEF E, E1, qs, list, r
<1>5. Resolves(trace', t, v, n, p)
  BY <1>1, <1>3, <1>4, ResolvedTrace
<1>6. Goes(trace, trace', t, cv[t] \cup {n}) /\ n \in Nat \ {0} /\ n \notin DOMAIN trace /\ n \in DOMAIN trace'
  BY <1>5 DEF Resolves
<1>7. promises \in Seq(PromiseSet) /\ trace \in Seq(Actions) /\ trace' \in Seq(Actions)
  BY <1>1, <1>6 DEF Types, Goes
<1>8. PICK fwd, back : Rest(promises, qs, k, fwd, back)
  BY <1>3, <1>7, RestFacts DEF qs
<1>9. ReadsOf(trace', qs) /\ Available(qs, state) /\ Named(qs, made) /\ qs \in Seq(PromiseSet)
  <2>1. qs \in Seq(PromiseSet)
    BY <1>8 DEF Rest
  <2> HIDE DEF n, p
  <2>2. p = Node(promises[k].id)
    BY DEF p
  <2> QED BY <1>1, <1>3, <1>5, <1>8, <2>1, <2>2, ResolvedReads
<1>10. /\ cv' \in [Threads -> SUBSET Nat] /\ state' = state /\ joining' = joining /\ released' = released
       /\ Len(trace') \in 1..MaxAccesses
       /\ state[t] = "ready" /\ joining[t] = NONE
       /\ \A u \in Threads : cv[u] \subseteq cv'[u]
       /\ cv'[t] = cv[t] \cup {n}
       /\ Waiting' /\ Clocks'
  BY <1>1, <1>4, <1>6, AccessClocks
<1>11. /\ list \in Seq(Nat) /\ Len(list) \in Nat
       /\ \A i \in 1..Len(list) : list[i] \in ToSet(promises[k].readers) \cup {n}
  <2> DEFINE s == promises[k].readers
  <2>1. promises[k] \in PromiseSet
    BY <1>3, <1>7
  <2>2. s \in Seq(Nat) /\ n \in Nat
    BY <1>6, <2>1 DEF PromiseSet
  <2>3. list = Append(s, n)
    BY DEF list
  <2> HIDE DEF s, n
  <2>4. list \in Seq(Nat) /\ Len(list) = Len(s) + 1 /\ Len(s) \in Nat
    BY <2>2, <2>3
  <2>5. ASSUME NEW i \in 1..Len(list) PROVE list[i] \in ToSet(s) \cup {n}
    <3>1. CASE i = Len(s) + 1
      BY <2>2, <2>3, <3>1
    <3>2. CASE i \in 1..Len(s)
      <4>1. list[i] = s[i] /\ i \in DOMAIN s
        BY <2>2, <2>3, <3>2
      <4> QED BY <4>1 DEF ToSet
    <3> QED BY <2>4, <3>1, <3>2
  <2> QED BY <2>4, <2>5 DEF s
<1>12. Narrowed(qs, promises') /\ r.hard \in BOOLEAN
  <2>1. HasCycle(E) \in BOOLEAN
    BY DEF HasCycle
  <2> DEFINE tr == trace'
             h == HasCycle(E)
  <2>2. r = CheckAll(tr, E, qs, h, list, n)
    BY DEF r
  <2> HIDE DEF tr, h
  <2>3. PICK u : Rounds(u, Len(list), tr, E, qs, h, list, n)
    BY <1>9, <1>11, <2>1, CheckAllRounds DEF h
  <2>4. r = u[Len(list)] /\ Len(list) \in 0..Len(list)
    BY <1>11, <2>2, <2>3 DEF Rounds
  <2> QED BY <1>4, <2>3, <2>4 DEF Rounds
<1>13. Types'
  BY <1>1, <1>4, <1>7, <1>10, <1>12 DEF Types, Narrowed
<1>14. Reads'
  BY <1>4, <1>9, <1>10, <1>12, NarrowedReads DEF Reads
<1>15. ASSUME NEW i \in DOMAIN promises
       PROVE  (Node(promises[i].id) = p => i = k) /\ Node(promises[i].id) \notin Nat /\ Node(promises[i].id) # n
  <2>1. promises[i].id \in Nat /\ promises[k].id \in Nat
    BY <1>1, <1>3, PromiseNodes DEF PromiseSet
  <2>2. Node(promises[i].id) = p => promises[i].id = promises[k].id
    BY <2>1 DEF Node
  <2>3. Node(promises[i].id) \notin Nat
    BY <1>1, PromiseNodes
  <2> QED BY <1>1, <1>3, <1>6, <2>2, <2>3 DEF Reads, Named
<1> DEFINE tr1 == Append(trace, act)
<1>16. /\ Appended(tr1, t, "W", v, NONE)
       /\ GraphOf(tr1, promises, E1) /\ Grounded(tr1, promises, cv', E1) /\ Ordered(tr1, E1)
  BY <1>1, <1>4, <1>10, WrittenGraph DEF E1
<1> HIDE DEF tr1
<1>17. Renames(tr1, trace', p, n) /\ n \in Stores(tr1) /\ tr1[n].hb = cv'[t] /\ tr1 \in Seq(Actions)
  <2>1. DOMAIN tr1 = DOMAIN trace' /\ tr1[n] = act /\ trace'[n] = act
    BY <1>5, <1>16 DEF Appended, Resolves
  <2>2. act.op = "W" /\ act.hb = cv[t] \cup {n}
    BY DEF Access
  <2>3. n # p
    BY <1>3, <1>15
  <2>4. \A i \in DOMAIN trace : tr1[i] = trace[i] /\ StoreIn(tr1, i) = StoreIn(trace, i)
    BY <1>16 DEF Appended
  <2>5. StoreIn(tr1, n) = n /\ StoreIn(trace', n) = n
    BY <2>1, <2>2 DEF StoreIn
  <2>6. DOMAIN tr1 = DOMAIN trace \cup {n}
    BY <1>16 DEF Appended
  <2>7. ASSUME NEW i \in DOMAIN tr1
        PROVE /\ trace'[i].hb = tr1[i].hb /\ trace'[i].op = tr1[i].op
              /\ StoreIn(trace', i) = Renamed(p, n, StoreIn(tr1, i))
    <3>1. CASE i = n
      BY <2>1, <2>3, <2>5, <3>1 DEF Renamed
    <3>2. CASE i \in DOMAIN trace
      BY <1>5, <2>4, <3>2 DEF Resolves
    <3> QED BY <2>6, <3>1, <3>2
  <2>8. Renames(tr1, trace', p, n)
    BY <2>1, <2>7 DEF Renames
  <2>9. tr1 \in Seq(Actions)
    BY <1>16 DEF Appended, Goes
  <2> QED BY <1>6, <1>10, <2>1, <2>2, <2>8, <2>9 DEF Stores
<1>18. GraphOf(trace', qs, E) /\ Grounded(trace', qs, cv', E) /\ Ordered(trace', E)
  <2> DEFINE tr == trace'
             d == cv'
  <2>1. /\ GraphOf(tr1, promises, E1) /\ Grounded(tr1, promises, d, E1) /\ Ordered(tr1, E1)
        /\ tr \in Seq(Actions) /\ ReadsOf(tr, qs) /\ Renames(tr1, tr, p, n) /\ d[t] = tr1[n].hb
    BY <1>7, <1>9, <1>16, <1>17
  <2>2. \A u \in Threads : d[u] \subseteq DOMAIN tr1
    <3>1. \A u \in Threads : cv'[u] \subseteq DOMAIN trace'
      BY <1>10 DEF Clocks, Closed
    <3> QED BY <1>17, <3>1 DEF Renames
  <2>3. E = Merged(E1, p, n) /\ p = Node(promises[k].id) /\ n # p
    BY <1>3, <1>15 DEF E
  <2>4. \A i \in DOMAIN promises : (Node(promises[i].id) = p => i = k) /\ Node(promises[i].id) # n
    BY <1>15
  <2> HIDE DEF tr, d, n, p
  <2>5. GraphOf(tr, qs, E) /\ Grounded(tr, qs, d, E) /\ Ordered(tr, E)
    BY <1>3, <1>7, <1>8, <1>9, <1>17, <2>1, <2>2, <2>3, <2>4, MergeGraph
  <2> QED BY <2>5 DEF tr, d
<1>19. Graph'
  BY <1>4, <1>9, <1>12, <1>18, NarrowedGraph DEF Graph
<1>20. KnowledgeFits'
  BY <1>10, <1>13, <1>14, Afterwards
<1>21. \A u \in Threads : Knowledge[u] \subseteq Knowledge'[u]
  BY <1>1, <1>10, KnowledgeGrows DEF Types
<1>22. ASSUME NEW g \in Completions'
       PROVE  /\ Completions # {}
              /\ \A j \in DOMAIN promises' : g[j] \in promises'[j].available
              /\ ~hard_failed_promise'
  <2> DEFINE tr == trace'
             kn == Knowledge'
             st == state'
             f == [i \in DOMAIN promises |-> IF i = k THEN t ELSE g[back[i]]]
  <2>1. Fitting(tr, kn, qs) /\ Fitting(trace, Knowledge, promises)
    BY <1>1, <1>7, <1>9, <1>20 DEF KnowledgeFits, Fitting
  <2>2. Completing(tr, kn, qs, st, g)
    <3>1. Completing(trace', Knowledge', promises', state', g)
      BY <1>20 DEF KnowledgeFits
    <3> QED BY <1>12, <2>1, <3>1, NarrowedSame
  <2>3. AbleIn(promises[k], t, Knowledge, state) /\ Knowledge[t] = cv[t]
    <3>1. Knowledge[t] = cv[t]
      BY <1>1, <1>10 DEF KnowledgeFits
    <3>2. t \in promises[k].was
      BY <1>1, <1>3 DEF Reads, Available
    <3> QED BY <1>3, <1>10, <3>1, <3>2 DEF AbleIn
  <2>4. /\ n \in Stores(tr) /\ DOMAIN trace \subseteq DOMAIN tr /\ tr[n].hb = cv[t] \cup {n}
        /\ \A i \in DOMAIN trace : /\ tr[i].hb = trace[i].hb
                                   /\ StoreIn(tr, i) = Renamed(p, n, StoreIn(trace, i))
    BY <1>5 DEF Resolves, Stores, Access
  <2>5. \A u \in Threads : Knowledge[u] \subseteq kn[u] /\ (state[u] = "complete" => st[u] = "complete")
    BY <1>10, <1>21
  <2>6. p = Node(promises[k].id) /\ \A i \in DOMAIN promises :
           Node(promises[i].id) \notin Nat /\ (Node(promises[i].id) = p => i = k)
    BY <1>15
  <2>7. f = [i \in DOMAIN promises |-> IF i = k THEN t ELSE g[back[i]]] /\ Knowledge[t] \subseteq tr[n].hb
    BY <2>3, <2>4
  <2>8. n \in Nat /\ n \notin DOMAIN trace
    BY <1>6
  <2>9. /\ \A u \in Threads : cv'[u] \subseteq kn[u]
        /\ \A i \in DOMAIN tr : i \in kn[tr[i].tid]
    BY <1>20 DEF KnowledgeFits
  <2> HIDE DEF tr, kn, st, f, n, p
  <2>20. NodeOf(promises, k, p) /\ Replaces(trace, tr, p, n) /\ Learned(Knowledge, state, kn, st)
    BY <2>4, <2>5, <2>6, <2>8 DEF NodeOf, Replaces, Learned
  <2>10. Completing(trace, Knowledge, promises, state, f)
    BY <1>3, <1>8, <2>1, <2>2, <2>3, <2>7, <2>20, ResolveBack
  <2>11. f \in Completions
    BY <1>1, <2>10 DEF KnowledgeFits, Completing
  <2>12. ASSUME NEW j \in DOMAIN qs PROVE g[j] \in qs[j].available
    <3>1. fwd[j] \in DOMAIN promises /\ fwd[j] # k /\ qs[j] = promises[fwd[j]] /\ back[fwd[j]] = j
      BY <1>8 DEF Rest
    <3>2. f[fwd[j]] = g[j]
      BY <2>7, <3>1
    <3> QED BY <1>1, <2>11, <3>1, <3>2 DEF Hopeless
  <2>13. g \in [DOMAIN qs -> Threads]
    BY <2>2 DEF Completing
  <2>14. E \subseteq Coh(tr, kn, qs, g)
    <3> DEFINE d == cv'
    <3>1. GraphOf(tr, qs, E) /\ Grounded(tr, qs, d, E) /\ \A u \in Threads : d[u] \subseteq kn[u]
      BY <1>18, <2>9 DEF tr
    <3> HIDE DEF d
    <3> QED BY <2>1, <2>12, <2>13, <3>1, GroundedCoh
  <2>15. ~HasCycle(E)
    <3> DEFINE C == Coh(tr, kn, qs, g)
    <3>1. IsFiniteSet(C) /\ IsFiniteSet(E) /\ ~HasCycle(C) /\ E \subseteq C
      BY <1>18, <2>1, <2>2, <2>13, <2>14, CohFacts DEF GraphOf, Completing
    <3> HIDE DEF C
    <3> QED BY <3>1, ReachMore
  <2>16. r = CheckAll(tr, E, qs, FALSE, list, n)
    <3>1. HasCycle(E) = FALSE
      BY <2>15 DEF HasCycle
    <3> QED BY <3>1 DEF r, tr, n
  <2>17. \A i \in 1..Len(list) : list[i] \in DOMAIN tr /\ StoreIn(tr, list[i]) = n
    <3> SUFFICES ASSUME NEW i \in 1..Len(list) PROVE list[i] \in DOMAIN tr /\ StoreIn(tr, list[i]) = n
      OBVIOUS
    <3>1. CASE list[i] = n
      BY <2>4, <3>1 DEF Stores, StoreIn
    <3>2. CASE list[i] \in ToSet(promises[k].readers)
      <4> DEFINE a == list[i]
      <4>1. a \in DOMAIN trace /\ trace[a].rf = p /\ (trace[a].op = "W" => trace[a].rf = NONE)
        BY <1>1, <1>3, <2>6, <3>2 DEF Reads, ReadsOf
      <4>2. p # NONE
        BY <1>1, <1>3, <2>6, PromiseNodes, PromisesAssumption
      <4>3. StoreIn(trace, a) = p
        BY <4>1, <4>2 DEF StoreIn
      <4> QED BY <2>4, <4>1, <4>3 DEF Renamed
    <3> QED BY <1>11, <3>1, <3>2 DEF n
  <2>18. ~r.hard /\ \A j \in DOMAIN qs : g[j] \in r.promises[j].available
    BY <1>11, <2>1, <2>2, <2>4, <2>9, <2>12, <2>14, <2>16, <2>17, CheckAllSound
  <2>19. DOMAIN promises' = DOMAIN qs
    BY <1>12 DEF Narrowed
  <2> QED BY <1>4, <2>11, <2>18, <2>19
<1>23. Hopeless' /\ GivenUp'
  BY <1>1, <1>4, <1>10, <1>13, <1>14, <1>19, <1>22, Remaining
<1> QED BY <1>10, <1>13, <1>14, <1>19, <1>23 DEF PInv
-----------------------------------------------------------------------------
(***************************************************************************)
(* Threads.                                                                *)
(***************************************************************************)
\* Who is gone from a promise knows a reader of it now, or is at its end.
Justly(ps, qs, kn, st) ==
    \A k \in DOMAIN ps : \A u \in ps[k].available \ qs[k].available :
        ToSet(ps[k].readers) \cap kn[u] # {} \/ st[u] = "complete"

\* What a step of the threads leaves alone, and the types of the rest.
Quiet ==
    /\ UNCHANGED <<trace, mo, made, hard_failed_promise>>
    /\ Narrowed(promises, promises')
    /\ state' \in [Threads -> {"new", "ready", "blocked", "complete"}]
    /\ joining' \in [Threads -> Threads \cup {NONE}]
    /\ cv' \in [Threads -> SUBSET Nat]
    /\ released' \subseteq Releases /\ IsFiniteSet(released')
    /\ failed_promise' \in BOOLEAN

\* What a step of the threads has to show.
LEMMA ThreadStep ==
    ASSUME PInv, ~hard_failed_promise, Quiet, Waiting', Clocks', Available(promises', state'),
           \A u \in Threads : /\ cv[u] \subseteq cv'[u]
                              /\ Knowledge[u] \subseteq Knowledge'[u]
                              /\ state[u] = "complete" => state'[u] = "complete",
           Justly(promises, promises', Knowledge', state'),
           failed_promise' => failed_promise \/ SomeFailed(promises')
    PROVE  PInv'
<1>1. Types /\ Waiting /\ Clocks /\ Reads /\ Graph /\ Hopeless /\ GivenUp /\ KnowledgeFits
  BY Afterwards DEF PInv
<1>2. /\ trace' = trace /\ mo' = mo /\ made' = made /\ hard_failed_promise' = hard_failed_promise
      /\ Narrowed(promises, promises')
  BY DEF Quiet
<1>3. Types'
  BY <1>1, <1>2 DEF Types, Narrowed, Quiet
<1>4. Reads'
  BY <1>1, <1>2, NarrowedReads DEF Reads
<1>5. Graph'
  BY <1>1, <1>2, NarrowedGraph DEF Graph, Types
<1>6. KnowledgeFits'
  BY <1>3, <1>4, Afterwards
<1>7. Continues(trace, Knowledge, promises, state, trace', Knowledge', promises', state')
  BY <1>2 DEF Continues, Narrowed
<1>8. ASSUME NEW g \in Completions'
      PROVE  /\ Completions # {}
             /\ \A k \in DOMAIN promises' : g[k] \in promises'[k].available
             /\ ~hard_failed_promise'
  <2>1. /\ Completions # {}
        /\ Completing(trace', Knowledge', promises', state', g)
        /\ \A k \in DOMAIN promises : g[k] \in promises[k].available
    BY <1>1, <1>6, <1>7, Transfer
  <2>2. ASSUME NEW k \in DOMAIN promises' PROVE g[k] \in promises'[k].available
    <3>1. AbleIn(promises'[k], g[k], Knowledge', state')
      BY <2>1 DEF Completing
    <3>2. k \in DOMAIN promises /\ promises'[k].readers = promises[k].readers
      BY <1>2 DEF Narrowed
    <3> QED BY <2>1, <3>1, <3>2 DEF Justly, AbleIn
  <2> QED BY <1>2, <2>1, <2>2
<1>9. Hopeless' /\ GivenUp'
  BY <1>1, <1>3, <1>4, <1>5, <1>8, Remaining DEF SomeFailed
<1> QED BY <1>3, <1>4, <1>5, <1>9 DEF PInv

\* What elimination does.
LEMMA EliminateFacts ==
    ASSUME NEW ps \in Seq(PromiseSet), NEW t, NEW I, NEW qs, qs = Eliminate(ps, t, I)
    PROVE  /\ Narrowed(ps, qs)
           /\ \A k \in DOMAIN ps : k \in I => qs[k].available = ps[k].available \ {t}
           /\ \A k \in DOMAIN ps : k \notin I => qs[k].available = ps[k].available
<1>1. \A k \in DOMAIN ps : qs[k] = IF k \in I THEN [ps[k] EXCEPT !.available = @ \ {t}] ELSE ps[k]
  BY DEF Eliminate, eliminate_thread
<1>2. Function(qs, DOMAIN ps)
  BY DEF Function, Eliminate
<1>3. \A k \in DOMAIN ps : Lessened(ps[k], qs[k])
  BY <1>1 DEF Lessened
<1>4. Narrowed(ps, qs)
  BY <1>2, <1>3, NarrowedIs
<1>5. ASSUME NEW k \in DOMAIN ps
      PROVE  /\ k \in I => qs[k].available = ps[k].available \ {t}
             /\ k \notin I => qs[k].available = ps[k].available
  <2>1. CASE k \in I
    <3>1. ps[k] \in PromiseSet /\ qs[k] = [ps[k] EXCEPT !.available = @ \ {t}]
      BY <1>1, <2>1
    <3> QED BY <2>1, <3>1, WithoutFacts
  <2> QED BY <1>1, <2>1
<1> QED BY <1>4, <1>5

\* Who is eliminated from the promises that are hit knows a reader.
LEMMA HitJustly ==
    ASSUME NEW ps \in Seq(PromiseSet), NEW t, NEW S, NEW I, I \subseteq Hit(ps, t, S),
           NEW qs, qs = Eliminate(ps, t, I), NEW kn, S \subseteq kn[t], NEW st
    PROVE  Narrowed(ps, qs) /\ Justly(ps, qs, kn, st)
<1>1. /\ Narrowed(ps, qs)
      /\ \A k \in DOMAIN ps : k \in I => qs[k].available = ps[k].available \ {t}
      /\ \A k \in DOMAIN ps : k \notin I => qs[k].available = ps[k].available
  BY EliminateFacts
<1> SUFFICES ASSUME NEW k \in DOMAIN ps, NEW u \in ps[k].available \ qs[k].available
             PROVE  ToSet(ps[k].readers) \cap kn[u] # {}
  BY <1>1 DEF Justly
<1>2. u = t /\ k \in I
  BY <1>1
<1> QED BY <1>2 DEF Hit

\* A promise that failed is one without threads.
LEMMA FailsInSome ==
    ASSUME NEW ps, NEW qs, FailsIn(ps, qs)
    PROVE  SomeFailed(qs)
BY DEF FailsIn, SomeFailed

-----------------------------------------------------------------------------
\* A release store elsewhere changes nothing but the list of them.
LEMMA ReleaseStep ==
    ASSUME PInv, NEW t \in Threads, Release(t)
    PROVE  PInv'
<1>1. Types /\ Waiting /\ Clocks /\ Reads /\ KnowledgeFits
  BY Afterwards DEF PInv
<1>2. ~hard_failed_promise
  BY DEF Release, Accesses, CanRun, is_infeasible
<1>3. /\ UNCHANGED <<trace, promises, made, mo, state, joining, cv, failed_promise, hard_failed_promise>>
      /\ released' = released \cup {[tid |-> t, cv |-> cv[t]]}
  BY DEF Release
<1>4. released' \subseteq Releases /\ IsFiniteSet(released')
  <2>1. [tid |-> t, cv |-> cv[t]] \in Releases
    BY <1>1 DEF Types, Releases
  <2> QED BY <1>1, <1>3, <2>1, FS_AddElement DEF Types
<1>5. Narrowed(promises, promises')
  BY <1>1, <1>3 DEF Narrowed, Types
<1>6. Quiet
  BY <1>1, <1>3, <1>4, <1>5 DEF Quiet, Types
<1>7. Waiting'
  BY <1>1, <1>3 DEF Waiting
<1>8. Clocks'
  <2>1. \A r \in released' : Closed(trace, r.cv) /\ r.cv \subseteq cv[r.tid]
    BY <1>1, <1>3 DEF Clocks
  <2> QED BY <1>1, <1>3, <2>1 DEF Clocks
<1>9. Available(promises', state')
  BY <1>1, <1>3 DEF Reads
<1>10. \A u \in Threads : Knowledge[u] \subseteq Knowledge'[u]
  <2>1. \A v : cv[v] \subseteq cv'[v] /\ joining'[v] = joining[v]
    BY <1>3
  <2> QED BY <1>1, <1>6, <2>1, KnowledgeGrows DEF Types, Quiet
<1>11. Justly(promises, promises', Knowledge', state')
  BY <1>3 DEF Justly
<1> QED BY <1>2, <1>3, <1>6, <1>7, <1>8, <1>9, <1>10, <1>11, ThreadStep

\* Thread t learns what u knew: what synchronize does, with the states and
\* the waits as they are, or with t going on after the end of u.
LEMMA SynchronizeStep ==
    ASSUME PInv, NEW t \in Threads, NEW u \in Threads, NEW h, h \subseteq cv[u], Closed(trace, h),
           ~hard_failed_promise, synchronize(u, t, h), Waiting',
           joining' \in [Threads -> Threads \cup {NONE}],
           \A v \in Threads : \/ joining'[v] = joining[v]
                              \/ joining[v] = u /\ joining[u] = NONE /\ v = t /\ h = cv[u],
           UNCHANGED <<trace, made, mo, state, released, hard_failed_promise>>
    PROVE  PInv'
<1>1. Types /\ Waiting /\ Clocks /\ Reads /\ KnowledgeFits
  BY Afterwards DEF PInv
<1>2. /\ cv' = [cv EXCEPT ![t] = @ \cup h]
      /\ promises' = check_promises(promises, u, cv[t], h)
      /\ failed_promise' = (failed_promise \/ FailsIn(promises, promises'))
  BY DEF synchronize
<1>3. cv \in [Threads -> SUBSET Nat] /\ promises \in Seq(PromiseSet)
  BY <1>1 DEF Types
<1>4. cv' \in [Threads -> SUBSET Nat] /\ \A v \in Threads : cv[v] \subseteq cv'[v]
  BY <1>2, <1>3
<1>5. cv'[t] = cv[t] \cup h /\ \A v \in Threads : v # t => cv'[v] = cv[v]
  BY <1>2, <1>3
<1>6. \A v \in Threads : Knowledge[v] \subseteq Knowledge'[v]
  <2>1. \A v \in Threads : \/ joining'[v] = joining[v]
                           \/ joining[v] = NONE
                           \/ joining[joining[v]] = NONE /\ cv[joining[v]] \subseteq cv'[v]
    BY <1>5
  <2>2. joining \in [Threads -> Threads \cup {NONE}]
    BY <1>1 DEF Types
  <2> QED BY <1>3, <1>4, <2>1, <2>2, KnowledgeGrows
<1>7. h \subseteq Knowledge'[u]
  BY <1>1, <1>6 DEF KnowledgeFits
<1>8. Narrowed(promises, promises') /\ Justly(promises, promises', Knowledge', state')
  <2> DEFINE qs == promises'
             kn == Knowledge'
             st == state'
  <2>1. \E I : I \subseteq Hit(promises, u, h \ cv[t]) /\ qs = Eliminate(promises, u, I)
    BY <1>2 DEF check_promises
  <2>2. h \ cv[t] \subseteq kn[u]
    BY <1>7
  <2> HIDE DEF qs, kn, st
  <2>3. Narrowed(promises, qs) /\ Justly(promises, qs, kn, st)
    BY <1>3, <2>1, <2>2, HitJustly
  <2> QED BY <2>3 DEF qs, kn, st
<1>9. failed_promise' \in BOOLEAN /\ (failed_promise' => failed_promise \/ SomeFailed(promises'))
  <2> DEFINE qs == promises'
  <2>1. FailsIn(promises, qs) => SomeFailed(qs)
    BY FailsInSome
  <2> HIDE DEF qs
  <2>2. failed_promise' = (failed_promise \/ FailsIn(promises, qs))
    BY <1>2 DEF qs
  <2>3. failed_promise' \in BOOLEAN /\ (failed_promise' => failed_promise \/ SomeFailed(qs))
    BY <1>1, <2>1, <2>2 DEF Types
  <2> QED BY <2>3 DEF qs
<1>10. Quiet
  BY <1>1, <1>4, <1>8, <1>9 DEF Quiet, Types
<1>11. Clocks'
  <2>1. \A i \in DOMAIN trace : i \in cv'[trace[i].tid]
    <3>1. \A i \in DOMAIN trace : trace[i].tid \in Threads
      <4>1. \A i \in DOMAIN trace : trace[i] \in Actions
        BY <1>1 DEF Types
      <4> QED BY <4>1 DEF Actions
    <3> QED BY <1>1, <1>4, <3>1 DEF Clocks
  <2>2. \A v \in Threads : Closed(trace, cv'[v])
    BY <1>1, <1>5 DEF Clocks, Closed
  <2>3. \A r \in released : r.cv \subseteq cv'[r.tid]
    BY <1>1, <1>4 DEF Clocks, Types, Releases
  <2> QED BY <1>1, <2>1, <2>2, <2>3 DEF Clocks
<1>12. Available(promises', state')
  BY <1>1, <1>8, NarrowedReads DEF Reads
<1> QED BY <1>4, <1>6, <1>8, <1>9, <1>10, <1>11, <1>12, ThreadStep

LEMMA AcquireStep ==
    ASSUME PInv, NEW t \in Threads, Acquire(t)
    PROVE  PInv'
<1>1. Types /\ Waiting /\ Clocks /\ Reads
  BY DEF PInv
<1>2. PICK r \in released :
         /\ CanRun(t) /\ synchronize(r.tid, t, r.cv)
         /\ UNCHANGED <<trace, made, mo, state, joining, released, hard_failed_promise>>
  BY DEF Acquire
<1>3. r.tid \in Threads /\ r.cv \subseteq cv[r.tid] /\ Closed(trace, r.cv)
  BY <1>1 DEF Types, Releases, Clocks
<1>4. ~hard_failed_promise /\ state[t] = "ready"
  BY <1>2 DEF CanRun, is_infeasible
<1>5. Waiting'
  <2>1. \A v \in Threads : state[v] = "new" => cv'[v] = {}
    <3>1. \A v \in Threads : v # t => cv'[v] = cv[v]
      BY <1>1, <1>2 DEF synchronize, Types
    <3> QED BY <1>1, <1>4, <3>1 DEF Waiting
  <2> QED BY <1>1, <1>2, <2>1 DEF Waiting
<1> QED BY <1>1, <1>2, <1>3, <1>4, <1>5, SynchronizeStep DEF Types

LEMMA JoinStep ==
    ASSUME PInv, NEW t \in Threads, NEW u \in Threads, Join(t, u)
    PROVE  PInv'
<1>1. Types /\ Waiting /\ Clocks /\ Reads
  BY DEF PInv
<1>2. /\ joining[t] = u /\ state[u] = "complete" /\ joining' = [joining EXCEPT ![t] = NONE]
      /\ synchronize(u, t, cv[u])
      /\ UNCHANGED <<trace, made, mo, state, released, hard_failed_promise>>
  BY DEF Join
<1>3. ~hard_failed_promise /\ state[t] = "ready"
  BY DEF Join, CanRun, is_infeasible
<1>4. joining[u] = NONE
  BY <1>1, <1>2 DEF Waiting
<1>5. Closed(trace, cv[u])
  BY <1>1 DEF Clocks
<1>6. /\ joining' \in [Threads -> Threads \cup {NONE}] /\ joining'[t] = NONE
      /\ \A v \in Threads : v # t => joining'[v] = joining[v]
  BY <1>1, <1>2 DEF Types
<1>7. Waiting'
  <2>1. \A v \in Threads : v # t => cv'[v] = cv[v]
    BY <1>1, <1>2 DEF synchronize, Types
  <2> SUFFICES ASSUME NEW v \in Threads
               PROVE /\ state[v] = "blocked" => /\ joining'[v] # NONE
                                                /\ state[joining'[v]] \in {"ready", "blocked"}
                     /\ joining'[v] # NONE => /\ state[v] \in {"ready", "blocked"}
                                              /\ state[v] = "ready" => state[joining'[v]] = "complete"
                     /\ state[v] = "new" => cv'[v] = {}
    BY <1>2 DEF Waiting
  <2>2. CASE v = t
    BY <1>3, <1>6, <2>2
  <2>3. CASE v # t
    BY <1>1, <1>6, <2>1, <2>3 DEF Waiting
  <2> QED BY <2>2, <2>3
<1> QED BY <1>2, <1>3, <1>4, <1>5, <1>6, <1>7, SynchronizeStep

LEMMA BlockStep ==
    ASSUME PInv, NEW t \in Threads, NEW u \in Threads, Block(t, u)
    PROVE  PInv'
<1>1. Types /\ Waiting /\ Clocks /\ Reads /\ KnowledgeFits
  BY Afterwards DEF PInv
<1>2. /\ state[t] = "ready" /\ ~hard_failed_promise /\ joining[t] = NONE
      /\ t \notin WaitChain(u) /\ state[u] \in {"ready", "blocked"}
      /\ state' = [state EXCEPT ![t] = "blocked"] /\ joining' = [joining EXCEPT ![t] = u]
      /\ promises' = thread_blocking_check_promises(u, t)
      /\ failed_promise' = (failed_promise \/ \E k \in DOMAIN promises' : has_failed(promises'[k]))
      /\ UNCHANGED <<trace, made, mo, cv, released, hard_failed_promise>>
  BY DEF Block, CanRun, is_infeasible
<1>3. u # t
  <2>1. WaitChain(u) = ChainOf(joining, u)
    BY DEF WaitChain, ChainOf
  <2> QED BY <1>2, <2>1, ChainFacts
<1>4. /\ state \in [Threads -> {"new", "ready", "blocked", "complete"}] /\ promises \in Seq(PromiseSet)
      /\ joining \in [Threads -> Threads \cup {NONE}] /\ cv \in [Threads -> SUBSET Nat]
      /\ NONE \notin Threads
  BY <1>1, PromisesAssumption DEF Types
<1>5. /\ state' \in [Threads -> {"new", "ready", "blocked", "complete"}]
      /\ joining' \in [Threads -> Threads \cup {NONE}]
      /\ state'[t] = "blocked" /\ joining'[t] = u
      /\ \A v \in Threads : v # t => state'[v] = state[v] /\ joining'[v] = joining[v]
  BY <1>2, <1>4
<1>6. \A v \in Threads : Knowledge[v] \subseteq Knowledge'[v]
  <2>1. \A v \in Threads : joining'[v] = joining[v] \/ joining[v] = NONE
    BY <1>2, <1>5
  <2>2. cv' = cv
    BY <1>2
  <2> QED BY <1>4, <1>5, <2>1, <2>2, KnowledgeGrows
<1>7. cv[u] \subseteq Knowledge'[t]
  <2> DEFINE j == joining'
             c == cv'
  <2>1. Knowledge'[t] = KnownBy(c, j, t)
    BY KnowsIs DEF Knowledge
  <2>2. /\ j \in [Threads -> Threads \cup {NONE}] /\ c \in [Threads -> SUBSET Nat]
        /\ j[t] = u /\ u # NONE /\ c = cv
    BY <1>2, <1>4, <1>5
  <2> HIDE DEF j, c
  <2>3. c[j[t]] \subseteq KnownBy(c, j, t)
    BY <2>2, KnownFacts
  <2> QED BY <2>1, <2>2, <2>3
<1>8. Narrowed(promises, promises') /\ Justly(promises, promises', Knowledge', state')
  <2> DEFINE qs == promises'
             kn == Knowledge'
             st == state'
             S == {i \in DOMAIN trace : trace[i].tid = u}
  <2>1. \E I : I \subseteq Hit(promises, t, S) /\ qs = Eliminate(promises, t, I)
    BY <1>2 DEF thread_blocking_check_promises
  <2>2. S \subseteq kn[t]
    BY <1>1, <1>7 DEF Clocks
  <2> HIDE DEF qs, kn, st, S
  <2>3. Narrowed(promises, qs) /\ Justly(promises, qs, kn, st)
    BY <1>4, <2>1, <2>2, HitJustly
  <2> QED BY <2>3 DEF qs, kn, st
<1>9. failed_promise' \in BOOLEAN /\ (failed_promise' => failed_promise \/ SomeFailed(promises'))
  BY <1>1, <1>2 DEF Types, SomeFailed
<1>10. Quiet
  BY <1>1, <1>2, <1>4, <1>5, <1>8, <1>9 DEF Quiet, Types
<1>11. Clocks'
  BY <1>1, <1>2 DEF Clocks
<1>12. Waiting'
  <2> SUFFICES ASSUME NEW v \in Threads
               PROVE /\ state'[v] = "blocked" => /\ joining'[v] # NONE
                                                 /\ state'[joining'[v]] \in {"ready", "blocked"}
                     /\ joining'[v] # NONE => /\ state'[v] \in {"ready", "blocked"}
                                              /\ state'[v] = "ready" => state'[joining'[v]] = "complete"
                     /\ state'[v] = "new" => cv[v] = {}
    BY <1>2 DEF Waiting
  <2>1. CASE v = t
    BY <1>2, <1>3, <1>4, <1>5, <2>1
  <2>2. CASE v # t
    <3>1. CASE joining[v] = NONE
      BY <1>1, <1>5, <2>2, <3>1 DEF Waiting
    <3>2. CASE joining[v] = t
      BY <1>1, <1>2, <1>4, <1>5, <2>2, <3>2 DEF Waiting
    <3>3. CASE joining[v] \in Threads /\ joining[v] # t
      BY <1>1, <1>5, <2>2, <3>3 DEF Waiting
    <3> QED BY <1>4, <3>1, <3>2, <3>3
  <2> QED BY <2>1, <2>2
<1>13. Available(promises', state')
  <2>1. Available(promises, state')
    <3> SUFFICES ASSUME NEW k \in DOMAIN promises
                 PROVE /\ promises[k].available \subseteq promises[k].was
                       /\ \A v \in promises[k].was : state'[v] # "new"
                       /\ \A v \in promises[k].available : state'[v] # "complete"
      BY DEF Available
    <3>1. promises[k].was \subseteq Threads
      <4>1. promises[k] \in PromiseSet
        BY <1>4
      <4> QED BY <4>1 DEF PromiseSet
    <3>2. Available(promises, state)
      BY <1>1 DEF Reads
    <3> QED BY <1>5, <3>1, <3>2 DEF Available
  <2> QED BY <1>8, <2>1, NarrowedReads
<1>14. \A v \in Threads : cv[v] \subseteq cv'[v] /\ (state[v] = "complete" => state'[v] = "complete")
  BY <1>2, <1>5
<1> QED BY <1>2, <1>6, <1>8, <1>9, <1>10, <1>11, <1>12, <1>13, <1>14, ThreadStep

LEMMA FinishStep ==
    ASSUME PInv, NEW t \in Threads, Finish(t)
    PROVE  PInv'
<1>1. Types /\ Waiting /\ Clocks /\ Reads /\ KnowledgeFits
  BY Afterwards DEF PInv
<1>2. /\ state[t] = "ready" /\ ~hard_failed_promise /\ joining[t] = NONE
      /\ state' = [u \in Threads |-> IF u = t THEN "complete"
                                     ELSE IF joining[u] = t THEN "ready" ELSE state[u]]
      /\ promises' = Eliminate(promises, t, {i \in DOMAIN promises : t \in promises[i].available})
      /\ failed_promise' = (failed_promise \/ FailsIn(promises, promises'))
      /\ UNCHANGED <<trace, made, mo, joining, cv, released, hard_failed_promise>>
  BY DEF Finish, CanRun, is_infeasible
<1>3. /\ state \in [Threads -> {"new", "ready", "blocked", "complete"}] /\ promises \in Seq(PromiseSet)
      /\ joining \in [Threads -> Threads \cup {NONE}] /\ cv \in [Threads -> SUBSET Nat]
      /\ NONE \notin Threads
  BY <1>1, PromisesAssumption DEF Types
<1>4. /\ state' \in [Threads -> {"new", "ready", "blocked", "complete"}]
      /\ state'[t] = "complete"
      /\ \A v \in Threads : v # t /\ joining[v] = t => state[v] = "blocked" /\ state'[v] = "ready"
      /\ \A v \in Threads : v # t /\ joining[v] # t => state'[v] = state[v]
  BY <1>1, <1>2, <1>3 DEF Waiting
<1>5. \A v \in Threads : Knowledge[v] \subseteq Knowledge'[v]
  <2>1. cv' = cv /\ joining' = joining
    BY <1>2
  <2> QED BY <1>3, <2>1, KnowledgeGrows
<1>6. Narrowed(promises, promises') /\ Justly(promises, promises', Knowledge', state')
      /\ \A k \in DOMAIN promises : t \notin promises'[k].available
  <2> DEFINE qs == promises'
             kn == Knowledge'
             st == state'
             I == {i \in DOMAIN promises : t \in promises[i].available}
  <2>1. qs = Eliminate(promises, t, I) /\ st[t] = "complete"
    BY <1>2, <1>4
  <2> HIDE DEF qs, kn, st, I
  <2>2. /\ Narrowed(promises, qs)
        /\ \A k \in DOMAIN promises : k \in I => qs[k].available = promises[k].available \ {t}
        /\ \A k \in DOMAIN promises : k \notin I => qs[k].available = promises[k].available
    BY <1>3, <2>1, EliminateFacts
  <2>3. Justly(promises, qs, kn, st)
    BY <2>1, <2>2 DEF Justly
  <2>4. \A k \in DOMAIN promises : t \notin qs[k].available
    BY <2>2 DEF I
  <2> QED BY <2>2, <2>3, <2>4 DEF qs, kn, st
<1>7. failed_promise' \in BOOLEAN /\ (failed_promise' => failed_promise \/ SomeFailed(promises'))
  <2> DEFINE qs == promises'
  <2>1. FailsIn(promises, qs) => SomeFailed(qs)
    BY FailsInSome
  <2>2. failed_promise' = (failed_promise \/ FailsIn(promises, qs))
    BY <1>2
  <2> HIDE DEF qs
  <2>3. failed_promise' \in BOOLEAN /\ (failed_promise' => failed_promise \/ SomeFailed(qs))
    BY <1>1, <2>1, <2>2 DEF Types
  <2> QED BY <2>3 DEF qs
<1>8. Quiet
  BY <1>1, <1>2, <1>4, <1>6, <1>7 DEF Quiet, Types
<1>9. Clocks'
  BY <1>1, <1>2 DEF Clocks
<1>10. Waiting'
  <2> SUFFICES ASSUME NEW v \in Threads
               PROVE /\ state'[v] = "blocked" => /\ joining[v] # NONE
                                                 /\ state'[joining[v]] \in {"ready", "blocked"}
                     /\ joining[v] # NONE => /\ state'[v] \in {"ready", "blocked"}
                                             /\ state'[v] = "ready" => state'[joining[v]] = "complete"
                     /\ state'[v] = "new" => cv[v] = {}
    BY <1>2 DEF Waiting
  <2>1. CASE v = t
    BY <1>2, <1>4, <2>1
  <2>2. CASE v # t /\ joining[v] = t
    BY <1>3, <1>4, <2>2
  <2>3. CASE v # t /\ joining[v] = NONE
    BY <1>1, <1>3, <1>4, <2>3 DEF Waiting
  <2>4. CASE v # t /\ joining[v] # t /\ joining[v] \in Threads
    <3> DEFINE w == joining[v]
    <3>1. state'[v] = state[v] /\ state[v] \in {"ready", "blocked"}
      BY <1>1, <1>3, <1>4, <2>4 DEF Waiting
    <3>2. state[v] = "ready" => state[w] = "complete"
      BY <1>1, <1>3, <2>4 DEF Waiting
    <3>3. state[w] = "complete" => joining[w] = NONE
      BY <1>1, <2>4 DEF Waiting
    <3>4. state[w] = "complete" => state'[w] = "complete"
      BY <1>3, <1>4, <2>4, <3>3
    <3>5. state[v] = "blocked" => state'[w] \in {"ready", "blocked"}
      <4>1. state[v] = "blocked" => state[w] \in {"ready", "blocked"}
        BY <1>1, <2>4 DEF Waiting
      <4> QED BY <1>4, <2>4, <4>1
    <3> QED BY <1>3, <2>4, <3>1, <3>2, <3>4, <3>5
  <2> QED BY <1>3, <2>1, <2>2, <2>3, <2>4
<1>11. Available(promises', state')
  <2> SUFFICES ASSUME NEW k \in DOMAIN promises'
               PROVE /\ promises'[k].available \subseteq promises'[k].was
                     /\ \A v \in promises'[k].was : state'[v] # "new"
                     /\ \A v \in promises'[k].available : state'[v] # "complete"
    BY DEF Available
  <2>1. /\ k \in DOMAIN promises /\ promises'[k].was = promises[k].was
        /\ promises'[k].available \subseteq promises[k].available
    BY <1>6 DEF Narrowed
  <2>2. promises[k].was \subseteq Threads
    <3>1. promises[k] \in PromiseSet
      BY <1>3, <2>1
    <3> QED BY <3>1 DEF PromiseSet
  <2>3. /\ promises[k].available \subseteq promises[k].was
        /\ \A v \in promises[k].was : state[v] # "new"
        /\ \A v \in promises[k].available : state[v] # "complete"
    BY <1>1, <2>1 DEF Reads, Available
  <2>4. \A v \in Threads : state[v] # "new" => state'[v] # "new"
    BY <1>4
  <2>5. \A v \in Threads : v # t /\ state[v] # "complete" => state'[v] # "complete"
    BY <1>4
  <2> QED BY <1>6, <2>1, <2>2, <2>3, <2>4, <2>5
<1>12. \A v \in Threads : cv[v] \subseteq cv'[v] /\ (state[v] = "complete" => state'[v] = "complete")
  BY <1>2, <1>4
<1> QED BY <1>2, <1>5, <1>6, <1>7, <1>8, <1>9, <1>10, <1>11, <1>12, ThreadStep

\* Of the promises ps, those that t may keep may now be kept by u too, unless
\* a reader is in what t knows.
Inherits(ps, qs, t, u, known) ==
    /\ qs \in Seq(PromiseSet) /\ DOMAIN qs = DOMAIN ps
    /\ \A k \in DOMAIN ps :
          /\ qs[k].id = ps[k].id /\ qs[k].val = ps[k].val /\ qs[k].readers = ps[k].readers
          /\ ps[k].was \subseteq qs[k].was /\ qs[k].was \subseteq ps[k].was \cup {u}
          /\ u \in qs[k].was => u \in ps[k].was \/ t \in ps[k].available
          /\ qs[k].available \subseteq qs[k].was
          /\ qs[k].available \subseteq ps[k].available \cup {u}
          /\ ps[k].available \subseteq qs[k].available \cup {u}
          /\ t \in ps[k].available /\ u \notin qs[k].available => ToSet(ps[k].readers) \cap known # {}

\* In rs thread u may keep what t may keep in ps.
Offered(ps, rs, t, u) ==
    /\ rs \in Seq(PromiseSet) /\ DOMAIN rs = DOMAIN ps
    /\ \A k \in DOMAIN ps :
          /\ rs[k].id = ps[k].id /\ rs[k].val = ps[k].val /\ rs[k].readers = ps[k].readers
          /\ t \in ps[k].available => /\ rs[k].available = ps[k].available \cup {u}
                                      /\ rs[k].was = ps[k].was \cup {u}
          /\ t \notin ps[k].available => rs[k].available = ps[k].available /\ rs[k].was = ps[k].was

LEMMA AddedThread ==
    ASSUME NEW p \in PromiseSet, NEW u \in Threads, NEW q, q = add_thread(p, u)
    PROVE  /\ q \in PromiseSet
           /\ q.id = p.id /\ q.val = p.val /\ q.readers = p.readers
           /\ q.available = p.available \cup {u} /\ q.was = p.was \cup {u}
BY DEF add_thread, PromiseSet

LEMMA OfferedIs ==
    ASSUME NEW ps \in Seq(PromiseSet), NEW t, NEW u \in Threads,
           NEW rs, rs = [k \in DOMAIN ps |-> IF t \in ps[k].available THEN add_thread(ps[k], u) ELSE ps[k]]
    PROVE  Offered(ps, rs, t, u)
<1>1. ASSUME NEW k \in DOMAIN ps
      PROVE  /\ rs[k] \in PromiseSet
             /\ rs[k].id = ps[k].id /\ rs[k].val = ps[k].val /\ rs[k].readers = ps[k].readers
             /\ t \in ps[k].available => /\ rs[k].available = ps[k].available \cup {u}
                                         /\ rs[k].was = ps[k].was \cup {u}
             /\ t \notin ps[k].available => rs[k].available = ps[k].available /\ rs[k].was = ps[k].was
  <2>1. ps[k] \in PromiseSet
    OBVIOUS
  <2>2. CASE t \in ps[k].available
    <3>1. rs[k] = add_thread(ps[k], u)
      BY <2>2
    <3> QED BY <2>1, <2>2, <3>1, AddedThread
  <2>3. CASE t \notin ps[k].available
    BY <2>1, <2>3
  <2> QED BY <2>2, <2>3
<1>2. DOMAIN rs = DOMAIN ps /\ rs \in Seq(PromiseSet)
  <2>1. DOMAIN rs = 1..Len(ps) /\ DOMAIN ps = 1..Len(ps) /\ Len(ps) \in Nat
    OBVIOUS
  <2>2. \A k \in 1..Len(ps) : rs[k] \in PromiseSet
    BY <1>1, <2>1
  <2>3. rs = [k \in 1..Len(ps) |-> rs[k]]
    BY <2>1
  <2>4. rs \in [1..Len(ps) -> PromiseSet]
    BY <2>2, <2>3
  <2> QED BY <2>1, <2>4, IsASeq
<1> QED BY <1>1, <1>2 DEF Offered

LEMMA InheritsIs ==
    ASSUME NEW ps \in Seq(PromiseSet), NEW t, NEW u \in Threads, NEW known,
           \A k \in DOMAIN ps : ps[k].available \subseteq ps[k].was,
           NEW rs, Offered(ps, rs, t, u), NEW qs, qs = check_promises(rs, u, {}, known)
    PROVE  Inherits(ps, qs, t, u, known)
<1>1. DOMAIN rs = DOMAIN ps /\ rs \in Seq(PromiseSet)
  BY DEF Offered
<1>2. PICK I : I \subseteq Hit(rs, u, known) /\ qs = Eliminate(rs, u, I)
  BY DEF check_promises
<1>3. /\ Narrowed(rs, qs)
      /\ \A k \in DOMAIN rs : k \in I => qs[k].available = rs[k].available \ {u}
      /\ \A k \in DOMAIN rs : k \notin I => qs[k].available = rs[k].available
  BY <1>1, <1>2, EliminateFacts
<1>4. \A k \in I : ToSet(rs[k].readers) \cap known # {}
  BY <1>2 DEF Hit
<1>5. qs \in Seq(PromiseSet) /\ DOMAIN qs = DOMAIN ps
  BY <1>1, <1>3 DEF Narrowed
<1>6. ASSUME NEW k \in DOMAIN ps
      PROVE  /\ qs[k].id = ps[k].id /\ qs[k].val = ps[k].val /\ qs[k].readers = ps[k].readers
             /\ ps[k].was \subseteq qs[k].was /\ qs[k].was \subseteq ps[k].was \cup {u}
             /\ u \in qs[k].was => u \in ps[k].was \/ t \in ps[k].available
             /\ qs[k].available \subseteq qs[k].was
             /\ qs[k].available \subseteq ps[k].available \cup {u}
             /\ ps[k].available \subseteq qs[k].available \cup {u}
             /\ t \in ps[k].available /\ u \notin qs[k].available => ToSet(ps[k].readers) \cap known # {}
  <2>1. /\ qs[k].id = rs[k].id /\ qs[k].val = rs[k].val
        /\ qs[k].readers = rs[k].readers /\ qs[k].was = rs[k].was
    BY <1>1, <1>3 DEF Narrowed
  <2>2. /\ k \in I => qs[k].available = rs[k].available \ {u} /\ ToSet(rs[k].readers) \cap known # {}
        /\ k \notin I => qs[k].available = rs[k].available
    BY <1>1, <1>3, <1>4
  <2>3. ps[k].available \subseteq ps[k].was
    OBVIOUS
  <2>4. /\ rs[k].id = ps[k].id /\ rs[k].val = ps[k].val /\ rs[k].readers = ps[k].readers
        /\ t \in ps[k].available => /\ rs[k].available = ps[k].available \cup {u}
                                    /\ rs[k].was = ps[k].was \cup {u}
        /\ t \notin ps[k].available => rs[k].available = ps[k].available /\ rs[k].was = ps[k].was
    BY DEF Offered
  <2>5. CASE t \in ps[k].available
    BY <2>1, <2>2, <2>3, <2>4, <2>5
  <2>6. CASE t \notin ps[k].available
    BY <2>1, <2>2, <2>3, <2>4, <2>6
  <2> QED BY <2>5, <2>6
<1> QED BY <1>5, <1>6 DEF Inherits

\* A thread knows at first what its creator knows, and may keep what that one may.
LEMMA CreateBack ==
    ASSUME NEW tr, NEW kn, NEW ps, NEW st, Fitting(tr, kn, ps), Available(ps, st),
           NEW kn2, NEW qs, NEW st2, Fitting(tr, kn2, qs),
           NEW t \in Threads, NEW u \in Threads, NEW known, Inherits(ps, qs, t, u, known),
           st[u] = "new", st[t] # "complete", kn2[u] = kn[t],
           \A v \in Threads : kn[v] \subseteq kn2[v] /\ (v # u => st2[v] = st[v]),
           NEW g, Completing(tr, kn2, qs, st2, g),
           NEW f, f = [k \in DOMAIN ps |-> IF g[k] = u THEN t ELSE g[k]]
    PROVE  Completing(tr, kn, ps, st, f)
<1>1. DOMAIN qs = DOMAIN ps /\ g \in [DOMAIN ps -> Threads] /\ f \in [DOMAIN ps -> Threads]
  BY DEF Inherits, Completing
<1>2. ASSUME NEW k \in DOMAIN ps
      PROVE  kn[f[k]] \subseteq kn2[g[k]] /\ AbleIn(ps[k], f[k], kn, st)
  <2>1. /\ g[k] \in Threads /\ g[k] \in qs[k].was /\ st2[g[k]] # "complete"
        /\ ToSet(qs[k].readers) \cap kn2[g[k]] = {}
    BY <1>1 DEF Completing, AbleIn
  <2>2. /\ qs[k].readers = ps[k].readers /\ qs[k].was \subseteq ps[k].was \cup {u}
        /\ u \in qs[k].was => u \in ps[k].was \/ t \in ps[k].available
    BY DEF Inherits
  <2>3. ps[k].available \subseteq ps[k].was /\ \A v \in ps[k].was : st[v] # "new"
    BY DEF Available
  <2>4. CASE g[k] = u
    <3>1. f[k] = t /\ t \in ps[k].was
      BY <2>1, <2>2, <2>3, <2>4
    <3> QED BY <2>1, <2>2, <2>4, <3>1 DEF AbleIn
  <2>5. CASE g[k] # u
    <3>1. f[k] = g[k] /\ g[k] \in ps[k].was /\ st[g[k]] # "complete" /\ kn[g[k]] \subseteq kn2[g[k]]
      BY <2>1, <2>2, <2>5
    <3> QED BY <2>1, <2>2, <3>1 DEF AbleIn
  <2> QED BY <2>4, <2>5
<1> DEFINE To == [x \in Int |-> x]
<1>3. ASSUME NEW e \in Coh(tr, kn, ps, f) PROVE e \in Coh(tr, kn2, qs, g) /\ <<To[e[1]], To[e[2]]>> = e
  <2>1. e \in Int \X Int
    BY DEF Coh
  <2>2. CASE \E i, j \in DOMAIN tr : i \in tr[j].hb /\ StoreIn(tr, i) # StoreIn(tr, j)
                                     /\ e = <<StoreIn(tr, i), StoreIn(tr, j)>>
    BY <2>1, <2>2 DEF Coh
  <2>3. CASE \E k \in DOMAIN ps : \E i \in kn[f[k]] : e = <<StoreIn(tr, i), Node(ps[k].id)>>
    <3>1. PICK k \in DOMAIN ps : \E i \in kn[f[k]] : e = <<StoreIn(tr, i), Node(ps[k].id)>>
      BY <2>3
    <3>2. k \in DOMAIN qs /\ qs[k].id = ps[k].id
      BY DEF Inherits
    <3>3. \E i \in kn2[g[k]] : e = <<StoreIn(tr, i), Node(qs[k].id)>>
      BY <1>2, <3>1, <3>2
    <3> QED BY <2>1, <3>2, <3>3 DEF Coh
  <2>4. <<To[e[1]], To[e[2]]>> = e
    BY <2>1
  <2> QED BY <2>2, <2>3, <2>4 DEF Coh
<1>4. \A e \in Coh(tr, kn, ps, f) : <<To[e[1]], To[e[2]]>> \in Coh(tr, kn2, qs, g)
  <2> HIDE DEF To
  <2> QED BY <1>3
<1> HIDE DEF To
<1> QED BY <1>1, <1>2, <1>4, CompletionBack

LEMMA CreateStep ==
    ASSUME PInv, NEW t \in Threads, NEW u \in Threads, Create(t, u)
    PROVE  PInv'
<1>1. Types /\ Waiting /\ Clocks /\ Reads /\ Graph /\ Hopeless /\ GivenUp /\ KnowledgeFits
  BY Afterwards DEF PInv
<1> DEFINE rs == [k \in DOMAIN promises |-> IF t \in promises[k].available
                                            THEN add_thread(promises[k], u) ELSE promises[k]]
<1>2. /\ state[t] = "ready" /\ ~hard_failed_promise /\ joining[t] = NONE /\ state[u] = "new"
      /\ state' = [state EXCEPT ![u] = "ready"] /\ cv' = [cv EXCEPT ![u] = cv[t]]
      /\ promises' = check_promises(rs, u, {}, cv[t])
      /\ failed_promise' = (failed_promise \/ FailsIn(rs, promises'))
      /\ UNCHANGED <<trace, made, mo, joining, released, hard_failed_promise>>
  BY DEF Create, CanRun, is_infeasible
<1>3. /\ state \in [Threads -> {"new", "ready", "blocked", "complete"}] /\ promises \in Seq(PromiseSet)
      /\ joining \in [Threads -> Threads \cup {NONE}] /\ cv \in [Threads -> SUBSET Nat]
      /\ NONE \notin Threads
  BY <1>1, PromisesAssumption DEF Types
<1>4. /\ Inherits(promises, promises', t, u, cv[t])
      /\ failed_promise' \in BOOLEAN /\ (failed_promise' => failed_promise \/ SomeFailed(promises'))
  <2> DEFINE qs == promises'
             known == cv[t]
  <2>1. Offered(promises, rs, t, u)
    BY <1>3, OfferedIs
  <2>2. FailsIn(rs, qs) => SomeFailed(qs)
    BY FailsInSome
  <2>3. qs = check_promises(rs, u, {}, known) /\ failed_promise' = (failed_promise \/ FailsIn(rs, qs))
    BY <1>2
  <2>4. \A k \in DOMAIN promises : promises[k].available \subseteq promises[k].was
    BY <1>1 DEF Reads, Available
  <2> HIDE DEF qs, rs, known
  <2>5. Inherits(promises, qs, t, u, known)
    BY <1>3, <2>1, <2>3, <2>4, InheritsIs
  <2>6. failed_promise' \in BOOLEAN /\ (failed_promise' => failed_promise \/ SomeFailed(qs))
    BY <1>1, <2>2, <2>3 DEF Types
  <2> QED BY <2>5, <2>6 DEF qs, known
<1> HIDE DEF rs
<1>5. /\ cv[u] = {} /\ u # t /\ joining[u] = NONE
      /\ \A v \in Threads : joining[v] # u
  BY <1>1, <1>2, <1>3 DEF Waiting
<1>6. /\ cv' \in [Threads -> SUBSET Nat] /\ cv'[u] = cv[t]
      /\ \A v \in Threads : cv[v] \subseteq cv'[v] /\ (v # u => cv'[v] = cv[v])
  BY <1>2, <1>3, <1>5
<1>7. /\ state' \in [Threads -> {"new", "ready", "blocked", "complete"}] /\ state'[u] = "ready"
      /\ \A v \in Threads : v # u => state'[v] = state[v]
  BY <1>2, <1>3
<1>8. Types'
  BY <1>1, <1>2, <1>4, <1>6, <1>7 DEF Types, Inherits
<1>9. Waiting'
  <2> SUFFICES ASSUME NEW v \in Threads
               PROVE /\ state'[v] = "blocked" => /\ joining[v] # NONE
                                                 /\ state'[joining[v]] \in {"ready", "blocked"}
                     /\ joining[v] # NONE => /\ state'[v] \in {"ready", "blocked"}
                                             /\ state'[v] = "ready" => state'[joining[v]] = "complete"
                     /\ state'[v] = "new" => cv'[v] = {}
    BY <1>2 DEF Waiting
  <2>1. CASE v = u
    BY <1>5, <1>7, <2>1
  <2>2. CASE v # u
    BY <1>1, <1>3, <1>5, <1>6, <1>7, <2>2 DEF Waiting
  <2> QED BY <2>1, <2>2
<1>10. Clocks'
  <2>1. \A i \in DOMAIN trace : i \in cv'[trace[i].tid]
    <3>1. \A i \in DOMAIN trace : trace[i].tid \in Threads
      <4>1. \A i \in DOMAIN trace : trace[i] \in Actions
        BY <1>1 DEF Types
      <4> QED BY <4>1 DEF Actions
    <3> QED BY <1>1, <1>6, <3>1 DEF Clocks
  <2>2. \A v \in Threads : Closed(trace, cv'[v])
    <3> SUFFICES ASSUME NEW v \in Threads PROVE Closed(trace, cv'[v])
      OBVIOUS
    <3>1. cv'[v] = cv[v] \/ cv'[v] = cv[t]
      BY <1>6
    <3> QED BY <1>1, <3>1 DEF Clocks
  <2>3. \A r \in released : r.cv \subseteq cv'[r.tid]
    BY <1>1, <1>6 DEF Clocks, Types, Releases
  <2> QED BY <1>1, <1>2, <2>1, <2>2, <2>3 DEF Clocks
<1>11. ReadsOf(trace, promises') /\ Named(promises', made) /\ Available(promises', state')
  <2> DEFINE qs == promises'
             st == state'
  <2>1. Inherits(promises, qs, t, u, cv[t])
    BY <1>4
  <2>2. ReadsOf(trace, promises) /\ Named(promises, made) /\ Available(promises, state)
    BY <1>1 DEF Reads
  <2>3. st[u] = "ready" /\ \A v \in Threads : v # u => st[v] = state[v]
    BY <1>7
  <2> HIDE DEF qs, st
  <2>4. Ids(qs) = Ids(promises)
    BY <2>1 DEF Inherits, Ids
  <2>5. ReadsOf(trace, qs)
    BY <2>1, <2>2, <2>4 DEF Inherits, ReadsOf
  <2>6. Named(qs, made)
    BY <2>1, <2>2 DEF Inherits, Named
  <2>7. ASSUME NEW k \in DOMAIN qs
        PROVE  /\ qs[k].available \subseteq qs[k].was
               /\ \A v \in qs[k].was : st[v] # "new"
               /\ \A v \in qs[k].available : st[v] # "complete"
    <3>1. /\ k \in DOMAIN promises
          /\ qs[k].was \subseteq promises[k].was \cup {u} /\ qs[k].available \subseteq qs[k].was
          /\ qs[k].available \subseteq promises[k].available \cup {u}
      BY <2>1 DEF Inherits
    <3>2. promises[k] \in PromiseSet
      BY <1>3, <3>1
    <3>3. promises[k].was \subseteq Threads /\ promises[k].available \subseteq Threads
      BY <3>2 DEF PromiseSet
    <3> QED BY <2>2, <2>3, <3>1, <3>3 DEF Available
  <2>8. Available(qs, st)
    BY <2>7 DEF Available
  <2> QED BY <2>5, <2>6, <2>8 DEF qs, st
<1>12. Reads'
  BY <1>2, <1>11 DEF Reads
<1>13. Graph'
  <2> DEFINE qs == promises'
             d == cv'
  <2>1. Inherits(promises, qs, t, u, cv[t])
    BY <1>4
  <2>2. d[u] = cv[t] /\ \A v \in Threads : cv[v] \subseteq d[v]
    BY <1>6
  <2>3. GraphOf(trace, promises, mo) /\ Grounded(trace, promises, cv, mo) /\ Ordered(trace, mo)
    BY <1>1 DEF Graph
  <2> HIDE DEF qs, d
  <2>4. ASSUME NEW k \in DOMAIN promises, NEW w \in qs[k].available
        PROVE  \E v \in promises[k].available : cv[v] \subseteq d[w]
    <3>1. /\ u \in qs[k].was => u \in promises[k].was \/ t \in promises[k].available
          /\ qs[k].available \subseteq promises[k].available \cup {u}
          /\ qs[k].available \subseteq qs[k].was
      BY <2>1 DEF Inherits
    <3>2. /\ u \notin promises[k].was /\ promises[k] \in PromiseSet
      BY <1>1, <1>2, <1>3 DEF Reads, Available
    <3>3. promises[k].available \subseteq Threads
      BY <3>2 DEF PromiseSet
    <3>4. CASE w = u
      BY <2>2, <3>1, <3>2, <3>4
    <3>5. CASE w # u
      BY <2>2, <3>1, <3>3, <3>5
    <3> QED BY <3>4, <3>5
  <2>5. DOMAIN qs = DOMAIN promises /\ \A k \in DOMAIN promises : qs[k].id = promises[k].id
    BY <2>1 DEF Inherits
  <2>6. GraphOf(trace, qs, mo) /\ Grounded(trace, qs, d, mo)
    BY <2>3, <2>4, <2>5, GraphKeeps
  <2> QED BY <1>2, <2>3, <2>6 DEF Graph, qs, d
<1>14. KnowledgeFits'
  BY <1>8, <1>10, <1>12, Afterwards
<1>15. /\ \A v \in Threads : Knowledge[v] \subseteq Knowledge'[v]
       /\ Knowledge[t] = cv[t] /\ Knowledge'[u] = cv[t]
  <2>1. joining' = joining
    BY <1>2
  <2>2. \A v \in Threads : Knowledge[v] \subseteq Knowledge'[v]
    BY <1>3, <1>6, <2>1, KnowledgeGrows
  <2> QED BY <1>1, <1>2, <1>5, <1>6, <1>14, <2>1, <2>2 DEF KnowledgeFits
<1>16. ASSUME NEW g \in Completions'
       PROVE  /\ Completions # {}
              /\ \A k \in DOMAIN promises' : g[k] \in promises'[k].available
              /\ ~hard_failed_promise'
  <2> DEFINE qs == promises'
             kn == Knowledge'
             st == state'
             f == [k \in DOMAIN promises |-> IF g[k] = u THEN t ELSE g[k]]
  <2>1. Completing(trace, kn, qs, st, g) /\ Fitting(trace, kn, qs)
    BY <1>2, <1>14 DEF KnowledgeFits
  <2>2. Inherits(promises, qs, t, u, cv[t])
    BY <1>4
  <2>3. /\ kn[u] = cv[t] /\ kn[u] = Knowledge[t]
        /\ \A v \in Threads : Knowledge[v] \subseteq kn[v] /\ (v # u => st[v] = state[v])
    BY <1>7, <1>15
  <2>4. Fitting(trace, Knowledge, promises) /\ Available(promises, state)
    BY <1>1 DEF KnowledgeFits, Reads
  <2>5. state[u] = "new" /\ state[t] # "complete" /\ ~hard_failed_promise'
    BY <1>2
  <2>6. f = [k \in DOMAIN promises |-> IF g[k] = u THEN t ELSE g[k]]
    OBVIOUS
  <2> HIDE DEF qs, kn, st, f
  <2>7. Completing(trace, Knowledge, promises, state, f)
    BY <2>1, <2>2, <2>3, <2>4, <2>5, <2>6, CreateBack
  <2>8. f \in Completions
    BY <1>1, <2>7 DEF KnowledgeFits, Completing
  <2>9. ASSUME NEW k \in DOMAIN qs PROVE g[k] \in qs[k].available
    <3>1. /\ k \in DOMAIN promises /\ qs[k].readers = promises[k].readers
          /\ promises[k].available \subseteq qs[k].available \cup {u}
          /\ t \in promises[k].available /\ u \notin qs[k].available =>
                ToSet(promises[k].readers) \cap cv[t] # {}
      BY <2>2 DEF Inherits
    <3>2. f[k] \in promises[k].available
      BY <1>1, <2>8, <3>1 DEF Hopeless
    <3>3. ToSet(qs[k].readers) \cap kn[g[k]] = {}
      BY <2>1 DEF Completing, AbleIn
    <3>4. CASE g[k] = u
      <4>1. f[k] = t
        BY <2>6, <3>1, <3>4
      <4> QED BY <2>3, <3>1, <3>2, <3>3, <3>4, <4>1
    <3>5. CASE g[k] # u
      <4>1. f[k] = g[k]
        BY <2>6, <3>1, <3>5
      <4> QED BY <3>1, <3>2, <3>5, <4>1
    <3> QED BY <3>4, <3>5
  <2> QED BY <2>5, <2>8, <2>9 DEF qs
<1>17. Hopeless' /\ GivenUp'
  BY <1>1, <1>4, <1>8, <1>10, <1>12, <1>13, <1>16, Remaining DEF SomeFailed
<1> QED BY <1>8, <1>9, <1>10, <1>12, <1>13, <1>17 DEF PInv

-----------------------------------------------------------------------------
LEMMA StutterStep ==
    ASSUME PInv, UNCHANGED vars
    PROVE  PInv'
<1>1. UNCHANGED <<trace, promises, made, mo, state, joining, cv, released,
                  failed_promise, hard_failed_promise>>
  BY DEF vars
<1>2. Types /\ Waiting /\ Clocks /\ Reads /\ Graph /\ Hopeless /\ GivenUp
  BY DEF PInv
<1>3. Types' /\ Waiting' /\ Clocks' /\ Reads' /\ Graph'
  BY <1>1, <1>2 DEF Types, Waiting, Clocks, Reads, Graph
<1>4. KnowledgeFits /\ KnowledgeFits'
  BY <1>2, <1>3, Afterwards
<1>5. Knowledge' = Knowledge
  <2>1. \A x : Knows(x)' = Knows(x)
    BY <1>1, KnowsIs
  <2> QED BY <2>1 DEF Knowledge
<1>6. Completions' = Completions
  BY <1>1, <1>4, <1>5 DEF KnowledgeFits
<1>7. Hopeless' /\ GivenUp'
  BY <1>1, <1>2, <1>6 DEF Hopeless, GivenUp, is_infeasible
<1> QED BY <1>3, <1>7 DEF PInv

-----------------------------------------------------------------------------
(***************************************************************************)
(* The theorems.                                                           *)
(***************************************************************************)
LEMMA InitPInv == Init => PInv
<1> SUFFICES ASSUME Init PROVE PInv
  OBVIOUS
<1> DEFINE a == [tid |-> Main, op |-> "W", val |-> 0, rf |-> NONE, hb |-> {1}]
<1>1. /\ trace = <<a>> /\ promises = <<>> /\ made = 0 /\ mo = {} /\ released = {}
      /\ state = [t \in Threads |-> IF t = Main THEN "ready" ELSE "new"]
      /\ joining = [t \in Threads |-> NONE]
      /\ cv = [t \in Threads |-> IF t = Main THEN {1} ELSE {}]
      /\ failed_promise = FALSE /\ hard_failed_promise = FALSE
  BY DEF Init
<1>2. a \in Actions /\ a.op = "W" /\ a.tid = Main /\ a.hb = {1} /\ a.rf = NONE
  BY PromisesAssumption DEF Actions
<1> HIDE DEF a
<1>3. trace \in Seq(Actions) /\ Len(trace) = 1 /\ DOMAIN trace = {1} /\ trace[1] = a
  BY <1>1, <1>2
<1>4. DOMAIN promises = {} /\ promises \in Seq(PromiseSet)
  BY <1>1
<1>5. Types
  <2>1. Len(trace) \in 1..MaxAccesses /\ made \in 0..MaxPromises
    BY <1>1, <1>3, PromisesAssumption
  <2>2. IsFiniteSet(released)
    BY <1>1, FS_EmptySet
  <2>3. cv \in [Threads -> SUBSET Nat]
    BY <1>1
  <2> QED BY <1>1, <1>3, <1>4, <2>1, <2>2, <2>3 DEF Types
<1>6. Waiting
  BY <1>1, PromisesAssumption DEF Waiting
<1>7. Clocks
  <2>1. Closed(trace, {1}) /\ Closed(trace, {})
    BY <1>2, <1>3 DEF Closed
  <2>2. \A i \in DOMAIN trace :
          /\ Closed(trace, trace[i].hb) /\ trace[i].hb \subseteq 1..i /\ i \in trace[i].hb
          /\ \A j \in 1..i : trace[j].tid = trace[i].tid => j \in trace[i].hb
          /\ i \in cv[trace[i].tid]
    <3> SUFFICES ASSUME NEW i \in DOMAIN trace
                 PROVE /\ Closed(trace, trace[i].hb) /\ trace[i].hb \subseteq 1..i /\ i \in trace[i].hb
                       /\ \A j \in 1..i : trace[j].tid = trace[i].tid => j \in trace[i].hb
                       /\ i \in cv[trace[i].tid]
      OBVIOUS
    <3>1. i = 1 /\ trace[i].hb = {1} /\ trace[i].tid = Main
      BY <1>2, <1>3
    <3>2. cv[Main] = {1}
      BY <1>1, PromisesAssumption
    <3>3. 1..1 = {1}
      OBVIOUS
    <3> QED BY <2>1, <3>1, <3>2, <3>3
  <2>3. \A t \in Threads : Closed(trace, cv[t])
    BY <1>1, <2>1
  <2> QED BY <1>1, <2>2, <2>3 DEF Clocks
<1>8. Reads
  BY <1>2, <1>3, <1>4 DEF Reads, ReadsOf, Available, Named
<1>9. Graph
  <2>1. IsFiniteSet(mo)
    BY <1>1, FS_EmptySet
  <2>2. Ordered(trace, mo)
    <3>1. \A i, j \in DOMAIN trace : i = 1 /\ j = 1
      BY <1>3
    <3>2. StoreIn(trace, 1) \in Reach(mo, StoreIn(trace, 1))
      BY <2>1, ReachFacts
    <3> QED BY <3>1, <3>2 DEF Ordered
  <2> QED BY <1>1, <2>1, <2>2 DEF Graph, GraphOf, Grounded
<1>10. Hopeless
  BY <1>4 DEF Hopeless
<1>11. GivenUp
  <2>1. ~HasCycle(mo)
    BY <1>1 DEF HasCycle
  <2> QED BY <1>1, <2>1 DEF GivenUp, is_infeasible
<1> QED BY <1>5, <1>6, <1>7, <1>8, <1>9, <1>10, <1>11 DEF PInv

LEMMA NextPInv == PInv /\ [Next]_vars => PInv'
<1> SUFFICES ASSUME PInv, [Next]_vars PROVE PInv'
  OBVIOUS
<1>1. CASE UNCHANGED vars
  BY <1>1, StutterStep
<1>2. ASSUME NEW t \in Threads,
             \/ ReadFromPast(t) \/ ReadFromPromise(t) \/ ReadFromFuture(t)
             \/ \E v \in Values : WriteUnpromised(t, v) \/ WriteResolving(t, v)
             \/ Release(t) \/ Acquire(t) \/ Finish(t)
             \/ \E u \in Threads : Create(t, u) \/ Block(t, u) \/ Join(t, u)
      PROVE PInv'
  <2>1. CASE ReadFromPast(t)
    BY <2>1, ReadFromPastStep
  <2>2. CASE ReadFromPromise(t)
    BY <2>2, ReadFromPromiseStep
  <2>3. CASE ReadFromFuture(t)
    BY <2>3, ReadFromFutureStep
  <2>4. CASE \E v \in Values : WriteUnpromised(t, v)
    BY <2>4, WriteUnpromisedStep
  <2>5. CASE \E v \in Values : WriteResolving(t, v)
    BY <2>5, WriteResolvingStep
  <2>6. CASE Release(t)
    BY <2>6, ReleaseStep
  <2>7. CASE Acquire(t)
    BY <2>7, AcquireStep
  <2>8. CASE Finish(t)
    BY <2>8, FinishStep
  <2>9. CASE \E u \in Threads : Create(t, u)
    BY <2>9, CreateStep
  <2>10. CASE \E u \in Threads : Block(t, u)
    BY <2>10, BlockStep
  <2>11. CASE \E u \in Threads : Join(t, u)
    BY <2>11, JoinStep
  <2> QED BY <1>2, <2>1, <2>2, <2>3, <2>4, <2>5, <2>6, <2>7, <2>8, <2>9, <2>10, <2>11
<1> QED BY <1>1, <1>2 DEF Next

\* The invariant that everything else follows from: the promises, modification
\* order and clock vectors of ModelExecution say no more than what every
\* completion of the execution obeys.
THEOREM PromisesInvariant == Spec => []PInv
BY InitPInv, NextPInv, PTL DEF Spec

LEMMA PInvTypeOK == PInv => TypeOK
<1> SUFFICES ASSUME PInv PROVE TypeOK
  OBVIOUS
<1>1. Types /\ Waiting /\ Reads
  BY DEF PInv
<1>2. ASSUME NEW k \in DOMAIN promises
      PROVE  /\ promises[k].available \subseteq promises[k].was
             /\ promises[k].was \subseteq {t \in Threads : state[t] # "new"}
             /\ promises[k].readers # <<>>
             /\ \A i \in DOMAIN trace : trace[i].rf = Node(promises[k].id) <=>
                   \E j \in DOMAIN promises[k].readers : promises[k].readers[j] = i
  <2>1. promises[k].was \subseteq Threads
    <3>1. promises[k] \in PromiseSet
      BY <1>1 DEF Types
    <3> QED BY <3>1 DEF PromiseSet
  <2>2. \A i : i \in ToSet(promises[k].readers) <=>
                  \E j \in DOMAIN promises[k].readers : promises[k].readers[j] = i
    BY DEF ToSet
  <2>3. ReadsOf(trace, promises) /\ Available(promises, state)
    BY <1>1 DEF Reads
  <2>4. /\ promises[k].available \subseteq promises[k].was
        /\ promises[k].was \subseteq {t \in Threads : state[t] # "new"}
    BY <2>1, <2>3 DEF Available
  <2>5. /\ promises[k].readers # <<>>
        /\ \A i \in DOMAIN trace : trace[i].rf = Node(promises[k].id) <=> i \in ToSet(promises[k].readers)
    BY <2>3 DEF ReadsOf
  <2> QED BY <2>2, <2>4, <2>5
<1> QED BY <1>1, <1>2 DEF TypeOK, Types, Waiting

\* A promise has its readers, and its threads, those that may still keep it
\* among those that ever could, exist; no thread waits for one that has
\* finished: Promise::add_reader, eliminate_thread and Scheduler::sleep keep it.
THEOREM PromisesTypeOK == Spec => []TypeOK
BY PromisesInvariant, PInvTypeOK, PTL

\* Promise::eliminate_thread, called from the checks of promises on creation,
\* synchronization, waiting and finishing of threads and on modification order,
\* takes away no thread that could keep the promise, and is_infeasible and a
\* failed promise end no execution that stores to come could make real.
THEOREM GivenUpOnlyTheHopeless == Spec => []GivenUpIsHopeless
<1>1. PInv => GivenUpIsHopeless
  BY DEF PInv, Hopeless, GivenUp, GivenUpIsHopeless, EliminatedIsHopeless, PruningIsSound
<1> QED BY <1>1, PromisesInvariant, PTL

\* Where mo orders what is known to be older, coherence has a cycle only with it.
LEMMA CoherentWith ==
    ASSUME NEW tr, NEW E, IsFiniteSet(E), Ordered(tr, E), NEW C, IsFiniteSet(C), HasCycle(C),
           \A e \in C : \E i, j \in DOMAIN tr : /\ i \in tr[j].hb /\ StoreIn(tr, i) # StoreIn(tr, j)
                                                /\ e = <<StoreIn(tr, i), StoreIn(tr, j)>>
    PROVE  HasCycle(E)
<1>1. \A e \in C : e[2] \in Reach(E, e[1]) /\ e[1] # e[2]
  BY DEF Ordered
<1>2. ASSUME NEW n PROVE Reach(C, n) \subseteq Reach(E, n)
  <2> DEFINE T == Reach(E, n)
  <2>1. n \in T
    BY ReachFacts
  <2>2. ASSUME NEW e \in C, e[1] \in T PROVE e[2] \in T
    BY <1>1, <2>2, ReachOn
  <2> HIDE DEF T
  <2>3. Reach(C, n) \subseteq T
    BY <2>1, <2>2, ReachFacts
  <2> QED BY <2>3 DEF T
<1>3. PICK e \in C : e[1] \in Reach(C, e[2])
  BY DEF HasCycle
<1>4. e[1] \in Reach(E, e[2]) /\ e[2] \in Reach(E, e[1]) /\ e[1] # e[2]
  BY <1>1, <1>2, <1>3
<1> QED BY <1>4, RoundTrip

LEMMA PInvAccepted == PInv => AcceptedIsReal
<1> SUFFICES ASSUME PInv PROVE AcceptedIsReal
  OBVIOUS
<1>1. Types /\ Reads /\ Graph /\ KnowledgeFits
  BY Afterwards DEF PInv
<1>2. FeasibleIsConsistent
  <2> SUFFICES ASSUME promises = <<>>, ~is_infeasible
               PROVE  /\ ~HasCycle(Coherence(<<>>))
                      /\ \A i \in DOMAIN trace : trace[i].op = "R" => i \notin trace[trace[i].rf].hb
    BY DEF FeasibleIsConsistent
  <2>1. DOMAIN promises = {} /\ <<>> \in [DOMAIN promises -> Threads]
    OBVIOUS
  <2>2. ~HasCycle(Coherence(<<>>))
    <3> DEFINE f == <<>>
               C == Coh(trace, Knowledge, promises, f)
    <3>1. f \in [DOMAIN promises -> Threads] /\ Fitting(trace, Knowledge, promises)
      BY <1>1, <2>1 DEF KnowledgeFits
    <3> HIDE DEF f
    <3>2. Coherence(f) = C
      BY <3>1, CoherenceIs
    <3>3. IsFiniteSet(C)
      BY <3>1, CohFacts
    <3>4. \A e \in C : \E i, j \in DOMAIN trace :
             /\ i \in trace[j].hb /\ StoreIn(trace, i) # StoreIn(trace, j)
             /\ e = <<StoreIn(trace, i), StoreIn(trace, j)>>
      BY <2>1 DEF Coh
    <3>5. IsFiniteSet(mo) /\ Ordered(trace, mo) /\ ~HasCycle(mo)
      BY <1>1 DEF Graph, GraphOf, is_infeasible
    <3> HIDE DEF C
    <3>6. ~HasCycle(C)
      BY <3>3, <3>4, <3>5, CoherentWith
    <3> QED BY <3>2, <3>6 DEF f
  <2>3. ASSUME NEW i \in DOMAIN trace, trace[i].op = "R" PROVE i \notin trace[trace[i].rf].hb
    <3>1. Ids(promises) = {}
      BY <2>1 DEF Ids
    <3> QED BY <1>1, <2>3, <3>1 DEF Reads, ReadsOf
  <2> QED BY <2>2, <2>3
<1>3. EndSettles
  <2> SUFFICES ASSUME \A t \in Threads : state[t] \in {"new", "complete"}, NEW k \in DOMAIN promises
               PROVE  promises[k].available = {}
    BY DEF EndSettles, has_failed
  <2>1. promises[k].available \subseteq Threads
    <3>1. promises[k] \in PromiseSet
      BY <1>1 DEF Types
    <3> QED BY <3>1 DEF PromiseSet
  <2>2. \A u \in promises[k].available : state[u] # "new" /\ state[u] # "complete"
    BY <1>1 DEF Reads, Available
  <2> QED BY <2>1, <2>2
<1> QED BY <1>2, <1>3 DEF AcceptedIsReal

\* An execution that is_feasible accepts is real: when resolve_promise has kept
\* every promise and mo_graph has no cycle, every load and store has a place
\* that coherence allows, and no load reads what it happens before; when all
\* threads have finished, whatever promise is left has failed.
THEOREM AcceptedExecutionsAreReal == Spec => []AcceptedIsReal
BY PromisesInvariant, PInvAccepted, PTL
=============================================================================
