---------------------------- MODULE DataRaceProofs ----------------------------
(***************************************************************************)
(* The race detector misses no race and reports no other, and its clock    *)
(* vectors are happens-before, for any number of threads, actions and      *)
(* accesses.                                                               *)
(*                                                                         *)
(* A record forgets accesses, and the queue holds pairs that later          *)
(* synchronization may order.  What stays true of a forgotten access is     *)
(* that one still recorded follows it along a chain of pairs that are       *)
(* ordered by the clock vectors or queued: RecordInv.  When no queued race  *)
(* is one any more the chain lies in the order of the clock vectors, which  *)
(* is transitive, and so has no race.                                       *)
(***************************************************************************)
EXTENDS DataRace, SequenceTheorems, FiniteSetTheorems, WellFoundedInduction, TLAPS

\* The clock vectors c of the trace tr: each action has its own clock, no clock
\* is from the future, each is that of an action, and an action knows what an
\* action it knows has known.
VectorsOK(tr, c) ==
  /\ c \in Seq([Threads -> Nat]) /\ Len(c) = Len(tr)
  /\ \A k \in DOMAIN tr : c[k][tr[k]] = k
  /\ \A k \in DOMAIN tr : \A t \in Threads :
        c[k][t] <= k /\ (c[k][t] # 0 => tr[c[k][t]] = t)
  /\ \A j, k \in DOMAIN tr : j <= c[k][tr[j]] => \A t \in Threads : c[j][t] <= c[k][t]

\* An action knows those that synchronize with it, and what it knows beside
\* itself it has along an edge of program order or synchronizes-with.
EdgesOK(tr, c, sy) ==
  /\ sy \subseteq (DOMAIN tr) \X (DOMAIN tr)
  /\ \A j, k \in DOMAIN tr : j < k /\ <<j, k>> \in sy => j <= c[k][tr[j]]
  /\ \A i, k \in DOMAIN tr :
        i < k /\ i <= c[k][tr[i]]
          => \E j \in DOMAIN tr : /\ j < k /\ (tr[j] = tr[k] \/ <<j, k>> \in sy)
                                  /\ i <= c[j][tr[i]]

TraceInv ==
  /\ trace \in Seq(Threads) /\ Len(trace) <= MaxActions
  /\ VectorsOK(trace, cv) /\ EdgesOK(trace, cv, sync)
  /\ pending \subseteq [acquire : Actions, release : Actions]
  /\ \A p \in pending : p.release < p.acquire
  /\ promised \in BOOLEAN /\ bug \in BOOLEAN

\* The accesses a record names have been made.
Stamps == [thread : Threads, clock : Nat]
Records == [short : BOOLEAN, write : Stamps, reads : SUBSET Stamps, capacity : Nat]

ShadowInv ==
  /\ accesses \subseteq [act : Actions, write : BOOLEAN]
  /\ shadow \in Records
  /\ Recorded(shadow.write, TRUE)
  /\ \A a \in shadow.reads : a.clock # 0 /\ Recorded(a, FALSE)

\* Two accesses as a queued race names them.
Conflict(x, y) == x.act < y.act /\ (x.write \/ y.write)

QueueOK(tr, acc, queue) ==
  /\ queue \subseteq [oldthread : Threads, oldclock : DOMAIN tr, newaction : DOMAIN tr]
  /\ \A r \in queue : /\ tr[r.oldclock] = r.oldthread
                      /\ \E x, y \in acc : /\ x.act = r.oldclock /\ y.act = r.newaction
                                            /\ Conflict(x, y)

QueueInv ==
  /\ QueueOK(trace, accesses, races)
  /\ ~bug /\ isfeasibleprefix(pending, promised) => races = {}

\* The accesses behind action i happen before those behind j, as the detector
\* tells it from the clock vectors: the thread of i has gone on and j knows.
Ordered(tr, c, i, j) == tr[i] = tr[j] \/ c[j][tr[i]] > i

\* Two racing accesses.
Racing(tr, c, x, y) == Conflict(x, y) /\ ~Ordered(tr, c, x.act, y.act)

BugInv == bug => \E x, y \in accesses : Racing(trace, cv, x, y)

Queued(queue, i, j) == \E r \in queue : r.oldclock = i /\ r.newaction = j

\* The sets of actions that hold with an action those behind it, where a race
\* on the queue counts as an order: later synchronization may make it one, or
\* it will be asserted.
UpClosed(tr, c, queue, S) ==
  \A i \in S : \A j \in DOMAIN tr :
    i < j /\ (Ordered(tr, c, i, j) \/ Queued(queue, i, j)) => j \in S

\* What the record and the queue know of the accesses acc: one that conflicts
\* with a later one, and one that was overwritten or subsumed, is followed, in
\* the order above, by the later one and by one that is still recorded.
Covered(acc, s, S) ==
  /\ \A x, y \in acc : Conflict(x, y) /\ x.act \in S => y.act \in S
  /\ \A x \in acc : x.act \in S =>
        s.write.clock \in S \/ (~x.write /\ \E a \in s.reads : a.clock \in S)

RecordInv ==
  ~bug => \A S \in SUBSET Actions : UpClosed(trace, cv, races, S) => Covered(accesses, shadow, S)

IInv == TraceInv /\ ShadowInv /\ QueueInv /\ BugInv /\ RecordInv
-----------------------------------------------------------------------------
(* Sequences. *)

LEMMA AppendFacts ==
  ASSUME NEW S, NEW s \in Seq(S), NEW e \in S
  PROVE  /\ Append(s, e) \in Seq(S) /\ Len(Append(s, e)) = Len(s) + 1
         /\ Len(s) \in Nat /\ DOMAIN s = 1 .. Len(s)
         /\ DOMAIN Append(s, e) = 1 .. Len(s) + 1
         /\ \A i \in 1 .. Len(s) : Append(s, e)[i] = s[i] /\ s[i] \in S
         /\ Append(s, e)[Len(s) + 1] = e
OBVIOUS

LEMMA FunctionIsSeq ==
  ASSUME NEW S, NEW n \in Nat, NEW f \in [1 .. n -> S]
  PROVE  f \in Seq(S) /\ Len(f) = n
<1>1. f = [i \in 1 .. n |-> f[i]] /\ \A i \in 1 .. n : f[i] \in S
  OBVIOUS
<1>2. [i \in 1 .. n |-> f[i]] \in Seq(S) /\ Len([i \in 1 .. n |-> f[i]]) = n
  BY <1>1
<1> QED BY <1>1, <1>2

LEMMA VectorTypes ==
  ASSUME NEW tr \in Seq(Threads), NEW c, VectorsOK(tr, c)
  PROVE  /\ DOMAIN tr = 1 .. Len(tr) /\ DOMAIN c = 1 .. Len(tr) /\ Len(tr) \in Nat
         /\ \A k \in 1 .. Len(tr) : /\ tr[k] \in Threads /\ c[k] \in [Threads -> Nat]
                                    /\ \A t \in Threads : c[k][t] \in Nat
<1>1. c \in Seq([Threads -> Nat]) /\ Len(c) = Len(tr)
  BY DEF VectorsOK
<1>2. \A k \in 1 .. Len(tr) : c[k] \in [Threads -> Nat]
  BY <1>1
<1> QED BY <1>1, <1>2
-----------------------------------------------------------------------------
(* A new action: its clock vector is merged from those of the action of its *)
(* thread before it and of the one it synchronizes with (0: there is none). *)

LEMMA AppendVectors ==
  ASSUME NEW tr \in Seq(Threads), NEW c, NEW sy, VectorsOK(tr, c), EdgesOK(tr, c, sy),
         NEW t \in Threads, NEW v \in [Threads -> Nat],
         NEW parent \in 0 .. Len(tr), NEW from \in 0 .. Len(tr),
         parent # 0 => tr[parent] = t,
         \A j \in DOMAIN tr : tr[j] = t => j <= parent,
         v[t] = Len(tr) + 1,
         parent # 0 => \A s \in Threads : c[parent][s] <= v[s],
         from # 0 => \A s \in Threads : c[from][s] <= v[s],
         \A s \in Threads \ {t} : \/ v[s] = 0
                                  \/ parent # 0 /\ v[s] = c[parent][s]
                                  \/ from # 0 /\ v[s] = c[from][s]
  PROVE  /\ VectorsOK(Append(tr, t), Append(c, v))
         /\ EdgesOK(Append(tr, t), Append(c, v),
                    sy \cup (IF from = 0 THEN {} ELSE {<<from, Len(tr) + 1>>}))
<1> DEFINE tr2 == Append(tr, t)
           c2 == Append(c, v)
           N == Len(tr) + 1
           sy2 == sy \cup (IF from = 0 THEN {} ELSE {<<from, N>>})
<1>1. /\ c \in Seq([Threads -> Nat]) /\ Len(c) = Len(tr)
      /\ \A k \in 1 .. Len(tr) : c[k][tr[k]] = k
      /\ \A k \in 1 .. Len(tr) : \A s \in Threads :
            c[k][s] <= k /\ (c[k][s] # 0 => tr[c[k][s]] = s)
      /\ \A j, k \in 1 .. Len(tr) : j <= c[k][tr[j]] => \A s \in Threads : c[j][s] <= c[k][s]
  BY VectorTypes DEF VectorsOK
<1>2. /\ \A k \in 1 .. Len(tr) : tr[k] \in Threads
      /\ \A k \in 1 .. Len(tr) : \A s \in Threads : c[k][s] \in Nat
      /\ Len(tr) \in Nat /\ DOMAIN tr = 1 .. Len(tr)
  BY VectorTypes
<1>3. /\ tr2 \in Seq(Threads) /\ Len(tr2) = N /\ DOMAIN tr2 = 1 .. N
      /\ \A i \in 1 .. Len(tr) : tr2[i] = tr[i]
      /\ tr2[N] = t
  BY AppendFacts
<1>4. /\ c2 \in Seq([Threads -> Nat]) /\ Len(c2) = N
      /\ \A i \in 1 .. Len(tr) : c2[i] = c[i]
      /\ c2[N] = v
  BY <1>1, AppendFacts
<1>5. /\ \A i \in 1 .. N : i \in 1 .. Len(tr) \/ i = N
      /\ 1 .. Len(tr) \subseteq 1 .. N /\ N \in 1 .. N /\ N \in Nat /\ Len(tr) = N - 1
      /\ \A s \in Threads : v[s] \in Nat
      /\ parent # 0 => parent \in 1 .. Len(tr)
      /\ from # 0 => from \in 1 .. Len(tr)
  <2>1. N \in Nat /\ Len(tr) = N - 1 /\ Len(tr) \in Nat
    BY <1>2
  <2>2. \A i \in 1 .. N : i \in 1 .. Len(tr) \/ i = N
    BY <2>1
  <2> QED BY <2>1, <2>2
<1> HIDE DEF tr2, c2, N
<1>6. \A s \in Threads : v[s] <= N
  <2> SUFFICES ASSUME NEW s \in Threads PROVE v[s] <= N
    OBVIOUS
  <2>1. CASE s = t
    BY <2>1, <1>5 DEF N
  <2>2. ASSUME NEW k \in 1 .. Len(tr), v[s] = c[k][s] PROVE v[s] <= N
    <3>1. c[k][s] <= k /\ c[k][s] \in Nat
      BY <1>1, <1>2
    <3> QED BY <2>2, <3>1, <1>2, <1>5
  <2>3. CASE s # t
    BY <2>3, <2>2, <1>5
  <2> QED BY <2>1, <2>3
<1>7. \A s \in Threads : v[s] # 0 => tr2[v[s]] = s
  <2> SUFFICES ASSUME NEW s \in Threads, v[s] # 0 PROVE tr2[v[s]] = s
    OBVIOUS
  <2>1. CASE s = t
    BY <2>1, <1>3 DEF N
  <2>2. CASE s # t
    <3>1. PICK k \in 1 .. Len(tr) : v[s] = c[k][s]
      BY <2>2, <1>5
    <3>2. c[k][s] <= k /\ c[k][s] \in Nat /\ (c[k][s] # 0 => tr[c[k][s]] = s)
      BY <1>1, <1>2
    <3>3. v[s] \in 1 .. Len(tr) /\ tr[v[s]] = s
      BY <3>1, <3>2, <1>2
    <3> QED BY <3>3, <1>3
  <2> QED BY <2>1, <2>2
\* What the new action knows of an older one it has from parent or from.
<1>8. ASSUME NEW j \in 1 .. Len(tr), j <= v[tr[j]]
      PROVE  \/ parent # 0 /\ j <= c[parent][tr[j]]
             \/ from # 0 /\ j <= c[from][tr[j]]
  <2>1. CASE tr[j] = t
    <3>0. parent \in Nat /\ j \in Nat /\ j # 0
      BY <1>2
    <3>1. j <= parent
      BY <2>1, <1>2, Zenon
    <3>2. parent \in 1 .. Len(tr)
      BY <3>0, <3>1, <1>5
    <3>3. tr[parent] = t /\ parent # 0
      BY <3>2
    <3>4. c[parent][tr[j]] = parent
      BY <2>1, <3>2, <3>3, <1>1
    <3> QED BY <3>1, <3>3, <3>4
  <2>2. CASE tr[j] # t
    BY <2>2, <1>8, <1>2
  <2> QED BY <2>1, <2>2
<1>9. ASSUME NEW j \in 1 .. N, NEW k \in 1 .. N, j <= c2[k][tr2[j]], NEW s \in Threads
      PROVE  c2[j][s] <= c2[k][s]
  <2>1. CASE k = N /\ j = N
    BY <2>1, <1>4, <1>5
  <2>2. CASE k = N /\ j \in 1 .. Len(tr)
    <3>1. j <= v[tr[j]]
      BY <2>2, <1>9, <1>3, <1>4
    <3>2. \/ parent # 0 /\ c[j][s] <= c[parent][s]
          \/ from # 0 /\ c[j][s] <= c[from][s]
      BY <2>2, <3>1, <1>8, <1>1, <1>5
    <3>3. /\ c[j][s] \in Nat /\ v[s] \in Nat /\ c2[j] = c[j] /\ c2[k] = v
          /\ parent # 0 => c[parent][s] \in Nat /\ c[parent][s] <= v[s]
          /\ from # 0 => c[from][s] \in Nat /\ c[from][s] <= v[s]
      BY <2>2, <1>2, <1>4, <1>5
    <3> DEFINE x == c[j][s]
               y == v[s]
               p == c[parent][s]
               f == c[from][s]
    <3>4. x \in Nat /\ y \in Nat
      BY <3>3
    <3>5. (p \in Nat /\ p <= y /\ x <= p) \/ (f \in Nat /\ f <= y /\ x <= f)
      BY <3>2, <3>3, Zenon
    <3>6. c2[j][s] = x /\ c2[k][s] = y
      BY <3>3, Zenon
    <3> HIDE DEF x, y, p, f
    <3>7. x <= y
      BY <3>4, <3>5, SMT
    <3> QED BY <3>6, <3>7, Zenon
  <2>3. CASE k \in 1 .. Len(tr) /\ j = N
    <3>1. c2[k][t] <= k
      BY <2>3, <1>4, <1>1
    <3>2. N <= c2[k][t] /\ c2[k][t] \in Nat /\ k < N
      BY <2>3, <1>9, <1>2, <1>3, <1>4, <1>5
    <3> QED BY <3>1, <3>2, <1>5
  <2>4. CASE k \in 1 .. Len(tr) /\ j \in 1 .. Len(tr)
    BY <2>4, <1>9, <1>1, <1>3, <1>4
  <2> QED BY <2>1, <2>2, <2>3, <2>4, <1>5
<1>10. VectorsOK(tr2, c2)
  <2>1. \A k \in 1 .. N : c2[k][tr2[k]] = k
    BY <1>1, <1>3, <1>4, <1>5 DEF N
  <2>2. ASSUME NEW k \in 1 .. N, NEW s \in Threads
        PROVE  c2[k][s] <= k /\ (c2[k][s] # 0 => tr2[c2[k][s]] = s)
    <3>1. CASE k = N
      BY <3>1, <1>4, <1>6, <1>7
    <3>2. CASE k \in 1 .. Len(tr)
      <4>1. c2[k][s] <= k /\ c2[k][s] \in Nat
        BY <3>2, <1>1, <1>2, <1>4
      <4>2. ASSUME c2[k][s] # 0 PROVE tr2[c2[k][s]] = s
        <5>1. c2[k][s] = c[k][s] /\ c[k][s] \in Nat /\ c[k][s] <= k
          BY <3>2, <1>1, <1>2, <1>4
        <5>2. tr[c[k][s]] = s
          BY <3>2, <5>1, <4>2, <1>1
        <5>3. c[k][s] \in 1 .. Len(tr)
          BY <3>2, <5>1, <4>2, <1>2
        <5> QED BY <5>1, <5>2, <5>3, <1>3
      <4> QED BY <4>1, <4>2
    <3> QED BY <3>1, <3>2, <1>5
  <2> QED BY <2>1, <2>2, <1>9, <1>3, <1>4 DEF VectorsOK
<1>11. EdgesOK(tr2, c2, sy2)
  <2>0. /\ sy \subseteq (1 .. Len(tr)) \X (1 .. Len(tr))
        /\ \A j, k \in 1 .. Len(tr) : j < k /\ <<j, k>> \in sy => j <= c[k][tr[j]]
        /\ \A i, k \in 1 .. Len(tr) :
              i < k /\ i <= c[k][tr[i]]
                => \E j \in 1 .. Len(tr) : /\ j < k /\ (tr[j] = tr[k] \/ <<j, k>> \in sy)
                                           /\ i <= c[j][tr[i]]
    BY <1>2 DEF EdgesOK
  <2>1. sy2 \subseteq (1 .. N) \X (1 .. N)
    BY <2>0, <1>5 DEF N
  <2>2. ASSUME NEW j \in 1 .. N, NEW k \in 1 .. N, j < k, <<j, k>> \in sy2
        PROVE  j <= c2[k][tr2[j]]
    <3>1. CASE <<j, k>> \in sy
      <4>1. j \in 1 .. Len(tr) /\ k \in 1 .. Len(tr)
        BY <3>1, <2>0
      <4> QED BY <4>1, <3>1, <2>0, <2>2, <1>3, <1>4
    <3>2. CASE from # 0 /\ j = from /\ k = N
      <4>1. c[j][tr[j]] = j /\ tr[j] \in Threads /\ j \in 1 .. Len(tr)
        BY <3>2, <1>1, <1>2, <1>5
      <4> QED BY <4>1, <3>2, <1>3, <1>4
    <3> QED BY <3>1, <3>2, <2>2
  <2>3. ASSUME NEW i \in 1 .. N, NEW k \in 1 .. N, i < k, i <= c2[k][tr2[i]]
        PROVE  \E j \in 1 .. N : /\ j < k /\ (tr2[j] = tr2[k] \/ <<j, k>> \in sy2)
                                 /\ i <= c2[j][tr2[i]]
    <3>1. i \in 1 .. Len(tr)
      BY <2>3, <1>5
    <3>2. CASE k \in 1 .. Len(tr)
      <4>1. PICK j \in 1 .. Len(tr) : /\ j < k /\ (tr[j] = tr[k] \/ <<j, k>> \in sy)
                                      /\ i <= c[j][tr[i]]
        BY <3>1, <3>2, <2>0, <2>3, <1>3, <1>4
      <4>2. j \in 1 .. N /\ tr2[j] = tr[j] /\ tr2[k] = tr[k] /\ tr2[i] = tr[i] /\ c2[j] = c[j]
        BY <3>1, <3>2, <1>3, <1>4, <1>5
      <4> QED BY <4>1, <4>2
    <3>3. CASE k = N
      <4>1. \/ parent # 0 /\ i <= c[parent][tr[i]]
            \/ from # 0 /\ i <= c[from][tr[i]]
        BY <3>1, <3>3, <2>3, <1>3, <1>4, <1>8
      <4>2. CASE parent # 0 /\ i <= c[parent][tr[i]]
        <5>1. parent \in 1 .. Len(tr) /\ parent < N
          BY <4>2, <1>5
        <5>2. tr2[parent] = t /\ tr2[k] = t /\ c2[parent] = c[parent] /\ tr2[i] = tr[i]
          BY <4>2, <5>1, <3>1, <3>3, <1>3, <1>4
        <5> QED BY <5>1, <5>2, <4>2, <3>3, <1>5
      <4>3. CASE from # 0 /\ i <= c[from][tr[i]]
        <5>1. from \in 1 .. Len(tr) /\ from < N /\ <<from, k>> \in sy2
          BY <4>3, <3>3, <1>5
        <5>2. c2[from] = c[from] /\ tr2[i] = tr[i]
          BY <5>1, <3>1, <1>3, <1>4
        <5> QED BY <5>1, <5>2, <4>3, <3>3, <1>5
      <4> QED BY <4>1, <4>2, <4>3
    <3> QED BY <3>2, <3>3, <1>5
  <2> QED BY <2>1, <2>2, <2>3, <1>3 DEF EdgesOK
<1> QED BY <1>10, <1>11 DEF tr2, c2, N
-----------------------------------------------------------------------------
(* A pending release sequence synchronizes: the acquire, and the actions    *)
(* that know of it, learn what the release knew.                            *)

LEMMA MergeFacts ==
  ASSUME NEW u \in [Threads -> Nat], NEW v \in [Threads -> Nat]
  PROVE  /\ merge(u, v) \in [Threads -> Nat]
         /\ \A t \in Threads : /\ u[t] <= merge(u, v)[t] /\ v[t] <= merge(u, v)[t]
                               /\ merge(u, v)[t] \in {u[t], v[t]}
<1>1. \A t \in Threads : u[t] \in Nat /\ v[t] \in Nat
  OBVIOUS
<1> QED BY <1>1 DEF merge

\* The vectors c2 are those of c after a has learnt what r knew.
Learnt(tr, c, c2, a, r) ==
  /\ c2 \in Seq([Threads -> Nat]) /\ Len(c2) = Len(tr)
  /\ \A k \in 1 .. Len(tr) : a <= c[k][tr[a]] =>
        /\ a <= k
        /\ \A s \in Threads : /\ c[k][s] <= c2[k][s] /\ c[a][s] <= c2[k][s]
                              /\ c[r][s] <= c2[k][s]
                              /\ c2[k][s] \in {c[k][s], c[a][s], c[r][s]}
  /\ \A k \in 1 .. Len(tr) : ~(a <= c[k][tr[a]]) => c2[k] = c[k]

LEMMA ResolveValue ==
  ASSUME NEW tr \in Seq(Threads), NEW c, VectorsOK(tr, c),
         NEW p, p.acquire \in DOMAIN tr, p.release \in DOMAIN tr, p.release < p.acquire,
         trace[p.acquire] = tr[p.acquire]
  PROVE  Learnt(tr, c, Resolve(c, p, TRUE), p.acquire, p.release)
<1> DEFINE a == p.acquire
           r == p.release
           n == Len(tr)
           c1 == [c EXCEPT ![a] = merge(@, c[r])]
           c2 == Resolve(c, p, TRUE)
<1>1. /\ n \in Nat /\ a \in 1 .. n /\ r \in 1 .. n /\ DOMAIN c = 1 .. n /\ r < a
      /\ \A k \in 1 .. n : tr[k] \in Threads /\ c[k] \in [Threads -> Nat]
      /\ trace[a] = tr[a]
  BY VectorTypes
<1>2. \A k \in 1 .. n : c[k][tr[a]] \in Nat /\ c[k][tr[a]] <= k
  BY <1>1, VectorTypes DEF VectorsOK
<1>13. ASSUME NEW k \in 1 .. n, a <= c[k][tr[a]] PROVE a <= k
  <2>1. c[k][tr[a]] \in Nat /\ c[k][tr[a]] <= k /\ a \in Nat /\ k \in Nat
    BY <1>1, <1>2
  <2> QED BY <1>13, <2>1
<1>3. c[a][tr[a]] = a
  BY <1>1 DEF VectorsOK
<1>4. c \in [1 .. n -> [Threads -> Nat]]
  BY VectorTypes DEF VectorsOK
<1>5. c2 = [k \in DOMAIN c1 |-> IF k > a /\ a <= c1[k][trace[a]] THEN merge(c1[k], c1[a]) ELSE c1[k]]
  BY DEF Resolve, propagate_clockvector, happens_before
<1> HIDE DEF c2, a, r, n
<1>6. merge(c[a], c[r]) \in [Threads -> Nat]
  BY <1>1, MergeFacts
<1>7. /\ c1 \in [1 .. n -> [Threads -> Nat]]
      /\ c1[a] = merge(c[a], c[r])
      /\ \A k \in 1 .. n : k # a => c1[k] = c[k]
  BY <1>1, <1>4, <1>6
<1> HIDE DEF c1
<1>8. DOMAIN c2 = 1 .. n
  BY <1>5, <1>7
<1>9. ASSUME NEW k \in 1 .. n, ~(a <= c[k][tr[a]])
      PROVE  c2[k] = c[k]
  <2>1. k # a
    BY <1>9, <1>3, <1>1
  <2> QED BY <2>1, <1>9, <1>5, <1>7, <1>1
<1>10. ASSUME NEW k \in 1 .. n, a <= c[k][tr[a]], NEW s \in Threads
      PROVE  /\ c[k][s] <= c2[k][s] /\ c[a][s] <= c2[k][s] /\ c[r][s] <= c2[k][s]
             /\ c2[k][s] \in {c[k][s], c[a][s], c[r][s]}
  <2>0. c[k][s] \in Nat /\ c[a][s] \in Nat /\ c[r][s] \in Nat
    BY <1>1
  <2>1. /\ c[a][s] <= c1[a][s] /\ c[r][s] <= c1[a][s]
        /\ c1[a][s] \in {c[a][s], c[r][s]}
    BY <1>1, <1>7, MergeFacts
  <2>2. CASE k = a
    <3>1. c2[k] = c1[a]
      BY <2>2, <1>5, <1>7, <1>1
    <3> QED BY <3>1, <2>0, <2>1, <2>2
  <2>3. CASE k # a
    <3>1. a <= k
      BY <1>10, <1>13
    <3>2. k > a
      BY <2>3, <3>1, <1>1
    <3>3. c1[k] = c[k] /\ c2[k] = merge(c[k], c1[a])
      BY <2>3, <3>2, <1>10, <1>5, <1>7, <1>1
    <3>4. c1[a] \in [Threads -> Nat] /\ c[k] \in [Threads -> Nat]
      BY <1>7, <1>1
    <3>5. /\ c[k][s] <= c2[k][s] /\ c1[a][s] <= c2[k][s]
          /\ c2[k][s] \in {c[k][s], c1[a][s]} /\ c1[a][s] \in Nat
      BY <3>3, <3>4, MergeFacts
    <3>6. c2[k][s] \in Nat
      BY <3>5, <2>0
    <3> QED BY <3>5, <3>6, <2>0, <2>1
  <2> QED BY <2>2, <2>3
<1>11. c2 \in [1 .. n -> [Threads -> Nat]]
  <2>1. ASSUME NEW k \in 1 .. n PROVE c2[k] \in [Threads -> Nat]
    <3>1. c1[k] \in [Threads -> Nat] /\ c1[a] \in [Threads -> Nat]
      BY <1>7, <1>1
    <3>2. merge(c1[k], c1[a]) \in [Threads -> Nat]
      BY <3>1, MergeFacts
    <3> QED BY <3>1, <3>2, <1>5, <1>7
  <2>2. c2 = [k \in 1 .. n |-> c2[k]]
    BY <1>5, <1>8
  <2> QED BY <2>1, <2>2
<1>12. c2 \in Seq([Threads -> Nat]) /\ Len(c2) = n
  BY <1>11, <1>1, FunctionIsSeq
<1> QED BY <1>9, <1>10, <1>12, <1>13 DEF a, r, n, c2, Learnt

LEMMA SynchronizeVectors ==
  ASSUME NEW tr \in Seq(Threads), NEW c, NEW sy, VectorsOK(tr, c), EdgesOK(tr, c, sy),
         NEW a \in 1 .. Len(tr), NEW r \in 1 .. Len(tr), r < a,
         NEW c2, Learnt(tr, c, c2, a, r)
  PROVE  /\ VectorsOK(tr, c2) /\ EdgesOK(tr, c2, sy \cup {<<r, a>>})
         /\ \A k \in 1 .. Len(tr), s \in Threads : c[k][s] <= c2[k][s]
<1> DEFINE n == Len(tr)
           Knows(k) == a <= c[k][tr[a]]
<1>1. /\ n \in Nat /\ DOMAIN tr = 1 .. n
      /\ \A k \in 1 .. n : tr[k] \in Threads
      /\ \A k \in 1 .. n : \A s \in Threads : c[k][s] \in Nat /\ c2[k][s] \in Nat
  <2>1. \A k \in 1 .. n : c2[k] \in [Threads -> Nat]
    <3>1. c2 \in Seq([Threads -> Nat]) /\ Len(c2) = n
      BY DEF Learnt
    <3> QED BY <3>1, ElementOfSeq
  <2> QED BY <2>1, VectorTypes
<1>2. /\ \A k \in 1 .. n : c[k][tr[k]] = k
      /\ \A k \in 1 .. n : \A s \in Threads :
            c[k][s] <= k /\ (c[k][s] # 0 => tr[c[k][s]] = s)
      /\ \A j, k \in 1 .. n : j <= c[k][tr[j]] => \A s \in Threads : c[j][s] <= c[k][s]
  BY <1>1 DEF VectorsOK
<1>3. \A k \in 1 .. n : Knows(k) =>
            /\ a <= k
            /\ \A s \in Threads : /\ c[k][s] <= c2[k][s] /\ c[a][s] <= c2[k][s]
                                  /\ c[r][s] <= c2[k][s]
                                  /\ c2[k][s] \in {c[k][s], c[a][s], c[r][s]}
  BY DEF Learnt
<1>4. \A k \in 1 .. n : ~Knows(k) => c2[k] = c[k]
  BY DEF Learnt
<1>5. Knows(a) /\ a \in Nat /\ r \in Nat /\ r < a /\ tr[a] \in Threads
  BY <1>1, <1>2
<1>6. ASSUME NEW j \in 1 .. n, NEW k \in 1 .. n, j <= c[k][tr[j]], Knows(j)
      PROVE  Knows(k)
  <2>1. c[j][tr[a]] <= c[k][tr[a]]
    BY <1>1, <1>2, <1>6, <1>5
  <2> QED BY <2>1, <1>6, <1>1, <1>5
<1> HIDE DEF n, Knows
<1>7. ASSUME NEW k \in 1 .. n, NEW s \in Threads
      PROVE  c[k][s] <= c2[k][s]
  BY <1>1, <1>3, <1>4, <1>7
\* What is new in a vector is from the acquire or the release, which are older.
<1>8. ASSUME NEW k \in 1 .. n, NEW s \in Threads
      PROVE  \/ c2[k][s] = c[k][s]
             \/ Knows(k) /\ a <= k /\ c2[k][s] = c[a][s]
             \/ Knows(k) /\ a <= k /\ c2[k][s] = c[r][s]
  BY <1>3, <1>4, <1>8
<1>9. ASSUME NEW k \in 1 .. n, NEW s \in Threads
      PROVE  c2[k][s] <= k /\ (c2[k][s] # 0 => tr[c2[k][s]] = s)
  <2>1. c[a][s] <= a /\ c[r][s] <= r /\ c[a][s] \in Nat /\ c[r][s] \in Nat /\ a \in 1 .. n /\ r \in 1 .. n
    BY <1>1, <1>2 DEF n
  <2>2. /\ c[a][s] # 0 => tr[c[a][s]] = s
        /\ c[r][s] # 0 => tr[c[r][s]] = s
        /\ c[k][s] # 0 => tr[c[k][s]] = s
        /\ c[k][s] <= k
    BY <2>1, <1>2
  <2>3. k \in Nat /\ c[k][s] \in Nat
    BY <1>1
  <2> QED BY <1>8, <2>1, <2>2, <2>3, <1>5
<1>10. ASSUME NEW k \in 1 .. n PROVE c2[k][tr[k]] = k
  <2>1. c2[k][tr[k]] <= k /\ c[k][tr[k]] <= c2[k][tr[k]] /\ c[k][tr[k]] = k
    BY <1>1, <1>2, <1>7, <1>9
  <2> QED BY <2>1, <1>1
<1>11. ASSUME NEW j \in 1 .. n, NEW k \in 1 .. n, j <= c2[k][tr[j]], NEW s \in Threads
       PROVE  c2[j][s] <= c2[k][s]
  <2>0. /\ tr[j] \in Threads /\ j \in Nat /\ k \in Nat
        /\ c[j][s] \in Nat /\ c[k][s] \in Nat /\ c2[j][s] \in Nat /\ c2[k][s] \in Nat
        /\ c[a][s] \in Nat /\ c[r][s] \in Nat /\ a \in 1 .. n /\ r \in 1 .. n
    BY <1>1 DEF n
  <2>1. CASE j <= c[k][tr[j]]
    <3>1. c[j][s] <= c[k][s]
      BY <2>1, <1>2
    <3>2. c[k][s] <= c2[k][s]
      BY <1>7
    <3>3. CASE Knows(j)
      <4>1. Knows(k)
        BY <2>1, <3>3, <1>6
      <4>2. c2[j][s] = c[j][s] \/ c2[j][s] = c[a][s] \/ c2[j][s] = c[r][s]
        BY <3>3, <1>3
      <4>3. c[a][s] <= c2[k][s] /\ c[r][s] <= c2[k][s]
        BY <4>1, <1>3
      <4>4. c[j][s] <= c2[k][s]
        BY <3>1, <3>2, <2>0
      <4> QED BY <4>2, <4>3, <4>4
    <3>4. CASE ~Knows(j)
      <4>1. c2[j][s] = c[j][s]
        BY <3>4, <1>4
      <4> QED BY <4>1, <3>1, <3>2, <2>0
    <3> QED BY <3>3, <3>4
  <2>2. CASE Knows(k) /\ c2[k][tr[j]] = c[a][tr[j]]
    <3>1. j <= c[a][tr[j]]
      BY <2>2, <1>11
    <3>2. c[j][s] <= c[a][s] /\ j <= a
      <4>1. c[a][tr[j]] <= a /\ c[a][tr[j]] \in Nat
        BY <2>0, <1>1, <1>2
      <4> QED BY <3>1, <4>1, <2>0, <1>2, <1>5
    <3>3. c[a][s] <= c2[k][s] /\ c[r][s] <= c2[k][s]
      BY <2>2, <1>3
    <3>4. CASE j = a
      <4>1. c2[j][s] \in {c[a][s], c[r][s]}
        BY <3>4, <1>3, <1>5, <2>0
      <4> QED BY <4>1, <3>3, <2>0
    <3>5. CASE j # a
      <4>1. ~Knows(j)
        BY <3>2, <3>5, <1>3, <1>5, <2>0
      <4>2. c2[j][s] = c[j][s]
        BY <4>1, <1>4
      <4> QED BY <4>2, <3>2, <3>3, <2>0
    <3> QED BY <3>4, <3>5
  <2>3. CASE Knows(k) /\ c2[k][tr[j]] = c[r][tr[j]]
    <3>1. j <= c[r][tr[j]]
      BY <2>3, <1>11
    <3>2. c[j][s] <= c[r][s] /\ j <= r
      <4>1. c[r][tr[j]] <= r /\ c[r][tr[j]] \in Nat
        BY <2>0, <1>1, <1>2
      <4> QED BY <3>1, <4>1, <2>0, <1>2, <1>5
    <3>3. c[r][s] <= c2[k][s]
      BY <2>3, <1>3
    <3>4. ~Knows(j)
      BY <3>2, <1>3, <1>5, <2>0
    <3>5. c2[j][s] = c[j][s]
      BY <3>4, <1>4
    <3> QED BY <3>5, <3>2, <3>3, <2>0
  <2> QED BY <2>1, <2>2, <2>3, <2>0, <1>8, <1>11
<1>12. VectorsOK(tr, c2)
  BY <1>1, <1>9, <1>10, <1>11 DEF VectorsOK, Learnt, n
<1>13. EdgesOK(tr, c2, sy \cup {<<r, a>>})
  <2>0. /\ sy \subseteq (1 .. n) \X (1 .. n)
        /\ \A j, k \in 1 .. n : j < k /\ <<j, k>> \in sy => j <= c[k][tr[j]]
        /\ \A i, k \in 1 .. n :
              i < k /\ i <= c[k][tr[i]]
                => \E j \in 1 .. n : /\ j < k /\ (tr[j] = tr[k] \/ <<j, k>> \in sy)
                                     /\ i <= c[j][tr[i]]
    BY <1>1 DEF EdgesOK
  <2>1. sy \cup {<<r, a>>} \subseteq (1 .. n) \X (1 .. n)
    BY <2>0 DEF n
  <2>2. ASSUME NEW j \in 1 .. n, NEW k \in 1 .. n, j < k, <<j, k>> \in sy \cup {<<r, a>>}
        PROVE  j <= c2[k][tr[j]]
    <3>0. tr[j] \in Threads /\ j \in Nat /\ c[k][tr[j]] \in Nat /\ c2[k][tr[j]] \in Nat
      BY <1>1
    <3>1. CASE <<j, k>> \in sy
      <4>1. j <= c[k][tr[j]] /\ c[k][tr[j]] <= c2[k][tr[j]]
        BY <3>0, <3>1, <2>0, <2>2, <1>7
      <4> QED BY <4>1, <3>0
    <3>2. CASE j = r /\ k = a
      <4>1. c[r][tr[r]] <= c2[k][tr[r]]
        BY <3>0, <3>2, <1>3, <1>5
      <4>2. c[r][tr[r]] = r
        BY <3>2, <1>2
      <4> QED BY <3>2, <4>1, <4>2
    <3> QED BY <3>1, <3>2, <2>2
  <2>3. ASSUME NEW i \in 1 .. n, NEW k \in 1 .. n, i < k, i <= c2[k][tr[i]]
        PROVE  \E j \in 1 .. n : /\ j < k /\ (tr[j] = tr[k] \/ <<j, k>> \in sy \cup {<<r, a>>})
                                 /\ i <= c2[j][tr[i]]
    <3>0. /\ tr[i] \in Threads /\ i \in Nat /\ k \in Nat /\ a \in 1 .. n /\ r \in 1 .. n
          /\ \A j \in 1 .. n : c[j][tr[i]] \in Nat /\ c2[j][tr[i]] \in Nat /\ c[j][tr[i]] <= c2[j][tr[i]]
      BY <1>1, <1>7 DEF n
    <3>1. CASE i <= c[k][tr[i]]
      <4>1. PICK j \in 1 .. n : /\ j < k /\ (tr[j] = tr[k] \/ <<j, k>> \in sy)
                                /\ i <= c[j][tr[i]]
        BY <3>1, <2>0, <2>3
      <4>2. c[j][tr[i]] \in Nat /\ c2[j][tr[i]] \in Nat /\ c[j][tr[i]] <= c2[j][tr[i]]
        BY <3>0
      <4>3. i <= c2[j][tr[i]]
        BY <3>0, <4>1, <4>2
      <4> QED BY <4>1, <4>3
    <3>2. CASE Knows(k) /\ i <= c[r][tr[i]]
      <4>1. CASE k = a
        <5>1. i <= c2[r][tr[i]] /\ r < k
          BY <3>0, <3>2, <4>1, <1>5
        <5> QED BY <3>0, <4>1, <5>1
      <4>2. CASE k # a
        <5>1. a < k /\ a <= c[k][tr[a]]
          BY <3>0, <3>2, <4>2, <1>3, <1>5 DEF Knows
        <5>2. PICK j \in 1 .. n : /\ j < k /\ (tr[j] = tr[k] \/ <<j, k>> \in sy)
                                  /\ a <= c[j][tr[a]]
          BY <3>0, <5>1, <2>0
        <5>3. c[r][tr[i]] <= c2[j][tr[i]]
          BY <3>0, <5>2, <1>3 DEF Knows
        <5>4. i <= c2[j][tr[i]]
          BY <3>0, <3>2, <5>3
        <5> QED BY <5>2, <5>4
      <4> QED BY <4>1, <4>2
    <3>3. CASE Knows(k) /\ i <= c[a][tr[i]]
      <4>1. c[a][tr[i]] <= c[k][tr[i]]
        BY <3>0, <3>3, <1>2 DEF Knows
      <4> QED BY <3>0, <3>1, <3>3, <4>1
    <3> QED BY <3>0, <3>1, <3>2, <3>3, <1>8, <2>3
  <2> QED BY <1>1, <2>1, <2>2, <2>3 DEF EdgesOK
<1> QED BY <1>7, <1>12, <1>13 DEF n
-----------------------------------------------------------------------------
(* Clock vectors are happens-before. *)

LEMMA LeastNat ==
  ASSUME NEW S \in SUBSET Nat, S # {}
  PROVE  \E i \in S : \A j \in S : i <= j
<1>1. PICK i \in S : \A j \in S : ~(<<j, i>> \in OpToRel(<, Nat))
  BY WFMin, NatLessThanWellFounded
<1>2. \A j \in S : ~(j < i)
  BY <1>1 DEF OpToRel
<1> QED BY <1>2

\* The actions directly before k.
Before(k) == {i \in 1 .. k - 1 : trace[i] = trace[k] \/ <<i, k>> \in sync}

\* The actions that k knows of.
Known(k) == {i \in 1 .. k : i <= cv[k][trace[i]]}

LEMMA TraceTypes ==
  ASSUME TraceInv
  PROVE  /\ Actions = 1 .. Len(trace) /\ Len(trace) \in Nat
         /\ \A k \in Actions : trace[k] \in Threads /\ cv[k] \in [Threads -> Nat]
         /\ \A k \in Actions, t \in Threads : cv[k][t] \in Nat /\ cv[k][t] <= k
         /\ \A k \in Actions : cv[k][trace[k]] = k
         /\ \A j, k \in Actions : j <= cv[k][trace[j]] => \A t \in Threads : cv[j][t] <= cv[k][t]
<1>1. trace \in Seq(Threads) /\ VectorsOK(trace, cv)
  BY DEF TraceInv
<1>2. DOMAIN trace = 1 .. Len(trace)
  BY <1>1, VectorTypes
<1> QED BY <1>1, <1>2, VectorTypes DEF VectorsOK, Actions

\* What an action knows is itself and what the actions directly before it know.
LEMMA KnownEquation ==
  ASSUME TraceInv, NEW k \in Actions
  PROVE  Known(k) = {k} \cup UNION {Known(j) : j \in Before(k)}
<1>0. /\ Actions = 1 .. Len(trace) /\ Len(trace) \in Nat /\ k \in Nat
      /\ \A i \in Actions : trace[i] \in Threads
      /\ \A i \in Actions, t \in Threads : cv[i][t] \in Nat /\ cv[i][t] <= i
      /\ \A i \in Actions : cv[i][trace[i]] = i
      /\ \A i, j \in Actions : i <= cv[j][trace[i]] => \A t \in Threads : cv[i][t] <= cv[j][t]
  BY TraceTypes
<1>1. ASSUME NEW i \in Known(k), i # k
      PROVE  \E j \in Before(k) : i \in Known(j)
  <2>1. i \in Actions /\ i < k /\ i <= cv[k][trace[i]] /\ i \in Nat
    BY <1>0, <1>1 DEF Known
  <2>2. PICK j \in Actions : /\ j < k /\ (trace[j] = trace[k] \/ <<j, k>> \in sync)
                             /\ i <= cv[j][trace[i]]
    BY <2>1 DEF TraceInv, EdgesOK, Actions
  <2>3. j \in Before(k)
    BY <2>2, <1>0 DEF Before
  <2>4. i <= j
    <3>1. cv[j][trace[i]] \in Nat /\ cv[j][trace[i]] <= j /\ j \in Nat
      BY <1>0, <2>1
    <3> QED BY <2>1, <2>2, <3>1
  <2> QED BY <2>1, <2>2, <2>3, <2>4, <1>0 DEF Known
<1>2. k \in Known(k)
  BY <1>0 DEF Known
<1>3. ASSUME NEW j \in Before(k), NEW i \in Known(j)
      PROVE  i \in Known(k)
  <2>1. j \in Actions /\ j < k /\ j \in Nat /\ (trace[j] = trace[k] \/ <<j, k>> \in sync)
    BY <1>0 DEF Before
  <2>2. j <= cv[k][trace[j]]
    <3>1. CASE trace[j] = trace[k]
      BY <3>1, <2>1, <1>0
    <3>2. CASE <<j, k>> \in sync
      BY <3>2, <2>1 DEF TraceInv, EdgesOK, Actions
    <3> QED BY <2>1, <3>1, <3>2
  <2>3. i \in Actions /\ i \in Nat /\ i <= cv[j][trace[i]] /\ i <= j
    BY <2>1, <1>0 DEF Known
  <2>4. cv[j][trace[i]] <= cv[k][trace[i]] /\ cv[j][trace[i]] \in Nat /\ cv[k][trace[i]] \in Nat
    BY <2>1, <2>2, <2>3, <1>0
  <2>5. i <= cv[k][trace[i]] /\ i \in 1 .. k
    BY <2>1, <2>3, <2>4, <1>0
  <2> QED BY <2>5 DEF Known
<1> QED BY <1>1, <1>2, <1>3

\* The past is what the clock vectors say: they satisfy its equation, and the
\* least action two solutions differ at has the same actions before it.
LEMMA PastIsKnown ==
  ASSUME TraceInv
  PROVE  Past = [k \in Actions |-> Known(k)]
<1> DEFINE P(f) == f = [k \in Actions |-> {k} \cup UNION {f[j] : j \in Before(k)}]
           K == [k \in Actions |-> Known(k)]
<1>0. Actions = 1 .. Len(trace) /\ Len(trace) \in Nat
  BY TraceTypes
<1>1. \A k \in Actions : Before(k) \subseteq Actions /\ \A j \in Before(k) : j < k
  BY <1>0 DEF Before
<1>2. P(K)
  <2>1. ASSUME NEW k \in Actions
        PROVE  K[k] = {k} \cup UNION {K[j] : j \in Before(k)}
    <3>1. \A j \in Before(k) : K[j] = Known(j)
      BY <1>1
    <3>2. Known(k) = {k} \cup UNION {Known(j) : j \in Before(k)}
      BY KnownEquation
    <3>3. K[k] = Known(k)
      OBVIOUS
    <3> HIDE DEF K
    <3>4. {K[j] : j \in Before(k)} = {Known(j) : j \in Before(k)}
      BY <3>1
    <3> QED BY <3>2, <3>3, <3>4, Zenon
  <2>2. K = [k \in Actions |-> K[k]]
    OBVIOUS
  <2> HIDE DEF K
  <2> QED BY <2>1, <2>2, Zenon
<1>3. Past = CHOOSE f : P(f)
  BY DEF Past, Before
<1>4. P(Past)
  <2> HIDE DEF P
  <2> QED BY <1>2, <1>3
<1>5. ASSUME NEW k \in Actions PROVE Past[k] = K[k]
  <2> DEFINE D == {i \in Actions : Past[i] # K[i]}
  <2>1. SUFFICES ASSUME D # {} PROVE FALSE
    OBVIOUS
  <2>2. PICK i \in D : \A j \in D : i <= j
    <3>1. D \in SUBSET Nat
      BY <1>0
    <3> HIDE DEF D
    <3> QED BY <2>1, <3>1, LeastNat
  <2>3. \A j \in Before(i) : Past[j] = K[j]
    BY <1>0, <1>1, <2>2
  <2>4. Past[i] = {i} \cup UNION {Past[j] : j \in Before(i)}
    BY <1>4, <2>2
  <2>5. K[i] = {i} \cup UNION {K[j] : j \in Before(i)}
    BY <1>2, <2>2
  <2> HIDE DEF K
  <2> QED BY <2>2, <2>3, <2>4, <2>5
<1>6. DOMAIN Past = Actions /\ Past = [k \in DOMAIN Past |-> Past[k]]
  BY <1>4
<1> QED BY <1>5, <1>6

\* ClocksAreExact follows from what the vectors say of each other.
LEMMA ExactFromVectors == TraceInv => ClocksAreExact
<1> SUFFICES ASSUME TraceInv, NEW k \in Actions, NEW t \in Threads
             PROVE  LET mine == {i \in Past[k] : trace[i] = t}
                    IN  /\ mine = {} => cv[k][t] = 0
                        /\ mine # {} => cv[k][t] \in mine /\ \A i \in mine : i <= cv[k][t]
  BY DEF ClocksAreExact
<1> DEFINE mine == {i \in Past[k] : trace[i] = t}
<1>1. mine = {i \in 1 .. k : i <= cv[k][t] /\ trace[i] = t}
  BY PastIsKnown DEF Known
<1>2. /\ k \in Nat /\ cv[k][t] \in Nat /\ cv[k][t] <= k
      /\ cv[k][t] # 0 => trace[cv[k][t]] = t
  BY TraceTypes DEF TraceInv, VectorsOK, Actions
<1>3. cv[k][t] # 0 => cv[k][t] \in mine
  BY <1>1, <1>2
<1>4. \A i \in mine : i <= cv[k][t] /\ i \in Nat /\ i # 0
  BY <1>1
<1> HIDE DEF mine
<1>5. mine # {} => cv[k][t] # 0
  BY <1>2, <1>4
<1> QED BY <1>3, <1>4, <1>5 DEF mine
-----------------------------------------------------------------------------
(* The steps of the execution underneath. *)

LEMMA ParentFacts ==
  ASSUME trace \in Seq(Threads), NEW t \in Threads
  PROVE  LET parent == get_parent_action(t)
         IN  /\ parent \in 0 .. Len(trace)
             /\ parent # 0 => trace[parent] = t
             /\ \A j \in Actions : trace[j] = t => j <= parent
<1> DEFINE mine == {i \in Actions : trace[i] = t}
           Last(i) == \A j \in mine : j <= i
<1>1. Actions = 1 .. Len(trace) /\ Len(trace) \in Nat
  BY DEF Actions
<1>2. CASE mine = {}
  <2>1. get_parent_action(t) = 0
    BY <1>2 DEF get_parent_action
  <2> QED BY <1>1, <1>2, <2>1
<1>3. CASE mine # {}
  <2>1. \E i \in mine : Last(i)
    <3> DEFINE T == {n \in 0 .. Len(trace) : Len(trace) - n \in mine}
    <3>1. PICK m \in mine : TRUE
      BY <1>3
    <3>2. /\ m \in 1 .. Len(trace) /\ Len(trace) - m \in 0 .. Len(trace)
          /\ Len(trace) - (Len(trace) - m) = m
      BY <1>1, <3>1
    <3>3. Len(trace) - m \in T
      BY <3>1, <3>2
    <3>4. T \in SUBSET Nat /\ T # {}
      <4>1. T \in SUBSET Nat
        OBVIOUS
      <4> HIDE DEF T
      <4> QED BY <3>3, <4>1
    <3>5. PICK n \in T : \A l \in T : n <= l
      <4> HIDE DEF T
      <4> QED BY <3>4, LeastNat
    <3>6. ASSUME NEW j \in mine PROVE j <= Len(trace) - n
      <4>1. /\ j \in 1 .. Len(trace) /\ Len(trace) - j \in 0 .. Len(trace)
            /\ Len(trace) - (Len(trace) - j) = j
        BY <1>1, <3>6
      <4>2. n <= Len(trace) - j
        BY <3>5, <3>6, <4>1
      <4> QED BY <1>1, <4>1, <4>2
    <3> QED BY <3>5, <3>6
  <2>2. get_parent_action(t) = CHOOSE i \in mine : Last(i)
    BY <1>3 DEF get_parent_action
  <2>3. get_parent_action(t) \in mine /\ Last(get_parent_action(t))
    <3> HIDE DEF mine, Last
    <3> QED BY <2>1, <2>2
  <2> QED BY <1>1, <2>3
<1> QED BY <1>2, <1>3

\* What a step does to the trace and its vectors.
Grows ==
  /\ Len(trace') = Len(trace) + 1 /\ trace' \in Seq(Threads)
  /\ \A k \in Actions : trace'[k] = trace[k]
  /\ \A k \in Actions, s \in Threads : cv[k][s] <= cv'[k][s]

LEMMA StepTrace ==
  ASSUME TraceInv, NEW t \in Threads, Step(t)
  PROVE  /\ Grows /\ TraceInv'
         /\ checkDataRaces(cv', trace', races, isfeasibleprefix(pending', promised'))
<1>1. PICK from \in {0} \cup {i \in Actions : trace[i] # t}, late \in BOOLEAN, prom \in BOOLEAN,
           p \in pending \cup {NoSequence}, synced \in BOOLEAN, settled \in BOOLEAN :
       LET parent == get_parent_action(t)
           New    == Len(trace) + 1
           own    == [(IF parent = 0 THEN Zero ELSE cv[parent]) EXCEPT ![t] = New]
           taken  == IF from = 0 \/ late THEN own ELSE merge(own, cv[from])
           tr     == Append(trace, t)
           c      == Resolve(Append(cv, taken), p, synced)
           pend   == (pending \ (IF settled THEN {p} ELSE {}))
                     \cup (IF late THEN {[acquire |-> New, release |-> from]} ELSE {})
       IN  /\ late => from # 0
           /\ Cardinality(pend) <= MaxPending
           /\ (parent = 0 /\ t # Main) => (from # 0 /\ ~late)
           /\ IF p = NoSequence THEN ~synced /\ ~settled ELSE synced \/ settled
           /\ trace' = tr /\ cv' = c /\ pending' = pend /\ promised' = prom
           /\ sync' = sync \cup (IF from = 0 \/ late THEN {} ELSE {<<from, New>>})
                           \cup (IF synced THEN {<<p.release, p.acquire>>} ELSE {})
           /\ checkDataRaces(c, tr, races, isfeasibleprefix(pend, prom))
  BY DEF Step
<1> DEFINE parent == get_parent_action(t)
           New    == Len(trace) + 1
           own    == [(IF parent = 0 THEN Zero ELSE cv[parent]) EXCEPT ![t] = New]
           taken  == IF from = 0 \/ late THEN own ELSE merge(own, cv[from])
           tr     == Append(trace, t)
           c1     == Append(cv, taken)
           c      == Resolve(c1, p, synced)
           src    == IF late THEN 0 ELSE from
           pend   == (pending \ (IF settled THEN {p} ELSE {}))
                     \cup (IF late THEN {[acquire |-> New, release |-> from]} ELSE {})
           sync1  == sync \cup (IF src = 0 THEN {} ELSE {<<src, New>>})
<1>2. /\ late => from # 0
      /\ IF p = NoSequence THEN ~synced /\ ~settled ELSE synced \/ settled
      /\ trace' = tr /\ cv' = c /\ pending' = pend /\ promised' = prom
      /\ sync' = sync1 \cup (IF synced THEN {<<p.release, p.acquire>>} ELSE {})
      /\ checkDataRaces(c, tr, races, isfeasibleprefix(pend, prom))
  BY <1>1
<1>3. checkDataRaces(cv', trace', races, isfeasibleprefix(pending', promised'))
  BY <1>2
<1>4. /\ trace \in Seq(Threads) /\ VectorsOK(trace, cv) /\ EdgesOK(trace, cv, sync)
      /\ Actions = 1 .. Len(trace) /\ Len(trace) \in Nat /\ Len(trace) < MaxActions /\ MaxActions \in Nat
      /\ \A k \in Actions : cv[k] \in [Threads -> Nat]
      /\ \A k \in Actions : \A s \in Threads : cv[k][s] \in Nat /\ cv[k][s] <= k
      /\ pending \subseteq [acquire : Actions, release : Actions]
      /\ \A q \in pending : q.release < q.acquire
  BY TraceTypes, DataRaceAssumption DEF TraceInv, Step
<1>5. /\ parent \in 0 .. Len(trace)
      /\ parent # 0 => trace[parent] = t /\ parent \in Actions
      /\ \A j \in Actions : trace[j] = t => j <= parent
  <2> HIDE DEF parent
  <2>1. /\ parent \in 0 .. Len(trace)
        /\ parent # 0 => trace[parent] = t
        /\ \A j \in Actions : trace[j] = t => j <= parent
    BY <1>4, ParentFacts DEF parent
  <2> QED BY <2>1, <1>4
<1>6. src \in 0 .. Len(trace) /\ from \in 0 .. Len(trace) /\ (src # 0 => src \in Actions /\ src = from /\ ~late)
  BY <1>4
<1>7. trace' = tr /\ tr \in Seq(Threads) /\ Len(tr) = New /\ DOMAIN tr = 1 .. New
      /\ \A k \in Actions : tr[k] = trace[k]
  BY <1>2, <1>4, AppendFacts
<1> HIDE DEF parent
<1>8. /\ own \in [Threads -> Nat] /\ own[t] = New
      /\ \A s \in Threads : (s # t => own[s] = IF parent = 0 THEN 0 ELSE cv[parent][s])
                            /\ (parent # 0 => cv[parent][s] <= own[s])
  <2> DEFINE base == IF parent = 0 THEN Zero ELSE cv[parent]
  <2>1. base \in [Threads -> Nat]
    BY <1>4, <1>5 DEF Zero
  <2>2. \A s \in Threads : base[s] = IF parent = 0 THEN 0 ELSE cv[parent][s]
    BY DEF Zero
  <2> HIDE DEF base
  <2>3. own = [base EXCEPT ![t] = New]
    BY DEF base
  <2>4. own \in [Threads -> Nat] /\ own[t] = New /\ \A s \in Threads : s # t => own[s] = base[s]
    <3>1. New \in Nat
      BY <1>4
    <3> HIDE DEF New, own
    <3> QED BY <2>1, <2>3, <3>1
  <2>5. ASSUME NEW s \in Threads, parent # 0 PROVE cv[parent][s] <= own[s]
    <3>1. cv[parent][s] \in Nat /\ cv[parent][s] <= parent /\ parent <= Len(trace) /\ parent \in Nat
      BY <2>5, <1>4, <1>5
    <3>2. cv[parent][s] < New
      BY <3>1, <1>4
    <3> QED BY <2>2, <2>4, <2>5, <3>1, <3>2, <1>4
  <2> QED BY <2>2, <2>4, <2>5
<1> HIDE DEF own
<1>9. /\ taken \in [Threads -> Nat] /\ taken[t] = New
      /\ parent # 0 => \A s \in Threads : cv[parent][s] <= taken[s]
      /\ src # 0 => \A s \in Threads : cv[src][s] <= taken[s]
      /\ \A s \in Threads \ {t} : \/ taken[s] = 0
                                  \/ parent # 0 /\ taken[s] = cv[parent][s]
                                  \/ src # 0 /\ taken[s] = cv[src][s]
  <2>1. CASE src = 0
    <3>1. taken = own
      BY <2>1, <1>2
    <3> QED BY <3>1, <2>1, <1>8
  <2>2. CASE src # 0
    <3>1. taken = merge(own, cv[src]) /\ src \in Actions /\ cv[src] \in [Threads -> Nat]
      BY <2>2, <1>4, <1>6
    <3> HIDE DEF src, taken
    <3>2. /\ taken \in [Threads -> Nat]
          /\ \A s \in Threads : /\ own[s] <= taken[s] /\ cv[src][s] <= taken[s]
                                /\ taken[s] \in {own[s], cv[src][s]}
      BY <3>1, <1>8, MergeFacts
    <3>3. taken[t] = New
      <4>1. cv[src][t] \in Nat /\ cv[src][t] <= src /\ src <= Len(trace) /\ src \in Nat
        BY <3>1, <1>4
      <4>2. cv[src][t] < New
        BY <4>1, <1>4
      <4>3. own[t] <= taken[t] /\ taken[t] \in {own[t], cv[src][t]}
        BY <3>2
      <4> QED BY <4>1, <4>2, <4>3, <1>8, <1>4
    <3>4. ASSUME parent # 0, NEW s \in Threads PROVE cv[parent][s] <= taken[s]
      <4>1. cv[parent][s] <= own[s] /\ own[s] <= taken[s] /\ cv[parent][s] \in Nat
            /\ own[s] \in Nat /\ taken[s] \in Nat
        BY <3>2, <3>4, <1>4, <1>5, <1>8
      <4> QED BY <4>1
    <3>5. \A s \in Threads \ {t} : \/ taken[s] = 0
                                   \/ parent # 0 /\ taken[s] = cv[parent][s]
                                   \/ src # 0 /\ taken[s] = cv[src][s]
      BY <2>2, <3>2, <1>8
    <3> QED BY <3>2, <3>3, <3>4, <3>5
  <2> QED BY <2>1, <2>2
<1> HIDE DEF taken, src
<1>10. VectorsOK(tr, c1) /\ EdgesOK(tr, c1, sync1)
  <2>1. \A j \in DOMAIN trace : trace[j] = t => j <= parent
    BY <1>5 DEF Actions
  <2>2. parent # 0 => trace[parent] = t
    BY <1>5
  <2> HIDE DEF New
  <2>3. taken[t] = Len(trace) + 1
    BY <1>9 DEF New
  <2>4. VectorsOK(tr, c1) /\ EdgesOK(tr, c1, sync \cup (IF src = 0 THEN {} ELSE {<<src, Len(trace) + 1>>}))
    BY <1>4, <1>5, <1>6, <1>9, <2>1, <2>2, <2>3, AppendVectors
  <2> QED BY <2>4 DEF New
<1>11. \A k \in Actions : c1[k] = cv[k]
  <2>1. cv \in Seq([Threads -> Nat]) /\ Len(cv) = Len(trace)
    BY <1>4 DEF VectorsOK
  <2> QED BY <2>1, <1>4, <1>9, AppendFacts
<1> HIDE DEF c1, sync1, tr
<1>12. /\ VectorsOK(tr, c) /\ EdgesOK(tr, c, sync')
       /\ \A k \in Actions, s \in Threads : cv[k][s] <= c[k][s]
  <2>1. CASE ~synced
    <3>1. c = c1 /\ sync' = sync1
      BY <2>1, <1>2 DEF Resolve
    <3> QED BY <3>1, <1>4, <1>10, <1>11
  <2>2. CASE synced
    <3>1. p \in pending /\ synced = TRUE
      BY <2>2, <1>2
    <3>2. /\ p.acquire \in Actions /\ p.release \in Actions /\ p.release < p.acquire
          /\ p.acquire \in 1 .. Len(tr) /\ p.release \in 1 .. Len(tr)
          /\ trace[p.acquire] = tr[p.acquire]
      BY <3>1, <1>4, <1>7
    <3>3. Learnt(tr, c1, c, p.acquire, p.release)
      BY <3>1, <3>2, <1>7, <1>10, ResolveValue
    <3>4. sync' = sync1 \cup {<<p.release, p.acquire>>}
      BY <2>2, <1>2
    <3> HIDE DEF c
    <3>5. /\ VectorsOK(tr, c) /\ EdgesOK(tr, c, sync')
          /\ \A k \in 1 .. Len(tr), s \in Threads : c1[k][s] <= c[k][s]
      BY <3>2, <3>3, <3>4, <1>7, <1>10, SynchronizeVectors
    <3>6. \A k \in Actions : k \in 1 .. Len(tr)
      BY <1>4, <1>7
    <3> QED BY <3>5, <3>6, <1>11
  <2> QED BY <2>1, <2>2
<1>13. /\ pend \subseteq [acquire : 1 .. Len(tr), release : 1 .. Len(tr)]
       /\ \A q \in pend : q.release < q.acquire
  <2>1. ASSUME NEW q \in pend
        PROVE  q \in [acquire : 1 .. Len(tr), release : 1 .. Len(tr)] /\ q.release < q.acquire
    <3>1. CASE q \in pending
      <4>1. q \in [acquire : Actions, release : Actions] /\ q.release < q.acquire
        BY <3>1, <1>4
      <4>2. Actions \subseteq 1 .. Len(tr)
        BY <1>4, <1>7
      <4> QED BY <4>1, <4>2
    <3>2. CASE late /\ q = [acquire |-> New, release |-> from]
      <4>1. from # 0 /\ from \in 1 .. Len(tr) /\ New \in 1 .. Len(tr) /\ from < New
        BY <3>2, <1>2, <1>4, <1>6, <1>7
      <4> QED BY <3>2, <4>1
    <3> QED BY <3>1, <3>2, <2>1
  <2> QED BY <2>1
<1> HIDE DEF pend, c
<1>14. bug' \in BOOLEAN
  BY <1>3 DEF checkDataRaces, TraceInv
<1>15. TraceInv'
  <2>1. trace' \in Seq(Threads) /\ Len(trace') <= MaxActions /\ Actions' = 1 .. Len(tr)
    BY <1>4, <1>7 DEF Actions
  <2>2. pending' \subseteq [acquire : Actions', release : Actions'] /\ \A q \in pending' : q.release < q.acquire
    BY <1>2, <1>13, <2>1
  <2>3. VectorsOK(trace', cv') /\ EdgesOK(trace', cv', sync')
    BY <1>2, <1>12
  <2>4. promised' \in BOOLEAN
    BY <1>2
  <2> QED BY <2>1, <2>2, <2>3, <2>4, <1>14 DEF TraceInv
<1>16. Grows
  BY <1>2, <1>7, <1>12 DEF Grows
<1> QED BY <1>3, <1>15, <1>16
-----------------------------------------------------------------------------
(* The queue. *)

\* Looking at the queue asserts a race or leaves the order as it was.
LEMMA Checked ==
  ASSUME NEW tr, NEW c, NEW queue, NEW acc, NEW feasible \in BOOLEAN, ~bug,
         checkDataRaces(c, tr, queue, feasible), QueueOK(tr, acc, queue),
         \A k \in DOMAIN tr : k \in Nat \ {0} /\ \A t \in Threads : c[k][t] \in Nat
  PROVE  /\ bug' => \E x, y \in acc : Racing(tr, c, x, y)
         /\ IF feasible THEN races' = {} ELSE races' = queue
         /\ \A S \in SUBSET DOMAIN tr : ~bug' /\ UpClosed(tr, c, races', S) => UpClosed(tr, c, queue, S)
<1>1. ASSUME NEW r \in queue
      PROVE  StillRaces(c, tr, r) <=> ~Ordered(tr, c, r.oldclock, r.newaction)
  <2>1. /\ r.oldclock \in DOMAIN tr /\ r.newaction \in DOMAIN tr /\ r.oldthread \in Threads
        /\ tr[r.oldclock] = r.oldthread
    BY DEF QueueOK
  <2>2. r.oldclock \in Nat \ {0} /\ c[r.newaction][r.oldthread] \in Nat
    BY <2>1
  <2>3. StillRaces(c, tr, r) <=> /\ tr[r.newaction] # r.oldthread /\ r.oldclock # 0
                                 /\ c[r.newaction][r.oldthread] <= r.oldclock
    BY DEF StillRaces, clock_may_race
  <2>4. c[r.newaction][r.oldthread] <= r.oldclock <=> ~(c[r.newaction][r.oldthread] > r.oldclock)
    BY <2>2
  <2> QED BY <2>1, <2>2, <2>3, <2>4 DEF Ordered
<1>2. CASE ~feasible
  <2>1. races' = queue /\ bug' = bug
    BY <1>2 DEF checkDataRaces
  <2> QED BY <1>2, <2>1
<1>3. CASE feasible
  <2>1. races' = {} /\ (bug' <=> \E r \in queue : StillRaces(c, tr, r))
    BY <1>3 DEF checkDataRaces
  <2>2. ASSUME bug' PROVE \E x, y \in acc : Racing(tr, c, x, y)
    <3>1. PICK r \in queue : StillRaces(c, tr, r)
      BY <2>1, <2>2
    <3>2. PICK x, y \in acc : x.act = r.oldclock /\ y.act = r.newaction /\ Conflict(x, y)
      BY DEF QueueOK
    <3> QED BY <1>1, <3>1, <3>2 DEF Racing
  <2>3. ASSUME NEW S \in SUBSET DOMAIN tr, ~bug', UpClosed(tr, c, races', S)
        PROVE  UpClosed(tr, c, queue, S)
    <3>1. ASSUME NEW i, NEW j, Queued(queue, i, j) PROVE Ordered(tr, c, i, j)
      BY <1>1, <2>1, <2>3, <3>1 DEF Queued
    <3> QED BY <2>3, <3>1 DEF UpClosed
  <2> QED BY <1>3, <2>1, <2>2, <2>3
<1> QED BY <1>2, <1>3

\* Fewer races on the queue, fewer things are held to follow each other.
LEMMA UpClosedMonotone ==
  ASSUME NEW tr, NEW c, NEW queue, NEW q, q \subseteq queue, NEW S, UpClosed(tr, c, queue, S)
  PROVE  UpClosed(tr, c, q, S)
BY DEF UpClosed, Queued
-----------------------------------------------------------------------------
(* The records. *)

\* The short form loses nothing of a stamp that is not too large for it.
LEMMA ShortFormFits ==
  ASSUME NEW t \in Threads, NEW k \in Nat, ~TooLarge(t, k)
  PROVE  Encoded([thread |-> t, clock |-> k]) = [thread |-> t, clock |-> k]
<1>1. k <= MAXVECTOR /\ MAXVECTOR \in Nat
  BY DataRaceAssumption DEF TooLarge
<1>2. k % (MAXVECTOR + 2) = k
  BY <1>1
<1>3. Encoded([thread |-> t, clock |-> k]) = [thread |-> t, clock |-> k % (MAXVECTOR + 2)]
  BY DEF Encoded
<1> QED BY <1>2, <1>3

\* The record after a write names that write only, in whatever form.
LEMMA WriteRecord ==
  ASSUME NEW s \in Records, NEW t \in Threads, NEW k \in Nat
  PROVE  /\ raceCheckWrite(s, t, k) \in Records
         /\ raceCheckWrite(s, t, k).write = [thread |-> t, clock |-> k]
         /\ raceCheckWrite(s, t, k).reads = {}
<1> DEFINE w == [thread |-> t, clock |-> k]
<1>1. w \in Stamps /\ {} \in SUBSET Stamps
  BY DEF Stamps
<1>2. ASSUME NEW u \in Records
      PROVE  LET v == [u EXCEPT !.reads = {}, !.write = w]
             IN  v \in Records /\ v.write = w /\ v.reads = {}
  BY <1>1 DEF Records
<1>3. expandRecord(s) \in Records
  <2>1. \A n \in Nat : [s EXCEPT !.short = FALSE, !.capacity = n] \in Records
    BY DEF Records
  <2>2. (IF s.reads = {} THEN 0 ELSE INITCAPACITY) \in Nat
    BY DataRaceAssumption
  <2> QED BY <2>1, <2>2 DEF expandRecord
<1>4. ~TooLarge(t, k) => Encoded(w) = w
  BY ShortFormFits
<1> HIDE DEF w
<1>5. raceCheckWrite(s, t, k) \in {[u EXCEPT !.reads = {}, !.write = w] : u \in {s, expandRecord(s)}}
  BY <1>4 DEF raceCheckWrite, fullRaceCheckWrite, w
<1> QED BY <1>2, <1>3, <1>5 DEF w

\* The record after a read names it beside the reads it does not subsume.
LEMMA ReadRecord ==
  ASSUME NEW s \in Records, NEW t \in Threads, NEW k \in Nat, NEW c
  PROVE  /\ raceCheckRead(s, c, t, k) \in Records
         /\ raceCheckRead(s, c, t, k).write = s.write
         /\ raceCheckRead(s, c, t, k).reads = Kept(s, c, t) \cup {[thread |-> t, clock |-> k]}
<1> DEFINE w == [thread |-> t, clock |-> k]
<1>1. w \in Stamps /\ Kept(s, c, t) \in SUBSET Stamps
  BY DEF Stamps, Kept, Records
<1>2. ASSUME NEW u \in Records, NEW R \in SUBSET Stamps, NEW n \in Nat
      PROVE  LET v == [u EXCEPT !.reads = R, !.capacity = n]
             IN  v \in Records /\ v.write = u.write /\ v.reads = R
  BY DEF Records
<1>3. /\ expandRecord(s) \in Records /\ expandRecord(s).write = s.write
      /\ expandRecord(s).reads = s.reads
  <2>1. ASSUME NEW n \in Nat
        PROVE  LET v == [s EXCEPT !.short = FALSE, !.capacity = n]
               IN  v \in Records /\ v.write = s.write /\ v.reads = s.reads
    BY DEF Records
  <2>2. (IF s.reads = {} THEN 0 ELSE INITCAPACITY) \in Nat
    BY DataRaceAssumption
  <2> QED BY <2>1, <2>2 DEF expandRecord
<1>4. ~TooLarge(t, k) => Encoded(w) = w
  BY ShortFormFits
<1> HIDE DEF w
<1>5. ASSUME NEW u \in Records, u.write = s.write, u.reads = s.reads
      PROVE  LET v == fullRaceCheckRead(u, c, t, k)
             IN  v \in Records /\ v.write = s.write /\ v.reads = Kept(s, c, t) \cup {w}
  <2>1. Kept(u, c, t) = Kept(s, c, t)
    BY <1>5 DEF Kept
  <2>2. u.capacity \in Nat /\ 2 * u.capacity \in Nat
    BY DEF Records
  <2> DEFINE n == IF Cardinality(Kept(s, c, t)) >= u.capacity THEN 2 * u.capacity ELSE u.capacity
  <2>3. fullRaceCheckRead(u, c, t, k) = [u EXCEPT !.reads = Kept(s, c, t) \cup {w}, !.capacity = n]
    BY <2>1 DEF fullRaceCheckRead, w
  <2>4. n \in Nat /\ Kept(s, c, t) \cup {w} \in SUBSET Stamps
    BY <2>2, <1>1
  <2> DEFINE R == Kept(s, c, t) \cup {w}
             v == [u EXCEPT !.reads = R, !.capacity = n]
  <2> HIDE DEF n, R
  <2>5. R \in SUBSET Stamps
    BY <2>4 DEF R
  <2>6. v \in Records /\ v.write = u.write /\ v.reads = R
    BY <2>4, <2>5, <1>2
  <2>7. fullRaceCheckRead(u, c, t, k) = v
    BY <2>3 DEF R
  <2> HIDE DEF v
  <2> QED BY <2>6, <2>7, <1>5 DEF R
<1>6. CASE s.short /\ ~TooLarge(t, k) /\ Kept(s, c, t) = {}
  <2>1. raceCheckRead(s, c, t, k) = [s EXCEPT !.reads = {w}]
    BY <1>4, <1>6 DEF raceCheckRead, w
  <2> QED BY <2>1, <1>1, <1>6 DEF Records, w
<1>7. CASE ~(s.short /\ ~TooLarge(t, k) /\ Kept(s, c, t) = {})
  <2>1. raceCheckRead(s, c, t, k) \in {fullRaceCheckRead(u, c, t, k) : u \in {s, expandRecord(s)}}
    BY <1>7 DEF raceCheckRead
  <2> QED BY <2>1, <1>3, <1>5 DEF w
<1> QED BY <1>6, <1>7
-----------------------------------------------------------------------------
(* An access: what it conflicts with is followed by it or races with it. *)

LEMMA Recordings ==
  ASSUME TraceInv, ShadowInv, NEW a, NEW w \in BOOLEAN, Recorded(a, w), a \in Stamps, a.clock # 0
  PROVE  /\ a.clock \in Actions /\ trace[a.clock] = a.thread /\ a.thread \in Threads
         /\ [act |-> a.clock, write |-> w] \in accesses
<1>1. [act |-> a.clock, write |-> w] \in accesses /\ trace[a.clock] = a.thread
  BY DEF Recorded
<1>2. [act |-> a.clock, write |-> w] \in [act : Actions, write : BOOLEAN]
  BY <1>1 DEF ShadowInv
<1> QED BY <1>1, <1>2 DEF Stamps

LEMMA Follows ==
  ASSUME TraceInv, ShadowInv, trace # <<>>,
         NEW queue, NEW S \in SUBSET Actions, UpClosed(trace, cv, queue, S),
         NEW a \in Stamps, NEW w \in BOOLEAN, Recorded(a, w), a.clock \in S,
         clock_may_race(cv[Len(trace)], trace[Len(trace)], a) => Queued(queue, a.clock, Len(trace))
  PROVE  Len(trace) \in S
<1> DEFINE n == Len(trace)
<1>1. /\ Actions = 1 .. n /\ n \in Nat /\ n \in Actions /\ trace[n] \in Threads
      /\ \A t \in Threads : cv[n][t] \in Nat
  <2>1. trace \in Seq(Threads) /\ Len(trace) \in Nat \ {0}
    BY EmptySeq DEF TraceInv
  <2> QED BY <2>1, TraceTypes
<1>2. a.clock \in Actions /\ a.clock # 0 /\ trace[a.clock] = a.thread /\ a.thread \in Threads
  <2>1. a.clock \in Actions /\ a.clock # 0
    <3>1. a.clock \in Actions
      OBVIOUS
    <3>2. \A i \in Actions : i # 0
      BY <1>1
    <3> QED BY <3>1, <3>2
  <2>2. trace[a.clock] = a.thread
    BY <2>1 DEF Recorded
  <2> QED BY <2>1, <2>2 DEF Stamps
<1>3. CASE a.clock = n
  BY <1>3
<1>4. CASE a.clock # n
  <2>1. a.clock < n /\ a.clock \in Nat
    BY <1>1, <1>2, <1>4
  <2>2. Ordered(trace, cv, a.clock, n) \/ Queued(queue, a.clock, n)
    <3>1. cv[n][a.thread] \in Nat
      BY <1>1, <1>2
    <3>2. CASE ~clock_may_race(cv[n], trace[n], a)
      <4>1. trace[n] = a.thread \/ ~(cv[n][a.thread] <= a.clock)
        BY <1>2, <3>2 DEF clock_may_race
      <4> QED BY <1>2, <2>1, <3>1, <4>1 DEF Ordered
    <3> QED BY <3>2
  <2> QED BY <1>1, <2>1, <2>2 DEF UpClosed, Actions
<1> QED BY <1>3, <1>4

\* What is queued by an access.
Found(old) == {[oldthread |-> a.thread, oldclock |-> a.clock, newaction |-> Len(trace)] : a \in old}

\* The races an access finds are races, and what becomes of the queue.
LEMMA AccessQueue ==
  ASSUME TraceInv, ShadowInv, QueueInv, ~bug, trace # <<>>, NEW write \in BOOLEAN, NEW old, NEW after,
         Access(write, old, after),
         \A a \in old : /\ a \in {shadow.write} \cup shadow.reads
                        /\ a \in shadow.reads => write \/ a = shadow.write
                        /\ clock_may_race(cv[Len(trace)], trace[Len(trace)], a)
  PROVE  /\ QueueInv' /\ bug' \in BOOLEAN
         /\ bug' => \E x, y \in accesses' : Racing(trace, cv, x, y)
         /\ \A S \in SUBSET Actions :
               ~bug' /\ UpClosed(trace, cv, races', S)
                 => UpClosed(trace, cv, races \cup Found(old), S)
<1> DEFINE n == Len(trace)
           queue == races \cup Found(old)
           y == [act |-> n, write |-> write]
           feasible == isfeasibleprefix(pending, promised)
<1>1. /\ accesses' = accesses \cup {y}
      /\ trace' = trace /\ cv' = cv /\ pending' = pending /\ promised' = promised
      /\ IF Found(old) = {} THEN races' = races /\ bug' = bug
         ELSE checkDataRaces(cv, trace, queue, feasible)
  BY DEF Access, Found
<1>2. /\ Actions = 1 .. n /\ n \in Nat /\ n \in Actions /\ trace[n] \in Threads
      /\ \A k \in Actions : k \in Nat \ {0} /\ \A t \in Threads : cv[k][t] \in Nat
  <2>1. trace \in Seq(Threads) /\ Len(trace) \in Nat \ {0}
    BY EmptySeq DEF TraceInv
  <2> QED BY <2>1, TraceTypes
<1>3. ASSUME NEW r \in Found(old)
      PROVE  /\ r \in [oldthread : Threads, oldclock : Actions, newaction : Actions]
             /\ trace[r.oldclock] = r.oldthread
             /\ \E x \in accesses : x.act = r.oldclock /\ n = r.newaction /\ Conflict(x, y)
  <2>1. PICK a \in old : r = [oldthread |-> a.thread, oldclock |-> a.clock, newaction |-> n]
    BY DEF Found
  <2>2. PICK w \in BOOLEAN : a \in Stamps /\ Recorded(a, w) /\ (w \/ write)
    <3>1. CASE a = shadow.write
      BY <3>1 DEF ShadowInv, Records
    <3>2. CASE a \in shadow.reads
      BY <3>2 DEF ShadowInv, Records
    <3> QED BY <3>1, <3>2
  <2>3. a.clock # 0 /\ trace[n] # a.thread
    BY DEF clock_may_race
  <2>4. /\ a.clock \in Actions /\ trace[a.clock] = a.thread /\ a.thread \in Threads
        /\ [act |-> a.clock, write |-> w] \in accesses
    BY <2>2, <2>3, Recordings
  <2>5. a.clock < n
    BY <1>2, <2>3, <2>4
  <2>6. Conflict([act |-> a.clock, write |-> w], y)
    BY <2>2, <2>5 DEF Conflict
  <2>7. r.oldclock = a.clock /\ r.oldthread = a.thread /\ r.newaction = n
    BY <2>1
  <2>8. r \in [oldthread : Threads, oldclock : Actions, newaction : Actions]
    BY <2>1, <2>4, <1>2
  <2> QED BY <2>4, <2>6, <2>7, <2>8
<1> HIDE DEF y
<1>4. QueueOK(trace, accesses', queue)
  <2>1. QueueOK(trace, accesses, races)
    BY DEF QueueInv
  <2>2. queue \subseteq [oldthread : Threads, oldclock : DOMAIN trace, newaction : DOMAIN trace]
    BY <2>1, <1>3 DEF QueueOK, Actions
  <2>3. ASSUME NEW r \in queue
        PROVE  /\ trace[r.oldclock] = r.oldthread
               /\ \E x, z \in accesses' : x.act = r.oldclock /\ z.act = r.newaction /\ Conflict(x, z)
    <3>1. CASE r \in races
      BY <3>1, <2>1, <1>1 DEF QueueOK
    <3>2. CASE r \in Found(old)
      <4>1. y \in accesses' /\ y.act = n
        BY <1>1 DEF y
      <4> QED BY <3>2, <4>1, <1>1, <1>3
    <3> QED BY <3>1, <3>2
  <2> QED BY <2>2, <2>3 DEF QueueOK
<1>5. feasible \in BOOLEAN
  BY DEF isfeasibleprefix
<1>6. CASE Found(old) = {}
  <2>1. races' = races /\ bug' = bug /\ queue = races
    BY <1>1, <1>6
  <2>2. QueueInv'
    BY <2>1, <1>1, <1>4 DEF QueueInv
  <2>3. bug' \in BOOLEAN /\ ~bug'
    BY <2>1 DEF TraceInv
  <2> QED BY <2>1, <2>2, <2>3
<1>7. CASE Found(old) # {}
  <2>1. checkDataRaces(cv, trace, queue, feasible)
    BY <1>1, <1>7
  <2>2. \A k \in DOMAIN trace : k \in Nat \ {0} /\ \A t \in Threads : cv[k][t] \in Nat
    BY <1>2 DEF Actions
  <2> HIDE DEF queue, feasible
  <2>3. /\ bug' => \E x, z \in accesses' : Racing(trace, cv, x, z)
        /\ IF feasible THEN races' = {} ELSE races' = queue
        /\ \A S \in SUBSET DOMAIN trace :
              ~bug' /\ UpClosed(trace, cv, races', S) => UpClosed(trace, cv, queue, S)
    BY <1>4, <1>5, <2>1, <2>2, Checked
  <2>4. QueueOK(trace, accesses', races')
    BY <2>3, <1>4 DEF QueueOK
  <2>5. QueueInv'
    BY <2>3, <2>4, <1>1 DEF QueueInv, feasible
  <2>6. bug' \in BOOLEAN
    BY <2>1 DEF checkDataRaces, TraceInv
  <2> QED BY <2>3, <2>5, <2>6 DEF queue, Actions
<1> QED BY <1>6, <1>7
\* The record after an access, in an order that holds what is behind the
\* accesses its record names, covers it and those before.
LEMMA AccessCovered ==
  ASSUME TraceInv, ShadowInv, trace # <<>>, NEW write \in BOOLEAN, NEW after,
         NEW S \in SUBSET Actions, Covered(accesses, shadow, S),
         shadow.write.clock \in S => Len(trace) \in S,
         write => \A a \in shadow.reads : a.clock \in S => Len(trace) \in S,
         write => after.write.clock = Len(trace),
         ~write => /\ after.write = shadow.write
                   /\ \E a \in after.reads : a.clock = Len(trace)
                   /\ \A a \in shadow.reads :
                         a \in after.reads \/ (a.clock \in S => Len(trace) \in S)
  PROVE  Covered(accesses \cup {[act |-> Len(trace), write |-> write]}, after, S)
<1> DEFINE n == Len(trace)
           z == [act |-> n, write |-> write]
<1>1. /\ Actions = 1 .. n /\ n \in Nat
      /\ \A x \in accesses : x.act \in Actions /\ x.act \in Nat /\ x.act <= n /\ x.write \in BOOLEAN
  BY TraceTypes DEF ShadowInv
<1>2. z.act = n /\ z.write = write
  OBVIOUS
<1> HIDE DEF z
<1>3. ASSUME NEW x \in accesses, x.act \in S, x.write \/ write PROVE n \in S
  BY <1>3 DEF Covered
<1>4. ASSUME NEW x \in accesses \cup {z}, NEW y \in accesses \cup {z}, Conflict(x, y), x.act \in S
      PROVE  y.act \in S
  <2>1. CASE x \in accesses /\ y \in accesses
    BY <2>1, <1>4 DEF Covered
  <2>2. CASE x \in accesses /\ y = z
    BY <2>2, <1>2, <1>3, <1>4 DEF Conflict
  <2>3. CASE x = z
    BY <2>3, <1>1, <1>2, <1>4 DEF Conflict
  <2> QED BY <2>1, <2>2, <2>3
<1>5. ASSUME NEW x \in accesses \cup {z}, x.act \in S
      PROVE  after.write.clock \in S \/ (~x.write /\ \E a \in after.reads : a.clock \in S)
  <2>1. CASE x = z
    BY <2>1, <1>2, <1>5
  <2>2. CASE x \in accesses /\ write
    BY <2>2, <1>3, <1>5
  <2>3. CASE x \in accesses /\ ~write
    <3>1. CASE shadow.write.clock \in S
      BY <2>3, <3>1
    <3>2. CASE shadow.write.clock \notin S
      <4>1. PICK a \in shadow.reads : ~x.write /\ a.clock \in S
        BY <2>3, <3>2, <1>5 DEF Covered
      <4>2. a \in after.reads \/ n \in S
        BY <2>3, <4>1
      <4> QED BY <2>3, <4>1, <4>2
    <3> QED BY <3>1, <3>2
  <2> QED BY <2>1, <2>2, <2>3
<1>6. Covered(accesses \cup {z}, after, S)
  BY <1>4, <1>5 DEF Covered
<1> QED BY <1>6 DEF z

\* What the three inductive parts need of an access, for both kinds.
LEMMA AccessStep ==
  ASSUME IInv, ~bug, trace # <<>>, NEW write \in BOOLEAN, NEW old, NEW after \in Records,
         Access(write, old, after),
         old = {a \in (IF write THEN shadow.reads \cup {shadow.write} ELSE {shadow.write}) :
                   clock_may_race(cv[Len(trace)], trace[Len(trace)], a)},
         LET w == [thread |-> trace[Len(trace)], clock |-> Len(trace)]
         IN  IF write THEN after.write = w /\ after.reads = {}
             ELSE /\ after.write = shadow.write
                  /\ after.reads = Kept(shadow, cv[Len(trace)], trace[Len(trace)]) \cup {w}
  PROVE  IInv'
<1> DEFINE n == Len(trace)
           w == [thread |-> trace[n], clock |-> n]
           queue == races \cup Found(old)
           z == [act |-> n, write |-> write]
<1>0. TraceInv /\ ShadowInv /\ QueueInv /\ RecordInv
  BY DEF IInv
<1>1. /\ accesses' = accesses \cup {z} /\ shadow' = after
      /\ trace' = trace /\ cv' = cv /\ pending' = pending /\ promised' = promised /\ sync' = sync
  BY DEF Access
<1>2. /\ Actions = 1 .. n /\ n \in Nat /\ n \in Actions /\ trace[n] \in Threads
  <2>1. trace \in Seq(Threads) /\ Len(trace) \in Nat \ {0}
    BY <1>0, EmptySeq DEF TraceInv
  <2> QED BY <1>0, <2>1, TraceTypes
<1>3. /\ QueueInv' /\ bug' \in BOOLEAN
      /\ bug' => \E x, y \in accesses' : Racing(trace, cv, x, y)
      /\ \A S \in SUBSET Actions :
            ~bug' /\ UpClosed(trace, cv, races', S) => UpClosed(trace, cv, queue, S)
  <2>1. \A a \in old : /\ a \in {shadow.write} \cup shadow.reads
                       /\ a \in shadow.reads => write \/ a = shadow.write
                       /\ clock_may_race(cv[n], trace[n], a)
    OBVIOUS
  <2> QED BY <1>0, <2>1, AccessQueue
<1>4. TraceInv'
  BY <1>0, <1>1, <1>3 DEF TraceInv, Actions
<1>5. BugInv'
  BY <1>1, <1>3 DEF BugInv
<1>6. /\ shadow.write \in Stamps /\ Recorded(shadow.write, TRUE)
      /\ \A a \in shadow.reads : a \in Stamps /\ Recorded(a, FALSE)
  BY <1>0 DEF ShadowInv, Records
<1>7. ShadowInv'
  <2>1. accesses' \subseteq [act : Actions', write : BOOLEAN]
    BY <1>0, <1>1, <1>2 DEF ShadowInv, Actions
  <2>2. z \in accesses' /\ trace'[n] = trace[n]
    BY <1>1
  <2> DEFINE Kept2(a, b) == a.clock # 0 => /\ [act |-> a.clock, write |-> b] \in accesses'
                                           /\ trace'[a.clock] = a.thread
  <2>3. ASSUME NEW a, NEW b \in BOOLEAN, Recorded(a, b) PROVE Kept2(a, b)
    BY <1>1, <2>3 DEF Recorded
  <2>4. w.clock = n /\ w.thread = trace[n] /\ n # 0 /\ Kept2(w, write)
    BY <1>2, <2>2
  <2> HIDE DEF w
  <2>5. Kept2(after.write, TRUE)
    BY <1>6, <2>3, <2>4 DEF w
  <2>6. ASSUME NEW a \in after.reads PROVE a.clock # 0 /\ Kept2(a, FALSE)
    <3>1. CASE a = w /\ ~write
      BY <2>4, <3>1
    <3>2. CASE a \in shadow.reads
      BY <3>2, <2>3, <1>0 DEF ShadowInv
    <3> QED BY <3>1, <3>2, <2>6 DEF Kept, w
  <2> QED BY <1>1, <2>1, <2>5, <2>6 DEF ShadowInv, Recorded
<1>8. ASSUME ~bug', NEW S \in SUBSET Actions', UpClosed(trace', cv', races', S)
      PROVE  Covered(accesses', shadow', S)
  <2>1. S \in SUBSET Actions /\ UpClosed(trace, cv, queue, S)
    BY <1>1, <1>3, <1>8 DEF Actions
  <2>2. UpClosed(trace, cv, races, S)
    BY <2>1, UpClosedMonotone
  <2>3. Covered(accesses, shadow, S)
    BY <1>0, <2>1, <2>2 DEF RecordInv
  <2> HIDE DEF queue
  <2>4. ASSUME NEW a, NEW b \in BOOLEAN, a \in Stamps, Recorded(a, b), a.clock \in S,
               clock_may_race(cv[n], trace[n], a) => a \in old
        PROVE  n \in S
    <3>1. ASSUME a \in old PROVE Queued(queue, a.clock, n)
      <4> DEFINE r == [oldthread |-> a.thread, oldclock |-> a.clock, newaction |-> n]
      <4>1. r \in queue
        BY <3>1 DEF Found, queue
      <4>2. r.oldclock = a.clock /\ r.newaction = n
        OBVIOUS
      <4> QED BY <4>1, <4>2 DEF Queued
    <3> QED BY <1>0, <2>1, <2>4, <3>1, Follows
  <2>5. shadow.write.clock \in S => n \in S
    BY <1>6, <2>4
  <2>6. write => \A a \in shadow.reads : a.clock \in S => n \in S
    BY <1>6, <2>4
  <2>7. ~write => \A a \in shadow.reads : a \in after.reads \/ (a.clock \in S => n \in S)
    <3> SUFFICES ASSUME ~write, NEW a \in shadow.reads, a \notin after.reads, a.clock \in S
                 PROVE  n \in S
      OBVIOUS
    <3>1. ~clock_may_race(cv[n], trace[n], a)
      BY DEF Kept
    <3> QED BY <1>6, <2>4, <3>1
  <2>8. /\ write => after.write.clock = n
        /\ ~write => after.write = shadow.write /\ \E a \in after.reads : a.clock = n
    OBVIOUS
  <2>9. Covered(accesses \cup {z}, after, S)
    BY <1>0, <2>1, <2>3, <2>5, <2>6, <2>7, <2>8, AccessCovered
  <2> QED BY <1>1, <2>9
<1>9. RecordInv'
  BY <1>8 DEF RecordInv
<1> QED BY <1>3, <1>4, <1>5, <1>7, <1>9 DEF IInv
-----------------------------------------------------------------------------
(* The inductive invariant. *)

LEMMA InitInv == Init => IInv
<1> SUFFICES ASSUME Init PROVE IInv
  OBVIOUS
<1>1. /\ trace = <<>> /\ cv = <<>> /\ pending = {} /\ promised = FALSE /\ shadow = EmptyShadow
      /\ races = {} /\ bug = FALSE /\ sync = {} /\ accesses = {}
  BY DEF Init
<1>2. /\ trace \in Seq(Threads) /\ Len(trace) = 0 /\ DOMAIN trace = {}
      /\ cv \in Seq([Threads -> Nat]) /\ Len(cv) = 0
  BY <1>1
<1>3. TraceInv
  <2>1. VectorsOK(trace, cv)
    BY <1>2 DEF VectorsOK
  <2>2. EdgesOK(trace, cv, sync)
    BY <1>1, <1>2 DEF EdgesOK
  <2>3. Len(trace) <= MaxActions
    BY <1>2, DataRaceAssumption
  <2>4. /\ pending \subseteq [acquire : Actions, release : Actions]
        /\ \A p \in pending : p.release < p.acquire
        /\ promised \in BOOLEAN /\ bug \in BOOLEAN
    BY <1>1
  <2> QED BY <1>2, <2>1, <2>2, <2>3, <2>4 DEF TraceInv
<1>4. shadow \in Records /\ shadow.write.clock = 0 /\ shadow.reads = {}
  BY <1>1, DataRaceAssumption DEF Records, Stamps, EmptyShadow, NoWrite
<1>5. ShadowInv
  BY <1>1, <1>4 DEF ShadowInv, Recorded
<1>6. QueueInv /\ BugInv /\ RecordInv
  BY <1>1 DEF QueueInv, QueueOK, BugInv, RecordInv, Covered
<1> QED BY <1>3, <1>5, <1>6 DEF IInv

\* A step of the execution: what was held to follow still is.
LEMMA StepInv ==
  ASSUME IInv, NEW t \in Threads, Step(t)
  PROVE  IInv'
<1>0. /\ TraceInv /\ ShadowInv /\ QueueInv /\ RecordInv /\ ~bug
      /\ shadow' = shadow /\ accesses' = accesses
  BY DEF IInv, Step
<1>1. /\ Grows /\ TraceInv'
      /\ checkDataRaces(cv', trace', races, isfeasibleprefix(pending', promised'))
  BY <1>0, StepTrace
<1>2. /\ Actions = 1 .. Len(trace) /\ Len(trace) \in Nat
      /\ \A k \in Actions : trace[k] \in Threads /\ k \in Nat
      /\ \A k \in Actions, s \in Threads : cv[k][s] \in Nat
  BY <1>0, TraceTypes
<1>3. /\ DOMAIN trace' = 1 .. Len(trace) + 1
      /\ \A k \in DOMAIN trace' : k \in Nat \ {0} /\ \A s \in Threads : cv'[k][s] \in Nat
  <2>1. trace' \in Seq(Threads) /\ VectorsOK(trace', cv') /\ Len(trace') = Len(trace) + 1
    BY <1>1 DEF TraceInv, Grows
  <2>2. DOMAIN trace' = 1 .. Len(trace')
    BY <2>1, VectorTypes
  <2>3. \A k \in 1 .. Len(trace') : \A s \in Threads : cv'[k][s] \in Nat
    BY <2>1, VectorTypes
  <2> QED BY <2>1, <2>2, <2>3, <1>2
<1>4. Actions \subseteq DOMAIN trace' /\ \A k \in Actions : trace'[k] = trace[k]
  BY <1>1, <1>2, <1>3 DEF Grows
<1>5. QueueOK(trace', accesses, races)
  <2>1. races \subseteq [oldthread : Threads, oldclock : Actions, newaction : Actions]
    BY <1>0 DEF QueueInv, QueueOK, Actions
  <2>2. races \subseteq [oldthread : Threads, oldclock : DOMAIN trace', newaction : DOMAIN trace']
    BY <2>1, <1>4
  <2>3. ASSUME NEW r \in races
        PROVE  /\ trace'[r.oldclock] = r.oldthread
               /\ \E x, y \in accesses : x.act = r.oldclock /\ y.act = r.newaction /\ Conflict(x, y)
    <3>1. r.oldclock \in Actions
      BY <2>1
    <3> QED BY <3>1, <1>0, <1>4 DEF QueueInv, QueueOK
  <2> QED BY <2>2, <2>3 DEF QueueOK
<1>6. /\ bug' => \E x, y \in accesses : Racing(trace', cv', x, y)
      /\ IF isfeasibleprefix(pending', promised') THEN races' = {} ELSE races' = races
      /\ \A S \in SUBSET DOMAIN trace' :
            ~bug' /\ UpClosed(trace', cv', races', S) => UpClosed(trace', cv', races, S)
  <2>1. isfeasibleprefix(pending', promised') \in BOOLEAN
    BY DEF isfeasibleprefix
  <2> QED BY <2>1, <1>0, <1>1, <1>3, <1>5, Checked
<1>7. QueueInv'
  <2>1. QueueOK(trace', accesses', races')
    BY <1>0, <1>5, <1>6 DEF QueueOK
  <2> QED BY <2>1, <1>6 DEF QueueInv
<1>8. BugInv'
  BY <1>0, <1>6 DEF BugInv
<1>9. ShadowInv'
  <2>1. accesses' \subseteq [act : Actions', write : BOOLEAN]
    BY <1>0, <1>4 DEF ShadowInv, Actions
  <2>2. ASSUME NEW a, NEW w, Recorded(a, w), a.clock # 0
        PROVE  [act |-> a.clock, write |-> w] \in accesses' /\ trace'[a.clock] = a.thread
    <3>1. [act |-> a.clock, write |-> w] \in accesses /\ trace[a.clock] = a.thread
      BY <2>2 DEF Recorded
    <3>2. [act |-> a.clock, write |-> w] \in [act : Actions, write : BOOLEAN]
      BY <3>1, <1>0 DEF ShadowInv
    <3>3. a.clock \in Actions
      BY <3>2
    <3> QED BY <3>1, <3>3, <1>0, <1>4
  <2> QED BY <2>1, <2>2, <1>0 DEF ShadowInv, Recorded
<1>10. ASSUME ~bug', NEW S \in SUBSET Actions', UpClosed(trace', cv', races', S)
       PROVE  Covered(accesses', shadow', S)
  <2> DEFINE T == S \cap Actions
  <2>1. S \in SUBSET DOMAIN trace' /\ UpClosed(trace', cv', races, S)
    BY <1>6, <1>10 DEF Actions
  <2>2. UpClosed(trace, cv, races, T)
    <3> SUFFICES ASSUME NEW i \in T, NEW j \in Actions, i < j,
                        Ordered(trace, cv, i, j) \/ Queued(races, i, j)
                 PROVE  j \in T
      BY DEF UpClosed, Actions
    <3>1. cv[j][trace[i]] <= cv'[j][trace[i]] /\ trace'[i] = trace[i] /\ trace'[j] = trace[j]
      BY <1>1, <1>2 DEF Grows
    <3>2. cv[j][trace[i]] \in Nat /\ cv'[j][trace[i]] \in Nat /\ i \in Nat
      BY <1>2, <1>3, <1>4
    <3>3. Ordered(trace, cv, i, j) => Ordered(trace', cv', i, j)
      BY <3>1, <3>2 DEF Ordered
    <3> QED BY <3>3, <2>1, <1>4 DEF UpClosed
  <2>3. Covered(accesses, shadow, T)
    BY <1>0, <2>2 DEF RecordInv
  <2>4. \A x \in accesses : x.act \in Actions
    BY <1>0 DEF ShadowInv
  <2>5. Covered(accesses, shadow, S)
    BY <2>3, <2>4 DEF Covered
  <2> QED BY <2>5, <1>0
<1>11. RecordInv'
  BY <1>10 DEF RecordInv
<1> QED BY <1>1, <1>7, <1>8, <1>9, <1>11 DEF IInv

\* The clock an access is stamped with is the number of the last action.
LEMMA StampIsLast ==
  ASSUME TraceInv, trace # <<>>
  PROVE  /\ Len(trace) \in Nat /\ trace[Len(trace)] \in Threads
         /\ cv[Len(trace)][trace[Len(trace)]] = Len(trace)
<1>1. trace \in Seq(Threads) /\ Len(trace) \in Nat \ {0}
  BY EmptySeq DEF TraceInv
<1> QED BY <1>1, TraceTypes

LEMMA WriteInv == IInv /\ Write => IInv'
<1> SUFFICES ASSUME IInv, Write PROVE IInv'
  OBVIOUS
<1> DEFINE n == Len(trace)
           t == trace[n]
           c == cv[n]
           old == RacingReads(shadow, c, t) \cup RacingWrite(shadow, c, t)
           after == raceCheckWrite(shadow, t, n)
<1>1. /\ n \in Nat /\ t \in Threads /\ c[t] = n /\ trace # <<>> /\ ~bug /\ shadow \in Records
  BY StampIsLast DEF IInv, ShadowInv, Write
<1>2. Access(TRUE, old, after)
  BY <1>1 DEF Write
<1>3. after \in Records /\ after.write = [thread |-> t, clock |-> n] /\ after.reads = {}
  BY <1>1, WriteRecord
<1>4. old = {a \in shadow.reads \cup {shadow.write} : clock_may_race(c, t, a)}
  BY DEF RacingReads, RacingWrite
<1> HIDE DEF old, after
<1> QED BY <1>1, <1>2, <1>3, <1>4, AccessStep

LEMMA ReadInv == IInv /\ Read => IInv'
<1> SUFFICES ASSUME IInv, Read PROVE IInv'
  OBVIOUS
<1> DEFINE n == Len(trace)
           t == trace[n]
           c == cv[n]
           old == RacingWrite(shadow, c, t)
           after == raceCheckRead(shadow, c, t, n)
<1>1. /\ n \in Nat /\ t \in Threads /\ c[t] = n /\ trace # <<>> /\ ~bug /\ shadow \in Records
  BY StampIsLast DEF IInv, ShadowInv, Read
<1>2. Access(FALSE, old, after)
  BY <1>1 DEF Read
<1>3. /\ after \in Records /\ after.write = shadow.write
      /\ after.reads = Kept(shadow, c, t) \cup {[thread |-> t, clock |-> n]}
  BY <1>1, ReadRecord
<1>4. old = {a \in {shadow.write} : clock_may_race(c, t, a)}
  BY DEF RacingWrite
<1> HIDE DEF old, after
<1> QED BY <1>1, <1>2, <1>3, <1>4, AccessStep

LEMMA Stutters == IInv /\ UNCHANGED vars => IInv'
<1> SUFFICES ASSUME IInv, UNCHANGED vars PROVE IInv'
  OBVIOUS
<1> USE DEF vars
<1>1. TraceInv' /\ QueueInv' /\ BugInv'
  BY DEF IInv, TraceInv, QueueInv, BugInv, Actions
<1>2. ShadowInv'
  BY DEF IInv, ShadowInv, Recorded, Actions
<1>3. RecordInv'
  BY DEF IInv, RecordInv, Actions
<1> QED BY <1>1, <1>2, <1>3 DEF IInv

LEMMA Invariance == Spec => []IInv
<1>1. IInv /\ [Next]_vars => IInv'
  BY StepInv, WriteInv, ReadInv, Stutters DEF Next
<1> QED BY <1>1, InitInv, PTL DEF Spec
-----------------------------------------------------------------------------
(* What the invariant says of races by definition. *)

\* Two accesses race if the clock vectors do not order them.
LEMMA RaceIsRacing ==
  ASSUME TraceInv, ShadowInv, NEW x \in accesses, NEW y \in accesses
  PROVE  Race(x, y) <=> Racing(trace, cv, x, y)
<1> DEFINE t == trace[x.act]
           mine == {i \in Past[y.act] : trace[i] = t}
<1>1. x.act \in Actions /\ y.act \in Actions /\ x.write \in BOOLEAN /\ y.write \in BOOLEAN
  BY DEF ShadowInv
<1>2. /\ t \in Threads /\ cv[y.act][t] \in Nat /\ x.act \in Nat /\ y.act \in Nat
  BY <1>1, TraceTypes
<1>3. /\ mine = {} => cv[y.act][t] = 0
      /\ mine # {} => cv[y.act][t] \in mine /\ \A i \in mine : i <= cv[y.act][t]
  BY <1>1, <1>2, ExactFromVectors DEF ClocksAreExact
<1>4. \A i \in mine : i \in Nat
  BY <1>1, <1>2, PastIsKnown DEF Known
<1>5. (\A k \in mine : k <= x.act) <=> ~(cv[y.act][t] > x.act)
  <2> HIDE DEF mine, t
  <2>1. ASSUME \A k \in mine : k <= x.act PROVE ~(cv[y.act][t] > x.act)
    BY <2>1, <1>2, <1>3
  <2>2. ASSUME ~(cv[y.act][t] > x.act) PROVE \A k \in mine : k <= x.act
    BY <2>2, <1>2, <1>3, <1>4
  <2> QED BY <2>1, <2>2
<1>6. (\A k \in mine : k <= x.act) <=> \A k \in Past[y.act] : trace[k] = t => k <= x.act
  OBVIOUS
<1> QED BY <1>5, <1>6 DEF Race, Racing, Ordered, Conflict

\* The order of accesses the clock vectors tell is transitive.
LEMMA OrderedTransitive ==
  ASSUME TraceInv, NEW i \in Actions, NEW j \in Actions, NEW k \in Actions, i <= j, j <= k,
         Ordered(trace, cv, i, j), Ordered(trace, cv, j, k)
  PROVE  Ordered(trace, cv, i, k)
<1> DEFINE ti == trace[i]
           tj == trace[j]
           tk == trace[k]
<1>1. /\ i \in Nat /\ j \in Nat /\ k \in Nat /\ ti \in Threads /\ tj \in Threads /\ tk \in Threads
      /\ cv[j][ti] \in Nat /\ cv[k][ti] \in Nat /\ cv[k][tj] \in Nat /\ cv[k][tk] = k
      /\ j <= cv[k][tj] => cv[j][ti] <= cv[k][ti]
  BY TraceTypes
<1>2. CASE ti = tj
  BY <1>1, <1>2 DEF Ordered
<1>3. CASE ti # tj
  <2>1. cv[j][ti] > i
    BY <1>3 DEF Ordered
  <2>2. j <= cv[k][tj]
    BY <1>1 DEF Ordered
  <2>3. cv[k][ti] > i
    BY <1>1, <2>1, <2>2
  <2> QED BY <2>3 DEF Ordered
<1> QED BY <1>2, <1>3

\* If no queued race is one any more, what is behind an access is ordered after
\* it, and that covers the others.
LEMMA KnownFromInv == IInv => RacesAreKnown
<1> SUFFICES ASSUME IInv, ~bug, NEW x \in accesses, NEW y \in accesses, Race(x, y),
                    \A r \in races : ~StillRaces(cv, trace, r)
             PROVE  FALSE
  BY DEF RacesAreKnown, RaceExists
<1> DEFINE S == {j \in Actions : x.act <= j /\ Ordered(trace, cv, x.act, j)}
<1>1. TraceInv /\ ShadowInv /\ QueueInv /\ RecordInv
  BY DEF IInv
<1>2. /\ \A k \in Actions : k \in Nat \ {0} /\ \A t \in Threads : cv[k][t] \in Nat
      /\ x.act \in Actions /\ y.act \in Actions
  BY <1>1, TraceTypes DEF ShadowInv
<1>3. Conflict(x, y) /\ ~Ordered(trace, cv, x.act, y.act)
  BY <1>1, RaceIsRacing DEF Racing
<1>4. ASSUME NEW i \in Actions, NEW j \in Actions, Queued(races, i, j)
      PROVE  Ordered(trace, cv, i, j)
  <2>1. PICK r \in races : r.oldclock = i /\ r.newaction = j
    BY <1>4 DEF Queued
  <2>2. r.oldthread = trace[i] /\ r.oldthread \in Threads
    BY <1>1, <2>1 DEF QueueInv, QueueOK
  <2>3. trace[j] = trace[i] \/ i = 0 \/ ~(cv[j][trace[i]] <= i)
    BY <2>1, <2>2 DEF StillRaces, clock_may_race
  <2>4. i \in Nat \ {0} /\ cv[j][trace[i]] \in Nat
    BY <1>2, <2>2
  <2> QED BY <2>3, <2>4 DEF Ordered
<1>5. UpClosed(trace, cv, races, S)
  <2> SUFFICES ASSUME NEW i \in S, NEW j \in Actions, i < j,
                      Ordered(trace, cv, i, j) \/ Queued(races, i, j)
               PROVE  j \in S
    BY DEF UpClosed, Actions
  <2>1. Ordered(trace, cv, i, j)
    BY <1>4
  <2>2. x.act <= i /\ i <= j /\ x.act <= j
    BY <1>2
  <2>3. Ordered(trace, cv, x.act, j)
    BY <1>1, <1>2, <2>1, <2>2, OrderedTransitive
  <2> QED BY <2>2, <2>3
<1>6. x.act \in S
  BY <1>2 DEF Ordered
<1>7. y.act \in S
  <2>1. S \in SUBSET Actions
    OBVIOUS
  <2> HIDE DEF S
  <2> QED BY <1>1, <1>3, <1>5, <1>6, <2>1 DEF RecordInv, Covered
<1> QED BY <1>3, <1>7

\* In a feasible prefix nothing is queued.
LEMMA NotMissedFromInv == IInv => NoRaceIsMissed
<1> SUFFICES ASSUME IInv PROVE NoRaceIsMissed
  OBVIOUS
<1>1. RacesAreKnown
  BY KnownFromInv
<1>2. FeasiblePrefixIsRaceFree
  BY <1>1 DEF RacesAreKnown, FeasiblePrefixIsRaceFree, IInv, QueueInv
<1> QED BY <1>1, <1>2 DEF NoRaceIsMissed

LEMMA AlarmFromInv == IInv => NoFalseAlarm
<1> SUFFICES ASSUME IInv, bug PROVE RaceExists
  BY DEF NoFalseAlarm
<1>1. PICK x, y \in accesses : Racing(trace, cv, x, y)
  BY DEF IInv, BugInv
<1> QED BY <1>1, RaceIsRacing DEF IInv, RaceExists

LEMMA TypeFromInv == IInv => TypeOK
<1> SUFFICES ASSUME IInv PROVE TypeOK
  OBVIOUS
<1>1. TraceInv /\ ShadowInv /\ QueueInv
  BY DEF IInv
<1>2. cv \in [Actions -> [Threads -> Clocks]]
  <2>1. /\ cv \in Seq([Threads -> Nat]) /\ Len(cv) = Len(trace) /\ Len(trace) \in Nat
        /\ Actions = 1 .. Len(trace) /\ Len(trace) <= MaxActions /\ MaxActions \in Nat
    BY <1>1, TraceTypes, DataRaceAssumption DEF TraceInv, VectorsOK
  <2>2. ASSUME NEW k \in Actions PROVE cv[k] \in [Threads -> Clocks]
    <3>1. cv[k] \in [Threads -> Nat]
      BY <1>1, TraceTypes
    <3>2. ASSUME NEW t \in Threads PROVE cv[k][t] \in Clocks
      <4>1. cv[k][t] \in Nat /\ cv[k][t] <= k /\ k \in Nat /\ k <= MaxActions
        BY <1>1, <2>1, TraceTypes
      <4> QED BY <4>1, <2>1 DEF Clocks
    <3> QED BY <3>1, <3>2
  <2>3. cv = [k \in Actions |-> cv[k]]
    BY <2>1
  <2> QED BY <2>2, <2>3
<1>3. /\ shadow.short \in BOOLEAN /\ shadow.capacity \in Nat /\ shadow.write.thread \in Threads
      /\ Recorded(shadow.write, TRUE) /\ \A a \in shadow.reads : Recorded(a, FALSE)
  BY <1>1 DEF ShadowInv, Records, Stamps
<1>4. \A r \in races : /\ r.newaction \in Actions
                       /\ \E a \in accesses : a.act = r.oldclock /\ trace[a.act] = r.oldthread
  BY <1>1 DEF QueueInv, QueueOK, Actions
<1> QED BY <1>1, <1>2, <1>3, <1>4 DEF TypeOK, TraceInv
-----------------------------------------------------------------------------
(* The arrays of a record. *)

\* A short record holds one read at most; in a full one the reads fit, unless it
\* was expanded without arrays and never gets any.
RoomInv ==
  /\ IsFiniteSet(shadow.reads)
  /\ IF shadow.short THEN Cardinality(shadow.reads) <= 1
     ELSE shadow.capacity # 0 => Cardinality(shadow.reads) <= shadow.capacity

\* Expansion allocates room for the read of the short record, or none.
LEMMA Expanded ==
  ASSUME NEW s \in Records, NEW u, u = expandRecord(s)
  PROVE  /\ u \in Records /\ ~u.short /\ u.reads = s.reads
         /\ s.reads # {} => u.capacity # 0
         /\ u.capacity \in Nat
<1>1. u = [s EXCEPT !.short = FALSE, !.capacity = IF s.reads = {} THEN 0 ELSE INITCAPACITY]
  BY DEF expandRecord
<1>2. (IF s.reads = {} THEN 0 ELSE INITCAPACITY) \in Nat /\ (s.reads # {} => INITCAPACITY # 0)
  BY DataRaceAssumption
<1> QED BY <1>1, <1>2 DEF Records

LEMMA RoomStep ==
  ASSUME IInv, RoomInv, [Next]_vars
  PROVE  RoomInv'
<1>1. shadow \in Records /\ IsFiniteSet(shadow.reads) /\ shadow.capacity \in Nat /\ shadow.short \in BOOLEAN
  BY DEF IInv, ShadowInv, RoomInv, Records
<1>3. CASE shadow' = shadow
  BY <1>3 DEF RoomInv
<1>4. CASE Write
  <2> DEFINE t == trace[Len(trace)]
             k == Len(trace)
  <2>1. shadow' = raceCheckWrite(shadow, t, k) /\ k \in Nat /\ t \in Threads
    BY <1>4, StampIsLast DEF Write, Access, IInv
  <2>2. shadow' \in Records /\ shadow'.reads = {}
    BY <2>1, <1>1, WriteRecord
  <2>3. shadow'.capacity \in Nat
    BY <2>2 DEF Records
  <2>4. IsFiniteSet({}) /\ Cardinality({}) = 0
    BY FS_EmptySet
  <2> QED BY <2>2, <2>3, <2>4 DEF RoomInv
<1>5. CASE Read
  <2> DEFINE t == trace[Len(trace)]
             k == Len(trace)
             c == cv[Len(trace)]
             w == [thread |-> t, clock |-> k]
             kept == Kept(shadow, c, t)
  <2>1. shadow' = raceCheckRead(shadow, c, t, k) /\ k \in Nat /\ t \in Threads
    BY <1>5, StampIsLast DEF Read, Access, IInv
  <2>2. shadow'.reads = kept \cup {w}
    BY <1>1, <2>1, ReadRecord
  <2>3. kept \subseteq shadow.reads
    BY DEF Kept
  <2>4. /\ IsFiniteSet(kept) /\ Cardinality(kept) \in Nat /\ Cardinality(shadow.reads) \in Nat
        /\ Cardinality(kept) <= Cardinality(shadow.reads)
    BY <1>1, <2>3, FS_Subset, FS_CardinalityType
  <2>5. /\ IsFiniteSet(kept \cup {w}) /\ Cardinality(kept \cup {w}) \in Nat
        /\ Cardinality(kept \cup {w}) <= Cardinality(kept) + 1
    <3> HIDE DEF kept, w
    <3>1. /\ IsFiniteSet(kept \cup {w})
          /\ Cardinality(kept \cup {w}) = IF w \in kept THEN Cardinality(kept) ELSE Cardinality(kept) + 1
      BY <2>4, FS_AddElement
    <3> QED BY <2>4, <3>1
  <2> HIDE DEF kept, w
  <2>6. CASE shadow.short /\ kept = {} /\ ~TooLarge(t, k)
    <3>1. shadow'.short = TRUE
      BY <1>1, <2>1, <2>6 DEF raceCheckRead, kept, Records
    <3>2. Cardinality(kept) = 0
      BY <2>6, FS_EmptySet
    <3> QED BY <2>2, <2>5, <3>1, <3>2 DEF RoomInv
  <2>7. ASSUME NEW u \in Records, ~u.short, u.reads = shadow.reads,
               u.capacity # 0 => Cardinality(kept) <= u.capacity, shadow' = fullRaceCheckRead(u, c, t, k)
        PROVE  RoomInv'
    <3>1. u.capacity \in Nat
      BY DEF Records
    <3>2. /\ shadow'.short = FALSE
          /\ shadow'.capacity = IF Cardinality(kept) >= u.capacity THEN 2 * u.capacity ELSE u.capacity
      BY <2>7 DEF fullRaceCheckRead, Kept, kept, Records
    <3>3. shadow'.capacity # 0 => Cardinality(kept) + 1 <= shadow'.capacity /\ shadow'.capacity \in Nat
      BY <2>4, <2>7, <3>1, <3>2
    <3> QED BY <2>2, <2>4, <2>5, <3>2, <3>3 DEF RoomInv
  <2>8. CASE ~shadow.short
    <3>1. shadow' = fullRaceCheckRead(shadow, c, t, k)
      BY <2>1, <2>8 DEF raceCheckRead
    <3>2. shadow.capacity # 0 => Cardinality(kept) <= shadow.capacity
      BY <1>1, <2>4, <2>8 DEF RoomInv
    <3> QED BY <1>1, <2>7, <2>8, <3>1, <3>2
  <2>9. CASE shadow.short /\ (kept # {} \/ TooLarge(t, k))
    <3> DEFINE u == expandRecord(shadow)
    <3>1. shadow' = fullRaceCheckRead(u, c, t, k)
      BY <2>1, <2>9 DEF raceCheckRead, kept
    <3> HIDE DEF u
    <3>2. /\ u \in Records /\ ~u.short /\ u.reads = shadow.reads
          /\ shadow.reads # {} => u.capacity # 0
          /\ u.capacity \in Nat
      BY <1>1, Expanded DEF u
    <3>3. u.capacity # 0 => Cardinality(kept) <= u.capacity
      BY <2>4, <2>9, <3>2 DEF RoomInv
    <3> QED BY <2>7, <3>1, <3>2, <3>3
  <2> QED BY <1>1, <2>6, <2>8, <2>9
<1>6. [Next]_vars => Write \/ Read \/ shadow' = shadow
  BY DEF Next, Step, vars
<1> QED BY <1>3, <1>4, <1>5, <1>6
-----------------------------------------------------------------------------
(* The theorems. *)

\* The clock vectors decide happens-before at every point of every execution,
\* also after merges and after release sequences that are resolved late
\* (ModelAction::synchronize_with, propagate_clockvector).
THEOREM ClocksStayExact == Spec => []ClocksAreExact
<1>1. IInv => ClocksAreExact
  BY ExactFromVectors DEF IInv
<1> QED BY <1>1, Invariance, PTL

\* What the shadow record and the queue name are accesses that were made, under
\* the clock they were made at, whichever form the record has and however often
\* it was expanded (raceCheckRead, raceCheckWrite, expandRecord).
THEOREM RecordsStayTyped == Spec => []TypeOK
  BY TypeFromInv, Invariance, PTL

\* As long as two accesses race some race is asserted or queued and still one,
\* and a feasible prefix without a bug report has no race (raceCheckRead and
\* raceCheckWrite, reportDataRace, checkDataRaces).
THEOREM RacesAreNotMissed == Spec => []NoRaceIsMissed
  BY NotMissedFromInv, Invariance, PTL

\* checkDataRaces asserts a race only in an execution that has one.
THEOREM AlarmsAreReal == Spec => []NoFalseAlarm
  BY AlarmFromInv, Invariance, PTL

\* Records and queue name accesses that were made, under the clocks they were
\* made at, and the reads of an expanded record fit its arrays, if it has got any
\* (expandRecord, fullRaceCheckRead).
THEOREM RecordsStayExact == Spec => []RecordsExact
<1>1. Init => RoomInv
  BY FS_EmptySet DEF Init, RoomInv, EmptyShadow
<1>2. IInv /\ RoomInv /\ [Next]_vars => RoomInv'
  BY RoomStep
<1>3. IInv /\ RoomInv => RecordsExact
  BY TypeFromInv, ExactFromVectors DEF IInv, RoomInv, RecordsExact, ReadsFit, HasRoom
<1> QED BY <1>1, <1>2, <1>3, Invariance, PTL DEF Spec
=============================================================================
