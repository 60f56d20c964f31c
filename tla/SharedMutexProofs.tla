------------------------- MODULE SharedMutexProofs -------------------------
(***************************************************************************)
(* shared_mutex implements a reader-writer lock for any number of threads  *)
(* and sections, and of its assertions only the one of line 81 can fail.   *)
(***************************************************************************)
EXTENDS SharedMutex, FiniteSetTheorems, TLAPS

\* A writer is alone.
Exclusion == \A t \in Writers : Writers = {t} /\ Readers = {}

\* No store ever says less than that there is a writer, and a reader only
\* swaps a number of readers.
Counts ==
    /\ \A i \in 1..Len(hist) : hist[i].val >= -1
    /\ \A t \in Threads : pc[t] = "swap" => val[t] >= 0

\* The numbers of the sections that are over.
AllIds == 1..over

\* The newest store releases all the sections that are over, also those of
\* readers that left long ago; a writer knows them all.
Released ==
    /\ hist[Newest].released = AllIds
    /\ \A i \in 1..Len(hist) : hist[i].released \subseteq AllIds
    /\ \A t \in Threads : knows[t] \subseteq AllIds
    /\ \A t \in Writers : knows[t] = AllIds

IInv ==
    /\ TypeOK
    /\ Exclusion
    /\ CounterExact
    /\ Counts
    /\ Released
    /\ OnlyOneAssertFails
-----------------------------------------------------------------------------
\* Write and RMW append one store.
LEMMA Appends ==
    ASSUME TypeOK, NEW new \in Int, NEW r \in SUBSET Nat,
           hist' = Append(hist, [val |-> new, released |-> r])
    PROVE  /\ hist' \in Seq([val : Int, released : SUBSET Nat])
           /\ Len(hist) \in Nat \ {0}
           /\ Len(hist') = Len(hist) + 1
           /\ hist'[Len(hist')].val = new
           /\ hist'[Len(hist')].released = r
           /\ \A i \in 1..Len(hist) : hist'[i] = hist[i]
           /\ \A i \in 1..Len(hist') : i \in 1..Len(hist) \/ i = Len(hist')
<1>1. [val |-> new, released |-> r] \in [val : Int, released : SUBSET Nat]
  OBVIOUS
<1> QED BY <1>1 DEF TypeOK

\* The readers, with and without one.
LEMMA ReaderSets ==
    ASSUME NEW S, IsFiniteSet(S), NEW t
    PROVE  /\ Cardinality(S) \in Nat
           /\ t \notin S => IsFiniteSet(S \union {t}) /\ Cardinality(S \union {t}) = Cardinality(S) + 1
           /\ t \in S => Cardinality(S \ {t}) = Cardinality(S) - 1 /\ Cardinality(S) > 0
           /\ Cardinality(S) = 0 => S = {}
<1>1. Cardinality(S) \in Nat /\ (Cardinality(S) = 0 <=> S = {})
  BY FS_CardinalityType, FS_EmptySet
<1>2. CASE t \in S
  BY <1>1, <1>2, FS_RemoveElement
<1>3. CASE t \notin S
  BY <1>1, <1>3, FS_AddElement
<1> QED BY <1>1, <1>2, <1>3

LEMMA Members ==
    ASSUME TypeOK
    PROVE  /\ IsFiniteSet(Readers)
           /\ Readers \subseteq Threads
           /\ Writers \subseteq Threads
           /\ _refcount \in Int
           /\ Len(hist) \in Nat \ {0}
           /\ \A i \in 1..Len(hist) : hist[i].val \in Int /\ hist[i].released \in SUBSET Nat
<1>1. Readers \subseteq Threads /\ Writers \subseteq Threads
  BY DEF Readers, Writers
<1>2. IsFiniteSet(Readers)
  BY <1>1, FS_Subset, SharedMutexAssumption
<1>3. Len(hist) \in Nat \ {0} /\ \A i \in 1..Len(hist) : hist[i] \in [val : Int, released : SUBSET Nat]
  <2> DEFINE S == [val : Int, released : SUBSET Nat]
  <2>1. hist \in Seq(S) /\ Len(hist) >= 1
    BY DEF TypeOK
  <2> HIDE DEF S
  <2>2. Len(hist) \in Nat \ {0} /\ \A i \in 1..Len(hist) : hist[i] \in S
    BY <2>1
  <2> QED BY <2>2 DEF S
<1> QED BY <1>1, <1>2, <1>3 DEF _refcount, Newest

LEMMA InitIInv == Init => IInv
<1> SUFFICES ASSUME Init PROVE IInv
  OBVIOUS
<1>1. TypeOK
  <2>1. [val |-> LOCK_FREE, released |-> {}] \in [val : Int, released : SUBSET Nat]
    BY DEF LOCK_FREE
  <2> QED BY <2>1 DEF Init, TypeOK, Places
<1>2. Writers = {} /\ Readers = {}
  BY DEF Init, Writers, Readers
<1>3. CounterExact
  BY <1>2, FS_EmptySet DEF Init, CounterExact, _refcount, Newest, LOCK_FREE
<1>4. AllIds = {}
  BY DEF Init, AllIds
<1> QED
  BY <1>1, <1>2, <1>3, <1>4
  DEF IInv, Init, Exclusion, Counts, Released, OnlyOneAssertFails, Newest, LOCK_FREE
-----------------------------------------------------------------------------
\* A step that only lets thread t learn more leaves the lock as it is.
LEMMA Learning ==
    ASSUME IInv, NEW t \in Threads, NEW K \in SUBSET AllIds,
           Writers' = Writers, Readers' = Readers, over' = over, written' = written,
           knows' = [knows EXCEPT ![t] = @ \union K]
    PROVE  RW!Next
<1>1. Holder' = Holder
  BY DEF Holder
<1>2. knows[t] \union K \subseteq AllIds
  BY DEF IInv, Released
<1>3. RW!Learns(t, {})
  BY <1>2 DEF RW!Learns, AllIds
<1> QED BY <1>1, <1>3 DEF RW!Next, RW!Learn

\* A load: what it learns was released.
LEMMA LoadStep ==
    ASSUME IInv, NEW t \in Threads, NEW i \in 1..Newest, NEW acquire \in BOOLEAN,
           Load(t, i, acquire)
    PROVE  /\ hist' = hist
           /\ floor' \in [Threads -> Nat \ {0}]
           /\ \E K \in SUBSET AllIds : knows' = [knows EXCEPT ![t] = @ \union K]
<1>1. hist[i].released \in SUBSET AllIds
  BY DEF IInv, Released, Newest
<1>2. knows = [knows EXCEPT ![t] = @ \union {}]
  BY DEF IInv, TypeOK
<1>3. Len(hist) \in Nat
  BY DEF IInv, TypeOK
<1>4. floor' \in [Threads -> Nat \ {0}]
  BY <1>3 DEF Load, IInv, TypeOK, Newest
<1>5. CASE acquire
  BY <1>1, <1>4, <1>5 DEF Load
<1>6. CASE ~acquire
  <2>1. {} \in SUBSET AllIds
    OBVIOUS
  <2> QED BY <1>2, <1>4, <1>6, <2>1 DEF Load
<1> QED BY <1>5, <1>6

\* A store: the counter and what the newest store releases.
LEMMA WriteStep ==
    ASSUME IInv, NEW t \in Threads, NEW new \in Int, NEW r \in SUBSET Nat, Write(t, new, r)
    PROVE  /\ hist' \in Seq([val : Int, released : SUBSET Nat])
           /\ Len(hist') >= 1
           /\ floor' \in [Threads -> Nat \ {0}]
           /\ _refcount' = new
           /\ hist'[Newest'].released = r
           /\ new >= -1 => \A i \in 1..Len(hist') : hist'[i].val >= -1
           /\ \A i \in 1..Len(hist') : hist'[i].released \subseteq AllIds \/ hist'[i].released = r
<1> USE DEF IInv
<1>1. hist' = Append(hist, [val |-> new, released |-> r])
  BY DEF Write
<1>2. /\ hist' \in Seq([val : Int, released : SUBSET Nat])
      /\ Len(hist) \in Nat \ {0}
      /\ Len(hist') = Len(hist) + 1
      /\ hist'[Len(hist')].val = new
      /\ hist'[Len(hist')].released = r
      /\ \A i \in 1..Len(hist) : hist'[i] = hist[i]
      /\ \A i \in 1..Len(hist') : i \in 1..Len(hist) \/ i = Len(hist')
  BY <1>1, Appends
<1>3. floor' \in [Threads -> Nat \ {0}]
  BY <1>2 DEF Write, TypeOK, Newest
<1>4. new >= -1 => \A i \in 1..Len(hist') : hist'[i].val >= -1
  BY <1>2 DEF Counts
<1>5. \A i \in 1..Len(hist') : hist'[i].released \subseteq AllIds \/ hist'[i].released = r
  BY <1>2 DEF Released
<1> QED BY <1>2, <1>3, <1>4, <1>5 DEF _refcount, Newest

\* The assertions on the counter swap it for itself.
LEMMA CompareStep ==
    ASSUME IInv, NEW t \in Threads, Compare(t)
    PROVE  /\ hist' \in Seq([val : Int, released : SUBSET Nat])
           /\ Len(hist') >= 1
           /\ floor' \in [Threads -> Nat \ {0}]
           /\ _refcount' = _refcount
           /\ hist'[Newest'].released = AllIds
           /\ \A i \in 1..Len(hist') : hist'[i].val >= -1 /\ hist'[i].released \subseteq AllIds
           /\ knows' = [knows EXCEPT ![t] = @ \union AllIds]
<1> DEFINE sees == hist[Newest].released
           r    == sees \union (knows[t] \union sees)
<1>1. sees = AllIds /\ r = AllIds
  BY DEF IInv, Released
<1>2. r \in SUBSET Nat /\ _refcount \in Int /\ _refcount >= -1
  <2>1. Len(hist) \in Nat \ {0} /\ _refcount \in Int /\ sees \in SUBSET Nat
    BY Members DEF IInv, Newest
  <2>2. _refcount >= -1
    BY <2>1 DEF IInv, Counts, _refcount, Newest
  <2> QED BY <1>1, <2>1, <2>2
<1>3. Write(t, _refcount, r) /\ knows' = [knows EXCEPT ![t] = knows[t] \union sees]
  BY DEF Compare, RMW
<1> HIDE DEF r, sees
<1>4. /\ hist' \in Seq([val : Int, released : SUBSET Nat])
      /\ Len(hist') >= 1
      /\ floor' \in [Threads -> Nat \ {0}]
      /\ _refcount' = _refcount
      /\ hist'[Newest'].released = r
      /\ _refcount >= -1 => \A i \in 1..Len(hist') : hist'[i].val >= -1
      /\ \A i \in 1..Len(hist') : hist'[i].released \subseteq AllIds \/ hist'[i].released = r
  BY <1>2, <1>3, WriteStep
<1> QED BY <1>1, <1>2, <1>3, <1>4
-----------------------------------------------------------------------------
\* A thread that moves without crossing the bounds of a section.
LEMMA Stays ==
    ASSUME TypeOK, NEW t \in Threads, NEW there \in Places,
           pc' = [pc EXCEPT ![t] = there],
           pc[t] \in {"locked", "writing"} <=> there \in {"locked", "writing"},
           pc[t] \in {"shared in", "reading"} <=> there \in {"shared in", "reading"}
    PROVE  /\ Writers' = Writers /\ Readers' = Readers
           /\ pc' \in [Threads -> Places]
BY DEF TypeOK, Writers, Readers

LEMMA IdsTyped ==
    ASSUME TypeOK
    PROVE  AllIds \in SUBSET Nat
<1>1. over \in Nat
  BY DEF TypeOK
<1> QED BY <1>1 DEF AllIds

LEMMA UnionSubset ==
    ASSUME NEW A, NEW B \in SUBSET A
    PROVE  A \union B = A
OBVIOUS

LEMMA Known ==
    ASSUME IInv
    PROVE  \A u \in Threads : knows[u] \subseteq AllIds /\ (u \in Writers => knows[u] = AllIds)
BY DEF IInv, Released

LEMMA Knowing ==
    ASSUME TypeOK, NEW t \in Threads, NEW K \in SUBSET Nat,
           knows' = [knows EXCEPT ![t] = @ \union K]
    PROVE  /\ knows' \in [Threads -> SUBSET Nat]
           /\ knows'[t] = knows[t] \union K
           /\ \A u \in Threads \ {t} : knows'[u] = knows[u]
<1>1. knows \in [Threads -> SUBSET Nat]
  BY DEF TypeOK
<1>2. knows[t] \union K \in SUBSET Nat
  BY <1>1
<1> QED BY <1>1, <1>2

\* The steps that begin or end no section.
LEMMA QuietStep ==
    ASSUME IInv, NEW t \in Threads, NEW there \in Places, NEW K \in SUBSET AllIds,
           pc' = [pc EXCEPT ![t] = there],
           pc[t] \in {"locked", "writing"} <=> there \in {"locked", "writing"},
           pc[t] \in {"shared in", "reading"} <=> there \in {"shared in", "reading"},
           hist' \in Seq([val : Int, released : SUBSET Nat]),
           Len(hist') >= 1,
           floor' \in [Threads -> Nat \ {0}],
           _refcount' = _refcount,
           hist'[Newest'].released = AllIds,
           \A i \in 1..Len(hist') : hist'[i].val >= -1 /\ hist'[i].released \subseteq AllIds,
           knows' = [knows EXCEPT ![t] = @ \union K],
           over' = over, written' = written,
           val' \in [Threads -> Int],
           \A u \in Threads : pc'[u] = "swap" => val'[u] >= 0,
           bugs' \subseteq {81}
    PROVE  IInv' /\ RW!Next
<1>1. Writers' = Writers /\ Readers' = Readers /\ pc' \in [Threads -> Places]
  BY Stays DEF IInv
<1>2. RW!Next
  BY <1>1, Learning
<1>3. AllIds' = AllIds /\ AllIds \subseteq Nat
  <2>1. AllIds' = AllIds
    BY DEF AllIds
  <2> QED BY <2>1, IdsTyped DEF IInv
<1>3a. /\ knows' \in [Threads -> SUBSET Nat]
      /\ knows'[t] = knows[t] \union K
      /\ \A u \in Threads \ {t} : knows'[u] = knows[u]
  <2>1. TypeOK /\ K \in SUBSET Nat
    BY <1>3 DEF IInv
  <2> QED BY <2>1, Knowing
<1>4. TypeOK'
  BY <1>1, <1>3a DEF IInv, TypeOK
<1>5. Exclusion'
  BY <1>1 DEF IInv, Exclusion
<1>6. CounterExact'
  BY <1>1 DEF IInv, CounterExact
<1>7. Counts'
  BY DEF Counts
<1>8. Released'
  <2>1. Writers \subseteq Threads
    BY Members DEF IInv
  <2>2. \A u \in Threads : knows[u] \subseteq AllIds /\ (u \in Writers => knows[u] = AllIds)
    BY Known
  <2>3. ASSUME NEW u \in Threads
        PROVE  knows'[u] \subseteq AllIds /\ (u \in Writers => knows'[u] = AllIds)
    <3>1. CASE u = t
      <4>1. knows'[u] = knows[u] \union K /\ K \subseteq AllIds
        BY <1>3a, <3>1
      <4>2. knows[u] \subseteq AllIds /\ (u \in Writers => knows[u] = AllIds)
        BY <2>2
      <4>3. knows'[u] \subseteq AllIds
        BY <4>1, <4>2
      <4>4. ASSUME u \in Writers PROVE knows'[u] = AllIds
        <5>1. knows'[u] = AllIds \union K
          BY <4>1, <4>2, <4>4
        <5> QED BY <5>1, UnionSubset
      <4> QED BY <4>3, <4>4
    <3>2. CASE u # t
      <4>1. knows'[u] = knows[u]
        BY <1>3a, <3>2
      <4> QED BY <2>2, <4>1
    <3> QED BY <3>1, <3>2
  <2> QED BY <1>1, <1>3, <2>1, <2>3 DEF Released
<1>9. OnlyOneAssertFails'
  BY DEF OnlyOneAssertFails
<1> QED BY <1>2, <1>4, <1>5, <1>6, <1>7, <1>8, <1>9 DEF IInv

\* A quiet step that leaves the counter's stores alone.
LEMMA QuietLoad ==
    ASSUME IInv, NEW t \in Threads, NEW there \in Places, NEW K \in SUBSET AllIds,
           pc' = [pc EXCEPT ![t] = there],
           pc[t] \in {"locked", "writing"} <=> there \in {"locked", "writing"},
           pc[t] \in {"shared in", "reading"} <=> there \in {"shared in", "reading"},
           hist' = hist,
           floor' \in [Threads -> Nat \ {0}],
           knows' = [knows EXCEPT ![t] = @ \union K],
           over' = over, written' = written,
           val' \in [Threads -> Int],
           \A u \in Threads : pc'[u] = "swap" => val'[u] >= 0,
           bugs' \subseteq {81}
    PROVE  IInv' /\ RW!Next
<1>1. /\ hist' \in Seq([val : Int, released : SUBSET Nat])
      /\ Len(hist') >= 1
      /\ _refcount' = _refcount
      /\ hist'[Newest'].released = AllIds
      /\ \A i \in 1..Len(hist') : hist'[i].val >= -1 /\ hist'[i].released \subseteq AllIds
  BY DEF IInv, TypeOK, _refcount, Newest, Released, Counts
<1> QED BY <1>1, QuietStep

\* The assertions that follow a read-modify-write: they hold.
LEMMA CheckStep ==
    ASSUME IInv, NEW t \in Threads, NEW here \in Places, NEW there \in Places \ {"swap"},
           NEW cond \in BOOLEAN, NEW line \in Nat,
           here \in {"locked", "writing"} <=> there \in {"locked", "writing"},
           here \in {"shared in", "reading"} <=> there \in {"shared in", "reading"},
           At(t, here, there), Compare(t), model_assert(cond, line),
           cond,
           val' = val, over' = over, written' = written
    PROVE  IInv' /\ RW!Next
<1>1. bugs' \subseteq {81}
  BY DEF model_assert, IInv, OnlyOneAssertFails
<1>2. pc' = [pc EXCEPT ![t] = there] /\ pc[t] = here
  BY DEF At
<1>3. val' \in [Threads -> Int] /\ \A u \in Threads : pc'[u] = "swap" => val'[u] >= 0
  BY <1>2 DEF IInv, TypeOK, Counts
<1>4. /\ hist' \in Seq([val : Int, released : SUBSET Nat])
      /\ Len(hist') >= 1
      /\ floor' \in [Threads -> Nat \ {0}]
      /\ _refcount' = _refcount
      /\ hist'[Newest'].released = AllIds
      /\ \A i \in 1..Len(hist') : hist'[i].val >= -1 /\ hist'[i].released \subseteq AllIds
      /\ knows' = [knows EXCEPT ![t] = @ \union AllIds]
  BY CompareStep
<1>5. /\ AllIds \in SUBSET AllIds /\ there \in Places
      /\ pc[t] \in {"locked", "writing"} <=> there \in {"locked", "writing"}
      /\ pc[t] \in {"shared in", "reading"} <=> there \in {"shared in", "reading"}
  BY <1>2
<1>6. ASSUME NEW K \in SUBSET AllIds, K = AllIds
      PROVE  IInv' /\ RW!Next
  <2>1. knows' = [knows EXCEPT ![t] = @ \union K]
    BY <1>4, <1>6
  <2> QED BY <1>1, <1>2, <1>3, <1>4, <1>5, <2>1, QuietStep
<1> QED BY <1>5, <1>6

\* What the counter says of the threads inside.
LEMMA CounterSays ==
    ASSUME IInv
    PROVE  /\ _refcount \in Int /\ _refcount >= -1
           /\ _refcount = -1 => Writers # {} /\ Readers = {}
           /\ _refcount # -1 => Writers = {} /\ _refcount = Cardinality(Readers)
           /\ _refcount = 0 => Writers = {} /\ Readers = {}
           /\ \A t \in Readers : _refcount > 0
           /\ \A t \in Writers : _refcount = -1
<1>1. Cardinality(Readers) \in Nat /\ (Cardinality(Readers) = 0 <=> Readers = {})
  BY Members, FS_CardinalityType, FS_EmptySet DEF IInv
<1> QED BY <1>1 DEF IInv, CounterExact, Exclusion, LOCK_WRITER
-----------------------------------------------------------------------------
LEMMA BeginStep ==
    ASSUME IInv, NEW t \in Threads, Begin(t)
    PROVE  IInv' /\ RW!Next
<1>1. PICK there \in {"lock", "shared"} : At(t, "idle", there)
  BY DEF Begin
<1>2. pc' = [pc EXCEPT ![t] = there] /\ pc[t] = "idle" /\ there \in Places
  BY <1>1 DEF At, Places
<1>3. /\ hist' = hist
      /\ floor' \in [Threads -> Nat \ {0}]
      /\ knows' = [knows EXCEPT ![t] = @ \union {}]
      /\ over' = over /\ written' = written
      /\ val' \in [Threads -> Int]
      /\ bugs' \subseteq {81}
  BY DEF Begin, IInv, TypeOK, OnlyOneAssertFails
<1>4. \A u \in Threads : pc'[u] = "swap" => val'[u] >= 0
  BY <1>1, <1>2 DEF Begin, IInv, TypeOK, Counts
<1>5. {} \in SUBSET AllIds
  OBVIOUS
<1> QED BY <1>1, <1>2, <1>3, <1>4, <1>5, QuietLoad

LEMMA LockFailStep ==
    ASSUME IInv, NEW t \in Threads, NEW i \in 1..Newest, LockFail(t, i)
    PROVE  IInv' /\ RW!Next
<1>1. pc' = [pc EXCEPT ![t] = "lock"] /\ pc[t] = "lock" /\ "lock" \in Places
  BY DEF LockFail, At, Places
<1>2. PICK K \in SUBSET AllIds : /\ hist' = hist
                                /\ floor' \in [Threads -> Nat \ {0}]
                                /\ knows' = [knows EXCEPT ![t] = @ \union K]
  BY LoadStep DEF LockFail
<1>3. /\ over' = over /\ written' = written
      /\ val' \in [Threads -> Int]
      /\ bugs' \subseteq {81}
  BY DEF LockFail, IInv, TypeOK, OnlyOneAssertFails
<1>4. \A u \in Threads : pc'[u] = "swap" => val'[u] >= 0
  BY <1>1 DEF LockFail, IInv, TypeOK, Counts
<1> QED BY <1>1, <1>2, <1>3, <1>4, QuietLoad

LEMMA SharedLoadStep ==
    ASSUME IInv, NEW t \in Threads, NEW i \in 1..Newest, SharedLoad(t, i)
    PROVE  IInv' /\ RW!Next
<1>1. PICK K \in SUBSET AllIds : /\ hist' = hist
                                /\ floor' \in [Threads -> Nat \ {0}]
                                /\ knows' = [knows EXCEPT ![t] = @ \union K]
  BY LoadStep DEF SharedLoad
<1>2. over' = over /\ written' = written
  BY DEF SharedLoad
<1>3. CASE hist[i].val = LOCK_WRITER
  <2>1. pc' = [pc EXCEPT ![t] = "shared"] /\ pc[t] = "shared" /\ "shared" \in Places
    BY <1>3 DEF SharedLoad, At, Places
  <2>2. val' \in [Threads -> Int] /\ bugs' \subseteq {81}
    <3>1. val' = val /\ bugs' = bugs
      BY <1>3 DEF SharedLoad
    <3> QED BY <3>1 DEF IInv, TypeOK, OnlyOneAssertFails
  <2>3. \A u \in Threads : pc'[u] = "swap" => val'[u] >= 0
    <3>1. val' = val
      BY <1>3 DEF SharedLoad
    <3> QED BY <2>1, <3>1 DEF IInv, TypeOK, Counts
  <2> QED BY <1>1, <1>2, <2>1, <2>2, <2>3, QuietLoad
<1>4. CASE hist[i].val # LOCK_WRITER
  <2>1. pc' = [pc EXCEPT ![t] = "swap"] /\ pc[t] = "shared" /\ "swap" \in Places
    BY <1>4 DEF SharedLoad, At, Places
  <2>2. val' = [val EXCEPT ![t] = hist[i].val] /\ model_assert(hist[i].val = 0, 81)
    BY <1>4 DEF SharedLoad
  <2>3. hist[i].val \in Int /\ hist[i].val >= 0
    <3>1. hist[i].val \in Int /\ hist[i].val >= -1
      BY Members DEF IInv, Counts, Newest
    <3> QED BY <1>4, <3>1 DEF LOCK_WRITER
  <2>4. val' \in [Threads -> Int]
    BY <2>2, <2>3 DEF IInv, TypeOK
  <2>5. bugs' \subseteq {81}
    <3>1. bugs' = bugs \/ bugs' = bugs \union {81}
      BY <2>2 DEF model_assert
    <3> QED BY <3>1 DEF IInv, OnlyOneAssertFails
  <2>6. \A u \in Threads : pc'[u] = "swap" => val'[u] >= 0
    BY <2>1, <2>2, <2>3 DEF IInv, TypeOK, Counts
  <2> QED BY <1>1, <1>2, <2>1, <2>4, <2>5, <2>6, QuietLoad
<1> QED BY <1>3, <1>4

LEMMA SharedFailStep ==
    ASSUME IInv, NEW t \in Threads, NEW i \in 1..Newest, SharedFail(t, i)
    PROVE  IInv' /\ RW!Next
<1>1. pc' = [pc EXCEPT ![t] = "shared"] /\ pc[t] = "swap" /\ "shared" \in Places
  BY DEF SharedFail, At, Places
<1>2. PICK K \in SUBSET AllIds : /\ hist' = hist
                                /\ floor' \in [Threads -> Nat \ {0}]
                                /\ knows' = [knows EXCEPT ![t] = @ \union K]
  BY LoadStep DEF SharedFail
<1>3. /\ over' = over /\ written' = written
      /\ val' \in [Threads -> Int]
      /\ bugs' \subseteq {81}
  BY DEF SharedFail, IInv, TypeOK, OnlyOneAssertFails
<1>4. \A u \in Threads : pc'[u] = "swap" => val'[u] >= 0
  BY <1>1 DEF SharedFail, IInv, TypeOK, Counts
<1> QED BY <1>1, <1>2, <1>3, <1>4, QuietLoad

\* The four assertions on the counter.
LEMMA CheckSteps ==
    ASSUME IInv, NEW t \in Threads,
           LockCheck(t) \/ UnlockCheck(t) \/ SharedCheck(t) \/ SharedUnlockCheck(t)
    PROVE  IInv' /\ RW!Next
<1>1. CASE LockCheck(t)
  <2>1. _refcount = LOCK_WRITER
    BY <1>1, CounterSays DEF LockCheck, At, Writers, LOCK_WRITER
  <2>2. "locked" \in Places /\ "writing" \in Places \ {"swap"}
    BY DEF Places
  <2> QED BY <1>1, <2>1, <2>2, CheckStep DEF LockCheck
<1>2. CASE UnlockCheck(t)
  <2>1. _refcount >= LOCK_WRITER
    BY CounterSays DEF LOCK_WRITER
  <2>2. "unlocked" \in Places /\ "idle" \in Places \ {"swap"}
    BY DEF Places
  <2> QED BY <1>2, <2>1, <2>2, CheckStep DEF UnlockCheck
<1>3. CASE SharedCheck(t)
  <2>1. _refcount > 0
    BY <1>3, CounterSays DEF SharedCheck, At, Readers
  <2>2. "shared in" \in Places /\ "reading" \in Places \ {"swap"}
    BY DEF Places
  <2> QED BY <1>3, <2>1, <2>2, CheckStep DEF SharedCheck
<1>4. CASE SharedUnlockCheck(t)
  <2>1. _refcount >= LOCK_WRITER
    BY CounterSays DEF LOCK_WRITER
  <2>2. "shared out" \in Places /\ "idle" \in Places \ {"swap"}
    BY DEF Places
  <2> QED BY <1>4, <2>1, <2>2, CheckStep DEF SharedUnlockCheck
<1> QED BY <1>1, <1>2, <1>3, <1>4
-----------------------------------------------------------------------------
\* The steps that begin a section.
LEMMA EnterKnows ==
    ASSUME IInv, NEW t \in Threads
    PROVE  /\ hist[Newest].released = AllIds
           /\ AllIds \in SUBSET Nat
           /\ knows[t] \union AllIds = AllIds
           /\ AllIds \union {} = AllIds
<1>1. knows[t] \subseteq AllIds
  BY Known
<1>2. AllIds \in SUBSET Nat
  BY IdsTyped DEF IInv
<1>3. hist[Newest].released = AllIds
  BY DEF IInv, Released
<1>4. knows[t] \union AllIds = AllIds
  BY <1>1
<1> QED BY <1>2, <1>3, <1>4

\* After such a step all that is over is known, and released by the counter.
LEMMA EnterStep ==
    ASSUME IInv, NEW t \in Threads, NEW new \in Int, new >= -1, RMW(t, new, TRUE, FALSE),
           over' = over, written' = written, pc' \in [Threads -> Places], val' = val, bugs' \subseteq {81},
           \A u \in Threads : pc'[u] = "swap" => pc[u] = "swap"
    PROVE  /\ TypeOK' /\ Counts' /\ OnlyOneAssertFails'
           /\ AllIds' = AllIds
           /\ _refcount' = new
           /\ knows' = [knows EXCEPT ![t] = AllIds]
           /\ Writers' \subseteq Writers \union {t} => Released'
<1>1. /\ hist[Newest].released = AllIds
      /\ AllIds \in SUBSET Nat
      /\ knows[t] \union AllIds = AllIds
      /\ AllIds \union {} = AllIds
  BY EnterKnows
<1>2. Write(t, new, AllIds)
  BY <1>1 DEF RMW
<1>3. knows' = [knows EXCEPT ![t] = AllIds]
  BY <1>1 DEF RMW
<1>4. /\ hist' \in Seq([val : Int, released : SUBSET Nat])
      /\ Len(hist') >= 1
      /\ floor' \in [Threads -> Nat \ {0}]
      /\ _refcount' = new
      /\ hist'[Newest'].released = AllIds
      /\ \A i \in 1..Len(hist') : hist'[i].val >= -1
      /\ \A i \in 1..Len(hist') : hist'[i].released \subseteq AllIds \/ hist'[i].released = AllIds
  BY <1>1, <1>2, WriteStep
<1>5. AllIds' = AllIds
  BY DEF AllIds
<1>6. /\ knows \in [Threads -> SUBSET Nat] /\ val \in [Threads -> Int]
      /\ over \in Nat /\ written \in SUBSET (1..over)
  BY DEF IInv, TypeOK
<1>7. knows' \in [Threads -> SUBSET Nat]
  BY <1>1, <1>3, <1>6
<1>8. TypeOK'
  BY <1>4, <1>6, <1>7 DEF TypeOK
<1>9. Counts'
  BY <1>4 DEF IInv, Counts
<1>10. ASSUME Writers' \subseteq Writers \union {t} PROVE Released'
  <2>1. \A i \in 1..Len(hist') : hist'[i].released \subseteq AllIds
    BY <1>4
  <2>2. \A u \in Threads : knows[u] \subseteq AllIds /\ (u \in Writers => knows[u] = AllIds)
    BY Known
  <2>3. \A u \in Threads : knows'[u] = IF u = t THEN AllIds ELSE knows[u]
    BY <1>3, <1>6
  <2>4. Writers \subseteq Threads
    BY Members DEF IInv
  <2>5. \A u \in Threads : knows'[u] \subseteq AllIds
    BY <2>2, <2>3
  <2>6. \A u \in Writers' : knows'[u] = AllIds
    BY <1>10, <2>2, <2>3, <2>4
  <2> QED BY <1>4, <1>5, <2>1, <2>5, <2>6 DEF Released
<1>11. OnlyOneAssertFails'
  BY DEF OnlyOneAssertFails
<1> QED BY <1>3, <1>4, <1>5, <1>8, <1>9, <1>10, <1>11

LEMMA LockSwapStep ==
    ASSUME IInv, NEW t \in Threads, LockSwap(t)
    PROVE  IInv' /\ RW!Next
<1>1. pc' = [pc EXCEPT ![t] = "locked"] /\ pc[t] = "lock" /\ _refcount = 0
  BY DEF LockSwap, At, LOCK_FREE
<1>2. Writers = {} /\ Readers = {}
  BY <1>1, CounterSays
<1>3. pc \in [Threads -> Places]
  BY DEF IInv, TypeOK
<1>4. pc' \in [Threads -> Places] /\ \A u \in Threads : pc'[u] = "swap" => pc[u] = "swap"
  BY <1>1, <1>3 DEF Places
<1>5. Writers' = {t} /\ Readers' = {}
  BY <1>1, <1>2, <1>3 DEF Writers, Readers
<1>6. RMW(t, -1, TRUE, FALSE) /\ over' = over /\ written' = written /\ val' = val /\ bugs' \subseteq {81}
  BY DEF LockSwap, LOCK_WRITER, IInv, OnlyOneAssertFails
<1>7. /\ TypeOK' /\ Counts' /\ OnlyOneAssertFails'
      /\ AllIds' = AllIds
      /\ _refcount' = -1
      /\ knows' = [knows EXCEPT ![t] = AllIds]
      /\ Released'
  <2>1. -1 \in Int /\ -1 >= -1 /\ Writers' \subseteq Writers \union {t}
    BY <1>5
  <2> QED BY <1>4, <1>6, <2>1, EnterStep
<1>8. Exclusion' /\ CounterExact'
  BY <1>5, <1>7 DEF Exclusion, CounterExact, LOCK_WRITER
<1>9. RW!Lock(t)
  <2>1. Holder = Nobody /\ Holder' = t
    BY <1>2, <1>5 DEF Holder
  <2>2. knows[t] \union AllIds \subseteq AllIds
    BY EnterKnows
  <2>3. RW!Learns(t, AllIds)
    BY <1>7, <2>2 DEF RW!Learns, AllIds
  <2> QED BY <1>2, <1>5, <1>6, <2>1, <2>3 DEF RW!Lock, AllIds
<1> QED BY <1>7, <1>8, <1>9 DEF IInv, RW!Next

LEMMA SharedSwapStep ==
    ASSUME IInv, NEW t \in Threads, SharedSwap(t)
    PROVE  IInv' /\ RW!Next
<1>1. pc' = [pc EXCEPT ![t] = "shared in"] /\ pc[t] = "swap" /\ _refcount = val[t]
  BY DEF SharedSwap, At
<1>2. val[t] \in Int /\ val[t] >= 0
  BY <1>1 DEF IInv, TypeOK, Counts
<1>3. Writers = {} /\ _refcount = Cardinality(Readers)
  <2>1. _refcount # -1
    <3>1. \A n \in Int : n >= 0 => n # -1
      OBVIOUS
    <3> QED BY <1>1, <1>2, <3>1
  <2> QED BY <2>1, CounterSays
<1>4. pc \in [Threads -> Places]
  BY DEF IInv, TypeOK
<1>5. pc' \in [Threads -> Places] /\ \A u \in Threads : pc'[u] = "swap" => pc[u] = "swap"
  BY <1>1, <1>4 DEF Places
<1>6. Writers' = {} /\ Readers' = Readers \union {t} /\ t \notin Readers
  BY <1>1, <1>3, <1>4 DEF Writers, Readers
<1>7. RMW(t, val[t] + 1, TRUE, FALSE) /\ over' = over /\ written' = written /\ val' = val
  BY DEF SharedSwap
<1>8. bugs' \subseteq {81}
  <2>1. bugs' = bugs
    BY <1>2 DEF SharedSwap, model_assert
  <2> QED BY <2>1 DEF IInv, OnlyOneAssertFails
<1>9. /\ TypeOK' /\ Counts' /\ OnlyOneAssertFails'
      /\ AllIds' = AllIds
      /\ _refcount' = val[t] + 1
      /\ knows' = [knows EXCEPT ![t] = AllIds]
      /\ Released'
  <2>1. ASSUME NEW new \in Int, new = val[t] + 1
        PROVE  /\ TypeOK' /\ Counts' /\ OnlyOneAssertFails'
               /\ AllIds' = AllIds
               /\ _refcount' = new
               /\ knows' = [knows EXCEPT ![t] = AllIds]
               /\ Released'
    <3>1. new >= -1
      BY <1>2, <2>1
    <3>2. RMW(t, new, TRUE, FALSE) /\ Writers' \subseteq Writers \union {t}
      BY <1>6, <1>7, <2>1
    <3> QED BY <1>5, <1>7, <1>8, <3>1, <3>2, EnterStep
  <2>2. val[t] + 1 \in Int
    BY <1>2
  <2> QED BY <2>1, <2>2
<1>10. Exclusion' /\ CounterExact'
  <2>1. Cardinality(Readers \union {t}) = Cardinality(Readers) + 1
    BY <1>6, Members, ReaderSets DEF IInv
  <2> QED BY <1>1, <1>3, <1>6, <1>9, <2>1 DEF Exclusion, CounterExact
<1>11. RW!LockShared(t)
  <2>1. Holder = Nobody /\ Holder' = Nobody
    BY <1>3, <1>6 DEF Holder
  <2>2. written \subseteq AllIds
    BY DEF AllIds, IInv, TypeOK
  <2>3. knows[t] \union written \subseteq AllIds
    BY <2>2, Known
  <2>4. RW!Learns(t, written)
    BY <1>9, <2>3 DEF RW!Learns, AllIds
  <2> QED BY <1>6, <1>7, <2>1, <2>4 DEF RW!LockShared
<1> QED BY <1>9, <1>10, <1>11 DEF IInv, RW!Next
-----------------------------------------------------------------------------
\* The steps that end a section: its number is added to what is over, what the
\* thread knows and what the counter releases.
LEMMA LeaveStep ==
    ASSUME IInv, NEW t \in Threads, NEW new \in Int, new >= -1,
           NEW writes \in BOOLEAN, NEW r, r = AllIds \union {Id},
           Leave(writes), Write(t, new, r), knows' = [knows EXCEPT ![t] = @ \union {Id}],
           pc' \in [Threads -> Places], val' = val, bugs' = bugs,
           \A u \in Threads : pc'[u] = "swap" => pc[u] = "swap",
           Writers' = {}
    PROVE  /\ TypeOK' /\ Counts' /\ Released' /\ OnlyOneAssertFails'
           /\ _refcount' = new
<1>1. AllIds \in SUBSET Nat
  BY IdsTyped DEF IInv
<1>2. over \in Nat /\ written \in SUBSET (1..over)
  BY DEF IInv, TypeOK
<1>3. Id \in Nat
  BY <1>2 DEF Id
<1>4. AllIds' = AllIds \union {Id}
  BY <1>2 DEF AllIds, Leave, Id
<1>5. over' \in Nat /\ written' \in SUBSET (1..over')
  BY <1>2 DEF Leave, Id
<1>6. r \in SUBSET Nat
  BY <1>1, <1>3
<1>7. /\ hist' \in Seq([val : Int, released : SUBSET Nat])
      /\ Len(hist') >= 1
      /\ floor' \in [Threads -> Nat \ {0}]
      /\ _refcount' = new
      /\ hist'[Newest'].released = r
      /\ \A i \in 1..Len(hist') : hist'[i].val >= -1
      /\ \A i \in 1..Len(hist') : hist'[i].released \subseteq AllIds \/ hist'[i].released = r
  BY <1>6, WriteStep
<1>8. \A i \in 1..Len(hist') : hist'[i].released \subseteq AllIds'
  BY <1>4, <1>7
<1>9. knows \in [Threads -> SUBSET Nat] /\ val \in [Threads -> Int]
  BY DEF IInv, TypeOK
<1>10. knows' \in [Threads -> SUBSET Nat]
  <2>1. knows[t] \union {Id} \in SUBSET Nat
    BY <1>3, <1>9
  <2> QED BY <1>9, <2>1
<1>11. \A u \in Threads : knows'[u] \subseteq AllIds'
  <2>1. \A u \in Threads : knows'[u] \subseteq knows[u] \union {Id}
    BY <1>9
  <2>2. \A u \in Threads : knows[u] \subseteq AllIds
    BY Known
  <2> QED BY <1>4, <2>1, <2>2
<1>12. TypeOK'
  BY <1>5, <1>7, <1>9, <1>10 DEF TypeOK
<1>13. Counts'
  BY <1>7 DEF IInv, Counts
<1>14. Released'
  BY <1>4, <1>7, <1>8, <1>11 DEF Released
<1>15. OnlyOneAssertFails'
  BY DEF IInv, OnlyOneAssertFails
<1> QED BY <1>7, <1>12, <1>13, <1>14, <1>15

LEMMA UnlockStep ==
    ASSUME IInv, NEW t \in Threads, Unlock(t)
    PROVE  IInv' /\ RW!Next
<1>1. pc' = [pc EXCEPT ![t] = "unlocked"] /\ pc[t] = "writing"
  BY DEF Unlock, At
<1>2. Writers = {t} /\ Readers = {}
  BY <1>1 DEF IInv, Exclusion, Writers
<1>3. pc \in [Threads -> Places]
  BY DEF IInv, TypeOK
<1>4. pc' \in [Threads -> Places] /\ \A u \in Threads : pc'[u] = "swap" => pc[u] = "swap"
  BY <1>1, <1>3 DEF Places
<1>5. Writers' = {} /\ Readers' = {}
  BY <1>1, <1>2, <1>3 DEF Writers, Readers
<1>6. knows[t] = AllIds
  BY <1>2, Known
<1>7. /\ Leave(TRUE) /\ Write(t, 0, AllIds \union {Id})
      /\ knows' = [knows EXCEPT ![t] = @ \union {Id}]
      /\ val' = val /\ bugs' = bugs
  BY <1>6 DEF Unlock, LOCK_FREE
<1>8. /\ TypeOK' /\ Counts' /\ Released' /\ OnlyOneAssertFails'
      /\ _refcount' = 0
  <2>1. ASSUME NEW r, r = AllIds \union {Id}
        PROVE  /\ TypeOK' /\ Counts' /\ Released' /\ OnlyOneAssertFails'
               /\ _refcount' = 0
    <3>1. 0 \in Int /\ 0 >= -1 /\ Write(t, 0, r)
      BY <1>7, <2>1
    <3> QED BY <1>4, <1>5, <1>7, <2>1, <3>1, LeaveStep
  <2> QED BY <2>1
<1>9. Exclusion' /\ CounterExact'
  BY <1>5, <1>8, FS_EmptySet DEF Exclusion, CounterExact
<1>10. RW!Unlock(t)
  <2>1. Holder = t /\ Holder' = Nobody
    BY <1>2, <1>5 DEF Holder
  <2>2. RW!End(t) /\ written' = written \union {over + 1}
    BY <1>7 DEF RW!End, Leave, Id
  <2> QED BY <1>2, <1>5, <2>1, <2>2 DEF RW!Unlock
<1> QED BY <1>8, <1>9, <1>10 DEF IInv, RW!Next

LEMMA UnlockSharedStep ==
    ASSUME IInv, NEW t \in Threads, UnlockShared(t)
    PROVE  IInv' /\ RW!Next
<1>1. pc' = [pc EXCEPT ![t] = "shared out"] /\ pc[t] = "reading" /\ t \in Readers
  BY DEF UnlockShared, At, Readers
<1>2. Writers = {}
  BY <1>1 DEF IInv, Exclusion
<1>3. pc \in [Threads -> Places]
  BY DEF IInv, TypeOK
<1>4. pc' \in [Threads -> Places] /\ \A u \in Threads : pc'[u] = "swap" => pc[u] = "swap"
  BY <1>1, <1>3 DEF Places
<1>5. Writers' = {} /\ Readers' = Readers \ {t}
  BY <1>1, <1>2, <1>3 DEF Writers, Readers
<1>6. _refcount \in Int /\ _refcount > 0 /\ _refcount = Cardinality(Readers)
  BY <1>1, CounterSays
<1>7. hist[Newest].released \union knows[t] \union {Id} = AllIds \union {Id}
  BY EnterKnows
<1>8. /\ Leave(FALSE) /\ Write(t, _refcount - 1, AllIds \union {Id})
      /\ knows' = [knows EXCEPT ![t] = @ \union {Id}]
      /\ val' = val /\ bugs' = bugs
  BY <1>7 DEF UnlockShared
<1>9. /\ TypeOK' /\ Counts' /\ Released' /\ OnlyOneAssertFails'
      /\ _refcount' = _refcount - 1
  <2>1. ASSUME NEW r, r = AllIds \union {Id}, NEW new \in Int, new = _refcount - 1
        PROVE  /\ TypeOK' /\ Counts' /\ Released' /\ OnlyOneAssertFails'
               /\ _refcount' = new
    <3>1. new >= -1 /\ Write(t, new, r)
      BY <1>6, <1>8, <2>1
    <3>2. FALSE \in BOOLEAN
      OBVIOUS
    <3> QED BY <1>4, <1>5, <1>8, <2>1, <3>1, <3>2, LeaveStep
  <2>2. _refcount - 1 \in Int
    BY <1>6
  <2> QED BY <2>1, <2>2
<1>10. Exclusion' /\ CounterExact'
  <2>1. Cardinality(Readers \ {t}) = Cardinality(Readers) - 1
    BY <1>1, Members, ReaderSets DEF IInv
  <2> QED BY <1>5, <1>6, <1>9, <2>1 DEF Exclusion, CounterExact
<1>11. RW!UnlockShared(t)
  <2>1. Holder' = Holder
    BY <1>2, <1>5 DEF Holder
  <2>2. RW!End(t) /\ written' = written
    BY <1>8 DEF RW!End, Leave, Id
  <2> QED BY <1>1, <1>5, <2>1, <2>2 DEF RW!UnlockShared
<1> QED BY <1>9, <1>10, <1>11 DEF IInv, RW!Next
-----------------------------------------------------------------------------
\* Each step of the code keeps the invariant and is a step of the abstract lock.
LEMMA NextStep ==
    ASSUME IInv, Next
    PROVE  IInv' /\ RW!Next
<1>1. PICK t \in Threads : \/ Begin(t)
                         \/ Straight(t)
                         \/ \E i \in 1..Newest : Reads(t, i)
  BY DEF Next
<1>2. CASE Begin(t)
  BY <1>2, BeginStep
<1>3. CASE Straight(t)
  BY <1>3, LockSwapStep, UnlockStep, SharedSwapStep, UnlockSharedStep, CheckSteps DEF Straight
<1>4. CASE \E i \in 1..Newest : Reads(t, i)
  BY <1>4, LockFailStep, SharedLoadStep, SharedFailStep DEF Reads
<1> QED BY <1>1, <1>2, <1>3, <1>4

LEMMA Stutter ==
    ASSUME IInv, UNCHANGED vars
    PROVE  IInv' /\ UNCHANGED RW!vars
<1>1. Writers' = Writers /\ Readers' = Readers /\ _refcount' = _refcount /\ Newest' = Newest /\ AllIds' = AllIds
  BY DEF vars, Writers, Readers, _refcount, Newest, AllIds
<1>2. TypeOK' /\ Counts' /\ OnlyOneAssertFails'
  BY DEF IInv, vars, TypeOK, Counts, OnlyOneAssertFails
<1>3. Exclusion' /\ CounterExact' /\ Released'
  BY <1>1 DEF IInv, vars, Exclusion, CounterExact, Released
<1>4. Holder' = Holder
  BY <1>1 DEF Holder
<1> QED BY <1>1, <1>2, <1>3, <1>4 DEF IInv, RW!vars, vars

LEMMA Invariance == Spec => []IInv
<1>1. IInv /\ [Next]_vars => IInv'
  BY NextStep, Stutter
<1> QED BY InitIInv, <1>1, PTL DEF Spec

(* Every variable has its type.                                             *)
THEOREM TypeCorrect == Spec => []TypeOK
<1>1. IInv => TypeOK
  BY DEF IInv
<1> QED BY Invariance, <1>1, PTL

(* The counter is the number of readers, or -1 for a writer, at every step. *)
THEOREM CounterCorrect == Spec => []CounterExact
<1>1. IInv => CounterExact
  BY DEF IInv
<1> QED BY Invariance, <1>1, PTL

(* Of the assertions in shared_mutex, only line 81 can fail.                *)
THEOREM AssertionsCorrect == Spec => []OnlyOneAssertFails
<1>1. IInv => OnlyOneAssertFails
  BY DEF IInv
<1> QED BY Invariance, <1>1, PTL

(* The code implements the abstract lock: a writer excludes everyone, and   *)
(* whoever enters has synchronized with the sections it must not overlap.   *)
THEOREM RefinementCorrect == Spec => ImplementsRWLock
<1>1. Init => RW!Init
  <2>1. ASSUME Init PROVE Writers = {} /\ Readers = {}
    BY <2>1 DEF Init, Writers, Readers
  <2> QED BY <2>1 DEF Init, RW!Init, Holder
<1>2. IInv /\ [Next]_vars => [RW!Next]_(RW!vars)
  BY NextStep, Stutter
<1> QED BY Invariance, <1>1, <1>2, PTL DEF Spec, ImplementsRWLock, RW!Spec
=============================================================================
