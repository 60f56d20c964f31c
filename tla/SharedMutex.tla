----------------------------- MODULE SharedMutex -----------------------------
(***************************************************************************)
(* std::shared_mutex of include/shared_mutex, run under the memory model   *)
(* of the tool: one atomic counter, a relaxed load that may return an old  *)
(* value, and read-modify-writes that succeed on the newest value only.    *)
(*                                                                         *)
(* All the stores of the counter form one modification order, the sequence *)
(* hist.  A store carries what a thread that acquires it learns.  The only *)
(* plain store, the one of unlock, comes while no other thread may change  *)
(* the counter, so that the modification order is the order of execution.  *)
(***************************************************************************)
EXTENDS Integers, Sequences, FiniteSets

CONSTANTS
    Threads,
    MaxSections,   \* bound on the sections the user program enters
    Nobody

ASSUME SharedMutexAssumption ==
    /\ IsFiniteSet(Threads)
    /\ MaxSections \in Nat
    /\ Nobody \notin Threads

VARIABLES
    hist,      \* the stores of _refcount: their value and what they release
    floor,     \* the newest store each thread has read or ordered behind
    pc,        \* where each thread is in lock, unlock, lock_shared, unlock_shared
    val,       \* the local variable val of lock_shared
    knows,     \* the sections that happened before each thread's next step
    over,      \* how many sections are over: they are numbered as they end
    written,   \* which of them were a writer's
    begun,     \* how many sections were begun
    bugs,      \* the lines whose MODEL_ASSERT failed
    halted     \* the execution was aborted for a bug

vars == <<hist, floor, pc, val, knows, over, written, begun, bugs, halted>>

LOCK_WRITER == -1
LOCK_FREE == 0

-----------------------------------------------------------------------------
(* The memory.                                                              *)

Newest == Len(hist)
_refcount == hist[Newest].val

(* A load: any store not older than what the thread knows of.  It learns    *)
(* what the store released if it acquires.                                  *)
Load(t, i, acquire) ==
    /\ i \in floor[t]..Newest
    /\ floor' = [floor EXCEPT ![t] = i]
    /\ knows' = IF acquire THEN [knows EXCEPT ![t] = @ \union hist[i].released] ELSE knows
    /\ UNCHANGED hist

(* What a store releases: a read-modify-write goes on with the release      *)
(* sequence it reads from.                                                  *)
Write(t, new, released) ==
    /\ hist' = Append(hist, [val |-> new, released |-> released])
    /\ floor' = [floor EXCEPT ![t] = Newest + 1]

RMW(t, new, acquire, release) ==
    LET sees == hist[Newest].released
        mine == IF acquire THEN knows[t] \union sees ELSE knows[t]
    IN  /\ Write(t, new, sees \union (IF release THEN mine ELSE {}))
        /\ knows' = [knows EXCEPT ![t] = mine]

(* MODEL_ASSERT(_refcount ...): the comparisons of atomic_int are           *)
(* fetch_add(0), a seq_cst read-modify-write.                               *)
Compare(t) == RMW(t, _refcount, TRUE, TRUE)

(* model_assert: the bug is recorded; the execution is aborted if nothing   *)
(* else of it is undecided, and goes on otherwise.                          *)
model_assert(cond, line) ==
    IF cond THEN UNCHANGED <<bugs, halted>>
    ELSE /\ bugs' = bugs \union {line}
         /\ halted' \in BOOLEAN

At(t, here, there) == ~halted /\ pc[t] = here /\ pc' = [pc EXCEPT ![t] = there]

-----------------------------------------------------------------------------
(* The user program begins a section of one kind or the other.              *)
Begin(t) ==
    /\ begun < MaxSections
    /\ begun' = begun + 1
    /\ \E there \in {"lock", "shared"} : At(t, "idle", there)
    /\ UNCHANGED <<hist, floor, val, knows, over, written, bugs, halted>>

(* lock(): compare_exchange_weak(0, LOCK_WRITER, acquire) until it works.   *)
LockSwap(t) ==
    /\ At(t, "lock", "locked")
    /\ _refcount = LOCK_FREE
    /\ RMW(t, LOCK_WRITER, TRUE, FALSE)
    /\ UNCHANGED <<val, over, written, begun, bugs, halted>>

(* A failed swap is a load, of an old store too; it never fails spuriously. *)
LockFail(t, i) ==
    /\ At(t, "lock", "lock")
    /\ Load(t, i, TRUE)
    /\ hist[i].val # LOCK_FREE
    /\ UNCHANGED <<val, over, written, begun, bugs, halted>>

LockCheck(t) ==
    /\ At(t, "locked", "writing")
    /\ Compare(t)
    /\ model_assert(_refcount = LOCK_WRITER, 60)
    /\ UNCHANGED <<val, over, written, begun>>

(* A section ends with the first step of unlock or unlock_shared.           *)
Id == over + 1
Leave(writes) ==
    /\ over' = Id
    /\ written' = IF writes THEN written \union {Id} ELSE written

Unlock(t) ==
    /\ At(t, "writing", "unlocked")
    /\ Leave(TRUE)
    /\ Write(t, LOCK_FREE, knows[t] \union {Id})
    /\ knows' = [knows EXCEPT ![t] = @ \union {Id}]
    /\ UNCHANGED <<val, begun, bugs, halted>>

UnlockCheck(t) ==
    /\ At(t, "unlocked", "idle")
    /\ Compare(t)
    /\ model_assert(_refcount >= LOCK_WRITER, 67)
    /\ UNCHANGED <<val, over, written, begun>>

(* Mutant: the load does not wait for a writer.                             *)
SharedLoad_NoWait(t, i) ==
    /\ Load(t, i, FALSE)
    /\ At(t, "shared", "swap")
    /\ val' = [val EXCEPT ![t] = hist[i].val]
    /\ model_assert(hist[i].val = 0, 81)
    /\ UNCHANGED <<over, written, begun>>

(* lock_shared(): a relaxed load until no writer is seen, the assertion,    *)
(* and compare_exchange_weak(val, val+1, acquire); back to the load if the  *)
(* swap fails.                                                              *)
SharedLoad(t, i) ==
    /\ Load(t, i, FALSE)
    /\ IF hist[i].val = LOCK_WRITER
       THEN At(t, "shared", "shared") /\ UNCHANGED <<val, bugs, halted>>
       ELSE /\ At(t, "shared", "swap")
            /\ val' = [val EXCEPT ![t] = hist[i].val]
            /\ model_assert(hist[i].val = 0, 81)
    /\ UNCHANGED <<over, written, begun>>

(* Mutant: a failed swap is tried again with the value it read.             *)
SharedFail_Again(t, i) ==
    /\ At(t, "swap", "swap")
    /\ Load(t, i, TRUE)
    /\ hist[i].val # val[t]
    /\ val' = [val EXCEPT ![t] = hist[i].val]
    /\ UNCHANGED <<over, written, begun, bugs, halted>>

SharedSwap(t) ==
    /\ At(t, "swap", "shared in")
    /\ _refcount = val[t]
    /\ RMW(t, val[t] + 1, TRUE, FALSE)
    /\ model_assert(val[t] >= 0, 84)
    /\ UNCHANGED <<val, over, written, begun>>

SharedFail(t, i) ==
    /\ At(t, "swap", "shared")
    /\ Load(t, i, TRUE)
    /\ hist[i].val # val[t]
    /\ UNCHANGED <<val, over, written, begun, bugs, halted>>

(* Mutant: unlock_shared does not release.                                  *)
UnlockShared_Relaxed(t) ==
    /\ At(t, "reading", "shared out")
    /\ Leave(FALSE)
    /\ Write(t, _refcount - 1, hist[Newest].released)
    /\ knows' = [knows EXCEPT ![t] = @ \union {Id}]
    /\ UNCHANGED <<val, begun, bugs, halted>>

(* Mutant: the last reader leaves the counter at one.                       *)
UnlockShared_Keeps(t) ==
    /\ At(t, "reading", "shared out")
    /\ Leave(FALSE)
    /\ LET sees == hist[Newest].released
       IN  Write(t, IF _refcount > 1 THEN _refcount - 1 ELSE _refcount, sees \union knows[t] \union {Id})
    /\ knows' = [knows EXCEPT ![t] = @ \union {Id}]
    /\ UNCHANGED <<val, begun, bugs, halted>>

SharedCheck(t) ==
    /\ At(t, "shared in", "reading")
    /\ Compare(t)
    /\ model_assert(_refcount > 0, 85)
    /\ UNCHANGED <<val, over, written, begun>>

UnlockShared(t) ==
    /\ At(t, "reading", "shared out")
    /\ Leave(FALSE)
    /\ LET sees == hist[Newest].released
       IN  Write(t, _refcount - 1, sees \union knows[t] \union {Id})
    /\ knows' = [knows EXCEPT ![t] = @ \union {Id}]
    /\ UNCHANGED <<val, begun, bugs, halted>>

SharedUnlockCheck(t) ==
    /\ At(t, "shared out", "idle")
    /\ Compare(t)
    /\ model_assert(_refcount >= LOCK_WRITER, 92)
    /\ UNCHANGED <<val, over, written, begun>>

-----------------------------------------------------------------------------
Init ==
    /\ hist = <<[val |-> LOCK_FREE, released |-> {}]>>
    /\ floor = [t \in Threads |-> 1]
    /\ pc = [t \in Threads |-> "idle"]
    /\ val = [t \in Threads |-> 0]
    /\ knows = [t \in Threads |-> {}]
    /\ over = 0
    /\ written = {}
    /\ begun = 0
    /\ bugs = {}
    /\ halted = FALSE

(* The steps of a thread inside the lock's functions that do not wait.      *)
Straight(t) ==
    \/ LockSwap(t)
    \/ LockCheck(t)
    \/ Unlock(t)
    \/ UnlockCheck(t)
    \/ SharedSwap(t)
    \/ SharedCheck(t)
    \/ UnlockShared(t)
    \/ SharedUnlockCheck(t)

Reads(t, i) ==
    \/ LockFail(t, i)
    \/ SharedLoad(t, i)
    \/ SharedFail(t, i)

Next == \E t \in Threads :
    \/ Begin(t)
    \/ Straight(t)
    \/ \E i \in 1..Newest : Reads(t, i)

(* Every thread that is enabled runs (the fairness of the scheduler, and a  *)
(* section ends); a thread that reads again and again gets to see the       *)
(* newest store (the bound on old reads, params.maxreads, or 29.3p13).      *)
Fairness == \A t \in Threads :
    /\ WF_vars(Straight(t))
    /\ SF_vars(Reads(t, Newest))

Spec == Init /\ [][Next]_vars /\ Fairness

-----------------------------------------------------------------------------
Lines == {60, 67, 81, 84, 85, 92}

Places == {"idle", "lock", "locked", "writing", "unlocked", "shared",
           "swap", "shared in", "reading", "shared out"}

(* Every variable has its type, for every number of threads and sections.   *)
TypeOK ==
    /\ hist \in Seq([val : Int, released : SUBSET Nat])
    /\ Len(hist) >= 1
    /\ floor \in [Threads -> Nat \ {0}]
    /\ pc \in [Threads -> Places]
    /\ val \in [Threads -> Int]
    /\ knows \in [Threads -> SUBSET Nat]
    /\ over \in Nat
    /\ written \in SUBSET (1..over)

Writers == {t \in Threads : pc[t] \in {"locked", "writing"}}
Readers == {t \in Threads : pc[t] \in {"shared in", "reading"}}

(* The counter is what its comment says: the number of readers, or -1 if a  *)
(* writer is inside.                                                        *)
CounterExact ==
    _refcount = IF Writers # {} THEN LOCK_WRITER ELSE Cardinality(Readers)

(* lock, unlock, lock_shared and unlock_shared implement a reader-writer    *)
(* lock, and whoever enters has synchronized with the sections before its   *)
(* own that it must not overlap.                                            *)
Holder == IF Writers = {} THEN Nobody ELSE CHOOSE t \in Writers : TRUE

RW == INSTANCE RWLock WITH
    writer <- Holder,
    readers <- Readers

ImplementsRWLock == RW!Spec

(* The only assertion that a program which uses the lock properly can fail  *)
(* is the one of line 81.                                                   *)
OnlyOneAssertFails == bugs \subseteq {81}

(* Whoever asks for the lock gets in and out again, however often it reads  *)
(* an old counter or loses a swap, when only finitely many others ask.      *)
EveryoneGetsThrough == []<>(halted \/ \A t \in Threads : pc[t] = "idle")
=============================================================================
