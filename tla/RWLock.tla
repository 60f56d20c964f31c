------------------------------- MODULE RWLock -------------------------------
(***************************************************************************)
(* What std::shared_mutex promises (include/shared_mutex): any number of   *)
(* readers or a single writer hold the lock, and whoever comes in has      *)
(* seen everything that those it excludes did inside.                      *)
(***************************************************************************)
EXTENDS Integers

CONSTANTS Threads, Nobody

VARIABLES
    writer,    \* the thread that holds the lock alone, or Nobody
    readers,   \* the threads that share it
    over,      \* how many sections are over
    written,   \* which of them were a writer's
    knows      \* the sections that happened before each thread's next step

vars == <<writer, readers, over, written, knows>>

Init ==
    /\ writer = Nobody
    /\ readers = {}
    /\ over = 0
    /\ written = {}
    /\ knows = [t \in Threads |-> {}]

(* A thread's knowledge may grow at any step: reading the counter is        *)
(* enough to synchronize.                                                   *)
Learns(t, atleast) ==
    \E S \in SUBSET (1..over) :
        /\ knows[t] \union atleast \subseteq S
        /\ knows' = [knows EXCEPT ![t] = S]

Lock(t) ==
    /\ writer = Nobody /\ readers = {}
    /\ writer' = t
    /\ Learns(t, 1..over)
    /\ UNCHANGED <<readers, over, written>>

LockShared(t) ==
    /\ writer = Nobody /\ t \notin readers
    /\ readers' = readers \union {t}
    /\ Learns(t, written)
    /\ UNCHANGED <<writer, over, written>>

End(t) ==
    /\ over' = over + 1
    /\ knows' = [knows EXCEPT ![t] = @ \union {over + 1}]

Unlock(t) ==
    /\ writer = t
    /\ writer' = Nobody
    /\ End(t)
    /\ written' = written \union {over + 1}
    /\ UNCHANGED readers

UnlockShared(t) ==
    /\ t \in readers
    /\ readers' = readers \ {t}
    /\ End(t)
    /\ UNCHANGED <<writer, written>>

Learn(t) == Learns(t, {}) /\ UNCHANGED <<writer, readers, over, written>>

Next == \E t \in Threads :
    \/ Lock(t)
    \/ LockShared(t)
    \/ Unlock(t)
    \/ UnlockShared(t)
    \/ Learn(t)

Spec == Init /\ [][Next]_vars
=============================================================================
