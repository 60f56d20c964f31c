-------------------------------- MODULE Search --------------------------------
(***************************************************************************)
(* What the exploration of a program promises: every run adds an outcome   *)
(* of the program that was not seen before, nothing else is ever reported, *)
(* and the search ends when, and only when, all outcomes were seen.        *)
(***************************************************************************)
EXTENDS Naturals

VARIABLES
    goal,   \* the outcomes the program has
    seen,   \* the outcomes of the runs so far
    runs,   \* number of runs so far
    done    \* the search has ended

vars == <<goal, seen, runs, done>>

Init ==
    /\ seen = {}
    /\ runs = 0
    /\ done = FALSE

\* One run; the search may end with it.
Run ==
    /\ ~done
    /\ \E o \in goal \ seen : seen' = seen \cup {o}
    /\ runs' = runs + 1
    /\ done' \in (IF seen' = goal THEN BOOLEAN ELSE {FALSE})
    /\ UNCHANGED goal

\* The search finds that nothing is left.
Stop ==
    /\ ~done
    /\ seen = goal
    /\ done' = TRUE
    /\ UNCHANGED <<goal, seen, runs>>

Next == Run \/ Stop

Spec == Init /\ [][Next]_vars

\* The goal is finite and every run adds to what was seen.
Ends == <>done
=============================================================================
