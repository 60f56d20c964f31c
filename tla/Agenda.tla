------------------------------- MODULE Agenda -------------------------------
(***************************************************************************)
(* What a Node promises of the choices at one step of an execution: while  *)
(* executions pass through it more choices may turn up, each is made once, *)
(* and the node is left for good when all have been made.                  *)
(***************************************************************************)
EXTENDS FiniteSets

VARIABLES
    agenda,     \* the choices there are
    ran,        \* those that have been made
    closed

Init == IsFiniteSet(agenda) /\ ran = {} /\ closed = FALSE

Learn == /\ ~closed /\ agenda \subseteq agenda'
         /\ UNCHANGED <<ran, closed>>

Run == /\ ~closed
       /\ \E b \in agenda \ ran : ran' = ran \cup {b}
       /\ UNCHANGED <<agenda, closed>>

Close == /\ ~closed /\ agenda \subseteq ran
         /\ closed' = TRUE
         /\ UNCHANGED <<agenda, ran>>

Next == Learn \/ Run \/ Close

Spec == Init /\ [][Next]_<<agenda, ran, closed>>

\* No more than finitely many turn up.
Ends == <>closed
=============================================================================
