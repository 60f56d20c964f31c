------------------------------ MODULE MCSCOrder ------------------------------
(* SCOrder with the families of executions of its run as definitions. *)
EXTENDS SCOrder

Op(k, o) == [kind |-> k, ord |-> o]
Family(t, l, n, ops) == [threads |-> t, locs |-> l, bodies |-> Bodies(t, l, n, ops)]

Relaxed == {Op("R", "rlx"), Op("W", "rlx")}

W(t, l)    == Action(t, "W", "rlx", l, NONE)
R(t, l, w) == Action(t, "R", "rlx", l, w)

\* Store buffering, with every choice of orders and one interleaving.
StoreBuffering == [threads |-> 2, locs |-> 2, bodies |->
    {<<Action(3, "W", o[1], 1, NONE), Action(3, "R", o[2], 2, NONE),
       Action(2, "W", o[3], 2, NONE), Action(2, "R", o[4], 1, NONE)>> : o \in [1..4 -> {"rlx", "sc"}]}]

\* Locations x, y, z = 1, 2, 3.  Putting thread 2's store to x before thread
\* 4's ends in a cycle, but only after the choice is made.
Detour == [threads |-> 5, locs |-> 3, bodies |-> {
    << W(6,3), R(6,2,8), W(4,1), W(2,1), W(5,2), R(5,3,9), R(4,2,5), W(3,2), W(3,3), R(4,3,1), R(3,1,4) >>}]

\* Both orders of the stores to x end so.
DeadEnd == [threads |-> 8, locs |-> 5, bodies |-> {
    << W(6,3), R(6,2,12), W(9,5), R(9,4,17), W(4,1), W(2,1), W(5,2), R(5,3,13), W(8,4), R(8,5,18), R(4,2,7),
       W(3,2), W(3,3), R(4,3,1), R(3,1,6), R(2,4,9), W(7,4), W(7,5), R(2,5,3), R(7,1,5) >>}]

\* Read-modify-writes of three threads.
Updates == Family(3, 1, 3, {Op("W", "rlx"), Op("RMW", "rlx")})
Small == {Family(2, 1, 4, Relaxed), Updates, StoreBuffering, Detour, DeadEnd}
Both == {"SCAnalysis", "SCGenerator"}
=============================================================================
