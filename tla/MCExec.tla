-------------------------------- MODULE MCExec --------------------------------
(* Exec with the families of programs of its run. *)
EXTENDS Exec

Op(k, o) == [kind |-> k, ord |-> o]
Family(t, l, a, ops) == [threads |-> t, locs |-> l, acts |-> a, ops |-> ops]

Relaxed == {Op("R", "rlx"), Op("W", "rlx"), Op("RMWR", "rlx")}
Release == {Op("R", "acq"), Op("W", "rel"), Op("W", "rlx")}
Chain   == {Op("R", "acq"), Op("W", "rel"), Op("RMWR", "rlx")}
Message == {Op("R", "acq"), Op("R", "rlx"), Op("W", "rel")}
Fences  == {Op("R", "rlx"), Op("W", "rlx"), Op("F", "acq_rel")}
SeqCstOps == {Op("R", "sc"), Op("W", "sc"), Op("RMWR", "sc"), Op("R", "rlx"), Op("F", "sc")}
SCFences  == {Op("R", "rlx"), Op("W", "rlx"), Op("F", "sc")}
Rechecked == {Op("R", "sc"), Op("W", "sc"), Op("W", "rlx"), Op("F", "sc")}

ExecFamilies ==
    {Family(3, 1, 4, Release), Family(3, 1, 3, Chain), Family(2, 1, 4, Chain),
     Family(2, 2, 4, Message), Family(2, 1, 5, Fences), Family(2, 1, 4, Relaxed),
     Family(2, 1, 4, SeqCstOps), Family(2, 1, 5, SCFences), Family(2, 1, 5, Rechecked)}
=============================================================================
