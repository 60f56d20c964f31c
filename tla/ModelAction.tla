----------------------------- MODULE ModelAction -----------------------------
(***************************************************************************)
(* The operations of an execution (ModelAction), as far as the memory      *)
(* model looks at them.  An action is identified by its position in the    *)
(* trace.                                                                  *)
(***************************************************************************)
EXTENDS Integers, FiniteSets, Sequences, SequencesExt

NONE   == 0
Kinds  == {"UNINIT", "R", "W", "RMWR", "RMW", "F"}
Orders == {"rlx", "acq", "rel", "acq_rel", "sc"}

\* rf is the position of the store a load reads from.
Action(t, k, o, l, w) == [tid |-> t, kind |-> k, ord |-> o, loc |-> l, rf |-> w]

\* RMWR is a read-modify-write whose write part is still to come.
is_read(a)    == a.kind \in {"R", "RMWR", "RMW"}
is_write(a)   == a.kind \in {"UNINIT", "W", "RMW"}
is_rmw(a)     == a.kind = "RMW"
is_fence(a)   == a.kind = "F"

\* As in the code, these look at the memory order alone.
is_acquire(a) == a.ord \in {"acq", "acq_rel", "sc"}
is_release(a) == a.ord \in {"rel", "acq_rel", "sc"}
is_seqcst(a)  == a.ord = "sc"

\* What an action tells about its location: the value it wrote, or read.
StoreOf(tr, i) == IF is_write(tr[i]) THEN i ELSE tr[i].rf

Writes(tr, l) == {i \in DOMAIN tr : tr[i].loc = l /\ is_write(tr[i])}
=============================================================================
