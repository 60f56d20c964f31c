------------------------------ MODULE MCSCFence ------------------------------
(* SCFence with the programs of its run as definitions.  W, R, RMW and F make *)
(* operations of thread t on location l with the wildcard w.                  *)
EXTENDS SCFence

Op(kind, t, l, w) == Operation(t, kind, l, w, "wildcard")
W(t, l, w) == Op("W", t, l, w)
R(t, l, w) == Op("R", t, l, w)
F(t, w) == Op("F", t, NONE, w)
Plain(t) == Operation(t, "W", 1, NONE, NORMAL)

Program(body) ==
    [ops |-> <<InitialStore(1), InitialStore(2)>> \o body, file |-> <<>>, fails |-> {}, weaken |-> TRUE]

StoreBuffering == Program(<<W(1, 1, 1), R(1, 2, 2), W(2, 2, 3), R(2, 1, 4)>>)
MessagePassing == Program(<<W(1, 1, 1), W(1, 2, 2), R(2, 2, 3), R(2, 1, 4)>>)
LoadBuffering == Program(<<R(1, 1, 1), W(1, 2, 2), R(2, 2, 3), W(2, 1, 4)>>)
Overwritten == Program(<<W(1, 1, 1), W(1, 2, 2), W(2, 2, 3), R(2, 1, 4)>>)
PlainData == Program(<<Plain(1), W(1, 2, 1), R(2, 2, 2), Plain(2)>>)
AcqRelFences == Program(<<W(1, 1, 1), F(1, 2), W(1, 2, 1), R(2, 2, 1), F(2, 3), R(2, 1, 1)>>)
StoreBufferingFences == Program(<<W(1, 1, 1), F(1, 2), R(1, 2, 1), W(2, 2, 1), F(2, 3), R(2, 1, 1)>>)

\* Three threads: a write is passed on, and reads that justify one another.
PassedOn == Program(<<W(1, 1, 1), R(2, 1, 2), W(2, 2, 3), R(3, 2, 4), R(3, 1, 5)>>)
Circular ==
    [Program(<<R(1, 1, 1), W(1, 2, 2), R(2, 2, 3), W(2, 3, 4), R(3, 3, 5), W(3, 1, 6)>>) EXCEPT
        !.ops = <<InitialStore(1), InitialStore(2), InitialStore(3)>> \o SubSeq(@, 3, 8)]

\* Loads that acquire already: there is nothing to change in them.
Fixed(i) == Operation(i, "R", i, NONE, "acq")
AcquiringLoads == Program(<<Fixed(1), W(1, 2, 1), Fixed(2), W(2, 1, 2)>>)

\* The wildcards go beyond the initial size of an inference.
Resizing == Program(<<W(1, 1, 1), R(1, 2, 2), W(2, 2, 5), R(2, 1, 6)>>)

\* Candidates from a file: the first is weaker than the second, or the order
\* of the one wildcard of a store and a load is to become acq_rel from release.
Given(p, file) == [p EXCEPT !.file = file]
Handover == Program(<<W(1, 1, 2), W(1, 2, 1), R(2, 2, 1), R(2, 1, 2)>>)
Candidates ==
    {[Given(p, <<[w \in 1..4 |-> "rlx"], <<"rlx", "rel", "acq", "rlx">>>>) EXCEPT !.weaken = b] :
        p \in {StoreBuffering, MessagePassing}, b \in BOOLEAN}
    \cup {Given(Handover, <<<<"rel", "rlx">>>>)}

\* The assertion fails when the last load reads the initial value of x.
Asserting == {[p EXCEPT !.fails = {6 :> 1}] : p \in {MessagePassing, StoreBuffering}}

\* Two threads cross two locations, with two wildcards between them.
Crossing ==
    {Program(<<Op(k[1], 1, 1, 1), Op(k[2], 1, 2, w), Op(k[3], 2, 2, 3 - w), Op(k[4], 2, 1, 2)>>) :
        w \in 1..2, k \in [1..4 -> {"R", "W", "RMW"}]}

All == {StoreBuffering, MessagePassing, LoadBuffering, Overwritten, PlainData, AcqRelFences,
        StoreBufferingFences, PassedOn, Circular, AcquiringLoads, Resizing} \cup Candidates \cup Asserting \cup Crossing
=============================================================================
