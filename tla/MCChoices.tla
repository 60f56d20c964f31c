------------------------------ MODULE MCChoices ------------------------------
(* Choices with the actions of its run. *)
EXTENDS Choices

Plain(kind) == [kind |-> kind, past |-> 0, inherited |-> 0, old |-> {}, misc |-> 0, breaks |-> 0,
                resolvable |-> [rf \in {NoRead} |-> {}]]

Waits    == {[Plain("wait") EXCEPT !.misc = 2]}
Notifies == {[Plain("notify_one") EXCEPT !.misc = n] : n \in 0..3}
Fixups   == {[Plain("fixup") EXCEPT !.breaks = n] : n \in 0..3}
Writes   == {[Plain("write") EXCEPT !.resolvable = [rf \in {NoRead} |-> s]] : s \in SUBSET (0..2)}

Readable(p, i) == {Past(k) : k \in 0..p - 1} \cup {Promised(k) : k \in 0..i - 1}
Read(p, i) == {[Plain("read") EXCEPT !.past = p, !.inherited = i, !.old = old] :
                   old \in {o \in SUBSET Readable(p, i) : p + i <= 1 => o = {}}}
RMW(p, i)  == {[Plain("rmw") EXCEPT !.past = p, !.inherited = i, !.resolvable = f] :
                   f \in [Readable(p, i) \cup {<<"future", 1>>} -> {{}, {0, 2}}]}

AllActions == Waits \cup Notifies \cup Fixups \cup Writes
              \cup UNION {Read(p, i) : p \in 0..2, i \in 0..2} \cup RMW(2, 0) \cup RMW(1, 1)

\* One value at three expirations, and another value.
FutureChoices == {[value |-> 1, tid |-> 1, expiration |-> e] : e \in {3, 4, 6}}
                 \cup {[value |-> 2, tid |-> 1, expiration |-> 4]}
=============================================================================
