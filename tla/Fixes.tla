-------------------------------- MODULE Fixes --------------------------------
(***************************************************************************)
(* The assignments SCFence proposes to rule out an execution that is not   *)
(* sequentially consistent, or that has a data race (scfence/scfence.cc).  *)
(*                                                                         *)
(* p is the program, x the execution, s the order the analysis found, cur  *)
(* the assignment the execution ran with.  A path is a sequence of loads,  *)
(* each sequenced before the store the next one reads.                     *)
(***************************************************************************)
EXTENDS WildProgram

Acts(p, t, S) == SelectSeq(Indices(Len(p)), LAMBDA i : p[i].tid = t /\ i \in S)

Fences(p) == {i \in DOMAIN p : is_fence(p[i])}

\* The loop over the stack of paths.
RECURSIVE extendPaths(_, _, _, _, _, _)
extendPaths(p, x, t1, first, stack, found) ==
    IF stack = <<>> THEN found
    ELSE LET path == Last(stack)
             rest == Front(stack)
             write == x.rf[path[1]]
             loop == \E k \in DOMAIN path : p[path[k]].tid = p[write].tid /\ write >= path[k]
             reads == Acts(p, p[write].tid, Reads(p) \cap 1..write)
             longer == [k \in DOMAIN reads |-> <<reads[k]>> \o path]
         IN  IF ~loop /\ p[write].tid = t1 /\ write >= first
             THEN extendPaths(p, x, t1, first, rest, Append(found, path))
             ELSE extendPaths(p, x, t1, first, IF loop THEN rest ELSE rest \o longer, found)

\* The paths from thread t1, from its operation first on, to thread t2, no
\* later than its operation last.
rfSbPaths(p, x, t1, first, t2, last) ==
    LET reads == Acts(p, t2, Reads(p) \cap 1..last)
    IN  extendPaths(p, x, t1, first, [k \in DOMAIN reads |-> <<reads[k]>>], <<>>)

get_rf_sb_paths(p, x, a1, a2) == rfSbPaths(p, x, p[a1].tid, a1, p[a2].tid, a2)

isReleaseSequence(x, path) == \A k \in 2..Len(path) : x.rf[path[k]] = path[k-1]

Unit(p, i, mo) == [op |-> i, wild |-> p[i].wild, ord |-> p[i].ord, mo |-> mo]
Patch(p, i, mo1, j, mo2) == <<Unit(p, i, mo1), Unit(p, j, mo2)>>

Applicable(patches) == SelectSeq(patches, isApplicable)

\* All of s with all of t, the elements of s in the outer loop.
Pairs(s, t) == FlattenSeq([i \in DOMAIN s |-> [j \in DOMAIN t |-> <<s[i], t[j]>>]])

\* The fences from a load on and from a store back, each up to its bound if
\* the bound is in that thread.
acqFencesOf(p, read, bound) ==
    LET last == IF p[bound].tid = p[read].tid /\ bound >= read THEN bound - 1 ELSE Len(p)
    IN  Acts(p, p[read].tid, Fences(p) \cap read..last)
relFencesOf(p, write, bound) ==
    LET first == IF p[bound].tid = p[write].tid /\ bound <= write THEN bound + 1 ELSE 1
    IN  Reverse(Acts(p, p[write].tid, Fences(p) \cap first..write))

getAcqRel(p, read, readBound, write, writeBound) ==
    LET acqs == acqFencesOf(p, read, readBound)
        rels == relFencesOf(p, write, writeBound)
        pairs == Pairs(rels, acqs)
        both == [k \in DOMAIN pairs |-> Patch(p, pairs[k][1], "rel", pairs[k][2], "acq")]
        onAcqs == [k \in DOMAIN acqs |-> Patch(p, acqs[k], "acq", write, "rel")]
        onRels == [k \in DOMAIN rels |-> Patch(p, rels[k], "rel", read, "acq")]
        fences == IF Applicable(both) # <<>> THEN Applicable(both) ELSE Applicable(onAcqs \o onRels)
    IN  IF fences # <<>> THEN fences ELSE Applicable(<<Patch(p, read, "acq", write, "rel")>>)

\* For one path: one pair of patches after the other, until there is none.
imposeSyncOn(p, x, cur, path, begin, end) ==
    LET write(k) == x.rf[path[k]]
        bound(k) == IF k < Len(path) THEN path[k+1] ELSE begin
        step(st, k) ==
            LET patches == getAcqRel(p, path[k], end, write(k), bound(k))
            IN  IF st.stop \/ patches = <<>> THEN [st EXCEPT !.stop = TRUE]
                ELSE [st EXCEPT !.list = applyPatches(@, cur, patches)]
        sequence == getAcqRel(p, Last(path), end, write(1), begin)
    IN  IF isReleaseSequence(x, path) THEN applyPatches(<<>>, cur, sequence)
        ELSE FoldLeft(step, [list |-> <<>>, stop |-> FALSE], Indices(Len(path))).list

imposeSync(p, x, cur, list, paths, begin, end) ==
    list \o FlattenSeq([k \in DOMAIN paths |-> imposeSyncOn(p, x, cur, paths[k], begin, end)])

\* Two fences between the operations in s, or else one of them with one of
\* the operations, or the two operations.
imposeSC(p, s, cur, list, act1, act2) ==
    LET at(i) == CHOOSE k \in DOMAIN s : s[k] = i
        fences == SelectSeq(SubSeq(s, at(act1) + 1, at(act2) - 1),
                            LAMBDA i : is_fence(p[i]) /\ p[i].wild # NONE)
        pairs == SelectSeq(Pairs(fences, fences), LAMBDA e : at(e[1]) < at(e[2]))
        both == [k \in DOMAIN pairs |-> Patch(p, pairs[k][1], "sc", pairs[k][2], "sc")]
        weak(i) == OrderOf(cur, p[i].wild) # "sc"
        twoFences == \E k \in DOMAIN pairs : weak(pairs[k][1]) \/ weak(pairs[k][2])
        one == FlattenSeq([k \in DOMAIN fences |-> <<Patch(p, act1, "sc", fences[k], "sc"),
                                                     Patch(p, act2, "sc", fences[k], "sc")>>])
        patches == Applicable(IF twoFences THEN both
                              ELSE both \o one \o <<Patch(p, act1, "sc", act2, "sc")>>)
    IN  IF patches = <<>> THEN list ELSE applyPatches(list, cur, patches)

\* act1 is to happen before act2 if there are paths, or else to come before
\* it among the seq_cst operations.
impose(p, x, s, cur, list, act1, act2) ==
    LET paths == get_rf_sb_paths(p, x, act1, act2)
    IN  IF paths # <<>> THEN imposeSync(p, x, cur, list, paths, act1, act2)
        ELSE imposeSC(p, s, cur, list, act1, act2)

\* read reads write, which write2 hides from it.
getFixesFromPatternA(p, x, s, cur, read, write) ==
    LET at(i) == CHOOSE k \in DOMAIN s : s[k] = i
        write2s == SelectSeq(SubSeq(s, at(write) + 1, at(read) - 1),
                             LAMBDA i : is_write(p[i]) /\ p[i].loc = p[write].loc)
        fixes(write2) ==
            LET ordered == <<write, write2>> \in x.mo
                list1 == IF ordered THEN <<>> ELSE impose(p, x, s, cur, <<>>, write, write2)
                list2 == impose(p, x, s, cur, list1, write2, read)
                again == /\ ordered /\ write \notin x.hb[write2]
                         /\ get_rf_sb_paths(p, x, write2, read) = <<>>
            IN  CASE write2 \in x.hb[read] -> list1
                  [] write2 \notin x.hb[read] /\ ~again -> list2
                  [] write2 \notin x.hb[read] /\ again -> impose(p, x, s, cur, list2, write, write2)
    IN  FlattenSeq([k \in DOMAIN write2s |-> fixes(write2s[k])])

\* read reads write, which comes later.
getFixesFromPatternB(p, x, cur, read, write) ==
    imposeSync(p, x, cur,
               imposeSync(p, x, cur, <<>>, get_rf_sb_paths(p, x, read, write), read, write),
               get_rf_sb_paths(p, x, write, read), write, read)

\* For the first load that is wrong in the order s.
addFixesNonSC(p, x, s, cur) ==
    LET at(i) == CHOOSE k \in DOMAIN s : s[k] = i
        read == s[Min({at(r) : r \in BadReads(p, x.rf, s)})]
        write == x.rf[read]
    IN  IF at(write) < at(read) THEN getFixesFromPatternA(p, x, s, cur, read, write)
        ELSE getFixesFromPatternB(p, x, cur, read, write)

\* The first two unordered operations on plain data: locations in the order
\* of their first operation in s.
checkDataRace(p, x, s) ==
    LET at(i) == CHOOSE k \in DOMAIN s : s[k] = i
        races == {<<s[Min({at(e[1]), at(e[2])})], s[Max({at(e[1]), at(e[2])})]>> : e \in Races(p, x)}
        touched(l) == Min({k \in DOMAIN s : p[s[k]].ord = NORMAL /\ p[s[k]].loc = l})
        key(e) == <<touched(p[e[1]].loc), at(e[1]), at(e[2])>>
        less(a, b) == \E n \in 1..3 : a[n] < b[n] /\ \A m \in 1..n-1 : a[m] = b[m]
    IN  CHOOSE e \in races : \A d \in races \ {e} : less(key(e), key(d))

\* The candidates for either direction; the second only if there is a path
\* in the first.
addFixesDataRace(p, x, s, cur) ==
    LET e == checkDataRace(p, x, s)
        fixes(a, b) ==
            LET paths == rfSbPaths(p, x, p[a].tid, a + 1, p[b].tid, b - 1)
            IN  IF paths = <<>> THEN <<>>
                ELSE <<imposeSync(p, x, cur, <<>>, paths, a, b)>>
        first == fixes(e[1], e[2])
    IN  IF first = <<>> THEN <<>> ELSE first \o fixes(e[2], e[1])
=============================================================================
