------------------------------ MODULE Inference ------------------------------
(***************************************************************************)
(* Parameter assignments of SCFence (scfence/inference.cc), the lists of   *)
(* them (inferlist.cc) and the patches that strengthen them (patch.cc).    *)
(*                                                                         *)
(* An assignment gives every wildcard, from 1 on, a memory order, or       *)
(* NOTSET while no operation with the wildcard was executed.  A patch is a *)
(* sequence of units [op, wild, ord, mo]: the operation op, with wildcard  *)
(* wild, is to have at least order mo.  wild is NONE for an operation      *)
(* whose order the program fixes; that order is ord.                       *)
(***************************************************************************)
EXTENDS ModelAction

NOTSET      == "notset"      \* WILDCARD_NONEXIST
NORMAL      == "normal"      \* memory_order_normal: an operation on plain data
InitialSize == 4

\* The value of the enumeration constant.
Rank(mo) == CASE mo = NOTSET -> -1 [] mo = "rlx" -> 0 [] mo = "acq" -> 1
              [] mo = "rel" -> 2 [] mo = "acq_rel" -> 3 [] mo = "sc" -> 4

NewInference == [w \in 1..InitialSize |-> NOTSET]

Resized(orders, size) ==
    IF size <= Len(orders) THEN orders
    ELSE [w \in 1..size |-> IF w <= Len(orders) THEN orders[w] ELSE NOTSET]

OrderOf(orders, w) == IF w <= Len(orders) THEN orders[w] ELSE NOTSET

Indices(n) == [i \in 1..n |-> i]

-----------------------------------------------------------------------------
(* Memory orders.                                                          *)

\* 0: the same; 1: m1 is stronger; -1: m1 is weaker; 2: incomparable.
compareMemoryOrder(m1, m2) ==
    LET a == IF m1 = NOTSET THEN "rlx" ELSE m1
        b == IF m2 = NOTSET THEN "rlx" ELSE m2
    IN  CASE a = b -> 0
          [] a = "rlx" -> -1
          [] a = NORMAL -> 1
          [] {a, b} = {"acq", "rel"} -> 2
          [] a # b /\ a # "rlx" /\ a # NORMAL /\ {a, b} # {"acq", "rel"} ->
                IF Rank(a) > Rank(b) THEN 1 ELSE -1

AtLeast(m1, m2) == compareMemoryOrder(m1, m2) \in {0, 1}

\* The order a wildcard gets that has order o and must have at least mo.
strengthened(o, mo) ==
    CASE o \in {NOTSET, "rlx"} -> mo
      [] o = "sc" \/ mo \in {o, "rlx"} -> o
      [] o \in {"acq", "rel"} /\ mo \in {"acq", "rel"} \ {o} -> "acq_rel"
      [] o \in {"acq", "rel"} /\ mo \in {"acq_rel", "sc"} -> mo
      [] o = "acq_rel" /\ mo # o -> IF mo = "sc" THEN mo ELSE o

\* One step down from mo, but no further than least.
nextWeakOrder(mo, least) ==
    LET next == CASE mo = "sc" -> "acq_rel" [] mo = "acq_rel" -> "acq" [] OTHER -> "rlx"
    IN  IF AtLeast(next, least) THEN next ELSE least

-----------------------------------------------------------------------------
(* Assignments.                                                            *)

\* What wildcard w says of two assignments that have it: 1, 0, -1.
compareAt(m1, m2) ==
    CASE m1 = m2 -> 0
      [] m1 # m2 /\ (m1 = NOTSET \/ (m1 = "rlx" /\ m2 = NOTSET)) -> 1
      [] m1 \notin {NOTSET, "rlx", m2} /\ m2 = NOTSET -> -1
      [] m1 # m2 /\ NOTSET \notin {m1, m2} -> IF Rank(m1) > Rank(m2) THEN 1 ELSE -1

\* 1: a is stronger; -1: a is weaker; 0: the same; -2: incomparable.
compareTo(a, b) ==
    LET size == IF Len(a) < Len(b) THEN Len(a) ELSE Len(b)
        bySize == IF Len(a) = Len(b) THEN 0 ELSE IF Len(a) > Len(b) THEN 1 ELSE -1
        step(res, w) ==
            LET sub == compareAt(a[w], b[w])
            IN  IF res = -2 \/ {a[w], b[w]} = {"acq", "rel"} \/ sub * res < 0 THEN -2
                ELSE IF sub # 0 THEN sub ELSE res
    IN  FoldLeft(step, bySize, Indices(size))

\* The operations that meet their unit already, or can be made to.
isApplicable(patch) ==
    \A i \in DOMAIN patch : patch[i].wild = NONE => AtLeast(patch[i].ord, patch[i].mo)

\* A unit whose operation has no wildcard ends the patch.
applyPatch(orders, patch) ==
    LET step(s, u) ==
            IF s.bail \/ u.wild = NONE THEN [s EXCEPT !.bail = TRUE]
            ELSE LET o == OrderOf(s.orders, u.wild)
                     new == strengthened(o, u.mo)
                 IN  [s EXCEPT !.orders = [Resized(@, u.wild) EXCEPT ![u.wild] = new],
                               !.updated = @ \/ o = NOTSET \/ new # o]
    IN  FoldLeft(step, [orders |-> orders, updated |-> FALSE, bail |-> FALSE], patch)

\* Every assignment of the list, or cur if there is none yet, with every
\* patch that changes it.
applyPatches(list, cur, patches) ==
    LET base == IF list = <<>> THEN <<cur>> ELSE list
        from(a) == LET all == [i \in DOMAIN patches |-> applyPatch(a, patches[i])]
                       done == SelectSeq(all, LAMBDA s : s.updated)
                   IN  [i \in DOMAIN done |-> done[i].orders]
    IN  FlattenSeq([i \in DOMAIN base |-> from(base[i])])

\* Without what equals cur, and without what is stronger than a later one.
pruneCandidates(list, cur) ==
    LET step(kept, cand) ==
            IF compareTo(cand, cur) = 0 THEN kept
            ELSE Append(SelectSeq(kept, LAMBDA a : compareTo(a, cand) \notin {0, 1}), cand)
    IN  FoldLeft(step, <<>>, list)
=============================================================================
