---------------------------- MODULE ChoicesProofs ----------------------------
(***************************************************************************)
(* What a Node hands out exists, whatever the action, however many stores, *)
(* promises and future values there are and whenever they turn up.         *)
(***************************************************************************)
EXTENDS Choices, SequenceTheorems, WellFoundedInduction, TLAPS

\* A set of natural numbers has a least element, one that is bounded a greatest.
LEMMA Least ==
    ASSUME NEW S \in SUBSET Nat, S # {}
    PROVE  \E i \in S : \A j \in S : i <= j
<1>1. PICK i \in S : \A j \in S : ~(<<j, i>> \in OpToRel(<, Nat))
  BY WFMin, NatLessThanWellFounded
<1>2. \A j \in S : ~(j < i)
  BY <1>1 DEF OpToRel
<1> QED BY <1>2

LEMMA Greatest ==
    ASSUME NEW n \in Nat, NEW S \in SUBSET (1..n), S # {}
    PROVE  \E i \in S : \A j \in S : j <= i
<1> DEFINE T == {k \in 0..n : n - k \in S}
<1>1. PICK j \in S : TRUE
  OBVIOUS
<1>2. T \in SUBSET Nat /\ T # {}
  <2>1. n - j \in 0..n /\ n - (n - j) = j
    OBVIOUS
  <2>2. n - j \in T
    BY <1>1, <2>1
  <2>3. T \in SUBSET Nat
    OBVIOUS
  <2> HIDE DEF T
  <2> QED BY <2>2, <2>3
<1>3. PICK k \in T : \A l \in T : k <= l
  <2> HIDE DEF T
  <2> QED BY <1>2, Least
<1>4. ASSUME NEW l \in S PROVE l <= n - k
  <2>1. n - l \in 0..n /\ n - (n - l) = l
    OBVIOUS
  <2>2. k <= n - l
    BY <1>3, <2>1
  <2> QED BY <2>2
<1> QED BY <1>3, <1>4
-----------------------------------------------------------------------------
\* A node, and what its status says about its indexes: once nothing was left
\* to read no index points to anything.
Nodes == [status : {"PAST", "PROMISE", "FUTURE", "NONE"}, past_idx : Int, promise_idx : Int,
          future_values : Seq(FutureValue), future_index : Int, resolve : SUBSET Nat,
          resolve_idx : Int, misc_index : Int, break_idx : Int]

Ranges(n) ==
    /\ n \in Nodes
    /\ n.past_idx \in 0..act.past /\ n.promise_idx \in -1..act.inherited
    /\ n.future_index \in -1..Len(n.future_values)
    /\ n.resolve_idx \in n.resolve \cup {-1}
    /\ n.misc_index \in 0..act.misc /\ n.break_idx \in 0..act.breaks
    /\ n.status = "PROMISE" => n.promise_idx \in 0..act.inherited - 1
    /\ n.status = "FUTURE" => n.future_index \in 0..Len(n.future_values) - 1
    /\ n.status # "NONE" => n.future_index < Len(n.future_values)
    /\ n.status = "NONE" => n.past_idx = act.past /\ n.promise_idx = act.inherited
                            /\ n.future_index = Len(n.future_values)

\* The store to be read exists too, if there is any.
Sound(n) == Ranges(n) /\ (n.status = "PAST" => n.past_idx < act.past \/ act.past = 0)

\* A choice is left at the node.
ChoiceLeft(n) == ~misc_empty(n) \/ ~read_from_empty(n) \/ ~promise_empty(n) \/ ~relseq_break_empty(n)

\* The counts of an action are natural numbers.
LEMMA Counts == ASSUME act \in Actions
                PROVE  act.past \in Nat /\ act.inherited \in Nat /\ act.misc \in Nat /\ act.breaks \in Nat
BY ActionsAssumption

\* Each increment keeps the node sound and says whether there was a choice.
LEMMA MiscStep ==
    ASSUME act \in Actions, NEW n, Sound(n)
    PROVE  /\ Sound(increment_misc(n).node)
           /\ increment_misc(n).ok <=> ~misc_empty(n)
           /\ ~increment_misc(n).ok => \E i \in Int : increment_misc(n).node = [n EXCEPT !.misc_index = i]
<1> DEFINE i == Increment(n.misc_index, act.misc)
<1>1. i \in 0..act.misc /\ (n.misc_index < act.misc /\ i < act.misc <=> ~misc_empty(n))
  BY Counts DEF Sound, Ranges, Nodes, Increment, misc_empty
<1>2. /\ increment_misc(n).ok = (n.misc_index < act.misc /\ i < act.misc)
      /\ increment_misc(n).node = [n EXCEPT !.misc_index = i]
  BY DEF increment_misc, To
<1> HIDE DEF i
<1>3. Sound([n EXCEPT !.misc_index = i])
  <2>1. i \in Int /\ i \in 0..act.misc
    BY <1>1, Counts
  <2> QED BY <2>1 DEF Sound, Ranges, Nodes
<1>4. i \in Int
  BY <1>1, Counts
<1>5. Sound(increment_misc(n).node) /\ \E k \in Int : increment_misc(n).node = [n EXCEPT !.misc_index = k]
  BY <1>2, <1>3, <1>4, Zenon
<1>6. increment_misc(n).ok <=> ~misc_empty(n)
  BY <1>1, <1>2, Zenon
<1> QED BY <1>5, <1>6

LEMMA BreakStep ==
    ASSUME act \in Actions, NEW n, Sound(n)
    PROVE  /\ Sound(increment_relseq_break(n).node)
           /\ increment_relseq_break(n).ok <=> ~relseq_break_empty(n)
<1> DEFINE i == Increment(n.break_idx, act.breaks)
<1>1. i \in 0..act.breaks /\ (n.break_idx < act.breaks /\ i < act.breaks <=> ~relseq_break_empty(n))
  BY Counts DEF Sound, Ranges, Nodes, Increment, relseq_break_empty
<1>2. /\ increment_relseq_break(n).ok = (n.break_idx < act.breaks /\ i < act.breaks)
      /\ increment_relseq_break(n).node = [n EXCEPT !.break_idx = i]
  BY DEF increment_relseq_break, To
<1> HIDE DEF i
<1>3. Sound([n EXCEPT !.break_idx = i])
  <2>1. i \in Int /\ i \in 0..act.breaks
    BY <1>1, Counts
  <2> QED BY <2>1 DEF Sound, Ranges, Nodes
<1> QED BY <1>1, <1>2, <1>3

LEMMA PromiseStep ==
    ASSUME act \in Actions, NEW n, Sound(n)
    PROVE  /\ Sound(increment_promise(n).node)
           /\ increment_promise(n).ok <=> ~promise_empty(n)
           /\ ~increment_promise(n).ok => increment_promise(n).node = n
<1> DEFINE later == {k \in n.resolve : k > n.resolve_idx}
           k0 == CHOOSE k \in later : \A j \in later : k <= j
<1>1. later = {} <=> promise_empty(n)
  BY DEF promise_empty, Sound, Ranges, Nodes
<1>2. CASE later = {}
  BY <1>1, <1>2 DEF increment_promise, To
<1>3. CASE later # {}
  <2>1. later \in SUBSET Nat
    BY DEF Sound, Ranges, Nodes
  <2>2. k0 \in later
    <3> HIDE DEF later
    <3>1. \E k \in later : \A j \in later : k <= j
      BY <1>3, <2>1, Least
    <3> QED BY <3>1
  <2>3. increment_promise(n) = To(TRUE, [n EXCEPT !.resolve_idx = k0])
    BY <1>3 DEF increment_promise
  <2> HIDE DEF k0
  <2>4. Sound([n EXCEPT !.resolve_idx = k0])
    BY <2>2 DEF Sound, Ranges, Nodes
  <2> QED BY <1>1, <1>3, <2>3, <2>4 DEF To
<1> QED BY <1>2, <1>3

\* Another thing to read, or the end of all three lists.
LEMMA NextReadStep ==
    ASSUME act \in Actions, NEW n, Ranges(n)
    PROVE  /\ Sound(NextRead(n).node)
           /\ NextRead(n).ok <=> ~read_from_empty(n)
           /\ NextRead(n).ok <=> NextRead(n).node.status # "NONE"
           /\ NextRead(n).node.status = "PAST" => NextRead(n).node.past_idx < act.past
           /\ NextRead(n).node.future_values = n.future_values
           /\ NextRead(n).node.break_idx = n.break_idx
<1> DEFINE past == Increment(n.past_idx, act.past)
           promise == Increment(n.promise_idx, act.inherited)
           future == Increment(n.future_index, Len(n.future_values))
<1>0. act.past \in Nat /\ act.inherited \in Nat /\ Len(n.future_values) \in Nat
  BY Counts DEF Ranges, Nodes
<1>1. past \in 0..act.past /\ n.past_idx <= past /\ (past < act.past <=> ~read_from_past_empty(n))
  BY <1>0 DEF Ranges, Nodes, Increment, read_from_past_empty
<1>2. promise \in 0..act.inherited /\ n.promise_idx <= promise
      /\ (promise < act.inherited <=> ~read_from_promise_empty(n))
  BY <1>0 DEF Ranges, Nodes, Increment, read_from_promise_empty
<1>3. future \in 0..Len(n.future_values) /\ n.future_index <= future
      /\ (future < Len(n.future_values) <=> ~future_value_empty(n))
  BY <1>0 DEF Ranges, Nodes, Increment, future_value_empty
<1>4. NextRead(n) =
        LET pasts == [n EXCEPT !.past_idx = past]
            promises == [pasts EXCEPT !.promise_idx = promise]
            futures == [promises EXCEPT !.future_index = future]
        IN  IF past < act.past THEN To(TRUE, [pasts EXCEPT !.status = "PAST"])
            ELSE IF promise < act.inherited THEN To(TRUE, [promises EXCEPT !.status = "PROMISE"])
            ELSE IF future < Len(n.future_values) THEN To(TRUE, [futures EXCEPT !.status = "FUTURE"])
            ELSE To(FALSE, [futures EXCEPT !.status = "NONE"])
  BY Zenon DEF NextRead
<1> HIDE DEF past, promise, future
<1>5. CASE past < act.past
  <2> DEFINE m == [[n EXCEPT !.past_idx = past] EXCEPT !.status = "PAST"]
  <2>1. NextRead(n) = To(TRUE, m)
    BY <1>4, <1>5
  <2>2. m \in Nodes
    <3>0. n \in Nodes /\ past \in Int
      BY <1>0, <1>1 DEF Ranges
    <3>1. [n EXCEPT !.past_idx = past] \in Nodes
      BY <3>0 DEF Nodes
    <3> QED BY <3>1 DEF Nodes
  <2>3. /\ m.status = "PAST" /\ m.past_idx = past /\ m.promise_idx = n.promise_idx
        /\ m.future_values = n.future_values /\ m.future_index = n.future_index
        /\ m.resolve = n.resolve /\ m.resolve_idx = n.resolve_idx
        /\ m.misc_index = n.misc_index /\ m.break_idx = n.break_idx
    BY <1>0, <1>1 DEF Nodes, Ranges
  <2> HIDE DEF m
  <2>4. Sound(m)
    BY <2>2, <2>3, <1>0, <1>1, <1>5 DEF Sound, Ranges
  <2> QED BY <1>1, <1>5, <2>1, <2>3, <2>4 DEF To, read_from_empty
<1>6. CASE past >= act.past /\ promise < act.inherited
  <2> DEFINE m == [[[n EXCEPT !.past_idx = past] EXCEPT !.promise_idx = promise] EXCEPT !.status = "PROMISE"]
  <2>0. ~(past < act.past)
    BY <1>0, <1>1, <1>6
  <2>1. NextRead(n) = To(TRUE, m)
    BY <1>4, <1>6, <2>0
  <2>2. m \in Nodes
    <3>0. n \in Nodes /\ past \in Int /\ promise \in Int
      BY <1>0, <1>1, <1>2 DEF Ranges
    <3>1. [n EXCEPT !.past_idx = past] \in Nodes
      BY <3>0 DEF Nodes
    <3>2. [[n EXCEPT !.past_idx = past] EXCEPT !.promise_idx = promise] \in Nodes
      BY <3>1, <3>0 DEF Nodes
    <3> QED BY <3>2 DEF Nodes
  <2>3. /\ m.status = "PROMISE" /\ m.past_idx = past /\ m.promise_idx = promise
        /\ m.future_values = n.future_values /\ m.future_index = n.future_index
        /\ m.resolve = n.resolve /\ m.resolve_idx = n.resolve_idx
        /\ m.misc_index = n.misc_index /\ m.break_idx = n.break_idx
    BY <1>0, <1>1, <1>2 DEF Nodes, Ranges
  <2> HIDE DEF m
  <2>4. Sound(m)
    BY <2>2, <2>3, <1>0, <1>1, <1>2, <1>6 DEF Sound, Ranges
  <2> QED BY <1>2, <1>6, <2>1, <2>3, <2>4 DEF To, read_from_empty
<1>7. CASE past >= act.past /\ promise >= act.inherited
  <2> DEFINE base ==
           [[[n EXCEPT !.past_idx = past] EXCEPT !.promise_idx = promise] EXCEPT !.future_index = future]
  <2>0. ~(past < act.past) /\ ~(promise < act.inherited) /\ past = act.past /\ promise = act.inherited
    BY <1>0, <1>1, <1>2, <1>7
  <2>base. base \in Nodes
    <3>0. n \in Nodes /\ past \in Int /\ promise \in Int /\ future \in Int
      BY <1>0, <1>1, <1>2, <1>3 DEF Ranges
    <3>1. [n EXCEPT !.past_idx = past] \in Nodes
      BY <3>0 DEF Nodes
    <3>2. [[n EXCEPT !.past_idx = past] EXCEPT !.promise_idx = promise] \in Nodes
      BY <3>1, <3>0 DEF Nodes
    <3>3. [[[n EXCEPT !.past_idx = past] EXCEPT !.promise_idx = promise]
                EXCEPT !.future_index = future] \in Nodes
      BY <3>2, <3>0 DEF Nodes
    <3> QED BY <3>3 DEF Nodes
  <2>1. CASE future < Len(n.future_values)
    <3> DEFINE m == [base EXCEPT !.status = "FUTURE"]
    <3>1. NextRead(n) = To(TRUE, m)
      BY <1>4, <2>0, <2>1
    <3>2. m \in Nodes
      BY <2>base DEF Nodes
    <3>3. /\ m.status = "FUTURE" /\ m.past_idx = past /\ m.promise_idx = promise
          /\ m.future_index = future /\ m.future_values = n.future_values
          /\ m.resolve = n.resolve /\ m.resolve_idx = n.resolve_idx
          /\ m.misc_index = n.misc_index /\ m.break_idx = n.break_idx
      BY <1>0, <1>1, <1>2, <1>3 DEF Nodes, Ranges
    <3> HIDE DEF m
    <3>4. Sound(m)
      BY <3>2, <3>3, <1>0, <1>1, <1>2, <1>3, <2>0, <2>1 DEF Sound, Ranges
    <3> QED BY <1>3, <2>1, <3>1, <3>3, <3>4 DEF To, read_from_empty
  <2>2. CASE ~(future < Len(n.future_values))
    <3> DEFINE m == [base EXCEPT !.status = "NONE"]
    <3>0. future = Len(n.future_values)
      BY <1>0, <1>3, <2>2
    <3>1. NextRead(n) = To(FALSE, m)
      BY <1>4, <2>0, <2>2
    <3>2. m \in Nodes
      BY <2>base DEF Nodes
    <3>3. /\ m.status = "NONE" /\ m.past_idx = past /\ m.promise_idx = promise
          /\ m.future_index = future /\ m.future_values = n.future_values
          /\ m.resolve = n.resolve /\ m.resolve_idx = n.resolve_idx
          /\ m.misc_index = n.misc_index /\ m.break_idx = n.break_idx
      BY <1>0, <1>1, <1>2, <1>3 DEF Nodes, Ranges
    <3> HIDE DEF m
    <3>4. Sound(m)
      BY <3>2, <3>3, <1>0, <1>1, <1>2, <1>3, <2>0, <3>0 DEF Sound, Ranges
    <3> QED BY <1>1, <1>2, <1>3, <2>0, <2>2, <3>1, <3>3, <3>4 DEF To, read_from_empty
  <2> QED BY <2>1, <2>2
<1> QED BY <1>0, <1>1, <1>2, <1>5, <1>6, <1>7

\* The promises a store may resolve are forgotten first.
LEMMA ClearStep ==
    ASSUME act \in Actions, NEW n, Ranges(n)
    PROVE  LET c == clear_promise_resolutions(n)
           IN  /\ Ranges(c) /\ (Sound(n) => Sound(c)) /\ (read_from_empty(c) <=> read_from_empty(n))
               /\ c.status = n.status /\ c.past_idx = n.past_idx /\ c.future_values = n.future_values
               /\ c.break_idx = n.break_idx
<1> DEFINE m == clear_promise_resolutions(n)
<1>1. m \in Nodes
  <2>1. n \in Nodes
    BY DEF Ranges
  <2> DEFINE c == [n EXCEPT !.resolve = {}]
  <2>2. c \in Nodes
    BY <2>1 DEF Nodes
  <2>3. m = [c EXCEPT !.resolve_idx = -1]
    BY DEF clear_promise_resolutions
  <2> HIDE DEF c, m
  <2>4. [c EXCEPT !.resolve_idx = -1] \in Nodes
    BY <2>2 DEF Nodes
  <2> QED BY <2>3, <2>4
<1>2. /\ m.resolve = {} /\ m.resolve_idx = -1 /\ m.status = n.status
      /\ m.past_idx = n.past_idx /\ m.promise_idx = n.promise_idx
      /\ m.future_values = n.future_values /\ m.future_index = n.future_index
      /\ m.misc_index = n.misc_index /\ m.break_idx = n.break_idx
  BY DEF Nodes, Ranges, clear_promise_resolutions
<1> HIDE DEF m
<1>3. Ranges(m) /\ (Sound(n) => Sound(m))
  BY <1>1, <1>2 DEF Sound, Ranges
<1>4. read_from_empty(m) <=> read_from_empty(n)
  BY <1>2 DEF read_from_empty, read_from_past_empty, read_from_promise_empty, future_value_empty
<1> QED BY <1>2, <1>3, <1>4 DEF m

LEMMA ReadStep ==
    ASSUME act \in Actions, NEW n, Ranges(n)
    PROVE  LET r == increment_read_from(n)
           IN  /\ Sound(r.node)
               /\ r.ok <=> ~read_from_empty(n)
               /\ r.ok <=> r.node.status # "NONE"
               /\ r.node.status = "PAST" => r.node.past_idx < act.past
               /\ r.node.future_values = n.future_values
               /\ r.node.break_idx = n.break_idx
BY ClearStep, NextReadStep DEF increment_read_from

\* A node with a choice left hands out another one.
LEMMA BehaviorStep ==
    ASSUME act \in Actions, NEW n, Sound(n)
    PROVE  /\ Sound(increment_behaviors(n).node)
           /\ increment_behaviors(n).ok \in BOOLEAN
           /\ ChoiceLeft(n) => increment_behaviors(n).ok
<1> DEFINE misc == increment_misc(n)
           promise == increment_promise(misc.node)
           read_from == increment_read_from(promise.node)
           break == increment_relseq_break(read_from.node)
<1>1. increment_behaviors(n) = IF misc.ok THEN misc ELSE IF promise.ok THEN promise
                               ELSE IF read_from.ok THEN read_from ELSE break
  BY DEF increment_behaviors
<1>2. Sound(misc.node) /\ (misc.ok <=> ~misc_empty(n))
      /\ (~misc.ok => \E i \in Int : misc.node = [n EXCEPT !.misc_index = i])
  BY MiscStep
<1>3. Sound(promise.node) /\ (promise.ok <=> ~promise_empty(misc.node))
      /\ (~promise.ok => promise.node = misc.node)
  BY <1>2, PromiseStep
<1>4. Sound(read_from.node) /\ (read_from.ok <=> ~read_from_empty(promise.node))
  BY <1>3, ReadStep DEF Sound
<1>5. Sound(break.node) /\ (break.ok <=> ~relseq_break_empty(read_from.node))
  BY <1>4, BreakStep
<1>6. ~misc.ok => /\ read_from_empty(misc.node) <=> read_from_empty(n)
                  /\ promise_empty(misc.node) <=> promise_empty(n)
                  /\ misc.node.break_idx = n.break_idx
  BY <1>2 DEF Sound, Ranges, Nodes, read_from_empty, read_from_past_empty, read_from_promise_empty,
              future_value_empty, promise_empty
<1>7. read_from.node.break_idx = promise.node.break_idx
  BY <1>3, ReadStep DEF Sound
<1> HIDE DEF misc, promise, read_from, break
<1>8. Sound(increment_behaviors(n).node)
  BY <1>1, <1>2, <1>3, <1>4, <1>5
<1>9. ~misc.ok /\ ~promise.ok => (relseq_break_empty(read_from.node) <=> relseq_break_empty(n))
  BY <1>3, <1>6, <1>7 DEF relseq_break_empty
<1>10. misc.ok \/ promise.ok \/ read_from.ok \/ break.ok => increment_behaviors(n).ok
  BY <1>1
<1>11. ChoiceLeft(n) => misc.ok \/ promise.ok \/ read_from.ok \/ break.ok
  BY <1>2, <1>3, <1>4, <1>5, <1>6, <1>9 DEF ChoiceLeft
<1>12. increment_behaviors(n).ok \in BOOLEAN
  BY DEF increment_behaviors, increment_misc, increment_promise, increment_read_from, NextRead,
         increment_relseq_break, To
<1> QED BY <1>8, <1>10, <1>11, <1>12
-----------------------------------------------------------------------------
\* A future value is added behind the others, or makes a later one expire later.
LEMMA ValuesStep ==
    ASSUME act \in Actions, NEW n, Sound(n), n.status # "NONE",
           NEW f \in Seq(FutureValue), Len(f) >= Len(n.future_values)
    PROVE  LET m == [n EXCEPT !.future_values = f]
           IN  /\ Sound(m)
               /\ m.status = n.status /\ m.past_idx = n.past_idx /\ m.promise_idx = n.promise_idx
               /\ m.future_index = n.future_index /\ m.future_values = f
               /\ ChoiceLeft(n) => ChoiceLeft(m)
<1> DEFINE m == [n EXCEPT !.future_values = f]
<1>1. m \in Nodes
  BY DEF Sound, Ranges, Nodes
<1>2. /\ m.status = n.status /\ m.past_idx = n.past_idx /\ m.promise_idx = n.promise_idx
      /\ m.future_index = n.future_index /\ m.future_values = f /\ m.resolve = n.resolve
      /\ m.resolve_idx = n.resolve_idx /\ m.misc_index = n.misc_index /\ m.break_idx = n.break_idx
  BY DEF Sound, Ranges, Nodes
<1> HIDE DEF m
<1>3. Len(f) \in Nat /\ Len(n.future_values) \in Nat
  BY DEF Sound, Ranges, Nodes
<1>4. Sound(m)
  BY <1>1, <1>2, <1>3 DEF Sound, Ranges
<1>5. future_value_empty(m) => future_value_empty(n)
  BY <1>2, <1>3 DEF future_value_empty, Sound, Ranges, Nodes
<1>6. ChoiceLeft(n) => ChoiceLeft(m)
  BY <1>2, <1>5 DEF ChoiceLeft, misc_empty, read_from_empty, read_from_past_empty,
                    read_from_promise_empty, promise_empty, relseq_break_empty
<1> QED BY <1>2, <1>4, <1>6 DEF m

LEMMA AddStep ==
    ASSUME act \in Actions, NEW n, Sound(n), n.status # "NONE", NEW fv \in FutureValues
    PROVE  LET a == add_future_value(n, fv)
           IN  /\ Sound(a.node)
               /\ a.node.status = n.status /\ a.node.past_idx = n.past_idx
               /\ a.node.promise_idx = n.promise_idx /\ a.node.future_index = n.future_index
               /\ a.ok \/ ChoiceLeft(n) => ChoiceLeft(a.node)
<1> DEFINE same == SameValue(n, fv)
           last == CHOOSE i \in same : \A j \in same : j <= i
           later == [n.future_values EXCEPT ![last].expiration = fv.expiration]
           more == Append(n.future_values, fv)
<1>0. fv \in FutureValue
  BY FutureValuesAssumption
<1>1. /\ n.future_values \in Seq(FutureValue) /\ Len(n.future_values) \in Nat
      /\ n.future_index \in Int /\ n.future_index < Len(n.future_values)
  BY DEF Sound, Ranges, Nodes
<1>2. \/ add_future_value(n, fv) = To(FALSE, n)
      \/ /\ same # {} /\ last - 1 > n.future_index
         /\ add_future_value(n, fv) = To(TRUE, [n EXCEPT !.future_values = later])
      \/ add_future_value(n, fv) = To(TRUE, [n EXCEPT !.future_values = more])
  BY DEF add_future_value
<1>3. CASE add_future_value(n, fv) = To(FALSE, n)
  BY <1>3 DEF To
<1>4. CASE /\ same # {} /\ last - 1 > n.future_index
           /\ add_future_value(n, fv) = To(TRUE, [n EXCEPT !.future_values = later])
  <2>1. same \in SUBSET (1..Len(n.future_values))
    BY <1>1 DEF SameValue
  <2>2. last \in same
    <3> HIDE DEF same
    <3>1. \E i \in same : \A j \in same : j <= i
      BY <1>1, <1>4, <2>1, Greatest
    <3> QED BY <3>1
  <2> HIDE DEF same, last
  <2>3. last \in 1..Len(n.future_values)
    BY <2>1, <2>2
  <2>4. [n.future_values[last] EXCEPT !.expiration = fv.expiration] \in FutureValue
    <3> DEFINE v == n.future_values[last]
    <3>1. v \in FutureValue
      BY <1>1, <2>3, ElementOfSeq
    <3> HIDE DEF v
    <3>2. [v EXCEPT !.expiration = fv.expiration] \in FutureValue
      BY <1>0, <3>1 DEF FutureValue
    <3> QED BY <3>2 DEF v
  <2>5. later \in Seq(FutureValue) /\ Len(later) = Len(n.future_values)
    BY <1>1, <2>3, <2>4, ExceptSeq
  <2> HIDE DEF later
  <2> DEFINE m == [n EXCEPT !.future_values = later]
  <2>6. /\ Sound(m) /\ m.status = n.status /\ m.past_idx = n.past_idx /\ m.promise_idx = n.promise_idx
        /\ m.future_index = n.future_index /\ m.future_values = later
    BY <1>1, <2>5, ValuesStep
  <2> HIDE DEF m
  <2>7. ~future_value_empty(m)
    BY <1>1, <1>4, <2>3, <2>5, <2>6 DEF future_value_empty
  <2>8. add_future_value(n, fv).node = m
    BY <1>4 DEF m, To
  <2>9. ChoiceLeft(m)
    BY <2>7 DEF ChoiceLeft, read_from_empty
  <2> QED BY <2>6, <2>8, <2>9
<1>5. CASE add_future_value(n, fv) = To(TRUE, [n EXCEPT !.future_values = more])
  <2>1. more \in Seq(FutureValue) /\ Len(more) = Len(n.future_values) + 1
    BY <1>0, <1>1
  <2> HIDE DEF more
  <2> DEFINE m == [n EXCEPT !.future_values = more]
  <2>2. /\ Sound(m) /\ m.status = n.status /\ m.past_idx = n.past_idx /\ m.promise_idx = n.promise_idx
        /\ m.future_index = n.future_index /\ m.future_values = more
    BY <1>1, <2>1, ValuesStep
  <2> HIDE DEF m
  <2>3. ~future_value_empty(m)
    BY <1>1, <2>1, <2>2 DEF future_value_empty
  <2>4. add_future_value(n, fv).node = m
    BY <1>5 DEF m, To
  <2>5. ChoiceLeft(m)
    BY <2>3 DEF ChoiceLeft, read_from_empty
  <2> QED BY <2>2, <2>4, <2>5
<1> QED BY <1>2, <1>3, <1>4, <1>5
-----------------------------------------------------------------------------
\* What an execution that reaches the node is given to read exists.
LEMMA FetchedStep ==
    ASSUME act \in Actions, NEW n, Sound(n)
    PROVE  /\ Sound(Fetched(n))
           /\ Fetched(n).status = "PAST" => Fetched(n).past_idx < act.past
<1>1. CASE n.status = "PAST" /\ act.past = 0
  BY <1>1, ReadStep DEF Fetched, Sound
<1>2. CASE ~(n.status = "PAST" /\ act.past = 0)
  BY <1>2 DEF Fetched, Sound
<1> QED BY <1>1, <1>2

LEMMA RecentStep ==
    ASSUME act \in Actions, NEW n, Sound(n), n.status = "PAST" => n.past_idx < act.past
    PROVE  /\ Sound(Recent(n))
           /\ Recent(n).status = "PAST" => Recent(n).past_idx < act.past
<1> DEFINE good == {i \in n.past_idx..act.past - 1 : Past(i) \notin act.old}
           first == CHOOSE i \in good : \A j \in good : i <= j
           c == clear_promise_resolutions(n)
<1>0. act.past \in Nat /\ n.past_idx \in Nat /\ good \in SUBSET Nat
  BY Counts DEF Sound, Ranges, Nodes
<1>1. Recent(n) = IF n.status # "PAST" \/ n.past_idx \in good THEN n
                  ELSE IF good # {} THEN [c EXCEPT !.past_idx = first]
                  ELSE increment_read_from([n EXCEPT !.past_idx = act.past]).node
  BY Zenon DEF Recent
<1>2. CASE n.status # "PAST" \/ n.past_idx \in good
  BY <1>1, <1>2
<1>3. CASE n.status = "PAST" /\ n.past_idx \notin good /\ good # {}
  <2>1. first \in good
    <3> HIDE DEF good
    <3>1. \E i \in good : \A j \in good : i <= j
      BY <1>0, <1>3, Least
    <3> QED BY <3>1
  <2>2. first \in Nat /\ first < act.past
    BY <1>0, <2>1
  <2>3. Sound(c) /\ c.status = "PAST"
    <3>1. Ranges(n)
      BY DEF Sound
    <3>2. Sound(c) /\ c.status = n.status
      BY <3>1, ClearStep
    <3> QED BY <1>3, <3>2
  <2>4. Recent(n) = [c EXCEPT !.past_idx = first]
    BY <1>1, <1>3
  <2> HIDE DEF c, first
  <2> DEFINE m == [c EXCEPT !.past_idx = first]
  <2>5. m \in Nodes
    <3>1. c \in Nodes /\ first \in Int
      BY <2>2, <2>3 DEF Sound, Ranges
    <3> QED BY <3>1 DEF Nodes
  <2>6. /\ m.past_idx = first /\ m.status = c.status /\ m.promise_idx = c.promise_idx
        /\ m.future_values = c.future_values /\ m.future_index = c.future_index
        /\ m.resolve = c.resolve /\ m.resolve_idx = c.resolve_idx
        /\ m.misc_index = c.misc_index /\ m.break_idx = c.break_idx
    BY <2>3 DEF Sound, Ranges, Nodes
  <2> HIDE DEF m
  <2>7. Sound(m)
    BY <1>0, <2>2, <2>3, <2>5, <2>6 DEF Sound, Ranges
  <2> QED BY <2>2, <2>4, <2>6, <2>7 DEF m
<1>4. CASE n.status = "PAST" /\ n.past_idx \notin good /\ good = {}
  <2> DEFINE m == [n EXCEPT !.past_idx = act.past]
  <2>1. m \in Nodes
    BY <1>0 DEF Sound, Ranges, Nodes
  <2>2. /\ m.past_idx = act.past /\ m.status = n.status /\ m.promise_idx = n.promise_idx
        /\ m.future_values = n.future_values /\ m.future_index = n.future_index
        /\ m.resolve = n.resolve /\ m.resolve_idx = n.resolve_idx
        /\ m.misc_index = n.misc_index /\ m.break_idx = n.break_idx
    BY DEF Sound, Ranges, Nodes
  <2>3. Recent(n) = increment_read_from(m).node
    BY <1>1, <1>4
  <2> HIDE DEF m
  <2>4. Ranges(m)
    BY <1>0, <1>4, <2>1, <2>2 DEF Sound, Ranges
  <2> QED BY <2>3, <2>4, ReadStep
<1> QED BY <1>2, <1>3, <1>4

LEMMA ProcessedStep ==
    ASSUME act \in Actions, NEW n, Sound(n)
    PROVE  /\ Sound(Processed(n))
           /\ act.kind \in ReadKinds /\ Processed(n).status = "PAST" => Processed(n).past_idx < act.past
<1> DEFINE read == IF act.kind \in ReadKinds THEN Recent(Fetched(n)) ELSE n
           more == Resolvable(ReadFrom(read), read.future_values)
<1>1. Sound(read) /\ (act.kind \in ReadKinds /\ read.status = "PAST" => read.past_idx < act.past)
  BY FetchedStep, RecentStep
<1>2. more \in SUBSET Nat
  BY ActionsAssumption DEF Resolvable
<1>3. Processed(n) = IF act.kind = "rmw" /\ read.status # "NONE"
                     THEN [read EXCEPT !.resolve = read.resolve \cup more] ELSE read
  BY DEF Processed
<1> HIDE DEF read, more
<1> DEFINE m == [read EXCEPT !.resolve = read.resolve \cup more]
<1>4. m \in Nodes
  BY <1>1, <1>2 DEF Sound, Ranges, Nodes
<1>5. /\ m.past_idx = read.past_idx /\ m.status = read.status /\ m.promise_idx = read.promise_idx
      /\ m.future_values = read.future_values /\ m.future_index = read.future_index
      /\ m.resolve = read.resolve \cup more /\ m.resolve_idx = read.resolve_idx
      /\ m.misc_index = read.misc_index /\ m.break_idx = read.break_idx
  BY <1>1 DEF Sound, Ranges, Nodes
<1>6. Processed(n) \in {m, read}
  BY <1>3
<1> HIDE DEF m
<1>7. Sound(m)
  BY <1>1, <1>4, <1>5 DEF Sound, Ranges
<1> QED BY <1>1, <1>5, <1>6, <1>7
-----------------------------------------------------------------------------
\* The store, promise or future value given to a read exists as long as its
\* execution may go on, and if the search was told to come back to the node,
\* something is still left there.
IInv ==
    /\ act \in Actions
    /\ phase \in {"reach", "run", "end", "left"}
    /\ {fresh, alive, flagged, backtrack} \subseteq BOOLEAN
    /\ Sound(node)
    /\ phase = "run" /\ alive /\ act.kind \in ReadKinds =>
          node.status # "NONE" /\ (node.status = "PAST" => node.past_idx < act.past)
    /\ phase \in {"run", "end"} /\ flagged => backtrack \/ ChoiceLeft(node)

LEMMA NonemptyIs == ASSUME NEW n PROVE Nonempty(n) <=> backtrack \/ ChoiceLeft(n)
BY DEF Nonempty, ChoiceLeft

LEMMA InitIInv == Init => IInv
<1> SUFFICES ASSUME Init PROVE IInv
  OBVIOUS
<1>1. FirstResolvable \in SUBSET Nat
  BY ActionsAssumption DEF Init, FirstResolvable, Resolvable
<1>2. node = [NewNode EXCEPT !.resolve = FirstResolvable]
  BY DEF Init
<1> HIDE DEF FirstResolvable
<1>3. <<>> \in Seq(FutureValue) /\ Len(<<>>) = 0
  OBVIOUS
<1>4. node \in Nodes
  <2>1. NewNode \in Nodes
    BY <1>3 DEF NewNode, Nodes
  <2> QED BY <1>1, <1>2, <2>1 DEF Nodes
<1>5. /\ node.status = "PAST" /\ node.past_idx = 0 /\ node.promise_idx = -1
      /\ node.future_values = <<>> /\ node.future_index = -1 /\ node.resolve_idx = -1
      /\ node.misc_index = 0 /\ node.break_idx = 0
  BY <1>2 DEF NewNode
<1>6. act \in Actions
  BY DEF Init
<1>7. Sound(node)
  BY <1>3, <1>4, <1>5, <1>6, Counts DEF Sound, Ranges
<1> QED BY <1>7 DEF Init, IInv

LEMMA ReachStep == IInv /\ Reach => IInv'
<1> SUFFICES ASSUME IInv, Reach PROVE IInv'
  OBVIOUS
<1> DEFINE n == IF NoValidReads THEN node ELSE Processed(node)
           ok == ~NoValidReads /\ (act.kind \in ReadKinds => n.status # "NONE")
<1>1. Sound(n) /\ (~NoValidReads /\ act.kind \in ReadKinds /\ n.status = "PAST" => n.past_idx < act.past)
  BY ProcessedStep DEF IInv
<1>2. /\ act' = act /\ node' = n /\ phase' = "run" /\ backtrack' = backtrack /\ fresh' = FALSE
      /\ alive' = (ok /\ ReadFrom(n) \notin act.old) /\ flagged' = Nonempty(n)
  BY DEF Reach
<1>3. flagged' <=> backtrack \/ ChoiceLeft(n)
  BY <1>2, NonemptyIs
<1>4. alive' \in BOOLEAN /\ flagged' \in BOOLEAN
  BY <1>2 DEF Nonempty
<1>5. alive' /\ act.kind \in ReadKinds => n.status # "NONE" /\ (n.status = "PAST" => n.past_idx < act.past)
  BY <1>1, <1>2
<1> HIDE DEF n, ok
<1>6. Sound(node)'
  BY <1>1, <1>2 DEF Sound, Ranges
<1>7. ChoiceLeft(node)' <=> ChoiceLeft(n)
  BY <1>2 DEF ChoiceLeft, misc_empty, read_from_empty, read_from_past_empty,
              read_from_promise_empty, future_value_empty, promise_empty, relseq_break_empty
<1> QED BY <1>2, <1>3, <1>4, <1>5, <1>6, <1>7 DEF IInv

LEMMA SendStep == ASSUME IInv, NEW fv \in FutureValues, SendFutureValue(fv)
                  PROVE  IInv'
<1> DEFINE added == add_future_value(node, fv)
<1>1. /\ Sound(added.node)
      /\ added.node.status = node.status /\ added.node.past_idx = node.past_idx
      /\ added.ok \/ ChoiceLeft(node) => ChoiceLeft(added.node)
  BY AddStep DEF IInv, SendFutureValue
<1>2. /\ UNCHANGED <<act, phase, fresh, alive, backtrack>> /\ phase = "run"
      /\ node' = added.node /\ flagged' = (flagged \/ added.ok)
  BY DEF SendFutureValue
<1> HIDE DEF added
<1>3. Sound(node)'
  BY <1>1, <1>2 DEF Sound, Ranges
<1>4. ChoiceLeft(node)' <=> ChoiceLeft(added.node)
  BY <1>2 DEF ChoiceLeft, misc_empty, read_from_empty, read_from_past_empty,
              read_from_promise_empty, future_value_empty, promise_empty, relseq_break_empty
<1> QED BY <1>1, <1>2, <1>3, <1>4 DEF IInv

LEMMA DivergeStep == IInv /\ Diverge => IInv'
<1> SUFFICES ASSUME IInv, Diverge PROVE IInv'
  OBVIOUS
<1> DEFINE next == increment_behaviors(node)
<1>1. Sound(next.node) /\ next.ok \in BOOLEAN /\ (ChoiceLeft(node) => next.ok)
  BY BehaviorStep DEF IInv
<1>2. /\ phase = "end" /\ flagged /\ node' = next.node /\ fresh' = next.ok
      /\ UNCHANGED <<act, alive, flagged, backtrack>>
      /\ phase' = IF next.ok THEN "reach" ELSE IF backtrack THEN "left" ELSE "crash"
  BY DEF Diverge
<1>3. backtrack \/ next.ok
  BY <1>1, <1>2 DEF IInv
<1> HIDE DEF next
<1>4. Sound(node)'
  BY <1>1, <1>2 DEF Sound, Ranges
<1>5. phase' \in {"reach", "left"}
  BY <1>2, <1>3
<1> QED BY <1>1, <1>2, <1>4, <1>5 DEF IInv

\* The steps that leave the node as it is.
LEMMA QuietStep ==
    ASSUME IInv, UNCHANGED <<act, node>>, UNCHANGED <<fresh, alive>>,
           \/ UNCHANGED <<phase, flagged, backtrack>>
           \/ SetBacktrack \/ EndExecution \/ Replay \/ Leave
    PROVE  IInv'
<1>1. Sound(node)' /\ (ChoiceLeft(node)' <=> ChoiceLeft(node))
  BY DEF IInv, Sound, Ranges, ChoiceLeft, misc_empty, read_from_empty, read_from_past_empty,
         read_from_promise_empty, future_value_empty, promise_empty, relseq_break_empty
<1>2. CASE UNCHANGED <<phase, flagged, backtrack>>
  BY <1>1, <1>2 DEF IInv
<1>3. CASE SetBacktrack
  BY <1>1, <1>3 DEF IInv, SetBacktrack
<1>4. CASE EndExecution
  BY <1>1, <1>4 DEF IInv, EndExecution
<1>5. CASE Replay
  BY <1>1, <1>5 DEF IInv, Replay
<1>6. CASE Leave
  BY <1>1, <1>6 DEF IInv, Leave
<1> QED BY <1>2, <1>3, <1>4, <1>5, <1>6

LEMMA NextStep == IInv /\ [Next]_vars => IInv'
<1> SUFFICES ASSUME IInv, [Next]_vars PROVE IInv'
  OBVIOUS
<1>1. CASE Reach
  BY <1>1, ReachStep
<1>2. CASE \E fv \in FutureValues : SendFutureValue(fv)
  BY <1>2, SendStep
<1>3. CASE Diverge
  BY <1>3, DivergeStep
<1>4. CASE SetBacktrack
  BY <1>4, QuietStep DEF SetBacktrack
<1>5. CASE EndExecution
  BY <1>5, QuietStep DEF EndExecution
<1>6. CASE Replay
  BY <1>6, QuietStep DEF Replay
<1>7. CASE Leave
  BY <1>7, QuietStep DEF Leave
<1>8. CASE UNCHANGED vars
  BY <1>8, QuietStep DEF vars
<1> QED BY <1>1, <1>2, <1>3, <1>4, <1>5, <1>6, <1>7, <1>8 DEF Next

\* The assertions of process_read, get_read_from_promise, get_future_value and
\* get_next_backtrack do not fail, whatever the action, however many stores
\* and promises there are, and whenever future values arrive.
THEOREM NodeNeverAsserts == Spec => []NodeAsserts
<1>1. IInv => NodeAsserts
  <2> SUFFICES ASSUME IInv PROVE NodeAsserts
    OBVIOUS
  <2>1. TypeOK
    BY DEF IInv, TypeOK, Sound, Ranges
  <2>2. node.status \in {"PAST", "PROMISE", "FUTURE", "NONE"}
    BY DEF IInv, Sound, Ranges, Nodes
  <2> QED BY <2>1, <2>2 DEF NodeAsserts, IInv, Sound, Ranges
<1> QED BY InitIInv, NextStep, <1>1, PTL DEF Spec
=============================================================================
