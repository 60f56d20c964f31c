---------------------------- MODULE AtomicObject ----------------------------
(***************************************************************************)
(* What an atomic object promises (C++11 29.6): a value of its type, which *)
(* loads, stores, updates and compare-and-exchanges access in one step     *)
(* each.  Its stores are in a modification order.  A load may return an    *)
(* old one, but none older than what the thread has seen; an update comes  *)
(* right behind the store it read, for good.  A compare-and-exchange that  *)
(* fails is a load.                                                        *)
(*                                                                         *)
(* This is a reference: no definition here is taken from the code.         *)
(***************************************************************************)
EXTENDS Integers, Sequences

CONSTANTS Threads, Calls

VARIABLES
    type,     \* of the object: [bits, signed]; one bit is a truth value
    order,    \* the modification order: [val, update]
    seen,     \* the position in order that each thread has seen
    result    \* of the last call, until the next begins: [by, call, value, ok]

vars == <<type, order, seen, result>>

Values == IF type.signed THEN -(2^(type.bits-1))..2^(type.bits-1)-1 ELSE 0..2^type.bits-1

\* Truth values collapse, other values wrap around; bits are taken one by one.
Cast(x) == IF type.bits = 1 THEN IF x = 0 THEN 0 ELSE 1
           ELSE CHOOSE v \in Values : (v - x) % 2^type.bits = 0
BitsOf(v)   == {i \in 0..type.bits-1 : (v \div 2^i) % 2 = 1}
FromBits(S) == CHOOSE v \in Values : BitsOf(v) = S

Apply(fn, v, a) ==
    CASE fn = "=" -> Cast(a)
      [] fn = "+" -> Cast(v + a)
      [] fn = "-" -> Cast(v - a)
      [] fn = "&" -> FromBits(BitsOf(v) \cap BitsOf(a))
      [] fn = "|" -> FromBits(BitsOf(v) \cup BitsOf(a))
      [] fn = "^" -> FromBits((BitsOf(v) \cup BitsOf(a)) \ (BitsOf(v) \cap BitsOf(a)))

\* A call tells whether it wants the value before or after its update, or how
\* the value before compares with what it expects.
Answer(c, old, new) ==
    LET Truth(b) == IF b THEN 1 ELSE 0
    IN  CASE c.answer = "none" -> 0
          [] c.answer = "old"  -> old
          [] c.answer = "new"  -> new
          [] c.answer = "=="   -> Truth(old = Cast(c.expected))
          [] c.answer = ">"    -> Truth(old > Cast(c.expected))
          [] c.answer = ">="   -> Truth(old >= Cast(c.expected))
          [] c.answer = "<"    -> Truth(old < Cast(c.expected))
          [] c.answer = "<="   -> Truth(old <= Cast(c.expected))

-----------------------------------------------------------------------------
Updated(p) == p < Len(order) /\ order[p+1].update

\* A store goes in at position p; what the others have seen moves with it.
Insert(t, p, v, update) ==
    /\ order' = SubSeq(order, 1, p-1) \o <<[val |-> v, update |-> update]>> \o SubSeq(order, p, Len(order))
    /\ seen' = [u \in Threads |-> IF u = t THEN p ELSE IF seen[u] >= p THEN seen[u] + 1 ELSE seen[u]]

Load(t, c) == \E p \in seen[t]..Len(order) :
    /\ c.fn = "load"
    /\ seen' = [seen EXCEPT ![t] = p]
    /\ result'.value = order[p].val /\ result'.ok
    /\ order' = order

Store(t, c) == \E p \in seen[t]+1..Len(order)+1 :
    /\ c.fn = "store" /\ ~Updated(p-1)
    /\ Insert(t, p, Cast(c.arg), FALSE)
    /\ result'.value = Answer(c, Cast(c.arg), Cast(c.arg)) /\ result'.ok

Update(t, c) == \E p \in seen[t]..Len(order) :
    /\ c.fn \in {"=", "+", "-", "&", "|", "^"} /\ ~Updated(p)
    /\ Insert(t, p+1, Apply(c.fn, order[p].val, c.arg), TRUE)
    /\ result'.value = Answer(c, order[p].val, Apply(c.fn, order[p].val, c.arg)) /\ result'.ok

CompareExchange(t, c) == \E p \in seen[t]..Len(order) :
    /\ c.fn = "cas"
    /\ result'.ok = (order[p].val = Cast(c.expected))
    /\ result'.value = order[p].val
    /\ \/ result'.ok /\ ~Updated(p) /\ Insert(t, p+1, Cast(c.arg), TRUE)
       \/ ~result'.ok /\ order' = order /\ seen' = [seen EXCEPT ![t] = p]

\* The program chooses who calls what.
Do(t, c) == Load(t, c) \/ Store(t, c) \/ Update(t, c) \/ CompareExchange(t, c)

Init == \E v \in Values : /\ order = <<[val |-> v, update |-> FALSE]>>
                          /\ seen = [t \in Threads |-> 1]

\* A call begins: the last answer is gone, and nothing else has changed.
Begin == result'.by \notin Threads /\ UNCHANGED <<order, seen>>

Next == /\ \/ result'.by \in Threads /\ result'.call \in Calls /\ Do(result'.by, result'.call)
           \/ Begin
        /\ type' = type

Spec == Init /\ [][Next]_vars
=============================================================================
