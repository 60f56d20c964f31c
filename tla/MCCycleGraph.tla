---------------------------- MODULE MCCycleGraph ----------------------------
(* Small instances of CycleGraph for TLC. *)
EXTENDS CycleGraph, TLC

\* Promises are interchangeable; writes are numbered as they execute.
PromiseSymmetry == Permutations(Promises)
=============================================================================
