----------------------------- MODULE MCAtomics -----------------------------
EXTENDS Atomics
CBits == [char |-> 2, short |-> 2, int |-> 3, long |-> 3, address |-> 3]
COperands == {1, 6}
CMaxStores == [T \in DOMAIN struct |-> CASE T = "flag" -> 6 [] T = "bool" -> 3 [] T \in {"schar", "uint", "pointer"} -> 3 [] OTHER -> 2]
=============================================================================
