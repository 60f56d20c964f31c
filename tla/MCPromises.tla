----------------------------- MODULE MCPromises -----------------------------
EXTENDS Promises, TLC
CONSTANTS a, b
Children == Permutations({a, b})
=============================================================================
