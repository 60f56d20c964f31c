SPECIFICATION Spec
CONSTANTS
    MaxWrites = 3
    Promises = {p1, p2}
    MaxEdges = 2
    MaxReads = 2
SYMMETRY PromiseSymmetry
INVARIANTS ClaimsAreTrue OnlyHandoverFails TransactionsExact
