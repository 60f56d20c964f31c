SPECIFICATION Spec
CONSTANTS
    a = a
    b = b
    Threads = {m, a, b}
    Main = m
    NONE = NONE
    Values = {1}
    MaxAccesses = 4
    MaxPromises = 2
SYMMETRY Children
INVARIANTS TypeOK GivenUpIsHopeless AcceptedIsReal
CHECK_DEADLOCK FALSE
