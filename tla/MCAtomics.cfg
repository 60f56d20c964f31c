SPECIFICATION Spec
CONSTANTS
    Threads = {t1, t2}
    NONE = NONE
    Bits <- CBits
    WordBits = 4
    CharSigned = TRUE
    Operands <- COperands
    MaxStores <- CMaxStores
INVARIANTS StateExact
PROPERTIES ImplementsAtomicObject
CHECK_DEADLOCK FALSE
