SPECIFICATION Spec
CONSTANTS
    Threads = {t1, t2, t3}
    Nobody = nobody
    MaxSections = 3
INVARIANTS CounterExact OnlyOneAssertFails
PROPERTIES ImplementsRWLock EveryoneGetsThrough
CHECK_DEADLOCK FALSE
