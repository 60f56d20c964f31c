SPECIFICATION Spec
CONSTANTS
    MaxThreads = 3
    Mutexes = {m1, m2}
    CondVars = {c1}
    MaxOps = 3
    YieldBlock = FALSE
INVARIANTS
    TypeOK
    MutexOwnership
    TakeStepAsserts
    NoLostWakeup
    WaitCyclesReported
    DeadlockReportExact
