SPECIFICATION Spec
CONSTANTS
    Families <- Small
    Tools <- Both
INVARIANTS ListExact VerdictExact
PROPERTIES Terminates
CHECK_DEADLOCK FALSE
