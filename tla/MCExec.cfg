SPECIFICATION Spec
CONSTANT
    Families <- ExecFamilies
INVARIANTS TypeOK  FeasibleIsConsistent HappensBeforeExact
CHECK_DEADLOCK FALSE
