SPECIFICATION Spec
CONSTANTS
    Programs <- All
INVARIANTS ResultsAreSC Repaired WeakerAsserts
PROPERTIES CheckedOnce Terminates
