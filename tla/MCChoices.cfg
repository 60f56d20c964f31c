SPECIFICATION Spec
CONSTANTS
    Actions <- AllActions
    FutureValues <- FutureChoices
    ExpireSlop = 1
    MaxFutureValues = 0
    MaxReplays = 1
    MaxSent = 3
INVARIANTS NodeAsserts ValuesAreRead
PROPERTIES ImplementsAgenda
CHECK_DEADLOCK FALSE
