SPECIFICATION Spec
CONSTANTS
  Threads <- FourThreads
  Configs <- AllConfigs
INVARIANTS DeadlocksFound ReplayExact FairnessExact
PROPERTIES Exhaustive
