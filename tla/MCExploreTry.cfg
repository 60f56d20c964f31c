SPECIFICATION Spec
CONSTANTS
  Threads <- FourThreads
  Configs <- TryConfigs
INVARIANT EveryOutcomeFound
