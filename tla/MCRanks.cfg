SPECIFICATION FairSpec
CONSTANTS
  Modes <- AllModes
  Minimums = {0, 1}
  Warmup = 1
  Iterations = 2
  IterationCap = 2
  MaxSteps = 3
  BurstCollectives = 2
  BarrierEvery = 2
  InferenceEvery = 2
  Faults = {"exception", "inject_timeout"}
CHECK_DEADLOCK FALSE
INVARIANTS TypeOK CollectivesMatch CompletionIsJoint
PROPERTIES ImplementsProcesses EveryRunCompletes EveryRankEnds
