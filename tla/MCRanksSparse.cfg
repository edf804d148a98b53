SPECIFICATION FairSpec
CONSTANTS
  Modes <- MCSparseMode
  Minimums = {1}
  Warmup = 1
  Iterations = 2
  IterationCap = 0
  MaxSteps = 3
  BurstCollectives = 2
  BarrierEvery = 2
  InferenceEvery = 2
  Faults = {}
CHECK_DEADLOCK FALSE
PROPERTY FinalAgreementIsReached
