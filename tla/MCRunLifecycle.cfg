SPECIFICATION FairSpec
CONSTANTS
  StoreFails = TRUE
INVARIANTS OneRunAtATime CompletedIsEarned CompletedTelemetryIsFinal
PROPERTY EveryCallEnds
