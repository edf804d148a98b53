SPECIFICATION Spec
CONSTANTS
  StoreFails = FALSE
INVARIANT EveryRunLeavesEvidence
