SPECIFICATION FairSpec
CONSTANTS
  a1 = a1
  a2 = a2
  n1 = n1
  Agents = {a1}
  Nodes = {n1}
  NodeOf <- MCNodeOf
  MessageIds <- MCMessageIds
  NoBatch = NoBatch
  MaxClockSkew = 1
  StaleAfter = 1
  MaxClock = 0
  Offset <- MCOffset
  CollectedEnvelopes = {"ok"}
  MaxOrphans = 2
  MaxSequence = 3
  MaxStarts = 0
  HeartbeatsUsed = TRUE
  ServiceRestarts = FALSE
CHECK_DEADLOCK FALSE
PROPERTY TransportFailureIsRetryable
