SPECIFICATION FairSpec
CONSTANTS
  a1 = a1
  a2 = a2
  n1 = n1
  Agents = {a1, a2}
  Nodes = {n1}
  NodeOf <- MCNodeOf
  MessageIds <- MCMessageIds
  NoBatch = NoBatch
  MaxClockSkew = 1
  StaleAfter = 1
  MaxClock = 2
  Offset <- MCOffset
  CollectedEnvelopes = {"ok"}
  MaxSequence = 1
  MaxStarts = 0
  WritesFail = FALSE
CHECK_DEADLOCK FALSE
PROPERTY RetryOfAcceptedIsAcknowledged
