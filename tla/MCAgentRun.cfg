SPECIFICATION RunSpec
CONSTANTS
  a1 = a1
  a2 = a2
  n1 = n1
  Agents = {a1}
  Nodes = {n1}
  NodeOf <- MCNodeOf
  MessageIds <- MCMessageIds
  NoBatch = NoBatch
  MaxClockSkew = 1
  StaleAfter = 1
  MaxClock = 1
  Offset <- MCOffset
  CollectedEnvelopes = {"ok", "payload_too_large"}
  MaxCycles = 3
  MaxOrphans = 2
  MaxSequence = 4
  MaxStarts = 0
  HeartbeatsUsed = FALSE
  ServiceRestarts = FALSE
CHECK_DEADLOCK FALSE
PROPERTY EveryRunDelivers
INVARIANT OnlyTheClockRefuses
