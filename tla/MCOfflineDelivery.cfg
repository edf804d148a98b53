SPECIFICATION Spec
CONSTANTS
  a1 = a1
  a2 = a2
  n1 = n1
  Agents = {a1, a2}
  Nodes = {n1}
  NodeOf <- MCNodeOf
  MessageIds <- MCMessageIds
  NoBatch = NoBatch
  MaxClockSkew = 1
  StaleAfter = 1
  MaxClock = 2
  Offset <- MCOffset
  CollectedEnvelopes = {"ok", "payload_too_large"}
  MaxSequence = 2
  MaxStarts = 0
  WritesFail = TRUE
CHECK_DEADLOCK FALSE
INVARIANTS TypeOK FilesAgreeWithService
PROPERTY ImplementsPipe
