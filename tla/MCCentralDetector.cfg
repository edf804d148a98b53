SPECIFICATION DetectorSpec
CONSTANTS
  a1 = a1
  a2 = a2
  a3 = a3
  n1 = n1
  n2 = n2
  b1 = b1
  b2 = b2
  b3 = b3
  b4 = b4
  h1 = h1
  Agents = {a1, a2, a3}
  Nodes = {n1, n2}
  NodeOf <- MCNodeOf
  MessageIds = {b1, b2, b3, b4, h1}
  NoBatch = NoBatch
  MaxClockSkew = 1
  StaleAfter = 1
  MaxClock = 3
  Messages <- MCMessages
  None = None
  Windows <- MCWindows
  NoScore = NoScore
  MaxScore = 1
  Threshold = 1
  AbstentionMargin = 0
INVARIANTS
  DetectorTypeOK
  TelemetryIsOneChain
  AcceptedSequencesAreAnInterval
  NodeViewAgreesWithAgents
  NodeLossIsLossOfAllItsAgents
  ScoredDecisionsCoverEveryAgent
  NoEvidenceFromTheFuture
