SPECIFICATION Spec
CONSTANTS
  c1 = c1
  c2 = c2
  Contexts = {c1, c2}
  Slots = {1, 2}
  FamilyOf <- MCFamilyOf
  RequiredFamilies = {"family"}
  MinimumRuns = 2
  Payloads = {1, 2}
  Repetitions = 2
  Floor = 1
  Sweeps <- MCSweeps
  Absent = Absent
  Torn = Torn
  NoRun = NoRun
  NoPrior = NoPrior
  MaxRuns = 3
  MaxFaults = 2
SYMMETRY Sessions
CHECK_DEADLOCK FALSE
INVARIANTS
  TypeOK
  SupportedSweepIsClean
  SupportedSweepResponds
  SweepsAreNotRepeated
  CollectionIsGated
  WorkIsNotRepeated
  GateRestsOnOwnEvidence
  RefusalsHaveACause
