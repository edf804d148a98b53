CONSTANTS
  Windows = {2, 4}
  PrimaryWindow = 4
  Tolerance = 1
  Warmup = 2
  NoInterval = NoInterval
  TestTenths = 2
  ValidationTenths = 2
  Slots <- MCSlots
  PlanOf <- MCPlanOf
  EvidenceOf <- MCEvidenceOf
  RequiredFamilies = {"ddp", "pipeline", "idle"}
  Gates <- MCGates
  AnalystGroups <- MCAnalystGroups
  Strategies <- MCStrategies
  Selections <- MCSelections
  PeriodicStudy <- MCPeriodicStudy
  Series <- Segmented
  HoldoutPlans <- MCHoldoutPlans
  Sessions = {"adv1", "adv2"}
  Absent = Absent
  Torn = Torn
  Invalid = Invalid
  MaxFaults = 1
SPECIFICATION Spec
INVARIANTS
  TypeOK
  PairingIsMaximum
  EveryRunIsAccountedFor
  SplitsAreSound
  HoldoutStaysSealed
  AcceptancePrecedesCollection
  EvaluationIsRefusedForCause
CHECK_DEADLOCK FALSE
