SPECIFICATION Spec
CONSTANTS
  Request = {r1, r2, r3}
  FailureThreshold = 3
  DegradationThreshold = 2
  HalfOpenRequests = 2
  ResetTimeout = 1
  DefaultTimeout = 2
  EscalationCount = 1
  MaxMultiplier = 2
  HintCooldown = 3
  MaxCycles = 2
SYMMETRY Symmetry
INVARIANTS
  TypeOK
  ProbesBounded
  StateMatchesCount
PROPERTIES
  RestartIsInvisible
  EscalationSurvives
  ComboKeepsCooldown
