SPECIFICATION Spec
CONSTANTS
  Request = {r1, r2}
  FailureThreshold = 3
  DegradationThreshold = 2
  HalfOpenRequests = 1
  ResetTimeout = 1
  DefaultTimeout = 2
  EscalationCount = 1
  MaxMultiplier = 2
  HintCooldown = 3
  MaxCycles = 2
SYMMETRY Symmetry
INVARIANTS
  HalfOpenHasProbe
