SPECIFICATION FairSpec
CONSTANTS
  Caller = {p1, p2, p3}
  NumGates = 2
  Requirement <- MCRequirement
  MaxQueue = 2
  MaxBlocks = 1
  KeyReset = TRUE
  MaxResets = 1
INVARIANTS
  WaitersAwaitPermits
  RunningIsHeld
  QueuesAgree
PROPERTIES
  AdmissionsFitUntilReset
  NoOvertaking
  NoWaiterLeftBehind
  WaitersSettle
