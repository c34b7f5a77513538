SPECIFICATION RoutingSpec
CONSTANTS
  Owner = {o1, o2}
  Key = {k1}
  Connection = {c1, c2}
  MinTTL = 1
  MaxTTL = 1
  RequestedTTL = {1}
  MaxTime = 2
  MaxRows = 6
  Request = {r1, r2}
  Anonymous = {r1, r2}
  OAuth = {c1, c2}
  Emergency = {}
  Retries = {"redo", "reopen", "transport", "hop"}
  None = None
  MaxWaits = 1
  MaxRequests = 3
INVARIANTS
  NoUninvitedLease
CHECK_DEADLOCK FALSE
