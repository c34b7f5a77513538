SPECIFICATION FairRoutingSpec
CONSTANTS
  Owner = {o1, o2}
  Key = {k1}
  Connection = {c1, c2}
  MinTTL = 1
  MaxTTL = 1
  RequestedTTL = {1}
  MaxTime = 0
  MaxRows = 3
  Request = {r1, r2}
  Anonymous = {r2}
  OAuth = {}
  Emergency = {}
  Retries = {"redo", "reopen", "transport", "hop"}
  None = None
  MaxWaits = 1
  MaxRequests = 2
PROPERTIES
  RequestTerminates
CHECK_DEADLOCK FALSE
