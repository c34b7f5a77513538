SPECIFICATION RoutingSpec
CONSTANTS
  Owner = {o1, o2}
  Key = {k1}
  Connection = {c1, c2}
  MinTTL = 1
  MaxTTL = 1
  RequestedTTL = {1}
  MaxTime = 1
  MaxRows = 5
  Request = {r1, r2}
  Anonymous = {r1, r2}
  OAuth = {}
  Emergency = {c2}
  Retries = {"redo", "hop"}
  None = None
  MaxWaits = 0
  MaxRequests = 4
SYMMETRY Symmetry
PROPERTIES
  FencedDispatchOrder
CHECK_DEADLOCK FALSE
