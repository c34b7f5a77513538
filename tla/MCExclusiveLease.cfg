SPECIFICATION Spec
CONSTANTS
  Owner = {o1, o2}
  Key = {k1, k2}
  Connection = {c1, c2}
  MinTTL = 1
  MaxTTL = 2
  RequestedTTL = {9}
  MaxTime = 2
  MaxRows = 3
SYMMETRY Symmetry
INVARIANTS
  TypeOK
  ActiveUnique
  GenerationHasOneKey
  ActiveIsNewest
PROPERTIES
  GenerationNeverReturns
  ReleaseIsFinal
  HistoryIsFrozen
  ImplementsRegistry
CHECK_DEADLOCK FALSE
