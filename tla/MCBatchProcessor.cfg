SPECIFICATION FairSpec
CONSTANTS
    b1 = b1
    b2 = b2
    Batch = {b1, b2}
    Items <- MCItems
    MaxItems = 2
    MaxConcurrent = 1
    MaxAttempts = 2
    MaxCrashes = 1
INVARIANTS NoReplay OutputComplete CancelBounds SlotsRespected
PROPERTIES StatusIsFinal BatchSettles
CHECK_DEADLOCK FALSE
