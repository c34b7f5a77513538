SPECIFICATION FairSpec
CONSTANTS
    Calls = {k1, k2}
    NoCall = NoCall
    Conns = {c1}
    MaxTokens = 3
    Faults = {"lost", "gaveUp", "overlap", "unsaved", "reauth"}
    MaxFaults = 2
    Attempts = 2
    ExpiresWhileHeld = TRUE
    QuickRotations = FALSE
INVARIANTS NoReuse RowIsCurrent
PROPERTIES RowNeverReverts LeaderSparesAccount RefreshSettles
CHECK_DEADLOCK FALSE
