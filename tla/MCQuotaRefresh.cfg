SPECIFICATION FairQuotaSpec
CONSTANTS
    q1 = q1
    k1 = k1
    k2 = k2
    Calls = {q1, k1, k2}
    Quota = {q1}
    Groups = {g1}
    NoCall = NoCall
    Spacing = TRUE
PROPERTIES LaneServes
CHECK_DEADLOCK FALSE
