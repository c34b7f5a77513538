SPECIFICATION FairLaneSpec
CONSTANTS
    Calls = {k1, k2, k3}
    Groups = {g1, g2}
    NoCall = NoCall
    Spacing = TRUE
INVARIANTS LaneExclusive
PROPERTIES TurnsInOrder LaneServes

