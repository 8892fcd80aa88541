SPECIFICATION TimingSpec
CONSTANTS
    Node = {n1, n2, n3}
    Membership <- Removing
    n1 = n1
    n2 = n2
    n3 = n3
    HeartbeatInterval = 2
    ElectionTimeout <- StartTimeouts
    Draws <- SpreadDraws
    MinDelay = 1
    MaxDelay = 2
    Isolatable = {n1}
    MaxOutages = 1
    OutageTerm = 2
    Patience = 26
INVARIANTS
    LedWithinPatience
PROPERTIES
    StableLeadership
