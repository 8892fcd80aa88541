SPECIFICATION OperatedSpec
CONSTANTS
    n1 = n1
    n2 = n2
    n3 = n3
    n4 = n4
    Nil = Nil
    Node = {n1, n2}
    Bootstrap = {n1}
    Command = {c1}
    SnapshotData = {d1}
    VoterSets = {}
    CompactPoints = {1, 2}
    Crashable = {}
    Campaigners = {n1}
    MaxTerm = 1
    MaxIndex = 2
    MaxInFlight = 2
CONSTRAINT Scope
CHECK_DEADLOCK FALSE
INVARIANTS
    CommittedIsPresent
