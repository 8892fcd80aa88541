SPECIFICATION OperatedSpec
CONSTANTS
    n1 = n1
    n2 = n2
    n3 = n3
    n4 = n4
    Nil = Nil
    Node = {n1, n2, n3}
    Bootstrap = {n1, n2}
    Command = {}
    SnapshotData = {d1}
    VoterSets = {{n1, n2, n3}, {n1}, {n2}}
    CompactPoints = {1, 2}
    Crashable = {}
    Campaigners = {n1, n3}
    MaxTerm = 2
    MaxIndex = 1
    MaxInFlight = 2
CONSTRAINT Scope
CHECK_DEADLOCK FALSE
INVARIANTS
    TargetsTracked
    ElectionSafety
    LeaderCompleteness
    ConfigLockstep
    SnapshotConfigSound
