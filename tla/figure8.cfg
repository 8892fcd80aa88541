SPECIFICATION Spec
CONSTANTS
    n1 = n1
    n2 = n2
    n3 = n3
    n4 = n4
    Nil = Nil
    Node = {n1, n2, n3}
    Bootstrap = {n1, n2, n3}
    Command = {c1}
    SnapshotData = {d1}
    VoterSets = {}
    CompactPoints = {}
    Crashable = {}
    Campaigners = {n1, n2}
    MaxTerm = 4
    MaxIndex = 1
    MaxInFlight = 2
SYMMETRY NodeSymmetry
CONSTRAINT Scope
CHECK_DEADLOCK FALSE
INVARIANTS
    StateMachineSafety
    LeaderCompleteness
