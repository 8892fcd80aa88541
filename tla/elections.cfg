SPECIFICATION Spec
CONSTANTS
    n1 = n1
    n2 = n2
    n3 = n3
    n4 = n4
    Nil = Nil
    Node = {n1, n2, n3}
    Bootstrap = {n1, n2, n3}
    Command = {c1}
    SnapshotData = {d1}
    VoterSets = {}
    CompactPoints = {}
    Crashable = {n1, n2, n3}
    Campaigners = {n1, n2, n3}
    MaxTerm = 2
    MaxIndex = 1
    MaxInFlight = 2
SYMMETRY NodeSymmetry
CONSTRAINT Scope
INVARIANTS
    TypeOK
    VoteOnce
    ElectionSafety
    DurableMatchesMemory
PROPERTIES
    VoteIsFinal
