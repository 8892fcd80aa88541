SPECIFICATION ReplicaSpec
CONSTANTS
    n1 = n1
    n2 = n2
    n3 = n3
    Nil = Nil
    Node = {n1, n2, n3}
    Bootstrap = {n1, n2}
    Command <- Commands
    SnapshotData = {}
    VoterSets = {{n1, n2, n3}}
    CompactPoints = {}
    KeyOrder <- Keys
    Value <- Values
    Proposals <- Writes
    Retain = 1
    Crashable = {n2}
    Campaigners = {n1}
    MaxTerm = 1
    MaxIndex = 2
    MaxInFlight = 2
CONSTRAINT Scope
INVARIANTS
    MatchIndexSound
    DurableMatchesMemory
    DrainNeverPanics
    ReplicasConverge
    WireFaithful
