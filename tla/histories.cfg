SPECIFICATION ElectedSpec
CONSTANTS
    n1 = n1
    n2 = n2
    n3 = n3
    Nil = Nil
    Node = {n1, n2, n3}
    Bootstrap = {n1, n2, n3}
    Command <- Commands
    SnapshotData = {}
    VoterSets = {}
    CompactPoints = {}
    KeyOrder <- OneKey
    Value <- OpValues
    Proposals = {}
    Retain = 0
    Clients = 2
    MaxOps = 2
    Kinds = {"Set", "Get"}
    Crashable = {n1}
    MaxTerm = 2
    MaxIndex = 2
    MaxInFlight = 2
CONSTRAINT Scope
CHECK_DEADLOCK FALSE
INVARIANTS
    HistoryLinearizable
    ReplicasAgree
PROPERTIES
    CheckerExact
    ImplementsAtomicStore
