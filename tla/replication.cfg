SPECIFICATION Spec
CONSTANTS
    n1 = n1
    n2 = n2
    n3 = n3
    n4 = n4
    Nil = Nil
    Node = {n1, n2, n3}
    Bootstrap = {n1, n2, n3}
    Command = {c1}
    SnapshotData = {d1}
    VoterSets = {}
    CompactPoints = {}
    Crashable = {}
    Campaigners = {n1, n2}
    MaxTerm = 3
    MaxIndex = 2
    MaxInFlight = 2
SYMMETRY NodeSymmetry
CONSTRAINT Scope
VIEW NoElections
CHECK_DEADLOCK FALSE
INVARIANTS
    LogMatching
    MatchIndexSound
    StateMachineSafety
    CommittedIsPresent
