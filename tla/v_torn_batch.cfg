SPECIFICATION TornSpec
CONSTANTS
    Nil = Nil
    Self = self
    Learner = learner
    Token = token
    Received = {}
    Call = {c1}
    Kinds = {"Propose", "ConfigChange", "AddLearner", "RemoveLearner"}
    Peer = {p1}
    Capacity = 1
    Threshold = 2
    MaxTerm = 2
    MaxIndex = 2
INVARIANT
    RecoversAligned
