SPECIFICATION ServerSpec
CONSTANTS
    Nil = Nil
    Self = self
    Learner = learner
    Token = token
    Received <- Transition
    Call = {c1}
    Kinds = {"Propose", "ConfigChange", "AddLearner", "RemoveLearner"}
    Peer = {p1}
    Capacity = 1
    Threshold = 2
    MaxTerm = 2
    MaxIndex = 1
INVARIANTS
    PromisesSurvive
    AnswerIsVouchedFor
    TailBounded
    ReachableIsRegistered
PROPERTIES
    CallsAreAnswered
