SPECIFICATION Spec
CONSTANTS
    Types = {"IMAGE", "VIDEO"}
    Workers = {w1, w2}
    Polls = {p1, p2}
    MaxAttempts = 2
    MaxPolls = 2
    MaxDispatch = 1
    MaxFaults = 1
SYMMETRY Symmetry
INVARIANTS
    GenerationTypeOK
    CreditsFollowJob
    DeliveredIffCharged
    PollsKnowTheirTask
    ChainsNeedFaults
PROPERTIES
    ImplementsLifecycle
    ProviderIdIsStable
CHECK_DEADLOCK FALSE
