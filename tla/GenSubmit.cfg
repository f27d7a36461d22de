SPECIFICATION Spec
CONSTANTS
    Types = {"VIDEO"}
    Workers = {w1}
    Polls = {p1}
    MaxAttempts = 2
    MaxPolls = 2
    MaxDispatch = 1
    MaxFaults = 1
INVARIANT SubmittedOnce
CHECK_DEADLOCK FALSE
