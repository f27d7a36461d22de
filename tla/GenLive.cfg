SPECIFICATION FairSpec
CONSTANTS
    Types = {"VIDEO"}
    Workers = {w1}
    Polls = {p1, p2}
    MaxAttempts = 2
    MaxPolls = 2
    MaxDispatch = 1
    MaxFaults = 1
PROPERTIES
    JobsEnd
    QueuedJobsAreRecovered
CHECK_DEADLOCK FALSE
