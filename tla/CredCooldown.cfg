SPECIFICATION FairCredentialsSpec
CONSTANTS
    Creds = {"c1", "c2"}
    Calls = {"w1"}
    Tokens = {"t1", "t2", "t3"}
    Rank <- MCRank
    Limits = {1}
    RetryAttempts = 2
    MaxDisturbances = 0
PROPERTIES
    CooledDownComesBack
CHECK_DEADLOCK FALSE
