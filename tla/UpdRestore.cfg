SPECIFICATION UpdateSpec
CONSTANTS
    Ops = {"o1", "o2"}
    Shells = {"m1"}
    Versions = {"v1", "v2", "v3"}
    First = "v1"
    MaxUpdateFaults = 1
INVARIANTS
    RestoreFindsPostgres
CHECK_DEADLOCK FALSE
