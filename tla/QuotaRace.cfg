SPECIFICATION QuotaSpec
CONSTANTS
    Clients = {"r1", "r2"}
    maxConcurrentGenerations = 2
    dailyGenerationLimit = 3
INVARIANTS
    LimitsAreKept
