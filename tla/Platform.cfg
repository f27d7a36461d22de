SPECIFICATION PlatformSpec
CONSTANTS
    Keys = {"secretKey", "maxBytes"}
    CachedKeys = {"maxBytes"}
    RebuildOrder <- MCOrder
    Groups <- MCGroups
    Values = {"x"}
    Admins = {"a1", "a2"}
    Readers = {"g1"}
    MaxVersion = 2
    MaxSettingFaults = 1
    Creds = {"c1", "c2"}
    Calls = {"w1", "w2"}
    Tokens = {"t1", "t2", "t3"}
    Rank <- MCRank
    Limits = {1}
    RetryAttempts = 2
    MaxDisturbances = 1
    Ops = {"o1", "o2"}
    Shells = {"m1"}
    Versions = {"v1", "v2", "v3"}
    First = "v1"
    MaxUpdateFaults = 1
    Instances = {"i1", "i2"}
    Assets = {"x1", "x2"}
    Storages <- MCStorages
    MaxCleanupFaults = 1
    Clients = {"r1", "r2", "r3"}
    maxConcurrentGenerations = 2
    dailyGenerationLimit = 3
    SetUps = {"s1", "s2"}
    Registrations = {"n1", "n2"}
    Emails = {"a", "b", "c"}
    Pictures = {"2048x2048", "1024x1024", "1920x1080"}
    SizeOf <- MCSizeOf
    Clips = {"1280x720", "720x1280", "2560x1440"}
    Width <- MCWidth
    Height <- MCHeight
    Covered = {"1280x720", "1920x1080", "2048x2048"}
    Qualities = {"hd"}
    Rates = {"24"}
INVARIANTS
    HistoryExplainsRow
    LeasesAreCalls
    LeftoversAreOfOldStorages
    RunsKeepTheirLock
    OvershootNeedsOverlap
    OneFirstAdministrator
    AnyWordingSamePrice
PROPERTIES
    CacheConverges
    StoredConfigurationWins
    SlotGivenIffFree
    RecordIsWhatRuns
CHECK_DEADLOCK FALSE
