\* Every computation on every input; a task that has run has nothing left to do.
CONSTANTS
    unset = unset
    missing = missing
    notRun = notRun
    server1 = server1
    server2 = server2
    server3 = server3
    cluster1 = cluster1
    cluster2 = cluster2
    Unset <- unset
    Missing <- missing
    NotRun <- notRun
    EnvIntBits = 8
    IntBits = 5
    DefaultPageSize = 4
    OfflineAfter = 1
    Threshold <- MCThreshold
    Defaults <- MCDefaults
    Inputs <- MCInputs
SPECIFICATION Spec
CHECK_DEADLOCK FALSE
INVARIANTS AnomalyRulesSound ConfigUsable ScoreIsFair ExistingPagesExact ScoreViewsRight
