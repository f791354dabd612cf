SPECIFICATION LiveSpec
CONSTANTS
    SA = {s1, s2}
    Unbound = Unbound
    Closed = Closed
    Workers = {w1, w2}
    MaxQueries = 6
    Buffer = 8
    MaxQueueLen = 10
    MaxExchanges = 3
    MaxReceived = 6
    HighEntries = {s1, s2}
    Duplicates = "none"
    Rejects = TRUE
    Failures = TRUE
    MaxTrials = 3
    SlowUE = TRUE
    UeExchanges = {"IKE_AUTH", "OTHER"}
    Plan <- PlanError
INVARIANTS BlocksPaired PairsMatchMessages QueryOwnsResponse QueryHeldWhileBuilt GivesUpOnLeftovers
PROPERTIES WaitersReleased StepsEnd
