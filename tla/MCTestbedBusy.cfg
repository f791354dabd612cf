SPECIFICATION TestbedSpec
CONSTANTS
    SA = {s1, s2}
    Unbound = Unbound
    Closed = Closed
    Workers = {w1, w2}
    MaxQueries = 3
    Buffer = 8
    MaxQueueLen = 10
    MaxExchanges = 3
    MaxReceived = 6
    HighEntries = {s1, s2}
    Duplicates = "last"
    Rejects = FALSE
    Failures = FALSE
    MaxTrials = 3
    SlowUE = FALSE
    UeExchanges = {"IKE_AUTH"}
    Plan <- PlanEncode
INVARIANT ExclusiveCheckout
