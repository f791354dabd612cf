SPECIFICATION TestbedSpec
CONSTANTS
    SA = {s1, s2}
    Unbound = Unbound
    Closed = Closed
    Workers = {w1, w2}
    MaxQueries = 4
    Buffer = 6
    MaxQueueLen = 5
    MaxExchanges = 3
    MaxReceived = 7
    HighEntries = {}
    Duplicates = "none"
    Rejects = FALSE
    Failures = FALSE
    MaxTrials = 3
    SlowUE = FALSE
    UeExchanges = {"IKE_AUTH"}
    Plan <- PlanAuth
SYMMETRY Phones
INVARIANT EditsAreEncoded
