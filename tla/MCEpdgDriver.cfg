SPECIFICATION DriverSpec
CONSTANTS
    w1 = w1
    w2 = w2
    s1 = s1
    s2 = s2
    SA = {s1}
    Unbound = Unbound
    Closed = Closed
    Workers = {w1, w2}
    MaxQueries = 1
    Buffer = 1
    MaxQueueLen = 2
    MaxExchanges = 2
    MaxReceived = 2
    MaxLines = 4
    HighEntries = {s1}
    Duplicates = "last"
    Rejects = FALSE
    Failures = FALSE
    Asked <- MCAsked
SYMMETRY MCWorkers
INVARIANTS DriverTypeOK NoQueryAfterFin
PROPERTY ImplementsPeer
CHECK_DEADLOCK FALSE
