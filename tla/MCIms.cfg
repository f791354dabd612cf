SPECIFICATION SessionSpec
CONSTANTS
    Workers = {p1, p2}
    MaxQueueLen = 8
    Buffer = 12
    MaxQueries = 4
    MaxRequests = 4
    LockFails = TRUE
    Refusals = TRUE
    Plan <- PlanIms
INVARIANTS BlocksPaired ReportsFresh RegularLog ModifiedAsReported AbortOnlyLate
PROPERTIES ResponsesReleased AllTestcasesRun ImplementsPeer
