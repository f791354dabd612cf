SPECIFICATION Spec
CONSTANTS
    N = 5
    Nested = TRUE
    Repeats = {}
    MaxSends = 1
INVARIANTS TreeArrives
