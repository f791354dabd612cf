SPECIFICATION Spec
CONSTANTS
    N = 5
    Nested = FALSE
    Repeats = {"retransmission", "retest"}
    MaxSends = 3
INVARIANT NothingMisplaced
