SPECIFICATION RecoverySpec
CONSTANTS
    MaxTrials = 3
    MaxCrashes = 2
    MaxStalls = 1
    MaxLives = 6
INVARIANTS NeverUnserved HangsOnlyAfterStall
PROPERTIES CrashEndsRun EpdgRestored
