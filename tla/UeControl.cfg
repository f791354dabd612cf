SPECIFICATION UeSpec
CONSTANTS
    MaxRetries = 2
    MaxReboots = 3
    MaxTestcases = 1
    MaxRepeats = 1
    MaxLate = 1
    MaxCommands = 40
INVARIANTS LagBounded EnabledByWifiOn OffBetweenTestcases ExitOnStaleFail
PROPERTY RunsToTheEnd
