SPECIFICATION Spec
CONSTANTS
    MaxLen = 5
    MaxNumber = 2050
INVARIANTS UneditedUnchanged EditStaysInPlace PresentEditsSurvive NonzeroReported ReadExactWithoutLetters
CHECK_DEADLOCK FALSE
