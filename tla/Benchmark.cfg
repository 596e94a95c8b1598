CONSTANTS
    Matrix <- SmallMatrix
    Asserted = {"checkpoint_recovery"}
    MaxExecutions = 5
    MaxStarts = 3
SPECIFICATION SuiteSpec
INVARIANTS
    TrialsAreRetained
    RecordsAgree
    PassedIsEarned
PROPERTIES
    ResultsStand
CHECK_DEADLOCK FALSE
