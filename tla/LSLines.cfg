CONSTANTS
    None = None
    MaxLines = 5
    Contexts <- ContextPairs
    Limits = {1, 2, None}
    Binary = {"none", "quit", "convert"}
    Files <- MCFiles
    Configs <- Reliable
    StopAnswers = {0, 2, 3}
    DetectLines = 1
SPECIFICATION MCSpec
INVARIANTS
    TypeOK
    ReportsExpected
    StopsAtOnce
    BinaryAnnounced
PROPERTIES
    FillAdvances
CHECK_DEADLOCK FALSE
