CONSTANTS
    None = None
    MaxLines = 4
    Contexts <- ContextPairs
    Limits = {1, 2, None}
    Inverts = {FALSE, TRUE}
    Binary = {"none", "quit", "convert"}
    Files <- MCFiles
    Configs <- Reliable
    StopAnswers = {0, 2, 3}
    DetectLines = 1
SPECIFICATION MCSpec
INVARIANTS
    MultiTypeOK
    MultiReports
    MultiStops
CHECK_DEADLOCK FALSE
