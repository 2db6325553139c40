CONSTANTS
    None = None
    MaxLines = 3
    Contexts <- AfterPair
    Limits = {1}
    Inverts = {TRUE}
    Binary = {"none"}
    Files <- MCFiles
    Configs <- Every
    StopAnswers = {0}
    DetectLines = 1
SPECIFICATION MCSpec
INVARIANTS
    NoPanic
CHECK_DEADLOCK FALSE
