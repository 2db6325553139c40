CONSTANTS
    None = None
    MaxLines = 4
    Contexts <- AfterPair
    Limits = {1}
    Binary = {"none"}
    Files <- PlainFiles
    Configs <- Slow
    StopAnswers = {0}
    DetectLines = 2
SPECIFICATION Spec
INVARIANTS
    LimitBounds
CHECK_DEADLOCK FALSE
