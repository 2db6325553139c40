CONSTANTS
    w1 = w1
    w2 = w2
    Worker = {w1, w2}
    Rg = Rg
    Case <- LongCases
    PipeSize = 1
SPECIFICATION FairSpec
PROPERTIES ClosingEndsChild
CHECK_DEADLOCK FALSE
