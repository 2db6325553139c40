CONSTANTS
    r1 = r1
    r2 = r2
    a = a
    b = b
    c = c
    Entry = {r1, r2, a, b, c}
    NoEntry = NoEntry
    Roots <- TwoRoots
    Parent <- DeepTree
    Depth <- DeepDepth
    Fates <- DeepFates
    MinDepth = 1
    MaxDepth = 2
    WorkerCount = 3
    Answers = {"continue", "skip", "quit"}
SPECIFICATION FairSpec
INVARIANTS
    TypeOK
    Accounted
    NoWorkAbandoned
    AtMostOneLate
PROPERTIES
    Terminates
    Refines
