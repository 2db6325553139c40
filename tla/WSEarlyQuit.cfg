CONSTANTS
    r1 = r1
    r2 = r2
    a = a
    b = b
    c = c
    Entry = {r1, r2, a, b, c}
    NoEntry = NoEntry
    Roots <- TwoRoots
    Parent <- WideTree
    Depth <- WideDepth
    Fates <- WideFates
    MinDepth = 0
    MaxDepth = 2
    WorkerCount = 2
    Answers = {"continue", "quit"}
SPECIFICATION Spec
INVARIANTS
    NothingAfterEarlyQuit
