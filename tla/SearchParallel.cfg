CONSTANTS
    r1 = r1
    r2 = r2
    r3 = r3
    Result = {r1, r2, r3}
    Verdicts <- SomeVerdicts
    Configs <- SomeConfigs
    w1 = w1
    w2 = w2
    Worker = {w1, w2}
    NoWorker = NoWorker
    Writes = {"ok", "epipe", "error"}
SPECIFICATION FairSpec
INVARIANTS
    TypeOK
    BlocksWhole
    ShownExact
    StatsExact
    ExitExact
    AtMostOneLate
PROPERTIES
    Terminates
