CONSTANTS
    r1 = r1
    r2 = r2
    r3 = r3
    r4 = r4
    Result = {r1, r2, r3, r4}
    Kinds <- SomeKinds
    Worker = {w1, w2}
    Capacity = 1
    OutputErrors = {"pipe", "other"}
SPECIFICATION Spec
INVARIANTS
    Listed
    ExitExact
PROPERTIES
    Terminates
