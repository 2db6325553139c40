CONSTANTS
    MaxLength = 4
    Inputs <- AllInputs
    Modes = {"none", "quit", "convert"}
    Capacity = 0
    Additional = 3
    Eager = Eager
    None = None
    MaxReaders = 2
SPECIFICATION Spec
INVARIANTS
    TypeOK
    Faithful
    BinaryOffsetExact
    LimitKept
    ShowsLines
PROPERTIES
    FillReturns
