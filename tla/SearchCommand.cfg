CONSTANTS
    w1 = w1
    w2 = w2
    Worker = {w1, w2}
    Rg = Rg
    Case <- SomeCases
    PipeSize = 1
SPECIFICATION OneStopsSpec
INVARIANTS TypeOK OutputWhole OutcomeExact NothingLeft
PROPERTIES Finishes
