CONSTANTS
    Obj <- Objects
    Nowhere = Nowhere
    Stdin = Stdin
    Cases <- AllCases
SPECIFICATION FairSpec
INVARIANTS TypeOK DeliveredExact InOrder NoCircle
PROPERTIES Terminates
