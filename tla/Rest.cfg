SPECIFICATION RestSpec
CONSTANTS
    w1 = w1
    w2 = w2
    a1 = a1
    Worker <- TwoWorkers
    Alert <- OneAlert
    MayLose = TRUE
    None = None
    Size = 2
    First = 4
    MaxRows = 6
    MaxChanges = 2
    Batch = 2
    Half = 32
    MaxTotal = 9
INVARIANTS
    ReleasedInTheEnd
    AloneIsServed
    
PROPERTIES
    EveryRequestAnswered
