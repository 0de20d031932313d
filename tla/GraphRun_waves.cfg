SPECIFICATION FairSpec
CONSTANTS
    a = a
    b = b
    c = c
    d = d
    x = x
    hungry = hungry
    milk = milk
    Name = {a, b, c, d, x}
    Belief = {hungry}
    Resource = {milk}
    NoStep = NoStep
    Graphs <- AllGraphs
    MaxStock = 1
    NoCheckpoint = NoCheckpoint
INVARIANTS
    OneResultEach
    RefusedForCause
    UninterruptedInPlanOrder
PROPERTIES
    ImplementsContract
    Ends
