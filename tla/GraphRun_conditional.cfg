SPECIFICATION Spec
CONSTANTS
    a = a
    b = b
    c = c
    d = d
    x = x
    hungry = hungry
    milk = milk
    Name = {a, b, c, d, x}
    Belief = {hungry}
    Resource = {milk}
    NoStep = NoStep
    Graphs <- WaitsOnly
    MaxStock = 1
    NoCheckpoint = NoCheckpoint
INVARIANTS
    RefusedForCause
