SPECIFICATION Spec
CONSTANTS
    buy = buy
    cook = cook
    order = order
    hungry = hungry
    milk = milk
    Name = {buy, cook, order}
    Belief = {hungry}
    Resource = {milk}
    NoStep = NoStep
    Task = {t1}
    Job = {j1, j2}
    Plans <- TwoPlans
    MaxStock = 1
    NoJob = NoJob
    NoCheckpoint = NoCheckpoint
INVARIANTS
    NoPlanForgotten
CHECK_DEADLOCK TRUE
