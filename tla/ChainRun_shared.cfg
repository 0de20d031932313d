SPECIFICATION Spec
CONSTANTS
    buy = buy
    cook = cook
    order = order
    hungry = hungry
    milk = milk
    Name = {buy, cook, order}
    Belief = {hungry}
    Resource = {milk}
    NoStep = NoStep
    Task = {t1, t2}
    Job = {j1, j2}
    Plans <- ThreePlans
    MaxStock = 1
    NoJob = NoJob
    NoCheckpoint = NoCheckpoint
INVARIANTS
    OneOwner
    StepsInOrder
    NumbersFaithful
    HonestData
    StopMeansStop
    SuccessIsEarned
PROPERTIES
    ImplementsContract
CHECK_DEADLOCK TRUE
