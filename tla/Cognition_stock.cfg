SPECIFICATION Spec
CONSTANTS
    buyTea = buyTea
    translate = translate
    sayHello = sayHello
    none = none
    Name <- Names
    NoName = NoName
    Lower <- LowerOf
    AfterColon <- AfterColonOf
    Tells <- TellsOf
    Command = {buyTea, translate, sayHello}
    Named <- NamedByCommand
    GoalOf <- GoalOfCommand
    Owned <- OwnedFacts
    Facts <- ShopFacts
    NoNumber = none
    Objectives = {"cost"}
    Call = {1, 2}
    NoCommand = NoCommand
    AchieveGoal = AchieveGoal
    MaxBeliefs = 2
    MaxCycles = 2
INVARIANT
    LowStockSkipped
