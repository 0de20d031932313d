SPECIFICATION RoomySpec
CONSTANTS
    alice = alice
    caller = caller
    door = door
    news = news
    open = open
    shut = shut
    errand = errand
    travel = travel
    milk = milk
    fire = fire
    Aspect = {door}
    Topic = {news}
    Value = {open, shut}
    Urgent = {fire}
    NoLabel = NoLabel
    NoGoal = NoGoal
    MaxCycles = 3
    Actor = {alice}
    Told <- SomeTold
    GoalType = {errand, travel}
    Label = {milk, fire}
    Priorities = {40}
    Gains <- FewGains
    Ref = {alice, caller}
    Refs <- CallersList
    MaxBeliefs = 2
    MaxGoals = 2
    Room = 2
INVARIANTS
    ConditionIsLatest
    RequestsTracked
    GoalsAgree
PROPERTIES
    Forgets
    CurrentIsPursued
