SPECIFICATION Spec
CONSTANTS
    milk = milk
    alice = alice
    rider1 = rider1
    rider2 = rider2
    admin = admin
    p1 = p1
    c1 = c1
    c2 = c2
    Nobody = Nobody
    ghost = ghost
    Handler <- Handlers
    Item = {milk}
    Price <- Prices
    FirstStock <- Shelf
    Customer = {alice}
    FirstBalance <- Wallets
    Rider = {rider1, rider2}
    MaxOrders = 2
    MaxCrashes = 1
    Pipeline = {p1}
    Caller = {c1, c2}
    Shopper <- Alice
    Admin <- Boss
    Wanted = milk
    Amount = 2
    Send = rider1
    Calls <- SomeCalls
    MaxCalls = 2
INVARIANTS
    BooksBalance
    AnswersTrue
    OrderedOnce
    ReportHonest
PROPERTIES
    ForwardOnly
    PipelineEnds
CHECK_DEADLOCK FALSE
