SPECIFICATION FairPartsSpec
CONSTANTS
    a1 = a1
    a2 = a2
    r1 = r1
    r2 = r2
    gpu = gpu
    j1 = j1
    j2 = j2
    j3 = j3
    book = book
    flight = flight
    today = today
    help = help
    dinner = dinner
    ball = ball
    box = box
    red = red
    Whole = 8
    Grain = 2
    Certainties = {3, 8}
    FactThreshold = 1
    HypothesisThreshold = 2
    Floor = 6
    Cap = 1
    MaxAdds = 3
    MaxAge = 4
    MaxOther = 1
    MaxCycles = 2
    Platform = {"openclaw", "ard"}
    AgentHost = {p1, p2}
    Agent = {a1, a2}
    Task = {t1}
    MaxJobs = 2
    Able = {a1, a2}
    NoAgent = NoAgent
    NoBackend = NoBackend
    Worker = Worker
    Adapter = {a1, a2}
    Registry <- InOrder
    MaxCalls = 2
    Runtime = {r1, r2}
    Capability = {gpu}
    Job = {j1, j2, j3}
    Demands <- SmallDemands
    Descriptors <- SmallDescriptors
    Beats <- SmallBeats
    MaxQueue = 2
    MaxDepth = 2
    Verb = {book}
    Noun = {flight}
    Modifier = {today}
    Plain = {help, dinner}
    VerbGoal <- BookTravel
    NounGoal <- FlightTravel
    Otherwise = "accomplishment"
    Urgent = {help}
    Required <- SmallRequired
    Commands <- SmallCommands
    Sentences <- SmallSentences
    Skills <- SmallSkills
    Person = {bob}
    Levels = {20}
    NoWord = NoWord
    Lifetime = 2
    MaxGoals = 2
    MaxSkills = 3
    MaxLinks = 1
    process_weather = process_weather
    weather_api = weather_api
    weather_report = weather_report
    weather = weather
    api = api
    report = report
    admin = admin
    NoOne = NoOne
    Name = {process_weather, weather_api, weather_report}
    Words <- WeatherWords
    Permission = {admin}
    Providers <- WeatherProviders
    Agents <- WeatherAgents
    Discoverable = {weather_report}
    Grants <- NoneOrAdmin
    FailureRate = TRUE
    Call = {1, 2}
    MaxProviders = 3
INVARIANTS
    NoUnauthorizedRun
    RunsAccountedFor
    NothingLost
    DecisionCanBeDone
PROPERTIES
    OnlyRoundingRaises
    AnnouncedOnce
    Forgotten
CHECK_DEADLOCK FALSE
