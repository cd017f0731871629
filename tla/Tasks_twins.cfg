SPECIFICATION Spec
CONSTANTS
    developer = developer
    tester = tester
    k1 = k1
    q1 = q1
    q2 = q2
    NoAgent = NoAgent
    NoKey = NoKey
    Successor <- NextOwner
    Assignee <- BothDeveloper
    Agents = {developer}
    Key <- SameKey
    UserTasks = {2}
    Resumable = {1}
    Creation = {}
    Research = {}
    Tooled = {}
    Pipeline = {}
    FailAgents = {}
    Requests = {q1, q2}
    Concurrency = 1
    RetryCaps = {0}
    OwnerCap = 0
    RestartCap = 0
    MaxCrashes = 1
    MaxModes = 2
    MaxMoves = 0
    SlowBroadcast = FALSE
    Tasks <- TwoTasks
INVARIANTS TypeOK ActiveUnique NothingStranded
SYMMETRY RequestSymmetry
CHECK_DEADLOCK FALSE
