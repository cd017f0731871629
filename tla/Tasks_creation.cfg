SPECIFICATION Spec
CONSTANTS
    developer = developer
    tester = tester
    k1 = k1
    q1 = q1
    q2 = q2
    NoAgent = NoAgent
    NoKey = NoKey
    Successor <- NextOwner
    Assignee <- BothDeveloper
    Agents = {developer}
    Key <- NoKeys
    UserTasks = {}
    Resumable = {1}
    Creation = {1}
    Research = {2}
    Tooled = {1, 2}
    Pipeline = {}
    FailAgents = {}
    Requests = {q1}
    Concurrency = 1
    RetryCaps = {0}
    OwnerCap = 0
    RestartCap = 1
    MaxCrashes = 1
    MaxModes = 0
    MaxMoves = 0
    SlowBroadcast = FALSE
    Tasks <- TwoTasks
PROPERTIES ToolSpec
CHECK_DEADLOCK FALSE
