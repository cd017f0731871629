SPECIFICATION FairSpec
CONSTANTS
    developer = developer
    tester = tester
    k1 = k1
    q1 = q1
    q2 = q2
    NoAgent = NoAgent
    NoKey = NoKey
    Successor <- NextOwner
    Assignee <- BothDeveloper
    Agents = {developer, tester}
    Key <- NoKeys
    UserTasks = {}
    Resumable = {1}
    Creation = {}
    Research = {}
    Tooled = {1}
    Pipeline = {1}
    FailAgents = {}
    Requests = {q1}
    Concurrency = 2
    RetryCaps = {1}
    OwnerCap = 0
    RestartCap = 1
    MaxCrashes = 2
    MaxModes = 0
    MaxMoves = 1
    SlowBroadcast = FALSE
    Tasks = {1}
INVARIANTS OneRunPerTask
PROPERTIES ToolSpec RunningSettles PendingServed
CHECK_DEADLOCK FALSE
