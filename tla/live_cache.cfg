SPECIFICATION FairSpec
CONSTANTS
    Run = {r1, r2, r3}
    None = None
    LA = {}
    Env = {}
    Caps = {0, 1}
    Size = 1
    IgnoreEvicts = FALSE
    MaxTasks = 2
    MaxQueries = 0
    MaxCalls = 2
PROPERTIES
    ImplementsRunCache
    PollsServed
    TasksAnswered
CHECK_DEADLOCK FALSE
