SPECIFICATION FairSpec
CONSTANTS
    Run = {r1}
    None = None
    LA = {1}
    Env = {"cmds", "shutdown", "fetch", "langfail", "report", "queries", "retry"}
    Caps = {1}
    Size = 1
    IgnoreEvicts = FALSE
    MaxTasks = 3
    MaxQueries = 0
    MaxCalls = 2
INVARIANTS
    EndsWithNothingOut
PROPERTIES
    ShutdownEnds
    CallsReturn
    EvictionsComplete
CHECK_DEADLOCK FALSE
