SPECIFICATION Spec
CONSTANTS
    Run = {r1}
    None = None
    LA = {}
    Env = {"cmds", "pages", "queries", "timeout", "report", "evict", "langfail"}
    Caps = {1}
    Size = 1
    IgnoreEvicts = FALSE
    MaxTasks = 3
    MaxQueries = 1
    MaxCalls = 3
INVARIANTS
    ReplyHeldOnce
    QueriesAnsweredAsQueries
    CompletesWhenCaughtUp
    OtherAssertionsHold
CHECK_DEADLOCK FALSE
