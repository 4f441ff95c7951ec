SPECIFICATION Spec
CONSTANTS
    Run = {r1}
    None = None
    LA = {1}
    Env = {"cmds", "queries", "langfail", "report", "nondet", "fetch", "evict", "retry", "drop", "failwf"}
    Caps = {1}
    Size = 1
    IgnoreEvicts = FALSE
    MaxTasks = 4
    MaxQueries = 0
    MaxCalls = 3
INVARIANTS
    ActivationOwned
    ReportedOnce
    NoIdleWft
CHECK_DEADLOCK FALSE
