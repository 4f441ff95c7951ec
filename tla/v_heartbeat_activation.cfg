SPECIFICATION Spec
CONSTANTS
    Run = {r1}
    None = None
    LA = {1, 2}
    Env = {}
    Caps = {1}
    Size = 1
    IgnoreEvicts = FALSE
    MaxTasks = 3
    MaxQueries = 0
    MaxCalls = 4
INVARIANTS
    OneActivation
CHECK_DEADLOCK FALSE
