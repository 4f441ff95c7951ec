SPECIFICATION Spec
CONSTANTS
    Plans <- MCPlans
    MaxTasks = 3
    MaxRuns = 2
    MaxActs = 2
INVARIANTS
    CompletedOnce
    
    SignalsKept
PROPERTIES
    RunReturns
CHECK_DEADLOCK FALSE
