SPECIFICATION FairSpec
CONSTANTS
    t1 = t1
    t2 = t2
    Task = {t1, t2}
    Slots = 1
    Pollers = 1
    Empty = Empty
    Error = Error
    Plans <- MCPlans
INVARIANTS
    CancelledAfterGrace
PROPERTIES
    HeartbeatsReported
    CompletionsReturn
    ShutdownReturns
CHECK_DEADLOCK FALSE
