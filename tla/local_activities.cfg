SPECIFICATION FairSpec
CONSTANTS
    a1 = a1
    a2 = a2
    LA = {a1, a2}
    Slots = 1
    Policy <- MCPolicy
    Plans <- MCPlans
    Threshold = 1
    MaxQueue = 1
INVARIANTS
    OneAttempt
    ResolvedOnce
    AttemptsWithinPolicy
CHECK_DEADLOCK FALSE
PROPERTIES
    LAsResolved
