SPECIFICATION FairSpec
CONSTANTS
    DefaultSlots = 2
    Clients = 2
    Plans <- MCPlans
INVARIANTS
    PermitsAccounted
    OvershootBounded
    NothingLeftOver
PROPERTIES
    OwnRegistrationOnly
    
CHECK_DEADLOCK FALSE
