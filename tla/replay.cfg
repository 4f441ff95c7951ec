SPECIFICATION Spec
CONSTANTS
    Plans <- MCPlans
    Ends <- MCEnds
INVARIANTS
    ReplayAccepted
    ReplaySame
    EndToldOnce
    MessagesPaired
    ChangeCaught
CHECK_DEADLOCK FALSE
