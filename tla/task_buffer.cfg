SPECIFICATION Spec
CONSTANTS
    None = None
    MaxTasks = 6
INVARIANTS
    NothingStranded
PROPERTIES
    TakenInOrder
CHECK_DEADLOCK FALSE
