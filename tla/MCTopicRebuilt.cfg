\* A projection rebuilt under the numbers of the one it replaces.
SPECIFICATION Spec
CONSTANTS
    None = None
    EventBound = 2
    Retention = 2
    BufferMax = 1
    Disturbances = {"rebuild", "nudge"}
    Budget = 2
    FreshNumbers = FALSE
INVARIANTS ViewWasServed
CHECK_DEADLOCK FALSE
