\* Two events and any two disturbances; a log and a buffer of one entry.
SPECIFICATION FairSpec
CONSTANTS
    None = None
    EventBound = 2
    Retention = 1
    BufferMax = 1
    Disturbances = {"damage", "encode", "write", "pause", "rebuild", "replace", "restart", "nudge", "retry"}
    Budget = 2
    FreshNumbers = TRUE
INVARIANTS ViewWasServed OwedIsKept
PROPERTIES NoGoingBack Converges
\* The system rests when nothing is left to send.
CHECK_DEADLOCK FALSE
