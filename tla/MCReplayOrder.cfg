\* Three lives: each may crash, the first two may be stopped; one branch is behind one await more.
SPECIFICATION FairSpec
CONSTANTS
    Script <- MCScript
    Kind <- MCKind
    Hops <- Uneven
    StopLives = {1, 2}
    MaxLives = 3
INVARIANT ReplayAgrees
PROPERTIES TableIsSchedule RunEnds
\* A settled run may stop for good.
CHECK_DEADLOCK FALSE
