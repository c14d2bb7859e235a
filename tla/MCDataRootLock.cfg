\* Three processes, one of which may die at any moment, and what earlier ones left of lock and gate.
SPECIFICATION FairSpec
CONSTANTS
    Procs <- MCThree
    Dead = "dead"
    Attempts = 2
    GateLeft = TRUE
    MaxCrashes = 1
 
PROPERTY SomebodyWins
\* All processes may be done.
CHECK_DEADLOCK FALSE
