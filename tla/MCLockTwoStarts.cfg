\* Two processes start at once; nothing is left by earlier ones and nobody dies.
SPECIFICATION Spec
CONSTANTS
    Procs <- MCTwo
    Dead = "dead"
    Attempts = 1
    GateLeft = FALSE
    MaxCrashes = 0
INVARIANT MutualExclusion
CHECK_DEADLOCK FALSE
