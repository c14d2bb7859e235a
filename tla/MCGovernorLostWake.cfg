\* A run is stopped while it waits out a cooldown longer than the idle reset.
SPECIFICATION Spec
CONSTANTS
    Ceiling = 2
    IncreaseAfter = 2
    IdleResetMs = 2
    Runs <- MCRuns
    Observer <- MCObserver
    Requests <- MCRequests
    RunOf <- MCRunOf
    Abortable <- MCRequests
    RetryAfters = {0, 3}
    MaxEpoch = 1
INVARIANTS WakeGuaranteed
