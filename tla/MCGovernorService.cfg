\* Cooldowns, no stopped run, main agent on another key: every waiter is served.
SPECIFICATION FairSpec
CONSTANTS
    Ceiling = 2
    IncreaseAfter = 1
    IdleResetMs = 2
    Runs <- MCRuns
    Observer <- MCObserver
    Requests <- MCRequests
    RunOf <- MCRunOf
    Abortable <- MCNone
    RetryAfters = {0, 1, 3}
    MaxEpoch = 1
PROPERTIES WaiterServed
