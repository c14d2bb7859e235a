\* Safety with the main agent on the same key and stopped runs.
SPECIFICATION Spec
CONSTANTS
    Ceiling = 2
    IncreaseAfter = 2
    IdleResetMs = 2
    Runs <- MCRuns
    Observer <- MCObserver
    Requests <- MCRequestsObserved
    RunOf <- MCRunOfObserved
    Abortable <- MCRequestsObserved
    RetryAfters = {0, 1}
    MaxEpoch = 2
INVARIANTS ProbeOneStep InFlightExact QueuesExact
PROPERTIES OneVerdictPerBatch WakeLostOnlyByAbort
