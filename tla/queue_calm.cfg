CONSTANTS
    d1 = d1
    d2 = d2
    w1 = w1
    w2 = w2
    w3 = w3
    Nobody = Nobody
    Deliveries = {d1, d2}
    Workers = {w1, w2}
    Concurrency = 1
    MaxAttempts = 3
    RetryDelays <- TwoSteps
    Responses = {200, 503, 404}
    LockTimeout = 2
    MaxRun = 2
    SharedVolume = FALSE
    Poisoned = {}
    Deletable = {d1}
    MaxFaults = 0
SPECIFICATION FairSpec
INVARIANTS
    TypeOK
    LeaseHeld
    StopWaitsForJobs
PROPERTIES
    ImplementsLifecycle
    EventuallySettled
    StopEnds
