CONSTANTS
    d1 = d1
    d2 = d2
    w1 = w1
    w2 = w2
    w3 = w3
    Nobody = Nobody
    Deliveries = {d1}
    Workers = {w1, w2, w3}
    Concurrency = 1
    MaxAttempts = 2
    RetryDelays <- OneStep
    Responses = {200, 503}
    LockTimeout = 3
    MaxRun = 2
    SharedVolume = TRUE
    Poisoned = {}
    Deletable = {}
    MaxFaults = 0
SPECIFICATION Spec
INVARIANT NoConcurrentRun
