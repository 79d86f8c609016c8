CONSTANTS
    d1 = d1
    d2 = d2
    w1 = w1
    w2 = w2
    w3 = w3
    Nobody = Nobody
    Deliveries = {d1, d2}
    Workers = {w1, w2}
    Concurrency = 2
    MaxAttempts = 2
    RetryDelays <- OneStep
    Responses = {200, 503}
    LockTimeout = 2
    MaxRun = 1
    SharedVolume = FALSE
    Poisoned = {}
    Deletable = {d1}
    MaxFaults = 1
SPECIFICATION Spec
INVARIANTS
    LeaseInv
    HistoryExplainsRow
PROPERTIES
    CompletedIsFinal
    RetryNotEarly
