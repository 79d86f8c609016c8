SPECIFICATION FairSpec
CONSTANTS
    Requests = {r1, r2}
    Jobs = {j1, j2, j3}
    Sweeps = {s1, s2}
    MaxSignals = 2
INVARIANTS
    QuietWhenClosed
PROPERTIES
    SignalEndsProcess
CHECK_DEADLOCK FALSE
