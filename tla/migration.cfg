CONSTANTS
    p1 = p1
    p2 = p2
    p3 = p3
    p4 = p4
    p5 = p5
    NoOwner = NoOwner
    Processes = {p1, p2, p3, p4, p5}
    Ttl = 3
    MaxHold = 2
    Overlapping = {p1, p2, p3}
    Mortal = {p1}
    Failing = {p2}
SPECIFICATION FairSpec
INVARIANTS
    NoConcurrentMigration
    NoLockLeft
    ReadyMeansMigrated
PROPERTY ServiceComesUp
CHECK_DEADLOCK FALSE
