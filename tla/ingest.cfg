CONSTANTS
    u1 = u1
    s1 = s1
    r1 = r1
    r2 = r2
    x1 = x1
    x2 = x2
    q1 = q1
    q2 = q2
    TheBot = TheBot
    Bot = TheBot
    Updates = {u1}
    Samples = {s1}
    Routes = {r1, r2}
    Destinations = {x1, x2}
    Content <- Contents
    RouteForms <- TwoForms
    Removable = {r1, x2, TheBot}
    Requests = {q1, q2}
    MaxFaults = 1
SPECIFICATION FairSpec
INVARIANTS
    TypeOK
    AcknowledgedIsKept
    LostOnlyByFailure
PROPERTIES
    ImplementsIntake
    FanOutCompletes
