CONSTANTS
    u1 = u1
    s1 = s1
    r1 = r1
    r2 = r2
    x1 = x1
    x2 = x2
    q1 = q1
    q2 = q2
    TheBot = TheBot
    Bot = TheBot
    Updates = {u1}
    Samples = {}
    Routes = {r1}
    Destinations = {x1, x2}
    Content <- Contents
    RouteForms <- TwoForms
    Removable = {}
    Requests = {q1, q2}
    MaxFaults = 1
SPECIFICATION Spec
INVARIANT NothingLost
