CONSTANTS
    root = root
    ann = ann
    bob = bob
    s1 = s1
    s2 = s2
    k1 = k1
    r1 = r1
    r2 = r2
    Nobody = Nobody
    Users = {root, ann, bob}
    Root = root
    Sessions = {s1}
    Keys = {k1}
    Requests = {r1, r2}
    NameOf <- Names
SPECIFICATION Spec
INVARIANTS
    TypeOK
    ActiveAdminRemains
    DeadCredentialRefused
    ResetEndsSessions
SYMMETRY Symmetric
CHECK_DEADLOCK FALSE
