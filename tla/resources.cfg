CONSTANTS
    Users = {ann, bob}
    Bots = {b1}
    Destinations = {h1, h2}
    Routes = {t1}
    Events = {e1}
    Deliveries = {d1, d2}
    Requests = {r}
    Nobody = Nobody
    Gone = Gone
SPECIFICATION Spec
SYMMETRY Symmetric
INVARIANTS
    TypeOK
    WithinReach
    References
CHECK_DEADLOCK FALSE
