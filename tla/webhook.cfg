CONSTANTS
    Bots = {first, again}
    Bases = {here, there}
    Lists = {messages, everything}
    Requests = {r1, r2}
    None = None
SPECIFICATION Spec
SYMMETRY Symmetric
INVARIANTS
    TypeOK
    RowTellsWebhook
    ListInForce
    MoveIsNoticed
CHECK_DEADLOCK FALSE
