SPECIFICATION Spec
CONSTANTS
    Limits = {1, 2, 3}
    Delays = {1, 5}
    MaxSteps = 2
    Statuses <- MCStatuses
    Editors = {e1, e2}
    Inputs <- MCInputs
INVARIANTS
    ScheduleFollowed
    EndsAsDocumented
    OneVersion
    SignedAsConfigured
CHECK_DEADLOCK FALSE
