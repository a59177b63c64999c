\* The uptime passes the range of a list priority (2^16 scaled down to 4).
SPECIFICATION Spec
CONSTANTS
    a = a
    b = b
    idle = idle
    init = init
    NULL = NULL
    User = {a, b}
    InitPrio <- MCInitPrio
    Lowest = 3
    AgingTicks = 1
    Word16 = 4
    TickMs = 2
    SleepMs = {1, 3}
    MaxTime = 8
    Lapic = TRUE
    Calls = {"create", "sleep"}
    ChildrenOnly = TRUE
    JoinFirst = FALSE
PROPERTY
    SleepersWakeOnTime
