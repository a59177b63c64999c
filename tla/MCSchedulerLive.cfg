\* Programs join what they create before they return: what must happen does.
SPECIFICATION FairSpec
CONSTANTS
    a = a
    b = b
    idle = idle
    init = init
    NULL = NULL
    User = {a, b}
    InitPrio <- MCInitPrio
    Lowest = 3
    AgingTicks = 2
    Word16 = 64
    TickMs = 2
    SleepMs = {1}
    MaxTime = 4
    Lapic = TRUE
    Calls = {"create", "sleep", "wait", "exit"}
    ChildrenOnly = TRUE
    JoinFirst = TRUE
PROPERTIES
    NoStarvation
    SystemHalts
