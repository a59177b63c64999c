\* A thread ends before a child it has not joined.
SPECIFICATION Spec
CONSTANTS
    a = a
    b = b
    idle = idle
    init = init
    NULL = NULL
    User = {a, b}
    InitPrio <- MCInitPrio
    Lowest = 3
    AgingTicks = 1
    Word16 = 64
    TickMs = 2
    SleepMs = {1, 3}
    MaxTime = 4
    Lapic = TRUE
    Calls = {"create", "exit"}
    ChildrenOnly = TRUE
    JoinFirst = FALSE
INVARIANT
    ChildrenInherited
