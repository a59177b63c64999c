\* Two program threads that use every call, in every interleaving.
SPECIFICATION Spec
CONSTANTS
    a = a
    b = b
    idle = idle
    init = init
    NULL = NULL
    User = {a, b}
    InitPrio <- MCInitPrio
    Lowest = 3
    AgingTicks = 1
    Word16 = 64
    TickMs = 2
    SleepMs = {1, 3}
    MaxTime = 6
    Lapic = TRUE
    Calls = {"create", "sleep", "lock", "wait", "exit"}
    ChildrenOnly = TRUE
    JoinFirst = FALSE
INVARIANTS
    TypeOK
    OneHome
    FamilyTree
    JoinHandshake
    NothingElseFails
    NodePriorities
PROPERTIES
    SleepersWakeOnTime
    IdleIsLast
