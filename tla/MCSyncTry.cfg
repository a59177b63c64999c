\* A recursive mutex that threads also take with mutex_try_pend.
SPECIFICATION MCSpec
CHECK_DEADLOCK FALSE
CONSTANTS
    Thread = {s, t}
    Element = {x}
    NULL = NULL
    Flags = {"recursive"}
    TryPends = {"recursive"}
    Depths = {1}
    Objects = {"mutex"}
INVARIANT OneHolder
