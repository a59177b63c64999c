\* A queue, and the cells its calls write to.
SPECIFICATION MCSpec
CHECK_DEADLOCK FALSE
CONSTANTS
    Thread = {s, t}
    Element = {x, y}
    NULL = NULL
    Flags = {"none"}
    TryPends = {}
    Depths = {1}
    Objects = {"queue"}
PROPERTY WritesInContainer
