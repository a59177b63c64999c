\* A reader may be interrupted between the end of its sem_pend and schedule().
\* The system may then stop altogether; the property says so.
SPECIFICATION LiveSpec
CHECK_DEADLOCK FALSE
CONSTANTS
    Thread = {s}
    NULL = NULL
    idle = idle
    Sizes = {1}
    Keys = {"letter", "return"}
    Exposed = {s}
PROPERTY ReadsGoOn
