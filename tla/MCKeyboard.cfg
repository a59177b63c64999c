\* Three threads, buffers of one and two characters.
SPECIFICATION LiveSpec
CONSTANTS
    Thread = {s, t, u}
    NULL = NULL
    idle = idle
    Sizes = {1, 2}
    Keys = {"letter", "return", "backspace",
            "lshift", "lshift_up"}
    Exposed = {}
INVARIANTS
    TypeOK
    NoDriverFailure
PROPERTIES
    KeyboardIsLineInput
    ReadsGoOn
