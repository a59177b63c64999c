\* Threads and one mutex, mailbox or queue.  All of them may wait in a pend that
\* nobody answers: there the system stops.
SPECIFICATION MCSpec
CHECK_DEADLOCK FALSE
CONSTANTS
    Thread = {s, t, u}
    Element = {x, y}
    NULL = NULL
    Flags = {"none", "recursive"}
    TryPends = {"none"}
    Depths = {0, 2}
    Objects = {"mutex", "mailbox", "queue"}
INVARIANTS
    TypesOK
    OneHolder
    NobodyIsForgotten
PROPERTIES
    MailboxIsFifo
    QueueIsFifo
