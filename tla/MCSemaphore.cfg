\* sync/semaphore.c with four threads and two posting interrupt handlers.
SPECIFICATION FairSpec
CONSTANTS
    Thread = {t1, t2, t3, t4}
    Handler = {irq1, irq2}
    InitLevels <- MCInitLevels
    MaxLevel = 2
    NULL = NULL
INVARIANTS
    TypeOK
    BlockedIsHeld
    NoLostWakeup
    DestroyedIsEmpty
PROPERTY
    ImplementsCountingSemaphore
