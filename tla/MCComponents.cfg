\* The components that share nothing, one at a time.  The heap, the console and
\* the video driver may come to an end of their requests.
SPECIFICATION MCSpec
CHECK_DEADLOCK FALSE
CONSTANTS
    Components = {"lists", "heap", "paging", "pit", "interrupts", "console", "vesa", "mouse"}
    \* kernel_list.c: two lists that exchange four nodes
    n1 = n1
    n2 = n2
    n3 = n3
    n4 = n4
    l1 = l1
    l2 = l2
    NULL = NULL
    Node = {n1, n2, n3, n4}
    List = {l1, l2}
    Priority = {0, 1}
    MaxSize = 4
    \* heap.c
    HeapEnd = 160
    NUM_SIZES = 8
    UintRange = 256
    HeapRequests = {1, 13, 20}
    \* paging.c
    Pages = 4
    TableSize = 2
    KernelPages = 2
    MapRequests <- MCMapRequests
    UnmapRequests <- MCUnmapRequests
    \* pit.c
    PitThread = {a, b}
    NoPitThread = NoPitThread
    TickHandler = {"calibration"}
    MaxNesting = 4
    \* interrupts.c
    Runner = {a, b}
    Boot = a
    Device = {"keyboard", "rtc", "mouse"}
    Posting = {"keyboard"}
    Drawing = {"mouse"}
    MaxLocks = 2
    MaxNested = 3
    \* vga_text.c
    SCREEN_LINE_SIZE = 3
    SCREEN_COL_SIZE = 3
    TabWidth = 2
    Printer = {p}
    Controls = {"backspace", "tab", "newline", "clear", "return"}
    \* vesa.c
    Mode = {"low", "high"}
    \* mouse.c
    Moves = {"left", "right"}
    Overflows = {}
SYMMETRY Symmetries
INVARIANTS
    
    WellLinked
    HeapWellFormed
    TlbIsFresh
    PitSound
    InterruptsSound
    VideoSound
PROPERTIES
    ImplementsPriorityLists
    HeapIsAllocator
    EchoKeepsThePrompt
