---------------------------- MODULE MCComponents -----------------------------
(***************************************************************************)
(* The components that share nothing in these models: the first state      *)
(* chooses one of them, the variables of the others stay as they are.      *)
(***************************************************************************)
EXTENDS KernelList, Heap, Paging, Pit, Interrupts, Console, Vesa, Mouse, TLC

CONSTANTS
    Components,     \* those this run looks at
    n1, n2, n3, n4, l1, l2

VARIABLE component

\* Ranges that do not fit a configuration file: a mapping on top of another,
\* one that ends inside a page, one that reaches the end of the address space,
\* remappings, and unmappings of more than is mapped.
MCMapRequests ==
    [virt : {1, 4}, phys : {4}, size : {1, 4}, remap : {FALSE}]
    \cup [virt : {4}, phys : {2, 6}, size : {4}, remap : BOOLEAN]
    \cup [virt : {2, 6}, phys : {0}, size : {1, 2}, remap : BOOLEAN]
MCUnmapRequests == [virt : {3, 4}, size : {2, 3}]

MCInit ==
    /\ component \in Components
    /\ Init /\ HeapInit /\ PagingInit /\ PitInit /\ InterruptsInit /\ ConsoleInit /\ VesaInit /\ MouseInit
    /\ component # "interrupts" => lapic_capable

Only(name, step, others) == component = name /\ step /\ UNCHANGED <<component, others>>

MCNext ==
    \/ Only("lists", Next, <<heap_vars, paging_vars, pit_vars, interrupt_vars, console_vars, vesa_vars, mouse_vars>>)
    \/ Only("heap", HeapNext, <<vars, paging_vars, pit_vars, interrupt_vars, console_vars, vesa_vars, mouse_vars>>)
    \/ Only("paging", PagingNext, <<vars, heap_vars, pit_vars, interrupt_vars, console_vars, vesa_vars, mouse_vars>>)
    \/ Only("pit", PitNext, <<vars, heap_vars, paging_vars, interrupt_vars, console_vars, vesa_vars, mouse_vars>>)
    \/ Only("interrupts", InterruptsNext, <<vars, heap_vars, paging_vars, pit_vars, console_vars, vesa_vars, mouse_vars>>)
    \/ Only("console", ConsoleNext, <<vars, heap_vars, paging_vars, pit_vars, interrupt_vars, vesa_vars, mouse_vars>>)
    \/ Only("vesa", VesaNext, <<vars, heap_vars, paging_vars, pit_vars, interrupt_vars, console_vars, mouse_vars>>)
    \/ Only("mouse", MouseNext, <<vars, heap_vars, paging_vars, pit_vars, interrupt_vars, console_vars, vesa_vars>>)

MCVars == <<component, vars, heap_vars, paging_vars, pit_vars, interrupt_vars, console_vars, vesa_vars, mouse_vars>>
MCSpec == MCInit /\ [][MCNext]_MCVars

Symmetries == Permutations(Node) \cup Permutations(List)

\* Every field has its type, and the cursor is on the screen.
ComponentsTypeOK ==
    TypeOK /\ HeapTypeOK /\ PagingTypeOK /\ PitTypeOK /\ InterruptsTypeOK
    /\ ConsoleTypeOK /\ VesaTypeOK /\ MouseTypeOK
=============================================================================
