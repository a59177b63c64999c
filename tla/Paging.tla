------------------------------- MODULE Paging --------------------------------
(***************************************************************************)
(* memory/paging.c: the kernel's page tables, mapped and unmapped page by  *)
(* page, and what the processor remembers of them (the TLB).  Between two  *)
(* pages of a call an interrupt handler or another thread uses the memory. *)
(* One call at a time: start-up, a change of the video mode or panic makes *)
(* it.  An address counts half pages, so that a range may end inside one,  *)
(* and wraps at the end of the address space.                              *)
(***************************************************************************)
EXTENDS Integers

CONSTANTS
    Pages, TableSize,   \* pages of the address space, and of one table
    KernelPages,        \* the pages init_paging maps, page 0 apart
    MapRequests,        \* [virt, phys, size, remap]: the mappings asked for
    UnmapRequests       \* [virt, size]

ASSUME PagingAssumption ==
    /\ Pages \in Nat \ {0} /\ TableSize \in Nat \ {0} /\ KernelPages \in 1 .. Pages
    /\ MapRequests \subseteq [virt : 0 .. 2 * Pages - 1, phys : 0 .. 2 * Pages - 1,
                              size : Nat, remap : BOOLEAN]
    /\ UnmapRequests \subseteq [virt : 0 .. 2 * Pages - 1, size : Nat]

VARIABLES
    tables,     \* kernel_page_tables: the frame of each page, or NotPresent
    directory,  \* kernel_pgdir: whether each table is present
    paging,     \* enabled
    tlb,        \* what the processor keeps of tables
    mapping     \* the call in progress, and whether an unmap failed midway
paging_vars == <<tables, directory, paging, tlb, mapping>>

NotPresent == Pages
Page == 0 .. Pages - 1
Frame == 0 .. Pages - 1
Table == {page \div TableSize : page \in Page}
TableOf(page) == page \div TableSize
PageOf(address) == address \div 2
Space == 2 * Pages

EmptyTlb == [page \in Page |-> NotPresent]
Idle == [op |-> "none", virt |-> 0, phys |-> 0, end |-> 0, remap |-> FALSE]

\* init_paging: identity, but for the page of NULL; then enable_paging.
PagingInit ==
    /\ tables = [page \in Page |-> IF page \in 1 .. KernelPages - 1 THEN page ELSE NotPresent]
    /\ directory = [table \in Table |-> table <= TableOf(KernelPages - 1)]
    /\ paging = TRUE
    /\ tlb = EmptyTlb
    /\ mapping = [call |-> Idle, failed |-> FALSE]

-----------------------------------------------------------------------------

\* A memory access by whoever runs: the processor keeps the translation.
Access(page) ==
    /\ paging /\ directory[TableOf(page)] /\ tables[page] # NotPresent
    /\ tlb[page] = NotPresent
    /\ tlb' = [tlb EXCEPT ![page] = tables[page]]
    /\ UNCHANGED <<tables, directory, paging, mapping>>

CallMmap(r) ==
    /\ mapping.call = Idle
    /\ mapping' = [mapping EXCEPT !.call =
          [op |-> "mmap", virt |-> 2 * PageOf(r.virt), phys |-> 2 * PageOf(r.phys),
           end |-> (r.virt + r.size) % Space, remap |-> r.remap]]
    /\ UNCHANGED <<tables, directory, paging, tlb>>

CallMunmap(r) ==
    /\ mapping.call = Idle
    /\ mapping' = [mapping EXCEPT !.call =
          [op |-> "munmap", virt |-> 2 * PageOf(r.virt), phys |-> 0,
           end |-> (r.virt + r.size) % Space, remap |-> FALSE]]
    /\ UNCHANGED <<tables, directory, paging, tlb>>

Running(op) == mapping.call.op = op /\ mapping.call.virt < mapping.call.end
This == PageOf(mapping.call.virt)

\* The table of the page, blank if it is new.
WithTable(page) ==
    IF directory[TableOf(page)] THEN tables
    ELSE [p \in Page |-> IF TableOf(p) = TableOf(page) THEN NotPresent ELSE tables[p]]

\* A slip: the entry is written before it is looked at.
MmapPageOverwrites ==
    /\ Running("mmap")
    /\ directory' = [directory EXCEPT ![TableOf(This)] = TRUE]
    /\ tables' = [WithTable(This) EXCEPT ![This] = PageOf(mapping.call.phys)]
    /\ mapping' = IF WithTable(This)[This] # NotPresent /\ ~mapping.call.remap
                  THEN [mapping EXCEPT !.call = Idle]
                  ELSE [mapping EXCEPT !.call.virt = (@ + 2) % Space,
                                       !.call.phys = (@ + 2) % Space]
    /\ UNCHANGED <<paging, tlb>>

\* One turn of kernel_mmap's loop: OS_ERR_MAPPING_ALREADY_EXISTS ends the call
\* where it is, the pages before stay mapped.
MmapPage ==
    /\ Running("mmap")
    /\ directory' = [directory EXCEPT ![TableOf(This)] = TRUE]
    /\ IF WithTable(This)[This] # NotPresent /\ ~mapping.call.remap
       THEN /\ tables' = WithTable(This)
            /\ mapping' = [mapping EXCEPT !.call = Idle]
       ELSE /\ tables' = [WithTable(This) EXCEPT ![This] = PageOf(mapping.call.phys)]
            /\ mapping' = [mapping EXCEPT !.call.virt = (@ + 2) % Space,
                                          !.call.phys = (@ + 2) % Space]
    /\ UNCHANGED <<paging, tlb>>

\* One turn of kernel_munmap's loop: OS_ERR_MEMORY_NOT_MAPPED ends the call
\* where it is, without invalidate_tlb.
MunmapPage ==
    /\ Running("munmap")
    /\ IF directory[TableOf(This)] /\ tables[This] # NotPresent
       THEN /\ tables' = [tables EXCEPT ![This] = NotPresent]
            /\ mapping' = [mapping EXCEPT !.call.virt = (@ + 2) % Space]
       ELSE /\ mapping' = [call |-> Idle, failed |-> TRUE]
            /\ UNCHANGED tables
    /\ UNCHANGED <<directory, paging, tlb>>

\* The end of both: invalidate_tlb.
EndOfCall ==
    /\ mapping.call.op # "none" /\ mapping.call.virt >= mapping.call.end
    /\ mapping' = [call |-> Idle, failed |-> FALSE]
    /\ tlb' = EmptyTlb
    /\ UNCHANGED <<tables, directory, paging>>

\* disable_paging and enable_paging, around a call of the BIOS.  Writing the
\* paging bit of CR0 empties the TLB.
DisablePaging ==
    /\ mapping.call = Idle /\ paging
    /\ paging' = FALSE /\ tlb' = EmptyTlb
    /\ mapping' = [mapping EXCEPT !.failed = FALSE]
    /\ UNCHANGED <<tables, directory>>

EnablePaging ==
    /\ mapping.call = Idle /\ ~paging
    /\ paging' = TRUE
    /\ UNCHANGED <<tables, directory, tlb, mapping>>

PagingNext ==
    \/ \E page \in Page : Access(page)
    \/ \E r \in MapRequests : CallMmap(r)
    \/ \E r \in UnmapRequests : CallMunmap(r)
    \/ MmapPage \/ MunmapPage \/ EndOfCall \/ DisablePaging \/ EnablePaging

PagingSpec == PagingInit /\ [][PagingNext]_paging_vars

-----------------------------------------------------------------------------

PagingTypeOK ==
    /\ tables \in [Page -> Frame \cup {NotPresent}] /\ tlb \in [Page -> Frame \cup {NotPresent}]
    /\ directory \in [Table -> BOOLEAN] /\ paging \in BOOLEAN
    /\ mapping.call.virt \in 0 .. Space - 1 /\ mapping.failed \in BOOLEAN

\* What the processor remembers is what the tables say: also after a mapping
\* that stopped midway and never got to invalidate_tlb, and in the middle of
\* one that does not remap.  Only an unmapping, a remapping, and what an
\* unmapping that failed midway left behind are excused until the next flush.
TlbIsFresh ==
    \/ mapping.failed \/ mapping.call.op = "munmap" \/ mapping.call.remap
    \/ \A page \in Page : tlb[page] \in {NotPresent, tables[page]}
=============================================================================
