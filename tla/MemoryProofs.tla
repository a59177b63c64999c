---------------------------- MODULE MemoryProofs -----------------------------
(***************************************************************************)
(* The page tables and the heap: proofs about memory/paging.c and          *)
(* memory/heap.c.  They share nothing: each has its part below.            *)
(***************************************************************************)
EXTENDS Paging, Heap, ListOpsProofs, FiniteSetTheorems

-----------------------------------------------------------------------------
(***************************************************************************)
(* That the processor's memory of the page tables is never stale where     *)
(* nobody is told to expect it, proved for every size of the address space *)
(* and of a table and for every set of requests.                           *)
(***************************************************************************)

Address == 0 .. Space - 1
Calls == [op : {"none", "mmap", "munmap"}, virt : Address, phys : Address,
          end : Address, remap : BOOLEAN]

\* An entry of the TLB was read through a table that is present, and tables
\* stay present: so the blank table kernel_mmap makes cannot contradict it.
ReadThroughTables == \A page \in Page : tlb[page] # NotPresent => directory[TableOf(page)]

PagingShape ==
    /\ PagingTypeOK
    /\ mapping \in [call : Calls, failed : BOOLEAN]

PagingInv == PagingShape /\ ReadThroughTables /\ TlbIsFresh

\* Pages, tables and addresses are where the operators expect them.
LEMMA PagingDomains ==
    /\ \A page \in Page : TableOf(page) \in Table
    /\ \A a \in Address : PageOf(a) \in Page /\ 2 * PageOf(a) \in Address /\ (a + 2) % Space \in Address
    /\ \A a \in Address, n \in Nat : (a + n) % Space \in Address
    /\ Idle \in Calls /\ NotPresent \notin Page
<1>1. Pages \in Nat \ {0}
  BY PagingAssumption
<1>2. \A a \in Address, n \in Nat : (a + n) % Space \in Address
  BY <1>1 DEF Address, Space
<1>3. \A a \in Address : PageOf(a) \in Page /\ 2 * PageOf(a) \in Address
  BY <1>1 DEF Address, Space, PageOf, Page
<1>4. \A page \in Page : TableOf(page) \in Table
  BY DEF Table, TableOf
<1>5. Idle \in Calls /\ NotPresent \notin Page
  BY <1>1 DEF Idle, Calls, Address, Space, NotPresent, Page
<1> QED BY <1>2, <1>3, <1>4, <1>5

\* Where the TLB holds a page, making its table changes nothing.
LEMMA NewTableIsUnread ==
    ASSUME PagingShape, ReadThroughTables, NEW page \in Page, tlb[page] # NotPresent, NEW there \in Page
    PROVE  WithTable(there)[page] = tables[page]
<1>1. directory[TableOf(page)]
  BY DEF ReadThroughTables
<1>2. CASE TableOf(page) = TableOf(there)
  BY <1>1, <1>2 DEF WithTable
<1>3. CASE TableOf(page) # TableOf(there)
  BY <1>3 DEF WithTable
<1> QED BY <1>2, <1>3

\* And the tables keep their type.
LEMMA NewTableType ==
    ASSUME PagingShape, NEW there \in Page
    PROVE  WithTable(there) \in [Page -> Frame \cup {NotPresent}]
BY DEF PagingShape, PagingTypeOK, WithTable

\* init_paging leaves an empty TLB.
LEMMA PagingInitInv == PagingInit => PagingInv
<1> SUFFICES ASSUME PagingInit PROVE PagingInv
  OBVIOUS
<1> USE DEF PagingInit
<1>1. Pages \in Nat \ {0} /\ KernelPages \in 1 .. Pages
  BY PagingAssumption
<1>2. tables \in [Page -> Frame \cup {NotPresent}]
  BY <1>1 DEF Page, Frame
<1>3. tlb \in [Page -> Frame \cup {NotPresent}] /\ \A page \in Page : tlb[page] = NotPresent
  BY DEF EmptyTlb
<1>4. directory \in [Table -> BOOLEAN]
  BY DEF Table
<1>5. mapping \in [call : Calls, failed : BOOLEAN]
  BY PagingDomains
<1>6. mapping.call.virt \in 0 .. Space - 1
  BY <1>5 DEF Calls, Address
<1> QED BY <1>2, <1>3, <1>4, <1>5, <1>6 DEF PagingInv, PagingShape, PagingTypeOK, ReadThroughTables, TlbIsFresh

\* One turn of kernel_mmap's loop.
LEMMA MmapPageInv == ASSUME PagingInv, MmapPage PROVE PagingInv'
<1> USE DEF PagingInv
<1> DEFINE call == mapping.call
           there == This
<1>1. call \in Calls /\ call.op = "mmap" /\ call.virt \in Address /\ call.phys \in Address
  BY DEF PagingShape, MmapPage, Running, Calls
<1>2. there \in Page /\ TableOf(there) \in Table /\ PageOf(call.phys) \in Frame
  BY <1>1, PagingDomains DEF This, Frame, Page
<1> HIDE DEF there
<1>3. /\ directory' = [directory EXCEPT ![TableOf(there)] = TRUE]
      /\ tlb' = tlb /\ paging' = paging
  BY DEF MmapPage, there
<1>4. directory' \in [Table -> BOOLEAN] /\ ReadThroughTables'
  BY <1>2, <1>3, PagingDomains DEF PagingShape, PagingTypeOK, ReadThroughTables
<1>5. WithTable(there) \in [Page -> Frame \cup {NotPresent}]
  BY <1>2, NewTableType
<1>6. CASE WithTable(there)[there] # NotPresent /\ ~call.remap
  <2>1. tables' = WithTable(there) /\ mapping' = [mapping EXCEPT !.call = Idle]
    BY <1>6 DEF MmapPage, there
  <2>2. mapping' \in [call : Calls, failed : BOOLEAN] /\ mapping'.failed = mapping.failed
    BY <2>1, PagingDomains DEF PagingShape
  <2>3. mapping'.call.virt \in 0 .. Space - 1
    BY <2>2 DEF Calls, Address
  <2>4. TlbIsFresh'
    <3>1. CASE mapping.failed
      BY <3>1, <2>2 DEF TlbIsFresh
    <3>2. CASE ~mapping.failed
      <4>1. \A page \in Page : tlb[page] \in {NotPresent, tables[page]}
        BY <3>2, <1>1, <1>6 DEF TlbIsFresh
      <4>2. \A page \in Page : tlb[page] # NotPresent => WithTable(there)[page] = tables[page]
        BY <1>2, NewTableIsUnread
      <4> QED BY <4>1, <4>2, <2>1, <1>3 DEF TlbIsFresh
    <3> QED BY <3>1, <3>2
  <2> QED BY <1>3, <1>4, <1>5, <2>1, <2>2, <2>3, <2>4 DEF PagingShape, PagingTypeOK
<1>7. CASE ~(WithTable(there)[there] # NotPresent /\ ~call.remap)
  <2>1. /\ tables' = [WithTable(there) EXCEPT ![there] = PageOf(call.phys)]
        /\ mapping' = [mapping EXCEPT !.call.virt = (@ + 2) % Space, !.call.phys = (@ + 2) % Space]
    BY <1>7 DEF MmapPage, there
  <2>2. tables' \in [Page -> Frame \cup {NotPresent}]
    BY <2>1, <1>2, <1>5
  <2>3. /\ mapping' \in [call : Calls, failed : BOOLEAN] /\ mapping'.failed = mapping.failed
        /\ mapping'.call.op = call.op /\ mapping'.call.remap = call.remap
    BY <2>1, <1>1, PagingDomains DEF PagingShape, Calls
  <2>4. mapping'.call.virt \in 0 .. Space - 1
    BY <2>3 DEF Calls, Address
  <2>5. TlbIsFresh'
    <3>1. CASE mapping.failed \/ call.remap
      BY <3>1, <2>3 DEF TlbIsFresh
    <3>2. CASE ~mapping.failed /\ ~call.remap
      <4>1. \A page \in Page : tlb[page] \in {NotPresent, tables[page]}
        BY <3>2, <1>1 DEF TlbIsFresh
      <4>2. \A page \in Page : tlb[page] # NotPresent => WithTable(there)[page] = tables[page]
        BY <1>2, NewTableIsUnread
      <4>3. tlb[there] = NotPresent
        BY <3>2, <1>7, <1>2, <4>1, <4>2
      <4>4. \A page \in Page : page # there => tables'[page] = WithTable(there)[page]
        BY <2>1, <1>5
      <4> QED BY <4>1, <4>2, <4>3, <4>4, <1>3 DEF TlbIsFresh
    <3> QED BY <3>1, <3>2
  <2> QED BY <1>3, <1>4, <2>2, <2>3, <2>4, <2>5 DEF PagingShape, PagingTypeOK
<1> QED BY <1>6, <1>7

\* One turn of kernel_munmap's loop: from the first one on, staleness is
\* excused, and it stays so when the call ends without invalidate_tlb.
LEMMA MunmapPageInv == ASSUME PagingInv, MunmapPage PROVE PagingInv'
<1> USE DEF PagingInv
<1>1. mapping.call \in Calls /\ mapping.call.op = "munmap" /\ mapping.call.virt \in Address
  BY DEF PagingShape, MunmapPage, Running, Calls
<1>2. This \in Page
  BY <1>1, PagingDomains DEF This
<1>3. directory' = directory /\ tlb' = tlb /\ paging' = paging
  BY DEF MunmapPage
<1>4. tables' \in [Page -> Frame \cup {NotPresent}]
  BY <1>2 DEF MunmapPage, PagingShape, PagingTypeOK
<1>5. mapping' \in [call : Calls, failed : BOOLEAN] /\ (mapping'.failed \/ mapping'.call.op = "munmap")
  <2>1. CASE directory[TableOf(This)] /\ tables[This] # NotPresent
    <3>1. mapping' = [mapping EXCEPT !.call.virt = (@ + 2) % Space]
      BY <2>1 DEF MunmapPage
    <3> QED BY <3>1, <1>1, PagingDomains DEF PagingShape, Calls
  <2>2. CASE ~(directory[TableOf(This)] /\ tables[This] # NotPresent)
    <3>1. mapping' = [call |-> Idle, failed |-> TRUE]
      BY <2>2 DEF MunmapPage
    <3> QED BY <3>1, PagingDomains
  <2> QED BY <2>1, <2>2
<1>6. mapping'.call.virt \in 0 .. Space - 1
  BY <1>5 DEF Calls, Address
<1> QED BY <1>3, <1>4, <1>5, <1>6 DEF PagingShape, PagingTypeOK, ReadThroughTables, TlbIsFresh

\* A memory access makes the processor read the entry as it is.
LEMMA AccessInv == ASSUME PagingInv, NEW page \in Page, Access(page) PROVE PagingInv'
<1> USE DEF PagingInv, Access
<1>1. tlb' \in [Page -> Frame \cup {NotPresent}]
  BY DEF PagingShape, PagingTypeOK
<1>2. ReadThroughTables'
  BY DEF PagingShape, PagingTypeOK, ReadThroughTables
<1>3. TlbIsFresh'
  BY DEF PagingShape, PagingTypeOK, TlbIsFresh
<1> QED BY <1>1, <1>2, <1>3 DEF PagingShape, PagingTypeOK

\* Every other step: a call begins, or the TLB is emptied, or paging goes on.
LEMMA CallInv ==
    ASSUME PagingInv,
           \/ \E r \in MapRequests : CallMmap(r)
           \/ \E r \in UnmapRequests : CallMunmap(r)
    PROVE  PagingInv'
<1> USE DEF PagingInv
<1>1. tables' = tables /\ directory' = directory /\ paging' = paging /\ tlb' = tlb
  BY DEF CallMmap, CallMunmap
<1>2. mapping \in [call : Calls, failed : BOOLEAN] /\ mapping.call = Idle
  BY DEF CallMmap, CallMunmap, PagingShape
<1>3. \A r \in MapRequests :
        /\ r.virt \in Address /\ r.phys \in Address /\ r.size \in Nat /\ r.remap \in BOOLEAN
        /\ (r.virt + r.size) % Space \in Address
  BY PagingAssumption, PagingDomains DEF Address, Space
<1>4. \A r \in UnmapRequests :
        r.virt \in Address /\ r.size \in Nat /\ (r.virt + r.size) % Space \in Address
  BY PagingAssumption, PagingDomains DEF Address, Space
<1>5. 0 \in Address /\ "mmap" \in {"none", "mmap", "munmap"} /\ "munmap" \in {"none", "mmap", "munmap"}
  BY PagingAssumption DEF Address, Space
<1>6. PICK c \in Calls : mapping' = [mapping EXCEPT !.call = c]
  <2>1. ASSUME NEW r \in MapRequests, CallMmap(r)
        PROVE  \E c \in Calls : mapping' = [mapping EXCEPT !.call = c]
    <3>1. PageOf(r.virt) \in Page /\ 2 * PageOf(r.virt) \in Address /\ 2 * PageOf(r.phys) \in Address
      BY <2>1, <1>3, PagingDomains
    <3> QED BY <2>1, <3>1, <1>3, <1>5 DEF CallMmap, Calls
  <2>2. ASSUME NEW r \in UnmapRequests, CallMunmap(r)
        PROVE  \E c \in Calls : mapping' = [mapping EXCEPT !.call = c]
    <3>1. 2 * PageOf(r.virt) \in Address
      BY <2>2, <1>4, PagingDomains
    <3> QED BY <2>2, <3>1, <1>4, <1>5 DEF CallMunmap, Calls
  <2> QED BY <2>1, <2>2
<1>7. mapping' \in [call : Calls, failed : BOOLEAN] /\ mapping'.failed = mapping.failed
  BY <1>2, <1>6
<1>8. mapping'.call.virt \in 0 .. Space - 1
  BY <1>7 DEF Calls, Address
<1>9. TlbIsFresh'
  BY <1>1, <1>2, <1>7 DEF TlbIsFresh, Idle
<1> QED BY <1>1, <1>7, <1>8, <1>9 DEF PagingShape, PagingTypeOK, ReadThroughTables

\* invalidate_tlb, and the two calls around the BIOS.
LEMMA FlushInv == ASSUME PagingInv, EndOfCall \/ DisablePaging \/ EnablePaging PROVE PagingInv'
<1> USE DEF PagingInv
<1>1. mapping' \in [call : Calls, failed : BOOLEAN]
  <2>1. mapping \in [call : Calls, failed : BOOLEAN] /\ Idle \in Calls
    BY PagingDomains DEF PagingShape
  <2>2. CASE EndOfCall
    BY <2>1, <2>2 DEF EndOfCall
  <2>3. CASE DisablePaging
    BY <2>1, <2>3 DEF DisablePaging
  <2>4. CASE EnablePaging
    BY <2>1, <2>4 DEF EnablePaging
  <2> QED BY <2>2, <2>3, <2>4
<1>2. mapping'.call.virt \in 0 .. Space - 1
  BY <1>1 DEF Calls, Address
<1>3. tables' = tables /\ directory' = directory /\ paging' \in BOOLEAN
  BY DEF EndOfCall, DisablePaging, EnablePaging, PagingShape, PagingTypeOK
<1>4. CASE tlb' = EmptyTlb
  BY <1>1, <1>2, <1>3, <1>4 DEF EmptyTlb, PagingShape, PagingTypeOK, ReadThroughTables, TlbIsFresh
<1>5. CASE EnablePaging
  BY <1>1, <1>2, <1>3, <1>5 DEF EnablePaging, PagingShape, PagingTypeOK, ReadThroughTables, TlbIsFresh
<1> QED BY <1>4, <1>5 DEF EndOfCall, DisablePaging

\* Every step preserves the invariant.
LEMMA PagingStep == PagingInv /\ [PagingNext]_paging_vars => PagingInv'
<1> SUFFICES ASSUME PagingInv, [PagingNext]_paging_vars PROVE PagingInv'
  OBVIOUS
<1>1. CASE UNCHANGED paging_vars
  BY <1>1 DEF paging_vars, PagingInv, PagingShape, PagingTypeOK, ReadThroughTables, TlbIsFresh
<1>2. CASE PagingNext
  <2>1. CASE \E page \in Page : Access(page)
    BY <2>1, AccessInv
  <2>2. CASE (\E r \in MapRequests : CallMmap(r)) \/ (\E r \in UnmapRequests : CallMunmap(r))
    BY <2>2, CallInv
  <2>3. CASE MmapPage
    BY <2>3, MmapPageInv
  <2>4. CASE MunmapPage
    BY <2>4, MunmapPageInv
  <2>5. CASE EndOfCall \/ DisablePaging \/ EnablePaging
    BY <2>5, FlushInv
  <2> QED BY <1>2, <2>1, <2>2, <2>3, <2>4, <2>5 DEF PagingNext
<1> QED BY <1>1, <1>2

\* The processor's memory of the page tables (paging.c's invalidate_tlb): in
\* every reachable state, for every size of the address space and of a table
\* and every request, what it holds of a page is what the tables say, but for
\* an unmapping, a remapping and a failed unmapping not yet flushed.
THEOREM PagingStaysFresh == PagingSpec => []TlbIsFresh
<1>1. PagingInv => TlbIsFresh
  BY DEF PagingInv
<1> QED BY <1>1, PagingInitInv, PagingStep, PTL DEF PagingSpec

\* The page tables, the directory and the TLB keep their types, under the same
\* generality: a wrapped address never leads outside them.
THEOREM PagingTypes == PagingSpec => []PagingTypeOK
<1>1. PagingInv => PagingTypeOK
  BY DEF PagingInv, PagingShape
<1> QED BY <1>1, PagingInitInv, PagingStep, PTL DEF PagingSpec

-----------------------------------------------------------------------------
(***************************************************************************)
(* memory/heap.c: for a heap of any size and any requests, the chunks fill *)
(* the heap in order and each free one is on the stack of its size class;  *)
(* what kmalloc hands out is as large as was asked for.                    *)
(* The argument: what a chunk's size is depends on the chunk that follows, *)
(* and that is a matter of the set of chunks only.  A call changes the set *)
(* by one chunk or two, and the sizes of the chunk before it.              *)
(***************************************************************************)

-----------------------------------------------------------------------------
(* The size classes                                                        *)

\* The halvings of memory_chunk_slot come to an end: it is a function.
LEMMA SlotDefined ==
    /\ UintRange \in Nat /\ UintRange > 0
    /\ memory_chunk_slot \in [0 .. UintRange - 1 -> Int]
    /\ \A size \in 0 .. UintRange - 1 :
          memory_chunk_slot[size] = IF size = 0 THEN -1 ELSE memory_chunk_slot[size \div 2] + 1
<1> DEFINE D == 0 .. UintRange - 1
           Step(f) == [size \in D |-> IF size = 0 THEN -1 ELSE f[size \div 2] + 1]
           UpTo(f, m) == /\ f \in [0 .. m -> Int]
                         /\ \A i \in 0 .. m : f[i] = IF i = 0 THEN -1 ELSE f[i \div 2] + 1
           Short == {m \in Nat : ~ \E f : UpTo(f, m)}
<1>1. UintRange \in Nat /\ UintRange > 0
  BY HeapAssumption
<1>2. \A i \in Nat : i # 0 => i \div 2 \in 0 .. i - 1
  OBVIOUS
<1>3. Short = {}
  <2>1. SUFFICES ASSUME Short # {} PROVE FALSE
    OBVIOUS
  <2>2. PICK m \in Short : \A j \in Short : m <= j
    <3> HIDE DEF UpTo
    <3>1. Short \subseteq Nat
      OBVIOUS
    <3> HIDE DEF Short
    <3> QED BY <2>1, <3>1, LeastNatural
  <2>3. m \in Nat /\ ~ \E f : UpTo(f, m)
    OBVIOUS
  <2>4. CASE m = 0
    <3>1. UpTo([i \in 0 .. m |-> -1], m)
      BY <2>4
    <3> QED BY <2>3, <3>1
  <2>5. CASE m # 0
    <3>1. m - 1 \in Nat /\ ~ (m <= m - 1)
      BY <2>3, <2>5
    <3>2. PICK f : UpTo(f, m - 1)
      <4> HIDE DEF UpTo
      <4> QED BY <2>2, <3>1
    <3> DEFINE g == [i \in 0 .. m |-> IF i = m THEN f[m \div 2] + 1 ELSE f[i]]
    <3>3. m \div 2 \in 0 .. m - 1
      BY <1>2, <2>3, <2>5
    <3>4. g \in [0 .. m -> Int]
      BY <2>3, <2>5, <3>2, <3>3
    <3>5. ASSUME NEW i \in 0 .. m PROVE g[i] = IF i = 0 THEN -1 ELSE g[i \div 2] + 1
      <4>1. CASE i = m
        <5>1. g[i] = f[m \div 2] + 1 /\ g[i \div 2] = f[m \div 2]
          BY <2>3, <3>3, <4>1
        <5> QED BY <2>5, <4>1, <5>1
      <4>2. CASE i # m /\ i # 0
        <5>1. i \in 0 .. m - 1 /\ i \div 2 \in 0 .. i - 1
          BY <1>2, <2>3, <4>2
        <5>2. g[i] = f[i] /\ g[i \div 2] = f[i \div 2]
          BY <2>3, <5>1
        <5> QED BY <3>2, <4>2, <5>1, <5>2
      <4>3. CASE i = 0
        BY <2>3, <2>5, <3>2, <4>3
      <4> QED BY <4>1, <4>2, <4>3
    <3>6. UpTo(g, m)
      BY <3>4, <3>5
    <3> QED BY <2>3, <3>6
  <2> QED BY <2>4, <2>5
<1>4. PICK f : UpTo(f, UintRange - 1)
  <2> HIDE DEF UpTo
  <2>1. UintRange - 1 \in Nat
    BY <1>1
  <2> QED BY <1>3, <2>1
<1>5. f = Step(f)
  BY <1>4
<1>6. memory_chunk_slot = CHOOSE h : h = Step(h)
  BY DEF memory_chunk_slot
<1>7. memory_chunk_slot = Step(memory_chunk_slot)
  <2> HIDE DEF Step
  <2> QED BY <1>5, <1>6
<1>8. \A size \in D :
         memory_chunk_slot[size] = IF size = 0 THEN -1 ELSE memory_chunk_slot[size \div 2] + 1
  BY <1>7
<1>9. \A size \in D : memory_chunk_slot[size] \in Int
  <2> DEFINE Odd == {size \in D : memory_chunk_slot[size] \notin Int}
  <2>1. SUFFICES ASSUME Odd # {} PROVE FALSE
    OBVIOUS
  <2>2. PICK m \in Odd : \A j \in Odd : m <= j
    <3>1. Odd \subseteq Nat
      BY <1>1
    <3> HIDE DEF Odd
    <3> QED BY <2>1, <3>1, LeastNatural
  <2>3. m # 0
    BY <1>8, <2>2
  <2>4. m \div 2 \in 0 .. m - 1 /\ m \div 2 \in D
    BY <1>1, <1>2, <2>2, <2>3
  <2>5. memory_chunk_slot[m \div 2] \in Int
    BY <1>1, <2>2, <2>4
  <2> QED BY <1>8, <2>2, <2>3, <2>5
<1>10. memory_chunk_slot \in [D -> Int]
  BY <1>7, <1>9
<1> QED BY <1>1, <1>8, <1>10

\* Larger chunks are in no lower class, and every size but 0 has one.
LEMMA SlotMonotonic ==
    ASSUME NEW s \in 0 .. UintRange - 1, NEW t \in 0 .. UintRange - 1, s <= t
    PROVE  /\ memory_chunk_slot[s] <= memory_chunk_slot[t]
           /\ s > 0 => memory_chunk_slot[s] >= 0
<1> DEFINE D == 0 .. UintRange - 1
           slot == memory_chunk_slot
           Fine(x) == slot[x] >= -1 /\ \A y \in D : y <= x => slot[y] <= slot[x]
           Odd == {x \in D : ~ Fine(x)}
<1>1. /\ UintRange \in Nat /\ UintRange > 0 /\ slot \in [D -> Int]
      /\ \A x \in D : slot[x] = IF x = 0 THEN -1 ELSE slot[x \div 2] + 1
  BY SlotDefined
<1> HIDE DEF slot
<1>2. \A x \in D : x # 0 => x \div 2 \in D /\ x \div 2 < x
  BY <1>1
<1>3. Odd = {}
  <2>1. SUFFICES ASSUME Odd # {} PROVE FALSE
    OBVIOUS
  <2>2. PICK x \in Odd : \A j \in Odd : x <= j
    <3>1. Odd \subseteq Nat
      BY <1>1
    <3> HIDE DEF Odd
    <3> QED BY <2>1, <3>1, LeastNatural
  <2>3. x \in D /\ ~ Fine(x) /\ \A y \in D : y < x => Fine(y)
    BY <1>1, <2>2
  <2>4. CASE x = 0
    BY <1>1, <2>3, <2>4
  <2>5. CASE x # 0
    <3>1. x \div 2 \in D /\ x \div 2 < x /\ Fine(x \div 2) /\ slot[x] = slot[x \div 2] + 1
      BY <1>1, <1>2, <2>3, <2>5
    <3>2. slot[x] >= 0
      BY <1>1, <3>1
    <3>3. ASSUME NEW y \in D, y <= x PROVE slot[y] <= slot[x]
      <4>1. CASE y = 0
        BY <1>1, <3>2, <4>1
      <4>2. CASE y # 0
        <5>1. y \div 2 \in D /\ y \div 2 <= x \div 2
          BY <1>1, <1>2, <3>3, <4>2
        <5>2. slot[y \div 2] <= slot[x \div 2]
          BY <3>1, <5>1
        <5>3. slot[y] = slot[y \div 2] + 1
          BY <1>1, <4>2
        <5> QED BY <1>1, <3>1, <5>1, <5>2, <5>3
      <4> QED BY <4>1, <4>2
    <3> QED BY <1>1, <2>3, <3>2, <3>3
  <2> QED BY <2>4, <2>5
<1>4. slot[s] <= slot[t]
  BY <1>3
<1>5. s > 0 => slot[s] >= 0
  <2>1. ASSUME s > 0 PROVE slot[s] >= 0
    <3>1. s # 0 /\ s \div 2 \in D /\ slot[s] = slot[s \div 2] + 1
      BY <1>1, <1>2, <2>1
    <3>2. Fine(s \div 2)
      BY <1>3, <3>1
    <3> QED BY <1>1, <3>1, <3>2
  <2> QED BY <2>1
<1> QED BY <1>4, <1>5 DEF slot

-----------------------------------------------------------------------------
(* Lists of chunks                                                         *)

\* The entries of a sequence and its places.
LEMMA SetOfSequence ==
    ASSUME NEW R, NEW s \in Seq(R)
    PROVE  /\ Len(s) \in Nat /\ DOMAIN s = 1 .. Len(s)
           /\ \A i \in 1 .. Len(s) : s[i] \in R
           /\ ToSet(s) = {s[i] : i \in 1 .. Len(s)} /\ ToSet(s) \subseteq R
           /\ \A c \in ToSet(s) : Place(s, c) \in 1 .. Len(s) /\ s[Place(s, c)] = c
<1>1. Len(s) \in Nat /\ DOMAIN s = 1 .. Len(s) /\ \A i \in 1 .. Len(s) : s[i] \in R
  BY LenProperties, ElementOfSeq
<1>2. ToSet(s) = {s[i] : i \in 1 .. Len(s)}
  BY <1>1 DEF ToSet
<1>3. ASSUME NEW c \in ToSet(s) PROVE Place(s, c) \in 1 .. Len(s) /\ s[Place(s, c)] = c
  <2>1. \E i \in DOMAIN s : s[i] = c
    BY <1>1, <1>2
  <2> QED BY <1>1, <2>1 DEF Place
<1> QED BY <1>1, <1>2, <1>3

\* The list of all chunks: in the order of their addresses.
Ordered(s) == \A i, j \in 1 .. Len(s) : i < j => s[i] < s[j]

InOrder(s) == s \in Seq(Nat) /\ Ordered(s)

\* d is the next address after c that is in A.
Follows(A, c, d) == /\ c \in A /\ d \in A /\ c < d
                    /\ \A x \in A : x <= c \/ d <= x

\* x is an address between the neighbours c and d.
LiesBetween(A, c, d, x) == /\ A \subseteq Nat /\ Follows(A, c, d)
                       /\ x \in Nat /\ c < x /\ x < d

LEMMA FollowsOnce ==
    ASSUME NEW A, A \subseteq Nat
    PROVE  /\ \A c, d, e : Follows(A, c, d) /\ Follows(A, c, e) => d = e
           /\ \A c, d, e : Follows(A, c, e) /\ Follows(A, d, e) => c = d
<1>1. ASSUME NEW c, NEW d, NEW e, Follows(A, c, d), Follows(A, c, e) PROVE d = e
  <2>1. c \in Nat /\ d \in Nat /\ e \in Nat /\ (e <= c \/ d <= e) /\ (d <= c \/ e <= d) /\ c < d /\ c < e
    BY <1>1 DEF Follows
  <2> QED BY <2>1
<1>2. ASSUME NEW c, NEW d, NEW e, Follows(A, c, e), Follows(A, d, e) PROVE c = d
  <2>1. c \in Nat /\ d \in Nat /\ e \in Nat /\ (d <= c \/ e <= d) /\ (c <= d \/ e <= c) /\ c < e /\ d < e
    BY <1>2 DEF Follows
  <2> QED BY <2>1
<1> QED BY <1>1, <1>2

\* The links of the list lead to the neighbours in memory.
LEMMA NeighboursFound ==
    ASSUME NEW s, InOrder(s), NEW c \in ToSet(s), NEW d \in ToSet(s)
    PROVE  /\ c < d => Follows(ToSet(s), c, Follower(s, c))
           /\ d < c => Follows(ToSet(s), Predecessor(s, c), c)
<1> DEFINE k == Place(s, c)
           j == Place(s, d)
<1>1. /\ Len(s) \in Nat /\ ToSet(s) = {s[i] : i \in 1 .. Len(s)}
      /\ \A i \in 1 .. Len(s) : s[i] \in Nat
      /\ k \in 1 .. Len(s) /\ s[k] = c /\ j \in 1 .. Len(s) /\ s[j] = d
      /\ \A i, m \in 1 .. Len(s) : i < m => s[i] < s[m]
  BY SetOfSequence DEF InOrder, Ordered
<1>2. Follower(s, c) = s[k + 1] /\ Predecessor(s, c) = s[k - 1]
  BY DEF Follower, Predecessor
<1> HIDE DEF k, j
<1>3. ASSUME c < d PROVE Follows(ToSet(s), c, s[k + 1])
  <2>1. k < j
    <3>1. j = k \/ j < k \/ k < j
      BY <1>1
    <3> QED BY <1>1, <1>3, <3>1
  <2>2. k + 1 \in 1 .. Len(s)
    BY <1>1, <2>1
  <2>3. ASSUME NEW x \in ToSet(s) PROVE x <= c \/ s[k + 1] <= x
    <3>1. PICK i \in 1 .. Len(s) : s[i] = x
      BY <1>1
    <3>2. i < k \/ i = k \/ i = k + 1 \/ k + 1 < i
      BY <1>1
    <3>3. /\ s[i] \in Nat /\ s[k + 1] \in Nat /\ s[k] \in Nat
          /\ i < k => s[i] < s[k]
          /\ k + 1 < i => s[k + 1] < s[i]
      BY <1>1, <2>2
    <3> QED BY ONLY <1>1, <3>1, <3>2, <3>3
  <2> QED BY <1>1, <2>2, <2>3 DEF Follows
<1>4. ASSUME d < c PROVE Follows(ToSet(s), s[k - 1], c)
  <2>1. j < k
    <3>1. j = k \/ j < k \/ k < j
      BY <1>1
    <3> QED BY <1>1, <1>4, <3>1
  <2>2. k - 1 \in 1 .. Len(s)
    BY <1>1, <2>1
  <2>3. ASSUME NEW x \in ToSet(s) PROVE x <= s[k - 1] \/ c <= x
    <3>1. PICK i \in 1 .. Len(s) : s[i] = x
      BY <1>1
    <3>2. i < k - 1 \/ i = k - 1 \/ i = k \/ k < i
      BY <1>1
    <3>3. /\ s[i] \in Nat /\ s[k - 1] \in Nat /\ s[k] \in Nat
          /\ i < k - 1 => s[i] < s[k - 1]
          /\ k < i => s[k] < s[i]
      BY <1>1, <2>2
    <3> QED BY ONLY <1>1, <3>1, <3>2, <3>3
  <2> QED BY <1>1, <2>2, <2>3 DEF Follows
<1> QED BY <1>2, <1>3, <1>4

\* The size of a chunk is a matter of the chunk that follows.
LEMMA SizeIs ==
    ASSUME NEW s, InOrder(s), NEW c, NEW d, Follows(ToSet(s), c, d)
    PROVE  /\ Follower(s, c) = d /\ Predecessor(s, d) = c
           /\ memory_chunk_size(s, c) = d - c - HEADER_SIZE
           /\ c \in Nat /\ d \in Nat
<1>1. c \in ToSet(s) /\ d \in ToSet(s) /\ c < d /\ ToSet(s) \subseteq Nat
  BY SetOfSequence DEF Follows, InOrder
<1>2. Follows(ToSet(s), c, Follower(s, c)) /\ Follows(ToSet(s), Predecessor(s, d), d)
  BY <1>1, NeighboursFound
<1>3. Follower(s, c) = d /\ Predecessor(s, d) = c
  BY <1>1, <1>2, FollowsOnce
<1> QED BY <1>1, <1>3 DEF memory_chunk_size

\* insert_after: a chunk between two neighbours.
WithChunk(R, s, x, new) == new \in Seq(R) /\ Ordered(new) /\ ToSet(new) = ToSet(s) \cup {x}

LEMMA ChunkInserted ==
    ASSUME NEW R, NEW s, NEW c, NEW d, NEW x,
           s \in Seq(R), Ordered(s), LiesBetween(ToSet(s), c, d, x), x \in R, R \subseteq Nat
    PROVE  WithChunk(R, s, x, InsertAt(s, Place(s, c) + 1, x))
<1>0. Follows(ToSet(s), c, d) /\ x \in R /\ c < x /\ x < d
  BY DEF LiesBetween
<1> DEFINE k == Place(s, c) + 1
           new == InsertAt(s, k, x)
<1>1. /\ Len(s) \in Nat /\ ToSet(s) = {s[i] : i \in 1 .. Len(s)}
      /\ \A i \in 1 .. Len(s) : s[i] \in R /\ s[i] \in Nat
      /\ c \in ToSet(s) /\ k \in 1 .. Len(s) + 1 /\ k # 1 /\ s[k - 1] = c
      /\ x \in Nat /\ d \in Nat /\ c \in Nat
      /\ \A i, j \in 1 .. Len(s) : i < j => s[i] < s[j]
  <2>1. c \in ToSet(s) /\ d \in ToSet(s)
    BY <1>0 DEF Follows
  <2>2. /\ Len(s) \in Nat /\ ToSet(s) = {s[i] : i \in 1 .. Len(s)} /\ ToSet(s) \subseteq R
        /\ \A i \in 1 .. Len(s) : s[i] \in R
        /\ Place(s, c) \in 1 .. Len(s) /\ s[Place(s, c)] = c
    BY <2>1, SetOfSequence
  <2>3. x \in Nat /\ d \in Nat /\ c \in Nat /\ \A i \in 1 .. Len(s) : s[i] \in R /\ s[i] \in Nat
    BY <2>1, <2>2
  <2> DEFINE p == Place(s, c)
  <2>4. p \in 1 .. Len(s) /\ s[p] = c /\ k = p + 1
    BY <2>2
  <2> HIDE DEF p, k
  <2>5. k \in 1 .. Len(s) + 1 /\ k # 1 /\ k - 1 = p
    BY <2>2, <2>4
  <2>6. \A i, j \in 1 .. Len(s) : i < j => s[i] < s[j]
    BY DEF Ordered
  <2> QED BY <2>1, <2>2, <2>3, <2>4, <2>5, <2>6
<1> HIDE DEF k
<1>2. new \in Seq(R) /\ PutIn(s, k, x, new)
  BY <1>1, InsertedEntries
<1>3. /\ Len(new) = Len(s) + 1
      /\ \A i \in 1 .. Len(s) + 1 : new[i] = IF i < k THEN s[i] ELSE IF i = k THEN x ELSE s[i - 1]
  BY <1>2 DEF PutIn
<1> HIDE DEF new
<1>4. \A i \in 1 .. Len(s) : (i < k => s[i] < x) /\ (k <= i => x < s[i])
  <2>1. \A i \in 1 .. Len(s) : s[i] <= c \/ d <= s[i]
    BY <1>0, <1>1 DEF Follows
  <2>2. ASSUME NEW i \in 1 .. Len(s), i < k PROVE s[i] < x
    <3>1. i = k - 1 \/ i < k - 1
      BY <1>1, <2>2
    <3>2. k - 1 \in 1 .. Len(s)
      BY <1>1
    <3>3. s[i] <= c
      <4>1. i < k - 1 => s[i] < s[k - 1]
        BY ONLY <1>1, <3>2
      <4> QED BY <1>1, <3>1, <4>1
    <3>4. s[i] \in Nat /\ c \in Nat /\ x \in Nat /\ c < x
      BY <1>0, <1>1
    <3> QED BY ONLY <3>3, <3>4
  <2>3. ASSUME NEW i \in 1 .. Len(s), k <= i PROVE x < s[i]
    <3>1. k - 1 < i /\ k - 1 \in 1 .. Len(s)
      BY <1>1, <2>3
    <3>2. c < s[i]
      BY <1>1, <3>1
    <3>3. d <= s[i]
      BY <1>1, <2>1, <3>2
    <3>4. s[i] \in Nat /\ d \in Nat /\ x \in Nat /\ x < d
      BY <1>0, <1>1
    <3> QED BY ONLY <3>3, <3>4
  <2> QED BY <2>2, <2>3
<1>5. Ordered(new)
  <2>1. SUFFICES ASSUME NEW i \in 1 .. Len(s) + 1, NEW j \in 1 .. Len(s) + 1, i < j
                 PROVE  new[i] < new[j]
    BY <1>3 DEF Ordered
  <2>2. CASE j < k
    <3>1. i \in 1 .. Len(s) /\ j \in 1 .. Len(s) /\ i < k /\ new[i] = s[i] /\ new[j] = s[j]
      BY <1>1, <1>3, <2>1, <2>2
    <3> QED BY <1>1, <2>1, <3>1
  <2>3. CASE j = k
    <3>1. i \in 1 .. Len(s) /\ i < k /\ new[i] = s[i] /\ new[j] = x
      BY <1>1, <1>3, <2>1, <2>3
    <3> QED BY <1>4, <3>1
  <2>4. CASE j > k /\ i < k
    <3>1. i \in 1 .. Len(s) /\ j - 1 \in 1 .. Len(s) /\ i < j - 1 /\ new[i] = s[i] /\ new[j] = s[j - 1]
      BY <1>1, <1>3, <2>1, <2>4
    <3> QED BY <1>1, <3>1
  <2>5. CASE j > k /\ i = k
    <3>1. j - 1 \in 1 .. Len(s) /\ k <= j - 1 /\ new[i] = x /\ new[j] = s[j - 1]
      BY <1>1, <1>3, <2>1, <2>5
    <3> QED BY <1>4, <3>1
  <2>6. CASE j > k /\ i > k
    <3>1. i - 1 \in 1 .. Len(s) /\ j - 1 \in 1 .. Len(s) /\ i - 1 < j - 1
          /\ new[i] = s[i - 1] /\ new[j] = s[j - 1]
      BY <1>1, <1>3, <2>1, <2>6
    <3> QED BY <1>1, <3>1
  <2> QED BY <1>1, <2>2, <2>3, <2>4, <2>5, <2>6
<1>6. ToSet(new) = ToSet(s) \cup {x}
  <2>1. ToSet(new) = {new[i] : i \in 1 .. Len(s) + 1}
    BY <1>2, <1>3, SetOfSequence
  <2>2. ASSUME NEW i \in 1 .. Len(s) + 1 PROVE new[i] \in ToSet(s) \cup {x}
    <3>1. i < k => i \in 1 .. Len(s)
      BY <1>1
    <3>2. i > k => i - 1 \in 1 .. Len(s)
      BY <1>1
    <3> QED BY <1>1, <1>3, <3>1, <3>2
  <2>3. x \in ToSet(new)
    BY <1>1, <1>3, <2>1
  <2>4. ASSUME NEW i \in 1 .. Len(s) PROVE s[i] \in ToSet(new)
    <3>1. CASE i < k
      <4>1. i \in 1 .. Len(s) + 1 /\ new[i] = s[i]
        BY <1>1, <1>3, <3>1
      <4> QED BY <2>1, <4>1
    <3>2. CASE k <= i
      <4>1. i + 1 \in 1 .. Len(s) + 1 /\ ~ (i + 1 < k) /\ i + 1 # k /\ i + 1 - 1 = i
        BY <1>1, <3>2
      <4>2. new[i + 1] = s[i]
        BY <1>3, <4>1
      <4> QED BY <2>1, <4>1, <4>2
    <3> QED BY <1>1, <3>1, <3>2
  <2> QED BY <1>1, <2>1, <2>2, <2>3, <2>4
<1> QED BY <1>2, <1>5, <1>6 DEF new, k, WithChunk

\* No entry twice.
Once(s) == \A i, j \in 1 .. Len(s) : s[i] = s[j] => i = j

LEMMA OrderedOnce ==
    ASSUME NEW s, s \in Seq(Nat), Ordered(s)
    PROVE  Once(s)
<1>1. Len(s) \in Nat /\ \A i \in 1 .. Len(s) : s[i] \in Nat
  BY SetOfSequence
<1>2. SUFFICES ASSUME NEW i \in 1 .. Len(s), NEW j \in 1 .. Len(s), s[i] = s[j] PROVE i = j
  BY DEF Once
<1>3. ~ (i < j) /\ ~ (j < i)
  <2>1. s[i] \in Nat /\ s[j] \in Nat
    BY <1>1
  <2> QED BY <1>2, <2>1 DEF Ordered
<1> QED BY <1>1, <1>3

\* remove: the one chunk goes, the others keep their order.
LEMMA ChunkRemoved ==
    ASSUME NEW R, NEW s \in Seq(R), Once(s), NEW x \in ToSet(s)
    PROVE  /\ Without(s, x) \in Seq(R) /\ ToSet(Without(s, x)) = ToSet(s) \ {x}
           /\ Once(Without(s, x))
           /\ R \subseteq Nat /\ Ordered(s) => Ordered(Without(s, x))
<1> DEFINE k == Place(s, x)
           new == Without(s, x)
           From(i) == IF i < k THEN i ELSE i + 1
<1>1. /\ Len(s) \in Nat /\ ToSet(s) = {s[i] : i \in 1 .. Len(s)}
      /\ \A i \in 1 .. Len(s) : s[i] \in R
      /\ k \in 1 .. Len(s) /\ s[k] = x
  BY SetOfSequence
<1>2. new = RemoveAt(s, k)
  BY DEF Without
<1> HIDE DEF k
<1>3. /\ new \in Seq(R) /\ Len(new) = Len(s) - 1
      /\ \A i \in 1 .. Len(s) - 1 : new[i] = IF i < k THEN s[i] ELSE s[i + 1]
  BY <1>1, <1>2, RemovedEntries
<1> HIDE DEF new
<1>4. \A i \in 1 .. Len(new) : From(i) \in 1 .. Len(s) /\ From(i) # k /\ new[i] = s[From(i)]
  BY <1>1, <1>3
<1>5. \A i, j \in 1 .. Len(new) : (From(i) = From(j) => i = j) /\ (i < j => From(i) < From(j))
  BY <1>1, <1>3
<1>6. \A i \in 1 .. Len(s) : i # k => \E j \in 1 .. Len(new) : From(j) = i
  <2>1. SUFFICES ASSUME NEW i \in 1 .. Len(s), i # k PROVE \E j \in 1 .. Len(new) : From(j) = i
    OBVIOUS
  <2>2. CASE i < k
    <3>1. i \in 1 .. Len(new) /\ From(i) = i
      BY <1>1, <1>3, <2>2
    <3> QED BY <3>1
  <2>3. CASE k < i
    <3>1. i - 1 \in 1 .. Len(new) /\ From(i - 1) = i
      BY <1>1, <1>3, <2>3
    <3> QED BY <3>1
  <2> QED BY <1>1, <2>1, <2>2, <2>3
<1> HIDE DEF From
<1>7. Once(new)
  BY <1>4, <1>5 DEF Once
<1>8. ToSet(new) = ToSet(s) \ {x}
  <2>1. ToSet(new) = {new[i] : i \in 1 .. Len(new)}
    BY <1>3, SetOfSequence
  <2>2. ASSUME NEW i \in 1 .. Len(new) PROVE new[i] \in ToSet(s) \ {x}
    <3>1. From(i) \in 1 .. Len(s) /\ From(i) # k /\ new[i] = s[From(i)]
      BY <1>4
    <3>2. s[From(i)] # x
      BY <1>1, <3>1 DEF Once
    <3> QED BY <1>1, <3>1, <3>2
  <2>3. ASSUME NEW c \in ToSet(s), c # x PROVE c \in ToSet(new)
    <3>1. PICK i \in 1 .. Len(s) : s[i] = c
      BY <1>1
    <3>2. PICK j \in 1 .. Len(new) : From(j) = i
      BY <1>1, <1>6, <2>3, <3>1
    <3>3. new[j] = c
      BY <1>4, <3>1, <3>2
    <3> QED BY <2>1, <3>3
  <2> QED BY <2>1, <2>2, <2>3
<1>9. Ordered(s) => Ordered(new)
  BY <1>4, <1>5 DEF Ordered
<1> QED BY <1>3, <1>7, <1>8, <1>9 DEF new

\* A chunk put on a stack, and taken from it.
LEMMA ChunkPushed ==
    ASSUME NEW R, NEW s \in Seq(R), Once(s), NEW x \in R, x \notin ToSet(s)
    PROVE  /\ <<x>> \o s \in Seq(R) /\ ToSet(<<x>> \o s) = ToSet(s) \cup {x}
           /\ Once(<<x>> \o s)
<1> DEFINE new == <<x>> \o s
<1>1. /\ Len(s) \in Nat /\ ToSet(s) = {s[i] : i \in 1 .. Len(s)}
      /\ \A i \in 1 .. Len(s) : s[i] \in R
  BY SetOfSequence
<1>2. <<x>> \in Seq(R) /\ Len(<<x>>) = 1 /\ <<x>>[1] = x
  OBVIOUS
<1>3. /\ new \in Seq(R) /\ Len(new) = Len(<<x>>) + Len(s)
      /\ \A i \in 1 .. Len(<<x>>) + Len(s) :
            new[i] = IF i <= Len(<<x>>) THEN <<x>>[i] ELSE s[i - Len(<<x>>)]
  BY <1>2, ConcatProperties
<1> HIDE DEF new
<1>4. /\ Len(new) = Len(s) + 1 /\ new[1] = x
      /\ \A i \in 1 .. Len(s) + 1 : i # 1 => i - 1 \in 1 .. Len(s) /\ new[i] = s[i - 1]
  BY <1>1, <1>2, <1>3
<1>5. \A i \in 1 .. Len(s) : i + 1 \in 1 .. Len(new) /\ new[i + 1] = s[i]
  BY <1>1, <1>4
<1>6. ToSet(new) = ToSet(s) \cup {x}
  <2>1. ToSet(new) = {new[i] : i \in 1 .. Len(new)}
    BY <1>3, SetOfSequence
  <2>2. 1 \in 1 .. Len(new)
    BY <1>1, <1>4
  <2>3. ASSUME NEW i \in 1 .. Len(new) PROVE new[i] \in ToSet(s) \cup {x}
    BY <1>1, <1>4
  <2>4. ASSUME NEW i \in 1 .. Len(s) PROVE s[i] \in ToSet(new)
    BY <1>5, <2>1
  <2>5. ToSet(new) \subseteq ToSet(s) \cup {x} /\ ToSet(s) \subseteq ToSet(new)
    BY <1>1, <2>1, <2>3, <2>4
  <2>6. x \in ToSet(new)
    BY <1>4, <2>1, <2>2
  <2> QED BY <2>5, <2>6
<1>7. Once(new)
  <2>1. SUFFICES ASSUME NEW i \in 1 .. Len(new), NEW j \in 1 .. Len(new), new[i] = new[j]
                 PROVE  i = j
    BY DEF Once
  <2>2. \A m \in 1 .. Len(s) : s[m] # x
    BY <1>1
  <2>3. CASE i = 1 \/ j = 1
    BY <1>1, <1>4, <2>1, <2>2, <2>3
  <2>4. CASE i # 1 /\ j # 1
    <3>1. i - 1 \in 1 .. Len(s) /\ j - 1 \in 1 .. Len(s) /\ s[i - 1] = s[j - 1]
      BY <1>4, <2>1, <2>4
    <3>2. i - 1 = j - 1
      BY <3>1 DEF Once
    <3> QED BY <1>1, <1>4, <3>2
  <2> QED BY <2>3, <2>4
<1> QED BY <1>3, <1>6, <1>7 DEF new

LEMMA ChunkPopped ==
    ASSUME NEW R, NEW s \in Seq(R), Once(s), s # <<>>
    PROVE  /\ Head(s) \in ToSet(s) /\ Tail(s) \in Seq(R)
           /\ ToSet(Tail(s)) = ToSet(s) \ {Head(s)} /\ Once(Tail(s))
<1> DEFINE new == Tail(s)
           x == Head(s)
<1>1. /\ Len(s) \in Nat \ {0} /\ ToSet(s) = {s[i] : i \in 1 .. Len(s)}
      /\ \A i \in 1 .. Len(s) : s[i] \in R
  <2>1. Len(s) \in Nat \ {0}
    BY EmptySeq
  <2> QED BY <2>1, SetOfSequence
<1>2. x = s[1]
  OBVIOUS
<1>3. /\ new \in Seq(R) /\ Len(new) = Len(s) - 1
      /\ \A i \in 1 .. Len(new) : new[i] = s[i + 1]
  BY HeadTailProperties
<1> HIDE DEF new, x
<1>4. x \in ToSet(s)
  BY <1>1, <1>2
<1>5. Once(new)
  <2>1. SUFFICES ASSUME NEW i \in 1 .. Len(new), NEW j \in 1 .. Len(new), new[i] = new[j]
                 PROVE  i = j
    BY DEF Once
  <2>2. i + 1 \in 1 .. Len(s) /\ j + 1 \in 1 .. Len(s) /\ s[i + 1] = s[j + 1]
    BY <1>1, <1>3, <2>1
  <2>3. i + 1 = j + 1
    BY <2>2 DEF Once
  <2> QED BY <1>1, <1>3, <2>3
<1>6. ToSet(new) = ToSet(s) \ {x}
  <2>1. ToSet(new) = {new[i] : i \in 1 .. Len(new)}
    BY <1>3, SetOfSequence
  <2>2. ASSUME NEW i \in 1 .. Len(new) PROVE new[i] \in ToSet(s) \ {x}
    <3>1. i + 1 \in 1 .. Len(s) /\ 1 \in 1 .. Len(s) /\ i + 1 # 1 /\ new[i] = s[i + 1]
      BY <1>1, <1>3
    <3>2. s[i + 1] # s[1]
      BY <3>1 DEF Once
    <3> QED BY <1>1, <1>2, <3>1, <3>2
  <2>3. ASSUME NEW i \in 1 .. Len(s), s[i] # x PROVE s[i] \in ToSet(new)
    <3>1. i # 1
      BY <1>2, <2>3
    <3>2. i - 1 \in 1 .. Len(new) /\ new[i - 1] = s[i - 1 + 1] /\ i - 1 + 1 = i
      BY <1>1, <1>3, <3>1
    <3> QED BY <2>1, <3>2
  <2> QED BY <1>1, <2>1, <2>2, <2>3
<1> QED BY <1>3, <1>4, <1>5, <1>6 DEF new, x

\* Each entry once: as many entries as places.
LEMMA OnceCounts ==
    ASSUME NEW R, NEW s \in Seq(R), Once(s)
    PROVE  Len(s) = Cardinality(ToSet(s))
<1>1. /\ Len(s) \in Nat /\ ToSet(s) = {s[i] : i \in 1 .. Len(s)}
      /\ s \in [1 .. Len(s) -> ToSet(s)]
  <2>1. Len(s) \in Nat /\ ToSet(s) = {s[i] : i \in 1 .. Len(s)}
    BY SetOfSequence
  <2>2. s \in [1 .. Len(s) -> R]
    BY LenProperties
  <2> QED BY <2>1, <2>2
<1>2. s \in Bijection(1 .. Len(s), ToSet(s))
  <2>1. \A i, j \in 1 .. Len(s) : s[i] = s[j] => i = j
    BY DEF Once
  <2>2. \A c \in ToSet(s) : \E i \in 1 .. Len(s) : s[i] = c
    BY <1>1
  <2> QED BY <1>1, <2>1, <2>2 DEF Bijection, Injection, Surjection, IsInjective
<1>3. IsFiniteSet(1 .. Len(s)) /\ Cardinality(1 .. Len(s)) = Len(s)
  <2>1. 1 \in Int /\ Len(s) \in Int
    BY <1>1
  <2>2. Cardinality(1 .. Len(s)) = IF 1 > Len(s) THEN 0 ELSE Len(s) - 1 + 1
    BY <2>1, FS_Interval
  <2> QED BY <1>1, <2>1, <2>2, FS_Interval
<1>4. ExistsBijection(1 .. Len(s), ToSet(s))
  BY <1>2 DEF ExistsBijection
<1> QED BY <1>3, <1>4, FS_Bijection

-----------------------------------------------------------------------------
(* The chunks as a set of addresses                                        *)

\* A chunk between two neighbours is a neighbour of both.
SplitBy(A, c, d, x) ==
    /\ Follows(A \cup {x}, c, x) /\ Follows(A \cup {x}, x, d)
    /\ \A a, b : Follows(A \cup {x}, a, b) =>
          (Follows(A, a, b) /\ a # c) \/ (a = c /\ b = x) \/ (a = x /\ b = d)
    /\ \A a, b : Follows(A, a, b) /\ a # c => Follows(A \cup {x}, a, b)

LEMMA FollowsSplit ==
    ASSUME NEW A, NEW c, NEW d, NEW x, LiesBetween(A, c, d, x)
    PROVE  SplitBy(A, c, d, x)
<1>0. A \subseteq Nat /\ Follows(A, c, d) /\ x \in Nat /\ c < x /\ x < d
  BY DEF LiesBetween
<1>1. c \in A /\ d \in A /\ c \in Nat /\ d \in Nat /\ c < d /\ \A y \in A : y <= c \/ d <= y
  BY <1>0 DEF Follows
<1>2. Follows(A \cup {x}, c, x) /\ Follows(A \cup {x}, x, d)
  BY <1>0, <1>1 DEF Follows
<1>3. ASSUME NEW a, NEW b, Follows(A \cup {x}, a, b)
      PROVE  (Follows(A, a, b) /\ a # c) \/ (a = c /\ b = x) \/ (a = x /\ b = d)
  <2>1. CASE a = c
    BY <1>0, <1>2, <1>3, <2>1, FollowsOnce
  <2>2. CASE b = d
    BY <1>0, <1>2, <1>3, <2>2, FollowsOnce
  <2>3. CASE a # c /\ b # d
    <3>1. a # x /\ b # x
      <4> DEFINE B == A \cup {x}
      <4>0. /\ B \subseteq Nat /\ Follows(B, c, x) /\ Follows(B, x, d) /\ Follows(B, a, b)
        BY <1>0, <1>2, <1>3
      <4> HIDE DEF B
      <4>1. a = x => b = d
        BY <4>0, FollowsOnce
      <4>2. b = x => a = c
        BY <4>0, FollowsOnce
      <4> QED BY <4>1, <4>2, <2>3
    <3>2. Follows(A, a, b)
      BY <1>3, <3>1 DEF Follows
    <3> QED BY <2>3, <3>2
  <2> QED BY <2>1, <2>2, <2>3
<1>4. ASSUME NEW a, NEW b, Follows(A, a, b), a # c PROVE Follows(A \cup {x}, a, b)
  <2>1. a \in A /\ b \in A /\ a \in Nat /\ b \in Nat /\ a < b /\ \A y \in A : y <= a \/ b <= y
    BY <1>0, <1>4 DEF Follows
  <2>2. x <= a \/ b <= x
    BY <1>0, <1>1, <1>4, <2>1
  <2> QED BY <2>1, <2>2 DEF Follows
<1> QED BY <1>2, <1>3, <1>4 DEF SplitBy

\* When a chunk goes, its neighbours are neighbours of each other.
JoinedOver(A, c, x, d) ==
    /\ Follows(A \ {x}, c, d)
    /\ \A a, b : Follows(A \ {x}, a, b) =>
          (Follows(A, a, b) /\ a # c /\ a # x /\ b # x) \/ (a = c /\ b = d)
    /\ \A a, b : Follows(A, a, b) /\ a # x /\ b # x => Follows(A \ {x}, a, b)

LEMMA FollowsJoined ==
    ASSUME NEW A, NEW c, NEW x, NEW d, A \subseteq Nat, Follows(A, c, x), Follows(A, x, d)
    PROVE  JoinedOver(A, c, x, d)
<1>1. /\ c \in A /\ x \in A /\ d \in A /\ c \in Nat /\ x \in Nat /\ d \in Nat /\ c < x /\ x < d
      /\ \A y \in A : y <= c \/ x <= y
      /\ \A y \in A : y <= x \/ d <= y
  BY DEF Follows
<1>2. Follows(A \ {x}, c, d)
  <2>1. ASSUME NEW y \in A \ {x} PROVE y <= c \/ d <= y
    BY <1>1, <2>1
  <2> QED BY <1>1, <2>1 DEF Follows
<1>3. ASSUME NEW a, NEW b, Follows(A \ {x}, a, b)
      PROVE  (Follows(A, a, b) /\ a # c /\ a # x /\ b # x) \/ (a = c /\ b = d)
  <2>1. a \in A /\ b \in A /\ a # x /\ b # x /\ a \in Nat /\ b \in Nat /\ a < b
        /\ \A y \in A \ {x} : y <= a \/ b <= y
    BY <1>3 DEF Follows
  <2>2. CASE a = c
    BY <1>2, <1>3, <2>2, FollowsOnce
  <2>3. CASE a # c
    <3>1. c <= a \/ b <= c
      BY <1>1, <2>1
    <3>2. x <= a \/ b <= x
      BY <1>1, <2>1, <2>3
    <3> QED BY <2>1, <2>3, <3>2 DEF Follows
  <2> QED BY <2>2, <2>3
<1>4. ASSUME NEW a, NEW b, Follows(A, a, b), a # x, b # x PROVE Follows(A \ {x}, a, b)
  BY <1>4 DEF Follows
<1> QED BY <1>2, <1>3, <1>4 DEF JoinedOver

-----------------------------------------------------------------------------
(* The stacks of free chunks                                               *)

Addresses == 0 .. LastChunk

\* Each chunk of F is once on the stack of its class, and nothing else is.
Shelved(table, list, F) ==
    /\ table \in [0 .. NUM_SIZES - 1 -> Seq(Addresses)]
    /\ \A n \in 0 .. NUM_SIZES - 1 :
          /\ Once(table[n])
          /\ \A c : c \in ToSet(table[n]) <=>
                      c \in F /\ memory_chunk_slot[memory_chunk_size(list, c)] = n

LEMMA PushShelved ==
    ASSUME NEW table, NEW list, NEW F, Shelved(table, list, F),
           NEW c \in Addresses, c \notin F,
           memory_chunk_slot[memory_chunk_size(list, c)] \in 0 .. NUM_SIZES - 1
    PROVE  Shelved(push_free(table, list, c), list, F \cup {c})
<1> DEFINE m == memory_chunk_slot[memory_chunk_size(list, c)]
           new == push_free(table, list, c)
<1>1. /\ table \in [0 .. NUM_SIZES - 1 -> Seq(Addresses)]
      /\ new = [table EXCEPT ![m] = <<c>> \o table[m]]
  BY DEF push_free, Shelved
<1>2. table[m] \in Seq(Addresses) /\ Once(table[m]) /\ c \notin ToSet(table[m])
  BY DEF Shelved
<1>3. /\ <<c>> \o table[m] \in Seq(Addresses) /\ Once(<<c>> \o table[m])
      /\ ToSet(<<c>> \o table[m]) = ToSet(table[m]) \cup {c}
  BY <1>2, ChunkPushed
<1> HIDE DEF new
<1>4. new \in [0 .. NUM_SIZES - 1 -> Seq(Addresses)]
  BY <1>1, <1>3
<1>5. ASSUME NEW n \in 0 .. NUM_SIZES - 1
      PROVE  /\ Once(new[n])
             /\ \A d : d \in ToSet(new[n]) <=>
                   d \in F \cup {c} /\ memory_chunk_slot[memory_chunk_size(list, d)] = n
  <2>1. CASE n = m
    <3>1. new[n] = <<c>> \o table[m]
      BY <1>1, <2>1
    <3> QED BY <1>3, <2>1, <3>1 DEF Shelved
  <2>2. CASE n # m
    <3>1. new[n] = table[n]
      BY <1>1, <2>2
    <3> QED BY <2>2, <3>1 DEF Shelved
  <2> QED BY <2>1, <2>2
<1> QED BY <1>4, <1>5 DEF Shelved, new

\* table with one stack changed to s, which holds all it did except c.
LEMMA Unshelved ==
    ASSUME NEW table, NEW list, NEW F, Shelved(table, list, F),
           NEW m \in 0 .. NUM_SIZES - 1, NEW c \in ToSet(table[m]),
           NEW s \in Seq(Addresses), Once(s), ToSet(s) = ToSet(table[m]) \ {c}
    PROVE  Shelved([table EXCEPT ![m] = s], list, F \ {c})
<1> DEFINE new == [table EXCEPT ![m] = s]
<1>1. /\ new \in [0 .. NUM_SIZES - 1 -> Seq(Addresses)]
      /\ \A n \in 0 .. NUM_SIZES - 1 : new[n] = IF n = m THEN s ELSE table[n]
  BY DEF Shelved
<1> HIDE DEF new
<1>2. c \in F /\ memory_chunk_slot[memory_chunk_size(list, c)] = m
  BY DEF Shelved
<1>3. ASSUME NEW n \in 0 .. NUM_SIZES - 1
      PROVE  /\ Once(new[n])
             /\ \A d : d \in ToSet(new[n]) <=>
                   d \in F \ {c} /\ memory_chunk_slot[memory_chunk_size(list, d)] = n
  BY <1>1, <1>2 DEF Shelved
<1> QED BY <1>1, <1>3 DEF Shelved, new

LEMMA RemoveShelved ==
    ASSUME NEW table, NEW list, NEW F, Shelved(table, list, F), NEW c \in F,
           memory_chunk_slot[memory_chunk_size(list, c)] \in 0 .. NUM_SIZES - 1
    PROVE  Shelved(remove_free(table, list, c), list, F \ {c})
<1> DEFINE m == memory_chunk_slot[memory_chunk_size(list, c)]
           s == Without(table[m], c)
<1>1. remove_free(table, list, c) = [table EXCEPT ![m] = s]
  BY DEF remove_free
<1>2. table[m] \in Seq(Addresses) /\ Once(table[m]) /\ c \in ToSet(table[m])
  BY DEF Shelved
<1>3. s \in Seq(Addresses) /\ Once(s) /\ ToSet(s) = ToSet(table[m]) \ {c}
  BY <1>2, ChunkRemoved
<1> HIDE DEF s, m
<1>4. m \in 0 .. NUM_SIZES - 1
  BY DEF m
<1>5. Shelved([table EXCEPT ![m] = s], list, F \ {c})
  BY <1>2, <1>3, <1>4, Unshelved
<1> QED BY <1>1, <1>5

LEMMA PopShelved ==
    ASSUME NEW table, NEW list, NEW F, Shelved(table, list, F),
           NEW m \in 0 .. NUM_SIZES - 1, table[m] # <<>>
    PROVE  /\ Shelved([table EXCEPT ![m] = Tail(@)], list, F \ {Head(table[m])})
           /\ Head(table[m]) \in F
           /\ memory_chunk_slot[memory_chunk_size(list, Head(table[m]))] = m
<1> DEFINE s == Tail(table[m])
           c == Head(table[m])
<1>1. table[m] \in Seq(Addresses) /\ Once(table[m])
  BY DEF Shelved
<1>2. c \in ToSet(table[m]) /\ s \in Seq(Addresses) /\ Once(s) /\ ToSet(s) = ToSet(table[m]) \ {c}
  BY <1>1, ChunkPopped
<1>3. [table EXCEPT ![m] = Tail(@)] = [table EXCEPT ![m] = s]
  OBVIOUS
<1>4. c \in F /\ memory_chunk_slot[memory_chunk_size(list, c)] = m
  BY <1>2 DEF Shelved
<1> HIDE DEF s, c
<1>5. Shelved([table EXCEPT ![m] = s], list, F \ {c})
  BY <1>2, Unshelved
<1> QED BY <1>3, <1>4, <1>5 DEF s, c

\* The shelves are right as long as the sizes of the free chunks are the same.
LEMMA StillShelved ==
    ASSUME NEW table, NEW list, NEW list2, NEW F, Shelved(table, list, F),
           \A c \in F : memory_chunk_size(list2, c) = memory_chunk_size(list, c)
    PROVE  Shelved(table, list2, F)
BY DEF Shelved

-----------------------------------------------------------------------------
(* The heap is arranged                                                    *)

\* The inductive invariant, of a list of chunks, the stacks and the chunks
\* with the flag used.
Arranged(list, table, U) ==
    /\ list \in Seq(Addresses) /\ Ordered(list)
    /\ 0 \in U /\ LastChunk \in U /\ U \subseteq ToSet(list)
    /\ \A c \in ToSet(list) : c % ALIGN = 0
    /\ \A c, d : Follows(ToSet(list), c, d) => c + ChunkSize <= d /\ (c \in U \/ d \in U)
    /\ Shelved(table, list, ToSet(list) \ U)

LEMMA ListFacts ==
    ASSUME NEW list, list \in Seq(Addresses), Ordered(list)
    PROVE  /\ LastChunk \in Nat /\ Addresses \subseteq Nat
           /\ InOrder(list) /\ Once(list) /\ ToSet(list) \subseteq Addresses
           /\ ToSet(list) \subseteq Nat
<1>1. LastChunk \in Nat /\ Addresses \subseteq Nat
  BY HeapAssumption DEF LastChunk, ChunkSize, Addresses
<1>2. list \in Seq(Nat)
  BY <1>1, SeqMonotonic
<1> QED BY <1>1, <1>2, OrderedOnce, SetOfSequence DEF InOrder

\* Every chunk but the last has one that follows, every chunk but the first
\* one that it follows; its size has a class.
LEMMA ChunkFacts ==
    ASSUME NEW list, NEW table, NEW U, Arranged(list, table, U),
           NEW c \in ToSet(list)
    PROVE  /\ c # LastChunk => /\ Follows(ToSet(list), c, Follower(list, c))
                               /\ memory_chunk_size(list, c) \in MIN_SIZE .. HeapEnd
                               /\ memory_chunk_size(list, c) = Follower(list, c) - c - HEADER_SIZE
                               /\ memory_chunk_slot[memory_chunk_size(list, c)] \in 0 .. NUM_SIZES - 1
           /\ c # 0 => Follows(ToSet(list), Predecessor(list, c), c)
<1>1. /\ LastChunk \in Nat /\ InOrder(list) /\ ToSet(list) \subseteq Addresses
      /\ 0 \in ToSet(list) /\ LastChunk \in ToSet(list)
  BY ListFacts DEF Arranged
<1>2. c \in Nat /\ 0 <= c /\ c <= LastChunk
  BY <1>1 DEF Addresses
<1>3. ASSUME c # LastChunk
      PROVE  /\ Follows(ToSet(list), c, Follower(list, c))
             /\ memory_chunk_size(list, c) \in MIN_SIZE .. HeapEnd
             /\ memory_chunk_slot[memory_chunk_size(list, c)] \in 0 .. NUM_SIZES - 1
  <2>1. Follows(ToSet(list), c, Follower(list, c))
    <3>1. c < LastChunk
      BY <1>1, <1>2, <1>3
    <3> QED BY <1>1, <3>1, NeighboursFound
  <2> DEFINE d == Follower(list, c)
             size == memory_chunk_size(list, c)
  <2>2. c + ChunkSize <= d /\ d \in Addresses
    BY <1>1, <2>1 DEF Arranged, Follows
  <2>3. size \in MIN_SIZE .. HeapEnd /\ size \in 0 .. UintRange - 1 /\ size > 0
        /\ HeapEnd \in 0 .. UintRange - 1
    <3>1. size = d - c - HEADER_SIZE
      BY DEF memory_chunk_size
    <3> HIDE DEF size, d
    <3> QED
      BY <1>1, <1>2, <2>2, <3>1, HeapAssumption
      DEF Addresses, LastChunk, ChunkSize, MIN_SIZE, HEADER_SIZE
  <2> HIDE DEF size
  <2>4. /\ memory_chunk_slot[size] <= memory_chunk_slot[HeapEnd]
        /\ memory_chunk_slot[size] >= 0
    <3>1. size <= HeapEnd
      BY <2>3, HeapAssumption DEF MIN_SIZE
    <3> QED BY <2>3, <3>1, SlotMonotonic
  <2>5. memory_chunk_slot[size] \in Int /\ memory_chunk_slot[HeapEnd] \in Int
    BY <2>3, SlotDefined
  <2>6. memory_chunk_slot[size] \in 0 .. NUM_SIZES - 1
    BY <2>4, <2>5, HeapAssumption
  <2> QED BY <2>1, <2>3, <2>6 DEF size
<1>4. ASSUME c # 0 PROVE Follows(ToSet(list), Predecessor(list, c), c)
  <2>1. 0 < c
    BY <1>2, <1>4
  <2> QED BY <1>1, <2>1, NeighboursFound
<1> QED BY <1>3, <1>4 DEF memory_chunk_size

\* A list keeps the size of a chunk when it keeps what follows it.
LEMMA SameSize ==
    ASSUME NEW list, NEW list2, InOrder(list), InOrder(list2), NEW c, NEW d,
           Follows(ToSet(list), c, d), Follows(ToSet(list2), c, d)
    PROVE  memory_chunk_size(list2, c) = memory_chunk_size(list, c)
BY SizeIs

\* Sizes asked for.
LEMMA RoundedSize ==
    ASSUME NEW request \in 0 .. UintRange - 1
    PROVE  /\ Rounded(request) \in MIN_SIZE .. UintRange - 1
           /\ Rounded(request) % ALIGN = 0
           /\ request + ALIGN <= UintRange => request <= Rounded(request)
<1>1. UintRange \in Nat /\ UintRange > 60
  BY HeapAssumption DEF ChunkSize
<1> DEFINE r == (request + ALIGN - 1) % UintRange
           a == (r \div ALIGN) * ALIGN
<1>2. r \in 0 .. UintRange - 1 /\ (request + ALIGN <= UintRange => r = request + 3)
  BY <1>1 DEF ALIGN
<1>3. Rounded(request) = IF a < MIN_SIZE THEN MIN_SIZE ELSE a
  BY DEF Rounded
<1> HIDE DEF r
<1>4. a \in 0 .. r /\ a % ALIGN = 0 /\ r - 3 <= a
  BY <1>1, <1>2 DEF ALIGN
<1> HIDE DEF a
<1> QED BY <1>1, <1>2, <1>3, <1>4 DEF ALIGN, MIN_SIZE

\* A chunk on the stack of a class kmalloc looks at is large enough.
LEMMA ClassIsEnough ==
    ASSUME NEW size \in MIN_SIZE .. UintRange - 1, NEW available \in 0 .. UintRange - 1,
           FirstClass(size) <= memory_chunk_slot[available]
    PROVE  size <= available
<1>1. size - 1 \in 0 .. UintRange - 1 /\ size \in Nat /\ UintRange \in Nat
  BY HeapAssumption DEF MIN_SIZE
<1>2. /\ memory_chunk_slot[size - 1] \in Int /\ memory_chunk_slot[available] \in Int
      /\ memory_chunk_slot[size - 1] + 1 <= memory_chunk_slot[available]
  BY <1>1, SlotDefined DEF FirstClass
<1>3. SUFFICES ASSUME available <= size - 1 PROVE FALSE
  BY <1>1
<1>4. memory_chunk_slot[available] <= memory_chunk_slot[size - 1]
  BY <1>1, <1>3, SlotMonotonic
<1> QED BY <1>2, <1>4

\* The initial heap: one free chunk between the two ends.
LEMMA HeapInitArranged ==
    ASSUME HeapInit
    PROVE  Arranged(all, free_chunk, used)
<1> DEFINE empty == [n \in 0 .. NUM_SIZES - 1 |-> <<>>]
           A == {0, ChunkSize, LastChunk}
<1>1. LastChunk \in Nat /\ ChunkSize + ChunkSize <= LastChunk /\ LastChunk % ALIGN = 0
      /\ Addresses \subseteq Nat
  BY HeapAssumption DEF LastChunk, ChunkSize, ALIGN, Addresses
<1>2. /\ all = <<0, ChunkSize, LastChunk>> /\ used = {0, LastChunk}
      /\ free_chunk = push_free(empty, all, ChunkSize)
  BY DEF HeapInit
<1>3. /\ all \in Seq(Addresses) /\ Len(all) = 3
      /\ all[1] = 0 /\ all[2] = ChunkSize /\ all[3] = LastChunk
  BY <1>1, <1>2 DEF Addresses, ChunkSize
<1>4. ToSet(all) = A
  <2>1. ToSet(all) = {all[i] : i \in 1 .. 3}
    BY <1>3, SetOfSequence
  <2> QED BY <1>3, <2>1
<1>5. Ordered(all)
  BY <1>1, <1>3 DEF Ordered, ChunkSize
<1>6. /\ Follows(A, 0, ChunkSize) /\ Follows(A, ChunkSize, LastChunk)
      /\ \A c, d : Follows(A, c, d) => (c = 0 /\ d = ChunkSize) \/ (c = ChunkSize /\ d = LastChunk)
  BY <1>1 DEF Follows, ChunkSize
<1>7. memory_chunk_slot[memory_chunk_size(all, ChunkSize)] \in 0 .. NUM_SIZES - 1
  <2> DEFINE size == memory_chunk_size(all, ChunkSize)
  <2>1. size = LastChunk - ChunkSize - HEADER_SIZE
    <3>1. InOrder(all)
      BY <1>3, <1>5, ListFacts
    <3>2. Follows(ToSet(all), ChunkSize, LastChunk)
      BY <1>4, <1>6
    <3> QED BY <3>1, <3>2, SizeIs
  <2>2. size \in 0 .. UintRange - 1 /\ size > 0 /\ size <= HeapEnd /\ HeapEnd \in 0 .. UintRange - 1
    BY <1>1, <2>1, HeapAssumption DEF LastChunk, ChunkSize, HEADER_SIZE
  <2> HIDE DEF size
  <2>3. memory_chunk_slot[size] <= memory_chunk_slot[HeapEnd] /\ memory_chunk_slot[size] >= 0
    BY <2>2, SlotMonotonic
  <2>4. memory_chunk_slot[size] \in Int /\ memory_chunk_slot[HeapEnd] \in Int
    BY <2>2, SlotDefined
  <2>5. memory_chunk_slot[size] \in 0 .. NUM_SIZES - 1
    BY <2>3, <2>4, HeapAssumption
  <2> QED BY <2>5 DEF size
<1>8. Shelved(empty, all, {})
  <2>1. <<>> \in Seq(Addresses) /\ Len(<<>>) = 0 /\ Once(<<>>) /\ ToSet(<<>>) = {}
    BY EmptySeq DEF Once, ToSet
  <2> QED BY <2>1 DEF Shelved
<1>9. Shelved(free_chunk, all, ToSet(all) \ used)
  <2>1. ChunkSize \in Addresses
    BY <1>1 DEF Addresses, ChunkSize
  <2> HIDE DEF empty
  <2>2. Shelved(push_free(empty, all, ChunkSize), all, {} \cup {ChunkSize})
    BY <1>7, <1>8, <2>1, PushShelved
  <2>3. ToSet(all) \ used = {} \cup {ChunkSize}
    BY <1>1, <1>2, <1>4 DEF ChunkSize
  <2> QED BY <1>2, <2>2, <2>3
<1>10. \A c \in A : c % ALIGN = 0
  BY <1>1 DEF ALIGN, ChunkSize
<1>11. \A c, d : Follows(A, c, d) => c + ChunkSize <= d /\ (c \in used \/ d \in used)
  <2>1. SUFFICES ASSUME NEW c, NEW d, Follows(A, c, d)
                 PROVE  c + ChunkSize <= d /\ (c \in used \/ d \in used)
    OBVIOUS
  <2>2. (c = 0 /\ d = ChunkSize) \/ (c = ChunkSize /\ d = LastChunk)
    BY <1>6, <2>1
  <2>3. CASE c = 0 /\ d = ChunkSize
    BY <1>2, <2>3 DEF ChunkSize
  <2>4. CASE c = ChunkSize /\ d = LastChunk
    BY <1>1, <1>2, <2>4 DEF ChunkSize
  <2> QED BY <2>2, <2>3, <2>4
<1> QED BY <1>2, <1>3, <1>4, <1>5, <1>9, <1>10, <1>11 DEF Arranged

-----------------------------------------------------------------------------
(* The steps of kmalloc                                                    *)

\* The table when the chunk on top of a stack is taken.
Popped(table, n) == [table EXCEPT ![n] = Tail(@)]

\* A chunk is taken from its stack.
LEMMA ChunkTaken ==
    ASSUME NEW list, NEW table, NEW U, Arranged(list, table, U),
           NEW n \in 0 .. NUM_SIZES - 1, table[n] # <<>>
    PROVE  LET chunk == Head(table[n])
           IN  /\ Arranged(list, Popped(table, n), U \cup {chunk})
               /\ chunk \in ToSet(list) \ U
               /\ memory_chunk_slot[memory_chunk_size(list, chunk)] = n
<1> DEFINE chunk == Head(table[n])
           popped == Popped(table, n)
           F == ToSet(list) \ U
<1>1. Shelved(table, list, F)
  BY DEF Arranged
<1>2. /\ Shelved(popped, list, F \ {chunk}) /\ chunk \in F
      /\ memory_chunk_slot[memory_chunk_size(list, chunk)] = n
  BY <1>1, PopShelved DEF Popped
<1>3. F \ {chunk} = ToSet(list) \ (U \cup {chunk})
  OBVIOUS
<1> HIDE DEF popped, chunk
<1>4. Shelved(popped, list, ToSet(list) \ (U \cup {chunk}))
  BY <1>2, <1>3
<1>5. Arranged(list, popped, U \cup {chunk})
  BY <1>2, <1>4 DEF Arranged
<1> QED BY <1>2, <1>5 DEF popped, chunk

\* x cuts the used chunk after size bytes; what follows the chunk is used.
CutAt(list, U, chunk, size, x) ==
    /\ chunk \in U /\ chunk # LastChunk
    /\ Follower(list, chunk) \in U
    /\ size \in Nat /\ MIN_SIZE <= size /\ size % ALIGN = 0
    /\ Splits(size, memory_chunk_size(list, chunk))
    /\ x = chunk + HEADER_SIZE + size

LEMMA ChunkCut ==
    ASSUME NEW list, NEW table, NEW U, Arranged(list, table, U),
           NEW chunk, NEW size, NEW x, CutAt(list, U, chunk, size, x)
    PROVE  LET list2 == InsertAt(list, Place(list, chunk) + 1, x)
           IN  /\ Arranged(list2, push_free(table, list2, x), U)
               /\ memory_chunk_size(list2, chunk) = size
               /\ \A c \in U : c \notin {chunk, LastChunk} =>
                     memory_chunk_size(list2, c) = memory_chunk_size(list, c)
<1> DEFINE A == ToSet(list)
           list2 == InsertAt(list, Place(list, chunk) + 1, x)
           table2 == push_free(table, list2, x)
           next == Follower(list, chunk)
<1>1. /\ list \in Seq(Addresses) /\ Ordered(list)
      /\ 0 \in U /\ LastChunk \in U /\ U \subseteq A
      /\ \A c \in A : c % ALIGN = 0
      /\ \A c, d : Follows(A, c, d) => c + ChunkSize <= d /\ (c \in U \/ d \in U)
      /\ Shelved(table, list, A \ U)
  BY DEF Arranged
<1>2. InOrder(list) /\ A \subseteq Addresses /\ Addresses \subseteq Nat
  BY <1>1, ListFacts
<1>3. Follows(A, chunk, next) /\ memory_chunk_size(list, chunk) = next - chunk - HEADER_SIZE
      /\ chunk \in A
  <2>1. chunk \in A /\ chunk # LastChunk
    BY <1>1 DEF CutAt
  <2> QED BY <2>1, ChunkFacts
<1> HIDE DEF next
<1>4. /\ x \in Addresses /\ chunk < x /\ x < next /\ x % ALIGN = 0 /\ chunk \in Nat /\ next \in Nat
      /\ chunk + ChunkSize <= x /\ x + ChunkSize <= next /\ x \in Nat
      /\ x - chunk - HEADER_SIZE = size
  <2>1. /\ size \in Nat /\ 8 <= size /\ size % 4 = 0 /\ x = chunk + 12 + size
        /\ size + 20 <= next - chunk - 12 /\ next \in U
    BY <1>3 DEF CutAt, MIN_SIZE, ALIGN, HEADER_SIZE, Splits, ChunkSize, next
  <2>2. chunk \in Nat /\ next \in Nat /\ next <= LastChunk /\ LastChunk \in Int
    <3>1. next \in A
      BY <1>3 DEF Follows
    <3> QED BY <1>2, <1>3, <3>1, HeapAssumption DEF Addresses, LastChunk, ChunkSize
  <2>3. chunk % 4 = 0
    BY <1>1, <1>3 DEF ALIGN
  <2>4. x % 4 = 0
    BY <2>1, <2>2, <2>3
  <2> QED BY <2>1, <2>2, <2>4 DEF Addresses, ALIGN, ChunkSize, HEADER_SIZE
<1>5. list2 \in Seq(Addresses) /\ Ordered(list2) /\ ToSet(list2) = A \cup {x}
  <2>1. LiesBetween(A, chunk, next, x) /\ x \in Addresses
    BY <1>2, <1>3, <1>4 DEF LiesBetween
  <2>2. WithChunk(Addresses, list, x, list2)
    BY ONLY <1>1, <1>2, <2>1, ChunkInserted
  <2> QED BY <2>2 DEF WithChunk
<1> HIDE DEF list2
<1>6. InOrder(list2)
  BY <1>5, ListFacts
<1> DEFINE B == A \cup {x}
<1>7. /\ Follows(B, chunk, x) /\ Follows(B, x, next)
      /\ \A a, b : Follows(B, a, b) =>
            (Follows(A, a, b) /\ a # chunk) \/ (a = chunk /\ b = x) \/ (a = x /\ b = next)
      /\ \A a, b : Follows(A, a, b) /\ a # chunk => Follows(B, a, b)
  <2>1. LiesBetween(A, chunk, next, x)
    BY <1>2, <1>3, <1>4 DEF LiesBetween
  <2> HIDE DEF A, B
  <2>2. SplitBy(A, chunk, next, x)
    BY <2>1, FollowsSplit
  <2> QED BY <2>2 DEF B, SplitBy
<1>8. x \notin A
  BY <1>2, <1>3, <1>4 DEF Follows
<1> HIDE DEF A
<1>9. ASSUME NEW c \in A, c # chunk, c # LastChunk
      PROVE  memory_chunk_size(list2, c) = memory_chunk_size(list, c)
  <2>1. Follows(A, c, Follower(list, c))
    BY <1>9, ChunkFacts DEF A
  <2>2. Follows(ToSet(list2), c, Follower(list, c))
    <3> HIDE DEF B
    <3>1. Follows(B, c, Follower(list, c))
      BY <1>7, <1>9, <2>1
    <3> QED BY <1>5, <3>1 DEF B
  <2> QED BY <1>2, <1>6, <2>1, <2>2, SameSize DEF A
<1>10. memory_chunk_size(list2, chunk) = size /\ memory_chunk_size(list2, x) = next - x - HEADER_SIZE
  <2>1. Follows(ToSet(list2), chunk, x) /\ Follows(ToSet(list2), x, next)
    BY <1>5, <1>7
  <2>2. memory_chunk_size(list2, chunk) = x - chunk - HEADER_SIZE
    BY <1>6, <2>1, SizeIs
  <2>3. memory_chunk_size(list2, x) = next - x - HEADER_SIZE
    BY <1>6, <2>1, SizeIs
  <2> QED BY <1>4, <2>2, <2>3
<1>11. memory_chunk_slot[memory_chunk_size(list2, x)] \in 0 .. NUM_SIZES - 1
  <2> DEFINE s == next - x - HEADER_SIZE
  <2>1. s \in MIN_SIZE .. HeapEnd
    <3>1. next \in Addresses
      BY <1>2, <1>3 DEF Follows
    <3> QED BY <1>4, <3>1, HeapAssumption
        DEF Addresses, LastChunk, ChunkSize, HEADER_SIZE, MIN_SIZE
  <2> HIDE DEF s
  <2>2. s \in 0 .. UintRange - 1 /\ HeapEnd \in 0 .. UintRange - 1 /\ s > 0 /\ s <= HeapEnd
    BY <2>1, HeapAssumption DEF MIN_SIZE
  <2>3. memory_chunk_slot[s] <= memory_chunk_slot[HeapEnd] /\ memory_chunk_slot[s] >= 0
    BY <2>2, SlotMonotonic
  <2>4. memory_chunk_slot[s] \in Int /\ memory_chunk_slot[HeapEnd] \in Int
    BY <2>2, SlotDefined
  <2>5. memory_chunk_slot[s] \in 0 .. NUM_SIZES - 1
    BY <2>3, <2>4, HeapAssumption
  <2> QED BY <1>10, <2>5 DEF s
<1>12. Shelved(table2, list2, B \ U)
  <2>1. \A c \in A \ U : memory_chunk_size(list2, c) = memory_chunk_size(list, c)
    BY <1>1, <1>9 DEF CutAt
  <2> DEFINE F == A \ U
  <2>2. Shelved(table, list2, F)
    BY <1>1, <2>1, StillShelved
  <2>3. x \notin F /\ F \cup {x} = B \ U
    BY <1>1, <1>8
  <2> HIDE DEF F
  <2>4. Shelved(push_free(table, list2, x), list2, F \cup {x})
    BY <1>4, <1>11, <2>2, <2>3, PushShelved
  <2> QED BY <2>3, <2>4
<1> HIDE DEF table2
<1>13. \A c \in B : c % ALIGN = 0
  BY <1>1, <1>4
<1>14. ASSUME NEW c, NEW d, Follows(B, c, d) PROVE c + ChunkSize <= d /\ (c \in U \/ d \in U)
  <2>1. chunk \in U /\ next \in U
    BY DEF CutAt, next
  <2>2. CASE Follows(A, c, d)
    BY <1>1, <2>2
  <2>3. CASE c = chunk /\ d = x
    BY <1>4, <2>1, <2>3
  <2>4. CASE c = x /\ d = next
    BY <1>4, <2>1, <2>4
  <2> QED BY <1>7, <1>14, <2>2, <2>3, <2>4
<1>15. Arranged(list2, table2, U)
  BY <1>1, <1>5, <1>12, <1>13, <1>14 DEF Arranged
<1>16. \A c \in U : c \notin {chunk, LastChunk} =>
           memory_chunk_size(list2, c) = memory_chunk_size(list, c)
  BY <1>1, <1>9
<1> QED BY <1>10, <1>15, <1>16 DEF table2, list2

-----------------------------------------------------------------------------
(* The steps of kfree                                                      *)

\* The list without x, which is between c and d.
Joined(list, list2, c, x, d) ==
    /\ list2 \in Seq(Addresses) /\ Ordered(list2) /\ InOrder(list2)
    /\ ToSet(list2) = ToSet(list) \ {x}
    /\ JoinedOver(ToSet(list), c, x, d)
    /\ \A a \in ToSet(list2) : a # c /\ a # LastChunk =>
          memory_chunk_size(list2, a) = memory_chunk_size(list, a)
    /\ memory_chunk_size(list2, c) = d - c - HEADER_SIZE
    /\ Follower(list2, c) = d
    /\ Predecessor(list2, d) = c
    /\ c + ChunkSize <= x /\ x + ChunkSize <= d
    /\ c \in Addresses /\ d \in Addresses /\ c \in ToSet(list2) /\ d \in ToSet(list2)

LEMMA ListJoined ==
    ASSUME NEW list, NEW table, NEW U, Arranged(list, table, U),
           NEW c, NEW x, NEW d, Follows(ToSet(list), c, x), Follows(ToSet(list), x, d)
    PROVE  Joined(list, Without(list, x), c, x, d)
<1> DEFINE A == ToSet(list)
           list2 == Without(list, x)
<1>1. /\ list \in Seq(Addresses) /\ Ordered(list) /\ InOrder(list) /\ Once(list)
      /\ A \subseteq Addresses /\ A \subseteq Nat /\ Addresses \subseteq Nat
      /\ \A a, b : Follows(A, a, b) => a + ChunkSize <= b
  BY ListFacts DEF Arranged
<1>2. c \in A /\ x \in A /\ d \in A /\ c < x /\ x < d
  BY DEF Follows
<1>3. list2 \in Seq(Addresses) /\ Ordered(list2) /\ ToSet(list2) = A \ {x}
  BY <1>1, <1>2, ChunkRemoved
<1> HIDE DEF list2
<1>4. InOrder(list2)
  BY <1>3, ListFacts
<1>5. JoinedOver(A, c, x, d)
  BY <1>1, FollowsJoined
<1>6. /\ Follower(list2, c) = d /\ Predecessor(list2, d) = c
      /\ memory_chunk_size(list2, c) = d - c - HEADER_SIZE
  <2>1. Follows(ToSet(list2), c, d)
    BY <1>3, <1>5 DEF JoinedOver
  <2> QED BY <1>4, <2>1, SizeIs
<1>7. ASSUME NEW a \in ToSet(list2), a # c, a # LastChunk
      PROVE  memory_chunk_size(list2, a) = memory_chunk_size(list, a)
  <2>1. a \in A /\ a # x
    BY <1>3, <1>7
  <2>2. Follows(A, a, Follower(list, a))
    BY <1>7, <2>1, ChunkFacts
  <2>3. Follower(list, a) # x
    <3> HIDE DEF A
    <3> QED BY <1>1, <1>7, <2>2, FollowsOnce DEF A
  <2> HIDE DEF A
  <2>4. Follows(A \ {x}, a, Follower(list, a))
    BY <1>5, <2>1, <2>2, <2>3 DEF JoinedOver
  <2>5. Follows(ToSet(list2), a, Follower(list, a))
    BY <1>3, <2>4
  <2> QED BY <1>1, <1>4, <2>2, <2>5, SameSize DEF A
<1>8. c + ChunkSize <= x /\ x + ChunkSize <= d
  BY <1>1
<1>9. c \in ToSet(list2) /\ d \in ToSet(list2) /\ c \in Addresses /\ d \in Addresses
  BY <1>1, <1>2, <1>3
<1> QED BY <1>3, <1>4, <1>5, <1>6, <1>7, <1>8, <1>9 DEF Joined, list2

\* The free chunk behind the one that is released is taken in.
LEMMA NextTakenIn ==
    ASSUME NEW list, NEW table, NEW U, Arranged(list, table, U),
           NEW chunk, chunk \in U, chunk # 0, chunk # LastChunk,
           Follower(list, chunk) \notin U
    PROVE  LET next == Follower(list, chunk)
               list2 == Without(list, next)
           IN  /\ Arranged(list2, remove_free(table, list, next), U)
               /\ Follower(list2, chunk) \in U
               /\ Predecessor(list2, chunk) = Predecessor(list, chunk)
               /\ \A c \in U : c \notin {chunk, LastChunk} =>
                     memory_chunk_size(list2, c) = memory_chunk_size(list, c)
<1> DEFINE A == ToSet(list)
           next == Follower(list, chunk)
           list2 == Without(list, next)
           table2 == remove_free(table, list, next)
           end == Follower(list, next)
           prev == Predecessor(list, chunk)
<1>1. /\ 0 \in U /\ LastChunk \in U /\ U \subseteq A
      /\ \A c \in A : c % ALIGN = 0
      /\ \A c, d : Follows(A, c, d) => c + ChunkSize <= d /\ (c \in U \/ d \in U)
      /\ Shelved(table, list, A \ U)
      /\ InOrder(list) /\ LastChunk \in Nat /\ A \subseteq Nat
  BY ListFacts DEF Arranged
<1>2. Follows(A, chunk, next) /\ Follows(A, prev, chunk)
  <2>1. chunk \in A
    BY <1>1
  <2> QED BY <2>1, ChunkFacts
<1>3. next \in A \ U /\ next # LastChunk
  BY <1>1, <1>2 DEF Follows
<1>4. /\ Follows(A, next, end)
      /\ memory_chunk_slot[memory_chunk_size(list, next)] \in 0 .. NUM_SIZES - 1
  BY <1>3, ChunkFacts
<1>5. end \in U
  BY <1>1, <1>3, <1>4
<1> HIDE DEF end, prev, next
<1>6. Joined(list, list2, chunk, next, end)
  BY <1>2, <1>4, ListJoined
<1> HIDE DEF list2
<1>7. /\ list2 \in Seq(Addresses) /\ Ordered(list2) /\ InOrder(list2) /\ ToSet(list2) = A \ {next}
      /\ JoinedOver(A, chunk, next, end)
      /\ \A a \in ToSet(list2) : a # chunk /\ a # LastChunk =>
            memory_chunk_size(list2, a) = memory_chunk_size(list, a)
      /\ Follower(list2, chunk) = end
      /\ chunk + ChunkSize <= next /\ next + ChunkSize <= end
      /\ chunk \in Nat /\ end \in Nat /\ next \in Nat
  BY <1>1, <1>3, <1>6, ListFacts DEF Joined
<1> DEFINE B == A \ {next}
<1>8. Shelved(table2, list2, B \ U)
  <2> DEFINE F == A \ U
  <2>1. Shelved(table2, list, F \ {next})
    <3>1. Shelved(table, list, F) /\ next \in F
      BY <1>1, <1>3
    <3> HIDE DEF F
    <3> QED BY <1>4, <3>1, RemoveShelved
  <2>2. F \ {next} = B \ U
    OBVIOUS
  <2>3. \A c \in B \ U : memory_chunk_size(list2, c) = memory_chunk_size(list, c)
    BY <1>1, <1>7
  <2> HIDE DEF F, B, table2
  <2>4. Shelved(table2, list, B \ U)
    BY <2>1, <2>2
  <2> DEFINE G == B \ U
  <2>5. Shelved(table2, list, G) /\ \A c \in G : memory_chunk_size(list2, c) = memory_chunk_size(list, c)
    BY <2>3, <2>4
  <2> HIDE DEF G
  <2>6. Shelved(table2, list2, G)
    BY <2>5, StillShelved
  <2> QED BY <2>6 DEF G
<1>9. ASSUME NEW c, NEW d, Follows(B, c, d) PROVE c + ChunkSize <= d /\ (c \in U \/ d \in U)
  <2>1. Follows(A, c, d) \/ (c = chunk /\ d = end)
    BY <1>7, <1>9 DEF JoinedOver
  <2>2. chunk + ChunkSize <= end
    BY <1>7 DEF ChunkSize
  <2> QED BY <1>1, <2>1, <2>2
<1> HIDE DEF table2
<1>10. Arranged(list2, table2, U)
  BY <1>1, <1>3, <1>7, <1>8, <1>9 DEF Arranged
<1>11. Predecessor(list2, chunk) = prev
  <2>1. prev # next
    BY <1>1, <1>2, <1>7 DEF Follows, ChunkSize
  <2>2. chunk # next
    BY <1>3
  <2>3. Follows(B, prev, chunk)
    <3> HIDE DEF A
    <3> QED BY <1>2, <1>7, <2>1, <2>2 DEF JoinedOver
  <2>4. Follows(ToSet(list2), prev, chunk)
    BY <1>7, <2>3
  <2> QED BY <1>7, <2>4, SizeIs
<1>12. \A c \in U : c \notin {chunk, LastChunk} =>
           memory_chunk_size(list2, c) = memory_chunk_size(list, c)
  BY <1>1, <1>3, <1>7
<1> QED BY <1>5, <1>7, <1>10, <1>11, <1>12 DEF list2, table2, next, prev

\* The chunk is released between two used ones.
LEMMA ChunkReleased ==
    ASSUME NEW list, NEW table, NEW U, Arranged(list, table, U),
           NEW chunk, chunk \in U, chunk # 0, chunk # LastChunk,
           Follower(list, chunk) \in U, Predecessor(list, chunk) \in U
    PROVE  Arranged(list, push_free(table, list, chunk), U \ {chunk})
<1> DEFINE A == ToSet(list)
           table2 == push_free(table, list, chunk)
           next == Follower(list, chunk)
           prev == Predecessor(list, chunk)
           F == A \ U
           V == U \ {chunk}
<1>1. /\ 0 \in U /\ LastChunk \in U /\ U \subseteq A
      /\ list \in Seq(Addresses) /\ Ordered(list)
      /\ \A c \in A : c % ALIGN = 0
      /\ \A c, d : Follows(A, c, d) => c + ChunkSize <= d /\ (c \in U \/ d \in U)
      /\ Shelved(table, list, F)
      /\ InOrder(list) /\ A \subseteq Addresses /\ A \subseteq Nat
  BY ListFacts DEF Arranged
<1>2. /\ Follows(A, chunk, next) /\ Follows(A, prev, chunk)
      /\ memory_chunk_slot[memory_chunk_size(list, chunk)] \in 0 .. NUM_SIZES - 1
  <2>1. chunk \in A
    BY <1>1
  <2> QED BY <2>1, ChunkFacts
<1> HIDE DEF next, prev
<1>3. Shelved(table2, list, A \ V)
  <2>1. chunk \in Addresses /\ chunk \notin F /\ F \cup {chunk} = A \ V
    BY <1>1
  <2> HIDE DEF F, V
  <2>2. Shelved(table2, list, F \cup {chunk})
    BY <1>1, <1>2, <2>1, PushShelved
  <2> QED BY <2>1, <2>2
<1> HIDE DEF table2
<1>4. ASSUME NEW c, NEW d, Follows(A, c, d) PROVE c \in V \/ d \in V
  <2>1. CASE c = chunk
    <3>1. d = next /\ next \in V
      <4> HIDE DEF A
      <4>1. d = next
        BY <1>1, <1>2, <1>4, <2>1, FollowsOnce
      <4>2. next \in U /\ next # chunk
        BY <1>1, <1>2 DEF next, Follows
      <4> QED BY <4>1, <4>2
    <3> QED BY <3>1
  <2>2. CASE d = chunk
    <3>1. c = prev /\ prev \in V
      <4> HIDE DEF A
      <4>1. c = prev
        BY <1>1, <1>2, <1>4, <2>2, FollowsOnce
      <4>2. prev \in U /\ prev # chunk
        BY <1>1, <1>2 DEF prev, Follows
      <4> QED BY <4>1, <4>2
    <3> QED BY <3>1
  <2>3. CASE c # chunk /\ d # chunk
    BY <1>1, <1>4, <2>3
  <2> QED BY <2>1, <2>2, <2>3
<1>5. 0 \in V /\ LastChunk \in V /\ V \subseteq A
  BY <1>1
<1> HIDE DEF V
<1>6. Arranged(list, table2, V)
  BY <1>1, <1>3, <1>4, <1>5 DEF Arranged
<1> QED BY <1>6 DEF V, table2

\* The chunk is released into the free one before it.
LEMMA ChunkTakenIn ==
    ASSUME NEW list, NEW table, NEW U, Arranged(list, table, U),
           NEW chunk, chunk \in U, chunk # 0, chunk # LastChunk,
           Follower(list, chunk) \in U, Predecessor(list, chunk) \notin U
    PROVE  LET prev == Predecessor(list, chunk)
               list2 == Without(list, chunk)
           IN  /\ Arranged(list2, push_free(remove_free(table, list, prev), list2, prev),
                           U \ {chunk})
               /\ \A c \in U : c \notin {chunk, LastChunk} =>
                     memory_chunk_size(list2, c) = memory_chunk_size(list, c)
<1> DEFINE A == ToSet(list)
           next == Follower(list, chunk)
           prev == Predecessor(list, chunk)
           list2 == Without(list, chunk)
           table1 == remove_free(table, list, prev)
           table2 == push_free(table1, list2, prev)
           F == A \ U
           B == A \ {chunk}
           V == U \ {chunk}
<1>1. /\ 0 \in U /\ LastChunk \in U /\ U \subseteq A
      /\ \A c \in A : c % ALIGN = 0
      /\ \A c, d : Follows(A, c, d) => c + ChunkSize <= d /\ (c \in U \/ d \in U)
      /\ Shelved(table, list, F)
      /\ InOrder(list) /\ A \subseteq Addresses /\ A \subseteq Nat /\ LastChunk \in Nat
      /\ Addresses \subseteq Nat
  BY ListFacts DEF Arranged
<1>2. Follows(A, chunk, next) /\ Follows(A, prev, chunk)
  <2>1. chunk \in A
    BY <1>1
  <2> QED BY <2>1, ChunkFacts
<1>3. prev \in F /\ prev # chunk /\ prev # LastChunk
  BY <1>1, <1>2 DEF Follows
<1>4. memory_chunk_slot[memory_chunk_size(list, prev)] \in 0 .. NUM_SIZES - 1
  <2>1. prev \in A
    BY <1>3
  <2> QED BY <1>3, <2>1, ChunkFacts
<1>5. next \in U /\ next # chunk /\ next # prev
  BY <1>1, <1>2, <1>3 DEF Follows
<1> HIDE DEF next, prev
<1>6. Joined(list, list2, prev, chunk, next)
  BY <1>2, ListJoined
<1> HIDE DEF list2
<1>7. /\ list2 \in Seq(Addresses) /\ Ordered(list2) /\ InOrder(list2) /\ ToSet(list2) = B
      /\ JoinedOver(A, prev, chunk, next)
      /\ \A a \in B : a # prev /\ a # LastChunk =>
            memory_chunk_size(list2, a) = memory_chunk_size(list, a)
      /\ memory_chunk_size(list2, prev) = next - prev - HEADER_SIZE
      /\ prev + ChunkSize <= chunk /\ chunk + ChunkSize <= next
      /\ chunk \in Nat /\ prev \in Addresses /\ next \in Addresses
  BY <1>1, <1>6 DEF Joined
<1>8. memory_chunk_slot[memory_chunk_size(list2, prev)] \in 0 .. NUM_SIZES - 1
  <2> DEFINE s == next - prev - HEADER_SIZE
  <2>1. s \in 0 .. UintRange - 1 /\ s > 0 /\ s <= HeapEnd /\ HeapEnd \in 0 .. UintRange - 1
    BY <1>7, HeapAssumption DEF Addresses, LastChunk, ChunkSize, HEADER_SIZE
  <2> HIDE DEF s
  <2>2. memory_chunk_slot[s] <= memory_chunk_slot[HeapEnd] /\ memory_chunk_slot[s] >= 0
    BY <2>1, SlotMonotonic
  <2>3. memory_chunk_slot[s] \in Int /\ memory_chunk_slot[HeapEnd] \in Int
    BY <2>1, SlotDefined
  <2>4. memory_chunk_slot[s] \in 0 .. NUM_SIZES - 1
    BY <2>2, <2>3, HeapAssumption
  <2> QED BY <1>7, <2>4 DEF s
<1>9. Shelved(table2, list2, B \ V)
  <2> DEFINE G == F \ {prev}
  <2>1. Shelved(table1, list, G)
    <3> HIDE DEF F
    <3> QED BY <1>1, <1>3, <1>4, RemoveShelved
  <2>2. prev \notin G /\ G \cup {prev} = B \ V
    BY <1>1, <1>3
  <2>3. \A c \in G : memory_chunk_size(list2, c) = memory_chunk_size(list, c)
    BY <1>1, <1>7
  <2> HIDE DEF G, table1
  <2>4. Shelved(table1, list2, G)
    BY <2>1, <2>3, StillShelved
  <2>5. Shelved(table2, list2, G \cup {prev})
    BY <1>7, <1>8, <2>2, <2>4, PushShelved
  <2> QED BY <2>2, <2>5
<1> HIDE DEF table2
<1>10. ASSUME NEW c, NEW d, Follows(B, c, d) PROVE c + ChunkSize <= d /\ (c \in V \/ d \in V)
  <2>1. (Follows(A, c, d) /\ c # chunk /\ d # chunk) \/ (c = prev /\ d = next)
    <3> HIDE DEF A
    <3> QED BY <1>7, <1>10 DEF JoinedOver
  <2>2. prev + ChunkSize <= next
    BY <1>1, <1>7 DEF ChunkSize
  <2> QED BY <1>1, <1>5, <2>1, <2>2
<1>11. 0 \in V /\ LastChunk \in V /\ V \subseteq B /\ \A c \in B : c % ALIGN = 0
  BY <1>1
<1>12. \A c \in U : c \notin {chunk, LastChunk} =>
           memory_chunk_size(list2, c) = memory_chunk_size(list, c)
  BY <1>1, <1>3, <1>7
<1> HIDE DEF V, B
<1>13. Arranged(list2, table2, V)
  BY <1>7, <1>9, <1>10, <1>11 DEF Arranged
<1> QED BY <1>12, <1>13 DEF V, table2, list2, prev

-----------------------------------------------------------------------------
(* Every call keeps the heap arranged                                      *)

Owned == /\ DOMAIN requested = used \ {0, LastChunk}
         /\ requested \in [used \ {0, LastChunk} -> HeapRequests]

HeapInv == Arranged(all, free_chunk, used) /\ Owned

\* What kmalloc does when a class has a chunk, in two steps.
LEMMA KmallocFinds ==
    ASSUME HeapInv, NEW request \in HeapRequests, kmalloc(request)
    PROVE  LET size == Rounded(request)
           IN  \E n \in 0 .. NUM_SIZES - 1 :
                 LET chunk == Head(free_chunk[n])
                     x == chunk + HEADER_SIZE + size
                     popped == Popped(free_chunk, n)
                     split == InsertAt(all, Place(all, chunk) + 1, x)
                 IN  /\ FirstClass(size) <= n /\ free_chunk[n] # <<>>
                     /\ IF Splits(size, memory_chunk_size(all, chunk))
                        THEN /\ all' = split
                             /\ free_chunk' = push_free(popped, split, x)
                        ELSE /\ free_chunk' = popped
                             /\ UNCHANGED all
                     /\ used' = used \cup {chunk}
                     /\ requested' = [c \in DOMAIN requested \cup {chunk} |->
                                         IF c = chunk THEN request ELSE requested[c]]
<1> DEFINE size == Rounded(request)
           classes == {n \in FirstClass(size) .. NUM_SIZES - 1 : free_chunk[n] # <<>>}
<1>1. classes # {}
  BY DEF kmalloc
<1>2. size \in MIN_SIZE .. UintRange - 1
  BY HeapAssumption, RoundedSize
<1>3. FirstClass(size) \in Nat
  <2> HIDE DEF size
  <2>1. size - 1 \in 0 .. UintRange - 1 /\ size - 1 > 0
    BY <1>2, HeapAssumption DEF MIN_SIZE
  <2>2. memory_chunk_slot[size - 1] >= 0 /\ memory_chunk_slot[size - 1] \in Int
    BY <2>1, SlotMonotonic, SlotDefined
  <2> QED BY <2>2 DEF FirstClass
<1>4. Min(classes) \in classes
  <2> HIDE DEF size
  <2>1. classes \subseteq Nat
    BY <1>3, HeapAssumption
  <2> HIDE DEF classes
  <2>2. \E m \in classes : \A n \in classes : m <= n
    BY <1>1, <2>1, LeastNatural
  <2> QED BY <2>2 DEF Min
<1> DEFINE n == Min(classes)
<1>5. n \in 0 .. NUM_SIZES - 1 /\ FirstClass(size) <= n /\ free_chunk[n] # <<>>
  <2> HIDE DEF size, n
  <2>1. n \in classes
    BY <1>4 DEF n
  <2> QED BY <1>3, <2>1, HeapAssumption
<1> DEFINE chunk == Head(free_chunk[n])
           x == chunk + HEADER_SIZE + size
           popped == Popped(free_chunk, n)
           split == InsertAt(all, Place(all, chunk) + 1, x)
<1>6. /\ IF Splits(size, memory_chunk_size(all, chunk))
         THEN /\ all' = split
              /\ free_chunk' = push_free(popped, split, x)
         ELSE /\ free_chunk' = popped
              /\ UNCHANGED all
      /\ used' = used \cup {chunk}
      /\ requested' = [c \in DOMAIN requested \cup {chunk} |->
                          IF c = chunk THEN request ELSE requested[c]]
  BY DEF kmalloc, Popped
<1> HIDE DEF n, size
<1> QED BY <1>5, <1>6 DEF size

\* chunk is given out for the request.
Gives(request, chunk) ==
    /\ chunk \in ToSet(all) \ used
    /\ used' = used \cup {chunk}
    /\ requested' = [c \in DOMAIN requested \cup {chunk} |->
                        IF c = chunk THEN request ELSE requested[c]]
    /\ memory_chunk_size(all', chunk) >= Rounded(request)
    /\ \A c \in used : c # LastChunk =>
          memory_chunk_size(all', c) = memory_chunk_size(all, c)

LEMMA KmallocStep ==
    ASSUME HeapInv, NEW request \in HeapRequests, kmalloc(request)
    PROVE  HeapInv' /\ \E chunk : Gives(request, chunk)
<1> DEFINE size == Rounded(request)
<1>1. PICK n \in 0 .. NUM_SIZES - 1 :
                 LET chunk == Head(free_chunk[n])
                     x == chunk + HEADER_SIZE + size
                     popped == Popped(free_chunk, n)
                     split == InsertAt(all, Place(all, chunk) + 1, x)
                 IN  /\ FirstClass(size) <= n /\ free_chunk[n] # <<>>
                     /\ IF Splits(size, memory_chunk_size(all, chunk))
                        THEN /\ all' = split
                             /\ free_chunk' = push_free(popped, split, x)
                        ELSE /\ free_chunk' = popped
                             /\ UNCHANGED all
                     /\ used' = used \cup {chunk}
                     /\ requested' = [c \in DOMAIN requested \cup {chunk} |->
                                         IF c = chunk THEN request ELSE requested[c]]
  BY KmallocFinds
<1> DEFINE chunk == Head(free_chunk[n])
           x == chunk + HEADER_SIZE + size
           popped == Popped(free_chunk, n)
           split == InsertAt(all, Place(all, chunk) + 1, x)
           U == used \cup {chunk}
<1>2. /\ FirstClass(size) <= n /\ free_chunk[n] # <<>>
      /\ used' = U
      /\ requested' = [c \in DOMAIN requested \cup {chunk} |->
                          IF c = chunk THEN request ELSE requested[c]]
  BY <1>1
<1>3. Arranged(all, free_chunk, used)
  BY DEF HeapInv
<1>4. /\ Arranged(all, popped, U) /\ chunk \in ToSet(all) \ used
      /\ memory_chunk_slot[memory_chunk_size(all, chunk)] = n
  BY <1>2, <1>3, ChunkTaken
<1>5. /\ 0 \in used /\ LastChunk \in used /\ used \subseteq ToSet(all)
      /\ \A c, d : Follows(ToSet(all), c, d) => c \in used \/ d \in used
      /\ ToSet(all) \subseteq Addresses
  BY <1>3, ListFacts DEF Arranged
<1>6. /\ Follows(ToSet(all), chunk, Follower(all, chunk))
      /\ memory_chunk_size(all, chunk) \in MIN_SIZE .. HeapEnd
      /\ chunk # 0 /\ chunk # LastChunk /\ Follower(all, chunk) \in used
  <2>1. chunk \in ToSet(all) /\ chunk # LastChunk /\ chunk # 0
    BY <1>4, <1>5
  <2>2. Follows(ToSet(all), chunk, Follower(all, chunk))
        /\ memory_chunk_size(all, chunk) \in MIN_SIZE .. HeapEnd
    BY <1>3, <2>1, ChunkFacts
  <2> QED BY <1>4, <1>5, <2>1, <2>2
<1> HIDE DEF chunk
<1>7. size \in MIN_SIZE .. UintRange - 1 /\ size % ALIGN = 0
  BY HeapAssumption, RoundedSize
<1>8. Owned'
  <2>1. used' \ {0, LastChunk} = (used \ {0, LastChunk}) \cup {chunk}
    BY <1>2, <1>6
  <2> QED BY <1>2, <2>1 DEF HeapInv, Owned
<1>9. CASE Splits(size, memory_chunk_size(all, chunk))
  <2>1. all' = split /\ free_chunk' = push_free(popped, split, x)
    BY <1>1, <1>9 DEF chunk
  <2>2. CutAt(all, U, chunk, size, x)
    BY <1>6, <1>7, <1>9, HeapAssumption DEF CutAt, MIN_SIZE
  <2> HIDE DEF U, popped, x
  <2>3. /\ Arranged(split, push_free(popped, split, x), U)
        /\ memory_chunk_size(split, chunk) = size
        /\ \A c \in U : c \notin {chunk, LastChunk} =>
              memory_chunk_size(split, c) = memory_chunk_size(all, c)
    BY <1>4, <2>2, ChunkCut
  <2> HIDE DEF split
  <2>4. HeapInv'
    BY <1>2, <1>8, <2>1, <2>3 DEF HeapInv
  <2>5. \A c \in used : c # LastChunk => memory_chunk_size(split, c) = memory_chunk_size(all, c)
    BY <1>4, <2>3 DEF U
  <2>6. size >= size
    BY <1>7, HeapAssumption DEF MIN_SIZE
  <2>7. Gives(request, chunk)
    BY <1>2, <1>4, <2>1, <2>3, <2>5, <2>6 DEF Gives, U
  <2> QED BY <2>4, <2>7
<1>10. CASE ~ Splits(size, memory_chunk_size(all, chunk))
  <2>1. all' = all /\ free_chunk' = popped
    BY <1>1, <1>10 DEF chunk
  <2>2. size <= memory_chunk_size(all, chunk)
    <3> DEFINE available == memory_chunk_size(all, chunk)
    <3>1. available \in 0 .. UintRange - 1
      BY <1>6, HeapAssumption DEF MIN_SIZE
    <3>2. FirstClass(size) <= memory_chunk_slot[available]
      BY <1>2, <1>4
    <3> HIDE DEF available, size
    <3>3. size <= available
      BY <1>7, <3>1, <3>2, ClassIsEnough
    <3> QED BY <3>3 DEF available
  <2> HIDE DEF popped
  <2>3. HeapInv'
    BY <1>2, <1>4, <1>8, <2>1 DEF HeapInv
  <2>4. memory_chunk_size(all, chunk) >= size
    BY <1>6, <1>7, <2>2, HeapAssumption DEF MIN_SIZE
  <2>5. Gives(request, chunk)
    BY <1>2, <1>4, <2>1, <2>4 DEF Gives
  <2> QED BY <2>3, <2>5
<1> QED BY <1>9, <1>10

\* chunk is given back.
TakesBack(chunk) ==
    /\ chunk \in used \ {0, LastChunk}
    /\ used' = used \ {chunk}
    /\ requested' = [c \in DOMAIN requested \ {chunk} |-> requested[c]]
    /\ \A c \in used : c \notin {chunk, LastChunk} =>
          memory_chunk_size(all', c) = memory_chunk_size(all, c)

LEMMA KfreeStep ==
    ASSUME HeapInv, NEW chunk \in used, kfree(chunk)
    PROVE  HeapInv' /\ TakesBack(chunk)
<1> DEFINE next == Follower(all, chunk)
           prev == Predecessor(all, chunk)
           merges == next \notin used
           list == IF merges THEN Without(all, next) ELSE all
           table == IF merges THEN remove_free(free_chunk, all, next) ELSE free_chunk
           V == used \ {chunk}
<1>1. /\ chunk \in used /\ chunk # 0 /\ chunk # LastChunk
      /\ used' = V
      /\ requested' = [c \in DOMAIN requested \ {chunk} |-> requested[c]]
      /\ IF prev \notin used
         THEN /\ all' = Without(list, chunk)
              /\ free_chunk' = push_free(remove_free(table, list, prev), all', prev)
         ELSE /\ all' = list
              /\ free_chunk' = push_free(table, list, chunk)
  BY DEF kfree
<1>2. /\ Arranged(list, table, used) /\ Follower(list, chunk) \in used
      /\ Predecessor(list, chunk) = prev
      /\ \A c \in used : c \notin {chunk, LastChunk} =>
            memory_chunk_size(list, c) = memory_chunk_size(all, c)
  <2>1. CASE merges
    <3>1. list = Without(all, next) /\ table = remove_free(free_chunk, all, next)
      BY <2>1
    <3>2. Arranged(all, free_chunk, used)
      BY DEF HeapInv
    <3> HIDE DEF list, table
    <3> QED BY <1>1, <2>1, <3>1, <3>2, NextTakenIn
  <2>2. CASE ~ merges
    <3>1. list = all /\ table = free_chunk
      BY <2>2
    <3> QED BY <2>2, <3>1 DEF HeapInv
  <2> QED BY <2>1, <2>2
<1> HIDE DEF list, table, prev
<1>3. Owned'
  BY <1>1 DEF HeapInv, Owned
<1>4. CASE prev \notin used
  <2>1. all' = Without(list, chunk) /\ free_chunk' = push_free(remove_free(table, list, prev), all', prev)
    BY <1>1, <1>4
  <2> HIDE DEF V
  <2>2. /\ Arranged(Without(list, chunk),
                    push_free(remove_free(table, list, prev), Without(list, chunk), prev),
                    used \ {chunk})
        /\ \A c \in used : c \notin {chunk, LastChunk} =>
              memory_chunk_size(Without(list, chunk), c) = memory_chunk_size(list, c)
    BY <1>1, <1>2, <1>4, ChunkTakenIn
  <2>3. Arranged(all', free_chunk', V)
    BY <2>1, <2>2 DEF V
  <2>4. HeapInv'
    BY <1>1, <1>3, <2>3 DEF HeapInv
  <2>5. TakesBack(chunk)
    BY <1>1, <1>2, <2>1, <2>2 DEF TakesBack, V
  <2> QED BY <2>4, <2>5
<1>5. CASE prev \in used
  <2>1. all' = list /\ free_chunk' = push_free(table, list, chunk)
    BY <1>1, <1>5
  <2>2. Arranged(list, push_free(table, list, chunk), used \ {chunk})
    BY <1>1, <1>2, <1>5, ChunkReleased
  <2>3. HeapInv'
    BY <1>1, <1>3, <2>1, <2>2 DEF HeapInv
  <2>4. TakesBack(chunk)
    BY <1>1, <1>2, <2>1 DEF TakesBack
  <2> QED BY <2>3, <2>4
<1> QED BY <1>4, <1>5

\* The inductive invariant: for a heap of any size and any requests.
THEOREM HeapInvariant == HeapSpec => []HeapInv
<1>1. HeapInit => HeapInv
  <2>1. SUFFICES ASSUME HeapInit PROVE HeapInv
    OBVIOUS
  <2>2. Owned
    BY <2>1 DEF HeapInit, Owned
  <2> QED BY <2>1, <2>2, HeapInitArranged DEF HeapInv
<1>2. HeapInv /\ [HeapNext]_heap_vars => HeapInv'
  <2>1. SUFFICES ASSUME HeapInv, [HeapNext]_heap_vars PROVE HeapInv'
    OBVIOUS
  <2>2. ASSUME NEW request \in HeapRequests, kmalloc(request) PROVE HeapInv'
    BY <2>1, <2>2, KmallocStep
  <2>3. ASSUME NEW chunk \in used, kfree(chunk) PROVE HeapInv'
    BY <2>1, <2>3, KfreeStep
  <2>4. CASE UNCHANGED heap_vars
    BY <2>1, <2>4 DEF heap_vars, HeapInv, Owned
  <2> QED BY <2>1, <2>2, <2>3, <2>4 DEF HeapNext
<1> QED BY <1>1, <1>2, PTL DEF HeapSpec

\* HeapTypeOK: the chunks are addresses of the heap, and the owners' chunks
\* are the used ones but the two at the ends.
THEOREM HeapTypes == HeapSpec => []HeapTypeOK
<1>1. HeapInv => HeapTypeOK
  <2>1. SUFFICES ASSUME HeapInv PROVE HeapTypeOK
    OBVIOUS
  <2>2. all \in Seq(Addresses) /\ used \subseteq ToSet(all) /\ ToSet(all) \subseteq Addresses
    BY <2>1, ListFacts DEF HeapInv, Arranged
  <2> QED BY <2>1, <2>2 DEF HeapTypeOK, HeapInv, Owned, Addresses
<1> QED BY <1>1, HeapInvariant, PTL

\* HeapWellFormed, for a heap of any size: kmalloc and kfree leave no gap, no
\* two free neighbours, and each free chunk on the one stack it belongs to.
THEOREM HeapStaysWellFormed == HeapSpec => []HeapWellFormed
<1>1. HeapInv => HeapWellFormed
  <2>1. SUFFICES ASSUME HeapInv PROVE HeapWellFormed
    OBVIOUS
  <2> DEFINE A == ToSet(all)
  <2>2. /\ all \in Seq(Addresses) /\ Ordered(all)
        /\ 0 \in used /\ LastChunk \in used /\ used \subseteq A
        /\ \A c \in A : c % ALIGN = 0
        /\ \A c, d : Follows(A, c, d) => c + ChunkSize <= d /\ (c \in used \/ d \in used)
        /\ Shelved(free_chunk, all, A \ used)
        /\ A \subseteq Addresses /\ LastChunk \in Nat
    BY <2>1, ListFacts DEF HeapInv, Arranged
  <2>3. /\ Len(all) \in Nat /\ A = {all[i] : i \in 1 .. Len(all)}
        /\ \A i \in 1 .. Len(all) : all[i] \in Addresses
        /\ \A i, j \in 1 .. Len(all) : i < j => all[i] < all[j]
    BY <2>2, SetOfSequence DEF Ordered
  <2>4. all[1] = 0
    <3>1. PICK i \in 1 .. Len(all) : all[i] = 0
      BY <2>2, <2>3
    <3>2. 1 \in 1 .. Len(all) /\ (i = 1 \/ 1 < i) /\ all[1] \in Nat
      BY <2>2, <2>3, <3>1 DEF Addresses
    <3> QED BY <2>3, <3>1, <3>2
  <2>5. all[Len(all)] = LastChunk
    <3>1. PICK i \in 1 .. Len(all) : all[i] = LastChunk
      BY <2>2, <2>3
    <3>2. Len(all) \in 1 .. Len(all) /\ (i = Len(all) \/ i < Len(all))
          /\ all[Len(all)] \in Nat /\ all[Len(all)] <= LastChunk
      BY <2>2, <2>3, <3>1 DEF Addresses
    <3> QED BY <2>2, <2>3, <3>1, <3>2
  <2>6. ASSUME NEW i \in 1 .. Len(all) - 1
        PROVE  /\ all[i + 1] - all[i] >= ChunkSize /\ all[i] % ALIGN = 0
               /\ all[i] \in used \/ all[i + 1] \in used
    <3>1. i \in 1 .. Len(all) /\ i + 1 \in 1 .. Len(all) /\ i < i + 1
      BY <2>3
    <3>2. ASSUME NEW x \in A PROVE x <= all[i] \/ all[i + 1] <= x
      <4>1. PICK j \in 1 .. Len(all) : all[j] = x
        BY <2>3
      <4>2. all[j] \in Nat /\ all[i] \in Nat /\ all[i + 1] \in Nat
        <5>1. all[j] \in Addresses /\ all[i] \in Addresses /\ all[i + 1] \in Addresses
          BY ONLY <2>3, <3>1
        <5> QED BY <2>2, <5>1 DEF Addresses
      <4>3. j < i \/ j = i \/ j = i + 1 \/ i + 1 < j
        BY ONLY <2>3, <3>1
      <4>4. (j < i => all[j] < all[i]) /\ (i + 1 < j => all[i + 1] < all[j])
        BY ONLY <2>3, <3>1
      <4> QED BY ONLY <4>1, <4>2, <4>3, <4>4
    <3>3. Follows(A, all[i], all[i + 1])
      <4>1. all[i] \in A /\ all[i + 1] \in A /\ all[i] < all[i + 1]
        BY <2>3, <3>1
      <4> HIDE DEF A
      <4> QED BY <3>2, <4>1 DEF Follows
    <3>4. all[i] \in Nat /\ all[i + 1] \in Nat /\ all[i] \in A
      BY <2>2, <2>3, <3>1 DEF Addresses
    <3> HIDE DEF A
    <3>5. all[i] + ChunkSize <= all[i + 1] /\ all[i] % ALIGN = 0
          /\ (all[i] \in used \/ all[i + 1] \in used)
      BY <2>2, <3>3, <3>4
    <3> QED BY <3>4, <3>5 DEF ChunkSize
  <2>7. ASSUME NEW n \in DOMAIN free_chunk
        PROVE  /\ Len(free_chunk[n]) = Cardinality(ToSet(free_chunk[n]))
               /\ ToSet(free_chunk[n]) =
                     {c \in FreeChunks : memory_chunk_slot[memory_chunk_size(all, c)] = n}
    <3>1. n \in 0 .. NUM_SIZES - 1 /\ free_chunk[n] \in Seq(Addresses) /\ Once(free_chunk[n])
      BY <2>2 DEF Shelved
    <3>2. \A c : c \in ToSet(free_chunk[n]) <=>
            c \in FreeChunks /\ memory_chunk_slot[memory_chunk_size(all, c)] = n
      BY <2>2, <3>1 DEF Shelved, FreeChunks
    <3>3. Len(free_chunk[n]) = Cardinality(ToSet(free_chunk[n]))
      BY <3>1, OnceCounts
    <3> QED BY <3>2, <3>3
  <2> QED BY <2>2, <2>4, <2>5, <2>6, <2>7 DEF HeapWellFormed
<1> QED BY <1>1, HeapInvariant, PTL

-----------------------------------------------------------------------------
(* The heap is an allocator                                                *)

\* The requests that kmalloc can round up without passing 2^32.
RequestsFit == \A request \in HeapRequests : request + ALIGN <= UintRange

\* A chunk that is given out has room for what was asked for.
Room == \A c \in used \ {0, LastChunk} : requested[c] <= memory_chunk_size(all, c)

LEMMA InitRoom ==
    ASSUME HeapInit PROVE Room
BY DEF HeapInit, Room

LEMMA StepRoom ==
    ASSUME RequestsFit, HeapInv, Room, [HeapNext]_heap_vars
    PROVE  Room'
<1>1. used \ {0, LastChunk} = DOMAIN requested
  BY DEF HeapInv, Owned
<1>2. ASSUME NEW request \in HeapRequests, kmalloc(request) PROVE Room'
  <2>1. PICK chunk : Gives(request, chunk)
    BY <1>2, KmallocStep
  <2>2. request <= memory_chunk_size(all', chunk)
    <3>1. /\ request \in 0 .. UintRange - 1 /\ UintRange \in Nat
          /\ request + ALIGN <= UintRange
      BY HeapAssumption DEF RequestsFit
    <3>2. Rounded(request) \in MIN_SIZE .. UintRange - 1 /\ request <= Rounded(request)
      BY <3>1, RoundedSize
    <3>3. memory_chunk_size(all', chunk) \in Int
      <4>1. HeapInv'
        BY <1>2, KmallocStep
      <4>2. Arranged(all', free_chunk', used') /\ chunk \in used' /\ chunk \in ToSet(all')
        BY <2>1, <4>1 DEF Gives, HeapInv, Arranged
      <4>3. chunk # LastChunk
        BY <2>1 DEF Gives, HeapInv, Arranged
      <4>4. memory_chunk_size(all', chunk) \in MIN_SIZE .. HeapEnd
        BY <4>2, <4>3, ChunkFacts
      <4> QED BY <4>4, HeapAssumption DEF MIN_SIZE
    <3>4. memory_chunk_size(all', chunk) >= Rounded(request)
      BY <2>1 DEF Gives
    <3> QED BY <3>1, <3>2, <3>3, <3>4 DEF MIN_SIZE
  <2>3. ASSUME NEW c \in used' \ {0, LastChunk} PROVE requested'[c] <= memory_chunk_size(all', c)
    <3>1. CASE c = chunk
      <4>1. requested'[c] = request
        BY <2>1, <3>1 DEF Gives
      <4> QED BY <2>2, <3>1, <4>1
    <3>2. CASE c # chunk
      <4>1. c \in used \ {0, LastChunk}
        BY <2>1, <2>3, <3>2 DEF Gives
      <4>2. requested'[c] = requested[c] /\ memory_chunk_size(all', c) = memory_chunk_size(all, c)
        BY <1>1, <2>1, <3>2, <4>1 DEF Gives
      <4> QED BY <4>1, <4>2 DEF Room
    <3> QED BY <3>1, <3>2
  <2> QED BY <2>3 DEF Room
<1>3. ASSUME NEW chunk \in used, kfree(chunk) PROVE Room'
  <2>1. TakesBack(chunk)
    BY <1>3, KfreeStep
  <2>2. ASSUME NEW c \in used' \ {0, LastChunk} PROVE requested'[c] <= memory_chunk_size(all', c)
    <3>1. c \in used \ {0, LastChunk} /\ c # chunk
      BY <2>1, <2>2 DEF TakesBack
    <3>2. requested'[c] = requested[c] /\ memory_chunk_size(all', c) = memory_chunk_size(all, c)
      BY <1>1, <2>1, <3>1 DEF TakesBack
    <3> QED BY <3>1, <3>2 DEF Room
  <2> QED BY <2>2 DEF Room
<1>4. CASE UNCHANGED heap_vars
  BY <1>4 DEF heap_vars, Room
<1> QED BY <1>2, <1>3, <1>4 DEF HeapNext

\* The abstract allocator's blocks, and its sizes.
Blocks == {[at |-> c, size |-> HEADER_SIZE + requested[c]] : c \in DOMAIN requested}
BlockSizes == {HEADER_SIZE + size : size \in HeapRequests}

\* A chunk given out is a block apart from all others.
LEMMA GivesIsAllocate ==
    ASSUME RequestsFit, HeapInv, Room, HeapInv', Room', NEW request \in HeapRequests, NEW chunk,
           Gives(request, chunk)
    PROVE  HeapAsAllocator!Allocate(HEADER_SIZE + request)
<1> DEFINE A == ToSet(all')
           size == HEADER_SIZE + request
           new == [at |-> chunk, size |-> size]
           Size(c) == memory_chunk_size(all', c)
<1>1. /\ used' = used \cup {chunk} /\ chunk \in ToSet(all) \ used
      /\ requested' = [c \in DOMAIN requested \cup {chunk} |->
                          IF c = chunk THEN request ELSE requested[c]]
  BY DEF Gives
<1>2. DOMAIN requested = used \ {0, LastChunk} /\ 0 \in used /\ LastChunk \in used
      /\ requested \in [used \ {0, LastChunk} -> HeapRequests]
  BY DEF HeapInv, Owned, Arranged
<1>3. /\ Arranged(all', free_chunk', used') /\ used' \subseteq A /\ A \subseteq Addresses
      /\ A \subseteq Nat /\ LastChunk \in Nat /\ HeapEnd \in Nat /\ LastChunk <= HeapEnd
  <2>1. Arranged(all', free_chunk', used')
    BY DEF HeapInv
  <2>2. all' \in Seq(Addresses) /\ Ordered(all') /\ used' \subseteq A
    BY <2>1 DEF Arranged
  <2> HIDE DEF A
  <2>3. LastChunk <= HeapEnd /\ HeapEnd \in Nat
    BY HeapAssumption DEF LastChunk, ChunkSize
  <2> QED BY <2>1, <2>2, <2>3, ListFacts DEF A
<1>4. chunk \in used' \ {0, LastChunk} /\ used' \ {0, LastChunk} = DOMAIN requested \cup {chunk}
  BY <1>1, <1>2
<1>5. ASSUME NEW c \in used' \ {0, LastChunk}
      PROVE  /\ requested'[c] \in Nat /\ c \in A /\ c \in Nat
             /\ c + HEADER_SIZE + requested'[c] <= LastChunk
             /\ \A d \in A : c < d => c + HEADER_SIZE + requested'[c] <= d
  <2>1. requested'[c] <= Size(c)
    BY <1>5 DEF Room
  <2>2. requested'[c] \in Nat
    <3>1. requested' \in [used' \ {0, LastChunk} -> HeapRequests]
      BY DEF HeapInv, Owned
    <3> DEFINE r == requested'[c]
    <3>2. r \in HeapRequests
      BY <1>5, <3>1
    <3> HIDE DEF r
    <3>3. r \in Nat
      BY ONLY <3>2, HeapAssumption
    <3> QED BY <3>3 DEF r
  <2>3. c \in A /\ c # LastChunk
    BY <1>3, <1>5
  <2>4. Follows(A, c, Follower(all', c)) /\ Size(c) = Follower(all', c) - c - HEADER_SIZE
    BY <1>3, <2>3, ChunkFacts
  <2>5. /\ c \in Nat /\ Follower(all', c) \in Nat /\ Follower(all', c) <= LastChunk
        /\ \A d \in A : d <= c \/ Follower(all', c) <= d
    <3>1. Follower(all', c) \in A
      BY <2>4 DEF Follows
    <3>2. Follower(all', c) \in Addresses /\ c \in Nat
      BY <1>3, <2>3, <3>1
    <3> QED BY <1>3, <2>4, <3>2 DEF Follows, Addresses
  <2>6. c + HEADER_SIZE + requested'[c] <= Follower(all', c)
    BY <2>1, <2>2, <2>4, <2>5 DEF HEADER_SIZE
  <2>7. ASSUME NEW d \in A, c < d PROVE c + HEADER_SIZE + requested'[c] <= d
    <3>1. d \in Nat /\ Follower(all', c) <= d
      BY <1>3, <2>5, <2>7
    <3> QED BY <2>2, <2>5, <2>6, <3>1 DEF HEADER_SIZE
  <2>8. c + HEADER_SIZE + requested'[c] <= LastChunk
    BY <1>3, <2>2, <2>5, <2>6 DEF HEADER_SIZE
  <2> QED BY <2>2, <2>3, <2>5, <2>7, <2>8
<1>6. requested'[chunk] = request
  BY <1>1
<1> HIDE DEF A
<1>7. chunk \in 0 .. HeapEnd - size
  <2>1. request \in Nat /\ chunk \in Nat /\ chunk + HEADER_SIZE + request <= LastChunk
    BY <1>4, <1>5, <1>6
  <2> QED BY <1>3, <2>1 DEF HEADER_SIZE
<1>8. ASSUME NEW b \in Blocks PROVE b.at # chunk /\ HeapAsAllocator!Disjoint(b, new)
  <2>1. PICK c \in DOMAIN requested : b = [at |-> c, size |-> HEADER_SIZE + requested[c]]
    BY DEF Blocks
  <2>2. c \in used' \ {0, LastChunk} /\ c # chunk /\ requested'[c] = requested[c]
    BY <1>1, <1>2, <1>4
  <2>3. /\ b.at = c /\ b.size = HEADER_SIZE + requested[c]
        /\ new.at = chunk /\ new.size = HEADER_SIZE + request
    BY <2>1
  <2>4. /\ c \in A /\ chunk \in A /\ c \in Nat /\ chunk \in Nat /\ request \in Nat /\ requested[c] \in Nat
        /\ c < chunk => c + HEADER_SIZE + requested[c] <= chunk
        /\ chunk < c => chunk + HEADER_SIZE + request <= c
    BY <1>4, <1>5, <1>6, <2>2
  <2>5. b.at + b.size <= new.at \/ new.at + new.size <= b.at
    <3> HIDE DEF new, size
    <3>1. c < chunk \/ chunk < c
      BY <2>2, <2>4
    <3> QED BY <2>3, <2>4, <3>1 DEF HEADER_SIZE
  <2> QED BY <2>2, <2>3, <2>5 DEF HeapAsAllocator!Disjoint
<1>9. Blocks' = Blocks \cup {new}
  <2>1. DOMAIN requested' = DOMAIN requested \cup {chunk} /\ chunk \notin DOMAIN requested
    BY <1>1, <1>2
  <2>2. \A c \in DOMAIN requested : requested'[c] = requested[c]
    BY <1>1, <2>1
  <2> QED BY <1>6, <2>1, <2>2 DEF Blocks
<1> QED BY <1>7, <1>8, <1>9 DEF HeapAsAllocator!Allocate, Blocks

\* A chunk given back is a block released.
LEMMA TakesBackIsRelease ==
    ASSUME HeapInv, NEW chunk, TakesBack(chunk)
    PROVE  HeapAsAllocator!Release
<1> DEFINE b == [at |-> chunk, size |-> HEADER_SIZE + requested[chunk]]
<1>1. /\ chunk \in DOMAIN requested
      /\ requested' = [c \in DOMAIN requested \ {chunk} |-> requested[c]]
  BY DEF HeapInv, Owned, TakesBack
<1>2. b \in Blocks
  BY <1>1 DEF Blocks
<1>3. \A c \in DOMAIN requested : [at |-> c, size |-> HEADER_SIZE + requested[c]] = b => c = chunk
  OBVIOUS
<1>4. Blocks' = Blocks \ {b}
  <2>1. Blocks' = {[at |-> c, size |-> HEADER_SIZE + requested[c]] : c \in DOMAIN requested \ {chunk}}
    BY <1>1 DEF Blocks
  <2> HIDE DEF b
  <2>2. b = [at |-> chunk, size |-> HEADER_SIZE + requested[chunk]]
    BY DEF b
  <2> QED BY <1>1, <1>3, <2>1, <2>2 DEF Blocks
<1> QED BY <1>2, <1>4 DEF HeapAsAllocator!Release, Blocks

\* HeapIsAllocator, for a heap of any size: what kmalloc returns has the bytes
\* that were asked for and meets no other chunk in use, whatever is split and
\* merged around it.
THEOREM HeapAllocates ==
    ASSUME RequestsFit
    PROVE  HeapSpec => HeapIsAllocator
<1>1. HeapInit => HeapAsAllocator!Init
  BY DEF HeapInit, HeapAsAllocator!Init
<1>2. HeapInv /\ HeapInv' /\ Room /\ Room' /\ [HeapNext]_heap_vars => [HeapAsAllocator!Next]_Blocks
  <2>1. SUFFICES ASSUME HeapInv, HeapInv', Room, Room', [HeapNext]_heap_vars
                 PROVE  HeapAsAllocator!Next \/ Blocks' = Blocks
    BY DEF Blocks
  <2>2. ASSUME NEW request \in HeapRequests, kmalloc(request) PROVE HeapAsAllocator!Next
    <3>1. PICK chunk : Gives(request, chunk)
      BY <2>1, <2>2, KmallocStep
    <3>2. HeapAsAllocator!Allocate(HEADER_SIZE + request)
      BY <2>1, <3>1, GivesIsAllocate
    <3> QED BY <3>2 DEF HeapAsAllocator!Next
  <2>3. ASSUME NEW chunk \in used, kfree(chunk) PROVE HeapAsAllocator!Next
    <3>1. HeapAsAllocator!Release
      BY <2>1, <2>3, KfreeStep, TakesBackIsRelease
    <3> QED BY <3>1 DEF HeapAsAllocator!Next
  <2>4. CASE UNCHANGED heap_vars
    BY <2>4 DEF heap_vars, Blocks
  <2> QED BY <2>1, <2>2, <2>3, <2>4 DEF HeapNext
<1>3. HeapInit => Room
  BY InitRoom
<1>4. HeapInv /\ Room /\ [HeapNext]_heap_vars => Room'
  BY StepRoom
<1> QED BY <1>1, <1>2, <1>3, <1>4, HeapInvariant, PTL
    DEF HeapSpec, HeapIsAllocator, HeapAsAllocator!Spec, Blocks
=============================================================================
