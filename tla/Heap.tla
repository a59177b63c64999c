--------------------------------- MODULE Heap --------------------------------
(***************************************************************************)
(* memory/heap.c: the kernel heap.  Chunks follow one another in memory,   *)
(* each with a header; the free ones are on stacks by the size class.      *)
(* A chunk is its address.  The two at the ends are never given out.       *)
(* Each call holds the spinlock from beginning to end.                     *)
(* The counters mem_free, mem_used and mem_meta are written only: they are *)
(* left out.                                                               *)
(***************************************************************************)
EXTENDS Integers, FiniteSets, SequencesExt

CONSTANTS
    HeapEnd,        \* the bytes from the first header on
    NUM_SIZES,
    HeapRequests,   \* what kmalloc is called with
    UintRange       \* 2^32 in the code, which computes modulo that

ALIGN == 4
HEADER_SIZE == 12
ChunkSize == 20     \* sizeof(mem_chunk_t): the header and a list_t
MIN_SIZE == 8

\* The binary logarithm, rounded down, by halving until nothing is left.
memory_chunk_slot[size \in 0 .. UintRange - 1] ==
    IF size = 0 THEN -1 ELSE memory_chunk_slot[size \div 2] + 1

\* There is a class for every chunk the heap can hold.
ASSUME HeapAssumption ==
    /\ HeapEnd \in Nat /\ HeapEnd % ALIGN = 0 /\ HeapEnd >= 3 * ChunkSize
    /\ UintRange \in Nat /\ HeapEnd < UintRange
    /\ NUM_SIZES \in Nat /\ memory_chunk_slot[HeapEnd] < NUM_SIZES
    /\ HeapRequests \subseteq 0 .. UintRange - 1

VARIABLES
    all,            \* the list of chunks, in the order of their addresses
    used,           \* those with the flag used
    free_chunk,
    requested       \* for each chunk given out, the size its owner asked for
heap_vars == <<all, used, free_chunk, requested>>

LastChunk == HeapEnd - ChunkSize

\* The neighbours of a chunk in a list of chunks.
Place(list, chunk) == CHOOSE i \in DOMAIN list : list[i] = chunk
Follower(list, chunk) == list[Place(list, chunk) + 1]
Predecessor(list, chunk) == list[Place(list, chunk) - 1]

\* remove
Without(list, chunk) == RemoveAt(list, Place(list, chunk))

memory_chunk_size(list, chunk) == Follower(list, chunk) - chunk - HEADER_SIZE

remove_free(table, list, chunk) ==
    LET n == memory_chunk_slot[memory_chunk_size(list, chunk)]
    IN  [table EXCEPT ![n] = Without(@, chunk)]

push_free(table, list, chunk) ==
    LET n == memory_chunk_slot[memory_chunk_size(list, chunk)]
    IN  [table EXCEPT ![n] = <<chunk>> \o @]

\* setup_kheap.
HeapInit ==
    /\ all = <<0, ChunkSize, LastChunk>>
    /\ used = {0, LastChunk}
    /\ free_chunk = push_free([n \in 0 .. NUM_SIZES - 1 |-> <<>>], all, ChunkSize)
    /\ requested = [chunk \in {} |-> 0]

\* The size kmalloc looks for.
Rounded(size) ==
    LET aligned == (((size + ALIGN - 1) % UintRange) \div ALIGN) * ALIGN
    IN  IF aligned < MIN_SIZE THEN MIN_SIZE ELSE aligned

\* A slip: the class of the size itself, where chunks may be smaller.
FirstClassBelow(size) == memory_chunk_slot[size]

\* From this class on every chunk is large enough.
FirstClass(size) == memory_chunk_slot[size - 1] + 1

Splits(size, available) == size + ChunkSize <= available

\* kmalloc, when a class has a chunk; otherwise it returns NULL.
kmalloc(request) ==
    LET size == Rounded(request)
        classes == {n \in FirstClass(size) .. NUM_SIZES - 1 : free_chunk[n] # <<>>}
        n == Min(classes)
        chunk == Head(free_chunk[n])
        popped == [free_chunk EXCEPT ![n] = Tail(@)]
        chunk2 == chunk + HEADER_SIZE + size
        split == InsertAt(all, Place(all, chunk) + 1, chunk2)
    IN  /\ classes # {}
        /\ IF Splits(size, memory_chunk_size(all, chunk))
           THEN /\ all' = split
                /\ free_chunk' = push_free(popped, split, chunk2)
           ELSE /\ free_chunk' = popped
                /\ UNCHANGED all
        /\ used' = used \cup {chunk}
        /\ requested' = [c \in DOMAIN requested \cup {chunk} |->
                            IF c = chunk THEN request ELSE requested[c]]

\* A slip: only the following chunk is taken in.
KfreeForward(chunk) ==
    LET next == Follower(all, chunk)
        merges == next \notin used
        list == IF merges THEN Without(all, next) ELSE all
        table == IF merges THEN remove_free(free_chunk, all, next) ELSE free_chunk
    IN  /\ chunk \in used \ {0, LastChunk}
        /\ used' = used \ {chunk}
        /\ requested' = [c \in DOMAIN requested \ {chunk} |-> requested[c]]
        /\ all' = list
        /\ free_chunk' = push_free(table, list, chunk)

\* kfree of a chunk its owner still has.
kfree(chunk) ==
    LET next == Follower(all, chunk)
        prev == Predecessor(all, chunk)
        merges == next \notin used
        list == IF merges THEN Without(all, next) ELSE all
        table == IF merges THEN remove_free(free_chunk, all, next) ELSE free_chunk
    IN  /\ chunk \in used \ {0, LastChunk}
        /\ used' = used \ {chunk}
        /\ requested' = [c \in DOMAIN requested \ {chunk} |-> requested[c]]
        /\ IF prev \notin used
           THEN /\ all' = Without(list, chunk)
                /\ free_chunk' = push_free(remove_free(table, list, prev), all', prev)
           ELSE /\ all' = list
                /\ free_chunk' = push_free(table, list, chunk)

HeapNext == \/ \E size \in HeapRequests : kmalloc(size)
            \/ \E chunk \in used : kfree(chunk)

HeapSpec == HeapInit /\ [][HeapNext]_heap_vars

-----------------------------------------------------------------------------
(* Properties                                                              *)

FreeChunks == ToSet(all) \ used

HeapTypeOK == /\ all \in Seq(0 .. LastChunk)
              /\ used \subseteq 0 .. LastChunk
              /\ DOMAIN requested = used \ {0, LastChunk}

\* After any calls: the chunks fill the heap in order, aligned, each with room
\* for the links of a free chunk; no two free chunks are neighbours, so memory
\* that is given back is whole again; and each free chunk is on the stack of
\* its size, once, and on no other.
HeapWellFormed ==
    /\ all[1] = 0 /\ all[Len(all)] = LastChunk
    /\ \A i \in 1 .. Len(all) - 1 :
          /\ all[i + 1] - all[i] >= ChunkSize /\ all[i] % ALIGN = 0
          /\ all[i] \in used \/ all[i + 1] \in used
    /\ used \subseteq ToSet(all)
    /\ \A n \in DOMAIN free_chunk :
          /\ Len(free_chunk[n]) = Cardinality(ToSet(free_chunk[n]))
          /\ ToSet(free_chunk[n]) =
                {c \in FreeChunks : memory_chunk_slot[memory_chunk_size(all, c)] = n}

HeapAsAllocator == INSTANCE Allocator WITH
    Arena <- HeapEnd, Sizes <- {HEADER_SIZE + size : size \in HeapRequests},
    blocks <- {[at |-> c, size |-> HEADER_SIZE + requested[c]] : c \in DOMAIN requested}

\* Blocks that are given out have the bytes that were asked for and a header
\* nobody else writes to, and stay where they are until they are given back.
HeapIsAllocator == HeapAsAllocator!Spec
=============================================================================
