-------------------------------- MODULE Queue --------------------------------
(***************************************************************************)
(* comm/queue.c: a ring of max_length elements and the threads that fill   *)
(* and empty it.                                                           *)
(*                                                                         *)
(* The indices run up to max_length before they are reset, so that the     *)
(* ring uses one cell more than queue_init allocates.  The model has that  *)
(* cell in container, and lets nobody else write to it.                    *)
(***************************************************************************)
EXTENDS Channel

CONSTANT Depths     \* the lengths queue_init is called with

ASSUME QueueAssumption == Depths \subseteq Nat

VARIABLES
    head, tail,     \* queue_t
    max_length, length,
    container

queue == <<head, tail, max_length, length, container>>
queue_vars == <<object, init, callers, waiting, got, item, queue>>

QueueInitial == /\ ChannelInit
                /\ head = 0 /\ tail = 0
                /\ max_length = 0 /\ length = 0
                /\ container = [i \in 0 .. 0 |-> NULL]

\* queue_init; nothing is in the new container (NULL) that a pend may return.
QueueInit(depth) ==
    /\ init = 0 /\ NobodyInside
    /\ init' = 1
    /\ head' = 0 /\ tail' = 0
    /\ max_length' = depth /\ length' = 0
    /\ container' = [i \in 0 .. depth |-> NULL]
    /\ UNCHANGED <<callers, waiting, got, item>>

\* A slip: the reset comes one later than the code has it.
AfterLate(index) == IF index > max_length THEN 0 ELSE index + 1

After(index) == IF index >= max_length THEN 0 ELSE index + 1

\* A slip: an if for the while.
QueuePendOnce(t) ==
    /\ MayPend(t)
    /\ init = 1
    /\ length # 0 \/ pc[t] = "pend_woken"
    /\ tail' = After(tail)
    /\ length' = length - 1
    /\ ReadAndWake(t, container[tail])
    /\ UNCHANGED <<head, max_length, container>>

\* queue_pend, the test of its loop: there is an element, ...
QueuePend(t) ==
    /\ MayPend(t)
    /\ init = 1
    /\ length # 0
    /\ tail' = After(tail)
    /\ length' = length - 1
    /\ ReadAndWake(t, container[tail])
    /\ UNCHANGED <<head, max_length, container>>

\* ... or there is none and the thread waits.
QueuePendBlock(t) ==
    /\ MayPend(t)
    /\ init = 1
    /\ length = 0
    /\ WaitToRead(t)
    /\ UNCHANGED queue

\* queue_post in the same way.
QueuePost(t, e) ==
    /\ MayPost(t, e)
    /\ init = 1
    /\ length # max_length
    /\ container' = [container EXCEPT ![head] = e]
    /\ head' = After(head)
    /\ length' = length + 1
    /\ WriteAndWake(t)
    /\ UNCHANGED <<tail, max_length>>

QueuePostBlock(t, e) ==
    /\ MayPost(t, e)
    /\ init = 1
    /\ length = max_length
    /\ WaitToWrite(t, e)
    /\ UNCHANGED queue

QueueUnlock(t) == Unlock(t) /\ UNCHANGED <<init, waiting, got, item, queue>>

\* OS_ERR_QUEUE_NON_INITIALIZED for those who waited.
QueueFail(t) == FailWoken(t) /\ UNCHANGED queue

\* queue_destroy clears the fields and frees the container.
QueueDestroy(t) ==
    /\ SendAllAway(t)
    /\ head' = 0 /\ tail' = 0
    /\ max_length' = 0 /\ length' = 0
    /\ container' = [i \in 0 .. 0 |-> NULL]

QueueNext ==
    /\ object = "queue" /\ UNCHANGED object
    /\ \/ \E depth \in Depths : QueueInit(depth)
       \/ \E t \in Thread :
             \/ QueuePend(t) \/ QueuePendBlock(t)
             \/ \E e \in Element : QueuePost(t, e) \/ QueuePostBlock(t, e)
             \/ QueueUnlock(t) \/ QueueFail(t) \/ QueueDestroy(t)

QueueSpec == object = "queue" /\ QueueInitial /\ [][QueueNext]_queue_vars

\* Whoever is in the middle of a call and not blocked is scheduled again.
QueueGoesOn(t) ==
    /\ pc[t] # "out"
    /\ \/ QueuePend(t) \/ QueuePendBlock(t) \/ QueueUnlock(t) \/ QueueFail(t)
       \/ \E e \in Element : QueuePost(t, e) \/ QueuePostBlock(t, e)

-----------------------------------------------------------------------------
(* Properties                                                              *)

\* The fields of queue_t hold values of their types; indices and length stay
\* in their ranges.
QueueTypeOK ==
    /\ ChannelTypeOK
    /\ max_length \in Nat
    /\ head \in 0 .. max_length
    /\ tail \in 0 .. max_length
    /\ length \in 0 .. max_length
    /\ container \in [0 .. max_length -> Element \cup {NULL}]

\* As MailboxKeepsWakeups, with several elements and several free cells.
QueueKeepsWakeups ==
    object = "queue" => KeepsWakeups(length, max_length - length)

\* The ring read from tail on: the cell of its element number i.
Cell(i) == IF tail + i - 1 > max_length THEN tail + i - 2 - max_length ELSE tail + i - 1

Ring == [i \in 1 .. length |-> container[Cell(i)]]

QueueAsFifo == INSTANCE BoundedFifo
    WITH open <- Shown("queue", init, 0), Nothing <- NULL,
         depth <- max_length, fifo <- Ring,
         got <- Shown("queue", got, Nothings),
         readers <- Shown("queue", Readers, {}),
         writers <- Shown("queue", Writers, {})

\* A queue is a first-in first-out channel of the depth it was made with: what
\* is posted is received once and in order across every turn of the ring, and
\* nobody waits for ever beside it.
QueueIsFifo == QueueAsFifo!Spec

\* The calls write to the max_length cells that queue_init has allocated.
WritesInContainer ==
    [][\A i \in DOMAIN container :
          init = 1 /\ init' = 1 /\ container'[i] # container[i] => i < max_length]_queue_vars
=============================================================================
