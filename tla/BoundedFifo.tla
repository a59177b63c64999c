----------------------------- MODULE BoundedFifo -----------------------------
(***************************************************************************)
(* What comm/queue.h and comm/mailbox.h promise: elements come out in the  *)
(* order they went in, each once; whoever finds the channel full or empty  *)
(* waits; a destruction sends everybody away and drops the elements.       *)
(* Which waiting thread goes on is open, and a thread that has just come   *)
(* may go first.                                                           *)
(***************************************************************************)
EXTENDS Integers, Sequences

CONSTANTS Thread, Element, Depths, Nothing

VARIABLES
    open,       \* the channel can be used
    depth,
    fifo,
    got,        \* what each thread received last
    readers,    \* the threads that wait for an element
    writers     \* the threads that wait for room

vars == <<open, depth, fifo, got, readers, writers>>

Init == /\ open = 0 /\ fifo = <<>> /\ readers = {} /\ writers = {}
        /\ depth \in Nat
        /\ got = [t \in Thread |-> Nothing]

Create == /\ open = 0 /\ readers = {} /\ writers = {}
          /\ open' = 1
          /\ depth' \in Depths
          /\ fifo' = <<>>
          /\ UNCHANGED <<got, readers, writers>>

\* A thread takes the oldest element; it has waited, or takes it as it comes.
Take(t) == /\ open = 1 /\ fifo # <<>>
           /\ got' = [got EXCEPT ![t] = Head(fifo)]
           /\ fifo' = Tail(fifo)
           /\ readers' = readers \ {t}
           /\ UNCHANGED <<open, depth, writers>>

Put(t) == /\ open = 1 /\ Len(fifo) < depth
          /\ \E e \in Element : fifo' = Append(fifo, e)
          /\ writers' = writers \ {t}
          /\ UNCHANGED <<open, depth, got, readers>>

WaitToTake(t) == /\ open = 1 /\ fifo = <<>>
                 /\ readers' = readers \cup {t}
                 /\ UNCHANGED <<open, depth, fifo, got, writers>>

WaitToPut(t) == /\ open = 1 /\ Len(fifo) = depth
                /\ writers' = writers \cup {t}
                /\ UNCHANGED <<open, depth, fifo, got, readers>>

Destroy == /\ open = 1
           /\ open' = 0
           /\ depth' \in Nat
           /\ fifo' = <<>>
           /\ UNCHANGED <<got, readers, writers>>

\* The channel is gone, the call fails.
Refuse(t) == /\ open = 0
             /\ \/ readers' = readers \ {t} /\ UNCHANGED writers
                \/ writers' = writers \ {t} /\ UNCHANGED readers
             /\ UNCHANGED <<open, depth, fifo, got>>

Next == \/ Create \/ Destroy
        \/ \E t \in Thread : \/ Take(t) \/ Put(t) \/ WaitToTake(t)
                             \/ WaitToPut(t) \/ Refuse(t)

Safety == Init /\ [][Next]_vars

\* Elements are not left lying while somebody waits for one, nor room while
\* somebody waits for room, and after a destruction everybody is told.
Spec == /\ Safety
        /\ WF_vars(readers # {} /\ \E t \in Thread : Take(t))
        /\ WF_vars(writers # {} /\ \E t \in Thread : Put(t))
        /\ \A t \in Thread : WF_vars(t \in readers \cup writers /\ Refuse(t))
=============================================================================
