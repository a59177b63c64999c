------------------------------- MODULE Channel -------------------------------
(***************************************************************************)
(* The part of mailbox_t and queue_t that the two have in common: two      *)
(* lists of waiting threads, those that pend and those that post.          *)
(***************************************************************************)
EXTENDS Blocking

CONSTANT Element

ASSUME ChannelAssumption == NULL \notin Element

VARIABLES
    read_waiting_threads,
    write_waiting_threads,
    got,        \* what each thread received last from a pend
    item        \* what a thread that waits in a post is going to post

waiting == <<read_waiting_threads, write_waiting_threads>>

Nothings == [t \in Thread |-> NULL]

ChannelInit == /\ BlockingInit
               /\ read_waiting_threads = <<>>
               /\ write_waiting_threads = <<>>
               /\ got = Nothings
               /\ item = Nothings

MayPend(t) == pc[t] \in {"out", "pend_woken"}

\* A thread posts the element it is called with, and waits for it.
MayPost(t, e) == \/ pc[t] = "out"
                 \/ pc[t] = "post_woken" /\ item[t] = e

\* The bodies of the loops of ..._pend and ..._post.
WaitToRead(t) ==
    /\ read_waiting_threads' = EnlistData(read_waiting_threads, t, 0)
    /\ BlockAt(t, "pend_blocked")
    /\ UNCHANGED <<init, write_waiting_threads, got, item>>

WaitToWrite(t, e) ==
    /\ write_waiting_threads' = EnlistData(write_waiting_threads, t, 0)
    /\ item' = [item EXCEPT ![t] = e]
    /\ BlockAt(t, "post_blocked")
    /\ UNCHANGED <<init, read_waiting_threads, got>>

\* Their ends: a pend wakes one thread that posts, a post one that pends.
ReadAndWake(t, e) ==
    /\ got' = [got EXCEPT ![t] = e]
    /\ write_waiting_threads' = Rest(write_waiting_threads)
    /\ FinishWaking(t, write_waiting_threads)
    /\ UNCHANGED <<init, read_waiting_threads, item>>

WriteAndWake(t) ==
    /\ item' = [item EXCEPT ![t] = NULL]
    /\ read_waiting_threads' = Rest(read_waiting_threads)
    /\ FinishWaking(t, read_waiting_threads)
    /\ UNCHANGED <<init, write_waiting_threads, got>>

\* The channel was destroyed while the thread waited.
FailWoken(t) ==
    /\ pc[t] \in {"pend_woken", "post_woken"}
    /\ init = 0
    /\ item' = [item EXCEPT ![t] = NULL]
    /\ Finish(t)
    /\ UNCHANGED <<init, waiting, got>>

SendAllAway(t) ==
    /\ pc[t] = "out"
    /\ init = 1
    /\ init' = 0
    /\ read_waiting_threads' = <<>>
    /\ write_waiting_threads' = <<>>
    /\ UnlockAll(Nodes(read_waiting_threads) \cup Nodes(write_waiting_threads))
    /\ UNCHANGED <<got, item>>

-----------------------------------------------------------------------------
(* Parts of the properties of the two                                      *)

ChannelTypeOK ==
    /\ BlockingTypeOK
    /\ read_waiting_threads \in WaitingLists
    /\ write_waiting_threads \in WaitingLists
    /\ got \in [Thread -> Element \cup {NULL}]
    /\ item \in [Thread -> Element \cup {NULL}]

Readers == At({"pend_blocked", "pend_woken"})
Writers == At({"post_blocked", "post_woken"})
ReadersInFlight == InFlight("pend_blocked", "pend_woken")
WritersInFlight == InFlight("post_blocked", "post_woken")

\* What an abstract channel shows of a thing, as long as the object is another.
Shown(kind, thing, nothing) == IF object = kind THEN thing ELSE nothing

\* Whoever waits can be found; while threads wait for elements, each element
\* that is there belongs to a thread on its way to it, and the same with room.
KeepsWakeups(elements, room) ==
    /\ HeldBy(read_waiting_threads, "pend_blocked")
    /\ HeldBy(write_waiting_threads, "post_blocked")
    /\ WakeesBlocked
    /\ init = 0 => read_waiting_threads = <<>> /\ write_waiting_threads = <<>>
    /\ init = 1 /\ read_waiting_threads # <<>> =>
          Cardinality(ReadersInFlight) >= elements
    /\ init = 1 /\ write_waiting_threads # <<>> =>
          Cardinality(WritersInFlight) >= room
=============================================================================
