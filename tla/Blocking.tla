------------------------------ MODULE Blocking -------------------------------
(***************************************************************************)
(* What mutex.c, mailbox.c and queue.c have in common: threads that wait   *)
(* on the lists of an object and are unlocked by the calls of others.      *)
(*                                                                         *)
(* An action is one stretch between taking the spinlock of the object      *)
(* (which turns the interrupts off: there is one core) and giving it back. *)
(* Between two stretches any thread may take a step:                       *)
(*    "out"            in no call of the object                            *)
(*    "pend_blocked"   in ..._pend, on a list or just taken off it         *)
(*    "pend_woken"     unlocked, about to test the object again            *)
(*    "post_blocked", "post_woken"                                         *)
(*                     the same in ..._post, of a mailbox or a queue       *)
(*    "wake"           done, with the spinlock given back and a thread     *)
(*                     (wakee) taken off a list, about to unlock it        *)
(***************************************************************************)
EXTENDS ListOps, FiniteSets

CONSTANTS Thread, NULL

ASSUME BlockingAssumption == IsFiniteSet(Thread) /\ NULL \notin Thread

VARIABLES
    object,     \* which object the threads use; it never changes
    init,       \* the field init of the object
    pc,
    wakee

callers == <<pc, wakee>>

At(points) == {t \in Thread : pc[t] \in points}
Posting == At({"wake"})
Wakees == {wakee[t] : t \in Posting}

\* unlock_thread lets a blocked thread go on in the call it is in.
Woken == [pend_blocked |-> "pend_woken", post_blocked |-> "post_woken"]

NobodyInside == \A t \in Thread : pc[t] = "out"

\* lock_thread, and schedule() after the spinlock has been given back.
BlockAt(t, point) == pc' = [pc EXCEPT ![t] = point] /\ UNCHANGED wakee

\* The call ends, or goes on to unlock the tail of a list.
FinishWaking(t, list) ==
    IF list # <<>>
    THEN /\ pc' = [pc EXCEPT ![t] = "wake"]
         /\ wakee' = [wakee EXCEPT ![t] = DelistedNode(list)]
    ELSE /\ pc' = [pc EXCEPT ![t] = "out"]
         /\ UNCHANGED wakee

Finish(t) == pc' = [pc EXCEPT ![t] = "out"] /\ UNCHANGED wakee

\* What a call leaves on the list when it takes its tail, if there is one.
Rest(list) == IF list # <<>> THEN DelistData(list) ELSE list

\* The unlock_thread at the end of a call.
Unlock(t) ==
    /\ pc[t] = "wake"
    /\ pc' = [pc EXCEPT ![t] = "out", ![wakee[t]] = Woken[pc[wakee[t]]]]
    /\ wakee' = [wakee EXCEPT ![t] = NULL]

\* ..._destroy unlocks all threads of its lists.
UnlockAll(threads) ==
    /\ pc' = [t \in Thread |-> IF t \in threads THEN Woken[pc[t]] ELSE pc[t]]
    /\ UNCHANGED wakee

BlockingInit == /\ object \in {"mutex", "mailbox", "queue"}
                /\ init = 0
                /\ pc = [t \in Thread |-> "out"]
                /\ wakee = [t \in Thread |-> NULL]

-----------------------------------------------------------------------------
(* Parts of the properties of the objects                                  *)

WaitingLists == Seq([node : Thread, priority : {0}])

\* The fields have their types and every waiting list is a queue (priority 0).
BlockingTypeOK ==
    /\ init \in {0, 1}
    /\ pc \in [Thread -> {"out", "wake", "pend_blocked", "pend_woken",
                          "post_blocked", "post_woken"}]
    /\ wakee \in [Thread -> Thread \cup {NULL}]

\* The threads blocked at a point are those on its list and those some call
\* has taken off it and is about to unlock, each in one place only: so
\* unlock_thread never finds a thread in another state (the callers would
\* panic), no node is enlisted twice, and somebody can find every one of them.
HeldBy(list, point) ==
    /\ Distinct(list)
    /\ Nodes(list) \cap Wakees = {}
    /\ At({point}) = Nodes(list) \cup {t \in Wakees : pc[t] = point}

\* No two calls are about to unlock the same thread, and it is blocked.
WakeesBlocked ==
    /\ \A s, t \in Posting : wakee[s] = wakee[t] => s = t
    /\ Wakees \subseteq At({"pend_blocked", "post_blocked"})

\* Off its list, and not yet through the test that follows.
InFlight(blocked, woken) == At({woken}) \cup {t \in Wakees : pc[t] = blocked}
=============================================================================
