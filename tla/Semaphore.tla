------------------------------ MODULE Semaphore ------------------------------
(***************************************************************************)
(* sync/semaphore.c: one semaphore, the threads that use it, and interrupt *)
(* handlers that post it.                                                  *)
(*                                                                         *)
(* An action is one stretch between taking the spinlock (which turns the   *)
(* interrupts off: there is one core) and giving it back.  Between two     *)
(* stretches anybody may take a step:                                      *)
(*    "out"      in no call of this semaphore                              *)
(*    "blocked"  in sem_pend, on the waiting list or just taken off it     *)
(*    "woken"    in sem_pend, unlocked, about to test the level again      *)
(*    "wake"     in sem_post, with the spinlock given back and a thread    *)
(*               (wakee) taken off the list, about to unlock it            *)
(* A handler gets to "wake" too: giving the spinlock back turns interrupts *)
(* on, inside the handler, and the PIT may switch to another thread (the   *)
(* timer of a LAPIC waits for the end of the keyboard's interrupt).        *)
(* Whether a blocked thread still runs up to its schedule() makes no       *)
(* difference here; module Scheduler looks at that.                        *)
(***************************************************************************)
EXTENDS ListOps, FiniteSets

CONSTANTS
    Thread,
    Handler,        \* interrupt handlers: they only post
    InitLevels,     \* the levels sem_init is called with; some are negative
    MaxLevel,       \* bound on sem_level, an int32_t
    NULL

Actor == Thread \cup Handler

ASSUME SemaphoreAssumption ==
    /\ IsFiniteSet(Thread)
    /\ Thread \cap Handler = {}
    /\ NULL \notin Actor
    /\ MaxLevel \in Nat
    /\ InitLevels \subseteq {level \in Int : level <= MaxLevel}

VARIABLES
    init,               \* semaphore_t
    sem_level,
    waiting_threads,
    pc,
    wakee

vars == <<init, sem_level, waiting_threads, pc, wakee>>

\* Before sem_init.
Init == /\ init = 0
        /\ sem_level = 0
        /\ waiting_threads = <<>>
        /\ pc = [a \in Actor |-> "out"]
        /\ wakee = [a \in Actor |-> NULL]

-----------------------------------------------------------------------------

\* sem_init clears the structure: callers do that when nobody is in a call.
SemInit(level) ==
    /\ init = 0
    /\ \A a \in Actor : pc[a] = "out"
    /\ init' = 1
    /\ sem_level' = level
    /\ waiting_threads' = <<>>
    /\ UNCHANGED <<pc, wakee>>

\* A slip: >= 0 in the test.
SemPendAtZero(t) ==
    /\ pc[t] \in {"out", "woken"}
    /\ init = 1
    /\ sem_level >= 0
    /\ sem_level' = sem_level - 1
    /\ pc' = [pc EXCEPT ![t] = "out"]
    /\ UNCHANGED <<init, waiting_threads, wakee>>

\* sem_pend, the test of its loop: on entry ("out") and each time the thread
\* has been woken.  The level is there, ...
SemPend(t) ==
    /\ pc[t] \in {"out", "woken"}
    /\ init = 1
    /\ sem_level >= 1
    /\ sem_level' = sem_level - 1
    /\ pc' = [pc EXCEPT ![t] = "out"]
    /\ UNCHANGED <<init, waiting_threads, wakee>>

\* A slip: an enlisting that does not give the priority of a waiting list.
SemPendBlockAtOne(t) ==
    /\ pc[t] \in {"out", "woken"}
    /\ init = 1
    /\ sem_level < 1
    /\ waiting_threads' = EnlistData(waiting_threads, t, 1)
    /\ pc' = [pc EXCEPT ![t] = "blocked"]
    /\ UNCHANGED <<init, sem_level, wakee>>

\* ... it is not, and the thread is locked and enlisted, ...
SemPendBlock(t) ==
    /\ pc[t] \in {"out", "woken"}
    /\ init = 1
    /\ sem_level < 1
    /\ waiting_threads' = EnlistData(waiting_threads, t, 0)
    /\ pc' = [pc EXCEPT ![t] = "blocked"]
    /\ UNCHANGED <<init, sem_level, wakee>>

\* ... or the semaphore was destroyed meanwhile: OS_ERR_SEM_UNINITIALIZED.
SemPendFail(t) ==
    /\ pc[t] = "woken"
    /\ init = 0
    /\ pc' = [pc EXCEPT ![t] = "out"]
    /\ UNCHANGED <<init, sem_level, waiting_threads, wakee>>

\* sem_try_pend: a level below 1 is only reported.
SemTryPend(t) ==
    /\ pc[t] = "out"
    /\ init = 1
    /\ sem_level >= 1
    /\ sem_level' = sem_level - 1
    /\ UNCHANGED <<init, waiting_threads, pc, wakee>>

\* A slip: the level is tested before it is incremented.
SemPostTestsFirst(a) ==
    /\ pc[a] = "out"
    /\ init = 1
    /\ sem_level < MaxLevel
    /\ sem_level' = sem_level + 1
    /\ IF sem_level > 0 /\ waiting_threads # <<>>
       THEN /\ wakee' = [wakee EXCEPT ![a] = DelistedNode(waiting_threads)]
            /\ waiting_threads' = DelistData(waiting_threads)
            /\ pc' = [pc EXCEPT ![a] = "wake"]
       ELSE UNCHANGED <<waiting_threads, pc, wakee>>
    /\ UNCHANGED init

\* A slip: the thread is unlocked and left on the list.
SemPostPeeks(a) ==
    /\ pc[a] = "out"
    /\ init = 1
    /\ sem_level < MaxLevel
    /\ sem_level' = sem_level + 1
    /\ IF sem_level + 1 > 0 /\ waiting_threads # <<>>
       THEN /\ wakee' = [wakee EXCEPT ![a] = DelistedNode(waiting_threads)]
            /\ pc' = [pc EXCEPT ![a] = "wake"]
       ELSE UNCHANGED <<pc, wakee>>
    /\ UNCHANGED <<init, waiting_threads>>

\* sem_post up to the unlocking of the spinlock: it looks for somebody to wake
\* only when the level is above zero.
SemPost(a) ==
    /\ pc[a] = "out"
    /\ init = 1
    /\ sem_level < MaxLevel
    /\ sem_level' = sem_level + 1
    /\ IF sem_level + 1 > 0 /\ waiting_threads # <<>>
       THEN /\ wakee' = [wakee EXCEPT ![a] = DelistedNode(waiting_threads)]
            /\ waiting_threads' = DelistData(waiting_threads)
            /\ pc' = [pc EXCEPT ![a] = "wake"]
       ELSE UNCHANGED <<waiting_threads, pc, wakee>>
    /\ UNCHANGED init

\* sem_post, its unlock_thread.
SemPostUnlock(a) ==
    /\ pc[a] = "wake"
    /\ pc' = [pc EXCEPT ![a] = "out", ![wakee[a]] = "woken"]
    /\ wakee' = [wakee EXCEPT ![a] = NULL]
    /\ UNCHANGED <<init, sem_level, waiting_threads>>

\* A slip: an if where the loop is, so only the oldest waiter is sent away.
SemDestroyOne(t) ==
    /\ pc[t] = "out"
    /\ init = 1
    /\ init' = 0
    /\ IF waiting_threads # <<>>
       THEN /\ waiting_threads' = DelistData(waiting_threads)
            /\ pc' = [pc EXCEPT ![DelistedNode(waiting_threads)] = "woken"]
       ELSE UNCHANGED <<waiting_threads, pc>>
    /\ UNCHANGED <<sem_level, wakee>>

\* sem_destroy unlocks everybody on the list without leaving the spinlock.
SemDestroy(t) ==
    /\ pc[t] = "out"
    /\ init = 1
    /\ init' = 0
    /\ waiting_threads' = <<>>
    /\ pc' = [a \in Actor |->
                IF a \in Nodes(waiting_threads) THEN "woken" ELSE pc[a]]
    /\ UNCHANGED <<sem_level, wakee>>

Next ==
    \/ \E level \in InitLevels : SemInit(level)
    \/ \E t \in Thread : \/ SemPend(t) \/ SemPendBlock(t) \/ SemPendFail(t)
                         \/ SemTryPend(t) \/ SemDestroy(t)
    \/ \E a \in Actor : SemPost(a) \/ SemPostUnlock(a)

Spec == Init /\ [][Next]_vars

\* Whoever is in the middle of a call and not blocked is scheduled again
\* (Scheduler!NoStarvation).  Nobody has to call anything.
Fairness == /\ \A t \in Thread : WF_vars(pc[t] = "woken" /\
                                    (SemPend(t) \/ SemPendBlock(t) \/ SemPendFail(t)))
            /\ \A a \in Actor : WF_vars(SemPostUnlock(a))
FairSpec == Spec /\ Fairness

-----------------------------------------------------------------------------
(* The semaphore a caller sees                                             *)

Posting == {a \in Actor : pc[a] = "wake"}

\* Off the list, and not yet through the test that follows.
InFlight == {t \in Thread : pc[t] = "woken"} \cup {wakee[a] : a \in Posting}

Abstract == INSTANCE CountingSemaphore
                WITH pending <- {t \in Thread : pc[t] \in {"blocked", "woken"}}

-----------------------------------------------------------------------------
(* Properties                                                              *)

\* Every field holds a value of its C type, handlers never wait in a call, and
\* a waiting list is kept with priority 0 only, so that it is a queue.
TypeOK ==
    /\ init \in {0, 1}
    /\ sem_level \in {level \in Int : level <= MaxLevel}
    /\ waiting_threads \in Seq([node : Thread, priority : {0}])
    /\ pc \in [Actor -> {"out", "blocked", "woken", "wake"}]
    /\ \A a \in Handler : pc[a] \in {"out", "wake"}
    /\ wakee \in [Actor -> Thread \cup {NULL}]

\* A thread on the list, or taken off it by a post that has not unlocked it
\* yet, is blocked, and is in only one of these places: unlock_thread never
\* finds the thread in another state (both callers would panic), and a node is
\* never enlisted twice.  A blocked thread is in one of them, so some post or
\* the destruction can find it.
BlockedIsHeld ==
    /\ Distinct(waiting_threads)
    /\ \A a, b \in Posting : wakee[a] = wakee[b] => a = b
    /\ \A a \in Posting : wakee[a] \notin Nodes(waiting_threads)
    /\ {t \in Thread : pc[t] = "blocked"} =
          Nodes(waiting_threads) \cup {wakee[a] : a \in Posting}

\* No wake-up is lost: while threads wait on the list, every level that is
\* there belongs to a thread already on its way to take it.  The post that
\* finds nobody to wake, the thread that is overtaken by a newcomer and the
\* negative levels all have to keep this.
NoLostWakeup ==
    waiting_threads # <<>> => Cardinality(InFlight) >= sem_level

\* sem_destroy leaves nobody behind.
DestroyedIsEmpty == init = 0 => waiting_threads = <<>>

\* Callers see a counting semaphore: no level is taken that was not posted, no
\* level stays while somebody waits for it, and destruction answers everybody.
ImplementsCountingSemaphore == Abstract!Spec
=============================================================================
