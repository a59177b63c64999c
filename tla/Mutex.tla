-------------------------------- MODULE Mutex --------------------------------
(***************************************************************************)
(* sync/mutex.c: one mutex and the threads that use it.                    *)
(***************************************************************************)
EXTENDS Blocking

CONSTANTS
    Flags,          \* the flags mutex_init is called with: "none", "recursive"
    TryPends        \* those with which threads call mutex_try_pend too

ASSUME MutexAssumption == Flags \subseteq {"none", "recursive"}

VARIABLES
    mutex_state,    \* mutex_t.state: 1 when the mutex is free
    flags,
    locker_pid,
    waiting_threads,
    holders         \* the threads whose last call on the mutex let them in

mutex == <<mutex_state, flags, locker_pid, waiting_threads>>
mutex_vars == <<object, init, callers, mutex, holders>>

MutexInitial ==
    /\ BlockingInit
    /\ mutex_state = 0
    /\ flags = "none"
    /\ locker_pid = NULL
    /\ waiting_threads = <<>>
    /\ holders = {}

\* mutex_init clears the structure: callers do that when nobody uses it.
MutexInit(f) ==
    /\ init = 0 /\ NobodyInside /\ holders = {}
    /\ init' = 1
    /\ mutex_state' = 1
    /\ flags' = f
    /\ locker_pid' = NULL
    /\ waiting_threads' = <<>>
    /\ UNCHANGED <<callers, holders>>

\* The test of the loop in mutex_pend, on entry and each time it is woken.
MayEnter(t) == mutex_state = 1 \/ (flags = "recursive" /\ locker_pid = t)

\* A thread does not pend a plain mutex it holds: it would wait for itself.
Pends(t) == \/ pc[t] = "out" /\ (flags = "none" => t \notin holders)
            \/ pc[t] = "pend_woken"

\* A slip: the woken thread takes the mutex for granted (an if for the while).
MutexPendOnce(t) ==
    /\ Pends(t)
    /\ init = 1
    /\ MayEnter(t) \/ pc[t] = "pend_woken"
    /\ mutex_state' = 0
    /\ locker_pid' = t
    /\ holders' = holders \cup {t}
    /\ Finish(t)
    /\ UNCHANGED <<init, flags, waiting_threads>>

MutexPend(t) ==
    /\ Pends(t)
    /\ init = 1
    /\ MayEnter(t)
    /\ mutex_state' = 0
    /\ locker_pid' = t
    /\ holders' = holders \cup {t}
    /\ Finish(t)
    /\ UNCHANGED <<init, flags, waiting_threads>>

MutexPendBlock(t) ==
    /\ Pends(t)
    /\ init = 1
    /\ ~MayEnter(t)
    /\ waiting_threads' = EnlistData(waiting_threads, t, 0)
    /\ BlockAt(t, "pend_blocked")
    /\ UNCHANGED <<init, mutex_state, flags, locker_pid, holders>>

\* The mutex was destroyed meanwhile: OS_ERR_MUTEX_UNINITIALIZED.
MutexPendFail(t) ==
    /\ pc[t] = "pend_woken"
    /\ init = 0
    /\ Finish(t)
    /\ UNCHANGED <<init, mutex, holders>>

\* mutex_try_pend: a mutex that is not free is only reported.
MutexTryPend(t) ==
    /\ flags \in TryPends
    /\ pc[t] = "out"
    /\ init = 1
    /\ mutex_state = 1
    /\ mutex_state' = 0
    /\ holders' = holders \cup {t}
    /\ UNCHANGED <<init, callers, flags, locker_pid, waiting_threads>>

\* A slip: somebody is woken, and the state is left for the woken thread.
MutexPostHandsOver(t) ==
    /\ pc[t] = "out"
    /\ init = 1
    /\ t \in holders
    /\ mutex_state' = IF waiting_threads # <<>> THEN mutex_state ELSE 1
    /\ waiting_threads' = Rest(waiting_threads)
    /\ holders' = holders \ {t}
    /\ FinishWaking(t, waiting_threads)
    /\ UNCHANGED <<init, flags, locker_pid>>

\* mutex_post up to the unlocking of the spinlock.  The code does not ask who
\* posts; programs post what they hold, once however often they pended it.
MutexPost(t) ==
    /\ pc[t] = "out"
    /\ init = 1
    /\ t \in holders
    /\ mutex_state' = 1
    /\ waiting_threads' = Rest(waiting_threads)
    /\ holders' = holders \ {t}
    /\ FinishWaking(t, waiting_threads)
    /\ UNCHANGED <<init, flags, locker_pid>>

MutexUnlock(t) == Unlock(t) /\ UNCHANGED <<init, mutex, holders>>

\* mutex_post of a mutex that is gone only tells so: the thread leaves.
MutexPostFail(t) ==
    /\ pc[t] = "out"
    /\ init = 0
    /\ t \in holders
    /\ holders' = holders \ {t}
    /\ UNCHANGED <<init, callers, mutex>>

MutexDestroy(t) ==
    /\ pc[t] = "out"
    /\ init = 1
    /\ init' = 0
    /\ waiting_threads' = <<>>
    /\ UnlockAll(Nodes(waiting_threads))
    /\ UNCHANGED <<mutex_state, flags, locker_pid, holders>>

MutexNext ==
    /\ object = "mutex" /\ UNCHANGED object
    /\ \/ \E f \in Flags : MutexInit(f)
       \/ \E t \in Thread :
             \/ MutexPend(t) \/ MutexPendBlock(t) \/ MutexPendFail(t) \/ MutexTryPend(t)
             \/ MutexPost(t) \/ MutexUnlock(t) \/ MutexPostFail(t) \/ MutexDestroy(t)

MutexSpec == object = "mutex" /\ MutexInitial /\ [][MutexNext]_mutex_vars

-----------------------------------------------------------------------------
(* Properties                                                              *)

\* The fields of mutex_t hold values of their types.
MutexTypeOK ==
    /\ BlockingTypeOK
    /\ mutex_state \in {0, 1}
    /\ flags \in {"none", "recursive"}
    /\ locker_pid \in Thread \cup {NULL}
    /\ waiting_threads \in WaitingLists
    /\ holders \subseteq Thread

\* Mutual exclusion, with waiting, overtaking by newcomers, destruction while
\* threads wait, and both flags: at most one thread is inside, and the mutex
\* is free only when none is.
OneHolder ==
    /\ Cardinality(holders) <= 1
    /\ init = 1 /\ mutex_state = 1 => holders = {}

\* While threads wait for a mutex that nobody holds, one of them is on its way
\* to it.  Everybody who waits can be found by a post or by the destruction.
MutexKeepsWakeups ==
    object = "mutex" =>
        /\ HeldBy(waiting_threads, "pend_blocked")
        /\ WakeesBlocked
        /\ init = 0 => waiting_threads = <<>>
        /\ init = 1 /\ holders = {} /\ waiting_threads # <<>> =>
              InFlight("pend_blocked", "pend_woken") # {}
=============================================================================
