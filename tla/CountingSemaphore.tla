-------------------------- MODULE CountingSemaphore --------------------------
(***************************************************************************)
(* What sync/semaphore.h promises: a level that is never taken below zero, *)
(* threads that wait for it, and a destruction that sends them all away.   *)
(* There is no queue here: which waiting thread takes a level is open, and *)
(* a thread that has just come may take it first.                          *)
(***************************************************************************)
EXTENDS Integers

CONSTANTS Thread, InitLevels

VARIABLES
    init,       \* the semaphore can be used
    sem_level,
    pending     \* the threads that have asked and not been answered

vars == <<init, sem_level, pending>>

Init == init = 0 /\ sem_level = 0 /\ pending = {}

Create == /\ init = 0
          /\ pending = {}
          /\ init' = 1
          /\ sem_level' \in InitLevels
          /\ UNCHANGED pending

\* The thread has waited before, or takes the level as it comes.
Acquire == /\ init = 1
           /\ sem_level >= 1
           /\ sem_level' = sem_level - 1
           /\ \E t \in Thread : pending' = pending \ {t}
           /\ UNCHANGED init

Wait(t) == /\ init = 1
           /\ sem_level < 1
           /\ t \notin pending
           /\ pending' = pending \cup {t}
           /\ UNCHANGED <<init, sem_level>>

Release == /\ init = 1
           /\ sem_level' = sem_level + 1
           /\ UNCHANGED <<init, pending>>

Destroy == /\ init = 1
           /\ init' = 0
           /\ UNCHANGED <<sem_level, pending>>

\* The semaphore is gone, the call fails.
Refuse(t) == /\ init = 0
             /\ t \in pending
             /\ pending' = pending \ {t}
             /\ UNCHANGED <<init, sem_level>>

Next == \/ Create \/ Acquire \/ Release \/ Destroy
        \/ \E t \in Thread : Wait(t) \/ Refuse(t)

Safety == Init /\ [][Next]_vars

\* A level that is there while somebody waits does not stay there for ever,
\* and after a destruction everybody is told.
Progress == pending # {} /\ Acquire

Spec == /\ Safety
        /\ WF_vars(Progress)
        /\ \A t \in Thread : WF_vars(Refuse(t))
=============================================================================
