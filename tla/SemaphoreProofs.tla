--------------------------- MODULE SemaphoreProofs ---------------------------
(***************************************************************************)
(* sync/semaphore.c loses no wake-up, for any number of threads and        *)
(* posting handlers, any initial levels and any bound on the level.        *)
(***************************************************************************)
EXTENDS Semaphore, ListOpsProofs, FiniteSetTheorems

Waiters == Nodes(waiting_threads)
Blocked == {t \in Thread : pc[t] = "blocked"}

\* The waiting list is a list of threads.
LEMMA WaitingIsList ==
    ASSUME TypeOK
    PROVE  /\ waiting_threads \in ListOf(Thread)
           /\ Waiters \subseteq Thread
           /\ waiting_threads # <<>> =>
                 DelistedNode(waiting_threads) \in Waiters
<1> DEFINE R0 == [node : Thread, priority : {0}]
           R == [node : Thread, priority : Nat]
<1>1. R0 \subseteq R
  OBVIOUS
<1>2. waiting_threads \in Seq(R0)
  BY DEF TypeOK
<1> HIDE DEF R0, R
<1>3. waiting_threads \in Seq(R)
  BY <1>1, <1>2, SeqMonotonic
<1>4. waiting_threads \in ListOf(Thread)
  BY <1>3 DEF ListOf, R
<1>5. Waiters \subseteq Thread
  BY <1>4, ListEntries DEF Waiters, Nodes
<1> QED
  BY <1>4, <1>5, DelistedNodes DEF Waiters

-----------------------------------------------------------------------------
(* Types                                                                   *)

\* Before sem_init every field has its type.
LEMMA TypeInit == Init => TypeOK
<1> SUFFICES ASSUME Init PROVE TypeOK
  OBVIOUS
<1>1. waiting_threads \in Seq([node : Thread, priority : {0}])
  BY EmptySeq DEF Init
<1>2. 0 <= MaxLevel
  BY SemaphoreAssumption
<1> QED
  BY <1>1, <1>2 DEF Init, TypeOK, Actor

\* Only sem_pend and sem_post touch the waiting list; what they put there is a
\* list of threads again.
LEMMA WaitingType ==
    ASSUME TypeOK
    PROVE  /\ \A t \in Thread : EnlistData(waiting_threads, t, 0)
                                    \in Seq([node : Thread, priority : {0}])
           /\ DelistData(waiting_threads) \in Seq([node : Thread, priority : {0}])
           /\ <<>> \in Seq([node : Thread, priority : {0}])
<1>1. waiting_threads \in Seq([node : Thread, priority : {0}])
  BY DEF TypeOK
<1>2. {0} \subseteq Nat /\ 0 \in {0}
  OBVIOUS
<1>3. ASSUME NEW t \in Thread
      PROVE  EnlistData(waiting_threads, t, 0) \in Seq([node : Thread, priority : {0}])
  BY <1>1, <1>2, EnlistedIn
<1> QED
  BY <1>1, <1>3, DelistedIn, EmptySeq

\* Every stretch of every function keeps the types.
LEMMA TypeStep == TypeOK /\ [Next]_vars => TypeOK'
<1> SUFFICES ASSUME TypeOK, [Next]_vars PROVE TypeOK'
  OBVIOUS
<1> USE SemaphoreAssumption
<1> DEFINE Lists == Seq([node : Thread, priority : {0}])
           Levels == {level \in Int : level <= MaxLevel}
<1>0. /\ \A t \in Thread : EnlistData(waiting_threads, t, 0) \in Lists
      /\ DelistData(waiting_threads) \in Lists
      /\ <<>> \in Lists
      /\ waiting_threads \in Lists
  BY WaitingType DEF TypeOK
<1>00. waiting_threads # <<>> => DelistedNode(waiting_threads) \in Thread
  BY WaitingIsList
<1>000. \A level \in Levels : level - 1 \in Levels /\ (level < MaxLevel => level + 1 \in Levels)
  OBVIOUS
<1> HIDE DEF Lists
<1>1. ASSUME NEW level \in InitLevels, SemInit(level) PROVE TypeOK'
  BY <1>0, <1>1 DEF SemInit, TypeOK, Lists
<1>2. ASSUME NEW t \in Thread, SemPend(t) PROVE TypeOK'
  BY <1>000, <1>2 DEF SemPend, TypeOK, Actor
<1>3. ASSUME NEW t \in Thread, SemPendBlock(t) PROVE TypeOK'
  <2>1. waiting_threads' \in Lists
    BY <1>0, <1>3 DEF SemPendBlock
  <2> QED
    BY <1>3, <2>1 DEF SemPendBlock, TypeOK, Actor, Lists
<1>4. ASSUME NEW t \in Thread, SemPendFail(t) PROVE TypeOK'
  BY <1>4 DEF SemPendFail, TypeOK, Actor
<1>5. ASSUME NEW t \in Thread, SemTryPend(t) PROVE TypeOK'
  BY <1>000, <1>5 DEF SemTryPend, TypeOK
<1>6. ASSUME NEW t \in Thread, SemDestroy(t) PROVE TypeOK'
  <2>1. Nodes(waiting_threads) \subseteq Thread
    BY WaitingIsList DEF Waiters
  <2>2. waiting_threads' \in Lists
    BY <1>0, <1>6 DEF SemDestroy
  <2> QED
    BY <1>6, <2>1, <2>2 DEF SemDestroy, TypeOK, Actor, Lists
<1>7. ASSUME NEW a \in Actor, SemPost(a) PROVE TypeOK'
  <2>1. waiting_threads' \in Lists
    BY <1>0, <1>7 DEF SemPost
  <2>2. sem_level' \in Levels
    BY <1>000, <1>7 DEF SemPost, TypeOK
  <2> QED
    BY <1>00, <1>7, <2>1, <2>2 DEF SemPost, TypeOK, Actor, Lists
<1>8. ASSUME NEW a \in Actor, SemPostUnlock(a) PROVE TypeOK'
  BY <1>8 DEF SemPostUnlock, TypeOK, Actor
<1>9. CASE UNCHANGED vars
  BY <1>9 DEF vars, TypeOK
<1> QED
  BY <1>1, <1>2, <1>3, <1>4, <1>5, <1>6, <1>7, <1>8, <1>9 DEF Next

\* Every variable keeps its type.
THEOREM TypeCorrect == Spec => []TypeOK
<1> QED
  BY TypeInit, TypeStep, PTL DEF Spec

-----------------------------------------------------------------------------
(* Who is where                                                            *)

Wakees == {wakee[a] : a \in Posting}

\* The threads taken off the list are blocked and some of finitely many.
LEMMA Places ==
    ASSUME TypeOK, BlockedIsHeld
    PROVE  /\ Waiters \subseteq Blocked
           /\ Wakees \subseteq Blocked
           /\ IsFiniteSet(InFlight)
           /\ Cardinality(InFlight) \in Nat
<1>1. Waiters \subseteq Blocked /\ Wakees \subseteq Blocked
  BY DEF BlockedIsHeld, Waiters, Wakees, Blocked
<1>2. InFlight \subseteq Thread
  BY <1>1 DEF InFlight, Wakees, Blocked
<1> QED
  BY <1>1, <1>2, SemaphoreAssumption, FS_Subset, FS_CardinalityType

\* A step that moves no blocked thread and no posting one keeps all in place.
LEMMA HeldUnmoved ==
    ASSUME BlockedIsHeld, UNCHANGED <<waiting_threads, wakee>>,
           Posting' = Posting, Blocked' = Blocked
    PROVE  BlockedIsHeld'
BY DEF BlockedIsHeld, Blocked

\* sem_pend moves the thread from nowhere to the list.
LEMMA HeldBlock ==
    ASSUME TypeOK, BlockedIsHeld, NEW t \in Thread, SemPendBlock(t)
    PROVE  BlockedIsHeld'
<1>1. waiting_threads \in ListOf(Thread) /\ t \notin Waiters /\ t \notin Wakees
  BY WaitingIsList, Places DEF SemPendBlock, Blocked
<1>2. Waiters' = Waiters \cup {t}
  BY <1>1, EnlistedNodes DEF SemPendBlock, Waiters
<1>3. Distinct(waiting_threads)'
  BY <1>1, EnlistedDistinct DEF SemPendBlock, BlockedIsHeld, Waiters
<1>4. Posting' = Posting /\ wakee' = wakee
  BY DEF SemPendBlock, Posting, TypeOK, Actor
<1>5. Blocked' = Blocked \cup {t}
  BY DEF SemPendBlock, Blocked, TypeOK, Actor
<1>6. Wakees' = Wakees
  BY <1>4 DEF Wakees
<1>7. Blocked = Waiters \cup Wakees
  BY DEF BlockedIsHeld, Blocked, Waiters, Wakees
<1>8. \A a \in Posting : wakee[a] \notin Waiters /\ wakee[a] # t
  BY <1>1 DEF BlockedIsHeld, Waiters, Wakees
<1>9. Blocked' = Waiters' \cup Wakees'
  BY <1>2, <1>5, <1>6, <1>7
<1> QED
  BY <1>2, <1>3, <1>4, <1>8, <1>9 DEF BlockedIsHeld, Blocked, Waiters, Wakees

\* sem_post moves one thread from the list into its own hands.
LEMMA HeldPost ==
    ASSUME TypeOK, BlockedIsHeld, NEW a \in Actor, SemPost(a)
    PROVE  BlockedIsHeld'
<1>1. CASE sem_level + 1 > 0 /\ waiting_threads # <<>>
  <2> DEFINE n == DelistedNode(waiting_threads)
  <2>1. /\ waiting_threads' = DelistData(waiting_threads)
        /\ wakee' = [wakee EXCEPT ![a] = n]
        /\ pc' = [pc EXCEPT ![a] = "wake"]
        /\ pc[a] = "out"
    BY <1>1 DEF SemPost
  <2>2. /\ n \in Waiters
        /\ Waiters = Waiters' \cup {n}
        /\ n \notin Waiters'
        /\ Distinct(waiting_threads)'
    BY <1>1, <2>1, WaitingIsList, DelistedNodes DEF BlockedIsHeld, Waiters
  <2> HIDE DEF n
  <2>3. Posting' = Posting \cup {a} /\ a \notin Posting
    BY <2>1 DEF Posting, TypeOK
  <2>4. wakee'[a] = n /\ \A b \in Posting : wakee'[b] = wakee[b]
    BY <2>1, <2>3 DEF TypeOK, Posting
  <2>5. Blocked' = Blocked
    BY <2>1 DEF Blocked, TypeOK, Actor
  <2>6. Wakees' = Wakees \cup {n}
    BY <2>3, <2>4 DEF Wakees
  <2>7. Blocked = Waiters \cup Wakees
    BY DEF BlockedIsHeld, Blocked, Waiters, Wakees
  <2>8. \A b \in Posting : wakee[b] \notin Waiters /\ wakee[b] # n
    BY <2>2 DEF BlockedIsHeld, Waiters
  <2>9. \A b, c \in Posting' : wakee'[b] = wakee'[c] => b = c
    BY <2>3, <2>4, <2>8 DEF BlockedIsHeld
  <2>10. \A b \in Posting' : wakee'[b] \notin Waiters'
    BY <2>2, <2>3, <2>4, <2>8
  <2>11. Blocked' = Waiters' \cup Wakees'
    BY <2>2, <2>5, <2>6, <2>7
  <2> QED
    BY <2>2, <2>9, <2>10, <2>11 DEF BlockedIsHeld, Blocked, Waiters, Wakees
<1>2. CASE ~ (sem_level + 1 > 0 /\ waiting_threads # <<>>)
  <2>1. UNCHANGED <<waiting_threads, pc, wakee>>
    BY <1>2 DEF SemPost
  <2> QED
    BY <2>1, HeldUnmoved DEF Posting, Blocked
<1> QED
  BY <1>1, <1>2

\* The unlock_thread of sem_post releases the thread in its hands.
LEMMA HeldUnlock ==
    ASSUME TypeOK, BlockedIsHeld, NEW a \in Actor, SemPostUnlock(a)
    PROVE  BlockedIsHeld'
<1> DEFINE n == wakee[a]
<1>1. /\ waiting_threads' = waiting_threads
      /\ pc' = [pc EXCEPT ![a] = "out", ![n] = "woken"]
      /\ wakee' = [wakee EXCEPT ![a] = NULL]
      /\ a \in Posting
  BY DEF SemPostUnlock, Posting
<1>2. n \in Wakees /\ n \in Blocked /\ n # a
  BY <1>1, Places DEF Wakees, Blocked, Posting
<1> HIDE DEF n
<1>3. Posting' = Posting \ {a}
  BY <1>1, <1>2 DEF Posting, TypeOK, Blocked
<1>4. \A b \in Posting' : wakee'[b] = wakee[b]
  BY <1>1, <1>3 DEF TypeOK, Posting
<1>5. Blocked' = Blocked \ {n}
  BY <1>1, <1>2 DEF Blocked, TypeOK, Actor, Posting
<1>6. Wakees' = Wakees \ {n}
  BY <1>1, <1>3, <1>4 DEF BlockedIsHeld, Wakees, n
<1>7. Blocked = Waiters \cup Wakees /\ n \notin Waiters
  BY <1>1 DEF BlockedIsHeld, Blocked, Waiters, Wakees, n
<1>8. Waiters' = Waiters
  BY <1>1 DEF Waiters
<1>9. Blocked' = Waiters' \cup Wakees'
  BY <1>5, <1>6, <1>7, <1>8
<1>10. \A b, c \in Posting' : wakee'[b] = wakee'[c] => b = c
  BY <1>3, <1>4 DEF BlockedIsHeld
<1>11. Distinct(waiting_threads)'
  BY <1>1 DEF BlockedIsHeld, Distinct
<1>12. \A b \in Posting' : wakee'[b] \notin Nodes(waiting_threads)'
  BY <1>1, <1>3, <1>4 DEF BlockedIsHeld, Nodes
<1>13. {t \in Thread : pc[t] = "blocked"}' = Nodes(waiting_threads)' \cup {wakee[b] : b \in Posting}'
  BY <1>9 DEF Blocked, Waiters, Wakees
<1> QED
  BY <1>10, <1>11, <1>12, <1>13 DEF BlockedIsHeld

\* sem_destroy releases exactly the threads of the list; a post that holds
\* another keeps it.
LEMMA HeldDestroy ==
    ASSUME TypeOK, BlockedIsHeld, NEW t \in Thread, SemDestroy(t)
    PROVE  BlockedIsHeld'
<1>1. Waiters \subseteq Blocked
  BY Places
<1>2. Posting' = Posting /\ wakee' = wakee
  BY <1>1 DEF SemDestroy, Posting, Blocked, Waiters, TypeOK, Actor
<1>3. Waiters' = {} /\ Distinct(waiting_threads)'
  BY DEF SemDestroy, Waiters, Nodes, Distinct
<1>4. Blocked' = Blocked \ Waiters
  BY DEF SemDestroy, Blocked, Waiters, TypeOK, Actor
<1>5. Wakees' = Wakees
  BY <1>2 DEF Wakees
<1>6. Blocked = Waiters \cup Wakees /\ Waiters \cap Wakees = {}
  BY DEF BlockedIsHeld, Blocked, Waiters, Wakees
<1>7. Blocked' = Waiters' \cup Wakees'
  BY <1>3, <1>4, <1>5, <1>6
<1> QED
  BY <1>2, <1>3, <1>7 DEF BlockedIsHeld, Blocked, Waiters, Wakees

\* The place of every blocked thread is kept by every step.
LEMMA HeldStep == TypeOK /\ BlockedIsHeld /\ [Next]_vars => BlockedIsHeld'
<1> SUFFICES ASSUME TypeOK, BlockedIsHeld, [Next]_vars PROVE BlockedIsHeld'
  OBVIOUS
<1>1. ASSUME NEW level \in InitLevels, SemInit(level) PROVE BlockedIsHeld'
  <2>1. Posting = {} /\ Blocked = {}
    BY <1>1 DEF SemInit, Posting, Blocked, Actor
  <2>2. Waiters' = {} /\ Distinct(waiting_threads)' /\ Posting' = {} /\ Blocked' = {}
    BY <1>1, <2>1 DEF SemInit, Waiters, Nodes, Distinct, Posting, Blocked
  <2> QED
    BY <2>2 DEF BlockedIsHeld, Waiters, Blocked
<1>2. ASSUME NEW t \in Thread,
             SemPend(t) \/ SemPendFail(t) \/ SemTryPend(t)
      PROVE  BlockedIsHeld'
  <2>1. Posting' = Posting /\ Blocked' = Blocked
    BY <1>2 DEF SemPend, SemPendFail, SemTryPend, Posting, Blocked, TypeOK, Actor
  <2> QED
    BY <1>2, <2>1, HeldUnmoved DEF SemPend, SemPendFail, SemTryPend
<1>3. CASE UNCHANGED vars
  BY <1>3, HeldUnmoved DEF vars, Posting, Blocked
<1> QED
  BY <1>1, <1>2, <1>3, HeldBlock, HeldPost, HeldUnlock, HeldDestroy DEF Next

-----------------------------------------------------------------------------
(* Levels and threads on their way                                         *)

\* A level taken is a level less; the taker need not have been in flight.
LEMMA WakePend ==
    ASSUME TypeOK, BlockedIsHeld, NoLostWakeup, NEW t \in Thread, SemPend(t)
    PROVE  NoLostWakeup'
<1>1. t \notin Wakees
  BY Places DEF SemPend, Blocked
<1>2. InFlight' = InFlight \ {t}
  BY <1>1 DEF SemPend, InFlight, Wakees, Posting, TypeOK, Actor
<1>3. IsFiniteSet(InFlight) /\ Cardinality(InFlight) \in Nat
  BY Places
<1>4. Cardinality(InFlight \ {t}) =
          IF t \in InFlight THEN Cardinality(InFlight) - 1 ELSE Cardinality(InFlight)
  BY <1>3, FS_RemoveElement
<1> QED
  BY <1>2, <1>3, <1>4 DEF SemPend, NoLostWakeup, TypeOK

\* A thread goes to wait only where no level is left.
LEMMA WakeBlock ==
    ASSUME TypeOK, BlockedIsHeld, NEW t \in Thread, SemPendBlock(t)
    PROVE  NoLostWakeup'
<1>1. t \notin Wakees
  BY Places DEF SemPendBlock, Blocked
<1>2. InFlight' = InFlight \ {t}
  BY <1>1 DEF SemPendBlock, InFlight, Wakees, Posting, TypeOK, Actor
<1>3. Cardinality(InFlight \ {t}) \in Nat
  BY Places, FS_RemoveElement, FS_CardinalityType
<1>4. sem_level' <= 0 /\ sem_level' \in Int
  BY DEF SemPendBlock, TypeOK
<1> QED
  BY <1>2, <1>3, <1>4 DEF NoLostWakeup

\* A level added with somebody on the list puts one more thread in flight.
LEMMA WakePost ==
    ASSUME TypeOK, BlockedIsHeld, NoLostWakeup, NEW a \in Actor, SemPost(a)
    PROVE  NoLostWakeup'
<1>1. sem_level \in Int /\ sem_level' = sem_level + 1
      /\ Cardinality(InFlight) \in Nat /\ IsFiniteSet(InFlight)
  BY Places DEF SemPost, TypeOK
<1>2. CASE sem_level + 1 > 0 /\ waiting_threads # <<>>
  <2> DEFINE n == DelistedNode(waiting_threads)
  <2>1. /\ wakee' = [wakee EXCEPT ![a] = n]
        /\ pc' = [pc EXCEPT ![a] = "wake"]
        /\ pc[a] = "out"
    BY <1>2 DEF SemPost
  <2>2. n \in Waiters
    BY <1>2, WaitingIsList
  <2> HIDE DEF n
  <2>3. n \notin InFlight
    BY <2>2, Places DEF InFlight, Blocked, BlockedIsHeld, Waiters
  <2>4. Posting' = Posting \cup {a} /\ a \notin Posting
    BY <2>1 DEF Posting, TypeOK
  <2>5. wakee'[a] = n /\ \A b \in Posting : wakee'[b] = wakee[b]
    BY <2>1, <2>4 DEF TypeOK, Posting
  <2>6. InFlight' = InFlight \cup {n}
    BY <2>1, <2>4, <2>5 DEF InFlight, TypeOK, Actor
  <2>7. Cardinality(InFlight \cup {n}) = Cardinality(InFlight) + 1
    BY <1>1, <2>3, FS_AddElement
  <2>8. Cardinality(InFlight) >= sem_level
    BY <1>2 DEF NoLostWakeup
  <2> QED
    BY <1>1, <2>6, <2>7, <2>8 DEF NoLostWakeup
<1>3. CASE ~ (sem_level + 1 > 0 /\ waiting_threads # <<>>)
  <2>1. waiting_threads' = waiting_threads /\ InFlight' = InFlight
    BY <1>3 DEF SemPost, InFlight, Posting
  <2> QED
    BY <1>1, <1>3, <2>1 DEF NoLostWakeup
<1> QED
  BY <1>2, <1>3

\* A thread in flight stays so when its post lets go of it.
LEMMA WakeUnlock ==
    ASSUME TypeOK, BlockedIsHeld, NoLostWakeup, NEW a \in Actor, SemPostUnlock(a)
    PROVE  NoLostWakeup'
<1> DEFINE n == wakee[a]
<1>1. /\ pc' = [pc EXCEPT ![a] = "out", ![n] = "woken"]
      /\ wakee' = [wakee EXCEPT ![a] = NULL]
      /\ a \in Posting
  BY DEF SemPostUnlock, Posting
<1>2. n \in Wakees /\ n \in Blocked /\ n # a /\ n \in Thread
  BY <1>1, Places DEF Wakees, Blocked, Posting
<1> HIDE DEF n
<1>3. Posting' = Posting \ {a}
  BY <1>1, <1>2 DEF Posting, TypeOK, Blocked
<1>4. \A b \in Posting' : wakee'[b] = wakee[b]
  BY <1>1, <1>3 DEF TypeOK, Posting
<1>5. Wakees = Wakees' \cup {n}
  BY <1>1, <1>3, <1>4 DEF Wakees, n
<1> DEFINE Woken == {t \in Thread : pc[t] = "woken"}
<1>6. Woken' = Woken \cup {n}
  BY <1>1, <1>2 DEF TypeOK, Actor, Posting
<1>7. InFlight = Woken \cup Wakees /\ InFlight' = Woken' \cup Wakees'
  BY DEF InFlight, Wakees
<1> HIDE DEF Woken
<1>8. InFlight' = InFlight
  BY <1>5, <1>6, <1>7
<1> QED
  BY <1>8 DEF SemPostUnlock, NoLostWakeup

\* No conjunct is inductive alone: a lost wake-up is ruled out only because a
\* thread on the list is not also in flight (BlockedIsHeld), and the refusal of
\* sem_pend only because a destroyed semaphore has nobody on its list.
IInv == TypeOK /\ BlockedIsHeld /\ DestroyedIsEmpty /\ NoLostWakeup

\* Only sem_pend on a living semaphore fills the list.
LEMMA DestroyedStep == DestroyedIsEmpty /\ TypeOK /\ [Next]_vars => DestroyedIsEmpty'
BY DEF DestroyedIsEmpty, Next, vars, SemInit, SemPend, SemPendBlock, SemPendFail,
       SemTryPend, SemPost, SemPostUnlock, SemDestroy

\* Each step keeps the levels covered by threads in flight.
LEMMA WakeStep == IInv /\ [Next]_vars => NoLostWakeup'
<1> SUFFICES ASSUME IInv, [Next]_vars PROVE NoLostWakeup'
  OBVIOUS
<1> USE DEF IInv
<1>1. ASSUME NEW level \in InitLevels, SemInit(level) PROVE NoLostWakeup'
  BY <1>1 DEF SemInit, NoLostWakeup
<1>2. ASSUME NEW t \in Thread, SemPendFail(t) PROVE NoLostWakeup'
  BY <1>2 DEF SemPendFail, DestroyedIsEmpty, NoLostWakeup
<1>3. ASSUME NEW t \in Thread, SemTryPend(t) PROVE NoLostWakeup'
  <2>1. Cardinality(InFlight) \in Nat /\ InFlight' = InFlight
    BY <1>3, Places DEF SemTryPend, InFlight, Posting
  <2> QED
    BY <1>3, <2>1 DEF SemTryPend, NoLostWakeup, TypeOK
<1>4. ASSUME NEW t \in Thread, SemDestroy(t) PROVE NoLostWakeup'
  BY <1>4 DEF SemDestroy, NoLostWakeup
<1>5. CASE UNCHANGED vars
  BY <1>5 DEF vars, NoLostWakeup, InFlight, Posting
<1> QED
  BY <1>1, <1>2, <1>3, <1>4, <1>5, WakePend, WakeBlock, WakePost, WakeUnlock DEF Next

\* The strengthened invariant holds before sem_init, ...
LEMMA IInvInit == Init => IInv
<1> SUFFICES ASSUME Init PROVE IInv
  OBVIOUS
<1>1. Waiters = {} /\ Posting = {} /\ Blocked = {} /\ Distinct(waiting_threads)
  BY DEF Init, Waiters, Nodes, Posting, Blocked, Distinct, Actor
<1>2. BlockedIsHeld
  BY <1>1 DEF BlockedIsHeld, Waiters, Blocked
<1> QED
  BY <1>2, TypeInit DEF Init, IInv, DestroyedIsEmpty, NoLostWakeup

\* ... is kept by every step, ...
LEMMA IInvStep == IInv /\ [Next]_vars => IInv'
BY TypeStep, HeldStep, DestroyedStep, WakeStep DEF IInv

\* ... and so holds always.
THEOREM Inductive == Spec => []IInv
<1> QED
  BY IInvInit, IInvStep, PTL DEF Spec

\* Every thread a post or the destruction unlocks is blocked, and every blocked
\* thread can be found by one of them.
THEOREM BlockedAreHeld == Spec => []BlockedIsHeld
<1>1. IInv => BlockedIsHeld
  BY DEF IInv
<1> QED
  BY <1>1, Inductive, PTL

\* While threads wait, every level belongs to a thread on its way to take it.
THEOREM NoWakeupIsLost == Spec => []NoLostWakeup
<1>1. IInv => NoLostWakeup
  BY DEF IInv
<1> QED
  BY <1>1, Inductive, PTL

\* A destroyed semaphore has nobody on its list.
THEOREM DestructionEmpties == Spec => []DestroyedIsEmpty
<1>1. IInv => DestroyedIsEmpty
  BY DEF IInv
<1> QED
  BY <1>1, Inductive, PTL

-----------------------------------------------------------------------------
(* What a caller sees                                                      *)

\* The threads a caller would say are waiting.
Pending == {t \in Thread : pc[t] \in {"blocked", "woken"}}

\* The steps that change neither the level nor who waits: a woken thread that
\* finds the level taken, the unlocking after a post, a destruction on its list.
LEMMA UnlockHidden ==
    ASSUME TypeOK, BlockedIsHeld, NEW a \in Actor, SemPostUnlock(a)
    PROVE  UNCHANGED <<init, sem_level, Pending>>
<1>1. wakee[a] \in Thread /\ pc[wakee[a]] = "blocked" /\ wakee[a] # a
  <2>1. a \in Posting /\ pc[a] = "wake"
    BY DEF SemPostUnlock, Posting
  <2>2. wakee[a] \in Wakees
    BY <2>1 DEF Wakees
  <2>3. wakee[a] \in Thread /\ pc[wakee[a]] = "blocked"
    BY <2>2, Places DEF Blocked
  <2> QED BY <2>1, <2>3
<1>2. \A t \in Thread : pc'[t] = IF t = wakee[a] THEN "woken" ELSE IF t = a THEN "out" ELSE pc[t]
  <2> DEFINE n == wakee[a]
  <2>1. /\ pc \in [Actor -> {"out", "blocked", "woken", "wake"}] /\ Thread \subseteq Actor
        /\ pc' = [pc EXCEPT ![a] = "out", ![n] = "woken"] /\ n \in Thread
    BY <1>1 DEF SemPostUnlock, TypeOK, Actor
  <2> HIDE DEF n
  <2>2. \A t \in Thread : pc'[t] = IF t = n THEN "woken" ELSE IF t = a THEN "out" ELSE pc[t]
    BY <2>1
  <2> QED BY <2>2 DEF n
<1>3. pc[a] = "wake"
  BY DEF SemPostUnlock
<1>4. \A t \in Thread : pc'[t] \in {"blocked", "woken"} <=> pc[t] \in {"blocked", "woken"}
  BY <1>1, <1>2, <1>3
<1>5. Pending' = Pending
  BY <1>4 DEF Pending
<1> QED
  BY <1>5 DEF SemPostUnlock

LEMMA DestroyHidden ==
    ASSUME TypeOK, BlockedIsHeld, NEW t \in Thread, SemDestroy(t)
    PROVE  UNCHANGED <<sem_level, Pending>>
<1>1. \A s \in Waiters : s \in Thread /\ pc[s] = "blocked"
  BY DEF BlockedIsHeld, Waiters
<1>2. \A s \in Thread : pc'[s] = IF s \in Waiters THEN "woken" ELSE pc[s]
  BY DEF SemDestroy, Actor, Waiters
<1> QED
  BY <1>1, <1>2 DEF Pending, SemDestroy

\* Every step of the code is a step of the abstract semaphore or hidden.
LEMMA AbstractStep == IInv /\ [Next]_vars => [Abstract!Next]_<<init, sem_level, Pending>>
<1> SUFFICES ASSUME IInv, [Next]_vars PROVE [Abstract!Next]_<<init, sem_level, Pending>>
  OBVIOUS
<1> USE DEF IInv
<1>a. pc \in [Actor -> {"out", "blocked", "woken", "wake"}] /\ Thread \subseteq Actor
  BY DEF TypeOK, Actor
<1>1. ASSUME NEW level \in InitLevels, SemInit(level) PROVE Abstract!Create
  BY <1>a, <1>1 DEF SemInit, Abstract!Create, Pending
<1>2. ASSUME NEW t \in Thread, SemPend(t) PROVE Abstract!Acquire
  <2>1. Pending' = Pending \ {t}
    BY <1>a, <1>2 DEF SemPend, Pending
  <2> QED BY <1>2, <2>1 DEF SemPend, Abstract!Acquire, Pending
<1>3. ASSUME NEW t \in Thread, SemPendBlock(t)
      PROVE  Abstract!Wait(t) \/ UNCHANGED <<init, sem_level, Pending>>
  <2>1. Pending' = Pending \cup {t}
    BY <1>a, <1>3 DEF SemPendBlock, Pending
  <2>2. CASE t \in Pending
    BY <1>3, <2>1, <2>2 DEF SemPendBlock
  <2>3. CASE t \notin Pending
    BY <1>3, <2>1, <2>3 DEF SemPendBlock, Abstract!Wait, Pending
  <2> QED BY <2>2, <2>3
<1>4. ASSUME NEW t \in Thread, SemPendFail(t) PROVE Abstract!Refuse(t)
  <2>1. t \in Pending /\ Pending' = Pending \ {t}
    BY <1>a, <1>4 DEF SemPendFail, Pending
  <2> QED BY <1>4, <2>1 DEF SemPendFail, Abstract!Refuse, Pending
<1>5. ASSUME NEW t \in Thread, SemTryPend(t) PROVE Abstract!Acquire
  <2>1. Pending' = Pending \ {t}
    BY <1>a, <1>5 DEF SemTryPend, Pending
  <2> QED BY <1>5, <2>1 DEF SemTryPend, Abstract!Acquire, Pending
<1>6. ASSUME NEW t \in Thread, SemDestroy(t) PROVE Abstract!Destroy
  BY <1>6, DestroyHidden DEF SemDestroy, Abstract!Destroy, Pending
<1>7. ASSUME NEW a \in Actor, SemPost(a) PROVE Abstract!Release
  <2>1. Pending' = Pending
    BY <1>a, <1>7 DEF SemPost, Pending
  <2> QED BY <1>7, <2>1 DEF SemPost, Abstract!Release, Pending
<1>8. ASSUME NEW a \in Actor, SemPostUnlock(a) PROVE UNCHANGED <<init, sem_level, Pending>>
  BY <1>8, UnlockHidden
<1>9. CASE UNCHANGED vars
  BY <1>9 DEF vars, Pending
<1> QED
  BY <1>1, <1>2, <1>3, <1>4, <1>5, <1>6, <1>7, <1>8, <1>9 DEF Next, Abstract!Next

\* Whatever threads and handlers do, callers see a counting semaphore (that it
\* also answers in the end is the run's).
THEOREM CallersSeeLevels == Spec => Abstract!Safety
<1>1. Init => Abstract!Init
  BY DEF Init, Abstract!Init, Actor
<1>2. IInv /\ [Next]_vars => [Abstract!Next]_(Abstract!vars)
  BY AbstractStep DEF Abstract!vars, Pending
<1> QED
  BY <1>1, <1>2, Inductive, PTL DEF Spec, Abstract!Safety
=============================================================================
