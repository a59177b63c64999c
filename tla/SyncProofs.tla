------------------------------ MODULE SyncProofs ------------------------------
(***************************************************************************)
(* sync/mutex.c, comm/mailbox.c and comm/queue.c lose no wake-up, mailbox  *)
(* and queue are first-in first-out channels, and one thread at a time has *)
(* the mutex: for any number of threads, any elements and any depths.      *)
(***************************************************************************)
EXTENDS MCSync, ListOpsProofs, FiniteSetTheorems

Points == {"out", "wake", "pend_blocked", "pend_woken", "post_blocked", "post_woken"}
BlockedPoints == {"pend_blocked", "post_blocked"}

\* A thread that is neither blocked nor in the middle of an unlock_thread.
Free(t) == pc[t] \in {"out", "pend_woken", "post_woken"}

\* The threads some call has taken off a list and is about to unlock.
WakeesAt(point) == {t \in Wakees : pc[t] = point}

\* Each blocking point with the point its threads are woken to, and the other.
IsPair(blocked, woken) == <<blocked, woken>> \in {<<"pend_blocked", "pend_woken">>,
                                                  <<"post_blocked", "post_woken">>}

CallersOK ==
    /\ pc \in [Thread -> Points]
    /\ wakee \in [Thread -> Thread \cup {NULL}]
    /\ WakeesBlocked

\* What an empty list, and the operations of the calls, do to the nodes.
LEMMA WaitingListFacts ==
    ASSUME NEW list \in WaitingLists
    PROVE  /\ list \in ListOf(Thread) /\ Nodes(list) \subseteq Thread
           /\ \A t \in Thread : /\ EnlistData(list, t, 0) \in WaitingLists
                                /\ Nodes(EnlistData(list, t, 0)) = Nodes(list) \cup {t}
                                /\ Distinct(list) /\ t \notin Nodes(list) =>
                                       Distinct(EnlistData(list, t, 0))
           /\ Rest(list) \in WaitingLists
           /\ list = <<>> => Rest(list) = <<>>
           /\ list # <<>> => /\ DelistedNode(list) \in Nodes(list)
                             /\ Nodes(list) = Nodes(Rest(list)) \cup {DelistedNode(list)}
                             /\ Distinct(list) => /\ DelistedNode(list) \notin Nodes(Rest(list))
                                                  /\ Distinct(Rest(list))
<1>1. list \in Seq([node : Thread, priority : {0}])
  BY DEF WaitingLists
<1>2. list \in ListOf(Thread)
  <2> DEFINE R0 == [node : Thread, priority : {0}]
             R == [node : Thread, priority : Nat]
  <2>1. R0 \subseteq R
    OBVIOUS
  <2>2. list \in Seq(R0)
    BY <1>1
  <2> HIDE DEF R0, R
  <2>3. list \in Seq(R)
    BY <2>1, <2>2, SeqMonotonic
  <2> QED BY <2>3 DEF ListOf, R
<1>3. Nodes(list) \subseteq Thread
  BY <1>2, ListEntries DEF Nodes
<1>4. {0} \subseteq Nat /\ 0 \in {0} /\ 0 \in Nat
  OBVIOUS
<1>5. \A t \in Thread : EnlistData(list, t, 0) \in WaitingLists
  BY <1>1, <1>4, EnlistedIn DEF WaitingLists
<1>6. \A t \in Thread : Nodes(EnlistData(list, t, 0)) = Nodes(list) \cup {t}
  BY <1>2, <1>4, EnlistedNodes
<1>7. \A t \in Thread : Distinct(list) /\ t \notin Nodes(list) => Distinct(EnlistData(list, t, 0))
  BY <1>2, <1>4, EnlistedDistinct
<1>8. DelistData(list) \in WaitingLists
  BY <1>1, DelistedIn DEF WaitingLists
<1>9. CASE list = <<>>
  BY <1>2, <1>3, <1>5, <1>6, <1>7, <1>9 DEF Rest
<1>10. CASE list # <<>>
  <2>1. Rest(list) = DelistData(list)
    BY <1>10 DEF Rest
  <2> QED BY <1>2, <1>3, <1>5, <1>6, <1>7, <1>8, <1>10, <2>1, DelistedNodes
<1> QED BY <1>9, <1>10

-----------------------------------------------------------------------------
(* What the five ways a stretch ends do to the callers                     *)

\* lock_thread: one more thread at its point, one fewer on its way.
LEMMA BlockMoves ==
    ASSUME CallersOK, NEW t \in Thread, Free(t), NEW point \in BlockedPoints, BlockAt(t, point)
    PROVE  /\ CallersOK' /\ t \notin Wakees /\ Wakees' = Wakees /\ t \notin At(BlockedPoints)
           /\ \A p \in BlockedPoints :
                 /\ WakeesAt(p)' = WakeesAt(p)
                 /\ At({p})' = IF p = point THEN At({p}) \cup {t} ELSE At({p})
           /\ \A b, w : IsPair(b, w) => InFlight(b, w)' = InFlight(b, w) \ {t}
<1>1. pc' = [pc EXCEPT ![t] = point] /\ wakee' = wakee
  BY DEF BlockAt
<1>2. Posting' = Posting /\ Wakees' = Wakees
  BY <1>1 DEF Posting, Wakees, At, CallersOK, Free, BlockedPoints
<1>3. t \notin At(BlockedPoints) /\ t \notin Wakees
  BY DEF At, Free, CallersOK, WakeesBlocked, BlockedPoints
<1>4. \A p \in BlockedPoints : At({p})' = IF p = point THEN At({p}) \cup {t} ELSE At({p})
  BY <1>1 DEF At, CallersOK, Free, BlockedPoints
<1>5. \A s \in Wakees : s \in Thread /\ pc'[s] = pc[s]
  BY <1>1, <1>3 DEF CallersOK, WakeesBlocked, At
<1>6. \A p \in BlockedPoints : WakeesAt(p)' = WakeesAt(p)
  BY <1>2, <1>5 DEF WakeesAt
<1>7. CallersOK'
  <2>1. pc' \in [Thread -> Points]
    BY <1>1 DEF CallersOK, Points, BlockedPoints
  <2>2. WakeesBlocked'
    BY <1>1, <1>2, <1>5 DEF CallersOK, WakeesBlocked, At
  <2> QED BY <1>1, <2>1, <2>2 DEF CallersOK
<1>8. \A b, w : IsPair(b, w) => InFlight(b, w)' = InFlight(b, w) \ {t}
  <2> SUFFICES ASSUME NEW b, NEW w, IsPair(b, w) PROVE InFlight(b, w)' = InFlight(b, w) \ {t}
    OBVIOUS
  <2>1. At({w})' = At({w}) \ {t}
    BY <1>1 DEF At, CallersOK, BlockedPoints, IsPair
  <2>2. {s \in Wakees : pc[s] = b}' = {s \in Wakees : pc[s] = b}
    BY <1>2, <1>5
  <2> QED BY <1>3, <2>1, <2>2 DEF InFlight
<1> QED BY <1>2, <1>3, <1>4, <1>6, <1>7, <1>8

\* The call ends without waking anybody.
LEMMA FinishMoves ==
    ASSUME CallersOK, NEW t \in Thread, Free(t), Finish(t)
    PROVE  /\ CallersOK' /\ Wakees' = Wakees
           /\ \A p \in BlockedPoints : WakeesAt(p)' = WakeesAt(p) /\ At({p})' = At({p})
           /\ \A b, w : IsPair(b, w) => InFlight(b, w)' = InFlight(b, w) \ {t}
<1>1. pc' = [pc EXCEPT ![t] = "out"] /\ wakee' = wakee
  BY DEF Finish
<1>2. Posting' = Posting /\ Wakees' = Wakees
  BY <1>1 DEF Posting, Wakees, At, CallersOK, Free
<1>3. t \notin Wakees
  BY DEF At, Free, CallersOK, WakeesBlocked
<1>4. \A p \in BlockedPoints : At({p})' = At({p})
  BY <1>1 DEF At, CallersOK, Free, BlockedPoints
<1>5. \A s \in Wakees : s \in Thread /\ pc'[s] = pc[s]
  BY <1>1, <1>3 DEF CallersOK, WakeesBlocked, At
<1>6. \A p \in BlockedPoints : WakeesAt(p)' = WakeesAt(p)
  BY <1>2, <1>5 DEF WakeesAt
<1>7. CallersOK'
  <2>1. pc' \in [Thread -> Points]
    BY <1>1 DEF CallersOK, Points
  <2>2. WakeesBlocked'
    BY <1>1, <1>2, <1>5 DEF CallersOK, WakeesBlocked, At
  <2> QED BY <1>1, <2>1, <2>2 DEF CallersOK
<1>8. \A b, w : IsPair(b, w) => InFlight(b, w)' = InFlight(b, w) \ {t}
  <2> SUFFICES ASSUME NEW b, NEW w, IsPair(b, w) PROVE InFlight(b, w)' = InFlight(b, w) \ {t}
    OBVIOUS
  <2>1. At({w})' = At({w}) \ {t}
    BY <1>1 DEF At, CallersOK, IsPair
  <2>2. {s \in Wakees : pc[s] = b}' = {s \in Wakees : pc[s] = b}
    BY <1>2, <1>5
  <2> QED BY <1>3, <2>1, <2>2 DEF InFlight
<1> QED BY <1>2, <1>4, <1>6, <1>7, <1>8

\* The call takes a thread in its hands: that one is in flight from now on.
LEMMA WakingMoves ==
    ASSUME CallersOK, NEW t \in Thread, Free(t), NEW list, list # <<>>, FinishWaking(t, list),
           NEW point \in BlockedPoints, DelistedNode(list) \in At({point}) \ Wakees
    PROVE  /\ CallersOK' /\ Wakees' = Wakees \cup {DelistedNode(list)}
           /\ \A p \in BlockedPoints :
                 /\ At({p})' = At({p})
                 /\ WakeesAt(p)' = IF p = point THEN WakeesAt(p) \cup {DelistedNode(list)}
                                   ELSE WakeesAt(p)
           /\ \A b, w : IsPair(b, w) =>
                 InFlight(b, w)' = IF b = point THEN (InFlight(b, w) \ {t}) \cup {DelistedNode(list)}
                                   ELSE InFlight(b, w) \ {t}
<1> DEFINE n == DelistedNode(list)
<1>1. pc' = [pc EXCEPT ![t] = "wake"] /\ wakee' = [wakee EXCEPT ![t] = n]
  BY DEF FinishWaking
<1>2. n \in Thread /\ pc[n] = point /\ n \notin Wakees /\ n # t
  BY DEF At, Free, BlockedPoints
<1> HIDE DEF n
<1>3. Posting' = Posting \cup {t} /\ t \notin Posting
  BY <1>1 DEF Posting, At, CallersOK, Free
<1>4. wakee'[t] = n /\ \A s \in Posting : wakee'[s] = wakee[s]
  BY <1>1, <1>3 DEF CallersOK, Posting, At
<1>5. Wakees' = Wakees \cup {n}
  BY <1>3, <1>4 DEF Wakees
<1>6. t \notin Wakees
  BY DEF At, Free, CallersOK, WakeesBlocked
<1>7. \A p \in BlockedPoints : At({p})' = At({p})
  BY <1>1 DEF At, CallersOK, Free, BlockedPoints
<1>8. \A s \in Wakees \cup {n} : s \in Thread /\ pc'[s] = pc[s]
  BY <1>1, <1>2, <1>6 DEF CallersOK, WakeesBlocked, At
<1>9. \A p \in BlockedPoints : WakeesAt(p)' = IF p = point THEN WakeesAt(p) \cup {n} ELSE WakeesAt(p)
  BY <1>2, <1>5, <1>8 DEF WakeesAt
<1>10. CallersOK'
  <2>1. pc' \in [Thread -> Points] /\ wakee' \in [Thread -> Thread \cup {NULL}]
    BY <1>1, <1>2 DEF CallersOK, Points
  <2>2. \A s, u \in Posting' : wakee'[s] = wakee'[u] => s = u
    <3>1. \A s \in Posting : wakee[s] # n
      BY <1>2 DEF Wakees
    <3> QED BY <1>3, <1>4, <3>1 DEF CallersOK, WakeesBlocked
  <2>3. Wakees' \subseteq At(BlockedPoints)'
    BY <1>2, <1>5, <1>8 DEF CallersOK, WakeesBlocked, At, BlockedPoints
  <2> QED BY <2>1, <2>2, <2>3 DEF CallersOK, WakeesBlocked, BlockedPoints
<1>11. \A b, w : IsPair(b, w) =>
          InFlight(b, w)' = IF b = point THEN (InFlight(b, w) \ {t}) \cup {n} ELSE InFlight(b, w) \ {t}
  <2> SUFFICES ASSUME NEW b, NEW w, IsPair(b, w)
               PROVE  InFlight(b, w)' = IF b = point THEN (InFlight(b, w) \ {t}) \cup {n}
                                        ELSE InFlight(b, w) \ {t}
    OBVIOUS
  <2>1. At({w})' = At({w}) \ {t}
    BY <1>1 DEF At, CallersOK, IsPair
  <2>2. b \in BlockedPoints
    BY DEF IsPair, BlockedPoints
  <2>3. InFlight(b, w) = At({w}) \cup WakeesAt(b) /\ InFlight(b, w)' = At({w})' \cup WakeesAt(b)'
    BY DEF InFlight, WakeesAt
  <2>4. t \notin WakeesAt(b) /\ n \notin At({w})
    BY <1>2, <1>6 DEF WakeesAt, At, IsPair, BlockedPoints
  <2>5. WakeesAt(b)' = IF b = point THEN WakeesAt(b) \cup {n} ELSE WakeesAt(b)
    BY <1>9, <2>2
  <2>6. n # t
    BY <1>2
  <2>7. CASE b = point
    BY <2>1, <2>3, <2>4, <2>5, <2>6, <2>7
  <2>8. CASE b # point
    BY <2>1, <2>3, <2>4, <2>5, <2>8
  <2> QED BY <2>7, <2>8
<1> QED BY <1>5, <1>7, <1>9, <1>10, <1>11 DEF n

\* unlock_thread: the thread goes on in the call it is in.
LEMMA UnlockMoves ==
    ASSUME CallersOK, NEW t \in Thread, Unlock(t)
    PROVE  /\ CallersOK' /\ wakee[t] \in Wakees /\ Wakees' = Wakees \ {wakee[t]}
           /\ \A p \in BlockedPoints : /\ At({p})' = At({p}) \ {wakee[t]}
                                       /\ WakeesAt(p)' = WakeesAt(p) \ {wakee[t]}
           /\ \A b, w : IsPair(b, w) => InFlight(b, w)' = InFlight(b, w)
<1> DEFINE n == wakee[t]
<1>1. /\ pc' = [pc EXCEPT ![t] = "out", ![n] = Woken[pc[n]]]
      /\ wakee' = [wakee EXCEPT ![t] = NULL]
      /\ t \in Posting /\ pc[t] = "wake"
  BY DEF Unlock, Posting, At
<1>2. n \in Wakees /\ n \in Thread /\ pc[n] \in BlockedPoints /\ n # t
  BY <1>1 DEF Wakees, CallersOK, WakeesBlocked, At, BlockedPoints
<1> HIDE DEF n
<1>3. /\ pc[n] = "pend_blocked" => Woken[pc[n]] = "pend_woken"
      /\ pc[n] = "post_blocked" => Woken[pc[n]] = "post_woken"
  BY DEF Woken
<1>4. Posting' = Posting \ {t}
  BY <1>1, <1>2, <1>3 DEF Posting, At, CallersOK, BlockedPoints
<1>5. \A s \in Posting' : wakee'[s] = wakee[s]
  BY <1>1, <1>4 DEF CallersOK, Posting, At
<1>6. Wakees' = Wakees \ {n}
  BY <1>1, <1>4, <1>5 DEF CallersOK, WakeesBlocked, Wakees, n
<1>7. \A p \in BlockedPoints : At({p})' = At({p}) \ {n}
  BY <1>1, <1>2, <1>3 DEF At, CallersOK, BlockedPoints
<1>8. \A s \in Wakees' : s \in Thread /\ pc'[s] = pc[s]
  BY <1>1, <1>2, <1>6 DEF CallersOK, WakeesBlocked, At
<1>9. \A p \in BlockedPoints : WakeesAt(p)' = WakeesAt(p) \ {n}
  BY <1>6, <1>8 DEF WakeesAt
<1>10. CallersOK'
  <2>1. pc' \in [Thread -> Points] /\ wakee' \in [Thread -> Thread \cup {NULL}]
    BY <1>1, <1>2, <1>3 DEF CallersOK, Points, BlockedPoints
  <2>2. \A s, u \in Posting' : wakee'[s] = wakee'[u] => s = u
    BY <1>4, <1>5 DEF CallersOK, WakeesBlocked
  <2>3. Wakees' \subseteq At(BlockedPoints)'
    BY <1>6, <1>8 DEF CallersOK, WakeesBlocked, At, BlockedPoints
  <2> QED BY <2>1, <2>2, <2>3 DEF CallersOK, WakeesBlocked, BlockedPoints
<1>11. \A b, w : IsPair(b, w) => InFlight(b, w)' = InFlight(b, w)
  <2> SUFFICES ASSUME NEW b, NEW w, IsPair(b, w) PROVE InFlight(b, w)' = InFlight(b, w)
    OBVIOUS
  <2>1. At({w})' = IF pc[n] = b THEN At({w}) \cup {n} ELSE At({w})
    BY <1>1, <1>2, <1>3 DEF At, CallersOK, IsPair, BlockedPoints
  <2>2. WakeesAt(b)' = WakeesAt(b) \ {n} /\ (n \in WakeesAt(b) <=> pc[n] = b)
    BY <1>2, <1>9 DEF IsPair, BlockedPoints, WakeesAt
  <2>3. InFlight(b, w) = At({w}) \cup WakeesAt(b) /\ InFlight(b, w)' = At({w})' \cup WakeesAt(b)'
    BY DEF InFlight, WakeesAt
  <2> QED BY <2>1, <2>2, <2>3
<1> QED BY <1>2, <1>6, <1>7, <1>9, <1>10, <1>11 DEF n

\* A destruction unlocks the threads of its lists; those in the hands of a
\* call stay there.
LEMMA UnlockAllMoves ==
    ASSUME CallersOK, NEW S, S \subseteq At(BlockedPoints) \ Wakees, UnlockAll(S)
    PROVE  /\ CallersOK' /\ Wakees' = Wakees
           /\ \A p \in BlockedPoints : At({p})' = At({p}) \ S /\ WakeesAt(p)' = WakeesAt(p)
<1>1. pc' = [s \in Thread |-> IF s \in S THEN Woken[pc[s]] ELSE pc[s]] /\ wakee' = wakee
  BY DEF UnlockAll
<1>2. \A s \in S : /\ s \in Thread /\ pc[s] \in BlockedPoints
                   /\ Woken[pc[s]] \in {"pend_woken", "post_woken"}
  BY DEF At, BlockedPoints, Woken
<1>3. Posting' = Posting
  BY <1>1, <1>2 DEF Posting, At, BlockedPoints
<1>4. Wakees' = Wakees
  BY <1>1, <1>3 DEF Wakees
<1>5. \A p \in BlockedPoints : At({p})' = At({p}) \ S
  BY <1>1, <1>2 DEF At, BlockedPoints
<1>6. \A s \in Wakees : s \in Thread /\ pc'[s] = pc[s]
  BY <1>1 DEF CallersOK, WakeesBlocked, At
<1>7. \A p \in BlockedPoints : WakeesAt(p)' = WakeesAt(p)
  BY <1>4, <1>6 DEF WakeesAt
<1>8. CallersOK'
  <2>1. pc' \in [Thread -> Points]
    BY <1>1, <1>2 DEF CallersOK, Points
  <2>2. WakeesBlocked'
    BY <1>1, <1>3, <1>4, <1>6 DEF CallersOK, WakeesBlocked, At
  <2> QED BY <1>1, <2>1, <2>2 DEF CallersOK
<1> QED BY <1>4, <1>5, <1>7, <1>8

-----------------------------------------------------------------------------
(* What they do to a list and those who wait on it                         *)

\* HeldBy, in terms of the sets the lemmas above speak of.
LEMMA HeldByParts ==
    ASSUME NEW list, NEW p
    PROVE  HeldBy(list, p) <=> /\ Distinct(list)
                               /\ Nodes(list) \cap Wakees = {}
                               /\ At({p}) = Nodes(list) \cup WakeesAt(p)
BY DEF HeldBy, WakeesAt

\* An empty list holds nobody, and nobody blocked is on it.
LEMMA EmptyHolds == Distinct(<<>>) /\ Nodes(<<>>) = {} /\ <<>> \in WaitingLists
BY EmptySeq DEF Distinct, Nodes, WaitingLists

\* HeldBy after a step, of a list that may be the new value of a variable.
HoldsNext(new, p) ==
    /\ Distinct(new)
    /\ Nodes(new) \cap Wakees' = {}
    /\ At({p})' = Nodes(new) \cup WakeesAt(p)'

\* Nothing that matters to the list happens.
LEMMA StillHeld ==
    ASSUME NEW list, NEW p, HeldBy(list, p), Wakees' = Wakees,
           WakeesAt(p)' = WakeesAt(p), At({p})' = At({p})
    PROVE  HoldsNext(list, p)
BY HeldByParts DEF HoldsNext

\* The node a call is about to take off a list it holds.
LEMMA TailIsWaiting ==
    ASSUME CallersOK, NEW list \in WaitingLists, NEW p, HeldBy(list, p), list # <<>>
    PROVE  DelistedNode(list) \in At({p}) \ Wakees
BY WaitingListFacts, HeldByParts

\* Those in flight are some of finitely many.
LEMMA InFlightCounts ==
    ASSUME CallersOK, NEW b, NEW w
    PROVE  /\ InFlight(b, w) \subseteq Thread
           /\ IsFiniteSet(InFlight(b, w)) /\ Cardinality(InFlight(b, w)) \in Nat
<1>1. InFlight(b, w) \subseteq Thread
  BY DEF InFlight, At, CallersOK, WakeesBlocked
<1> QED BY <1>1, BlockingAssumption, FS_Subset, FS_CardinalityType

\* A call ends and wakes the tail of a list: one thread goes from the list to
\* those in flight, the caller is in flight no more.
LEMMA TakeStep ==
    ASSUME CallersOK, NEW t \in Thread, Free(t),
           NEW b, NEW w, IsPair(b, w), NEW b2, NEW w2, IsPair(b2, w2), b # b2, pc[t] # w2,
           NEW own \in WaitingLists, HeldBy(own, b),
           NEW other \in WaitingLists, HeldBy(other, b2),
           FinishWaking(t, other),
           NEW elements \in Int, own # <<>> => Cardinality(InFlight(b, w)) >= elements,
           NEW room \in Int, other # <<>> => Cardinality(InFlight(b2, w2)) >= room
    PROVE  /\ CallersOK' /\ HoldsNext(own, b) /\ HoldsNext(Rest(other), b2)
           /\ Rest(other) \in WaitingLists
           /\ own # <<>> => Cardinality(InFlight(b, w)') >= elements - 1
           /\ Rest(other) # <<>> => Cardinality(InFlight(b2, w2)') >= room + 1
<1>0. b \in BlockedPoints /\ b2 \in BlockedPoints
  BY DEF IsPair, BlockedPoints
<1>1. /\ IsFiniteSet(InFlight(b, w)) /\ Cardinality(InFlight(b, w)) \in Nat
      /\ IsFiniteSet(InFlight(b2, w2)) /\ Cardinality(InFlight(b2, w2)) \in Nat
  BY InFlightCounts
<1>2. own # <<>> => Cardinality(InFlight(b, w) \ {t}) >= elements - 1
  <2>1. Cardinality(InFlight(b, w) \ {t}) = IF t \in InFlight(b, w) THEN Cardinality(InFlight(b, w)) - 1
                                            ELSE Cardinality(InFlight(b, w))
    BY <1>1, FS_RemoveElement
  <2> QED BY <1>1, <2>1
<1>3. t \notin InFlight(b2, w2)
  BY DEF InFlight, At, Free, CallersOK, WakeesBlocked
<1>4. CASE other = <<>>
  <2>1. Finish(t)
    BY <1>4 DEF FinishWaking, Finish
  <2>2. /\ CallersOK' /\ Wakees' = Wakees
        /\ \A p \in BlockedPoints : WakeesAt(p)' = WakeesAt(p) /\ At({p})' = At({p})
        /\ InFlight(b, w)' = InFlight(b, w) \ {t}
    BY <2>1, FinishMoves
  <2>3. Rest(other) = <<>>
    BY <1>4 DEF Rest
  <2>4. HoldsNext(own, b) /\ HoldsNext(other, b2)
    BY <1>0, <2>2, StillHeld
  <2>5. own # <<>> => Cardinality(InFlight(b, w)') >= elements - 1
    <3>1. InFlight(b, w)' = InFlight(b, w) \ {t}
      BY <2>2
    <3> QED BY <1>2, <3>1
  <2> QED BY <1>4, <2>2, <2>3, <2>4, <2>5
<1>5. CASE other # <<>>
  <2> DEFINE n == DelistedNode(other)
  <2>1. n \in At({b2}) \ Wakees
    BY <1>5, TailIsWaiting
  <2>2. /\ CallersOK' /\ Wakees' = Wakees \cup {n}
        /\ \A p \in BlockedPoints :
              /\ At({p})' = At({p})
              /\ WakeesAt(p)' = IF p = b2 THEN WakeesAt(p) \cup {n} ELSE WakeesAt(p)
        /\ InFlight(b, w)' = InFlight(b, w) \ {t}
        /\ InFlight(b2, w2)' = (InFlight(b2, w2) \ {t}) \cup {n}
    <3>1. /\ CallersOK' /\ Wakees' = Wakees \cup {n}
          /\ \A p \in BlockedPoints :
                /\ At({p})' = At({p})
                /\ WakeesAt(p)' = IF p = b2 THEN WakeesAt(p) \cup {n} ELSE WakeesAt(p)
      BY <1>0, <1>5, <2>1, WakingMoves
    <3>2. \A p, q : IsPair(p, q) =>
             InFlight(p, q)' = IF p = b2 THEN (InFlight(p, q) \ {t}) \cup {n}
                               ELSE InFlight(p, q) \ {t}
      BY <1>0, <1>5, <2>1, WakingMoves
    <3> HIDE DEF n
    <3>3. InFlight(b, w)' = InFlight(b, w) \ {t}
      BY <3>2
    <3>4. InFlight(b2, w2)' = (InFlight(b2, w2) \ {t}) \cup {n}
      BY <3>2
    <3> QED BY <3>1, <3>3, <3>4
  <2>3. /\ Rest(other) \in WaitingLists /\ n \in Nodes(other)
        /\ Nodes(other) = Nodes(Rest(other)) \cup {n}
        /\ n \notin Nodes(Rest(other)) /\ Distinct(Rest(other))
    BY <1>5, WaitingListFacts DEF HeldBy
  <2> HIDE DEF n
  <2>4. n \notin Nodes(own)
    BY <1>0, <2>1, HeldByParts DEF At, WakeesAt
  <2>5. HoldsNext(own, b)
    BY <1>0, <2>2, <2>4, HeldByParts DEF HoldsNext
  <2>6. HoldsNext(Rest(other), b2)
    BY <1>0, <2>2, <2>3, HeldByParts DEF HoldsNext
  <2>7. n \notin InFlight(b2, w2)
    BY <2>1 DEF InFlight, At, IsPair
  <2>8. InFlight(b2, w2)' = InFlight(b2, w2) \cup {n}
    BY <1>3, <2>2
  <2>9. Cardinality(InFlight(b2, w2) \cup {n}) = Cardinality(InFlight(b2, w2)) + 1
    BY <1>1, <2>7, FS_AddElement
  <2>10. Cardinality(InFlight(b2, w2)') >= room + 1
    BY <1>1, <1>5, <2>8, <2>9
  <2>11. own # <<>> => Cardinality(InFlight(b, w)') >= elements - 1
    <3>1. InFlight(b, w)' = InFlight(b, w) \ {t}
      BY <2>2
    <3> QED BY <1>2, <3>1
  <2> QED BY <2>2, <2>3, <2>5, <2>6, <2>10, <2>11
<1> QED BY <1>4, <1>5

\* A thread goes to wait: it is on its list, and in flight no more.
LEMMA WaitStep ==
    ASSUME CallersOK, NEW t \in Thread, Free(t),
           NEW b, NEW w, IsPair(b, w), NEW b2, NEW w2, IsPair(b2, w2), b # b2, pc[t] # w2,
           NEW own \in WaitingLists, HeldBy(own, b),
           NEW other \in WaitingLists, HeldBy(other, b2),
           BlockAt(t, b)
    PROVE  /\ CallersOK' /\ HoldsNext(EnlistData(own, t, 0), b) /\ HoldsNext(other, b2)
           /\ EnlistData(own, t, 0) \in WaitingLists
           /\ Cardinality(InFlight(b, w)') >= 0
           /\ InFlight(b2, w2)' = InFlight(b2, w2)
<1>0. b \in BlockedPoints /\ b2 \in BlockedPoints
  BY DEF IsPair, BlockedPoints
<1>1. /\ CallersOK' /\ t \notin Wakees /\ Wakees' = Wakees /\ t \notin At(BlockedPoints)
      /\ \A p \in BlockedPoints :
            /\ WakeesAt(p)' = WakeesAt(p)
            /\ At({p})' = IF p = b THEN At({p}) \cup {t} ELSE At({p})
      /\ InFlight(b, w)' = InFlight(b, w) \ {t}
      /\ InFlight(b2, w2)' = InFlight(b2, w2) \ {t}
  BY <1>0, BlockMoves
<1>2. t \notin Nodes(own)
  BY <1>0, <1>1, HeldByParts DEF At
<1>3. /\ EnlistData(own, t, 0) \in WaitingLists
      /\ Nodes(EnlistData(own, t, 0)) = Nodes(own) \cup {t}
      /\ Distinct(EnlistData(own, t, 0))
  BY <1>2, WaitingListFacts DEF HeldBy
<1>4. HoldsNext(EnlistData(own, t, 0), b)
  <2>1. /\ Nodes(own) \cap Wakees = {}
        /\ At({b}) = Nodes(own) \cup WakeesAt(b)
    BY HeldByParts
  <2>2. Nodes(EnlistData(own, t, 0)) \cap Wakees' = {}
    BY <1>1, <1>3, <2>1
  <2>3. At({b})' = At({b}) \cup {t} /\ WakeesAt(b)' = WakeesAt(b)
    BY <1>0, <1>1
  <2>4. At({b})' = Nodes(EnlistData(own, t, 0)) \cup WakeesAt(b)'
    BY <1>3, <2>1, <2>3
  <2> QED BY <1>3, <2>2, <2>4 DEF HoldsNext
<1>5. HoldsNext(other, b2)
  BY <1>0, <1>1, StillHeld
<1>6. t \notin InFlight(b2, w2)
  BY <1>1 DEF InFlight, At, Free
<1>7. Cardinality(InFlight(b, w)') \in Nat
  <2>1. IsFiniteSet(InFlight(b, w))
    BY InFlightCounts
  <2>2. IsFiniteSet(InFlight(b, w) \ {t})
    BY <2>1, FS_RemoveElement
  <2>3. Cardinality(InFlight(b, w) \ {t}) \in Nat
    BY <2>2, FS_CardinalityType
  <2> QED BY <1>1, <2>3
<1> QED BY <1>1, <1>3, <1>4, <1>5, <1>6, <1>7

-----------------------------------------------------------------------------
(* Two lists, with what there is for the threads on each                   *)

\* A list of threads that pend and one of threads that post.
PairNow(reading, writing, elements, room) ==
    /\ reading \in WaitingLists /\ HeldBy(reading, "pend_blocked")
    /\ writing \in WaitingLists /\ HeldBy(writing, "post_blocked")
    /\ init = 0 => reading = <<>> /\ writing = <<>>
    /\ init = 1 /\ reading # <<>> => Cardinality(InFlight("pend_blocked", "pend_woken")) >= elements
    /\ init = 1 /\ writing # <<>> => Cardinality(InFlight("post_blocked", "post_woken")) >= room

\* The same after a step, with the new lists.
PairNext(reading, writing, elements, room) ==
    /\ reading \in WaitingLists /\ HoldsNext(reading, "pend_blocked")
    /\ writing \in WaitingLists /\ HoldsNext(writing, "post_blocked")
    /\ init' = 0 => reading = <<>> /\ writing = <<>>
    /\ init' = 1 /\ reading # <<>> => Cardinality(InFlight("pend_blocked", "pend_woken")') >= elements
    /\ init' = 1 /\ writing # <<>> => Cardinality(InFlight("post_blocked", "post_woken")') >= room

LEMMA Pairs == /\ IsPair("pend_blocked", "pend_woken")
               /\ IsPair("post_blocked", "post_woken")
               /\ BlockedPoints = {"pend_blocked", "post_blocked"}
BY DEF IsPair, BlockedPoints

\* Less is asked for, or nothing.
LEMMA Weaker ==
    ASSUME CallersOK', NEW reading, NEW writing, NEW elements \in Int, NEW room \in Int,
           PairNext(reading, writing, elements, room),
           NEW fewer \in Int, fewer <= elements \/ fewer <= 0,
           NEW less \in Int, less <= room \/ less <= 0
    PROVE  PairNext(reading, writing, fewer, less)
<1>1. \A b, w : InFlight(b, w)' \subseteq Thread
  BY DEF InFlight, At, CallersOK, WakeesBlocked
<1>2. \A b, w : Cardinality(InFlight(b, w)') \in Nat
  BY <1>1, BlockingAssumption, FS_Subset, FS_CardinalityType
<1>3. /\ Cardinality(InFlight("pend_blocked", "pend_woken")') \in Nat
      /\ Cardinality(InFlight("post_blocked", "post_woken")') \in Nat
  BY <1>2
<1> QED BY <1>3 DEF PairNext

\* A pend takes an element and wakes a thread that posts.
LEMMA PendTakes ==
    ASSUME CallersOK, NEW reading, NEW writing, NEW elements \in Int, NEW room \in Int,
           PairNow(reading, writing, elements, room),
           NEW t \in Thread, Free(t), pc[t] # "post_woken",
           init = 1, init' = init, FinishWaking(t, writing)
    PROVE  CallersOK' /\ PairNext(reading, Rest(writing), elements - 1, room + 1)
<1>1. /\ HeldBy(reading, "pend_blocked") /\ HeldBy(writing, "post_blocked")
      /\ reading \in WaitingLists /\ writing \in WaitingLists
      /\ reading # <<>> => Cardinality(InFlight("pend_blocked", "pend_woken")) >= elements
      /\ writing # <<>> => Cardinality(InFlight("post_blocked", "post_woken")) >= room
  BY DEF PairNow
<1>2. /\ CallersOK'
      /\ HoldsNext(reading, "pend_blocked") /\ HoldsNext(Rest(writing), "post_blocked")
      /\ Rest(writing) \in WaitingLists
      /\ reading # <<>> =>
            Cardinality(InFlight("pend_blocked", "pend_woken")') >= elements - 1
      /\ Rest(writing) # <<>> =>
            Cardinality(InFlight("post_blocked", "post_woken")') >= room + 1
  BY <1>1, Pairs, TakeStep
<1> QED BY <1>1, <1>2 DEF PairNext

\* A post fills a place and wakes a thread that pends.
LEMMA PostTakes ==
    ASSUME CallersOK, NEW reading, NEW writing, NEW elements \in Int, NEW room \in Int,
           PairNow(reading, writing, elements, room),
           NEW t \in Thread, Free(t), pc[t] # "pend_woken",
           init = 1, init' = init, FinishWaking(t, reading)
    PROVE  CallersOK' /\ PairNext(Rest(reading), writing, elements + 1, room - 1)
<1>1. /\ HeldBy(reading, "pend_blocked") /\ HeldBy(writing, "post_blocked")
      /\ reading \in WaitingLists /\ writing \in WaitingLists
      /\ reading # <<>> => Cardinality(InFlight("pend_blocked", "pend_woken")) >= elements
      /\ writing # <<>> => Cardinality(InFlight("post_blocked", "post_woken")) >= room
  BY DEF PairNow
<1>2. /\ CallersOK'
      /\ HoldsNext(Rest(reading), "pend_blocked") /\ HoldsNext(writing, "post_blocked")
      /\ Rest(reading) \in WaitingLists
      /\ Rest(reading) # <<>> =>
            Cardinality(InFlight("pend_blocked", "pend_woken")') >= elements + 1
      /\ writing # <<>> =>
            Cardinality(InFlight("post_blocked", "post_woken")') >= room - 1
  BY <1>1, Pairs, TakeStep
<1> QED BY <1>1, <1>2 DEF PairNext

\* A pend finds nothing and waits.
LEMMA PendWaits ==
    ASSUME CallersOK, NEW reading, NEW writing, NEW elements \in Int, NEW room \in Int,
           PairNow(reading, writing, elements, room),
           NEW t \in Thread, Free(t), pc[t] # "post_woken",
           init = 1, init' = init, BlockAt(t, "pend_blocked")
    PROVE  CallersOK' /\ PairNext(EnlistData(reading, t, 0), writing, 0, room)
BY Pairs, WaitStep DEF PairNow, PairNext

\* A post finds no room and waits.
LEMMA PostWaits ==
    ASSUME CallersOK, NEW reading, NEW writing, NEW elements \in Int, NEW room \in Int,
           PairNow(reading, writing, elements, room),
           NEW t \in Thread, Free(t), pc[t] # "pend_woken",
           init = 1, init' = init, BlockAt(t, "post_blocked")
    PROVE  CallersOK' /\ PairNext(reading, EnlistData(writing, t, 0), elements, 0)
BY Pairs, WaitStep DEF PairNow, PairNext

\* A woken thread finds the object gone.
LEMMA Leaves ==
    ASSUME CallersOK, NEW reading, NEW writing, NEW elements, NEW room,
           PairNow(reading, writing, elements, room),
           NEW t \in Thread, Free(t), init = 0, init' = init, Finish(t)
    PROVE  CallersOK' /\ PairNext(reading, writing, elements, room)
<1>1. /\ CallersOK' /\ Wakees' = Wakees
      /\ \A p \in BlockedPoints : WakeesAt(p)' = WakeesAt(p) /\ At({p})' = At({p})
  BY FinishMoves
<1>2. HoldsNext(reading, "pend_blocked") /\ HoldsNext(writing, "post_blocked")
  BY <1>1, Pairs, StillHeld DEF PairNow
<1> QED BY <1>1, <1>2 DEF PairNow, PairNext

\* A call unlocks the thread it took off a list.
LEMMA Unlocks ==
    ASSUME CallersOK, NEW reading, NEW writing, NEW elements, NEW room,
           PairNow(reading, writing, elements, room),
           NEW t \in Thread, Unlock(t), init' = init
    PROVE  CallersOK' /\ PairNext(reading, writing, elements, room)
<1> DEFINE n == wakee[t]
<1>1. /\ CallersOK' /\ n \in Wakees /\ Wakees' = Wakees \ {n}
      /\ \A p \in BlockedPoints : At({p})' = At({p}) \ {n} /\ WakeesAt(p)' = WakeesAt(p) \ {n}
  BY UnlockMoves
<1>2. \A b, w : IsPair(b, w) => InFlight(b, w)' = InFlight(b, w)
  BY UnlockMoves
<1> HIDE DEF n
<1>3. \A list : \A p \in BlockedPoints : HeldBy(list, p) => HoldsNext(list, p)
  BY <1>1, HeldByParts DEF HoldsNext
<1>4. HoldsNext(reading, "pend_blocked") /\ HoldsNext(writing, "post_blocked")
  BY <1>3, Pairs DEF PairNow
<1>5. /\ InFlight("pend_blocked", "pend_woken")' = InFlight("pend_blocked", "pend_woken")
      /\ InFlight("post_blocked", "post_woken")' = InFlight("post_blocked", "post_woken")
  BY <1>2, Pairs
<1> QED BY <1>1, <1>4, <1>5 DEF PairNow, PairNext

\* A destruction sends everybody away.
LEMMA Destroys ==
    ASSUME CallersOK, NEW reading, NEW writing, NEW elements, NEW room,
           PairNow(reading, writing, elements, room),
           init' = 0, UnlockAll(Nodes(reading) \cup Nodes(writing)), NEW any, NEW other
    PROVE  CallersOK' /\ PairNext(<<>>, <<>>, any, other)
<1> DEFINE S == Nodes(reading) \cup Nodes(writing)
<1>1. S \subseteq At(BlockedPoints) \ Wakees
  BY HeldByParts DEF PairNow, At, BlockedPoints
<1>2. /\ CallersOK' /\ Wakees' = Wakees
      /\ \A p \in BlockedPoints : At({p})' = At({p}) \ S /\ WakeesAt(p)' = WakeesAt(p)
  BY <1>1, UnlockAllMoves
<1>3. /\ At({"pend_blocked"}) = Nodes(reading) \cup WakeesAt("pend_blocked")
      /\ At({"post_blocked"}) = Nodes(writing) \cup WakeesAt("post_blocked")
      /\ Nodes(reading) \cap Wakees = {} /\ Nodes(writing) \cap Wakees = {}
  BY HeldByParts DEF PairNow
<1>4. WakeesAt("pend_blocked") \subseteq Wakees /\ WakeesAt("post_blocked") \subseteq Wakees
  BY DEF WakeesAt
<1>5. /\ At({"pend_blocked"})' = WakeesAt("pend_blocked")'
      /\ At({"post_blocked"})' = WakeesAt("post_blocked")'
  BY <1>1, <1>2, <1>3, <1>4, Pairs
<1>6. HoldsNext(<<>>, "pend_blocked") /\ HoldsNext(<<>>, "post_blocked")
  BY <1>5, EmptyHolds DEF HoldsNext
<1> QED BY <1>2, <1>6, EmptyHolds DEF PairNext

\* Nobody moves; the object may be made.
LEMMA Stays ==
    ASSUME CallersOK, NEW reading, NEW writing, NEW elements, NEW room,
           PairNow(reading, writing, elements, room),
           callers' = callers, NEW any, NEW other,
           init = 0 \/ (init' = init /\ any = elements /\ other = room)
    PROVE  CallersOK' /\ PairNext(reading, writing, any, other)
<1>1. pc' = pc /\ wakee' = wakee
  BY DEF callers
<1>2. CallersOK' /\ Wakees' = Wakees
  BY <1>1 DEF CallersOK, WakeesBlocked, Wakees, Posting, At
<1>3. \A p : At({p})' = At({p}) /\ WakeesAt(p)' = WakeesAt(p)
  BY <1>1, <1>2 DEF At, WakeesAt
<1>4. \A b, w : InFlight(b, w)' = InFlight(b, w)
  BY <1>1, <1>2 DEF InFlight, At
<1>5. HoldsNext(reading, "pend_blocked") /\ HoldsNext(writing, "post_blocked")
  BY <1>2, <1>3, StillHeld DEF PairNow
<1>6. /\ InFlight("pend_blocked", "pend_woken")' = InFlight("pend_blocked", "pend_woken")
      /\ InFlight("post_blocked", "post_woken")' = InFlight("post_blocked", "post_woken")
  BY <1>4
<1>7. CASE init = 0
  BY <1>2, <1>5, <1>7 DEF PairNow, PairNext
<1>8. CASE init' = init /\ any = elements /\ other = room
  BY <1>2, <1>5, <1>6, <1>8 DEF PairNow, PairNext
<1> QED BY <1>7, <1>8

-----------------------------------------------------------------------------
(* The mutex: what there is for those who wait is the mutex, when nobody   *)
(* holds it; nobody waits in a post                                        *)

Unheld == IF holders = {} THEN 1 ELSE 0

MutexOK ==
    /\ PairNow(waiting_threads, <<>>, Unheld, 0)
    /\ init = 1 /\ holders = {} => mutex_state = 1

LEMMA MutexNow ==
    ASSUME PairNext(waiting_threads', <<>>, Unheld', 0),
           init' = 1 /\ holders' = {} => mutex_state' = 1
    PROVE  MutexOK'
BY DEF MutexOK, PairNow, PairNext, HeldBy, HoldsNext, WakeesAt

\* MutexOK is kept by every step of the mutex.
LEMMA MutexSteps ==
    ASSUME CallersOK, MutexOK, init \in {0, 1}, MutexNext
    PROVE  CallersOK' /\ MutexOK' /\ init' \in {0, 1}
<1>1. /\ PairNow(waiting_threads, <<>>, Unheld, 0) /\ Unheld \in Int /\ 0 \in Int
      /\ Unheld' \in {0, 1} /\ Unheld \in {0, 1} /\ (holders' # {} => Unheld' = 0)
      /\ (holders' = holders => Unheld' = Unheld) /\ (holders # {} => Unheld = 0)
  BY DEF MutexOK, Unheld
<1>2. CASE \E f \in Flags : MutexInit(f)
  <2>1. /\ init = 0 /\ init' = 1 /\ callers' = callers /\ waiting_threads' = <<>>
        /\ mutex_state' = 1 /\ waiting_threads = <<>>
    BY <1>1, <1>2 DEF MutexInit, PairNow
  <2>2. CallersOK' /\ PairNext(waiting_threads, <<>>, Unheld', 0)
    BY <1>1, <2>1, Stays
  <2> QED BY <2>1, <2>2, MutexNow
<1>3. ASSUME NEW t \in Thread, MutexPend(t)
      PROVE  CallersOK' /\ MutexOK' /\ init' \in {0, 1}
  <2>1. /\ Free(t) /\ pc[t] # "post_woken" /\ init = 1 /\ init' = init
        /\ waiting_threads' = waiting_threads /\ holders' # {}
        /\ FinishWaking(t, <<>>) /\ Rest(<<>>) = <<>>
    BY <1>3 DEF MutexPend, Pends, Free, FinishWaking, Finish, Rest
  <2>2. CallersOK' /\ PairNext(waiting_threads, <<>>, Unheld - 1, 1)
    BY <1>1, <2>1, PendTakes
  <2>3. PairNext(waiting_threads, <<>>, Unheld', 0)
    BY <1>1, <2>1, <2>2, Weaker
  <2> QED BY <2>1, <2>2, <2>3, MutexNow
<1>4. ASSUME NEW t \in Thread, MutexPendBlock(t)
      PROVE  CallersOK' /\ MutexOK' /\ init' \in {0, 1}
  <2>1. /\ Free(t) /\ pc[t] # "post_woken" /\ init = 1 /\ init' = init
        /\ waiting_threads' = EnlistData(waiting_threads, t, 0) /\ holders' = holders
        /\ BlockAt(t, "pend_blocked") /\ holders # {}
    BY <1>4 DEF MutexPendBlock, Pends, Free, MayEnter, MutexOK
  <2>2. CallersOK' /\ PairNext(waiting_threads', <<>>, 0, 0)
    BY <1>1, <2>1, PendWaits
  <2> QED BY <1>1, <2>1, <2>2, MutexNow
<1>5. ASSUME NEW t \in Thread, MutexPendFail(t)
      PROVE  CallersOK' /\ MutexOK' /\ init' \in {0, 1}
  <2>1. /\ Free(t) /\ init = 0 /\ init' = init /\ waiting_threads' = waiting_threads
        /\ holders' = holders /\ Finish(t)
    BY <1>5 DEF MutexPendFail, Free, mutex
  <2>2. CallersOK' /\ PairNext(waiting_threads, <<>>, Unheld, 0)
    BY <1>1, <2>1, Leaves
  <2> QED BY <1>1, <2>1, <2>2, MutexNow
<1>6. ASSUME NEW t \in Thread, MutexTryPend(t)
      PROVE  CallersOK' /\ MutexOK' /\ init' \in {0, 1}
  <2>1. /\ init = 1 /\ init' = init /\ waiting_threads' = waiting_threads
        /\ holders' # {} /\ callers' = callers
    BY <1>6 DEF MutexTryPend
  <2>2. CallersOK' /\ PairNext(waiting_threads, <<>>, Unheld, 0)
    BY <1>1, <2>1, Stays
  <2>3. PairNext(waiting_threads, <<>>, Unheld', 0)
    BY <1>1, <2>1, <2>2, Weaker
  <2> QED BY <2>1, <2>2, <2>3, MutexNow
<1>7. ASSUME NEW t \in Thread, MutexPost(t)
      PROVE  CallersOK' /\ MutexOK' /\ init' \in {0, 1}
  <2>1. /\ Free(t) /\ pc[t] # "pend_woken" /\ init = 1 /\ init' = init
        /\ waiting_threads' = Rest(waiting_threads) /\ mutex_state' = 1
        /\ FinishWaking(t, waiting_threads)
    BY <1>7 DEF MutexPost, Free
  <2>2. CallersOK' /\ PairNext(waiting_threads', <<>>, Unheld + 1, 0 - 1)
    BY <1>1, <2>1, PostTakes
  <2>3. PairNext(waiting_threads', <<>>, Unheld', 0)
    <3>1. \A r : PairNext(r, <<>>, Unheld + 1, 0 - 1) => PairNext(r, <<>>, Unheld', 0)
      BY <1>1, <2>2, Weaker
    <3> QED BY <2>2, <3>1
  <2> QED BY <2>1, <2>2, <2>3, MutexNow
<1>8. ASSUME NEW t \in Thread, MutexUnlock(t)
      PROVE  CallersOK' /\ MutexOK' /\ init' \in {0, 1}
  <2>1. /\ init' = init /\ waiting_threads' = waiting_threads /\ holders' = holders
        /\ mutex_state' = mutex_state /\ Unlock(t)
    BY <1>8 DEF MutexUnlock, mutex
  <2>2. CallersOK' /\ PairNext(waiting_threads, <<>>, Unheld, 0)
    BY <1>1, <2>1, Unlocks
  <2> QED BY <1>1, <2>1, <2>2, MutexNow DEF MutexOK
<1>9. ASSUME NEW t \in Thread, MutexPostFail(t)
      PROVE  CallersOK' /\ MutexOK' /\ init' \in {0, 1}
  <2>1. init = 0 /\ init' = init /\ waiting_threads' = waiting_threads /\ callers' = callers
    BY <1>9 DEF MutexPostFail, mutex
  <2>2. CallersOK' /\ PairNext(waiting_threads, <<>>, Unheld', 0)
    BY <1>1, <2>1, Stays
  <2> QED BY <2>1, <2>2, MutexNow
<1>10. ASSUME NEW t \in Thread, MutexDestroy(t)
       PROVE  CallersOK' /\ MutexOK' /\ init' \in {0, 1}
  <2>1. /\ init' = 0 /\ waiting_threads' = <<>>
        /\ UnlockAll(Nodes(waiting_threads) \cup Nodes(<<>>))
    BY <1>10, EmptyHolds DEF MutexDestroy
  <2>2. CallersOK' /\ PairNext(<<>>, <<>>, Unheld', 0)
    BY <1>1, <2>1, Destroys
  <2> QED BY <2>1, <2>2, MutexNow
<1> QED
  BY <1>2, <1>3, <1>4, <1>5, <1>6, <1>7, <1>8, <1>9, <1>10 DEF MutexNext

-----------------------------------------------------------------------------
(* The stretches of a mailbox and of a queue                               *)

ChannelNow(elements, room) ==
    PairNow(read_waiting_threads, write_waiting_threads, elements, room)
ChannelNext(elements, room) ==
    PairNext(read_waiting_threads', write_waiting_threads', elements, room)

LEMMA ChannelSteps ==
    ASSUME CallersOK, NEW elements \in Int, NEW room \in Int, ChannelNow(elements, room),
           NEW t \in Thread
    PROVE  /\ \A e : init = 1 /\ MayPend(t) /\ ReadAndWake(t, e) =>
                         CallersOK' /\ ChannelNext(elements - 1, room + 1)
           /\ \A e : init = 1 /\ MayPost(t, e) /\ WriteAndWake(t) =>
                         CallersOK' /\ ChannelNext(elements + 1, room - 1)
           /\ init = 1 /\ MayPend(t) /\ WaitToRead(t) => CallersOK' /\ ChannelNext(0, room)
           /\ \A e : init = 1 /\ MayPost(t, e) /\ WaitToWrite(t, e) =>
                         CallersOK' /\ ChannelNext(elements, 0)
           /\ FailWoken(t) => CallersOK' /\ ChannelNext(elements, room)
           /\ Unlock(t) /\ UNCHANGED <<init, waiting>> =>
                  CallersOK' /\ ChannelNext(elements, room)
           /\ \A any, other : SendAllAway(t) => CallersOK' /\ ChannelNext(any, other)
<1> DEFINE r == read_waiting_threads
           w == write_waiting_threads
<1>0. PairNow(r, w, elements, room)
  BY DEF ChannelNow
<1>1. ASSUME NEW e, init = 1, MayPend(t), ReadAndWake(t, e)
      PROVE  CallersOK' /\ ChannelNext(elements - 1, room + 1)
  <2>1. /\ Free(t) /\ pc[t] # "post_woken" /\ init' = init /\ r' = r /\ w' = Rest(w)
        /\ FinishWaking(t, w)
    BY <1>1 DEF MayPend, ReadAndWake, Free
  <2>2. CallersOK' /\ PairNext(r, Rest(w), elements - 1, room + 1)
    BY <1>0, <1>1, <2>1, PendTakes
  <2> QED BY <2>1, <2>2 DEF ChannelNext
<1>2. ASSUME NEW e, init = 1, MayPost(t, e), WriteAndWake(t)
      PROVE  CallersOK' /\ ChannelNext(elements + 1, room - 1)
  <2>1. /\ Free(t) /\ pc[t] # "pend_woken" /\ init' = init /\ w' = w /\ r' = Rest(r)
        /\ FinishWaking(t, r)
    BY <1>2 DEF MayPost, WriteAndWake, Free
  <2>2. CallersOK' /\ PairNext(Rest(r), w, elements + 1, room - 1)
    BY <1>0, <1>2, <2>1, PostTakes
  <2> QED BY <2>1, <2>2 DEF ChannelNext
<1>3. ASSUME init = 1, MayPend(t), WaitToRead(t)
      PROVE  CallersOK' /\ ChannelNext(0, room)
  <2>1. /\ Free(t) /\ pc[t] # "post_woken" /\ init' = init /\ w' = w
        /\ r' = EnlistData(r, t, 0) /\ BlockAt(t, "pend_blocked")
    BY <1>3 DEF MayPend, WaitToRead, Free
  <2>2. CallersOK' /\ PairNext(EnlistData(r, t, 0), w, 0, room)
    BY <1>0, <1>3, <2>1, PendWaits
  <2> QED BY <2>1, <2>2 DEF ChannelNext
<1>4. ASSUME NEW e, init = 1, MayPost(t, e), WaitToWrite(t, e)
      PROVE  CallersOK' /\ ChannelNext(elements, 0)
  <2>1. /\ Free(t) /\ pc[t] # "pend_woken" /\ init' = init /\ r' = r
        /\ w' = EnlistData(w, t, 0) /\ BlockAt(t, "post_blocked")
    BY <1>4 DEF MayPost, WaitToWrite, Free
  <2>2. CallersOK' /\ PairNext(r, EnlistData(w, t, 0), elements, 0)
    BY <1>0, <1>4, <2>1, PostWaits
  <2> QED BY <2>1, <2>2 DEF ChannelNext
<1>5. ASSUME FailWoken(t) PROVE CallersOK' /\ ChannelNext(elements, room)
  <2>1. Free(t) /\ init = 0 /\ init' = init /\ r' = r /\ w' = w /\ Finish(t)
    BY <1>5 DEF FailWoken, Free, waiting
  <2>2. CallersOK' /\ PairNext(r, w, elements, room)
    BY <1>0, <2>1, Leaves
  <2> QED BY <2>1, <2>2 DEF ChannelNext
<1>6. ASSUME Unlock(t), UNCHANGED <<init, waiting>>
      PROVE  CallersOK' /\ ChannelNext(elements, room)
  <2>1. init' = init /\ r' = r /\ w' = w
    BY <1>6 DEF waiting
  <2>2. CallersOK' /\ PairNext(r, w, elements, room)
    BY <1>0, <1>6, <2>1, Unlocks
  <2> QED BY <2>1, <2>2 DEF ChannelNext
<1>7. ASSUME NEW any, NEW other, SendAllAway(t) PROVE CallersOK' /\ ChannelNext(any, other)
  <2>1. init' = 0 /\ r' = <<>> /\ w' = <<>> /\ UnlockAll(Nodes(r) \cup Nodes(w))
    BY <1>7 DEF SendAllAway
  <2>2. CallersOK' /\ PairNext(<<>>, <<>>, any, other)
    BY <1>0, <2>1, Destroys
  <2> QED BY <2>1, <2>2 DEF ChannelNext
<1> HIDE DEF r, w
<1> QED BY <1>1, <1>2, <1>3, <1>4, <1>5, <1>6, <1>7

MailboxOK == mailbox_state \in {0, 1} /\ ChannelNow(mailbox_state, 1 - mailbox_state)

QueueOK == /\ length \in Nat /\ max_length \in Nat /\ length <= max_length
           /\ ChannelNow(length, max_length - length)

LEMMA MailboxNow ==
    ASSUME mailbox_state' \in {0, 1}, NEW elements, NEW room, ChannelNext(elements, room),
           elements = mailbox_state', room = 1 - mailbox_state'
    PROVE  MailboxOK'
BY DEF MailboxOK, ChannelNow, ChannelNext, PairNow, PairNext, HeldBy, HoldsNext, WakeesAt

LEMMA QueueNow ==
    ASSUME length' \in Nat, max_length' \in Nat, length' <= max_length',
           NEW elements, NEW room, ChannelNext(elements, room),
           elements = length', room = max_length' - length'
    PROVE  QueueOK'
BY DEF QueueOK, ChannelNow, ChannelNext, PairNow, PairNext, HeldBy, HoldsNext, WakeesAt

\* MailboxOK is kept by every step of the mailbox.
LEMMA MailboxSteps ==
    ASSUME CallersOK, MailboxOK, init \in {0, 1}, MailboxNext
    PROVE  CallersOK' /\ MailboxOK' /\ init' \in {0, 1}
<1> DEFINE el == mailbox_state
           ro == 1 - mailbox_state
<1>1. /\ ChannelNow(el, ro) /\ el \in Int /\ ro \in Int /\ mailbox_state \in {0, 1}
  BY DEF MailboxOK
<1>2. CASE MailboxInit
  <2>1. init = 0 /\ init' = 1 /\ mailbox_state' = 0 /\ callers' = callers /\ waiting' = waiting
    BY <1>2 DEF MailboxInit
  <2>2. CallersOK' /\ PairNext(read_waiting_threads, write_waiting_threads, 0, 1)
    BY <1>1, <2>1, Stays DEF ChannelNow
  <2> QED BY <2>1, <2>2, MailboxNow DEF ChannelNext, waiting
<1>3. ASSUME NEW t \in Thread, MailboxPend(t) PROVE CallersOK' /\ MailboxOK' /\ init' \in {0, 1}
  <2>1. /\ init = 1 /\ MayPend(t) /\ ReadAndWake(t, value) /\ init' = init
        /\ mailbox_state = 1 /\ mailbox_state' = 0
    BY <1>3 DEF MailboxPend, ReadAndWake
  <2>2. CallersOK' /\ ChannelNext(el - 1, ro + 1)
    BY <1>1, <2>1, ChannelSteps
  <2> QED BY <2>1, <2>2, MailboxNow
<1>4. ASSUME NEW t \in Thread, MailboxPendBlock(t) PROVE CallersOK' /\ MailboxOK' /\ init' \in {0, 1}
  <2>1. /\ init = 1 /\ MayPend(t) /\ WaitToRead(t) /\ init' = init
        /\ mailbox_state = 0 /\ mailbox_state' = 0
    BY <1>4 DEF MailboxPendBlock, WaitToRead, mailbox
  <2>2. CallersOK' /\ ChannelNext(0, ro)
    BY <1>1, <2>1, ChannelSteps
  <2> QED BY <2>1, <2>2, MailboxNow
<1>5. ASSUME NEW t \in Thread, NEW e \in Element, MailboxPost(t, e)
      PROVE  CallersOK' /\ MailboxOK' /\ init' \in {0, 1}
  <2>1. /\ init = 1 /\ MayPost(t, e) /\ WriteAndWake(t) /\ init' = init
        /\ mailbox_state = 0 /\ mailbox_state' = 1
    BY <1>5 DEF MailboxPost, WriteAndWake
  <2>2. CallersOK' /\ ChannelNext(el + 1, ro - 1)
    BY <1>1, <2>1, ChannelSteps
  <2> QED BY <2>1, <2>2, MailboxNow
<1>6. ASSUME NEW t \in Thread, NEW e \in Element, MailboxPostBlock(t, e)
      PROVE  CallersOK' /\ MailboxOK' /\ init' \in {0, 1}
  <2>1. /\ init = 1 /\ MayPost(t, e) /\ WaitToWrite(t, e) /\ init' = init
        /\ mailbox_state = 1 /\ mailbox_state' = 1
    BY <1>6 DEF MailboxPostBlock, WaitToWrite, mailbox
  <2>2. CallersOK' /\ ChannelNext(el, 0)
    BY <1>1, <2>1, ChannelSteps
  <2> QED BY <2>1, <2>2, MailboxNow
<1>7. ASSUME NEW t \in Thread, MailboxUnlock(t) \/ MailboxFail(t)
      PROVE  CallersOK' /\ MailboxOK' /\ init' \in {0, 1}
  <2>1. /\ (Unlock(t) /\ UNCHANGED <<init, waiting>>) \/ FailWoken(t)
        /\ init' = init /\ mailbox_state' = mailbox_state
    BY <1>7 DEF MailboxUnlock, MailboxFail, FailWoken, mailbox
  <2>2. CallersOK' /\ ChannelNext(el, ro)
    BY <1>1, <2>1, ChannelSteps
  <2> QED BY <1>1, <2>1, <2>2, MailboxNow
<1>8. ASSUME NEW t \in Thread, MailboxDestroy(t) PROVE CallersOK' /\ MailboxOK' /\ init' \in {0, 1}
  <2>1. SendAllAway(t) /\ init' = 0 /\ mailbox_state' = 0
    BY <1>8 DEF MailboxDestroy, SendAllAway
  <2>2. CallersOK' /\ ChannelNext(0, 1)
    BY <1>1, <2>1, ChannelSteps
  <2> QED BY <2>1, <2>2, MailboxNow
<1> QED
  BY <1>2, <1>3, <1>4, <1>5, <1>6, <1>7, <1>8 DEF MailboxNext

\* QueueOK is kept by every step of the queue.
LEMMA QueueSteps ==
    ASSUME CallersOK, QueueOK, init \in {0, 1}, QueueNext
    PROVE  CallersOK' /\ QueueOK' /\ init' \in {0, 1}
<1> DEFINE el == length
           ro == max_length - length
<1>1. /\ ChannelNow(el, ro) /\ el \in Int /\ ro \in Int
      /\ length \in Nat /\ max_length \in Nat /\ length <= max_length
  BY DEF QueueOK
<1>2. ASSUME NEW depth \in Depths, QueueInit(depth)
      PROVE  CallersOK' /\ QueueOK' /\ init' \in {0, 1}
  <2>1. /\ init = 0 /\ init' = 1 /\ length' = 0 /\ max_length' = depth /\ depth \in Nat
        /\ callers' = callers /\ waiting' = waiting
    BY <1>2, QueueAssumption DEF QueueInit
  <2>2. CallersOK' /\ PairNext(read_waiting_threads, write_waiting_threads, 0, depth)
    BY <1>1, <2>1, Stays DEF ChannelNow
  <2>3. ChannelNext(0, depth)
    BY <2>1, <2>2 DEF ChannelNext, waiting
  <2> QED BY <2>1, <2>2, <2>3, QueueNow
<1>3. ASSUME NEW t \in Thread, QueuePend(t) PROVE CallersOK' /\ QueueOK' /\ init' \in {0, 1}
  <2>1. /\ init = 1 /\ MayPend(t) /\ ReadAndWake(t, container[tail]) /\ init' = init
        /\ length # 0 /\ length' = length - 1 /\ max_length' = max_length
    BY <1>3 DEF QueuePend, ReadAndWake
  <2>2. CallersOK' /\ ChannelNext(el - 1, ro + 1)
    BY <1>1, <2>1, ChannelSteps
  <2> QED BY <1>1, <2>1, <2>2, QueueNow
<1>4. ASSUME NEW t \in Thread, QueuePendBlock(t) PROVE CallersOK' /\ QueueOK' /\ init' \in {0, 1}
  <2>1. /\ init = 1 /\ MayPend(t) /\ WaitToRead(t) /\ init' = init
        /\ length = 0 /\ length' = length /\ max_length' = max_length
    BY <1>4 DEF QueuePendBlock, WaitToRead, queue
  <2>2. CallersOK' /\ ChannelNext(0, ro)
    BY <1>1, <2>1, ChannelSteps
  <2> QED BY <1>1, <2>1, <2>2, QueueNow
<1>5. ASSUME NEW t \in Thread, NEW e \in Element, QueuePost(t, e)
      PROVE  CallersOK' /\ QueueOK' /\ init' \in {0, 1}
  <2>1. /\ init = 1 /\ MayPost(t, e) /\ WriteAndWake(t) /\ init' = init
        /\ length # max_length /\ length' = length + 1 /\ max_length' = max_length
    BY <1>5 DEF QueuePost, WriteAndWake
  <2>2. CallersOK' /\ ChannelNext(el + 1, ro - 1)
    BY <1>1, <2>1, ChannelSteps
  <2> QED BY <1>1, <2>1, <2>2, QueueNow
<1>6. ASSUME NEW t \in Thread, NEW e \in Element, QueuePostBlock(t, e)
      PROVE  CallersOK' /\ QueueOK' /\ init' \in {0, 1}
  <2>1. /\ init = 1 /\ MayPost(t, e) /\ WaitToWrite(t, e) /\ init' = init
        /\ length = max_length /\ length' = length /\ max_length' = max_length
    BY <1>6 DEF QueuePostBlock, WaitToWrite, queue
  <2>2. CallersOK' /\ ChannelNext(el, 0)
    BY <1>1, <2>1, ChannelSteps
  <2> QED BY <1>1, <2>1, <2>2, QueueNow
<1>7. ASSUME NEW t \in Thread, QueueUnlock(t) \/ QueueFail(t)
      PROVE  CallersOK' /\ QueueOK' /\ init' \in {0, 1}
  <2>1. /\ (Unlock(t) /\ UNCHANGED <<init, waiting>>) \/ FailWoken(t)
        /\ init' = init /\ length' = length /\ max_length' = max_length
    BY <1>7 DEF QueueUnlock, QueueFail, FailWoken, queue
  <2>2. CallersOK' /\ ChannelNext(el, ro)
    BY <1>1, <2>1, ChannelSteps
  <2> QED BY <1>1, <2>1, <2>2, QueueNow
<1>8. ASSUME NEW t \in Thread, QueueDestroy(t) PROVE CallersOK' /\ QueueOK' /\ init' \in {0, 1}
  <2>1. SendAllAway(t) /\ init' = 0 /\ length' = 0 /\ max_length' = 0
    BY <1>8 DEF QueueDestroy, SendAllAway
  <2>2. CallersOK' /\ ChannelNext(0, 0)
    BY <1>1, <2>1, ChannelSteps
  <2> QED BY <2>1, <2>2, QueueNow
<1> QED
  BY <1>2, <1>3, <1>4, <1>5, <1>6, <1>7, <1>8 DEF QueueNext

-----------------------------------------------------------------------------
(* The theorem                                                             *)

SyncInv ==
    /\ CallersOK /\ init \in {0, 1}
    /\ object = "mutex" => MutexOK
    /\ object = "mailbox" => MailboxOK
    /\ object = "queue" => QueueOK

LEMMA SyncInit == MCInit => SyncInv
<1> SUFFICES ASSUME MCInit PROVE SyncInv
  OBVIOUS
<1>1. /\ init = 0 /\ pc = [t \in Thread |-> "out"] /\ wakee = [t \in Thread |-> NULL]
      /\ waiting_threads = <<>> /\ read_waiting_threads = <<>> /\ write_waiting_threads = <<>>
      /\ mailbox_state = 0 /\ length = 0 /\ max_length = 0
  BY DEF MCInit, MutexInitial, MailboxInitial, QueueInitial, ChannelInit, BlockingInit
<1>2. /\ pc \in [Thread -> Points] /\ \A t \in Thread : pc[t] = "out"
      /\ wakee \in [Thread -> Thread \cup {NULL}]
  BY <1>1 DEF Points
<1>3. Posting = {} /\ Wakees = {} /\ At(BlockedPoints) = {}
  BY <1>2 DEF Posting, Wakees, At, BlockedPoints
<1>4. CallersOK
  BY <1>2, <1>3 DEF CallersOK, WakeesBlocked, BlockedPoints
<1>5. HeldBy(<<>>, "pend_blocked") /\ HeldBy(<<>>, "post_blocked")
  BY <1>2, <1>3, EmptyHolds DEF HeldBy, At
<1>6. \A el, ro : PairNow(<<>>, <<>>, el, ro)
  BY <1>1, <1>5, EmptyHolds DEF PairNow
<1> QED BY <1>1, <1>4, <1>6 DEF SyncInv, MutexOK, MailboxOK, QueueOK, ChannelNow

LEMMA SyncStep == SyncInv /\ [MCNext]_MCVars => SyncInv'
<1> SUFFICES ASSUME SyncInv, [MCNext]_MCVars PROVE SyncInv'
  OBVIOUS
<1>1. CASE MutexStep
  <2>1. object = "mutex" /\ object' = object /\ MutexNext
    BY <1>1 DEF MutexStep, MutexNext
  <2> QED BY <2>1, MutexSteps DEF SyncInv
<1>2. CASE MailboxStep
  <2>1. object = "mailbox" /\ object' = object /\ MailboxNext
    BY <1>2 DEF MailboxStep, MailboxNext
  <2> QED BY <2>1, MailboxSteps DEF SyncInv
<1>3. CASE QueueStep
  <2>1. object = "queue" /\ object' = object /\ QueueNext
    BY <1>3 DEF QueueStep, QueueNext
  <2> QED BY <2>1, QueueSteps DEF SyncInv
<1>4. CASE UNCHANGED MCVars
  <2>1. /\ object' = object /\ init' = init /\ pc' = pc /\ wakee' = wakee
        /\ waiting_threads' = waiting_threads /\ mutex_state' = mutex_state /\ holders' = holders
        /\ read_waiting_threads' = read_waiting_threads
        /\ write_waiting_threads' = write_waiting_threads
        /\ mailbox_state' = mailbox_state /\ length' = length /\ max_length' = max_length
    BY <1>4 DEF MCVars, callers, mutex, waiting, mailbox, queue
  <2>2. CallersOK' = CallersOK
    BY <2>1 DEF CallersOK, WakeesBlocked, Wakees, Posting, At
  <2>3. \A list, p : HeldBy(list, p)' = HeldBy(list, p)
    BY <2>1 DEF HeldBy, Wakees, Posting, At
  <2>4. \A b, w : InFlight(b, w)' = InFlight(b, w)
    BY <2>1 DEF InFlight, Wakees, Posting, At
  <2>5. MutexOK' = MutexOK
    BY <2>1, <2>3, <2>4 DEF MutexOK, PairNow, Unheld
  <2>6. MailboxOK' = MailboxOK
    BY <2>1, <2>3, <2>4 DEF MailboxOK, ChannelNow, PairNow
  <2>7. QueueOK' = QueueOK
    BY <2>1, <2>3, <2>4 DEF QueueOK, ChannelNow, PairNow
  <2> QED BY <2>1, <2>2, <2>5, <2>6, <2>7 DEF SyncInv
<1> QED BY <1>1, <1>2, <1>3, <1>4 DEF MCNext

LEMMA InvForgetsNobody == SyncInv => NobodyIsForgotten
<1> SUFFICES ASSUME SyncInv PROVE NobodyIsForgotten
  OBVIOUS
<1>1. ASSUME object = "mutex" PROVE MutexKeepsWakeups
  <2>1. CallersOK /\ PairNow(waiting_threads, <<>>, Unheld, 0)
    BY <1>1 DEF SyncInv, MutexOK
  <2>2. ASSUME init = 1, holders = {}, waiting_threads # <<>>
        PROVE  InFlight("pend_blocked", "pend_woken") # {}
    <3>1. Cardinality(InFlight("pend_blocked", "pend_woken")) >= 1
      BY <2>1, <2>2 DEF PairNow, Unheld
    <3>2. Cardinality({}) = 0
      BY FS_EmptySet
    <3> QED BY <3>1, <3>2
  <2> QED BY <2>1, <2>2 DEF MutexKeepsWakeups, PairNow, CallersOK
<1>2. ASSUME object = "mailbox" PROVE MailboxKeepsWakeups
  BY <1>2 DEF SyncInv, MailboxOK, ChannelNow, PairNow, MailboxKeepsWakeups, KeepsWakeups,
              CallersOK, ReadersInFlight, WritersInFlight
<1>3. ASSUME object = "queue" PROVE QueueKeepsWakeups
  BY <1>3 DEF SyncInv, QueueOK, ChannelNow, PairNow, QueueKeepsWakeups, KeepsWakeups,
              CallersOK, ReadersInFlight, WritersInFlight
<1> QED
  BY <1>1, <1>2, <1>3 DEF NobodyIsForgotten, MutexKeepsWakeups, MailboxKeepsWakeups,
                          QueueKeepsWakeups

\* Of no mutex, mailbox or queue a wake-up is lost: as long as threads wait for
\* something that is there, somebody is on the way to it, and every thread that
\* waits can be found by a later call.
THEOREM WakeupsAreKept == MCSpec => []NobodyIsForgotten
<1> QED BY SyncInit, SyncStep, InvForgetsNobody, PTL DEF MCSpec

-----------------------------------------------------------------------------
(* What readers and writers see                                            *)

\* Where the nodes of the lists and the threads about to be unlocked are.
LEMMA ListedAreBlocked ==
    ASSUME CallersOK, NEW elements, NEW room, ChannelNow(elements, room)
    PROVE  /\ \A t \in Nodes(read_waiting_threads) : t \in Thread /\ pc[t] = "pend_blocked"
           /\ \A t \in Nodes(write_waiting_threads) : t \in Thread /\ pc[t] = "post_blocked"
<1>1. /\ HeldBy(read_waiting_threads, "pend_blocked")
      /\ HeldBy(write_waiting_threads, "post_blocked")
  BY DEF ChannelNow, PairNow
<1> QED BY <1>1 DEF HeldBy, At

\* A set of threads is known from the points of each of them.
LEMMA SamePlaces ==
    ASSUME \A s \in Thread : pc'[s] \in {"pend_blocked", "pend_woken"}
                                <=> pc[s] \in {"pend_blocked", "pend_woken"},
           \A s \in Thread : pc'[s] \in {"post_blocked", "post_woken"}
                                <=> pc[s] \in {"post_blocked", "post_woken"}
    PROVE  Readers' = Readers /\ Writers' = Writers
BY DEF Readers, Writers, At

\* One thread starts or ends waiting, the others go on as they were.
LEMMA OnePlace ==
    ASSUME CallersOK, NEW t \in Thread, NEW point \in Points,
           pc' = [pc EXCEPT ![t] = point]
    PROVE  /\ point \in {"out", "wake"}
                  => Readers' = Readers \ {t} /\ Writers' = Writers \ {t}
           /\ point = "pend_blocked" => Readers' = Readers \cup {t} /\ Writers' = Writers \ {t}
           /\ point = "post_blocked" => Readers' = Readers \ {t} /\ Writers' = Writers \cup {t}
<1>1. \A s \in Thread : pc'[s] = IF s = t THEN point ELSE pc[s]
  BY DEF CallersOK
<1> QED BY <1>1 DEF Readers, Writers, At

\* Who waits, after each stretch of a mailbox or a queue.
LEMMA WhoWaits ==
    ASSUME CallersOK, NEW elements, NEW room, ChannelNow(elements, room), NEW t \in Thread
    PROVE  /\ \A e : MayPend(t) /\ ReadAndWake(t, e) =>
                         Readers' = Readers \ {t} /\ Writers' = Writers
           /\ \A e : MayPost(t, e) /\ WriteAndWake(t) =>
                         Readers' = Readers /\ Writers' = Writers \ {t}
           /\ MayPend(t) /\ WaitToRead(t) =>
                  Readers' = Readers \cup {t} /\ Writers' = Writers
           /\ \A e : MayPost(t, e) /\ WaitToWrite(t, e) =>
                         Readers' = Readers /\ Writers' = Writers \cup {t}
           /\ FailWoken(t) => \/ Readers' = Readers \ {t} /\ Writers' = Writers
                              \/ Readers' = Readers /\ Writers' = Writers \ {t}
           /\ Unlock(t) \/ SendAllAway(t) => Readers' = Readers /\ Writers' = Writers
<1>1. \A list : FinishWaking(t, list) =>
          \E point \in {"out", "wake"} : pc' = [pc EXCEPT ![t] = point]
  BY DEF FinishWaking
<1>2. {"out", "wake", "pend_blocked", "post_blocked"} \subseteq Points
  BY DEF Points
<1>3. ASSUME NEW e, MayPend(t), ReadAndWake(t, e)
      PROVE  Readers' = Readers \ {t} /\ Writers' = Writers
  <2>1. PICK point \in {"out", "wake"} : pc' = [pc EXCEPT ![t] = point]
    BY <1>1, <1>3 DEF ReadAndWake
  <2>2. Writers \ {t} = Writers
    BY <1>3 DEF MayPend, Free, Writers, At
  <2>3. Readers' = Readers \ {t} /\ Writers' = Writers \ {t}
    BY <1>2, <2>1, OnePlace
  <2> QED BY <2>2, <2>3
<1>4. ASSUME NEW e, MayPost(t, e), WriteAndWake(t)
      PROVE  Readers' = Readers /\ Writers' = Writers \ {t}
  <2>1. PICK point \in {"out", "wake"} : pc' = [pc EXCEPT ![t] = point]
    BY <1>1, <1>4 DEF WriteAndWake
  <2>2. Readers \ {t} = Readers
    BY <1>4 DEF MayPost, Free, Readers, At
  <2>3. Readers' = Readers \ {t} /\ Writers' = Writers \ {t}
    BY <1>2, <2>1, OnePlace
  <2> QED BY <2>2, <2>3
<1>5. ASSUME MayPend(t), WaitToRead(t)
      PROVE  Readers' = Readers \cup {t} /\ Writers' = Writers
  <2>1. pc' = [pc EXCEPT ![t] = "pend_blocked"] /\ Writers \ {t} = Writers
    BY <1>5 DEF MayPend, WaitToRead, BlockAt, Free, Writers, At
  <2>2. Readers' = Readers \cup {t} /\ Writers' = Writers \ {t}
    BY <1>2, <2>1, OnePlace
  <2> QED BY <2>1, <2>2
<1>6. ASSUME NEW e, MayPost(t, e), WaitToWrite(t, e)
      PROVE  Readers' = Readers /\ Writers' = Writers \cup {t}
  <2>1. pc' = [pc EXCEPT ![t] = "post_blocked"] /\ Readers \ {t} = Readers
    BY <1>6 DEF MayPost, WaitToWrite, BlockAt, Free, Readers, At
  <2>2. Readers' = Readers \ {t} /\ Writers' = Writers \cup {t}
    BY <1>2, <2>1, OnePlace
  <2> QED BY <2>1, <2>2
<1>7. ASSUME FailWoken(t)
      PROVE  \/ Readers' = Readers \ {t} /\ Writers' = Writers
             \/ Readers' = Readers /\ Writers' = Writers \ {t}
  <2>1. pc' = [pc EXCEPT ![t] = "out"] /\ (Readers \ {t} = Readers \/ Writers \ {t} = Writers)
    BY <1>7 DEF FailWoken, Finish, Free, Readers, Writers, At
  <2>2. Readers' = Readers \ {t} /\ Writers' = Writers \ {t}
    BY <1>2, <2>1, OnePlace
  <2> QED BY <2>1, <2>2
<1>8. ASSUME Unlock(t) PROVE Readers' = Readers /\ Writers' = Writers
  <2> DEFINE n == wakee[t]
  <2>1. n \in Thread /\ pc[n] \in BlockedPoints /\ pc[t] = "wake"
    BY <1>8 DEF Unlock, CallersOK, WakeesBlocked, Wakees, Posting, At, BlockedPoints
  <2>2. pc' = [pc EXCEPT ![t] = "out", ![n] = Woken[pc[n]]] /\ n # t
    BY <1>8, <2>1 DEF Unlock, BlockedPoints
  <2> HIDE DEF n
  <2>3. \A s \in Thread : pc'[s] = IF s = n THEN Woken[pc[n]] ELSE IF s = t THEN "out" ELSE pc[s]
    BY <2>1, <2>2 DEF CallersOK
  <2> QED BY <2>1, <2>3, SamePlaces DEF BlockedPoints, Woken
<1>9. ASSUME SendAllAway(t) PROVE Readers' = Readers /\ Writers' = Writers
  <2> DEFINE S == Nodes(read_waiting_threads) \cup Nodes(write_waiting_threads)
  <2>1. \A s \in Thread : pc'[s] = IF s \in S THEN Woken[pc[s]] ELSE pc[s]
    BY <1>9 DEF SendAllAway, UnlockAll
  <2>2. \A s \in S : pc[s] \in BlockedPoints
    BY ListedAreBlocked DEF BlockedPoints
  <2> HIDE DEF S
  <2> QED BY <2>1, <2>2, SamePlaces DEF BlockedPoints, Woken
<1> QED BY <1>3, <1>4, <1>5, <1>6, <1>7, <1>8, <1>9

\* Each stretch of a mailbox is an operation of a channel of depth one, or
\* hidden: the unlocking of a thread.
LEMMA MailboxShows ==
    ASSUME CallersOK, MailboxOK, init \in {0, 1}, MailboxNext
    PROVE  [MailboxAsFifo!Next]_(MailboxAsFifo!vars)
<1> DEFINE Slot == IF mailbox_state = 1 THEN <<value>> ELSE <<>>
<1>1. /\ object = "mailbox" /\ object' = "mailbox" /\ mailbox_state \in {0, 1}
      /\ ChannelNow(mailbox_state, 1 - mailbox_state)
  BY DEF MailboxNext, MailboxOK
<1>2. /\ \A v : Head(<<v>>) = v /\ Tail(<<v>>) = <<>> /\ <<v>> # <<>> /\ Len(<<v>>) = 1
      /\ \A v : Append(<<>>, v) = <<v>>
      /\ Len(<<>>) = 0
  OBVIOUS
<1>3. CASE MailboxInit
  <2>1. Readers = {} /\ Writers = {} /\ Readers' = {} /\ Writers' = {}
    BY <1>3 DEF MailboxInit, NobodyInside, Readers, Writers, At, callers
  <2>2. MailboxAsFifo!Create
    BY <1>1, <1>3, <2>1 DEF MailboxInit, MailboxAsFifo!Create, Shown
  <2> QED BY <2>2 DEF MailboxAsFifo!Next
<1>4. ASSUME NEW t \in Thread, MailboxPend(t) PROVE MailboxAsFifo!Take(t)
  <2>1. /\ init = 1 /\ init' = 1 /\ got' = [got EXCEPT ![t] = value]
        /\ mailbox_state = 1 /\ mailbox_state' = 0
    BY <1>4 DEF MailboxPend, ReadAndWake
  <2>2. Readers' = Readers \ {t} /\ Writers' = Writers
    BY <1>1, <1>4, WhoWaits DEF MailboxPend
  <2> QED BY <1>1, <1>2, <2>1, <2>2 DEF MailboxAsFifo!Take, Shown
<1>5. ASSUME NEW t \in Thread, MailboxPendBlock(t) PROVE MailboxAsFifo!WaitToTake(t)
  <2>1. /\ init = 1 /\ init' = 1 /\ got' = got
        /\ mailbox_state = 0 /\ mailbox_state' = 0
    BY <1>5 DEF MailboxPendBlock, WaitToRead, mailbox
  <2>2. Readers' = Readers \cup {t} /\ Writers' = Writers
    BY <1>1, <1>5, WhoWaits DEF MailboxPendBlock
  <2> QED BY <1>1, <1>2, <2>1, <2>2 DEF MailboxAsFifo!WaitToTake, Shown
<1>6. ASSUME NEW t \in Thread, NEW e \in Element, MailboxPost(t, e) PROVE MailboxAsFifo!Put(t)
  <2>1. /\ init = 1 /\ init' = 1 /\ got' = got
        /\ mailbox_state = 0 /\ mailbox_state' = 1 /\ value' = e
    BY <1>6 DEF MailboxPost, WriteAndWake
  <2>2. Readers' = Readers /\ Writers' = Writers \ {t}
    BY <1>1, <1>6, WhoWaits DEF MailboxPost
  <2> QED BY <1>1, <1>2, <2>1, <2>2 DEF MailboxAsFifo!Put, Shown
<1>7. ASSUME NEW t \in Thread, NEW e \in Element, MailboxPostBlock(t, e)
      PROVE  MailboxAsFifo!WaitToPut(t)
  <2>1. /\ init = 1 /\ init' = 1 /\ got' = got
        /\ mailbox_state = 1 /\ mailbox_state' = 1 /\ value' = value
    BY <1>7 DEF MailboxPostBlock, WaitToWrite, mailbox
  <2>2. Readers' = Readers /\ Writers' = Writers \cup {t}
    BY <1>1, <1>7, WhoWaits DEF MailboxPostBlock
  <2> QED BY <1>1, <1>2, <2>1, <2>2 DEF MailboxAsFifo!WaitToPut, Shown
<1>8. ASSUME NEW t \in Thread, MailboxUnlock(t) PROVE UNCHANGED MailboxAsFifo!vars
  <2>1. /\ init' = init /\ got' = got /\ mailbox_state' = mailbox_state /\ value' = value
        /\ Unlock(t)
    BY <1>8 DEF MailboxUnlock, mailbox
  <2>2. Readers' = Readers /\ Writers' = Writers
    BY <1>1, <2>1, WhoWaits
  <2> QED BY <1>1, <2>1, <2>2 DEF MailboxAsFifo!vars, Shown
<1>9. ASSUME NEW t \in Thread, MailboxFail(t) PROVE MailboxAsFifo!Refuse(t)
  <2>1. /\ init = 0 /\ init' = 0 /\ got' = got /\ mailbox_state' = mailbox_state
        /\ value' = value /\ FailWoken(t)
    BY <1>9 DEF MailboxFail, FailWoken, mailbox
  <2>2. \/ Readers' = Readers \ {t} /\ Writers' = Writers
        \/ Readers' = Readers /\ Writers' = Writers \ {t}
    BY <1>1, <2>1, WhoWaits
  <2> QED BY <1>1, <2>1, <2>2 DEF MailboxAsFifo!Refuse, Shown
<1>10. ASSUME NEW t \in Thread, MailboxDestroy(t) PROVE MailboxAsFifo!Destroy
  <2>1. init = 1 /\ init' = 0 /\ got' = got /\ mailbox_state' = 0 /\ SendAllAway(t)
    BY <1>10 DEF MailboxDestroy, SendAllAway
  <2>2. Readers' = Readers /\ Writers' = Writers
    BY <1>1, <2>1, WhoWaits
  <2> QED BY <1>1, <2>1, <2>2 DEF MailboxAsFifo!Destroy, Shown
<1> QED
  BY <1>3, <1>4, <1>5, <1>6, <1>7, <1>8, <1>9, <1>10 DEF MailboxNext, MailboxAsFifo!Next

\* What the channel shows of a mailbox stays, when the step is not one of it.
LEMMA MailboxHidden ==
    ASSUME \/ object # "mailbox" /\ object' = object /\ UNCHANGED mailbox
           \/ UNCHANGED MCVars
    PROVE  UNCHANGED MailboxAsFifo!vars
<1>1. CASE object # "mailbox" /\ object' = object /\ UNCHANGED mailbox
  BY <1>1 DEF MailboxAsFifo!vars, Shown, mailbox
<1>2. CASE UNCHANGED MCVars
  BY <1>2 DEF MailboxAsFifo!vars, Shown, MCVars, callers, mailbox, Readers, Writers, At
<1> QED BY <1>1, <1>2

\* Before mailbox_init nothing is in the channel and nobody waits.
LEMMA MailboxShowsInit == MCInit => MailboxAsFifo!Init
<1> SUFFICES ASSUME MCInit PROVE MailboxAsFifo!Init
  OBVIOUS
<1>1. /\ init = 0 /\ pc = [t \in Thread |-> "out"] /\ mailbox_state = 0 /\ got = Nothings
  BY DEF MCInit, MailboxInitial, ChannelInit, BlockingInit
<1>2. Readers = {} /\ Writers = {}
  BY <1>1 DEF Readers, Writers, At
<1> QED BY <1>1, <1>2 DEF MailboxAsFifo!Init, Shown, Nothings

\* A mailbox never shows a caller anything but a first-in first-out channel of
\* depth one, for any number of threads (that nobody waits for ever is the
\* run's).
THEOREM MailboxIsChannel == MCSpec => MailboxAsFifo!Safety
<1>1. SyncInv /\ [MCNext]_MCVars => [MailboxAsFifo!Next]_(MailboxAsFifo!vars)
  <2> SUFFICES ASSUME SyncInv, [MCNext]_MCVars
               PROVE  [MailboxAsFifo!Next]_(MailboxAsFifo!vars)
    OBVIOUS
  <2>1. CASE MailboxStep
    <3>1. MailboxNext /\ object = "mailbox"
      BY <2>1 DEF MailboxStep, MailboxNext
    <3> QED BY <3>1, MailboxShows DEF SyncInv
  <2>2. CASE MutexStep \/ QueueStep
    <3>1. object # "mailbox" /\ object' = object /\ UNCHANGED mailbox
      BY <2>2 DEF MutexStep, QueueStep, MutexNext, QueueNext
    <3> QED BY <3>1, MailboxHidden
  <2>3. CASE UNCHANGED MCVars
    BY <2>3, MailboxHidden
  <2> QED BY <2>1, <2>2, <2>3 DEF MCNext
<1> QED
  BY <1>1, MailboxShowsInit, SyncInit, SyncStep, PTL DEF MCSpec, MailboxAsFifo!Safety

-----------------------------------------------------------------------------
(* The ring of a queue is a sequence                                       *)

Content == Element \cup {NULL}

\* The head is where the element after the last goes.  The ring has one cell
\* more than elements, so that head = tail means an empty queue.
RingOK ==
    /\ max_length \in Nat
    /\ length \in 0 .. max_length
    /\ head \in 0 .. max_length /\ tail \in 0 .. max_length
    /\ head = Cell(length + 1)
    /\ container \in [0 .. max_length -> Content]

\* The ring as a sequence; its cells follow one another and are distinct.
RingFacts ==
    /\ Ring \in Seq(Content) /\ Len(Ring) = length
    /\ \A i \in 1 .. length : Ring[i] = container[Cell(i)]
    /\ \A i \in 1 .. length : Cell(i) \in 0 .. max_length /\ Cell(i) # head
    /\ length # 0 => Ring # <<>> /\ Head(Ring) = container[tail]
    /\ length = 0 => Ring = <<>>

LEMMA RingIsSequence == RingOK => RingFacts
<1> SUFFICES ASSUME RingOK PROVE RingFacts
  OBVIOUS
<1>1. \A i \in 1 .. length : Cell(i) \in 0 .. max_length /\ Cell(i) # head
  BY DEF RingOK, Cell
<1>2. \A i \in 1 .. length : container[Cell(i)] \in Content
  BY <1>1 DEF RingOK
<1>3. length \in Nat
  BY DEF RingOK
<1>4. Ring \in Seq(Content) /\ Len(Ring) = length
  BY <1>2, <1>3 DEF Ring
<1>5. \A i \in 1 .. length : Ring[i] = container[Cell(i)]
  BY DEF Ring
<1>6. ASSUME length # 0 PROVE Ring # <<>> /\ Head(Ring) = container[tail]
  <2>1. 1 \in 1 .. length /\ Cell(1) = tail
    BY <1>3, <1>6 DEF RingOK, Cell
  <2>2. Ring # <<>>
    BY <1>3, <1>4, <1>6
  <2> QED BY <1>4, <1>5, <2>1, <2>2
<1>7. ASSUME length = 0 PROVE Ring = <<>>
  BY <1>4, <1>7
<1> QED BY <1>1, <1>4, <1>5, <1>6, <1>7 DEF RingFacts

\* The steps of a queue keep the ring in order, ...
LEMMA RingStep ==
    ASSUME RingOK, QueueNext
    PROVE  RingOK'
<1>1. ASSUME NEW depth \in Depths, QueueInit(depth) PROVE RingOK'
  <2>1. /\ depth \in Nat /\ head' = 0 /\ tail' = 0 /\ length' = 0 /\ max_length' = depth
        /\ container' = [i \in 0 .. depth |-> NULL]
    BY <1>1, QueueAssumption DEF QueueInit
  <2> QED BY <2>1 DEF RingOK, Cell, Content
<1>2. ASSUME NEW t \in Thread, QueuePend(t) PROVE RingOK'
  <2>1. /\ length # 0 /\ tail' = After(tail) /\ length' = length - 1 /\ head' = head
        /\ max_length' = max_length /\ container' = container
    BY <1>2 DEF QueuePend
  <2> QED BY <2>1 DEF RingOK, Cell, After
<1>3. ASSUME NEW t \in Thread, NEW e \in Element, QueuePost(t, e) PROVE RingOK'
  <2>1. /\ length # max_length /\ head' = After(head) /\ length' = length + 1 /\ tail' = tail
        /\ max_length' = max_length /\ container' = [container EXCEPT ![head] = e]
    BY <1>3 DEF QueuePost
  <2>2. container' \in [0 .. max_length' -> Content]
    BY <2>1 DEF RingOK, Content
  <2> QED BY <2>1, <2>2 DEF RingOK, Cell, After
<1>4. ASSUME NEW t \in Thread, QueueDestroy(t) PROVE RingOK'
  BY <1>4 DEF QueueDestroy, RingOK, Cell, Content
<1>5. ASSUME UNCHANGED queue PROVE RingOK'
  BY <1>5 DEF RingOK, Cell, queue
<1> QED
  BY <1>1, <1>2, <1>3, <1>4, <1>5
  DEF QueueNext, QueuePendBlock, QueuePostBlock, QueueUnlock, QueueFail

\* ... a pend takes its first element off, ...
LEMMA PendTakesFirst ==
    ASSUME RingOK, RingOK', NEW t \in Thread, QueuePend(t)
    PROVE  Ring # <<>> /\ Ring' = Tail(Ring) /\ container[tail] = Head(Ring)
<1>1. /\ length # 0 /\ tail' = After(tail) /\ length' = length - 1
      /\ max_length' = max_length /\ container' = container
  BY DEF QueuePend
<1>2. /\ Ring \in Seq(Content) /\ Len(Ring) = length /\ Ring # <<>>
      /\ Head(Ring) = container[tail]
      /\ \A i \in 1 .. length : Ring[i] = container[Cell(i)]
  BY <1>1, RingIsSequence DEF RingFacts
<1>3. /\ Tail(Ring) \in Seq(Content) /\ Len(Tail(Ring)) = length'
      /\ \A i \in 1 .. length' : Tail(Ring)[i] = Ring[i + 1]
  BY <1>1, <1>2, HeadTailProperties
<1>4. /\ Ring' \in Seq(Content) /\ Len(Ring') = length'
      /\ \A i \in 1 .. length' : Ring'[i] = container'[Cell(i)']
  <2>1. (RingOK => RingFacts)'
    BY RingIsSequence, PTL
  <2> QED BY <2>1 DEF RingFacts
<1>5. \A i \in 1 .. length' : Cell(i)' = Cell(i + 1) /\ i + 1 \in 1 .. length
  BY <1>1 DEF RingOK, Cell, After
<1>6. \A i \in 1 .. length' : Ring'[i] = Tail(Ring)[i]
  BY <1>1, <1>2, <1>3, <1>4, <1>5
<1>7. Ring' = Tail(Ring)
  BY <1>3, <1>4, <1>6, SeqEqual
<1> QED BY <1>2, <1>7

\* ... and a post appends one to it.
LEMMA PostAppends ==
    ASSUME RingOK, RingOK', NEW t \in Thread, NEW e \in Element, QueuePost(t, e)
    PROVE  Ring' = Append(Ring, e) /\ Len(Ring) < max_length
<1>1. /\ length # max_length /\ length' = length + 1 /\ tail' = tail
      /\ max_length' = max_length /\ container' = [container EXCEPT ![head] = e]
  BY DEF QueuePost
<1>2. /\ Ring \in Seq(Content) /\ Len(Ring) = length
      /\ \A i \in 1 .. length : /\ Ring[i] = container[Cell(i)]
                                /\ Cell(i) \in 0 .. max_length /\ Cell(i) # head
  BY RingIsSequence DEF RingFacts
<1>3. /\ length \in Nat /\ length < max_length /\ head = Cell(length + 1)
      /\ head \in 0 .. max_length /\ container \in [0 .. max_length -> Content]
  BY <1>1 DEF RingOK
<1>4. e \in Content
  BY DEF Content
<1>5. /\ Append(Ring, e) \in Seq(Content) /\ Len(Append(Ring, e)) = length + 1
      /\ \A i \in 1 .. length : Append(Ring, e)[i] = Ring[i]
      /\ Append(Ring, e)[length + 1] = e
  BY <1>2, <1>4, AppendProperties
<1>6. /\ Ring' \in Seq(Content) /\ Len(Ring') = length'
      /\ \A i \in 1 .. length' : Ring'[i] = container'[Cell(i)']
  <2>1. (RingOK => RingFacts)'
    BY RingIsSequence, PTL
  <2> QED BY <2>1 DEF RingFacts
<1>7. \A i \in 1 .. length' : Cell(i)' = Cell(i)
  BY <1>1 DEF Cell
<1>8. \A i \in 1 .. length : container'[Cell(i)] = container[Cell(i)]
  BY <1>1, <1>2, <1>3
<1>9. container'[Cell(length + 1)] = e
  BY <1>1, <1>3
<1>10. \A i \in 1 .. length' : i \in 1 .. length \/ i = length + 1
  BY <1>1, <1>3
<1>11. \A i \in 1 .. length' : Ring'[i] = Append(Ring, e)[i]
  BY <1>2, <1>5, <1>6, <1>7, <1>8, <1>9, <1>10
<1>12. Ring' = Append(Ring, e)
  BY <1>1, <1>5, <1>6, <1>11, SeqEqual
<1> QED BY <1>2, <1>3, <1>12

\* Each stretch of a queue is an operation of a channel, or hidden.
LEMMA QueueShows ==
    ASSUME CallersOK, QueueOK, RingOK, RingOK', init \in {0, 1}, QueueNext
    PROVE  [QueueAsFifo!Next]_(QueueAsFifo!vars)
<1>1. /\ object = "queue" /\ object' = "queue"
      /\ length \in Nat /\ max_length \in Nat
      /\ ChannelNow(length, max_length - length)
  BY DEF QueueNext, QueueOK
<1>2. RingFacts /\ RingFacts'
  <2>1. (RingOK => RingFacts)'
    BY RingIsSequence, PTL
  <2> QED BY <2>1, RingIsSequence
<1>3. UNCHANGED queue => Ring' = Ring
  BY DEF queue, Ring, Cell
<1>4. ASSUME NEW depth \in Depths, QueueInit(depth) PROVE QueueAsFifo!Create
  <2>1. Readers = {} /\ Writers = {} /\ Readers' = {} /\ Writers' = {}
    BY <1>4 DEF QueueInit, NobodyInside, Readers, Writers, At, callers
  <2>2. Ring' = <<>>
    BY <1>2, <1>4 DEF QueueInit, RingFacts
  <2> QED BY <1>1, <1>4, <2>1, <2>2 DEF QueueInit, QueueAsFifo!Create, Shown
<1>5. ASSUME NEW t \in Thread, QueuePend(t) PROVE QueueAsFifo!Take(t)
  <2>1. /\ init = 1 /\ init' = 1 /\ got' = [got EXCEPT ![t] = container[tail]]
        /\ max_length' = max_length
    BY <1>5 DEF QueuePend, ReadAndWake
  <2>2. Readers' = Readers \ {t} /\ Writers' = Writers
    BY <1>1, <1>5, WhoWaits DEF QueuePend
  <2>3. Ring # <<>> /\ Ring' = Tail(Ring) /\ container[tail] = Head(Ring)
    BY <1>5, PendTakesFirst
  <2> QED BY <1>1, <2>1, <2>2, <2>3 DEF QueueAsFifo!Take, Shown
<1>6. ASSUME NEW t \in Thread, QueuePendBlock(t) PROVE QueueAsFifo!WaitToTake(t)
  <2>1. /\ init = 1 /\ init' = 1 /\ got' = got /\ max_length' = max_length
        /\ Ring' = Ring /\ Ring = <<>>
    BY <1>2, <1>3, <1>6 DEF QueuePendBlock, WaitToRead, queue, RingFacts
  <2>2. Readers' = Readers \cup {t} /\ Writers' = Writers
    BY <1>1, <1>6, WhoWaits DEF QueuePendBlock
  <2> QED BY <1>1, <2>1, <2>2 DEF QueueAsFifo!WaitToTake, Shown
<1>7. ASSUME NEW t \in Thread, NEW e \in Element, QueuePost(t, e) PROVE QueueAsFifo!Put(t)
  <2>1. init = 1 /\ init' = 1 /\ got' = got /\ max_length' = max_length
    BY <1>7 DEF QueuePost, WriteAndWake
  <2>2. Readers' = Readers /\ Writers' = Writers \ {t}
    BY <1>1, <1>7, WhoWaits DEF QueuePost
  <2>3. Ring' = Append(Ring, e) /\ Len(Ring) < max_length
    BY <1>7, PostAppends
  <2> QED BY <1>1, <2>1, <2>2, <2>3 DEF QueueAsFifo!Put, Shown
<1>8. ASSUME NEW t \in Thread, NEW e \in Element, QueuePostBlock(t, e)
      PROVE  QueueAsFifo!WaitToPut(t)
  <2>1. /\ init = 1 /\ init' = 1 /\ got' = got /\ max_length' = max_length
        /\ Ring' = Ring /\ Len(Ring) = max_length
    BY <1>2, <1>3, <1>8 DEF QueuePostBlock, WaitToWrite, queue, RingFacts
  <2>2. Readers' = Readers /\ Writers' = Writers \cup {t}
    BY <1>1, <1>8, WhoWaits DEF QueuePostBlock
  <2> QED BY <1>1, <2>1, <2>2 DEF QueueAsFifo!WaitToPut, Shown
<1>9. ASSUME NEW t \in Thread, QueueUnlock(t) PROVE UNCHANGED QueueAsFifo!vars
  <2>1. /\ init' = init /\ got' = got /\ max_length' = max_length /\ Ring' = Ring
        /\ Unlock(t)
    BY <1>3, <1>9 DEF QueueUnlock, queue
  <2>2. Readers' = Readers /\ Writers' = Writers
    BY <1>1, <2>1, WhoWaits
  <2> QED BY <1>1, <2>1, <2>2 DEF QueueAsFifo!vars, Shown
<1>10. ASSUME NEW t \in Thread, QueueFail(t) PROVE QueueAsFifo!Refuse(t)
  <2>1. /\ init = 0 /\ init' = 0 /\ got' = got /\ max_length' = max_length /\ Ring' = Ring
        /\ FailWoken(t)
    BY <1>3, <1>10 DEF QueueFail, FailWoken, queue
  <2>2. \/ Readers' = Readers \ {t} /\ Writers' = Writers
        \/ Readers' = Readers /\ Writers' = Writers \ {t}
    BY <1>1, <2>1, WhoWaits
  <2> QED BY <1>1, <2>1, <2>2 DEF QueueAsFifo!Refuse, Shown
<1>11. ASSUME NEW t \in Thread, QueueDestroy(t) PROVE QueueAsFifo!Destroy
  <2>1. /\ init = 1 /\ init' = 0 /\ got' = got /\ max_length' = 0 /\ length' = 0
        /\ SendAllAway(t)
    BY <1>11 DEF QueueDestroy, SendAllAway
  <2>2. Readers' = Readers /\ Writers' = Writers
    BY <1>1, <2>1, WhoWaits
  <2>3. Ring' = <<>>
    BY <1>2, <2>1 DEF RingFacts
  <2> QED BY <1>1, <2>1, <2>2, <2>3 DEF QueueAsFifo!Destroy, Shown
<1> QED
  BY <1>4, <1>5, <1>6, <1>7, <1>8, <1>9, <1>10, <1>11 DEF QueueNext, QueueAsFifo!Next

\* What the channel shows of a queue stays, when the step is not one of it.
LEMMA QueueHidden ==
    ASSUME \/ object # "queue" /\ object' = object /\ UNCHANGED queue
           \/ UNCHANGED MCVars
    PROVE  UNCHANGED QueueAsFifo!vars /\ (RingOK => RingOK')
<1>1. UNCHANGED queue
  BY DEF MCVars
<1>2. Ring' = Ring /\ max_length' = max_length /\ (RingOK => RingOK')
  BY <1>1 DEF queue, Ring, Cell, RingOK
<1>3. CASE object # "queue" /\ object' = object
  BY <1>2, <1>3 DEF QueueAsFifo!vars, Shown
<1>4. CASE UNCHANGED MCVars
  BY <1>2, <1>4 DEF QueueAsFifo!vars, Shown, MCVars, callers, Readers, Writers, At
<1> QED BY <1>2, <1>3, <1>4

\* Before queue_init nothing is in the channel and nobody waits.
LEMMA QueueShowsInit == MCInit => QueueAsFifo!Init /\ RingOK
<1> SUFFICES ASSUME MCInit PROVE QueueAsFifo!Init /\ RingOK
  OBVIOUS
<1>1. /\ init = 0 /\ pc = [t \in Thread |-> "out"] /\ got = Nothings
      /\ head = 0 /\ tail = 0 /\ max_length = 0 /\ length = 0
      /\ container = [i \in 0 .. 0 |-> NULL]
  BY DEF MCInit, QueueInitial, ChannelInit, BlockingInit
<1>2. Readers = {} /\ Writers = {}
  BY <1>1 DEF Readers, Writers, At
<1>3. RingOK
  BY <1>1 DEF RingOK, Cell, Content
<1>4. Ring = <<>>
  BY <1>1, <1>3, RingIsSequence DEF RingFacts
<1> QED BY <1>1, <1>2, <1>3, <1>4 DEF QueueAsFifo!Init, Shown, Nothings

\* A queue never shows a caller anything but a first-in first-out channel of
\* the depth it was made with, for any number of threads and any depth (that
\* nobody waits for ever is the run's).
THEOREM QueueIsChannel == MCSpec => QueueAsFifo!Safety
<1>1. SyncInv /\ RingOK /\ [MCNext]_MCVars => RingOK' /\ [QueueAsFifo!Next]_(QueueAsFifo!vars)
  <2> SUFFICES ASSUME SyncInv, RingOK, [MCNext]_MCVars
               PROVE  RingOK' /\ [QueueAsFifo!Next]_(QueueAsFifo!vars)
    OBVIOUS
  <2>1. CASE QueueStep
    <3>1. QueueNext /\ object = "queue"
      BY <2>1 DEF QueueStep, QueueNext
    <3>2. RingOK'
      BY <3>1, RingStep
    <3> QED BY <3>1, <3>2, QueueShows DEF SyncInv
  <2>2. CASE MutexStep \/ MailboxStep
    <3>1. object # "queue" /\ object' = object /\ UNCHANGED queue
      BY <2>2 DEF MutexStep, MailboxStep, MutexNext, MailboxNext
    <3> QED BY <3>1, QueueHidden
  <2>3. CASE UNCHANGED MCVars
    BY <2>3, QueueHidden
  <2> QED BY <2>1, <2>2, <2>3 DEF MCNext
<1> QED
  BY <1>1, QueueShowsInit, SyncInit, SyncStep, PTL DEF MCSpec, QueueAsFifo!Safety

-----------------------------------------------------------------------------
(* Mutual exclusion, whatever the order in which threads pend, are woken,   *)
(* overtake, post and destroy                                              *)

\* Two holders are one, a free mutex has none, and the owner field of a
\* recursive mutex names its holder: that is why the owner may come in again.
HoldersAgree ==
    /\ holders \subseteq Thread
    /\ \A s, t \in holders : s = t
    /\ init = 1 /\ mutex_state = 1 => holders = {}
    /\ init = 1 /\ flags = "recursive" => \A t \in holders : t = locker_pid

\* Who passes the test of the loop finds nobody inside but itself.
LEMMA EntersAlone ==
    ASSUME HoldersAgree, init = 1, NEW t \in Thread, MayEnter(t)
    PROVE  holders \subseteq {t}
BY DEF HoldersAgree, MayEnter

\* Taking the mutex, by mutex_pend at once or after waiting.
LEMMA PendStep == ASSUME HoldersAgree, NEW t \in Thread, MutexPend(t) PROVE HoldersAgree'
<1>1. holders' = {t}
  BY EntersAlone DEF MutexPend
<1>2. mutex_state' = 0 /\ locker_pid' = t
  BY DEF MutexPend
<1> QED BY <1>1, <1>2 DEF HoldersAgree

\* mutex_try_pend does not write the owner: only a mutex that is not recursive
\* may be taken that way.
LEMMA TryPendStep ==
    ASSUME HoldersAgree, "recursive" \notin TryPends, NEW t \in Thread, MutexTryPend(t)
    PROVE  HoldersAgree'
<1>1. holders = {} /\ holders' = {t}
  BY DEF MutexTryPend, HoldersAgree
<1>2. mutex_state' = 0 /\ flags' = flags /\ flags # "recursive"
  BY DEF MutexTryPend
<1> QED BY <1>1, <1>2 DEF HoldersAgree

\* A holder leaves: nobody is left, so the mutex may become free.
LEMMA PostStep ==
    ASSUME HoldersAgree, NEW t \in Thread, MutexPost(t) \/ MutexPostFail(t)
    PROVE  HoldersAgree'
<1>1. holders' = holders \ {t} /\ t \in holders
  BY DEF MutexPost, MutexPostFail
<1>2. holders' = {}
  BY <1>1 DEF HoldersAgree
<1> QED BY <1>2 DEF HoldersAgree

\* Every other step leaves the holders alone and does not free the mutex, or
\* initialises it when there are none, or takes it out of use.
LEMMA OtherStep ==
    ASSUME HoldersAgree,
           \/ \E f \in Flags : MutexInit(f)
           \/ \E t \in Thread : \/ MutexPendBlock(t) \/ MutexPendFail(t)
                                \/ MutexUnlock(t) \/ MutexDestroy(t)
           \/ UNCHANGED mutex_vars
    PROVE  HoldersAgree'
<1>1. CASE \E f \in Flags : MutexInit(f)
  BY <1>1 DEF MutexInit, HoldersAgree
<1>2. CASE \E t \in Thread : MutexPendBlock(t) \/ MutexPendFail(t) \/ MutexUnlock(t)
  BY <1>2 DEF MutexPendBlock, MutexPendFail, MutexUnlock, mutex, HoldersAgree
<1>3. CASE \E t \in Thread : MutexDestroy(t)
  BY <1>3 DEF MutexDestroy, HoldersAgree
<1>4. CASE UNCHANGED mutex_vars
  BY <1>4 DEF mutex_vars, mutex, HoldersAgree
<1> QED BY <1>1, <1>2, <1>3, <1>4

\* Every step preserves the agreement.
LEMMA HoldersStep ==
    ASSUME "recursive" \notin TryPends
    PROVE  HoldersAgree /\ [MutexNext]_mutex_vars => HoldersAgree'
<1> SUFFICES ASSUME HoldersAgree, [MutexNext]_mutex_vars PROVE HoldersAgree'
  OBVIOUS
<1>1. CASE \E t \in Thread : MutexPend(t)
  BY <1>1, PendStep
<1>2. CASE \E t \in Thread : MutexTryPend(t)
  BY <1>2, TryPendStep
<1>3. CASE \E t \in Thread : MutexPost(t) \/ MutexPostFail(t)
  BY <1>3, PostStep
<1>4. CASE \/ \E f \in Flags : MutexInit(f)
           \/ \E t \in Thread : \/ MutexPendBlock(t) \/ MutexPendFail(t)
                                \/ MutexUnlock(t) \/ MutexDestroy(t)
           \/ UNCHANGED mutex_vars
  BY <1>4, OtherStep
<1> QED BY <1>1, <1>2, <1>3, <1>4 DEF MutexNext

\* From the agreement to the count of the holders.
LEMMA AgreementCounts == HoldersAgree => OneHolder
<1> SUFFICES ASSUME HoldersAgree PROVE Cardinality(holders) <= 1
  BY DEF HoldersAgree, OneHolder
<1>1. CASE holders = {}
  BY <1>1, FS_EmptySet
<1>2. CASE holders # {}
  <2>1. PICK t \in holders : TRUE
    BY <1>2
  <2>2. holders = {t}
    BY <2>1 DEF HoldersAgree
  <2> QED BY <2>2, FS_Singleton
<1> QED BY <1>1, <1>2

\* Mutual exclusion (mutex_pend, mutex_try_pend, mutex_post, mutex_destroy):
\* however many threads there are, at most one is inside and the mutex is free
\* only when none is, provided nobody calls mutex_try_pend on a recursive
\* mutex; with such calls it is false, as the run v_mutex shows.
THEOREM MutexExcludes ==
    ASSUME "recursive" \notin TryPends
    PROVE  MutexSpec => []OneHolder
<1>1. MutexInitial => HoldersAgree
  BY DEF MutexInitial, HoldersAgree
<1>2. HoldersAgree /\ [MutexNext]_mutex_vars => HoldersAgree'
  BY HoldersStep
<1> QED BY <1>1, <1>2, AgreementCounts, PTL DEF MutexSpec

-----------------------------------------------------------------------------
(* Types                                                                   *)

\* The fields SyncInv says nothing of.
FieldTypes ==
    /\ mutex_state \in {0, 1} /\ flags \in {"none", "recursive"}
    /\ locker_pid \in Thread \cup {NULL} /\ holders \subseteq Thread
    /\ waiting_threads \in WaitingLists
    /\ read_waiting_threads \in WaitingLists /\ write_waiting_threads \in WaitingLists
    /\ got \in [Thread -> Content] /\ item \in [Thread -> Content]
    /\ mailbox_state \in {0, 1} /\ value \in Content
    /\ RingOK

\* What the calls do to the waiting lists.
LEMMA ListsStayTyped ==
    /\ <<>> \in WaitingLists
    /\ \A list \in WaitingLists : Rest(list) \in WaitingLists
    /\ \A list \in WaitingLists, t \in Thread : EnlistData(list, t, 0) \in WaitingLists
<1>1. <<>> \in WaitingLists
  BY DEF WaitingLists
<1> QED BY <1>1, WaitingListFacts

LEMMA InitTypes ==
    ASSUME MCInit
    PROVE  FieldTypes
<1>1. RingOK
  BY QueueShowsInit
<1> QED
  BY <1>1, ListsStayTyped
  DEF MCInit, MutexInitial, MailboxInitial, QueueInitial, ChannelInit, Nothings, FieldTypes, Content

LEMMA MutexTypes ==
    ASSUME FieldTypes, MutexNext
    PROVE  /\ mutex_state' \in {0, 1} /\ flags' \in {"none", "recursive"}
           /\ locker_pid' \in Thread \cup {NULL} /\ holders' \subseteq Thread
           /\ waiting_threads' \in WaitingLists
<1> DEFINE Goal == /\ mutex_state' \in {0, 1} /\ flags' \in {"none", "recursive"}
                   /\ locker_pid' \in Thread \cup {NULL} /\ holders' \subseteq Thread
                   /\ waiting_threads' \in WaitingLists
<1>1. /\ mutex_state \in {0, 1} /\ flags \in {"none", "recursive"}
      /\ locker_pid \in Thread \cup {NULL} /\ holders \subseteq Thread
      /\ waiting_threads \in WaitingLists
  BY DEF FieldTypes
<1>2. ASSUME NEW f \in Flags, MutexInit(f) PROVE Goal
  BY <1>1, <1>2, MutexAssumption, ListsStayTyped DEF MutexInit
<1>3. ASSUME NEW t \in Thread, MutexPend(t) \/ MutexTryPend(t) PROVE Goal
  BY <1>1, <1>3 DEF MutexPend, MutexTryPend
<1>4. ASSUME NEW t \in Thread, MutexPendBlock(t) PROVE Goal
  <2>1. waiting_threads' = EnlistData(waiting_threads, t, 0)
    BY <1>4 DEF MutexPendBlock
  <2>2. waiting_threads' \in WaitingLists
    BY <1>1, <2>1, ListsStayTyped
  <2> QED BY <1>1, <1>4, <2>2 DEF MutexPendBlock
<1>5. ASSUME NEW t \in Thread, MutexPost(t) PROVE Goal
  <2>1. waiting_threads' \in WaitingLists
    BY <1>1, <1>5, ListsStayTyped DEF MutexPost
  <2> QED BY <1>1, <1>5, <2>1 DEF MutexPost
<1>6. ASSUME NEW t \in Thread, MutexDestroy(t) PROVE Goal
  BY <1>1, <1>6, ListsStayTyped DEF MutexDestroy
<1>7. ASSUME NEW t \in Thread, MutexPendFail(t) \/ MutexUnlock(t) \/ MutexPostFail(t) PROVE Goal
  BY <1>1, <1>7 DEF MutexPendFail, MutexUnlock, MutexPostFail, mutex
<1> QED BY <1>2, <1>3, <1>4, <1>5, <1>6, <1>7 DEF MutexNext

\* The fields a mailbox and a queue have in common.
ChannelFields ==
    /\ read_waiting_threads \in WaitingLists /\ write_waiting_threads \in WaitingLists
    /\ got \in [Thread -> Content] /\ item \in [Thread -> Content]

LEMMA ChannelTypes ==
    ASSUME ChannelFields, NEW t \in Thread
    PROVE  /\ \A e \in Content : ReadAndWake(t, e) => ChannelFields'
           /\ WriteAndWake(t) => ChannelFields'
           /\ WaitToRead(t) => ChannelFields'
           /\ \A e \in Element : WaitToWrite(t, e) => ChannelFields'
           /\ FailWoken(t) => ChannelFields'
           /\ SendAllAway(t) => ChannelFields'
<1>1. /\ read_waiting_threads \in WaitingLists /\ write_waiting_threads \in WaitingLists
      /\ got \in [Thread -> Content] /\ item \in [Thread -> Content]
      /\ NULL \in Content /\ Element \subseteq Content
  BY DEF ChannelFields, Content
<1>2. ASSUME NEW e \in Content, ReadAndWake(t, e) PROVE ChannelFields'
  BY <1>1, <1>2, ListsStayTyped DEF ReadAndWake, ChannelFields
<1>3. ASSUME WriteAndWake(t) PROVE ChannelFields'
  BY <1>1, <1>3, ListsStayTyped DEF WriteAndWake, ChannelFields
<1>4. ASSUME WaitToRead(t) PROVE ChannelFields'
  BY <1>1, <1>4, ListsStayTyped DEF WaitToRead, ChannelFields
<1>5. ASSUME NEW e \in Element, WaitToWrite(t, e) PROVE ChannelFields'
  BY <1>1, <1>5, ListsStayTyped DEF WaitToWrite, ChannelFields
<1>6. ASSUME FailWoken(t) PROVE ChannelFields'
  BY <1>1, <1>6 DEF FailWoken, ChannelFields, waiting
<1>7. ASSUME SendAllAway(t) PROVE ChannelFields'
  BY <1>1, <1>7, ListsStayTyped DEF SendAllAway, ChannelFields
<1> QED BY <1>2, <1>3, <1>4, <1>5, <1>6, <1>7

LEMMA MailboxTypes ==
    ASSUME FieldTypes, MailboxNext
    PROVE  ChannelFields' /\ mailbox_state' \in {0, 1} /\ value' \in Content
<1> DEFINE Goal == ChannelFields' /\ mailbox_state' \in {0, 1} /\ value' \in Content
<1>1. ChannelFields /\ mailbox_state \in {0, 1} /\ value \in Content
      /\ NULL \in Content /\ Element \subseteq Content
  BY DEF FieldTypes, ChannelFields, Content
<1>2. ASSUME MailboxInit PROVE Goal
  BY <1>1, <1>2 DEF MailboxInit, ChannelFields, waiting
<1>3. ASSUME NEW t \in Thread, MailboxPend(t) PROVE Goal
  BY <1>1, <1>3, ChannelTypes DEF MailboxPend
<1>4. ASSUME NEW t \in Thread, MailboxPendBlock(t) PROVE Goal
  BY <1>1, <1>4, ChannelTypes DEF MailboxPendBlock, mailbox
<1>5. ASSUME NEW t \in Thread, NEW e \in Element, MailboxPost(t, e) PROVE Goal
  BY <1>1, <1>5, ChannelTypes DEF MailboxPost
<1>6. ASSUME NEW t \in Thread, NEW e \in Element, MailboxPostBlock(t, e) PROVE Goal
  BY <1>1, <1>6, ChannelTypes DEF MailboxPostBlock, mailbox
<1>7. ASSUME NEW t \in Thread, MailboxUnlock(t) PROVE Goal
  BY <1>1, <1>7 DEF MailboxUnlock, mailbox, waiting, ChannelFields
<1>8. ASSUME NEW t \in Thread, MailboxFail(t) PROVE Goal
  BY <1>1, <1>8, ChannelTypes DEF MailboxFail, mailbox
<1>9. ASSUME NEW t \in Thread, MailboxDestroy(t) PROVE Goal
  BY <1>1, <1>9, ChannelTypes DEF MailboxDestroy
<1> QED BY <1>2, <1>3, <1>4, <1>5, <1>6, <1>7, <1>8, <1>9 DEF MailboxNext

LEMMA QueueTypes ==
    ASSUME FieldTypes, QueueNext
    PROVE  ChannelFields'
<1>1. ChannelFields /\ RingOK
  BY DEF FieldTypes, ChannelFields
<1>2. ASSUME NEW depth \in Depths, QueueInit(depth) PROVE ChannelFields'
  BY <1>1, <1>2 DEF QueueInit, ChannelFields, waiting
<1>3. ASSUME NEW t \in Thread, QueuePend(t) PROVE ChannelFields'
  <2>1. container[tail] \in Content
    BY <1>1 DEF RingOK
  <2> QED BY <1>1, <1>3, <2>1, ChannelTypes DEF QueuePend
<1>4. ASSUME NEW t \in Thread, QueuePendBlock(t) PROVE ChannelFields'
  BY <1>1, <1>4, ChannelTypes DEF QueuePendBlock
<1>5. ASSUME NEW t \in Thread, NEW e \in Element, QueuePost(t, e) PROVE ChannelFields'
  BY <1>1, <1>5, ChannelTypes DEF QueuePost
<1>6. ASSUME NEW t \in Thread, NEW e \in Element, QueuePostBlock(t, e) PROVE ChannelFields'
  BY <1>1, <1>6, ChannelTypes DEF QueuePostBlock
<1>7. ASSUME NEW t \in Thread, QueueUnlock(t) PROVE ChannelFields'
  BY <1>1, <1>7 DEF QueueUnlock, waiting, ChannelFields
<1>8. ASSUME NEW t \in Thread, QueueFail(t) PROVE ChannelFields'
  BY <1>1, <1>8, ChannelTypes DEF QueueFail
<1>9. ASSUME NEW t \in Thread, QueueDestroy(t) PROVE ChannelFields'
  BY <1>1, <1>9, ChannelTypes DEF QueueDestroy
<1> QED BY <1>2, <1>3, <1>4, <1>5, <1>6, <1>7, <1>8, <1>9 DEF QueueNext

\* TypesOK, for any number of threads and elements and any depths: the fields
\* of the three structures have their types, and the indices of the ring their
\* ranges.
THEOREM SyncTypes == MCSpec => []TypesOK
<1>1. FieldTypes /\ [MCNext]_MCVars => FieldTypes'
  <2> SUFFICES ASSUME FieldTypes, [MCNext]_MCVars PROVE FieldTypes'
    OBVIOUS
  <2>1. CASE MutexStep
    <3>1. /\ MutexNext /\ UNCHANGED <<mailbox, queue, got, item, waiting>>
          /\ object # "queue" /\ object' = object
      BY <2>1 DEF MutexStep, MutexNext
    <3>2. RingOK'
      BY <3>1, QueueHidden DEF FieldTypes
    <3> QED BY <3>1, <3>2, MutexTypes DEF FieldTypes, mailbox, waiting
  <2>2. CASE MailboxStep
    <3>1. /\ MailboxNext /\ UNCHANGED <<mutex, holders, queue>>
          /\ object # "queue" /\ object' = object
      BY <2>2 DEF MailboxStep, MailboxNext
    <3>2. RingOK'
      BY <3>1, QueueHidden DEF FieldTypes
    <3> QED BY <3>1, <3>2, MailboxTypes DEF FieldTypes, mutex, ChannelFields
  <2>3. CASE QueueStep
    <3>1. QueueNext /\ UNCHANGED <<mutex, holders, mailbox>>
      BY <2>3 DEF QueueStep
    <3>2. RingOK'
      BY <3>1, RingStep DEF FieldTypes
    <3> QED BY <3>1, <3>2, QueueTypes DEF FieldTypes, mutex, mailbox, ChannelFields
  <2>4. CASE UNCHANGED MCVars
    <3>1. RingOK'
      BY <2>4, QueueHidden DEF FieldTypes
    <3> QED BY <2>4, <3>1 DEF FieldTypes, MCVars, mutex, waiting, mailbox
  <2> QED BY <2>1, <2>2, <2>3, <2>4 DEF MCNext
<1>2. SyncInv /\ FieldTypes => TypesOK
  BY DEF SyncInv, CallersOK, Points, FieldTypes, TypesOK, MutexTypeOK, MailboxTypeOK, QueueTypeOK,
         ChannelTypeOK, BlockingTypeOK, RingOK, Content
<1>3. MCInit => FieldTypes
  BY InitTypes
<1> QED BY <1>1, <1>2, <1>3, SyncInit, SyncStep, PTL DEF MCSpec
==============================================================================
