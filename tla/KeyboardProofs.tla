--------------------------- MODULE KeyboardProofs ----------------------------
(***************************************************************************)
(* drivers/keyboard.c: no call of the driver on its mutex or semaphore     *)
(* fails, and readers get their lines as from a line editor, for any       *)
(* number of readers, all sizes of their buffers, and interrupts that fall *)
(* anywhere between the steps of the calls.                                *)
(***************************************************************************)
EXTENDS Keyboard, SequenceTheorems, TLAPS

Character == {"nul", "letter", "LETTER", "return", "backspace"}

\* The types of the variables, and a call for whoever is in one.
KeyboardShape ==
    /\ TypeOK
    /\ buffer \in [Thread -> [Cells -> Character]]
    /\ asked \in [Thread -> Calls \cup {NoCall}]
    /\ \A t \in Thread : pc[t] # "out" => asked[t] \in Calls
    /\ result \in [Thread -> Cells]

\* Who waits for the mutex is blocked there, and is on its list once.
WaitersBlocked ==
    /\ \A i \in 1 .. Len(waiting_mutex) : pc[waiting_mutex[i]] = "lock_blocked"
    /\ \A i, j \in 1 .. Len(waiting_mutex) : waiting_mutex[i] = waiting_mutex[j] => i = j

\* The mutex keeps the readers apart.
OneReader == \A t \in Thread : t \in Serving <=> t = kbd_mutex

\* While type is set its owner has the mutex, is at the semaphore, and has
\* room for one character at least.
ArmedForOwner ==
    kbd_buf.type # 0 =>
        /\ kbd_buf.char_buf \in Thread /\ kbd_buf.char_buf = kbd_mutex
        /\ pc[kbd_mutex] \in {"pend", "pend_blocked"}
        /\ sem.level = 0
        /\ kbd_buf.read_size \in Sizes \cup {1} /\ kbd_buf.read <= kbd_buf.read_size

\* The semaphore is there for whoever uses it, empty until the line is
\* complete, and a reader that sleeps is its waiter or about to be woken.
SemaphoreReady ==
    \A t \in Thread :
        /\ pc[t] \in {"arm", "pend", "pend_blocked", "destroy"} => sem.init = 1
        /\ pc[t] = "arm" => sem.level = 0
        /\ pc[t] = "pend" /\ kbd_buf.type = 0 => sem.level = 1
        /\ pc[t] = "pend_blocked" =>
              IF kbd_buf.type # 0 THEN sem.waiter = t
              ELSE handler.point = "wake" /\ handler.wakee = t /\ sem.level = 1
        /\ sem.waiter = t => pc[t] = "pend_blocked"

\* The handler between sem_post and its end.
HandlerPlaced ==
    /\ handler.point = "wake" => /\ handler.wakee \in Thread /\ sem.waiter = NULL
                                 /\ pc[handler.wakee] = "pend_blocked"
                                 /\ kbd_buf.type = 0
    /\ handler.host = NULL <=> handler.point = "none"

\* The inductive invariant.
KeyboardInv ==
    /\ KeyboardShape /\ WaitersBlocked /\ OneReader
    /\ ArmedForOwner /\ SemaphoreReady /\ HandlerPlaced

Places == {"out", "lock", "lock_blocked", "sem_init", "arm", "pend", "pend_blocked",
           "destroy", "release"}

-----------------------------------------------------------------------------
(* Sizes, cells and what has the processor                                 *)

\* There is a cell for every character of the largest buffer, and one more.
LEMMA CellsFit ==
    /\ Cells \subseteq Nat /\ 0 \in Cells /\ 1 \in Cells
    /\ \A n \in Sizes \cup {1} : n \in Nat \ {0} /\ \A i \in 0 .. n : i \in Cells
<1> DEFINE largest == CHOOSE n \in Sizes : \A m \in Sizes : m <= n
<1>1. \E n \in Sizes : \A m \in Sizes : m <= n
  BY KeyboardAssumption
<1>2. largest \in Sizes /\ \A m \in Sizes : m <= largest
  BY <1>1
<1>3. Cells = 0 .. largest
  BY DEF Cells
<1> HIDE DEF largest
<1>4. largest \in Nat /\ largest >= 1
  BY <1>2, KeyboardAssumption
<1> QED BY <1>2, <1>3, <1>4, KeyboardAssumption

\* Whoever has the processor, or gets it, is a thread or idle.
LEMMA RunnerKnown ==
    ASSUME KeyboardInv
    PROVE  /\ MayRun \subseteq Thread \cup {idle}
           /\ \A h \in MayRun : Runner(h) => lingering' \in Thread \cup {idle, NULL}
<1>1. lingering \in Thread \cup {idle, NULL}
  BY DEF KeyboardInv, KeyboardShape, TypeOK
<1>2. MayRun \subseteq Thread \cup {idle}
  BY <1>1 DEF MayRun, Ready
<1> QED BY <1>2 DEF Runner

-----------------------------------------------------------------------------
(* The invariant holds at first and after every step                       *)

LEMMA KeyboardInitInv == Init => KeyboardInv
<1> SUFFICES ASSUME Init PROVE KeyboardInv
  OBVIOUS
<1>1. KeyboardShape
  <2>1. Blank \in [Cells -> Character]
    BY DEF Blank, Character
  <2>2. <<>> \in Seq(Thread)
    OBVIOUS
  <2>3. TypeOK
    BY <2>2, CellsFit, KeyboardAssumption DEF Init, TypeOK, ClearBuf, NoHandler
  <2> QED BY <2>1, <2>3, CellsFit DEF Init, KeyboardShape
<1>2. WaitersBlocked /\ OneReader
  BY KeyboardAssumption DEF Init, WaitersBlocked, OneReader, Serving
<1>3. ArmedForOwner /\ SemaphoreReady /\ HandlerPlaced
  BY KeyboardAssumption DEF Init, ArmedForOwner, SemaphoreReady, HandlerPlaced, ClearBuf, NoHandler
<1> QED BY <1>1, <1>2, <1>3 DEF KeyboardInv

\* A call is made; the mutex is taken, or waited for.
LEMMA CallStep == ASSUME KeyboardInv, NEW t \in Thread, Call(t) PROVE KeyboardInv'
<1> USE DEF KeyboardInv
<1>1. PICK c \in Calls : asked' = [asked EXCEPT ![t] = c]
  BY DEF Call
<1>2. KeyboardShape'
  BY <1>1 DEF Call, KeyboardShape, TypeOK
<1>3. WaitersBlocked' /\ OneReader'
  BY DEF Call, WaitersBlocked, OneReader, Serving, KeyboardShape, TypeOK
<1>4. ArmedForOwner' /\ SemaphoreReady' /\ HandlerPlaced'
  BY DEF Call, ArmedForOwner, SemaphoreReady, HandlerPlaced, KeyboardShape, TypeOK
<1> QED BY <1>2, <1>3, <1>4

LEMMA LockStep == ASSUME KeyboardInv, NEW t \in Thread, Lock(t) PROVE KeyboardInv'
<1> USE DEF KeyboardInv
<1>2. KeyboardShape'
  BY DEF Lock, Step, Runs, KeyboardShape, TypeOK
<1>3. WaitersBlocked' /\ OneReader'
  BY KeyboardAssumption DEF Lock, Step, Runs, WaitersBlocked, OneReader, Serving, KeyboardShape, TypeOK
<1>4. ArmedForOwner' /\ SemaphoreReady' /\ HandlerPlaced'
  BY KeyboardAssumption DEF Lock, Step, Runs, ArmedForOwner, SemaphoreReady, HandlerPlaced, KeyboardShape, TypeOK
<1> QED BY <1>2, <1>3, <1>4

\* The thread is appended to those that wait for the mutex.
LEMMA LockBlockStep == ASSUME KeyboardInv, NEW t \in Thread, LockBlock(t) PROVE KeyboardInv'
<1> USE DEF KeyboardInv
<1>1. KeyboardShape'
  BY CellsFit DEF LockBlock, StepAndWait, Wait, Runs, KeyboardShape, TypeOK
<1>2. WaitersBlocked' /\ OneReader'
  BY KeyboardAssumption DEF LockBlock, StepAndWait, Wait, Runs, WaitersBlocked, OneReader, Serving, KeyboardShape, TypeOK
<1>3. ArmedForOwner'
  BY KeyboardAssumption DEF LockBlock, StepAndWait, Wait, Runs, ArmedForOwner, OneReader, Serving, KeyboardShape, TypeOK
<1>4. SemaphoreReady'
  BY KeyboardAssumption DEF LockBlock, StepAndWait, Wait, Runs, ArmedForOwner, SemaphoreReady, OneReader, Serving, KeyboardShape, TypeOK
<1>5. HandlerPlaced'
  BY KeyboardAssumption DEF LockBlock, StepAndWait, Wait, Runs, HandlerPlaced, SemaphoreReady, KeyboardShape, TypeOK
<1> QED BY <1>1, <1>2, <1>3, <1>4, <1>5

\* sem_init, by the thread that has the mutex: the semaphore is empty.
LEMMA SemInitStep == ASSUME KeyboardInv, NEW t \in Thread, SemInit(t) PROVE KeyboardInv'
<1> USE DEF KeyboardInv
<1>1. KeyboardShape'
  BY CellsFit DEF SemInit, Step, Runs, KeyboardShape, TypeOK
<1>2. WaitersBlocked' /\ OneReader'
  BY KeyboardAssumption DEF SemInit, Step, Runs, WaitersBlocked, OneReader, Serving, KeyboardShape, TypeOK
<1>3. ArmedForOwner'
  BY KeyboardAssumption DEF SemInit, Step, Runs, ArmedForOwner, OneReader, Serving, KeyboardShape, TypeOK
<1>4. SemaphoreReady'
  BY KeyboardAssumption DEF SemInit, Step, Runs, ArmedForOwner, SemaphoreReady, OneReader, Serving, KeyboardShape, TypeOK
<1>5. HandlerPlaced'
  BY KeyboardAssumption DEF SemInit, Step, Runs, HandlerPlaced, SemaphoreReady, KeyboardShape, TypeOK
<1> QED BY <1>1, <1>2, <1>3, <1>4, <1>5

\* kbd_buf is filled for the owner of the mutex; it is still empty of characters.
LEMMA ArmStep == ASSUME KeyboardInv, NEW t \in Thread, Arm(t) PROVE KeyboardInv'
<1> USE DEF KeyboardInv
<1>1. KeyboardShape'
  BY CellsFit DEF Arm, Step, Runs, Calls, KeyboardShape, TypeOK
<1>2. WaitersBlocked' /\ OneReader'
  BY KeyboardAssumption DEF Arm, Step, Runs, Calls, WaitersBlocked, OneReader, Serving, KeyboardShape, TypeOK
<1>3. ArmedForOwner'
  <2>1. asked[t].type \in {1, 2} /\ asked[t].size \in Sizes \cup {1}
    BY DEF Arm, Step, Runs, Calls, KeyboardShape
  <2>2. 0 <= asked[t].size
    BY <2>1, CellsFit
  <2>3. /\ kbd_buf'.char_buf = t /\ kbd_buf'.read = 0 /\ kbd_buf'.read_size = asked[t].size
        /\ kbd_mutex' = kbd_mutex /\ pc'[t] = "pend" /\ sem' = sem /\ pc[t] = "arm"
    BY DEF Arm, Step, Runs, KeyboardShape, TypeOK
  <2>4. t = kbd_mutex /\ sem.level = 0
    BY <2>3 DEF OneReader, Serving, SemaphoreReady
  <2> QED BY <2>1, <2>2, <2>3, <2>4 DEF ArmedForOwner
<1>4. SemaphoreReady'
  BY KeyboardAssumption DEF Arm, Step, Runs, Calls, ArmedForOwner, SemaphoreReady, OneReader, Serving, KeyboardShape, TypeOK
<1>5. HandlerPlaced'
  BY KeyboardAssumption DEF Arm, Step, Runs, Calls, HandlerPlaced, SemaphoreReady, KeyboardShape, TypeOK
<1> QED BY <1>1, <1>2, <1>3, <1>4, <1>5

\* sem_pend takes the level that Complete left.
LEMMA PendStep == ASSUME KeyboardInv, NEW t \in Thread, Pend(t) PROVE KeyboardInv'
<1> USE DEF KeyboardInv
<1>1. KeyboardShape'
  <2>1. sem.level - 1 \in {0, 1}
    BY DEF Pend, KeyboardShape, TypeOK
  <2>2. sem' \in [init : {0, 1}, level : {0, 1}, waiter : Thread \cup {NULL}]
    BY <2>1 DEF Pend, KeyboardShape, TypeOK
  <2> QED BY <2>2 DEF Pend, Step, Runs, KeyboardShape, TypeOK
<1>2. WaitersBlocked' /\ OneReader'
  BY KeyboardAssumption DEF Pend, Step, Runs, WaitersBlocked, OneReader, Serving, KeyboardShape, TypeOK
<1>3. ArmedForOwner'
  BY KeyboardAssumption DEF Pend, Step, Runs, ArmedForOwner, OneReader, Serving, KeyboardShape, TypeOK
<1>4. SemaphoreReady'
  BY KeyboardAssumption DEF Pend, Step, Runs, ArmedForOwner, SemaphoreReady, OneReader, Serving, KeyboardShape, TypeOK
<1>5. HandlerPlaced'
  BY KeyboardAssumption DEF Pend, Step, Runs, HandlerPlaced, SemaphoreReady, KeyboardShape, TypeOK
<1> QED BY <1>1, <1>2, <1>3, <1>4, <1>5

\* The thread sleeps as the waiter of the semaphore: type is set, so it is to be
\* completed.
LEMMA PendBlockStep == ASSUME KeyboardInv, NEW t \in Thread, PendBlock(t) PROVE KeyboardInv'
<1> USE DEF KeyboardInv
<1>1. KeyboardShape'
  <2>1. sem' \in [init : {0, 1}, level : {0, 1}, waiter : Thread \cup {NULL}]
    BY DEF PendBlock, KeyboardShape, TypeOK
  <2>2. pc' \in [Thread -> Places] /\ lingering' \in Thread \cup {idle, NULL} /\ pc[t] # "out"
    BY DEF PendBlock, StepAndWait, Wait, Runs, KeyboardShape, TypeOK, Places
  <2>3. TypeOK'
    BY <2>1, <2>2 DEF PendBlock, KeyboardShape, TypeOK, Places
  <2>4. \A u \in Thread : pc'[u] # "out" => asked'[u] \in Calls
    BY <2>2 DEF PendBlock, StepAndWait, KeyboardShape, TypeOK
  <2> QED BY <2>3, <2>4 DEF PendBlock, KeyboardShape
<1>2. WaitersBlocked' /\ OneReader'
  BY KeyboardAssumption DEF PendBlock, StepAndWait, Wait, Runs, WaitersBlocked, OneReader, Serving, KeyboardShape, TypeOK
<1>3. ArmedForOwner'
  BY KeyboardAssumption DEF PendBlock, StepAndWait, Wait, Runs, ArmedForOwner, OneReader, Serving, KeyboardShape, TypeOK
<1>4. SemaphoreReady'
  BY KeyboardAssumption DEF PendBlock, StepAndWait, Wait, Runs, ArmedForOwner, SemaphoreReady, OneReader, Serving, KeyboardShape, TypeOK
<1>5. HandlerPlaced'
  BY KeyboardAssumption DEF PendBlock, StepAndWait, Wait, Runs, HandlerPlaced, SemaphoreReady, KeyboardShape, TypeOK
<1> QED BY <1>1, <1>2, <1>3, <1>4, <1>5

\* sem_destroy, by a thread whose line is complete.
LEMMA SemDestroyStep == ASSUME KeyboardInv, NEW t \in Thread, SemDestroy(t) PROVE KeyboardInv'
<1> USE DEF KeyboardInv
<1>1. KeyboardShape'
  BY CellsFit DEF SemDestroy, Step, Runs, KeyboardShape, TypeOK
<1>2. WaitersBlocked' /\ OneReader'
  BY KeyboardAssumption DEF SemDestroy, Step, Runs, WaitersBlocked, OneReader, Serving, KeyboardShape, TypeOK
<1>3. ArmedForOwner'
  BY KeyboardAssumption DEF SemDestroy, Step, Runs, ArmedForOwner, OneReader, Serving, KeyboardShape, TypeOK
<1>4. SemaphoreReady'
  BY KeyboardAssumption DEF SemDestroy, Step, Runs, ArmedForOwner, SemaphoreReady, OneReader, Serving, KeyboardShape, TypeOK
<1>5. HandlerPlaced'
  BY KeyboardAssumption DEF SemDestroy, Step, Runs, HandlerPlaced, SemaphoreReady, KeyboardShape, TypeOK
<1> QED BY <1>1, <1>2, <1>3, <1>4, <1>5

\* mutex_post hands the mutex to the first thread that waits, which has to try
\* again.
LEMMA ReleaseStep == ASSUME KeyboardInv, NEW t \in Thread, Release(t) PROVE KeyboardInv'
<1> USE DEF KeyboardInv
<1> DEFINE first == Head(waiting_mutex)
<1>1. pc[t] = "release" /\ t = kbd_mutex /\ kbd_buf.type = 0
  BY DEF Release, Runs, OneReader, Serving, ArmedForOwner
<1>2. /\ kbd_buf' = ClearBuf /\ kbd_mutex' = NULL /\ sem' = sem /\ handler' = handler
      /\ keyboard_flags' = keyboard_flags
      /\ buffer' = [buffer EXCEPT ![t] = Blank] /\ asked' = [asked EXCEPT ![t] = NoCall]
      /\ result' = [result EXCEPT ![t] = 0]
  BY DEF Release
<1>3. waiting_mutex # <<>> => /\ first \in Thread /\ pc[first] = "lock_blocked" /\ first # t
                             /\ Tail(waiting_mutex) \in Seq(Thread)
                             /\ Len(Tail(waiting_mutex)) = Len(waiting_mutex) - 1
                             /\ \A i \in 1 .. Len(waiting_mutex) - 1 :
                                   /\ Tail(waiting_mutex)[i] = waiting_mutex[i + 1]
                                   /\ waiting_mutex[i + 1] # first
  <2> SUFFICES ASSUME waiting_mutex # <<>>
               PROVE  /\ first \in Thread /\ pc[first] = "lock_blocked" /\ first # t
                      /\ Tail(waiting_mutex) \in Seq(Thread)
                      /\ Len(Tail(waiting_mutex)) = Len(waiting_mutex) - 1
                      /\ \A i \in 1 .. Len(waiting_mutex) - 1 :
                            /\ Tail(waiting_mutex)[i] = waiting_mutex[i + 1]
                            /\ waiting_mutex[i + 1] # first
    OBVIOUS
  <2>1. waiting_mutex \in Seq(Thread)
    BY DEF KeyboardShape, TypeOK
  <2>2. /\ Len(waiting_mutex) \in Nat /\ Len(waiting_mutex) >= 1
        /\ first = waiting_mutex[1] /\ first \in Thread
        /\ Tail(waiting_mutex) \in Seq(Thread)
        /\ Len(Tail(waiting_mutex)) = Len(waiting_mutex) - 1
        /\ \A i \in 1 .. Len(waiting_mutex) - 1 : Tail(waiting_mutex)[i] = waiting_mutex[i + 1]
    BY <2>1, HeadTailProperties, LenProperties, EmptySeq
  <2>3. pc[first] = "lock_blocked" /\ \A i \in 1 .. Len(waiting_mutex) - 1 : waiting_mutex[i + 1] # waiting_mutex[1]
    BY <2>2 DEF WaitersBlocked
  <2> QED BY <1>1, <2>2, <2>3
<1> HIDE DEF first
<1>4. \/ /\ waiting_mutex = <<>> /\ waiting_mutex' = <<>>
         /\ pc' = [pc EXCEPT ![t] = "out"]
      \/ /\ waiting_mutex # <<>> /\ waiting_mutex' = Tail(waiting_mutex)
         /\ pc' = [pc EXCEPT ![t] = "out", ![first] = "lock"]
  BY DEF Release, first
<1>5. \A u \in Thread : pc'[u] = IF u = t THEN "out"
                                 ELSE IF waiting_mutex # <<>> /\ u = first THEN "lock" ELSE pc[u]
  BY <1>3, <1>4 DEF KeyboardShape, TypeOK
<1>6. KeyboardShape'
  <2>1. lingering' \in Thread \cup {idle, NULL}
    BY DEF Release, Wait
  <2>2. pc' \in [Thread -> Places] /\ waiting_mutex' \in Seq(Thread)
    <3>1. pc \in [Thread -> Places] /\ waiting_mutex \in Seq(Thread)
      BY DEF KeyboardShape, TypeOK, Places
    <3>2. waiting_mutex' \in Seq(Thread)
      BY <1>3, <1>4, <3>1
    <3>3. pc' \in [Thread -> Places]
      BY <1>4, <3>1 DEF Places
    <3> QED BY <3>2, <3>3
  <2>3. Blank \in [Cells -> Character] /\ ClearBuf.read \in Cells
    BY CellsFit DEF Blank, Character, ClearBuf
  <2>4. TypeOK'
    BY <1>2, <2>1, <2>2, <2>3 DEF KeyboardShape, TypeOK, Places, ClearBuf
  <2>5. \A u \in Thread : pc'[u] # "out" => asked'[u] \in Calls
    BY <1>1, <1>2, <1>3, <1>5 DEF KeyboardShape
  <2> QED BY <1>2, <2>3, <2>4, <2>5, CellsFit DEF KeyboardShape
<1>7. WaitersBlocked'
  <2>1. CASE waiting_mutex = <<>>
    <3>1. Len(waiting_mutex') = 0
      BY <1>4, <2>1
    <3> QED BY <3>1 DEF WaitersBlocked
  <2>2. CASE waiting_mutex # <<>>
    <3>1. /\ Len(waiting_mutex') = Len(waiting_mutex) - 1 /\ Len(waiting_mutex) \in Nat
          /\ \A i \in 1 .. Len(waiting_mutex) - 1 :
                /\ waiting_mutex'[i] = waiting_mutex[i + 1] /\ waiting_mutex[i + 1] # first
                /\ waiting_mutex[i + 1] \in Thread
      <4>1. Len(waiting_mutex) \in Nat /\ \A i \in 1 .. Len(waiting_mutex) : waiting_mutex[i] \in Thread
        BY LenProperties, ElementOfSeq DEF KeyboardShape, TypeOK
      <4>2. waiting_mutex' = Tail(waiting_mutex)
        BY <1>4, <2>2
      <4> QED BY <1>3, <2>2, <4>1, <4>2
    <3>2. \A i \in 1 .. Len(waiting_mutex) - 1 :
              pc[waiting_mutex[i + 1]] = "lock_blocked" /\ waiting_mutex[i + 1] # t
      BY <1>1, <3>1 DEF WaitersBlocked
    <3>3. \A i \in 1 .. Len(waiting_mutex)' : pc'[waiting_mutex'[i]] = "lock_blocked"
      BY <1>5, <3>1, <3>2
    <3>4. \A i, j \in 1 .. Len(waiting_mutex)' : waiting_mutex'[i] = waiting_mutex'[j] => i = j
      BY <3>1 DEF WaitersBlocked
    <3> QED BY <3>3, <3>4 DEF WaitersBlocked
  <2> QED BY <2>1, <2>2
<1>8. OneReader'
  BY <1>1, <1>2, <1>3, <1>5, KeyboardAssumption DEF OneReader, Serving
<1>9. ArmedForOwner' /\ SemaphoreReady'
  BY <1>1, <1>2, <1>3, <1>5 DEF ArmedForOwner, SemaphoreReady, OneReader, Serving, ClearBuf
<1>10. HandlerPlaced'
  BY <1>1, <1>2, <1>3, <1>5 DEF HandlerPlaced, ClearBuf
<1> QED BY <1>6, <1>7, <1>8, <1>9, <1>10

-----------------------------------------------------------------------------
(* The handler                                                             *)

\* What the handler may find: every step of it keeps the readers where they
\* are until HandlerUnlock, and their calls and results.
LEMMA InterruptKeeps ==
    ASSUME KeyboardInv, NEW h, Interrupt(h)
    PROVE  /\ kbd_mutex' = kbd_mutex /\ waiting_mutex' = waiting_mutex
           /\ asked' = asked /\ result' = result
           /\ h \in Thread \cup {idle} /\ handler.host = NULL /\ handler.point = "none"
           /\ lingering' \in Thread \cup {idle, NULL}
<1>1. h \in MayRun /\ Runner(h)
  BY DEF Interrupt
<1> QED BY <1>1, RunnerKnown DEF Interrupt, KeyboardInv, HandlerPlaced

\* A handler that has nothing to do, or notes a shift key.
LEMMA PassStep ==
    ASSUME KeyboardInv, NEW h, NEW key, NothingToDo(h, key) \/ Shift(h, key)
    PROVE  KeyboardInv'
<1> USE DEF KeyboardInv
<1>1. Interrupt(h)
  BY DEF NothingToDo, Shift
<1>2. /\ sem' = sem /\ kbd_buf' = kbd_buf /\ buffer' = buffer /\ pc' = pc /\ handler' = handler
  BY DEF NothingToDo, Shift
<1>3. keyboard_flags' \subseteq {"L", "R"}
  <2>1. keyboard_flags \subseteq {"L", "R"}
    BY DEF KeyboardShape, TypeOK
  <2>2. CASE NothingToDo(h, key)
    BY <2>1, <2>2 DEF NothingToDo
  <2>3. CASE Shift(h, key)
    <3>1. key \in {"lshift", "rshift", "lshift_up", "rshift_up"}
      BY <2>3 DEF Shift, KeyType, Characters
    <3> QED BY <2>1, <2>3, <3>1 DEF Shift
  <2> QED BY <2>2, <2>3
<1>4. KeyboardShape'
  BY <1>1, <1>2, <1>3, InterruptKeeps DEF KeyboardShape, TypeOK
<1>5. WaitersBlocked' /\ OneReader'
  BY <1>1, <1>2, InterruptKeeps DEF WaitersBlocked, OneReader, Serving
<1>6. ArmedForOwner' /\ SemaphoreReady' /\ HandlerPlaced'
  BY <1>1, <1>2, InterruptKeeps DEF ArmedForOwner, SemaphoreReady, HandlerPlaced
<1> QED BY <1>4, <1>5, <1>6

\* A cell of the owner's buffer is written.
LEMMA PutKeeps ==
    ASSUME KeyboardInv, kbd_buf.char_buf \in Thread,
           NEW i \in Cells, NEW char \in Character, Put(i, char)
    PROVE  /\ buffer' \in [Thread -> [Cells -> Character]]
           /\ \A t \in Thread, j \in Cells :
                 buffer'[t][j] = IF t = kbd_buf.char_buf /\ j = i THEN char ELSE buffer[t][j]
<1> DEFINE owner == kbd_buf.char_buf
<1>1. buffer \in [Thread -> [Cells -> Character]]
  BY DEF KeyboardInv, KeyboardShape
<1>2. buffer' = [buffer EXCEPT ![owner] = [buffer[owner] EXCEPT ![i] = char]]
  BY DEF Put
<1> HIDE DEF owner
<1>3. [buffer[owner] EXCEPT ![i] = char] \in [Cells -> Character]
  BY <1>1 DEF owner
<1>4. buffer' \in [Thread -> [Cells -> Character]]
  BY <1>1, <1>2, <1>3
<1>5. \A t \in Thread, j \in Cells : buffer'[t][j] = IF t = owner /\ j = i THEN char ELSE buffer[t][j]
  BY <1>1, <1>2, <1>3
<1> QED BY <1>4, <1>5 DEF owner

\* The characters that are stored.
LEMMA CharKnown ==
    ASSUME NEW key \in Characters
    PROVE  Char(key) \in Character /\ (key = "letter" => Char(key) \in {"letter", "LETTER"})
                                   /\ (key # "letter" => Char(key) = key)
BY DEF Char, Characters, Character

\* The buffer that is filled, with room that is left and that is not.
LEMMA ArmedFacts ==
    ASSUME KeyboardInv, kbd_buf.type # 0
    PROVE  /\ kbd_buf.char_buf \in Thread /\ kbd_buf.char_buf = kbd_mutex
           /\ pc[kbd_mutex] \in {"pend", "pend_blocked"} /\ sem.level = 0
           /\ kbd_buf.read \in Nat /\ kbd_buf.read \in Cells
           /\ kbd_buf.read_size \in Nat \ {0} /\ kbd_buf.read_size \in Sizes \cup {1}
           /\ kbd_buf.read <= kbd_buf.read_size
           /\ \A n \in 0 .. kbd_buf.read_size : n \in Cells
<1>1. kbd_buf.read \in Cells
  BY DEF KeyboardInv, KeyboardShape, TypeOK
<1>2. /\ kbd_buf.char_buf \in Thread /\ kbd_buf.char_buf = kbd_mutex
      /\ pc[kbd_mutex] \in {"pend", "pend_blocked"} /\ sem.level = 0
      /\ kbd_buf.read_size \in Sizes \cup {1} /\ kbd_buf.read <= kbd_buf.read_size
  BY DEF KeyboardInv, ArmedForOwner
<1> QED BY <1>1, <1>2, CellsFit

\* A line grows or shrinks: nothing else changes than the buffer and read.
LEMMA EditKeeps ==
    ASSUME KeyboardInv, NEW h, Interrupt(h), kbd_buf.type # 0,
           NEW read \in 0 .. kbd_buf.read_size,
           kbd_buf' = [kbd_buf EXCEPT !.read = read],
           buffer' \in [Thread -> [Cells -> Character]],
           sem' = sem, keyboard_flags' = keyboard_flags, pc' = pc, handler' = handler
    PROVE  KeyboardInv'
<1> USE DEF KeyboardInv
<1>1. read \in Cells /\ read <= kbd_buf.read_size
  BY ArmedFacts
<1>2. KeyboardShape'
  <2>1. kbd_buf' \in [type : {0, 1, 2}, char_buf : Thread \cup {NULL},
                      read_size : Sizes \cup {0, 1}, read : Cells]
    BY <1>1 DEF KeyboardShape, TypeOK
  <2>2. TypeOK'
    BY <2>1, InterruptKeeps DEF KeyboardShape, TypeOK
  <2> QED BY <2>2, InterruptKeeps DEF KeyboardShape
<1>3. /\ kbd_buf'.type = kbd_buf.type /\ kbd_buf'.char_buf = kbd_buf.char_buf
      /\ kbd_buf'.read = read /\ kbd_buf'.read_size = kbd_buf.read_size
  BY DEF KeyboardShape, TypeOK
<1>4. WaitersBlocked' /\ OneReader'
  BY InterruptKeeps DEF WaitersBlocked, OneReader, Serving
<1>5. ArmedForOwner'
  BY <1>1, <1>3, InterruptKeeps DEF ArmedForOwner
<1>6. SemaphoreReady' /\ HandlerPlaced'
  BY <1>3, InterruptKeeps DEF SemaphoreReady, HandlerPlaced
<1> QED BY <1>2, <1>4, <1>5, <1>6

\* A letter is stored when there is room.
LEMMA TypedStep == ASSUME KeyboardInv, NEW h, NEW key, Typed(h, key) PROVE KeyboardInv'
<1>1. /\ Interrupt(h) /\ kbd_buf.type # 0 /\ key \in Characters /\ Store(Char(key))
      /\ sem' = sem /\ keyboard_flags' = keyboard_flags /\ pc' = pc /\ handler' = handler
  BY DEF Typed, Characters
<1>2. CASE kbd_buf.read < kbd_buf.read_size
  <2>1. Put(kbd_buf.read, Char(key)) /\ kbd_buf' = [kbd_buf EXCEPT !.read = kbd_buf.read + 1]
    BY <1>1, <1>2 DEF Store
  <2>2. buffer' \in [Thread -> [Cells -> Character]]
    BY <1>1, <2>1, ArmedFacts, CharKnown, PutKeeps
  <2>3. kbd_buf.read + 1 \in 0 .. kbd_buf.read_size
    BY <1>1, <1>2, ArmedFacts
  <2> QED BY <1>1, <2>1, <2>2, <2>3, EditKeeps
<1>3. CASE ~(kbd_buf.read < kbd_buf.read_size)
  <2>1. buffer' = buffer /\ kbd_buf' = kbd_buf
    BY <1>1, <1>3 DEF Store
  <2>2. buffer \in [Thread -> [Cells -> Character]] /\ kbd_buf = [kbd_buf EXCEPT !.read = kbd_buf.read]
    BY DEF KeyboardInv, KeyboardShape, TypeOK
  <2>3. kbd_buf.read \in 0 .. kbd_buf.read_size
    BY <1>1, ArmedFacts
  <2> QED BY <1>1, <2>1, <2>2, <2>3, EditKeeps
<1> QED BY <1>2, <1>3

\* A backspace takes the last one back, if there is one.
LEMMA EraseStep == ASSUME KeyboardInv, NEW h, NEW key, Erase(h, key) PROVE KeyboardInv'
<1> DEFINE read == IF kbd_buf.read > 0 THEN kbd_buf.read - 1 ELSE 0
<1>1. /\ Interrupt(h) /\ kbd_buf.type # 0
      /\ Put(read, "nul") /\ kbd_buf' = [kbd_buf EXCEPT !.read = read]
      /\ sem' = sem /\ keyboard_flags' = keyboard_flags /\ pc' = pc /\ handler' = handler
  BY DEF Erase
<1>2. read \in 0 .. kbd_buf.read_size /\ read \in Cells
  BY <1>1, ArmedFacts
<1> HIDE DEF read
<1>3. buffer' \in [Thread -> [Cells -> Character]]
  <2>1. "nul" \in Character
    BY DEF Character
  <2> QED BY <1>1, <1>2, <2>1, ArmedFacts, PutKeeps
<1> QED BY <1>1, <1>2, <1>3, EditKeeps

\* The line is complete: type goes to 0 with the level up and, if the owner
\* sleeps, the owner in the handler's hands.
LEMMA CompleteStep == ASSUME KeyboardInv, NEW h, NEW key, Complete(h, key) PROVE KeyboardInv'
<1> USE DEF KeyboardInv
<1> DEFINE full == kbd_buf.read >= kbd_buf.read_size
           read == IF full THEN kbd_buf.read ELSE kbd_buf.read + 1
           wakee == sem.waiter
<1>1. /\ Interrupt(h) /\ kbd_buf.type # 0 /\ key \in Characters
      /\ IF full THEN buffer' = buffer ELSE Put(kbd_buf.read, Char(key))
      /\ kbd_buf' = [kbd_buf EXCEPT !.type = 0, !.read = read]
      /\ sem' = [sem EXCEPT !.level = sem.level + 1, !.waiter = NULL]
      /\ handler' = [host |-> h, wakee |-> wakee, point |-> IF wakee # NULL THEN "wake" ELSE "eoi"]
      /\ keyboard_flags' = keyboard_flags /\ pc' = pc
  BY DEF Complete, Post, Characters
<1>2. buffer' \in [Thread -> [Cells -> Character]]
  <2>1. CASE full
    BY <1>1, <2>1 DEF KeyboardShape
  <2>2. CASE ~full
    BY <1>1, <2>2, ArmedFacts, CharKnown, PutKeeps
  <2> QED BY <2>1, <2>2
<1>3. read \in Cells
  BY <1>1, ArmedFacts
<1> HIDE DEF read, full
<1>4. /\ sem' \in [init : {0, 1}, level : {0, 1}, waiter : Thread \cup {NULL}]
      /\ sem'.init = sem.init /\ sem'.level = 1 /\ sem'.waiter = NULL
  <2>1. sem.level + 1 = 1 /\ sem \in [init : {0, 1}, level : {0, 1}, waiter : Thread \cup {NULL}]
    BY <1>1, ArmedFacts DEF KeyboardShape, TypeOK
  <2> QED BY <1>1, <2>1
<1>5. /\ kbd_buf' \in [type : {0, 1, 2}, char_buf : Thread \cup {NULL},
                       read_size : Sizes \cup {0, 1}, read : Cells]
      /\ kbd_buf'.type = 0
  BY <1>1, <1>3 DEF KeyboardShape, TypeOK
<1>6. wakee \in Thread \cup {NULL} /\ (wakee # NULL => wakee \in Thread /\ pc[wakee] = "pend_blocked")
  BY DEF KeyboardShape, TypeOK, SemaphoreReady
<1>7. KeyboardShape'
  BY <1>1, <1>2, <1>4, <1>5, <1>6, InterruptKeeps DEF KeyboardShape, TypeOK
<1>8. WaitersBlocked' /\ OneReader'
  BY <1>1, InterruptKeeps DEF WaitersBlocked, OneReader, Serving
<1>9. ArmedForOwner'
  BY <1>5 DEF ArmedForOwner
<1>10. SemaphoreReady'
  <2>1. handler'.wakee = wakee /\ (wakee # NULL => handler'.point = "wake")
    BY <1>1
  <2>2. \A t \in Thread : pc[t] = "pend_blocked" => wakee = t
    BY <1>1 DEF SemaphoreReady
  <2>3. \A t \in Thread : pc[t] = "arm" => t = kbd_mutex
    BY DEF OneReader, Serving
  <2>4. \A t \in Thread : pc[t] # "arm"
    BY <1>1, <2>3, ArmedFacts
  <2> QED BY <1>1, <1>4, <1>5, <2>1, <2>2, <2>4, KeyboardAssumption DEF SemaphoreReady
<1>11. HandlerPlaced'
  BY <1>1, <1>4, <1>5, <1>6, InterruptKeeps, KeyboardAssumption DEF HandlerPlaced
<1> QED BY <1>7, <1>8, <1>9, <1>10, <1>11

\* unlock_thread: the reader goes back to the test of the semaphore.
LEMMA HandlerUnlockStep == ASSUME KeyboardInv, HandlerUnlock PROVE KeyboardInv'
<1> USE DEF KeyboardInv
<1> DEFINE n == handler.wakee
<1>1. /\ n \in Thread /\ pc[n] = "pend_blocked" /\ kbd_buf.type = 0 /\ sem.waiter = NULL
      /\ handler.host # NULL
  BY DEF HandlerUnlock, HandlerRuns, HandlerPlaced
<1>2. /\ pc' = [pc EXCEPT ![n] = "pend"]
      /\ handler' = [handler EXCEPT !.wakee = NULL, !.point = "eoi"]
      /\ kbd_mutex' = kbd_mutex /\ waiting_mutex' = waiting_mutex /\ sem' = sem
      /\ kbd_buf' = kbd_buf /\ keyboard_flags' = keyboard_flags /\ buffer' = buffer
      /\ asked' = asked /\ result' = result
  BY DEF HandlerUnlock
<1>3. lingering' \in Thread \cup {idle, NULL}
  BY RunnerKnown DEF HandlerUnlock, HandlerRuns
<1> HIDE DEF n
<1>4. \A t \in Thread : pc'[t] = IF t = n THEN "pend" ELSE pc[t]
  BY <1>2 DEF KeyboardShape, TypeOK
<1>5. KeyboardShape'
  <2>1. pc' \in [Thread -> Places]
    BY <1>1, <1>2 DEF KeyboardShape, TypeOK, Places
  <2>2. handler' \in [host : Thread \cup {idle, NULL}, wakee : Thread \cup {NULL},
                      point : {"none", "wake", "eoi"}]
    BY <1>2 DEF KeyboardShape, TypeOK
  <2>3. TypeOK'
    BY <1>2, <1>3, <2>1, <2>2 DEF KeyboardShape, TypeOK, Places
  <2> QED BY <1>1, <1>2, <1>4, <2>3 DEF KeyboardShape
<1>6. WaitersBlocked'
  BY <1>1, <1>2, <1>4, ElementOfSeq DEF WaitersBlocked, KeyboardShape, TypeOK
<1>7. OneReader'
  BY <1>1, <1>2, <1>4 DEF OneReader, Serving
<1>8. \A t \in Thread : pc[t] = "pend_blocked" => t = n
  BY <1>1 DEF SemaphoreReady, n
<1>9. SemaphoreReady'
  BY <1>1, <1>2, <1>4, <1>8, KeyboardAssumption DEF SemaphoreReady
<1>10. ArmedForOwner' /\ HandlerPlaced'
  BY <1>1, <1>2 DEF ArmedForOwner, HandlerPlaced, KeyboardShape, TypeOK
<1> QED BY <1>5, <1>6, <1>7, <1>9, <1>10

\* set_IRQ_EOI, and the timer.
LEMMA OtherStep == ASSUME KeyboardInv, HandlerEnd \/ Timer PROVE KeyboardInv'
<1> USE DEF KeyboardInv
<1>1. /\ kbd_mutex' = kbd_mutex /\ waiting_mutex' = waiting_mutex /\ sem' = sem
      /\ kbd_buf' = kbd_buf /\ keyboard_flags' = keyboard_flags /\ buffer' = buffer
      /\ asked' = asked /\ result' = result /\ pc' = pc
      /\ lingering' \in Thread \cup {idle, NULL}
  BY RunnerKnown DEF HandlerEnd, HandlerRuns, Timer
<1>2. handler' = handler \/ (handler' = NoHandler /\ handler.point = "eoi")
  BY DEF HandlerEnd, HandlerRuns, Timer
<1>3. KeyboardShape'
  BY <1>1, <1>2 DEF KeyboardShape, TypeOK, NoHandler
<1>4. WaitersBlocked' /\ OneReader' /\ ArmedForOwner'
  BY <1>1 DEF WaitersBlocked, OneReader, Serving, ArmedForOwner
<1>5. SemaphoreReady' /\ HandlerPlaced'
  BY <1>1, <1>2 DEF SemaphoreReady, HandlerPlaced, NoHandler
<1> QED BY <1>3, <1>4, <1>5

\* Every step preserves the invariant.
LEMMA KeyboardStep == KeyboardInv /\ [Next]_vars => KeyboardInv'
<1> SUFFICES ASSUME KeyboardInv, [Next]_vars PROVE KeyboardInv'
  OBVIOUS
<1>1. CASE UNCHANGED vars
  <2>1. /\ kbd_mutex' = kbd_mutex /\ waiting_mutex' = waiting_mutex /\ sem' = sem
        /\ kbd_buf' = kbd_buf /\ keyboard_flags' = keyboard_flags /\ buffer' = buffer
        /\ asked' = asked /\ result' = result /\ pc' = pc /\ handler' = handler
        /\ lingering' = lingering
    BY <1>1 DEF vars
  <2>2. KeyboardShape'
    BY <2>1 DEF KeyboardInv, KeyboardShape, TypeOK
  <2>3. WaitersBlocked' /\ OneReader' /\ ArmedForOwner'
    BY <2>1 DEF KeyboardInv, WaitersBlocked, OneReader, Serving, ArmedForOwner
  <2>4. SemaphoreReady' /\ HandlerPlaced'
    BY <2>1 DEF KeyboardInv, SemaphoreReady, HandlerPlaced
  <2> QED BY <2>2, <2>3, <2>4 DEF KeyboardInv
<1>2. CASE \E t \in Thread : Call(t) \/ Reads(t)
  BY <1>2, CallStep, LockStep, LockBlockStep, SemInitStep, ArmStep, PendStep, PendBlockStep,
     SemDestroyStep, ReleaseStep DEF Reads
<1>3. CASE \E h \in Thread \cup {idle}, k \in Keys \cup {"none"} : Key(h, k)
  BY <1>3, PassStep, TypedStep, EraseStep, CompleteStep DEF Key
<1>4. CASE Handles \/ Timer
  BY <1>4, HandlerUnlockStep, OtherStep DEF Handles
<1> QED BY <1>1, <1>2, <1>3, <1>4 DEF Next

\* The readers, the buffer and the semaphore stay in step whatever is typed.
THEOREM KeyboardInvariant == Spec => []KeyboardInv
<1> QED BY KeyboardInitInv, KeyboardStep, PTL DEF Spec

\* The variables keep their types, and read stays within the buffer.
THEOREM KeyboardTypes == Spec => []TypeOK
<1>1. KeyboardInv => TypeOK
  BY DEF KeyboardInv, KeyboardShape
<1> QED BY <1>1, KeyboardInvariant, PTL

\* None of the calls fails whose failure is a kernel_panic.
THEOREM DriverDoesNotFail == Spec => []NoDriverFailure
<1>1. KeyboardInv => NoDriverFailure
  <2> SUFFICES ASSUME KeyboardInv PROVE NoDriverFailure
    OBVIOUS
  <2> USE DEF KeyboardInv
  <2>1. Serving = IF kbd_mutex = NULL THEN {} ELSE {kbd_mutex}
    <3>1. kbd_mutex \in Thread \cup {NULL} /\ Serving \subseteq Thread
      BY DEF KeyboardShape, TypeOK, Serving
    <3> QED BY <3>1, KeyboardAssumption DEF OneReader
  <2>2. kbd_buf.type # 0 => /\ sem.init = 1 /\ kbd_buf.char_buf = kbd_mutex
                            /\ sem.level = 0 /\ kbd_buf.read <= kbd_buf.read_size
    BY DEF ArmedForOwner, SemaphoreReady
  <2>3. handler.point = "wake" => pc[handler.wakee] = "pend_blocked" /\ sem.waiter = NULL
    BY DEF HandlerPlaced
  <2>4. \A t \in Serving : pc[t] \notin {"sem_init", "release"} => sem.init = 1
    BY DEF SemaphoreReady, Serving
  <2> QED BY <2>1, <2>2, <2>3, <2>4 DEF NoDriverFailure
<1> QED BY <1>1, KeyboardInvariant, PTL

\* A reader sleeps only while its line is still open, as the waiter the handler
\* will find, or once the handler has it in its hands.
THEOREM SleeperIsKnown ==
    Spec => [](\A t \in Thread : pc[t] = "pend_blocked" =>
                  \/ kbd_buf.type # 0 /\ kbd_buf.char_buf = t /\ sem.waiter = t
                  \/ handler.point = "wake" /\ handler.wakee = t)
<1>1. KeyboardInv => \A t \in Thread : pc[t] = "pend_blocked" =>
                        \/ kbd_buf.type # 0 /\ kbd_buf.char_buf = t /\ sem.waiter = t
                        \/ handler.point = "wake" /\ handler.wakee = t
  BY DEF KeyboardInv, SemaphoreReady, ArmedForOwner, OneReader, Serving
<1> QED BY <1>1, KeyboardInvariant, PTL

-----------------------------------------------------------------------------
(* Readers get lines as from a line editor                                 *)

\* A text is a sequence of characters, which is empty of length 0.
LEMMA TextFacts ==
    ASSUME NEW t, NEW n \in Nat
    PROVE  /\ Len(Text(t, n)) = n /\ DOMAIN Text(t, n) = 1 .. n
           /\ \A i \in 1 .. n : Text(t, n)[i] = buffer[t][i - 1]
           /\ Text(t, n) = <<>> <=> n = 0
<1>1. DOMAIN Text(t, n) = 1 .. n /\ \A i \in 1 .. n : Text(t, n)[i] = buffer[t][i - 1]
  BY DEF Text
<1> DEFINE characters == {buffer[t][i - 1] : i \in 1 .. n}
<1>2. Text(t, n) \in Seq(characters)
  <2>1. \A i \in 1 .. n : buffer[t][i - 1] \in characters
    OBVIOUS
  <2> HIDE DEF characters
  <2>2. Text(t, n) \in [1 .. n -> characters]
    BY <2>1 DEF Text
  <2> QED BY <2>2
<1>3. Len(Text(t, n)) = n
  BY <1>1, <1>2, LenProperties
<1> QED BY <1>1, <1>2, <1>3, EmptySeq

\* What a thread has got, before and after a step.
LEMMA GivenParts ==
    ASSUME NEW t \in Thread
    PROVE  /\ pc[t] = "release" => Given[t] = Text(t, result[t])
           /\ pc[t] # "release" /\ Done(t) => Given[t] = Text(t, kbd_buf.read)
           /\ pc[t] # "release" /\ ~Done(t) => Given[t] = <<>>
           /\ pc'[t] = "release" => Given'[t] = Text(t, result[t])'
           /\ pc'[t] # "release" /\ Done(t)' => Given'[t] = Text(t, kbd_buf.read)'
           /\ pc'[t] # "release" /\ ~Done(t)' => Given'[t] = <<>>
BY DEF Given

\* Nothing that a reader of the line or of its result could tell.
LEMMA Quiet ==
    ASSUME kbd_buf' = kbd_buf, buffer' = buffer,
           \A t \in Thread : /\ pc'[t] = "release" <=> pc[t] = "release"
                             /\ Done(t)' <=> Done(t)
                             /\ pc[t] = "release" => result'[t] = result[t]
    PROVE  UNCHANGED <<Served, Request, Line, Given>>
<1>1. Served' = Served /\ Request' = Request
  BY DEF Served, Request
<1>2. \A t, n : Text(t, n)' = Text(t, n)
  BY DEF Text
<1>3. Line' = Line
  BY <1>2 DEF Line
<1>4. \A t \in Thread : Given'[t] = Given[t]
  <2> SUFFICES ASSUME NEW t \in Thread PROVE Given'[t] = Given[t]
    OBVIOUS
  <2>1. CASE pc[t] = "release"
    <3>1. Text(t, result[t])' = Text(t, result[t])
      BY <2>1 DEF Text
    <3> QED BY <2>1, <3>1, GivenParts
  <2>2. CASE pc[t] # "release"
    <3>1. Text(t, kbd_buf.read)' = Text(t, kbd_buf.read)
      BY DEF Text
    <3> QED BY <2>2, <3>1, GivenParts
  <2> QED BY <2>1, <2>2
<1>5. Given' = Given
  BY <1>4 DEF Given
<1> QED BY <1>1, <1>3, <1>5

\* The steps of a call before and after its line.
LEMMA QuietCalls ==
    ASSUME KeyboardInv, NEW t \in Thread,
           \/ Call(t) \/ Lock(t) \/ LockBlock(t) \/ SemInit(t) \/ Pend(t) \/ PendBlock(t)
    PROVE  UNCHANGED <<Served, Request, Line, Given>>
<1>1. kbd_buf' = kbd_buf /\ buffer' = buffer /\ result' = result
  BY DEF Call, Lock, LockBlock, SemInit, Pend, PendBlock
<1>2. pc \in [Thread -> Places]
  BY DEF KeyboardInv, KeyboardShape, TypeOK, Places
<1>3. \A u \in Thread : u # t => pc'[u] = pc[u]
  BY <1>2 DEF Call, Lock, LockBlock, SemInit, Pend, PendBlock, Step, StepAndWait
<1>4. \/ /\ pc[t] \notin {"release", "destroy", "pend", "pend_blocked"}
         /\ pc'[t] \notin {"release", "destroy", "pend", "pend_blocked"}
      \/ pc[t] = "pend" /\ pc'[t] = "destroy" /\ kbd_buf.type = 0
      \/ pc[t] = "pend" /\ pc'[t] = "pend_blocked" /\ kbd_buf.type # 0
  <2>1. CASE Call(t)
    BY <1>2, <2>1 DEF Call
  <2>2. CASE Lock(t) \/ LockBlock(t) \/ SemInit(t)
    BY <1>2, <2>2 DEF Lock, LockBlock, SemInit, Step, StepAndWait, Runs
  <2>3. CASE Pend(t)
    <3>1. pc[t] = "pend" /\ pc'[t] = "destroy" /\ sem.level >= 1
      BY <1>2, <2>3 DEF Pend, Step, Runs
    <3>2. kbd_buf.type # 0 => sem.level = 0
      BY DEF KeyboardInv, ArmedForOwner
    <3> QED BY <3>1, <3>2
  <2>4. CASE PendBlock(t)
    <3>1. pc[t] = "pend" /\ pc'[t] = "pend_blocked" /\ sem.level < 1
      BY <1>2, <2>4 DEF PendBlock, StepAndWait, Runs
    <3>2. kbd_buf.type = 0 => sem.level = 1
      BY <3>1 DEF KeyboardInv, SemaphoreReady
    <3> QED BY <3>1, <3>2
  <2> QED BY <2>1, <2>2, <2>3, <2>4
<1>5. \A u \in Thread : /\ pc'[u] = "release" <=> pc[u] = "release"
                        /\ Done(u)' <=> Done(u)
  BY <1>1, <1>3, <1>4 DEF Done
<1> QED BY <1>1, <1>5, Quiet

\* The steps of the handler that do not touch the line.
LEMMA QuietHandler ==
    ASSUME KeyboardInv,
           \/ \E h, key : NothingToDo(h, key) \/ Shift(h, key)
           \/ HandlerUnlock \/ HandlerEnd \/ Timer
    PROVE  UNCHANGED <<Served, Request, Line, Given>>
<1>1. kbd_buf' = kbd_buf /\ buffer' = buffer /\ result' = result
  BY DEF NothingToDo, Shift, Interrupt, HandlerUnlock, HandlerEnd, Timer
<1>2. \A u \in Thread : /\ pc'[u] = "release" <=> pc[u] = "release"
                        /\ Done(u)' <=> Done(u)
  <2>1. CASE pc' = pc
    BY <1>1, <2>1 DEF Done
  <2>2. CASE HandlerUnlock
    <3>1. /\ pc' = [pc EXCEPT ![handler.wakee] = "pend"] /\ pc \in [Thread -> Places]
          /\ pc[handler.wakee] = "pend_blocked"
      BY <2>2 DEF HandlerUnlock, HandlerRuns, KeyboardInv, KeyboardShape, TypeOK, Places, HandlerPlaced
    <3>2. \A u \in Thread : pc'[u] = pc[u] \/ (pc[u] = "pend_blocked" /\ pc'[u] = "pend")
      BY <3>1
    <3> QED BY <1>1, <3>2 DEF Done
  <2> QED BY <2>1, <2>2 DEF NothingToDo, Shift, HandlerEnd, Timer
<1> QED BY <1>1, <1>2, Quiet

\* sem_destroy notes how long the line is.
LEMMA QuietDestroy ==
    ASSUME KeyboardInv, NEW t \in Thread, SemDestroy(t)
    PROVE  UNCHANGED <<Served, Request, Line, Given>>
<1>1. kbd_buf' = kbd_buf /\ buffer' = buffer
  BY DEF SemDestroy
<1>2. pc \in [Thread -> Places] /\ result \in [Thread -> Cells]
  BY DEF KeyboardInv, KeyboardShape, TypeOK, Places
<1>3. /\ \A u \in Thread : u # t => pc'[u] = pc[u] /\ result'[u] = result[u]
      /\ pc[t] = "destroy" /\ pc'[t] = "release" /\ result'[t] = kbd_buf.read
  BY <1>2 DEF SemDestroy, Step, Runs
<1>4. Served' = Served /\ Request' = Request /\ Line' = Line
  BY <1>1 DEF Served, Request, Line, Text
<1>5. \A u \in Thread : Given'[u] = Given[u]
  <2> SUFFICES ASSUME NEW u \in Thread PROVE Given'[u] = Given[u]
    OBVIOUS
  <2>1. CASE u = t
    <3>1. Done(t)
      BY <1>3 DEF Done
    <3>2. Given[t] = Text(t, kbd_buf.read)
      BY <1>3, <3>1, GivenParts
    <3>3. Given'[t] = Text(t, result[t])'
      BY <1>3, GivenParts
    <3>4. Text(t, result[t])' = Text(t, kbd_buf.read)
      BY <1>1, <1>3 DEF Text
    <3> QED BY <2>1, <3>2, <3>3, <3>4
  <2>2. CASE u # t
    <3>1. Done(u)' <=> Done(u)
      BY <1>1, <1>3, <2>2 DEF Done
    <3>2. Text(u, result[u])' = Text(u, result[u]) /\ Text(u, kbd_buf.read)' = Text(u, kbd_buf.read)
      BY <1>1, <1>3, <2>2 DEF Text
    <3>3. pc'[u] = pc[u]
      BY <1>3, <2>2
    <3> QED BY <3>1, <3>2, <3>3, GivenParts
  <2> QED BY <2>1, <2>2
<1>6. Given' = Given
  BY <1>5 DEF Given
<1> QED BY <1>4, <1>6

\* A thread that has no line, complete or returned, has got nothing.
LEMMA NothingGiven ==
    ASSUME KeyboardInv, NEW t \in Thread,
           pc[t] \notin {"release", "destroy"}, pc[t] \in {"pend", "pend_blocked"} => kbd_buf.type # 0
    PROVE  Given[t] = <<>>
BY GivenParts DEF Done

\* kbd_buf is armed: the thread is served.
LEMMA ArmServes == ASSUME KeyboardInv, NEW t \in Thread, Arm(t) PROVE AsLineInput!Serve(t)
<1>1. /\ pc[t] = "arm" /\ pc' = [pc EXCEPT ![t] = "pend"] /\ pc \in [Thread -> Places]
      /\ kbd_buf' = [type |-> asked[t].type, char_buf |-> t, read_size |-> asked[t].size, read |-> 0]
      /\ buffer' = buffer /\ result' = result
  BY DEF Arm, Step, Runs, KeyboardInv, KeyboardShape, TypeOK, Places
<1>2. asked[t] \in Calls
  BY <1>1 DEF KeyboardInv, KeyboardShape
<1>3. asked[t].type \in {1, 2} /\ asked[t] = [type |-> asked[t].type, size |-> asked[t].size]
  BY <1>2 DEF Calls
<1>4. \A u \in Thread : u \in Serving <=> u = t
  BY <1>1 DEF KeyboardInv, OneReader, Serving
<1>5. kbd_buf.type = 0
  BY <1>1, <1>4 DEF KeyboardInv, ArmedForOwner, Serving
<1>6. Served = NULL /\ Served' = t /\ Request' = asked[t]
  BY <1>1, <1>3, <1>5 DEF Served, Request
<1>7. Line = <<>> /\ Line' = <<>>
  BY <1>1, <1>3, <1>5 DEF Line, Text
<1>8. \A u \in Thread : Given[u] = <<>>
  BY <1>1, <1>4, NothingGiven DEF Serving
<1>9. \A u \in Thread : Given'[u] = <<>>
  <2>1. kbd_buf'.type # 0
    BY <1>1, <1>3
  <2>2. \A u \in Thread : pc'[u] \notin {"release", "destroy"}
    BY <1>1, <1>4 DEF Serving
  <2>3. \A u \in Thread : ~Done(u)'
    BY <2>1, <2>2 DEF Done
  <2> QED BY <2>2, <2>3, GivenParts
<1>10. Given' = Given
  BY <1>8, <1>9 DEF Given
<1>11. Request' \in {[type |-> 1, size |-> n] : n \in Sizes} \cup {[type |-> 2, size |-> 1]}
  BY <1>2, <1>6 DEF Calls
<1> QED BY <1>6, <1>7, <1>8, <1>10, <1>11 DEF AsLineInput!Serve

\* The end of a call: the thread has used what it got.
LEMMA ReleaseUses == ASSUME KeyboardInv, NEW t \in Thread, Release(t) PROVE AsLineInput!Use(t)
<1>1. /\ pc[t] = "release" /\ pc \in [Thread -> Places] /\ kbd_buf' = ClearBuf
      /\ result' = [result EXCEPT ![t] = 0] /\ result \in [Thread -> Cells]
  BY DEF Release, Runs, KeyboardInv, KeyboardShape, TypeOK, Places
<1>2. \A u \in Thread : u \in Serving <=> u = t
  BY <1>1 DEF KeyboardInv, OneReader, Serving
<1>3. kbd_buf.type = 0 /\ kbd_buf'.type = 0
  BY <1>1, <1>2 DEF KeyboardInv, ArmedForOwner, Serving, ClearBuf
<1>4. \A u \in Thread : pc'[u] \in {"out", "lock"} \/ (u # t /\ pc'[u] = pc[u])
  <2>1. CASE waiting_mutex = <<>>
    BY <1>1, <2>1 DEF Release
  <2>2. CASE waiting_mutex # <<>>
    <3>1. pc' = [pc EXCEPT ![t] = "out", ![Head(waiting_mutex)] = "lock"]
      BY <2>2 DEF Release
    <3> QED BY <1>1, <3>1
  <2> QED BY <2>1, <2>2
<1>5. Served' = Served /\ Request' = Request /\ Line' = Line
  BY <1>3 DEF Served, Request, Line
<1>6. \A u \in Thread : Given'[u] = <<>>
  <2>1. \A u \in Thread : pc'[u] \notin {"release", "destroy", "pend", "pend_blocked"}
    BY <1>2, <1>4 DEF Serving
  <2>2. \A u \in Thread : ~Done(u)'
    BY <2>1 DEF Done
  <2> QED BY <2>1, <2>2, GivenParts
<1>7. \A u \in Thread : u # t => Given[u] = <<>>
  BY <1>2, NothingGiven DEF Serving
<1>8. Given' = [Given EXCEPT ![t] = <<>>]
  BY <1>6, <1>7 DEF Given
<1> QED BY <1>5, <1>8 DEF AsLineInput!Use

\* While the buffer is armed nobody has got anything.
LEMMA ArmedGivesNothing ==
    ASSUME KeyboardInv, kbd_buf.type # 0
    PROVE  /\ \A u \in Thread : Given[u] = <<>>
           /\ \A u \in Thread : pc[u] \notin {"release", "destroy"}
           /\ \A u \in Thread : pc[u] \in {"pend", "pend_blocked"} <=> u = kbd_buf.char_buf
<1>1. /\ pc[kbd_mutex] \in {"pend", "pend_blocked"} /\ kbd_buf.char_buf = kbd_mutex
      /\ kbd_mutex \in Thread
  BY ArmedFacts
<1>2. \A u \in Thread : u \in Serving <=> u = kbd_mutex
  BY DEF KeyboardInv, OneReader
<1>3. \A u \in Thread : pc[u] \notin {"release", "destroy"}
  BY <1>1, <1>2 DEF Serving
<1>4. \A u \in Thread : pc[u] \in {"pend", "pend_blocked"} <=> u = kbd_buf.char_buf
  BY <1>1, <1>2 DEF Serving
<1> QED BY <1>3, <1>4, NothingGiven

\* A step that edits the line of the thread that is served.
LEMMA Edited ==
    ASSUME KeyboardInv, kbd_buf.type # 0, NEW read, kbd_buf' = [kbd_buf EXCEPT !.read = read],
           pc' = pc
    PROVE  /\ Served' = Served /\ Request' = Request /\ Given' = Given
           /\ Served = kbd_buf.char_buf
           /\ Request = [type |-> kbd_buf.type, size |-> kbd_buf.read_size]
           /\ Line = Text(kbd_buf.char_buf, kbd_buf.read)
           /\ Line' = Text(kbd_buf.char_buf, kbd_buf.read)'
<1>1. /\ kbd_buf'.type = kbd_buf.type /\ kbd_buf'.char_buf = kbd_buf.char_buf
      /\ kbd_buf'.read_size = kbd_buf.read_size
  BY DEF KeyboardInv, KeyboardShape, TypeOK
<1>2. Served' = Served /\ Request' = Request /\ Served = kbd_buf.char_buf
      /\ Request = [type |-> kbd_buf.type, size |-> kbd_buf.read_size]
  BY <1>1 DEF Served, Request
<1>3. Line = Text(kbd_buf.char_buf, kbd_buf.read) /\ Line' = Text(kbd_buf.char_buf, kbd_buf.read)'
  BY <1>1 DEF Line
<1>4. \A u \in Thread : Given'[u] = <<>>
  <2>1. \A u \in Thread : pc'[u] \notin {"release", "destroy"} /\ ~Done(u)'
    BY <1>1, ArmedGivesNothing DEF Done
  <2> QED BY <2>1, GivenParts
<1>5. Given' = Given
  BY <1>4, ArmedGivesNothing DEF Given
<1> QED BY <1>2, <1>3, <1>5

\* A text after a step, of a length that may be the new value of read.
NewText(t, n) == [i \in 1 .. n |-> buffer'[t][i - 1]]

\* A character is stored, if there is room: the text grows by it.
LEMMA StoredExtends ==
    ASSUME KeyboardInv, kbd_buf.type # 0, NEW char \in Character,
           NEW read, read = IF kbd_buf.read < kbd_buf.read_size THEN kbd_buf.read + 1 ELSE kbd_buf.read,
           IF kbd_buf.read < kbd_buf.read_size THEN Put(kbd_buf.read, char) ELSE buffer' = buffer
    PROVE  NewText(kbd_buf.char_buf, read) = AsLineInput!Extended(char)
<1> DEFINE owner == kbd_buf.char_buf
           n == kbd_buf.read
<1>1. owner \in Thread /\ n \in Nat /\ n \in Cells /\ \A i \in 0 .. kbd_buf.read_size : i \in Cells
  BY ArmedFacts
<1>2. Line = Text(owner, n) /\ Request.size = kbd_buf.read_size
  BY DEF Line, Request
<1>3. Len(Line) = n
  BY <1>1, <1>2, TextFacts
<1>4. n <= kbd_buf.read_size /\ kbd_buf.read_size \in Nat
  BY ArmedFacts
<1>5. CASE n < kbd_buf.read_size
  <2>1. Put(n, char) /\ read = n + 1
    BY <1>5
  <2>2. \A j \in Cells : buffer'[owner][j] = IF j = n THEN char ELSE buffer[owner][j]
    BY <1>1, <2>1, PutKeeps
  <2> HIDE DEF owner, n
  <2>3. \A i \in 1 .. n : i - 1 \in Cells /\ i - 1 # n
    BY <1>1, <1>4
  <2>4. Text(owner, n) \in Seq(Character)
    <3>1. buffer[owner] \in [Cells -> Character]
      BY <1>1 DEF KeyboardInv, KeyboardShape
    <3>2. Text(owner, n) \in [1 .. n -> Character]
      BY <2>3, <3>1 DEF Text
    <3> QED BY <1>1, <3>2
  <2>5. /\ Append(Text(owner, n), char) \in Seq(Character)
        /\ Len(Append(Text(owner, n), char)) = n + 1
        /\ \A i \in 1 .. n : Append(Text(owner, n), char)[i] = Text(owner, n)[i]
        /\ Append(Text(owner, n), char)[n + 1] = char
    BY <1>2, <1>3, <2>4, AppendProperties
  <2>6. \A i \in 1 .. n + 1 : Append(Text(owner, n), char)[i] = NewText(owner, n + 1)[i]
    <3> SUFFICES ASSUME NEW i \in 1 .. n + 1
                 PROVE  Append(Text(owner, n), char)[i] = NewText(owner, n + 1)[i]
      OBVIOUS
    <3>1. NewText(owner, n + 1)[i] = buffer'[owner][i - 1]
      BY DEF NewText
    <3>2. CASE i = n + 1
      <4>1. i - 1 = n
        BY <1>1, <3>2
      <4> QED BY <1>1, <2>2, <2>5, <3>1, <3>2, <4>1
    <3>3. CASE i # n + 1
      <4>1. i \in 1 .. n
        BY <1>1, <3>3
      <4>2. Text(owner, n)[i] = buffer[owner][i - 1]
        BY <1>1, <4>1, TextFacts
      <4> QED BY <2>2, <2>3, <2>5, <3>1, <4>1, <4>2
    <3> QED BY <3>2, <3>3
  <2>7. DOMAIN Append(Text(owner, n), char) = 1 .. n + 1
    BY <2>5, LenProperties
  <2>8. Append(Text(owner, n), char) = [i \in 1 .. n + 1 |-> Append(Text(owner, n), char)[i]]
    BY <2>5, <2>7, LenProperties
  <2>9. NewText(owner, n + 1) = [i \in 1 .. n + 1 |-> Append(Text(owner, n), char)[i]]
    BY <2>6 DEF NewText
  <2>10. AsLineInput!Extended(char) = Append(Text(owner, n), char)
    BY <1>2, <1>3, <1>5 DEF AsLineInput!Extended
  <2> QED BY <2>1, <2>8, <2>9, <2>10 DEF owner
<1>6. CASE ~(n < kbd_buf.read_size)
  <2>1. buffer' = buffer /\ read = n
    BY <1>6
  <2>2. NewText(owner, n) = Text(owner, n)
    BY <2>1 DEF NewText, Text
  <2>3. AsLineInput!Extended(char) = Line
    BY <1>2, <1>3, <1>6 DEF AsLineInput!Extended
  <2> QED BY <1>2, <2>1, <2>2, <2>3
<1> QED BY <1>5, <1>6

\* A letter.
LEMMA TypedTypes == ASSUME KeyboardInv, NEW h, NEW key, Typed(h, key) PROVE AsLineInput!Type
<1> DEFINE read == IF kbd_buf.read < kbd_buf.read_size THEN kbd_buf.read + 1 ELSE kbd_buf.read
<1>1. /\ kbd_buf.type = 1 /\ key = "letter" /\ Store(Char(key)) /\ pc' = pc
  BY DEF Typed
<1>2. /\ kbd_buf' = [kbd_buf EXCEPT !.read = read]
      /\ IF kbd_buf.read < kbd_buf.read_size THEN Put(kbd_buf.read, Char(key)) ELSE buffer' = buffer
  BY <1>1 DEF Store, KeyboardInv, KeyboardShape, TypeOK
<1>3. Char(key) \in {"letter", "LETTER"} /\ Char(key) \in Character
  BY <1>1, CharKnown DEF Characters
<1>4. NewText(kbd_buf.char_buf, read) = AsLineInput!Extended(Char(key))
  BY <1>1, <1>2, <1>3, StoredExtends
<1> HIDE DEF read
<1>5. /\ Served' = Served /\ Request' = Request /\ Given' = Given /\ Request.type = 1
      /\ Line' = Text(kbd_buf.char_buf, kbd_buf.read)'
  BY <1>1, <1>2, Edited
<1>6. kbd_buf'.read = read /\ kbd_buf'.char_buf = kbd_buf.char_buf
  BY <1>2 DEF KeyboardInv, KeyboardShape, TypeOK
<1>7. Line' = AsLineInput!Extended(Char(key))
  BY <1>4, <1>5, <1>6 DEF NewText, Text
<1> QED BY <1>3, <1>5, <1>7 DEF AsLineInput!Type

\* A backspace: of an empty line nothing is taken back.
LEMMA EraseTakesBack ==
    ASSUME KeyboardInv, NEW h, NEW key, Erase(h, key)
    PROVE  AsLineInput!TakeBack \/ UNCHANGED <<Served, Request, Line, Given>>
<1> DEFINE read == IF kbd_buf.read > 0 THEN kbd_buf.read - 1 ELSE 0
           owner == kbd_buf.char_buf
           n == kbd_buf.read
<1>1. /\ kbd_buf.type = 1 /\ Put(read, "nul") /\ kbd_buf' = [kbd_buf EXCEPT !.read = read]
      /\ pc' = pc
  BY DEF Erase
<1>2. owner \in Thread /\ n \in Nat /\ n <= kbd_buf.read_size /\ kbd_buf.read_size \in Nat
      /\ \A i \in 0 .. kbd_buf.read_size : i \in Cells
  BY <1>1, ArmedFacts
<1>3. read \in Cells /\ read \in Nat /\ "nul" \in Character
  BY <1>2 DEF Character
<1>4. \A j \in Cells : j # read => buffer'[owner][j] = buffer[owner][j]
  BY <1>1, <1>2, <1>3, PutKeeps
<1>5. kbd_buf'.read = read /\ kbd_buf'.char_buf = owner
  BY <1>1 DEF KeyboardInv, KeyboardShape, TypeOK
<1>6. /\ Served' = Served /\ Request' = Request /\ Given' = Given /\ Request.type = 1
      /\ Line = Text(owner, n) /\ Line' = NewText(owner, read)
  BY <1>1, <1>5, Edited DEF NewText, Text
<1>7. CASE n = 0
  <2>1. read = 0
    BY <1>7
  <2>2. Text(owner, 0) = <<>> /\ NewText(owner, 0) = <<>>
    BY DEF Text, NewText
  <2>3. Line' = Line
    BY <1>6, <1>7, <2>1, <2>2
  <2> QED BY <1>6, <2>3
<1>8. CASE n # 0
  <2>1. read = n - 1 /\ n - 1 \in Nat
    BY <1>2, <1>8
  <2> HIDE DEF read, owner, n
  <2>2. Line # <<>> /\ Len(Line) = n
    BY <1>2, <1>6, <1>8, TextFacts
  <2>3. SubSeq(Line, 1, n - 1) = [i \in 1 .. n - 1 |-> Line[i]]
    BY <1>2
  <2>4. \A i \in 1 .. n - 1 : Line[i] = buffer[owner][i - 1]
    BY <1>2, <1>6, TextFacts
  <2>5. \A i \in 1 .. n - 1 : buffer'[owner][i - 1] = buffer[owner][i - 1]
    <3>1. \A i \in 1 .. n - 1 : i - 1 \in 0 .. kbd_buf.read_size /\ i - 1 # read
      BY <1>2, <2>1
    <3> QED BY <1>2, <1>4, <3>1
  <2>6. Line' = [i \in 1 .. n - 1 |-> Line[i]]
    BY <1>6, <2>1, <2>4, <2>5 DEF NewText
  <2> QED BY <1>6, <2>2, <2>3, <2>6 DEF AsLineInput!TakeBack
<1> QED BY <1>7, <1>8

\* The end of the line: the thread that was served gets it, with the character.
LEMMA CompleteEnds == ASSUME KeyboardInv, NEW h, NEW key, Complete(h, key) PROVE AsLineInput!End
<1> DEFINE read == IF kbd_buf.read < kbd_buf.read_size THEN kbd_buf.read + 1 ELSE kbd_buf.read
           owner == kbd_buf.char_buf
<1>1. /\ kbd_buf.type # 0 /\ key \in Characters /\ pc' = pc
      /\ key = "return" \/ kbd_buf.type = 2
  BY DEF Complete, Characters
<1>2. /\ owner \in Thread /\ pc[owner] \in {"pend", "pend_blocked"}
      /\ kbd_buf.read \in Nat /\ kbd_buf.read_size \in Nat
  BY <1>1, ArmedFacts
<1>3. /\ IF kbd_buf.read < kbd_buf.read_size THEN Put(kbd_buf.read, Char(key)) ELSE buffer' = buffer
      /\ kbd_buf' = [kbd_buf EXCEPT !.type = 0, !.read = read]
  <2>1. kbd_buf.read >= kbd_buf.read_size <=> ~(kbd_buf.read < kbd_buf.read_size)
    BY <1>2
  <2> DEFINE full == kbd_buf.read >= kbd_buf.read_size
  <2>2. /\ IF full THEN buffer' = buffer ELSE Put(kbd_buf.read, Char(key))
        /\ kbd_buf' = [kbd_buf EXCEPT !.type = 0,
                          !.read = IF full THEN kbd_buf.read ELSE kbd_buf.read + 1]
    BY DEF Complete
  <2>3. read = IF full THEN kbd_buf.read ELSE kbd_buf.read + 1
    BY <2>1
  <2> HIDE DEF read
  <2> QED BY <2>1, <2>2, <2>3
<1>4. Char(key) \in Character
  BY <1>1, CharKnown
<1>5. NewText(owner, read) = AsLineInput!Extended(Char(key))
  BY <1>1, <1>3, <1>4, StoredExtends
<1> HIDE DEF read, owner
<1>6. kbd_buf'.type = 0 /\ kbd_buf'.read = read
  BY <1>3 DEF KeyboardInv, KeyboardShape, TypeOK
<1>7. Request.type = kbd_buf.type /\ Served = owner
  BY <1>1 DEF Request, Served, owner
<1>8. Served' = NULL /\ Request' = AsLineInput!NoRequest /\ Line' = <<>>
  BY <1>6 DEF Served, Request, Line, AsLineInput!NoRequest, NoCall
<1>9. \A u \in Thread : Given'[u] = IF u = owner THEN NewText(owner, read) ELSE <<>>
  <2> SUFFICES ASSUME NEW u \in Thread
               PROVE  Given'[u] = IF u = owner THEN NewText(owner, read) ELSE <<>>
    OBVIOUS
  <2>1. pc'[u] \notin {"release", "destroy"} /\ (pc'[u] \in {"pend", "pend_blocked"} <=> u = owner)
    BY <1>1, ArmedGivesNothing DEF owner
  <2>2. Done(u)' <=> u = owner
    BY <1>6, <2>1 DEF Done
  <2>3. Text(u, kbd_buf.read)' = NewText(u, read)
    BY <1>6 DEF Text, NewText
  <2> QED BY <2>1, <2>2, <2>3, GivenParts
<1>10. Given' = [Given EXCEPT ![Served] = AsLineInput!Extended(Char(key))]
  <2>1. \A u \in Thread : Given[u] = <<>>
    BY <1>1, ArmedGivesNothing
  <2> QED BY <1>2, <1>5, <1>7, <1>9, <2>1 DEF Given
<1>11. Char(key) \in {"return"} \cup
          (IF Request.type = 2 THEN {"letter", "LETTER", "backspace"} ELSE {})
  BY <1>1, <1>7, CharKnown DEF Characters
<1>12. Request.type # 0
  BY <1>1, <1>7
<1> QED BY <1>8, <1>10, <1>11, <1>12 DEF AsLineInput!End

\* Every step of the driver is a step of the line editor or hidden.
LEMMA LineInputStep == KeyboardInv /\ [Next]_vars => [AsLineInput!Next]_(AsLineInput!vars)
<1> SUFFICES ASSUME KeyboardInv, [Next]_vars
             PROVE  AsLineInput!Next \/ UNCHANGED <<Served, Request, Line, Given>>
  BY DEF AsLineInput!vars
<1>1. CASE UNCHANGED vars
  BY <1>1 DEF vars, Served, Request, Line, Given, Done, Text
<1>2. ASSUME NEW t \in Thread, Call(t) \/ Reads(t)
      PROVE  AsLineInput!Next \/ UNCHANGED <<Served, Request, Line, Given>>
  BY <1>2, QuietCalls, QuietDestroy, ArmServes, ReleaseUses DEF Reads, AsLineInput!Next
<1>3. ASSUME NEW h, NEW k, Key(h, k)
      PROVE  AsLineInput!Next \/ UNCHANGED <<Served, Request, Line, Given>>
  BY <1>3, QuietHandler, TypedTypes, EraseTakesBack, CompleteEnds DEF Key, AsLineInput!Next
<1>4. CASE Handles \/ Timer
  BY <1>4, QuietHandler DEF Handles
<1> QED BY <1>1, <1>2, <1>3, <1>4 DEF Next

\* Readers get lines as from a line editor: what is typed while a thread is
\* served goes to it alone, edited and whole, for any readers and buffers and
\* wherever the interrupts fall.
THEOREM DriverIsLineInput == Spec => KeyboardIsLineInput
<1>1. Init => AsLineInput!Init
  <2> SUFFICES ASSUME Init PROVE AsLineInput!Init
    OBVIOUS
  <2>1. kbd_buf.type = 0 /\ \A t \in Thread : pc[t] = "out"
    BY DEF Init, ClearBuf
  <2>2. Served = NULL /\ Request = AsLineInput!NoRequest /\ Line = <<>>
    BY <2>1 DEF Served, Request, Line, NoCall, AsLineInput!NoRequest
  <2>3. Given = [t \in Thread |-> <<>>]
    BY <2>1 DEF Given, Done
  <2> QED BY <2>2, <2>3 DEF AsLineInput!Init
<1> QED
  BY <1>1, LineInputStep, KeyboardInvariant, PTL DEF Spec, KeyboardIsLineInput, AsLineInput!Spec
=============================================================================
