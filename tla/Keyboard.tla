------------------------------- MODULE Keyboard ------------------------------
(***************************************************************************)
(* drivers/keyboard.c: threads that read lines and characters, and the     *)
(* interrupt handler that fills their buffers.                             *)
(*                                                                         *)
(* The handler runs on the stack of the thread it interrupts, its host.    *)
(* It starts with interrupts off; sem_post turns them on as it gives its   *)
(* spinlock back, and from there to the end of the handler the timer may   *)
(* take the processor from the host: the PIT may, whose line is above the  *)
(* keyboard's; the timer of a LAPIC is below it and has to wait (module    *)
(* Interrupts), so there the model has more steps than the machine.  Until *)
(* set_IRQ_EOI at the very end the keyboard does not interrupt again.      *)
(*                                                                         *)
(* pc of a thread: "out", "lock" (about to test the mutex), "lock_blocked",*)
(* "sem_init", "arm" (about to fill kbd_buf), "pend" (about to test the    *)
(* semaphore), "pend_blocked", "destroy", "release".  The calls on mutex   *)
(* and semaphore are the stretches of modules Mutex and Semaphore, where   *)
(* their insides are looked at; only the sem_post of the handler is in two.*)
(***************************************************************************)
EXTENDS Integers, Sequences, FiniteSets

CONSTANTS
    Thread, NULL,
    idle,       \* the idle thread: ready when no other is
    Sizes,      \* of the buffers read_keyboard is called with
    Keys,       \* what is typed, see KeyType
    Exposed     \* the threads that may be interrupted when they are blocked and
                \* have not come to schedule() yet

KeyType == {"letter", "return", "backspace",
            "lshift", "rshift", "lshift_up", "rshift_up"}

ASSUME KeyboardAssumption ==
    /\ IsFiniteSet(Thread) /\ NULL \notin Thread /\ idle \notin Thread \cup {NULL}
    /\ Sizes \subseteq Nat \ {0} /\ \E n \in Sizes : \A m \in Sizes : m <= n
    /\ Keys \subseteq KeyType
    /\ Exposed \subseteq Thread

VARIABLES
    kbd_mutex,      \* the thread that has it
    waiting_mutex,
    sem,            \* kbd_buf.sem: init, sem_level and the thread that waits
    kbd_buf,        \* its other fields; char_buf is the owner of the buffer
    keyboard_flags,
    buffer,         \* the memory the readers give
    asked,          \* type and size of the call a thread is in
    result,         \* what the last call returned
    pc,
    handler,        \* host, wakee and how far it is
    lingering       \* who has the processor without being ready: idle, or a
                    \* thread that is blocked on its way to schedule()
vars == <<kbd_mutex, waiting_mutex, sem, kbd_buf, keyboard_flags, buffer, asked,
          result, pc, handler, lingering>>

\* One cell more than the largest buffer has, to see who writes there.
Cells == 0 .. CHOOSE n \in Sizes : \A m \in Sizes : m <= n

NoHandler == [host |-> NULL, wakee |-> NULL, point |-> "none"]
NoCall == [type |-> 0, size |-> 0]
Blank == [i \in Cells |-> "nul"]
ClearBuf == [type |-> 0, char_buf |-> NULL, read_size |-> 0, read |-> 0]

Init == /\ kbd_mutex = NULL /\ waiting_mutex = <<>>
        /\ sem = [init |-> 0, level |-> 0, waiter |-> NULL]
        /\ kbd_buf = ClearBuf
        /\ keyboard_flags = {}
        /\ buffer = [t \in Thread |-> Blank]
        /\ asked = [t \in Thread |-> NoCall]
        /\ result = [t \in Thread |-> 0]
        /\ pc = [t \in Thread |-> "out"]
        /\ handler = NoHandler
        /\ lingering = idle

-----------------------------------------------------------------------------
(* The processor                                                           *)

\* A thread that is out waits for something else.
Ready == {t \in Thread : pc[t] \notin {"out", "lock_blocked", "pend_blocked"}}

\* Whoever has the processor keeps it, ready or not, until the timer.
MayRun == Ready \cup ({lingering} \ {NULL}) \cup (IF Ready = {} THEN {idle} ELSE {})
Runner(h) == lingering' = IF h \in Ready THEN NULL ELSE h

\* A thread does nothing while the handler is on its stack.
Runs(t, point) == t \in Ready /\ handler.host # t /\ pc[t] = point

Step(t, from, to) == /\ Runs(t, from)
                     /\ pc' = [pc EXCEPT ![t] = to]
                     /\ lingering' = NULL

\* The same for a step after which the thread waits and calls schedule().
Wait(t) == lingering' = IF t \in Exposed THEN t ELSE NULL

StepAndWait(t, from, to) == /\ Runs(t, from)
                            /\ pc' = [pc EXCEPT ![t] = to]
                            /\ Wait(t)

\* The timer interrupts and schedule elects a ready thread, or idle.
Timer == /\ lingering # NULL
         /\ lingering' = NULL
         /\ UNCHANGED <<kbd_mutex, waiting_mutex, sem, kbd_buf, keyboard_flags,
                        buffer, asked, result, pc, handler>>

-----------------------------------------------------------------------------
(* read_keyboard (type 1) and getch (type 2)                               *)

Calls == {[type |-> 1, size |-> n] : n \in Sizes} \cup {[type |-> 2, size |-> 1]}

Call(t) == /\ pc[t] = "out" /\ handler.host # t
           /\ pc' = [pc EXCEPT ![t] = "lock"]
           /\ \E c \in Calls : asked' = [asked EXCEPT ![t] = c]
           /\ UNCHANGED <<kbd_mutex, waiting_mutex, sem, kbd_buf, keyboard_flags,
                          buffer, result, handler, lingering>>

Lock(t) == /\ kbd_mutex = NULL
           /\ Step(t, "lock", "sem_init")
           /\ kbd_mutex' = t
           /\ UNCHANGED <<waiting_mutex, sem, kbd_buf, keyboard_flags, buffer,
                          asked, result, handler>>

LockBlock(t) == /\ kbd_mutex # NULL
                /\ StepAndWait(t, "lock", "lock_blocked")
                /\ waiting_mutex' = Append(waiting_mutex, t)
                /\ UNCHANGED <<kbd_mutex, sem, kbd_buf, keyboard_flags, buffer,
                               asked, result, handler>>

SemInit(t) == /\ Step(t, "sem_init", "arm")
              /\ sem' = [init |-> 1, level |-> 0, waiter |-> NULL]
              /\ UNCHANGED <<kbd_mutex, waiting_mutex, kbd_buf, keyboard_flags,
                             buffer, asked, result, handler>>

\* The fields before type do not matter to a handler that comes in between.
Arm(t) == /\ Step(t, "arm", "pend")
          /\ kbd_buf' = [type |-> asked[t].type, char_buf |-> t,
                         read_size |-> asked[t].size, read |-> 0]
          /\ UNCHANGED <<kbd_mutex, waiting_mutex, sem, keyboard_flags, buffer,
                         asked, result, handler>>

Pend(t) == /\ sem.level >= 1
           /\ Step(t, "pend", "destroy")
           /\ sem' = [sem EXCEPT !.level = @ - 1]
           /\ UNCHANGED <<kbd_mutex, waiting_mutex, kbd_buf, keyboard_flags,
                          buffer, asked, result, handler>>

PendBlock(t) == /\ sem.level < 1
                /\ StepAndWait(t, "pend", "pend_blocked")
                /\ sem' = [sem EXCEPT !.waiter = t]
                /\ UNCHANGED <<kbd_mutex, waiting_mutex, kbd_buf, keyboard_flags,
                               buffer, asked, result, handler>>

SemDestroy(t) == /\ Step(t, "destroy", "release")
                 /\ result' = [result EXCEPT ![t] = kbd_buf.read]
                 /\ sem' = [init |-> 0, level |-> 0, waiter |-> NULL]
                 /\ UNCHANGED <<kbd_mutex, waiting_mutex, kbd_buf, keyboard_flags,
                                buffer, asked, handler>>

\* kbd_buf is cleared, mutex_post wakes the first thread that waits; the caller
\* uses what it got, gives the memory back, and waits for something else.
Release(t) ==
    /\ Runs(t, "release")
    /\ kbd_buf' = ClearBuf
    /\ kbd_mutex' = NULL
    /\ IF waiting_mutex = <<>>
       THEN /\ pc' = [pc EXCEPT ![t] = "out"]
            /\ UNCHANGED waiting_mutex
       ELSE /\ pc' = [pc EXCEPT ![t] = "out", ![Head(waiting_mutex)] = "lock"]
            /\ waiting_mutex' = Tail(waiting_mutex)
    /\ Wait(t)
    /\ buffer' = [buffer EXCEPT ![t] = Blank]
    /\ asked' = [asked EXCEPT ![t] = NoCall]
    /\ result' = [result EXCEPT ![t] = 0]
    /\ UNCHANGED <<sem, keyboard_flags, handler>>

-----------------------------------------------------------------------------
(* keyboard_interrupt_handler and manage_keycode                           *)

\* The handler starts on h and reads the byte from the port.  (A byte of the
\* mouse, which the code does not tell apart, is left out.)
Interrupt(h) ==
    /\ handler.host = NULL
    /\ h \in MayRun
    /\ Runner(h)
    /\ UNCHANGED <<kbd_mutex, waiting_mutex, asked, result>>

Char(key) == IF key = "letter" /\ keyboard_flags # {} THEN "LETTER" ELSE key
Characters == {"letter", "return", "backspace"}

\* Nothing in the port, or a character nobody asked for: the handler ends.
NothingToDo(h, key) ==
    /\ Interrupt(h)
    /\ key = "none" \/ (key \in Characters /\ kbd_buf.type = 0)
    /\ UNCHANGED <<sem, kbd_buf, keyboard_flags, buffer, pc, handler>>

Shift(h, key) ==
    /\ Interrupt(h)
    /\ key \in KeyType \ Characters
    /\ keyboard_flags' =
         CASE key = "lshift" -> keyboard_flags \cup {"L"}
           [] key = "rshift" -> keyboard_flags \cup {"R"}
           [] key = "lshift_up" -> keyboard_flags \ {"L"}
           [] key = "rshift_up" -> keyboard_flags \ {"R"}
    /\ UNCHANGED <<sem, kbd_buf, buffer, pc, handler>>

Put(i, char) == buffer' = [buffer EXCEPT ![kbd_buf.char_buf][i] = char]

\* A slip: the cell after the last one is taken too.
StoreOneMore(char) ==
    IF kbd_buf.read <= kbd_buf.read_size
    THEN Put(kbd_buf.read, char) /\ kbd_buf' = [kbd_buf EXCEPT !.read = @ + 1]
    ELSE UNCHANGED <<buffer, kbd_buf>>

\* char_buf[read++] = char, if there is room.
Store(char) ==
    IF kbd_buf.read < kbd_buf.read_size
    THEN Put(kbd_buf.read, char) /\ kbd_buf' = [kbd_buf EXCEPT !.read = @ + 1]
    ELSE UNCHANGED <<buffer, kbd_buf>>

Typed(h, key) ==
    /\ Interrupt(h)
    /\ key = "letter" /\ kbd_buf.type = 1
    /\ Store(Char(key))
    /\ UNCHANGED <<sem, keyboard_flags, pc, handler>>

Erase(h, key) ==
    /\ Interrupt(h)
    /\ key = "backspace" /\ kbd_buf.type = 1
    /\ LET read == IF kbd_buf.read > 0 THEN kbd_buf.read - 1 ELSE 0
       IN  Put(read, "nul") /\ kbd_buf' = [kbd_buf EXCEPT !.read = read]
    /\ UNCHANGED <<sem, keyboard_flags, pc, handler>>

\* The slip of a sem_post that leaves the waiting thread to itself.
PostOnly(h) ==
    /\ sem' = [sem EXCEPT !.level = @ + 1]
    /\ handler' = [host |-> h, wakee |-> NULL, point |-> "eoi"]

\* sem_post up to where it gives the spinlock back.
Post(h) ==
    /\ sem' = [sem EXCEPT !.level = @ + 1, !.waiter = NULL]
    /\ handler' = [host |-> h, wakee |-> sem.waiter,
                   point |-> IF sem.waiter # NULL THEN "wake" ELSE "eoi"]

\* A slip: type stays, the handler goes on filling the buffer.
CompleteOpen(h, key) ==
    /\ Interrupt(h)
    /\ \/ key = "return" /\ kbd_buf.type = 1
       \/ key \in Characters /\ kbd_buf.type = 2
    /\ Store(Char(key))
    /\ Post(h)
    /\ UNCHANGED <<keyboard_flags, pc>>

\* The line ends with a return, getch with any character.
Complete(h, key) ==
    /\ Interrupt(h)
    /\ \/ key = "return" /\ kbd_buf.type = 1
       \/ key \in Characters /\ kbd_buf.type = 2
    /\ LET full == kbd_buf.read >= kbd_buf.read_size
       IN  /\ IF full THEN UNCHANGED buffer ELSE Put(kbd_buf.read, Char(key))
           /\ kbd_buf' = [kbd_buf EXCEPT !.type = 0,
                             !.read = IF full THEN @ ELSE @ + 1]
    /\ Post(h)
    /\ UNCHANGED <<keyboard_flags, pc>>

HandlerRuns(point) == /\ handler.point = point
                      /\ handler.host \in MayRun
                      /\ Runner(handler.host)

\* sem_post goes on: unlock_thread.
HandlerUnlock ==
    /\ HandlerRuns("wake")
    /\ pc' = [pc EXCEPT ![handler.wakee] = "pend"]
    /\ handler' = [handler EXCEPT !.wakee = NULL, !.point = "eoi"]
    /\ UNCHANGED <<kbd_mutex, waiting_mutex, sem, kbd_buf, keyboard_flags, buffer,
                   asked, result>>

\* The character is shown (module Console), then set_IRQ_EOI.
HandlerEnd ==
    /\ HandlerRuns("eoi")
    /\ handler' = NoHandler
    /\ UNCHANGED <<kbd_mutex, waiting_mutex, sem, kbd_buf, keyboard_flags, buffer,
                   asked, result, pc>>

-----------------------------------------------------------------------------

Reads(t) == \/ Lock(t) \/ LockBlock(t) \/ SemInit(t) \/ Arm(t) \/ Pend(t)
            \/ PendBlock(t) \/ SemDestroy(t) \/ Release(t)

Key(h, key) ==
    \/ NothingToDo(h, key) \/ Shift(h, key) \/ Typed(h, key)
    \/ Erase(h, key) \/ Complete(h, key)

Handles == HandlerUnlock \/ HandlerEnd

Next == \/ \E t \in Thread : Call(t) \/ Reads(t)
        \/ \E h \in Thread \cup {idle}, k \in Keys \cup {"none"} : Key(h, k)
        \/ Handles \/ Timer

Spec == Init /\ [][Next]_vars

\* Ready threads and the handler get the processor again; whoever types
\* presses return again whenever a thread waits for it and the keyboard may
\* interrupt.
Fairness ==
    /\ \A t \in Thread : WF_vars(Reads(t))
    /\ WF_vars(Handles)
    /\ SF_vars(\E h \in Thread \cup {idle} : Complete(h, "return"))

LiveSpec == Spec /\ Fairness

-----------------------------------------------------------------------------
(* Properties                                                              *)

\* The variables have their types, read is within the buffer.
TypeOK ==
    /\ kbd_mutex \in Thread \cup {NULL}
    /\ waiting_mutex \in Seq(Thread)
    /\ sem \in [init : {0, 1}, level : {0, 1}, waiter : Thread \cup {NULL}]
    /\ kbd_buf \in [type : {0, 1, 2}, char_buf : Thread \cup {NULL},
                    read_size : Sizes \cup {0, 1}, read : Cells]
    /\ keyboard_flags \subseteq {"L", "R"}
    /\ pc \in [Thread -> {"out", "lock", "lock_blocked", "sem_init", "arm", "pend",
                          "pend_blocked", "destroy", "release"}]
    /\ handler \in [host : Thread \cup {idle, NULL}, wakee : Thread \cup {NULL},
                    point : {"none", "wake", "eoi"}]
    /\ lingering \in Thread \cup {idle, NULL}

Serving == {t \in Thread : pc[t] \in {"sem_init", "arm", "pend", "pend_blocked",
                                      "destroy", "release"}}

\* No call of the driver on its mutex or semaphore fails (each failure ends in
\* kernel_panic): the handler finds the semaphore made, the buffer and its
\* owner there, and the thread it wakes blocked; the mutex keeps readers apart.
NoDriverFailure ==
    /\ Serving = IF kbd_mutex = NULL THEN {} ELSE {kbd_mutex}
    /\ kbd_buf.type # 0 => sem.init = 1 /\ kbd_buf.char_buf = kbd_mutex
    /\ kbd_buf.type # 0 => sem.level = 0 /\ kbd_buf.read <= kbd_buf.read_size
    /\ handler.point = "wake" =>
          pc[handler.wakee] = "pend_blocked" /\ sem.waiter = NULL
    /\ \A t \in Serving : pc[t] \notin {"sem_init", "release"} => sem.init = 1

\* The characters of the line so far, or of the line that was read.
Text(t, n) == [i \in 1 .. n |-> buffer[t][i - 1]]

\* The line is complete when type is back to 0.
Done(t) == pc[t] = "destroy" \/ (pc[t] \in {"pend", "pend_blocked"} /\ kbd_buf.type = 0)

Served == IF kbd_buf.type # 0 THEN kbd_buf.char_buf ELSE NULL
Request == IF kbd_buf.type # 0
           THEN [type |-> kbd_buf.type, size |-> kbd_buf.read_size] ELSE NoCall
Line == IF kbd_buf.type # 0 THEN Text(kbd_buf.char_buf, kbd_buf.read) ELSE <<>>
Given == [t \in Thread |-> IF pc[t] = "release" THEN Text(t, result[t])
                         ELSE IF Done(t) THEN Text(t, kbd_buf.read) ELSE <<>>]

AsLineInput == INSTANCE LineInput WITH
    Nobody <- NULL, served <- Served, request <- Request, line <- Line, given <- Given

\* Readers get lines as from a line editor: what is typed while a thread is
\* served goes, edited, to that thread only, whole, and no further than its
\* buffer, wherever the interrupts fall between the steps of the calls.
KeyboardIsLineInput == AsLineInput!Spec

\* Whoever has the keyboard returns once return is pressed, and a free
\* keyboard does not leave readers waiting.
ReadsGoOn ==
    /\ \A t \in Thread : kbd_mutex = t ~> kbd_mutex # t
    /\ waiting_mutex # <<>> ~> kbd_mutex # NULL
=============================================================================
