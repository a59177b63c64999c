----------------------------- MODULE Interrupts ------------------------------
(***************************************************************************)
(* core/interrupts.c and sync/lock.c on the one processor there is.  A     *)
(* spinlock is disable_local_interrupt and enable_local_interrupt: a       *)
(* nesting count of the whole kernel beside the interrupt flag of the      *)
(* processor, which every interrupt and every switch of threads saves and  *)
(* restores.  The module says what all others take for granted: a stretch  *)
(* under a spinlock is one step.                                           *)
(*                                                                         *)
(* A stack holds a thread and, on top of it, the handlers it was           *)
(* interrupted by.  The handler of the timer, schedule_int, keeps the flag *)
(* off and takes no lock: it is one step.                                  *)
(***************************************************************************)
EXTENDS Integers, SequencesExt

CONSTANTS
    Runner,     \* the threads
    Boot,       \* the one whose code has started the kernel
    Device,     \* what interrupts, apart from the timer of the scheduler
    Posting,    \* the device whose handler takes spinlocks (sem_post in the
                \* keyboard's) before its end of interrupt
    Drawing,    \* those whose handler takes them after it (the mouse's, with
                \* the pointer among its events)
    MaxLocks,   \* spinlocks one piece of code holds at a time
    MaxNested   \* handlers on one stack

VARIABLES
    lapic_capable,
    cpu,        \* int_lock_nesting; the flag; the active thread
    stacks,     \* frames: whose code, where in a lock or unlock it is, the
                \* spinlocks it holds, its saved flag, whether it has sent its
                \* end of interrupt
    service,    \* the lines accepted by the processor, not ended
    fault       \* "refused" by the dispatcher, "panic" of the scheduler, or "none"
interrupt_vars == <<lapic_capable, cpu, stacks, service, fault>>

\* IRQ numbers, by which the PIC orders its lines; the vectors of the LAPIC
\* have the devices in one class (0x3.) above its timer (0x20).
Irq == [timer |-> 0, keyboard |-> 1, rtc |-> 8, mouse |-> 12]
Rank(line) == IF lapic_capable THEN IF line = "timer" THEN 1 ELSE 0 ELSE Irq[line]

ASSUME InterruptsAssumption ==
    /\ Boot \in Runner
    /\ Device \subseteq DOMAIN Irq \ {"timer"}
    /\ Posting \subseteq Device /\ \A d, e \in Posting : d = e
    /\ Drawing \subseteq Device
    /\ MaxLocks \in Nat /\ MaxNested \in Nat

FrameOf(of, flag) == [of |-> of, at |-> "run", locks |-> 0, flag |-> flag, ended |-> FALSE]

Passes(line) == \A other \in service : Rank(line) < Rank(other)
MostUrgent == {line \in service : \A other \in service : Rank(line) <= Rank(other)}

Depth(t) == Len(stacks[t])
Top(t) == stacks[t][Depth(t)]
Now == Top(cpu.runs)
Change(frame) == stacks' = [stacks EXCEPT ![cpu.runs] = [@ EXCEPT ![Len(@)] = frame]]

\* Start-up runs with the count at one; the first enable ends init_scheduler.
\* A new thread has the flag set (THREAD_INIT_EFLAGS).
InterruptsInit ==
    /\ lapic_capable \in BOOLEAN
    /\ cpu = [nesting |-> 1, flag |-> FALSE, runs |-> Boot]
    /\ stacks = [t \in Runner |-> <<[FrameOf("thread", TRUE) EXCEPT !.locks = IF t = Boot THEN 1 ELSE 0]>>]
    /\ service = {}
    /\ fault = "none"

-----------------------------------------------------------------------------
(* disable_local_interrupt: cli, then the count; enable_local_interrupt:   *)
(* the count, then sti.                                                    *)

Locks(frame) == \/ frame.of = "thread"
                \/ frame.of \in Posting /\ ~frame.ended
                \/ frame.of \in Drawing /\ frame.ended

Disable ==
    /\ Now.at = "run" /\ Locks(Now) /\ Now.locks < MaxLocks
    /\ cpu' = [cpu EXCEPT !.flag = FALSE]
    /\ Change([Now EXCEPT !.at = "counting"])
    /\ UNCHANGED <<lapic_capable, service, fault>>

Count ==
    /\ Now.at = "counting"
    /\ cpu' = [cpu EXCEPT !.nesting = @ + 1]
    /\ Change([Now EXCEPT !.at = "run", !.locks = @ + 1])
    /\ UNCHANGED <<lapic_capable, service, fault>>

Enable ==
    /\ Now.at = "run" /\ Now.locks > 0
    /\ cpu' = [cpu EXCEPT !.nesting = IF @ > 0 THEN @ - 1 ELSE @]
    /\ Change([Now EXCEPT !.at = "enabling", !.locks = @ - 1])
    /\ UNCHANGED <<lapic_capable, service, fault>>

\* A slip: the flag is set whatever the count.
StiAlways ==
    /\ Now.at = "enabling"
    /\ cpu' = [cpu EXCEPT !.flag = TRUE]
    /\ Change([Now EXCEPT !.at = "run"])
    /\ UNCHANGED <<lapic_capable, service, fault>>

Sti ==
    /\ Now.at = "enabling"
    /\ cpu' = [cpu EXCEPT !.flag = @ \/ cpu.nesting = 0]
    /\ Change([Now EXCEPT !.at = "run"])
    /\ UNCHANGED <<lapic_capable, service, fault>>

-----------------------------------------------------------------------------
(* Interrupts                                                              *)

\* The gate turns the flag off and the dispatcher calls the handler; with the
\* count above zero it returns at once, without an end of interrupt.
Interrupt(line) ==
    /\ cpu.flag /\ Passes(line)
    /\ Depth(cpu.runs) <= MaxNested
    /\ service' = service \cup {line}
    /\ IF cpu.nesting > 0
       THEN fault' = "refused" /\ UNCHANGED <<cpu, stacks>>
       ELSE /\ stacks' = [stacks EXCEPT ![cpu.runs] =
                             Append([@ EXCEPT ![Len(@)].flag = TRUE], FrameOf(line, FALSE))]
            /\ cpu' = [cpu EXCEPT !.flag = FALSE]
            /\ UNCHANGED fault
    /\ UNCHANGED lapic_capable

\* set_IRQ_EOI: both controllers end the most urgent of what is in service.
End ==
    /\ Now.of \in Device /\ ~Now.ended /\ Now.at = "run" /\ Now.locks = 0
    /\ service' = service \ MostUrgent
    /\ Change([Now EXCEPT !.ended = TRUE])
    /\ UNCHANGED <<lapic_capable, cpu, fault>>

\* The iret of a handler.
Iret ==
    /\ Now.of \in Device /\ Now.ended /\ Now.at = "run" /\ Now.locks = 0
    /\ stacks' = [stacks EXCEPT ![cpu.runs] = Front(@)]
    /\ cpu' = [cpu EXCEPT !.flag = Last(Front(stacks[cpu.runs])).flag]
    /\ UNCHANGED <<lapic_capable, service, fault>>

\* schedule_int chooses a thread and leaves by its iret; with the count above
\* zero it panics (or the dispatcher has refused the timer before).
ScheduleInt(t, refusal) ==
    IF cpu.nesting > 0
    THEN fault' = refusal /\ UNCHANGED <<cpu, stacks>>
    ELSE /\ Change([Now EXCEPT !.flag = cpu.flag])
         /\ cpu' = [cpu EXCEPT !.runs = t, !.flag = IF t = cpu.runs THEN @ ELSE Top(t).flag]
         /\ UNCHANGED fault

\* The interrupt of the timer, with its end.
TimerTick(t) ==
    /\ cpu.flag /\ Passes("timer")
    /\ ScheduleInt(t, "refused")
    /\ UNCHANGED <<lapic_capable, service>>

\* schedule(), which threads come to without a spinlock.
Yield(t) ==
    /\ Now.of = "thread" /\ Now.at = "run" /\ Now.locks = 0
    /\ ScheduleInt(t, "panic")
    /\ UNCHANGED <<lapic_capable, service>>

InterruptsNext ==
    /\ fault = "none"
    /\ \/ Disable \/ Count \/ Enable \/ Sti \/ End \/ Iret
       \/ \E line \in Device : Interrupt(line)
       \/ \E t \in Runner : TimerTick(t) \/ Yield(t)

InterruptsSpec == InterruptsInit /\ [][InterruptsNext]_interrupt_vars

-----------------------------------------------------------------------------
(* Properties                                                              *)

InterruptsTypeOK ==
    /\ lapic_capable \in BOOLEAN
    /\ cpu \in [nesting : Nat, flag : BOOLEAN, runs : Runner]
    /\ stacks \in [Runner -> Seq([of : {"thread"} \cup Device, at : {"run", "counting", "enabling"},
                                  locks : Nat, flag : BOOLEAN, ended : BOOLEAN])]
    /\ service \subseteq Device \cup {"timer"}
    /\ fault \in {"none", "refused", "panic"}

\* Whoever holds a spinlock is the code that runs: nothing has interrupted it,
\* and no switch of threads has left it behind.
LocksExclude ==
    \A t \in Runner : \A i \in 1 .. Depth(t) :
        stacks[t][i].locks > 0 => t = cpu.runs /\ i = Depth(t)

\* The count is that code's own: the dispatcher never sends an interrupt back
\* unended, and the scheduler never panics over it.
NothingRefused == fault = "none"

\* An end of interrupt, which names no line, ends that of the handler sending it.
EndsItsOwn ==
    Now.of \in Device /\ ~Now.ended => MostUrgent = {Now.of}

InterruptsSound == LocksExclude /\ NothingRefused /\ EndsItsOwn
=============================================================================
