--------------------------------- MODULE Pit ---------------------------------
(***************************************************************************)
(* drivers/pit.c and the one line of core/interrupts.c's handler table it  *)
(* uses.  Threads start and stop the timer, change its frequency and its   *)
(* handler.  A thread is preempted wherever interrupts are on (the LAPIC   *)
(* timer schedules, so the PIT may be stopped); the spinlock turns them    *)
(* off.  A tick the interrupt controller has accepted is delivered as soon *)
(* as they are on again, whether or not the line has been masked since.    *)
(***************************************************************************)
EXTENDS Integers

CONSTANTS
    PitThread, NoPitThread,
    TickHandler,        \* handlers, "dummy" apart
    MaxNesting          \* no more calls at this disabled_nesting (UINT32_MAX in
                        \* the code, where it saturates)

ASSUME PitAssumption ==
    /\ NoPitThread \notin PitThread
    /\ "NULL" \notin TickHandler /\ "dummy" \notin TickHandler
    /\ MaxNesting \in Nat \ {0}

VARIABLES
    pit,        \* disabled_nesting, whether the line is masked, its handler
    tick,       \* a tick has been accepted and not yet delivered
    pit_lock,   \* the thread that holds pit_lock over two steps
    at          \* of each thread: where it is, what it came for
pit_vars == <<pit, tick, pit_lock, at>>

Out == [step |-> "out", op |-> "none"]

\* init_pit: the dummy handler, then enable_pit.
PitInit ==
    /\ pit = [nesting |-> 0, masked |-> FALSE, handler |-> "dummy"]
    /\ tick = FALSE
    /\ pit_lock = NoPitThread
    /\ at = [t \in PitThread |-> Out]

-----------------------------------------------------------------------------

Unlocked == pit_lock = NoPitThread
To(t, step) == at' = [at EXCEPT ![t].step = step]

\* What a thread calls: the operation and its first step.  remove_pit_handler
\* is set_pit_handler with the dummy.
CallPit(t) ==
    /\ at[t] = Out
    /\ \/ at' = [at EXCEPT ![t] = [step |-> "enable", op |-> "enable"]]
       \/ pit.nesting < MaxNesting /\ \E op \in {"disable", "freq", "dummy"} \cup TickHandler :
             at' = [at EXCEPT ![t] = [step |-> "disable", op |-> op]]
    /\ UNCHANGED <<pit, tick, pit_lock>>

\* disable_pit, alone or as the first thing set_pit_freq and set_pit_handler do.
DisablePit(t) ==
    /\ at[t].step = "disable" /\ Unlocked
    /\ pit' = [pit EXCEPT !.nesting = @ + 1, !.masked = TRUE]
    /\ CASE at[t].op = "disable" -> at' = [at EXCEPT ![t] = Out]
         [] at[t].op = "freq" -> To(t, "freq")
         [] OTHER -> To(t, "remove")
    /\ UNCHANGED <<tick, pit_lock>>

\* set_pit_freq's own locked part programs the timer: no state kept here.
SetFreq(t) ==
    /\ at[t].step = "freq" /\ Unlocked
    /\ To(t, "enable")
    /\ UNCHANGED <<pit, tick, pit_lock>>

\* A slip: the old handler is removed before the lock is taken.
RemoveUnlocked(t) ==
    /\ at[t].step = "remove" /\ Unlocked
    /\ pit' = [pit EXCEPT !.handler = "NULL"]
    /\ To(t, "register")
    /\ UNCHANGED <<tick, pit_lock>>

\* set_pit_handler: remove_interrupt_handler, under the lock; nothing to remove
\* (OS_ERR_INTERRUPT_NOT_REGISTERED): enable_pit and the error ...
RemoveHandler(t) ==
    /\ at[t].step = "remove" /\ Unlocked
    /\ IF pit.handler = "NULL"
       THEN To(t, "enable") /\ UNCHANGED <<pit, pit_lock>>
       ELSE /\ pit' = [pit EXCEPT !.handler = "NULL"]
            /\ pit_lock' = t
            /\ To(t, "register")
    /\ UNCHANGED tick

\* ... register_interrupt_handler, and the lock is given back.
RegisterHandler(t) ==
    /\ at[t].step = "register" /\ pit_lock \in {t, NoPitThread}
    /\ pit' = IF pit.handler = "NULL" THEN [pit EXCEPT !.handler = at[t].op] ELSE pit
    /\ pit_lock' = NoPitThread
    /\ To(t, "enable")
    /\ UNCHANGED tick

\* enable_pit, locked: whether the line is to be unmasked ...
EnablePit(t) ==
    /\ at[t].step = "enable" /\ Unlocked
    /\ pit' = [pit EXCEPT !.nesting = IF @ > 0 THEN @ - 1 ELSE @]
    /\ IF pit'.nesting = 0 THEN To(t, "unmask") ELSE at' = [at EXCEPT ![t] = Out]
    /\ UNCHANGED <<tick, pit_lock>>

\* ... and unlocked: set_IRQ_mask, whatever happened in between.
UnmaskLine(t) ==
    /\ at[t].step = "unmask" /\ Unlocked
    /\ pit' = [pit EXCEPT !.masked = FALSE]
    /\ at' = [at EXCEPT ![t] = Out]
    /\ UNCHANGED <<tick, pit_lock>>

\* The timer ticks; the controller accepts the tick if the line is not masked.
AcceptTick == ~pit.masked /\ ~tick /\ tick' = TRUE /\ UNCHANGED <<pit, pit_lock, at>>

\* kernel_interrupt_handler calls the handler.  Without one it panics: that is
\* no step here, see TickFindsHandler.
DeliverTick ==
    /\ tick /\ Unlocked /\ pit.handler # "NULL"
    /\ tick' = FALSE
    /\ UNCHANGED <<pit, pit_lock, at>>

PitNext ==
    \/ \E t \in PitThread :
          \/ CallPit(t) \/ DisablePit(t) \/ SetFreq(t) \/ RemoveHandler(t)
          \/ RegisterHandler(t) \/ EnablePit(t) \/ UnmaskLine(t)
    \/ AcceptTick \/ DeliverTick

PitSpec == PitInit /\ [][PitNext]_pit_vars

-----------------------------------------------------------------------------

PitTypeOK ==
    /\ pit.nesting \in Nat /\ pit.masked \in BOOLEAN
    /\ pit.handler \in {"NULL", "dummy"} \cup TickHandler
    /\ tick \in BOOLEAN /\ pit_lock \in PitThread \cup {NoPitThread}

\* A tick that can be delivered finds a handler, whoever is replacing it and
\* whoever unmasks the line late.
TickFindsHandler == tick /\ Unlocked => pit.handler # "NULL"

\* When every disable has been undone and nobody is about to unmask the line,
\* it is unmasked: no order of two threads' calls leaves the clock stopped.
ClockRuns ==
    pit.nesting = 0 /\ (\A t \in PitThread : at[t].step # "unmask") => ~pit.masked

\* Both.
PitSound == TickFindsHandler /\ ClockRuns
=============================================================================
