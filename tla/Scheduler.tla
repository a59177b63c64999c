------------------------------ MODULE Scheduler ------------------------------
(***************************************************************************)
(* core/scheduler.c: the threads of the kernel, their tables, and the one  *)
(* processor they share.                                                   *)
(*                                                                         *)
(* There is one core.  The active thread takes the steps, at the grain of  *)
(* the stretches the code runs with interrupts off; between two of them    *)
(* the timer may interrupt (TimerInt) and an interrupt handler may unlock  *)
(* a thread (IrqUnlock).  pc says where a thread will go on when it is     *)
(* active again:                                                           *)
(*    "run"         its own code, which may call the scheduler             *)
(*    "alarm"       sleep has set wakeup_time, about to set the state      *)
(*    "resched"     left interrupts on, about to execute schedule()        *)
(*    "join"        the same, inside wait_thread                           *)
(*    "clean"       back from that schedule(), about to clean the joined   *)
(*    "exit"        past thread_exit, about to execute its last schedule() *)
(*    "drain", "drain_more", "drain_wait", "drain_join", "drain_clean",    *)
(*    "spin", "return"                                                     *)
(*                  init_func once main() has returned                     *)
(*    "boot", "hlt", "off"                                                 *)
(*                  idle_sys                                               *)
(***************************************************************************)
EXTENDS ListOps, FiniteSets, FiniteSetsExt

CONSTANTS
    User,           \* the threads programs create
    idle, init,     \* the two threads of the kernel
    NULL,
    InitPrio,       \* the priority each thread is created with
    Lowest,         \* KERNEL_LOWEST_PRIORITY, the priority of idle (64)
    AgingTicks,     \* passes a thread waits for one boost (25)
    Word16,         \* 2^16: a list priority is a uint16_t
    TickMs,         \* what one timer interrupt adds to the uptime (2)
    SleepMs,        \* the delays programs sleep for
    MaxTime,        \* bound: the uptime stops here, sleeps end before it
    Lapic,          \* the scheduler runs on the LAPIC timer, else on the PIT
    Calls,          \* the scheduler calls the programs make
    ChildrenOnly,   \* programs join only threads they have created
    JoinFirst       \* programs join their threads before they return

Thread == User \cup {idle, init}

ASSUME SchedulerAssumption ==
    /\ idle # init /\ idle \notin User /\ init \notin User /\ NULL \notin Thread
    /\ Lowest \in Nat /\ InitPrio \in [Thread -> 0 .. Lowest]
    /\ InitPrio[idle] = Lowest /\ InitPrio[init] = 0
    /\ AgingTicks \in Nat \ {0} /\ Word16 \in Nat \ {0} /\ Word16 > Lowest
    /\ TickMs \in Nat \ {0} /\ SleepMs \subseteq Nat /\ MaxTime \in Nat
    /\ {Lapic, ChildrenOnly, JoinFirst} \subseteq BOOLEAN

VARIABLES
    \* kernel_thread_t
    state, priority, last_sched, wakeup_time, joining_thread, children,
    \* the tables; the global table is only ever asked who is in it
    active_threads_table, sleeping_threads_table, zombie_threads_table,
    global_threads_table,
    \* the other globals
    active_thread, thread_count, first_schedule, system_state,
    uptime,         \* get_current_uptime()
    pc,             \* where each thread goes on
    target,         \* the thread that wait_thread was called for
    fault           \* what stopped the machine, if anything did

fields == <<state, priority, last_sched, wakeup_time, joining_thread, children>>
tables == <<active_threads_table, sleeping_threads_table, zombie_threads_table,
            global_threads_table>>
vars   == <<fields, tables, active_thread, thread_count, first_schedule,
            system_state, uptime, pc, target, fault>>

\* "UNUSED" is a thread not yet created, "FREED" one whose structure went back
\* to the heap.  DEAD is only ever stored on the way to kfree.
States == {"UNUSED", "RUNNING", "READY", "SLEEPING", "ZOMBIE", "JOINING",
           "BLOCKED", "FREED"}
Exists(t) == state[t] \notin {"UNUSED", "FREED"}

\* The state init_scheduler leaves, about to call schedule().
Init ==
    /\ state = [t \in Thread |-> IF t = idle THEN "RUNNING" ELSE "UNUSED"]
    /\ priority = InitPrio
    /\ last_sched = [t \in Thread |-> 0]
    /\ wakeup_time = [t \in Thread |-> 0]
    /\ joining_thread = [t \in Thread |-> NULL]
    /\ children = [t \in Thread |-> <<>>]
    /\ active_threads_table = <<>>
    /\ sleeping_threads_table = <<>>
    /\ zombie_threads_table = <<>>
    /\ global_threads_table = {idle}
    /\ active_thread = idle
    /\ thread_count = 1
    /\ first_schedule = FALSE
    /\ system_state = "ALIVE"
    /\ uptime = 0
    /\ pc = [t \in Thread |-> IF t = idle THEN "boot" ELSE "run"]
    /\ target = [t \in Thread |-> NULL]
    /\ fault = "none"

-----------------------------------------------------------------------------
(* schedule_int                                                            *)

\* The loops that move nodes to a list: entries go in one by one, the last of
\* them (the tail of the list they come from) first.
EnlistAll(list, entries) ==
    LET into[i \in 0 .. Len(entries)] ==
            IF i = 0 THEN list
            ELSE LET e == entries[Len(entries) + 1 - i]
                 IN  CHOOSE l \in {EnlistData(before, e.node, e.priority) :
                                       before \in {into[i - 1]}} : TRUE
    IN  into[Len(entries)]

\* The boost of schedule_int: a pass over the active table, run only when the
\* interrupted thread is neither idle nor init.
Ages == active_thread \notin {idle, init}
Waits(t) == t \in Nodes(active_threads_table) \ {idle, init}
Boosted(t) == Ages /\ Waits(t) /\ last_sched[t] + 1 >= AgingTicks

\* The line compared is the PIT's, whichever timer drives the scheduler.
PriorityBefore(timer) ==
    IF Ages /\ timer /\ ~Lapic
    THEN [priority EXCEPT ![active_thread] = InitPrio[active_thread]]
    ELSE priority

\* A slip: the priority is not compared with KERNEL_HIGHEST_PRIORITY.
AgedPastHighest(prio) ==
    [t \in Thread |-> IF Boosted(t) THEN prio[t] - 1 ELSE prio[t]]

AgedPriority(prio) ==
    [t \in Thread |-> IF Boosted(t) /\ prio[t] > 0 THEN prio[t] - 1 ELSE prio[t]]

\* A slip: only the thread is aged, not its node.
NodesNotAged(prio) == active_threads_table

\* The node is decremented when the thread's priority is not 0, in 16 bits.
AgedTable(prio) ==
    [i \in DOMAIN active_threads_table |->
        LET e == active_threads_table[i]
        IN  IF Boosted(e.node) /\ prio[e.node] > 0
            THEN Entry(e.node, (e.priority + Word16 - 1) % Word16)
            ELSE e]

AgedWait ==
    [t \in Thread |-> IF Ages /\ t = active_thread THEN 0
                      ELSE IF Boosted(t) THEN 0
                      ELSE IF Ages /\ Waits(t) THEN last_sched[t] + 1
                      ELSE last_sched[t]]

\* Slips: the test of the state is lost, the node goes back with the priority
\* the other lists use, or does not go back.
RequeuedAlways(table, prio) == EnlistData(table, active_thread, prio[active_thread])
RequeuedHighest(table, prio) ==
    IF state[active_thread] = "RUNNING"
    THEN EnlistData(table, active_thread, 0) ELSE table
RequeuedNever(table, prio) == table

\* select_thread, first part: the interrupted thread goes back to the table
\* its state asks for.
Requeued(table, prio) ==
    IF state[active_thread] = "RUNNING"
    THEN EnlistData(table, active_thread, prio[active_thread])
    ELSE table

\* A slip: the sleeping table is kept like a waiting list, first in first out.
SleepFifo(t) == 0

SleepPriority(t) == wakeup_time[t] % Word16

Asleep ==
    IF state[active_thread] = "SLEEPING"
    THEN EnlistData(sleeping_threads_table, active_thread,
                    SleepPriority(active_thread))
    ELSE sleeping_threads_table

\* Second part: tails of the sleeping table are woken until one is not due;
\* that one is put back.
Due(t) == wakeup_time[t] < uptime
Kept == Max({0} \cup {i \in DOMAIN Asleep : ~Due(Asleep[i].node)})
Woken == SubSeq(Asleep, Kept + 1, Len(Asleep))
StillAsleep ==
    IF Kept = 0 THEN <<>>
    ELSE LET n == Asleep[Kept].node
         IN  EnlistData(SubSeq(Asleep, 1, Kept - 1), n, SleepPriority(n))

WithWoken(table, prio) ==
    EnlistAll(table, [i \in DOMAIN Woken |-> Entry(Woken[i].node, prio[Woken[i].node])])

\* Third part: the tail of the active table runs.
Dispatch(ready) ==
    IF ready = <<>>
    THEN /\ fault' = "no_thread_to_run"
         /\ UNCHANGED <<state, active_threads_table, active_thread>>
    ELSE LET next == DelistedNode(ready)
         IN  /\ active_thread' = next
             /\ active_threads_table' = DelistData(ready)
             /\ state' = [t \in Thread |->
                    IF t = next THEN "RUNNING"
                    ELSE IF t = active_thread /\ state[t] = "RUNNING" THEN "READY"
                    ELSE IF t \in Nodes(Woken) THEN "READY" ELSE state[t]]
             /\ UNCHANGED fault

ScheduleInt(timer) ==
    LET before == PriorityBefore(timer)
        aged   == AgedPriority(before)
    IN  /\ priority' = aged
        /\ last_sched' = AgedWait
        /\ IF first_schedule
           THEN /\ Dispatch(WithWoken(Requeued(AgedTable(before), aged), aged))
                /\ sleeping_threads_table' = StillAsleep
                /\ UNCHANGED first_schedule
           ELSE /\ first_schedule' = TRUE
                /\ UNCHANGED <<state, active_threads_table, active_thread,
                               sleeping_threads_table, fault>>
        /\ UNCHANGED <<wakeup_time, joining_thread, children, zombie_threads_table,
                       global_threads_table, thread_count, system_state, target>>

\* The machine still runs and the code about to run has interrupts on.
Alive == fault = "none"
InterruptsOn == pc[active_thread] \notin {"spin", "off"}

\* The hardware timer: schedule_int, then update_tick.
TimerInt ==
    /\ Alive /\ InterruptsOn
    /\ ScheduleInt(TRUE)
    /\ uptime' = IF uptime < MaxTime THEN uptime + TickMs ELSE uptime
    /\ UNCHANGED pc

Resumption == [resched |-> "run", join |-> "clean", drain_join |-> "drain_clean",
               exit |-> "exit"]

\* schedule(): the active thread raises the software interrupt.  The first one
\* is that of init_scheduler, whose stack is abandoned.
Schedule ==
    /\ Alive
    /\ ~first_schedule \/ pc[active_thread] \in DOMAIN Resumption
    /\ ScheduleInt(FALSE)
    /\ pc' = IF first_schedule
             THEN [pc EXCEPT ![active_thread] = Resumption[@]] ELSE pc
    /\ UNCHANGED uptime

-----------------------------------------------------------------------------
(* The calls of a running thread                                           *)

Runs(t, point) == Alive /\ first_schedule /\ active_thread = t /\ pc[t] = point
MayCall(t, call) == Runs(t, "run") /\ call \in Calls

\* create_thread.  Nothing changes when the heap is exhausted.
NewThread(t, u) ==
    /\ state[u] = "UNUSED"
    /\ state' = [state EXCEPT ![u] = "READY"]
    /\ active_threads_table' = EnlistData(active_threads_table, u, InitPrio[u])
    /\ global_threads_table' = global_threads_table \cup {u}
    /\ children' = [children EXCEPT ![t] = EnlistData(@, u, 0)]
    /\ thread_count' = thread_count + 1
    /\ UNCHANGED <<priority, last_sched, wakeup_time, joining_thread, active_thread,
                   sleeping_threads_table, zombie_threads_table, first_schedule,
                   system_state, uptime, target, fault>>

CreateThread(t, u) == MayCall(t, "create") /\ NewThread(t, u) /\ UNCHANGED pc

\* sleep: with interrupts on throughout, so the thread may lose the processor
\* after it has computed its wake-up time, ...
Sleep(t, ms) ==
    /\ MayCall(t, "sleep")
    /\ uptime + ms < MaxTime
    /\ wakeup_time' = [wakeup_time EXCEPT ![t] = uptime + ms]
    /\ pc' = [pc EXCEPT ![t] = "alarm"]
    /\ UNCHANGED <<state, priority, last_sched, joining_thread, children, tables,
                   active_thread, thread_count, first_schedule, system_state,
                   uptime, target, fault>>

\* ... and again before it gets to schedule().
FallAsleep(t) ==
    /\ Runs(t, "alarm")
    /\ state' = [state EXCEPT ![t] = "SLEEPING"]
    /\ pc' = [pc EXCEPT ![t] = "resched"]
    /\ UNCHANGED <<priority, last_sched, wakeup_time, joining_thread, children, tables,
                   active_thread, thread_count, first_schedule, system_state,
                   uptime, target, fault>>

\* lock_thread, called by a pend that has to wait; the caller enlists the node
\* in its own waiting list before it lets interrupts in again.
LockThread(t) ==
    /\ MayCall(t, "lock")
    /\ state' = [state EXCEPT ![t] = "BLOCKED"]
    /\ pc' = [pc EXCEPT ![t] = "resched"]
    /\ UNCHANGED <<priority, last_sched, wakeup_time, joining_thread, children, tables,
                   active_thread, thread_count, first_schedule, system_state,
                   uptime, target, fault>>

\* unlock_thread: the node was delisted from a waiting list.
Unlock(u) ==
    /\ state[u] = "BLOCKED"
    /\ state' = [state EXCEPT ![u] = "READY"]
    /\ active_threads_table' = EnlistData(active_threads_table, u, priority[u])
    /\ UNCHANGED <<priority, last_sched, wakeup_time, joining_thread, children,
                   sleeping_threads_table, zombie_threads_table,
                   global_threads_table, active_thread, thread_count,
                   first_schedule, system_state, uptime, target, fault>>

UnlockThread(t, u, do_schedule) ==
    /\ MayCall(t, "lock")
    /\ Unlock(u)
    /\ pc' = IF do_schedule THEN [pc EXCEPT ![t] = "resched"] ELSE pc

\* A handler posts a semaphore; this may hit a thread between its lock_thread
\* and its schedule().
IrqUnlock(u) == Alive /\ InterruptsOn /\ "lock" \in Calls /\ Unlock(u) /\ UNCHANGED pc

\* A slip: the parent keeps the node of the child.
CleanKeepingChild(t, u) ==
    /\ zombie_threads_table' = RemoveNodeFrom(zombie_threads_table, u)
    /\ global_threads_table' = global_threads_table \ {u}
    /\ thread_count' = thread_count - 1
    /\ state' = [state EXCEPT ![u] = "FREED"]
    /\ UNCHANGED <<children, fault>>

\* clean_joined_thread, and the kfree of the structure.
Clean(t, u) ==
    /\ children' = [children EXCEPT ![t] = RemoveNodeFrom(@, u)]
    /\ zombie_threads_table' = RemoveNodeFrom(zombie_threads_table, u)
    /\ global_threads_table' = global_threads_table \ {u}
    /\ thread_count' = thread_count - 1
    /\ state' = [state EXCEPT ![u] = "FREED"]
    /\ UNCHANGED fault

\* wait_thread: the thread is done, or the caller becomes the one it will wake.
\* (joined, joining) are the points the caller goes on from in the two cases.
Wait(t, u, joined, joining) ==
    /\ \/ /\ state[u] = "ZOMBIE"
          /\ Clean(t, u)
          /\ pc' = [pc EXCEPT ![t] = joined]
          /\ target' = [target EXCEPT ![t] = NULL]
          /\ UNCHANGED joining_thread
       \/ /\ state[u] \notin {"ZOMBIE", "FREED"}
          /\ joining_thread' = [joining_thread EXCEPT ![u] = t]
          /\ state' = [state EXCEPT ![t] = "JOINING"]
          /\ pc' = [pc EXCEPT ![t] = joining]
          /\ target' = [target EXCEPT ![t] = u]
          /\ UNCHANGED <<children, zombie_threads_table, global_threads_table,
                         thread_count, fault>>
       \/ /\ state[u] = "FREED"
          /\ fault' = "use_after_free"
          /\ UNCHANGED <<state, joining_thread, children, zombie_threads_table,
                         global_threads_table, thread_count, pc, target>>
    /\ UNCHANGED <<priority, last_sched, wakeup_time, active_threads_table,
                   sleeping_threads_table, active_thread, first_schedule,
                   system_state, uptime>>

\* A program joins a thread it knows of; ChildrenOnly narrows that down.
MayJoin(t, u) == IF ChildrenOnly THEN u \in Nodes(children[t])
                 ELSE u \in User \ {t} /\ Exists(u)

WaitThread(t, u) ==
    MayCall(t, "wait") /\ MayJoin(t, u) /\ Wait(t, u, "run", "join")

\* The end of wait_thread.  A structure that is gone is read and freed again.
FinishWait(t) ==
    /\ \E point \in {"clean", "drain_clean"} :
          /\ Runs(t, point)
          /\ pc' = [pc EXCEPT ![t] = IF point = "clean" THEN "run" ELSE "drain_more"]
    /\ target' = [target EXCEPT ![t] = NULL]
    /\ IF Exists(target[t])
       THEN Clean(t, target[t])
       ELSE /\ fault' = "use_after_free"
            /\ UNCHANGED <<state, children, zombie_threads_table,
                           global_threads_table, thread_count>>
    /\ UNCHANGED <<priority, last_sched, wakeup_time, joining_thread,
                   active_threads_table, sleeping_threads_table, active_thread,
                   first_schedule, system_state, uptime>>

\* thread_exit, the part every thread but init runs.
Joiner(t) == joining_thread[t]
\* A slip: the joiner is looked for in the wrong state.
WakesBlocked(t) == Joiner(t) # NULL /\ state[Joiner(t)] = "BLOCKED"

WakesJoiner(t) == Joiner(t) # NULL /\ state[Joiner(t)] = "JOINING"

\* The loop over the children reads child->joining_thread->data.  Of a child
\* nobody waits for the pointer is null, and page 0 is not mapped.  (Were the
\* one that waits t itself, t's own node would lose its thread; a thread that
\* waits does not exit.)
Inheritable(t) ==
    \A c \in Nodes(children[t]) : joining_thread[c] \notin {NULL, t}

Adopted(t) == EnlistAll(children[init],
                        [i \in DOMAIN children[t] |-> Entry(children[t][i].node, 0)])

ThreadExit(t) ==
    /\ t \in User
    /\ MayCall(t, "exit")
    /\ JoinFirst => children[t] = <<>>
    /\ IF Inheritable(t)
       THEN /\ state' = [u \in Thread |->
                    IF u = t THEN "ZOMBIE"
                    ELSE IF WakesJoiner(t) /\ u = Joiner(t) THEN "READY"
                    ELSE state[u]]
            /\ active_threads_table' =
                    IF WakesJoiner(t)
                    THEN EnlistData(active_threads_table, Joiner(t),
                                    priority[Joiner(t)])
                    ELSE active_threads_table
            /\ zombie_threads_table' = EnlistData(zombie_threads_table, t, 0)
            /\ children' = [children EXCEPT ![init] = Adopted(t), ![t] = <<>>]
            /\ pc' = [pc EXCEPT ![t] = "exit"]
            /\ UNCHANGED fault
       ELSE /\ fault' = "null_joining_thread"
            /\ UNCHANGED <<state, active_threads_table, zombie_threads_table,
                           children, pc>>
    /\ UNCHANGED <<priority, last_sched, wakeup_time, joining_thread,
                   sleeping_threads_table, global_threads_table, active_thread,
                   thread_count, first_schedule, system_state, uptime, target>>

-----------------------------------------------------------------------------
(* idle_sys and init_func                                                  *)

\* idle creates init, then halts the processor between interrupts ...
IdleBoot == /\ Runs(idle, "boot")
            /\ NewThread(idle, init)
            /\ pc' = [pc EXCEPT ![idle] = "hlt"]

\* ... and for good once the system is halted.
IdleOff == /\ Runs(idle, "hlt")
           /\ system_state = "HALTED"
           /\ pc' = [pc EXCEPT ![idle] = "off"]
           /\ UNCHANGED <<fields, tables, active_thread, thread_count,
                          first_schedule, system_state, uptime, target, fault>>

\* main() returns.
MainReturns == /\ Runs(init, "run")
               /\ pc' = [pc EXCEPT ![init] = "drain"]
               /\ UNCHANGED <<fields, tables, active_thread, thread_count,
                              first_schedule, system_state, uptime, target, fault>>

\* One stretch of the loop of init_func with interrupts off: the outer test,
\* unless the inner loop goes on, then the delisting of a child.  With no child
\* left and threads still counted the outer loop turns with interrupts off.
Drain ==
    /\ \E point \in {"drain", "drain_more"} : Runs(init, point)
    /\ \/ /\ children[init] # <<>>
          /\ thread_count > 2 \/ pc[init] = "drain_more"
          /\ target' = [target EXCEPT ![init] = DelistedNode(children[init])]
          /\ children' = [children EXCEPT ![init] = DelistData(@)]
          /\ pc' = [pc EXCEPT ![init] = "drain_wait"]
          /\ UNCHANGED system_state
       \/ /\ children[init] = <<>>
          /\ thread_count > 2
          /\ pc' = [pc EXCEPT ![init] = "spin"]
          /\ UNCHANGED <<target, children, system_state>>
       \/ /\ children[init] = <<>> \/ pc[init] = "drain"
          /\ thread_count <= 2
          /\ system_state' = "HALTED"
          /\ pc' = [pc EXCEPT ![init] = "return"]
          /\ UNCHANGED <<target, children>>
    /\ UNCHANGED <<state, priority, last_sched, wakeup_time, joining_thread, tables,
                   active_thread, thread_count, first_schedule, uptime, fault>>

DrainWait == /\ Runs(init, "drain_wait")
             /\ Wait(init, target[init], "drain_more", "drain_join")

\* thread_exit, the part init runs.
InitExit == /\ Runs(init, "return")
            /\ state' = [state EXCEPT ![init] = "ZOMBIE"]
            /\ pc' = [pc EXCEPT ![init] = "exit"]
            /\ UNCHANGED <<priority, last_sched, wakeup_time, joining_thread,
                           children, tables, active_thread, thread_count,
                           first_schedule, system_state, uptime, target, fault>>

\* The machine has stopped: halted for good, or in kernel_panic.
Stopped == (pc[idle] = "off" \/ ~Alive) /\ UNCHANGED vars

Kernel == \/ \E t \in Thread : FinishWait(t) \/ FallAsleep(t)
          \/ Schedule \/ IdleBoot \/ IdleOff \/ Drain \/ DrainWait \/ InitExit

Program ==
    \E t \in Thread :
        \/ \E u \in User : CreateThread(t, u) \/ WaitThread(t, u)
        \/ \E u \in Thread, do_schedule \in BOOLEAN : UnlockThread(t, u, do_schedule)
        \/ \E ms \in SleepMs : Sleep(t, ms)
        \/ LockThread(t)
        \/ ThreadExit(t)

Next == \/ TimerInt
        \/ \E u \in Thread : IrqUnlock(u)
        \/ Kernel
        \/ Program
        \/ MainReturns
        \/ Stopped

Spec == Init /\ [][Next]_vars

\* The timer does not stop, the processor goes on with the code it is at, and
\* main() returns in the end.  SF, not WF: a thread that others displace for a
\* while gets no chance to take a step.
Fairness == /\ WF_vars(TimerInt)
            /\ SF_vars(Kernel)
            /\ SF_vars(MainReturns)
FairSpec == Spec /\ Fairness

-----------------------------------------------------------------------------
(* Properties                                                              *)

\* Every field holds a value of its C type; a thread's priority stays between
\* KERNEL_HIGHEST_PRIORITY and KERNEL_LOWEST_PRIORITY under any amount of aging.
TypeOK ==
    /\ state \in [Thread -> States]
    /\ priority \in [Thread -> 0 .. Lowest]
    /\ last_sched \in [Thread -> 0 .. AgingTicks]
    /\ wakeup_time \in [Thread -> Nat]
    /\ joining_thread \in [Thread -> Thread \cup {NULL}]
    /\ \A table \in {active_threads_table, sleeping_threads_table,
                     zombie_threads_table} \cup {children[t] : t \in Thread} :
          \A i \in DOMAIN table :
              table[i].node \in Thread /\ table[i].priority \in 0 .. Word16 - 1
    /\ global_threads_table \subseteq Thread
    /\ active_thread \in Thread
    /\ thread_count \in Nat
    /\ first_schedule \in BOOLEAN
    /\ system_state \in {"ALIVE", "HALTED"}
    /\ uptime \in Nat
    /\ target \in [Thread -> Thread \cup {NULL}]

\* Each thread is where its state says, and nowhere else, however interrupts
\* and calls interleave: READY means linked exactly once in the active table,
\* SLEEPING in the sleeping table unless the thread is still on its way to
\* schedule(), ZOMBIE in the zombie table (init excepted), and no other state
\* is in a table.  A node enlisted twice would corrupt both lists; a READY
\* thread in no table would never run again.  The processor never runs on the
\* stack of a freed thread.
OneHome ==
    Alive =>
        /\ Distinct(active_threads_table)
        /\ Distinct(sleeping_threads_table)
        /\ Distinct(zombie_threads_table)
        /\ Nodes(active_threads_table) = {t \in Thread : state[t] = "READY"}
        /\ Nodes(sleeping_threads_table) =
               {t \in Thread : state[t] = "SLEEPING"} \ {active_thread}
        /\ Nodes(zombie_threads_table) =
               {t \in Thread : state[t] = "ZOMBIE"} \ {init}
        /\ \A t \in Thread : state[t] = "RUNNING" => t = active_thread
        /\ Exists(active_thread)

\* Nobody is lost between a parent and init: the global table and thread_count
\* hold the threads that exist, every program thread is the child of exactly
\* one thread that exists (or is the one init has just taken off its list), so
\* somebody can still join it, and children lists name no freed thread.
FamilyTree ==
    Alive =>
        /\ global_threads_table = {t \in Thread : Exists(t)}
        /\ thread_count = Cardinality(global_threads_table)
        /\ \A u \in User :
              LET parents == {p \in Thread : u \in Nodes(children[p])}
                  drained == pc[init] \in {"drain_wait", "drain_join", "drain_clean"}
                             /\ target[init] = u
              IN  IF ~Exists(u) THEN parents = {}
                  ELSE IF drained THEN parents = {}
                  ELSE Cardinality(parents) = 1 /\ \A p \in parents : Exists(p)

\* No wake-up of a joiner is lost and none comes early: a thread that waits in
\* wait_thread is the one its target will wake, the target has not ended yet,
\* and when wait_thread goes on to clean the target, the target is a zombie.
JoinHandshake ==
    \A t \in Thread :
        /\ state[t] = "JOINING" =>
              /\ joining_thread[target[t]] = t
              /\ state[target[t]] \notin {"UNUSED", "ZOMBIE", "FREED"}
        /\ Alive /\ (\E point \in {"clean", "drain_clean"} : Runs(t, point)) =>
              state[target[t]] = "ZOMBIE"

\* Whatever is slept, locked, joined and ended, select_thread finds a thread to
\* run, and wait_thread reads no structure that is back in the heap.
NothingElseFails == fault \in {"none", "null_joining_thread"}

\* Aging moves the priority of a thread and that of its node together; a
\* difference would show as a decrement past zero in 16 bits.
NodePriorities ==
    Alive => \A i \in DOMAIN active_threads_table :
                active_threads_table[i].priority = priority[active_threads_table[i].node]

Pass == first_schedule /\ (TimerInt \/ Schedule)

\* After a scheduling pass no thread sleeps past its wake-up time, and none was
\* woken before it: the loop of select_thread stops at the first tail that is
\* not due, so this rests on the order of the sleeping table.
SleepersWakeOnTime ==
    [][Pass => \A t \in Thread :
                  state[t] = "SLEEPING" =>
                      (state'[t] = "SLEEPING" <=> ~Due(t))]_vars

\* idle gets the processor only when no thread of a better priority is ready.
IdleIsLast ==
    [][active_thread' = idle /\ active_thread # idle =>
          \A t \in Nodes(active_threads_table') : priority'[t] >= Lowest]_vars

\* All the children of a thread that ends are inherited by init.
ChildrenInherited == fault # "null_joining_thread"

\* Aging lets no ready thread starve behind threads of better priority, though
\* these never return.
NoStarvation == \A t \in User : state[t] = "READY" ~> state[t] # "READY"

\* What the programs owe the kernel: each joins its children, and returns.
ProgramsReturn ==
    \A t \in User : SF_vars(ThreadExit(t) \/ \E u \in User : WaitThread(t, u))

\* When the programs return the system ends with init done and idle halted:
\* every sleeper woke, every joiner was released, init drained every thread.
SystemHalts ==
    ProgramsReturn => <>(system_state = "HALTED" /\ pc[idle] = "off")
=============================================================================
