# A verification of the AWK kernel

AWK is a small single-core x86 kernel: threads with a dynamic-priority
scheduler, blocking synchronisation, message passing, a heap, paging, and
drivers. This directory models its concurrent core in TLA+, checks the models
with TLC and proves the central facts with TLAPS. Paths such as `scheduler.c:295`
are relative to the directory of that file under `src/src/`.

## 1. Inventory

| Part | State it keeps | Operations | Interacts with | What makes it correct |
|---|---|---|---|---|
| Kernel lists (`core/kernel_list.c`) | links, priority and `enlisted` flag of nodes; head, tail, size of lists | create/delete node and list, enlist, delist, find, remove | every table and waiting list is one; the scheduler writes node priorities directly | links agree both ways, flag tells the truth, priority order, FIFO among equals |
| Scheduler (`core/scheduler.c`) | thread structures, four tables, active thread, thread count, system state | create, sleep, schedule, wait, exit, lock/unlock, timer pass; idle and init | timer interrupt, interrupt handlers that unlock, heap, lists | each thread in exactly the table of its state, no lost or early join, sleepers wake, nobody starves, the system halts |
| Spinlock (`sync/lock.c`) | none in the single-core build: interrupt nesting | lock, unlock | interrupt dispatcher | critical sections are not interrupted |
| Semaphore (`sync/semaphore.c`) | level, waiting list, `init` | init, pend, try_pend, post, destroy | scheduler (lock/unlock_thread), handlers that post | no lost wake-up, no level taken twice, destruction answers everybody |
| Mutex (`sync/mutex.c`) | state, owner, flags, waiting list | init, pend, try_pend, post, destroy | scheduler | one holder; recursive entry by the owner only |
| Mailbox, queue (`comm/`) | slot or ring buffer, two waiting lists | init, pend, post, destroy, length | scheduler, heap | nothing lost, duplicated or reordered; no side waits for ever |
| Heap (`memory/heap.c`) | chunks in address order, free lists by size | kmalloc, kfree | everybody | allocated chunks disjoint, free neighbours merged, each free chunk in its class |
| Paging (`memory/paging.c`) | page directory and tables, the processor's TLB | mmap, munmap, enable, disable | VESA, LAPIC, ACPI | the TLB says what the tables say |
| Interrupts (`core/interrupts.c`) | handler table, nesting count | register, remove, enable, disable, dispatch | all drivers | a holder of a spinlock is not interrupted; every interrupt is ended, by its own handler |
| PIC, IO-APIC, LAPIC, PIT (`drivers/`) | masks, ticks, frequency, nesting | mask, end of interrupt, enable, disable, handler exchange | interrupts, scheduler | undone disables unmask the line; a tick finds its handler |
| Keyboard (`drivers/keyboard.c`) | one shared buffer, its mode and semaphore | read, getch, interrupt | mutex, semaphore | each reader gets its own line, and gets it |
| Mouse (`drivers/mouse.c`) | packet assembly, event table | register, unregister, interrupt | interrupts | packets stay aligned |
| RTC (`drivers/rtc.c`) | date, event table | register, unregister, interrupt | interrupts | section 7 |
| VESA (`drivers/vesa.c`) | mode, framebuffer, back buffer, copying thread | set mode, double buffering, back to text | paging, heap, scheduler | the copying thread never touches what is unmapped |
| VGA text, consoles (`drivers/vga_text.c`, `graphic.c`) | cursor, end of the last print, line ends | print, keyboard echo, scroll | keyboard handler, every thread | the cursor comes back to the screen; backspace spares the prompt |
| GUI, ATA, serial, ACPI, BIOS calls, processor set-up, boot, panic, C library, tests, data | device or boot-time state | - | - | section 7 |

The hard behaviour is concentrated in one place: there is one processor, and a
thread loses it at any instruction where interrupts are on. Each function turns
them off for part of its work and lets them in between; *enable* is a nesting
count, so giving back the last spinlock turns interrupts on even inside an
interrupt handler (`interrupts.c:226-242`). Every protocol of the kernel
therefore has windows: a thread marked asleep, blocked or joining that still
runs; a thread taken off a waiting list and not unlocked yet; a handler
preempted between its post and its end of interrupt. Nothing is persisted and
there is no network: crashes and lost messages do not arise.

`PROJECT.json` lists the parts, the hazards with the line where each bites, and
for every definition the source lines it stands for.

## 2. Modules

| Module | What it is | Extends or composes |
|---|---|---|
| `ListOps` | what the list functions compute, on sequences of (node, priority) entries, head first | |
| `PriorityLists` | what `kernel_list.h` promises, without links (abstract) | |
| `KernelList` | `kernel_list.c` with `next`, `prev`, `head`, `tail`, `size`, `enlisted` | refines `PriorityLists` |
| `Scheduler` | `scheduler.c` | `ListOps` |
| `Interrupts` | `interrupts.c` and `lock.c`: the nesting count, the flag, handlers on stacks, ends of interrupt | |
| `Pit` | `pit.c` and its line of the handler table | |
| `CountingSemaphore` | what `semaphore.h` promises (abstract) | |
| `Semaphore` | `semaphore.c` | `ListOps`; refines `CountingSemaphore` |
| `Blocking` | what mutex, mailbox and queue share: waiting, waking, the window in between | `ListOps` |
| `Channel` | what mailbox and queue share: the two waiting lists | `Blocking` |
| `Mutex` | `mutex.c` | `Blocking` |
| `Mailbox`, `Queue` | `mailbox.c`, `queue.c` | `Channel`; refine `BoundedFifo` |
| `BoundedFifo` | what `mailbox.h` and `queue.h` promise (abstract) | |
| `LineInput` | what `keyboard.h` promises (abstract) | |
| `Keyboard` | `keyboard.c` with its mutex and its semaphore, and the timer | refines `LineInput` |
| `Allocator` | what `heap.h` promises (abstract) | |
| `Heap` | `heap.c` | refines `Allocator` |
| `Paging` | `paging.c` and the TLB | |
| `Console` | the cursor arithmetic of `vga_text.c` under preemption | |
| `Vesa` | mode changes and double buffering of `vesa.c`, the choice of driver in `graphic.c` | |
| `Mouse` | packet assembly of `mouse.c` with the 8042 | |
| `ListOpsProofs`, `KernelListProofs`, `SchedulerProofs`, `SemaphoreProofs`, `KeyboardProofs` | theorems | the module of that name |
| `SyncProofs` | theorems about mutex, mailbox and queue | `MCSync` |
| `MemoryProofs` | theorems about heap and paging | `Heap`, `Paging` |
| `DriverProofs` | theorems about interrupts, PIT, console, VESA and mouse, and about the eight components side by side | `MCComponents`, `KernelListProofs`, `MemoryProofs` |
| `MCScheduler`, `MCSemaphore`, `MCSync`, `MCKeyboard`, `MCComponents` and `.cfg` | the instances TLC checks | |

`MCSync` holds a mutex, a mailbox and a queue, `MCComponents` eight components
that share nothing in these models: the first state chooses one and the
variables of the others do not change.

In each module the definitions whose comment begins "A slip" are the faults a
careless edit of the code could bring in. No specification uses them; each
property is checked to be violated when one of them takes the place of the
definition that follows it.

### How the models follow the code

*Lists.* One action per function. The functions run to their end with
interrupts off, so they are atomic. A call the code refuses (null pointer,
enlisted node to delete, non-empty list to delete) changes nothing and is no
action. The one obligation the code does not check is the caller's: a node is
enlisted in one list at most (`kernel_list.h:56`); it is a guard of
`KernelList!Enlist`, and `Scheduler!OneHome`, `Semaphore!BlockedIsHeld` and
`MCSync!NobodyIsForgotten` show that the callers meet it. `Age` is the
scheduler's direct decrement of a node's priority (`scheduler.c:612`); after it
a table need not be in order (the comment before `scheduler.c:595` knows), which
is why order is no invariant of the active table and nothing here relies on it.

*Scheduler.* The variables have the names of the fields and globals. An action
is a stretch between two points where interrupts are on; `pc` names these
points. `ScheduleInt` is the whole of `schedule_int` with `select_thread`: the
aging pass, requeueing of the interrupted thread by its state, waking of due
sleepers, dispatching. It runs in `TimerInt` (then `update_tick`) and `Schedule`
(the software interrupt). `IrqUnlock` is an interrupt handler that posts a
semaphore. `EnlistAll` is every loop that empties one list into another. The
children lists keep the order in which `kernel_list` keeps them; the global table
is only asked who is in it, so it is a set. `FREED` stands for a structure given
back to the heap; touching one sets `fault`, as does an empty active table (the
code panics) and the null pointer of section 5. The name, the stack, the
registers and the return value of a thread are left out. `create_thread` on an
exhausted heap undoes its work and changes nothing.

*Interrupts.* The flag belongs to the running code, the count to the kernel, and
each `disable_local_interrupt` or `enable_local_interrupt` is two steps. A stack
is a thread and the handlers on top of it. Both interrupt controllers are
modelled by what an end of interrupt ends: the most urgent line in service, by
IRQ number (PIC) or by class of the vector (LAPIC). What the module shows, that a
stretch under a spinlock is one step, is what all others start from. It assumes
that `schedule()` is called without a spinlock, that one handler only (the
keyboard's) takes spinlocks before its end of interrupt (with a second,
`EndsItsOwn` would fail under the PIC), that there are no spurious interrupts and
that a machine has both APICs or neither. (`set_IRQ_EOI` asks `lapic_capable` and
`set_IRQ_mask` asks `io_apic_capable`.)

*PIT.* `enable_pit`, `disable_pit`, `set_pit_freq` and the exchange of the handler
step by step. A tick the controller has accepted is delivered even if the line
was masked since. The module is about machines scheduled by the LAPIC timer, the
only ones where the PIT may be stopped at all.

*Semaphore, mutex, mailbox, queue.* One object, any number of threads; the
semaphore has posting handlers too. An action is a stretch under the spinlock. A
post that finds a waiter is two: it gives the spinlock back (`semaphore.c:240`,
`mutex.c:252`, `mailbox.c:133`) before it calls `unlock_thread`, and between the
two any other actor may act. Whether a blocked thread has already got to its
`schedule()` is the scheduler's matter and checked there (`LockThread`,
`IrqUnlock`). The `init` functions clear the structure; as their callers do, the
models call them when nobody is inside a call. A program posts a mutex it holds,
once, however often it pended it (nothing documents more). The queue's ring has
one cell more than the code allocates, to see who writes there.

*Keyboard.* Readers take the driver's mutex, make the semaphore, arm the buffer and
wait; the handler runs on the stack of whoever has the processor, its host, and
is preempted with it between the post and the end of interrupt. Mouse bytes that
the mask of `keyboard.c:371` lets through are left out: with them every reader
simply gets what the mouse sends.

*Heap.* Addresses in bytes; sizes wrap at `UintRange`, which is 2^32 in the code.
Split, coalescing with both neighbours, size classes and their stacks follow the
code; each call is one step because it holds the spinlock throughout. `memory_chunk_slot`
halves as the code does; that every chunk has a class (`memory_chunk_slot[HeapEnd] <
NUM_SIZES`) is what the 32 classes give for a heap below 2^32. *Paging.*
The loops of `kernel_mmap` and `kernel_munmap` page by page, memory accesses
and interrupts in between; one call at a time, as start-up, mode changes and panic
make them. *Console.* A printable character is three stretches; a control
character is taken in one, and '\f' leaves the cursor where it was, as the code
does. *VESA.* One caller, the copying thread beside it, every allocation and BIOS
call may fail. *Mouse.* The bytes on the wire, the one in the 8042 and the
driver's cycle.

## 3. Runs

| Run | Instance | Question |
|---|---|---|
| `sched` | programs a (priority 1) and b (2), init (0), idle (3); every call, uptime to 6 ms in ticks of 2, sleeps of 1 and 3 ms, boost at every pass, LAPIC (1.1 million states) | do thread states, tables, joins and parentage stay consistent in every interleaving? |
| `sched_live` | the same threads; sleeps of 1 ms, boost every second pass, no blocking, programs join what they create | does everything that must happen happen? |
| `sem` | 4 threads, 2 handlers, initial levels -1, 0, 1, level at most 2 | is a wake-up lost, is a level taken twice, is anybody left behind? |
| `sync` | 3 threads and one mutex (plain, recursive), mailbox or queue (depth 0, 2), 2 elements, destruction and new `init` | one holder? lost wake-ups? a FIFO? |
| `keyboard` | 3 readers, buffers of 1 and 2 characters, letter, return, backspace, shift | does each reader get its own line, and go on? |
| `components` | one of eight at a time: lists (4 nodes, 2 lists, symmetric), heap (160 bytes, requests of 1, 13, 20, integers modulo 256), paging (4 pages in tables of 2), PIT (2 threads, nesting to 4), interrupts (2 threads, keyboard, RTC and mouse, 2 spinlocks, 3 nested handlers, LAPIC and PIC), console (3 by 3, tabs of 2, a printing thread and the echo), VESA (2 modes), mouse | the properties of each |
| `v_orphan`, `v_oversleep`, `v_keyboard`, `v_mutex`, `v_ring`, `v_mouse` | the smallest instance that shows it | section 5 |

Deadlock is checked in `sched`, `sched_live`, `sem` and `keyboard`. In the scheduler the
halted machine and a panic stutter explicitly (`Stopped`); the busy loop of
`init_func` with interrupts off (`pc = "spin"`) does not, so it would be reported. It
is not checked in `sync`, where all threads may wait in a pend that nobody is
obliged to answer, in `components`, where heap, console and video may come to the
end of their requests, nor in the violation runs of the same modules.

*Why the bounds are enough.* The list functions look at one neighbour on either
side of a cursor: four nodes give each of head, middle and tail insertion and
removal with neighbours on both sides, and a second list for nodes to move to.
Only the order of priorities matters, equal or different: two values. The
scheduler's tables hold two program threads next to idle and init, so a table
has up to four entries; with sleepers in every order (earlier, equal, later) and
one tick that makes one of them due, the loop of `select_thread` stops after none,
one or all of them. Boosting at every pass (`AgingTicks = 1`, the code has 25)
makes the aged and the unaged thread meet in few steps; the count itself runs in
`sched_live`. Times end at `MaxTime`: the uptime stops there and a program sleeps
only if the sleep ends before. No program runs before the first tick, so sleeps
start at 2 ms and 6 ms is the first bound at which a longer sleep begins before a
shorter one that ends earlier. In `sem` and `sync` two calls are in their window
while another thread waits and others come; a further thread adds no new pair.
Depth 2 lets the indices of the ring pass its end with elements inside, depth 0
makes every post wait. The heap has room for several chunks with all three
classes, so splits, refusals of a split, and coalescing on either side and on both
happen, and 256 is close enough for sums to wrap. The page requests overlap, end
inside a page, cross a table and reach the end of the address space. Three nested
handlers are all devices at once; the console's 3 lines let the prompt scroll
while a wrapped line is typed.

### What the properties say

- `WellLinked`: the two directions of the links, the flag that decides whether a
  node may be freed, the size counter that `kernel_list_remove_node_from` forgets.
  `ImplementsPriorityLists`: refinement; the mapping reads the chain of links as a
  sequence.
- `OneHome`: each thread is in exactly the table of its state, once, at every
  point of every call. `FamilyTree`: every thread has one living parent that can
  join it. `JoinHandshake`: a joiner's wake-up is neither lost nor early.
  `NothingElseFails`: there is always a thread to run and no freed structure is
  used. `NodePriorities`: aging keeps thread and node priorities equal.
  `SleepersWakeOnTime`, `IdleIsLast`: what one pass may never do. `NoStarvation`,
  `SystemHalts`: liveness.
- `InterruptsSound`: a holder of a spinlock is the running code, no interrupt is
  sent back unended and the scheduler does not panic over the count, and an end of
  interrupt ends that of its sender. `PitSound`: with every disable undone the line
  is unmasked, and no tick finds the table empty.
- `BlockedIsHeld`, `NoLostWakeup`, `DestroyedIsEmpty`, `ImplementsCountingSemaphore`
  (with the liveness of the abstract semaphore).
- `OneHolder`; `NobodyIsForgotten` (mutex, mailbox, queue); `MailboxIsFifo`,
  `QueueIsFifo` (with liveness).
- `NoDriverFailure`: no call of the keyboard driver on its mutex or semaphore can
  fail. `KeyboardIsLineInput`: what is typed goes, edited and whole, to the one
  reader that is served. `ReadsGoOn`: liveness.
- `HeapWellFormed`, `HeapIsAllocator`; `TlbIsFresh`; `VideoSound`;
  `EchoKeepsThePrompt`. The console part of `ComponentsTypeOK` says that the cursor is
  on the screen once all writers are done.

## 4. Fairness

*Scheduler.* Weak fairness of `TimerInt`: the hardware timer is periodic and is on
whenever interrupts are. Strong fairness of `Kernel`, the steps of kernel code
that has been started: the processor executes the active thread between two
ticks, but each such step is enabled only while its thread is active, hence
strong. `MainReturns` is strongly fair because the run is about a `main()` that
returns. Calls of programs are not fair; only `SystemHalts` assumes, as the
premise `ProgramsReturn`, that each program thread joins its children and ends.
`NoStarvation` needs no such premise: the programs may run for ever.

*Semaphore, mailbox, queue.* A thread that has been woken tests the object again in
the end, and a post that is in its window ends: both are running kernel code, and
the scheduler starves nobody (weak fairness per thread). Nobody is obliged to
call anything. The weak fairness of the abstract semaphore and channel ("what is
there while somebody waits is not there for ever") follows from it, and the runs
check that it does. For a posting handler this is an assumption about its host: a
handler goes on only if the thread it interrupted gets the processor again,
and `v_keyboard` shows the one way in which it may not.

*Keyboard.* Weak fairness of the readers' steps and of the handler's, as above, and
strong fairness of a key press of return: a user who wants the line to end presses
it again. Weak would not do, because the keyboard is silent while its handler runs.

## 5. What the runs found

1. `scheduler.c:295` reads `thread->joining_thread->data` for every child of an ending
   thread. Nobody waits for most children, so the pointer is null, and page 0 is
   unmapped. Run `v_orphan`: init joins a, a creates b, a ends. `NothingElseFails` sets
   this fault aside so that the other behaviour is still checked behind it.
2. `scheduler.c:488` and `532` pass the 32-bit `wakeup_time` as the 16-bit priority of
   `kernel_list_enlist_data`. Once the uptime passes 2^16 ms the sleeping table is
   in the wrong order. Run `v_oversleep`. `SleepersWakeOnTime` is proved for
   times that fit.
3. `keyboard.c:281`: the handler's `sem_post` turns interrupts on before the wake-up
   and before the end of interrupt. If it runs on the stack of the very reader that
   has blocked but not yet called `schedule()`, a tick of the PIT takes the processor
   away for good. Run `v_keyboard`; run `keyboard` excludes that one host (`Exposed`).
4. `mutex.c:324`: `mutex_try_pend` leaves `locker_pid` as it was; on a recursive mutex the
   thread named there enters beside the holder. Run `v_mutex`; in run `sync` recursive
   mutexes are not taken with `mutex_try_pend`.
5. `queue.c:265`: the ring of `length` cells is used with `length + 1` (and `161`). Run
   `v_ring`. Order and contents are right in spite of it (`QueueIsFifo`, which gives
   the ring that cell).
6. `mouse.c:149`: a packet with an overflow bit leaves the cycle at its last value; the
   state never changes again. Run `v_mouse`.

Met while modelling, without a run of their own:

- On machines scheduled by the PIT (`Lapic = FALSE`) `NodePriorities` fails: a thread that a
  handler unlocks between `lock_thread` and `schedule()` is listed while it runs,
  line 584 resets its priority and not its node's, and the node can be decremented
  past 0 to 65535.
- A program created with idle's own priority, which `create_thread` (923) allows, can
  age in front of idle's node; idle then runs for one tick although better
  threads are ready. The theorem about `IdleIsLast` has the hypothesis that rules it out.
- A pass that interrupts init or idle ages nobody (582); `get_threads_info` reads the
  data of a node past the last (1267); `sem_try_pend` reports a level through an
  `int8_t` (300); a recursive mutex is released by its first post (158); a
  second joiner overwrites the first (1115). They are in the list of hazards.
- `kfree(NULL)` is documented as harmless (`heap.h:70`) and not tested for (`heap.c:353`).
- RTC: an event of period 0 divides by zero (`rtc.c:159`), `get_current_date` copies the
  date with interrupts on and may mix two of them, the test of the 12-hour bit (115)
  compares it with 1 and is never true, and `unregister_rtc_event` accepts the number -1
  that a refused registration hands out (`test_rtc.c:50` relies on its refusal). An
  event that takes a spinlock would open the rest of the handler's loop to an
  `unregister_rtc_event` between the test of `enabled` and the division; none does.
- VESA frees its back buffer before it joins the copying thread (1119): one copy may
  read freed memory. `VideoSound` is about where it writes.

## 6. Proofs

Every theorem holds for all values of the constants that satisfy the named
assumption of its module (`SchedulerAssumption` and so on), which TLC evaluates in
a passing run. Temporal theorems all have the same form: an inductive
invariant, one lemma per action, and a last step by PTL.

*Lists* (`ListOpsProofs`). For every list, node and priority: where the walk of an
insertion stops (from the well-foundedness of the naturals); an insertion adds
exactly the node, keeps nodes distinct and keeps order; a new node leaves behind
the nodes of its priority; a delisting removes exactly the tail, which in a list
in order has the least number.

*Scheduler* (`SchedulerProofs`). The invariant `SchedInv` is the conjunction of `Types`,
`Homes` (the table of each state, with the place of a thread that runs while it is
marked asleep, blocked or joining), `Places` (which `pc` goes with which state),
`Family` (children lists against existence, zombies and the count) and `Joins`
(a joining thread, its target and the pointer between them). None is inductive
without the others: that a timer may requeue by state depends on where the
interrupted thread is in its call, and that a joiner may free its target depends on
who else could reach it. From it follow `TypesHold`, `EachHasOneHome`, `FamilyHolds`,
`JoinersWake` and `NothingFails`, for every set of programs, under `ChildrenOnly`
(threads join their own children; a second joiner is the hazard at 1115).
`SleepersWake` adds the invariant that the sleeping table is in order, which needs
`MaxTime <= Word16`; without it finding 2 is the counterexample. `NodesAge` adds
`NodesAgree` (every entry carries its thread's priority) and needs `Lapic`;
`IdleIsTheLast` adds that idle is at the head of the table whenever it is in it.
`EnlistAll` is a recursive function; that it exists and keeps what each insertion
keeps is shown by an argument on the least index where it would not.

*Kernel lists* (`KernelListProofs`). The invariant `ListsInv` says that *there is* a
sequence of nodes for each list, its chain, which `head`, `tail`, `next` and `prev`
spell out, that no node is in two chains or twice in one, that a node's flag is set
exactly when it is in one, and that `size` is at least the length. `WellLinked`
alone is not inductive: it does not say that following `next` from a head gets
anywhere. One lemma per function exhibits the new chain (a node put in at the
cursor, the last cut off, one taken out). The walk and the refinement mapping are
computed by recursive functions of the links; `KernelListProofs` shows that on a
list with a chain they give the chain, by the least index where they would differ.
From this follow `ListsAreWellLinked` and, function by function, `ListsAreAsPromised`:
`kernel_list.c` implements `PriorityLists`, for any finite set of nodes, any lists and
priorities.

*Semaphore* (`SemaphoreProofs`). `TypeOK`, `BlockedIsHeld`, `NoLostWakeup` and
`DestroyedIsEmpty` together are inductive. `NoLostWakeup` is not alone: it compares
the level with the number of threads in flight, those a post holds in its window
and those that are unlocked and about to test the level. A post that finds a
waiter adds one to both sides, but only if that waiter was not in flight already,
and that is `BlockedIsHeld`. A pend that fails after a destruction is harmless
because nobody is listed then. `CallersSeeLevels` is the safety part of the refinement.

*Mutex, mailbox, queue* (`SyncProofs`). `SyncInv` is the same argument for two lists:
whoever is blocked at a point is on the list of that point or in the hands of one
call, and each element and each free cell is matched by a thread in flight while
anybody waits for it (`WakeupsAreKept`). For the channels the ring is read as a
sequence from `tail` on (`RingOK` keeps indices and length consistent), which gives
`MailboxIsChannel` and `QueueIsChannel`, the safety parts of the refinements.
`MutexExcludes` needs that no recursive mutex is taken with `mutex_try_pend` (finding 4).
`SyncTypes` carries the types of all fields (`FieldTypes`, with `RingOK`: an index of
the ring may stand on the cell behind the container, finding 5, and not beyond).

*Keyboard* (`KeyboardProofs`). `KeyboardInv` says who may be where: one reader is past
the mutex (`OneReader`), the threads on the mutex's list are blocked there, the
buffer is armed only for that reader and with room for a character
(`ArmedForOwner`), the semaphore is empty until the line is complete and its waiter
is that reader (`SemaphoreReady`), and between its post and its end the handler
holds a reader whose buffer is disarmed already (`HandlerPlaced`). `DriverDoesNotFail`
is not inductive without any of them. `DriverIsLineInput` is the refinement of
`LineInput`, by one lemma for each step of a reader or of the handler: a key maps to
the edit of the line, completion to the hand-over, everything else to a stutter.
None of this assumes anything about who hosts the handler: the safety of the
driver does not depend on finding 3, only `ReadsGoOn` does.

*Heap* (`MemoryProofs`). `HeapInv`: the list of chunks is in address order from the first
sentinel to the last, addresses are aligned, a chunk and the one that follows it
are apart by the size of a chunk at least and not both free, and each free chunk
is exactly once in the stack of its class (`Arranged`); who has been given a chunk
has a request on record (`Owned`). The proof goes through neighbours in the set of
addresses (`Follows`) instead of places in the list: taking a chunk in or out
changes the neighbours, hence the size and the class, of the chunks beside it and
of no other. kfree has four cases, as in the code: the neighbour below merged or
not, the one above merged or not. `HeapStaysWellFormed` holds for every size of the
heap and for all requests, also those whose rounding passes 2^32 and wraps.
`HeapAllocates`, the refinement of `Allocator`, has the hypothesis `RequestsFit`: no
request is above 2^32 - 4, for which `kmalloc` computes `(size + ALIGN - 1) & ~(ALIGN - 1)`
modulo 2^32 and would hand out 8 bytes. What a class promises (that any chunk in the
class of `FirstClass` is large enough) is a lemma on `memory_chunk_slot`.

*Interrupts and PIT* (`DriverProofs`). All frames but the running one wait with no
spinlock and with the flag set; the count is the number of spinlocks of the
running frame; the flag is off whenever the count is above zero; each line has
one handler that has not ended it; in service are at most the running handler's
line and those of preempted posting handlers. For the PIT: the handler's slot is
empty only while the lock is held, so with interrupts off.

*Paging*: what the TLB has was read through tables that are present, and no page that
is mapped changes under it except in the excused cases. *VESA*: the copying thread lives
only while the buffer fits the mode and the framebuffer of that mode is mapped.
*Mouse*: what is on the wire, in the 8042 and in the driver are whole packets
(`WholePackets`); so without an overflow no byte is taken for one of another packet
(`MouseFollowsTheHand`; with one, finding 6). *Console*: the cursor leaves the screen by at most one column or line per writer
that is about to wrap or scroll (`CursorComesBack`); an echo from a state where the
prompt is behind the cursor keeps it there (`TypingSparesPrompt`).

*Side by side* (`DriverProofs`). A behaviour of `MCComponents` is one of each component, so
what is proved of each holds there; `ComponentsKeepTypes` says it of the types.

Every invariant that a passing run checks is a theorem now. Only model-checked: all
liveness (`NoStarvation`, `SystemHalts`, `ReadsGoOn`) and the liveness parts of the
refinements (`ImplementsCountingSemaphore`, `MailboxIsFifo`, `QueueIsFifo`), because
fairness and ENABLED are beyond the prover; their safety parts are proved. The
hypotheses of theorems, besides the assumptions of the modules, are those named
above: `ChildrenOnly`, `MaxTime <= Word16`, `Lapic`, idle's priority, no `mutex_try_pend`
on a recursive mutex, `RequestsFit`, no overflow of the mouse. Each excludes a
case in which the code does something else, and sections 5 and 6 say which.

## 7. Not modelled

Not at all: ATA and serial (polled port I/O whose state is the device's), ACPI (parses
firmware tables at boot), BIOS calls and processor set-up (straight-line assembly
and tables), boot (a fixed sequence that ends where `Scheduler!Init` begins), panic
(terminal), text formatting and memory copies, the GUI demonstrations, tests. Fonts
and the background picture (`fonts/uni_vga.c`, `gui/bg.h`) are data; they are three
quarters of the lines under `src/`, so the map, which covers most of the kernel's
control, is a small share of all lines. RTC: reading the clock chip is I/O, and its
event table is used by demonstrations and tests only; what was noticed is in section 5.

Left out of the modelled parts: `get_threads_info`, `queue_length`, `mailbox_isempty` (read
only); joins by a thread other than the parent; spurious interrupts and the
registration of handlers other than the PIT's (once, at boot); the terminator of
`secure_read_keyboard` and the display switches of the keyboard driver; the mouse's
event table; the drawing functions; the console inside `vesa.c`, a second copy of
the logic of `vga_text.c`; saving and restoring the cursor, colours; the statistics of
the heap; the variant of the spinlock for several cores, which `lock.h` does not build.

## 8. Plan

Done in this order: lists, scheduler, semaphore; mutex, mailbox, queue; keyboard;
interrupts and PIT; heap and paging; VESA, console, mouse; the proofs of section 6.

What is left, by what it would add:

1. The event tables of RTC and mouse, with events that unregister themselves while
   the handler walks the table.
2. The scheduler with the PIT line, and what of `NodePriorities` holds there.
3. More action properties proved: that a thread is taken off a waiting list in the
   order it came (mutex, semaphore), from `EnlistedBehindEquals`.
4. That what `Semaphore` and `Blocking` take from `ListOps` is what `KernelList` does: the
   composition of `ListsAreAsPromised` with their proofs.
