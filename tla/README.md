# A TLA+ model of the ZeOS kernel

ZeOS is a small single-processor kernel for 32 bit x86: processes and threads
with a round robin scheduler, a keyboard with blocking reads and timeouts,
counting semaphores, paging with `fork`, and dynamic memory regions. This
directory holds TLA+ modules for those parts, the TLC configurations that check
them, and proofs for TLAPS.

## Inventory of the system

| Part | State | Operations | What makes it correct | Module |
|---|---|---|---|---|
| Scheduler (`sched.c`, `kernel-utils.ss`) | `task[]`, `readyqueue`, `freequeue`, `blocked`, `getKey_blocked`, `remaining_quantum`, CR3 | `schedule`, `sched_next_rr`, `update_process_state_rr`, `task_switch`, `sys_yield`, `sys_block` | a `task_struct` is on at most one list; its state agrees with the list; ready tasks run in order and do not starve | `Sched` |
| Processes and threads (`sys.c`) | `global_PID`, `master_thread`, `has_threads` | `sys_fork`, `sys_threadCreateWithStack`, `sys_exit`, `terminate_thread` | no slot leaks on any path; a task runs in its own address space; the master outlives its threads | `Process` |
| Keyboard (`interrupt.c`, `sys.c`) | `keyboard_buffer`, `pending_to_service`, `make_flag`, `key_timeout` | `keyboard_routine`, `key_timout_system`, `sys_getKey` | a woken reader finds its character; a timed wait ends | `KeyInput`, `Readers` |
| Circular buffer (`circular_buffer.c`) | `head`, `tail`, `num_elem`, `buffer` | push, pop, full, empty | a bounded FIFO | `CircularBuffer`, `CircularBufferSpec`, `BoundedFifo` |
| Semaphores (`sched.c`) | `sems_free`, `freesem` | `sys_sem_create`, `sys_semWait`, `sys_semSignal` | a counting semaphore whose waiters are served in line | `Semaphore`, `CountingSemaphore` |
| Frames and page tables (`mm.c`, `sys.c`) | `phys_mem`, `pagusr_table`, regions and the lists of them, thread stacks, the TLB | `alloc_frame`, `free_frame`, and `fork`, `exit`, thread creation, `memRegGet`, `memRegDel` on them | a private page has a frame of its own; nothing is lost or unmapped early; kernel and code stay mapped; no old translation leads to another process; a task finds its own regions | `Memory` |
| Search for free pages (`sys.c`, three copies) | `next_start_pos`, `pag`, `temp_pag` | the nested loops | terminates with the first fit | `GapSearch` |
| Lists (`list.c`, `list.h`) | `next`, `prev` | `list_add`, `list_add_tail`, `list_del`, `list_for_each_safe`, and creation and exit on the lists of threads | `next` and `prev` agree; as the sequences they stand for; a sweep that moves entries visits all | `List`, `TaskLists` |
| User memory checks (`utils.c`) | - | `access_ok`, `copy_from_user`, `copy_to_user` | a call never reads or writes the kernel's memory for a user | `UserAccess` |
| `sys_write` and the screen (`sys.c`, `io.c`, `devices.c`) | video memory, cursor | `sys_write`, `sys_clrscr`, `sys_gotoXY`, `sys_changeColor`, `printk`, the clock | the caller's bytes once and in order, in the cells before the cursor; the cursor stays on the screen | `Console` |
| Statistics (`p_stats.c`, `sys.c`, `entry.ss`) | `p_stats` of each task, the cycle counter | `update_stats` in every handler that charges time, `init_stats`, `sys_get_stats` | the counters add up to the age of the task; ready time is ready time | `Stats` |
| User library (`libc.c`, `user-utils.ss`) | `errno` | `itoa`, `strlen`, the sysenter wrappers | - | not modelled |
| Boot, GDT/IDT/TSS, image builder | - | - | - | only the state `main` leaves behind |

The parts interact through the task table and its queues: the keyboard and
clock interrupts move tasks from `getKey_blocked` to `readyqueue`, semaphores
move them between their own list and `readyqueue`, creation and exit take them
from and to `freequeue`, and all of them end in `sched_next_rr`. Module `Kernel`
composes `Sched`, `Process`, `KeyInput` (which extends `CircularBuffer`) and
`Semaphore` on that shared state. `Readers` and `Stats` extend `Kernel`: they take
its actions as they are and add to each what it does to the characters that are
owed to readers, and to the counters of the tasks. `Memory` and `GapSearch` stand beside it:
`Process` only needs to know whether an allocation succeeded. `List` justifies the
sequences that `Sched` uses for queues, and follows the lists of threads, which are no
such sequences. `Console` shares no state with the rest.

What is hard here is order. A single anchor in `task_struct` serves all queues,
and `update_process_state_rr` decides by the state field whether to unlink it
first. `sys_getKey` reads `key_timeout` and `pending_to_service` again after
being switched out, when keys, timeouts and other readers have changed them.
`inner_task_switch` skips the CR3 write when two tasks have equal
`master_thread`. The error paths of `fork` undo several steps. `PROJECT.json`
lists these hazards line by line.

## How the model corresponds to the code

**Steps.** Interrupt gates disable interrupts and `sysenter` does too, so a
handler runs without interruption: each system call and each interrupt is one
action. The exception is a handler that switches tasks and has code left when it
is switched back to. Only `sys_getKey` does, so it is two actions:
`GetKeyWaits` up to the switch and `GetKeyResumes` after it, with `resume` saying
that the running task is in between. Interrupts (`ClockTick`, `KeyPress`,
`KeyRelease`) are taken in user mode and in `cpu_idle`; system calls from user
mode only, by any task but idle, in any order. What user programs compute is
not modelled.

**Data.** A `task_struct` pointer is an index of `task[]`; a queue is a sequence
of them. The list heads are numbered: -1 ready, -2 free, -3 blocked, -4 waiting
for a key, and a semaphore's list by its own index. `register_esp` becomes the
name of the call whose frame it points to; that is enough to say where a task
continues and whether a task switched to itself finds a valid frame. `cr3` is the
slot whose page directory is loaded. The contents of user memory
are left out; `pending_unblocks` is 0 in every reachable state because nothing
increments it. `total_quantum` is `DEFAULT_QUANTUM` for every task.

**Stopping.** Three things end a run of the model: `halted = "hung"` when a master
with threads exits (below), `"crashed"` when a task is switched to itself on a
frame that another call left, `"corrupt"` when `sys_semSignal` unlinks the head
of an empty list. What such a kernel does afterwards is not followed, so the
properties are about kernels that have not stopped, or about the step in which
one stops (`OnlyLoneYieldCrashes`, `FailedForkKeepsData`). `Memory` stops likewise with
`"fault"`, `"overrun"`, `"astray"` (a store through an old translation) and
`"overwritten"` (a store to kernel or code pages). A page fault of a user program
(interrupt.c:124) stops the real kernel as well and is in no module: user programs are
assumed to stay in their pages, which matters for `ReadyRuns` and `TimedWaitEnds`.

**key_timout_system.** The loop over `getKey_blocked` is modelled by its result:
the positions that expire (`Expired`), the ones that stay (`Staying`), and the
order-preserving enumerations of both (`InOrder` has exactly one element for a
set). `Staying` keeps a task in state `ST_RUN` because the code skips `list_del`
for it; that this never happens is part of `OneList`.

**Readers.** `ret` is what the last call on the buffer returned, so that the
buffer can be compared with a FIFO. `skew` and `robbed` are history: the reads that
were served at once less the waiters that a key woke without time to be served, and
whether a reader has lost the character that woke it. They influence no step. `robbed`
is never cleared, so `CharForReader` is about the time up to the first robbery.

**Stats.** `now` is the exact number of ticks and `get_ticks` what is left of it in
32 bits (`TickWord`). `update_stats` reads the counter each time it is called, and time
may pass between any two calls (`Later`). A yield reads it when it links its task to
`readyqueue` (sched.c:125), when it charges the task that leaves (149) and when it
charges the one that comes (150). The clock and keyboard handlers read it on entry, in
`user_to_system`, then for each task they wake, and when they switch or return. The time
that a call takes before its first reading passes before its step (`Elapse`). The two readings of `init_stats` (sched.c:49, 51) are one: the second
goes to `remaining_ticks`, which no property is about. `birth` and `waited` are history: `waited` counts from the charge with which a task is
woken or leaves the CPU to the one with which it comes back. Each action is one of
`Kernel` together with the calls of `update_stats` it makes, in their order.

**Memory.** `pagusr_table` is one array over all slots because one error path of
`fork` runs past the end of a table. An entry keeps the frame or `NotPresent`. Of the
access bits `sealed` keeps whether an entry is as boot protected it: kernel pages without
the user bit, code pages without `rw`. `GuardPages` are the two pages around the task array
that boot makes absent; `get_frame` does not look at the present bit, so a fork finds their
frame.
`n` calls of `alloc_frame` are one choice of the `n` lowest free frames at steps
of `FRAME_STEP`; the loops around `set_ss_pag` and `del_ss_pag` are one update.
The gap search is represented by its specification, the first fit that `GapSearch` establishes for
the loops. The regions of an exited process leave `memoria` but stay mapped, as in
the code.

A region's list node lies in its first page, so a pointer to it is a page number
that means something else, or nothing, in another page table. `memoria` is the set
of regions with the fields of their nodes, `head` the `prev` field of the list head
in each `task_struct` (its `next` field is never read). `memRegDel` is only called with
pointers that `memRegGet` has returned and whose node is still there: sys.c:593-598 takes
any pointer and checks nothing, and what it does with other memory is not followed. A store through a pointer
to an unmapped page is a page fault, and that handler never returns: `"fault"`. `fork`
copies the parent's head, so a child's first `memRegGet` follows a pointer of its
parent. `trusted` is history: the tasks whose heads were initialised and whose
lists nobody else writes to. It begins as the first process; `still_trusted` adds a thread
it creates unless a node left behind leads to the head of the thread's slot, and takes all
tasks of the process out when that node is one of another process; an end takes the task
out, and `memRegGet(INT_MAX)`, which writes its node over another, again all tasks of the
process.

`stale` holds the translations that the TLB may still have for pages that are no
longer mapped in the current table: those of a thread's stack, because
`terminate_thread` does not reload CR3. A reload empties it. When such a page
is mapped again, a store there may go to the old frame: `"astray"`. `fork` is exposed to
it too: it maps the child's frames into pages of the parent and copies through them
(sys.c:157-158) before it loads CR3 (162), and if an ended thread had its stack there, the copy
may go to the old frame, which may be anybody's by now. Therefore a kernel in which a
store went astray is followed no further.

A fork whose copy window meets mapped pages (`fork_clobbers`) unmaps them and returns
as usual. The kernel goes on, and so does the model: the areas of that process are in
`clobbered`, the frames in `lost`, and none of its tasks is `trusted` any longer.
`sys_threadCreateWithStack` stores `ext` and `parameter` at the end of the new stack
(sys.c:321-322) without asking where that is. It accepts any `N` that is not too large
(sys.c:227). With one that is not positive there is no stack and the stores go below the
pages found free, or wrap around and go beyond the table; `pushed` says whether they fault, go astray, or
fall on kernel or code pages (`"overwritten"`). These stores are in `Memory` only:
`UserAccess` has the copies that follow an `access_ok`.

**Lists.** `List` has the two fields of every `struct list_head` and the two cursors
of `list_for_each_safe`. It has two kinds of list. On the lists of tasks the guards of
`AddTail` and `Del` say that a task is added when it is on none and deleted when it is on
one. `list.c` does not check that; `OneListAlways` proves it of all the kernel's uses
(for a semaphore created with a negative value, of a kernel that is not `"corrupt"`). A turn of
the loop in `key_timout_system` is an action, and no other action comes between two turns
because interrupts are off. Whether a waiter's timeout has ended is left open, so the body
keeps or moves any of them.

The lists of threads have no guard. `thread_child_list` of a master and
`thread_child_anchor` of its threads are in the `task_struct`. `terminate_thread` does not
unlink the anchor; `copy_data` of the next creation in that slot copies the creator's
anchor and list head over it, whether the creation succeeds or not; and `list_add`
(sys.c:327) adds the anchor while the old list still leads to it. Which free slot a
creation takes is left open (it is the first of `freequeue`). A process that has threads
cannot exit (`exit_hangs`). A list is `broken` once its head was overwritten, once an
anchor on it was, or once an addition to a broken list wrote to it. `owner`,
`broken`, `seen` and `due` are history: they do not influence a step.

**Console.** A byte of memory is named by its address, so that what is on the screen
tells where it came from; `Newlines` are the addresses that hold `'\n'`. Addresses wrap
around at `ADDRESSES`. Bytes of the kernel's messages and of the clock have no user
address and are `Text` and `Digit`. `zeos_show_clock` is in the binary `libzeos.a`; it
stores the time into five words of row 0, and the model's `ClockCells` stand for
them. A screen word is a record of its bit fields; the shifts and
masks are modelled by what they do to these fields. A call that is rejected changes
nothing and is no step. The matrix that `sys_clrscr` paints is one that
`screen_matrix_format` made with one choice of colours.

**Bounds.** `MaxPID` (creations), `MaxPending` (keys typed while
`pending_to_service` is large), `MaxCount` (signals), `MaxCalls` (calls that change
the screen), `MaxRegions` (regions at a time), `LastTick` (ticks) and `Budget` (in `MCList`: how often a
slot is overwritten, and how many tasks are on lists, together) are guards that only make the
state space finite. `NR_TASKS`, `BUFFER_SIZE`, `DEFAULT_QUANTUM`, `NUM_SEM` and the
page counts are parameters of the source.

## Runs

| Run | Instance | Shows |
|---|---|---|
| `gap` | every page table of 10 entries, every size -1..9, searched from page 3 | first fit; termination |
| `kernel` | 2 user tasks, everything enabled, quantum 2 | no task is linked twice; state fits queue; no overtaking in the ready queue |
| `tasks` | 3 user tasks, 3 creations, threads, failed creations, a semaphore created with -1 or 1 | no slot lost; address space, masters, waiters; no two live tasks with one PID; the semaphores implement `CountingSemaphore`, with two waiters and a task that signals; what crashes |
| `keys` | 3 user tasks that fork and read keys with timeouts 0 and 1, 2 slots, 2 characters | what the pending count counts; who may find no character; FIFO order of characters; no task linked twice |
| `live` | 2 user tasks, timeouts -1 and 2 | every ready task runs; timed waits end |
| `stats` | 2 user tasks, everything enabled, quantum 1, a counter that wraps at any reading | counters add up to the age; ready time exact |
| `memory` | 2 processes or a process with a thread, 9 pages, one of them a guard page, 6 user frames, 2 regions of a page, a size that wraps, stacks of -1 and 2 pages | frames exclusive, none lost; areas kept; kernel and code mapped, and how protected; TLB; region lists; a failed fork |
| `list` | 2 heads and 3 tasks, 4 slots with threads, 4 overwritten slots and listed tasks together | links agree; implements `TaskLists`; the sweep visits all and ends |
| `console` | 2 rows of 2 cells, one of them the clock's, 16 pages of 4 bytes, chunks of 3, 2 calls that print or paint and any number of other calls and clock interrupts | bytes once and in order; no kernel byte shown or stored to; cursor on the screen |
| `exit_hangs`, `pending_drift`, `fork_window` | as the passing runs | disagreements with comments, below |

The sizes are chosen so that every limit is met: the free list empties and
refills, slots are reused, the buffer is empty, full and wrapped, several
timeouts end in one tick, a quantum ends with and without a ready task, the idle
task is preempted, frames run out in the middle of an allocation. Two user tasks
are enough for a pair to interleave; the narrower runs have three so that a queue
can hold an order, and a third reader can take what is owed to another. `kernel`'s
single buffer slot makes every second key meet a full buffer. `tasks` has a quantum of one tick: every tick may preempt.

In `keys` one of the two characters is NUL, so the buffer's content is told apart
and a NUL is read as well. `getKey` treats every timeout that is not positive alike,
so 0 stands for -1 too. In `stats` one tick passes, at any point of any sequence of
calls and interrupts and between any two readings within one of them, and the counter
wraps with it. One is enough: the charges are
differences and add up, so a tick is attributed in the same way whatever ticks went
before it. A word of two values is the smallest that tells a tick counted once from
one lost or counted twice.

In `console` a write of 7 bytes takes three chunks, fills the screen of four cells and
wraps around its bottom; the pointers include NULL, the last byte of the kernel, code,
data, a block that ends behind the data, and one that wraps around the address space.

In `memory`, `FRAME_STEP` is 1 and not 2. A page table can only fill up before the
frames do if fewer frames than pages are skipped; in the source that takes a
fragmented table (every gap shorter than `NUM_PAG_DATA` = 20 pages, reachable with
regions spaced 19 pages apart), which is too large to enumerate. With a step of 1 a
table of nine pages meets the same branch, `fork_no_gap`. Nine pages also leave room for
a thread's stack to end inside the later window of a fork, for a window that meets a
region and for one that ends beyond the table. A stack of -1 pages ends at page
`p - 2`, which is a data or a code page. `fork_window` has the step
of the source.

In `list` a slot can be used, freed and used twice again, which breaks a list of threads,
and one of its former neighbours after that; `Budget` joins the two bounds because the two
kinds of list have no node in common, which is what the run is to confirm: two
creations go together with two tasks on lists, four with none.

### Disagreements between comments and code

Each of these runs checks one comment of the source as a property, and TLC shows
a behaviour of the code that violates it. `PROJECT.json` quotes the comments.

* `exit_hangs`: a process that has ever created a thread never finishes
  `sys_exit`. The loop over its threads re-initialises the anchor it stands on,
  and `list_for_each` stays there, with interrupts disabled.
* `pending_drift`: a reader that is served at once decrements `pending_to_service`
  although no key has counted it. With the count below 0, a reader that a key wakes
  later is not counted as pending, and another caller reads at once and takes its
  character. The opposite happens too: a waiter with a timeout of 0 or less that a key
  wakes returns before decrementing, and later callers wait although a character is
  there. `PendingAccounted` of run `keys` says that these are the only two errors and
  that each is permanent.
* `fork_window`: `fork` copies through pages that lie `2 * NUM_PAG_CODE` beyond the
  ones it found free, and unmaps what was there.

Other behaviour worth knowing that the model contains: a task
that yields with nobody else ready is switched to itself on its previous saved
stack position, and crashes if that came from a different call
(`switch_stack`; `OnlyLoneYieldCrashes` says that nothing else does); `sys_exit` does not free the frames of dynamic regions, although
sys.c:455 says "Deallocate all the propietary physical pages", and a `fork` that unmaps
pages of its parent loses their frames (`NoFrameLost` says that no others are lost); a forked
process has its kernel and code pages mapped for the user and writable, and the guard pages
and page 0 mapped, unlike the first one, although mm.c:72 says "Protect the task array"
(`child_table`; `KernelAndCodeMapped` says that a process has one form or the other); a
list of threads does not survive the reuse of the slot of a thread that ended, or of a
slot where a creation failed: `list_for_each` over it may then never come back to its
head (`threadCreate` of `List`; `WellLinked` says which lists are spared); a `fork` that finds no gap clears `TOTAL_PAGES`
entries, counted from the child's data pages, and so the kernel and code pages of the next
slot's table, perhaps the caller's own (`fork_no_gap`; `FailedForkKeepsData` says that
data is spared); a child that calls `memRegGet` while its parent had regions when it
forked stores through a pointer of the parent, into a page of its own that holds
something else or into none (`memRegGet`, `"fault"`); a region of the largest int is
handed out without a page (`memRegGet_wrapped`); after the exit of a thread a sibling
may store into a frame that has been freed (`"astray"`; `StaleStaysHome` says that it is
never one of another process, except for a fork's own copy); nothing is ever charged to `blocked_ticks`: the time
a task waits for a key is counted as system time and the time it waits for a
semaphore as ready time (`ReadyTimeExact`); `access_ok` accepts code pages for writing, because the case falls
through, and blocks that end in the page behind the data; `sys_clrscr(NULL)` always
fails, because the check comes before the test for NULL; `sys_gotoXY` accepts one column
and one row too many, and text printed from there lands outside the screen or on the
next row; the clock overwrites text in row 0 (`TextInOrder`); a woken reader may find the
buffer empty because another reader was faster or the key was dropped
(`CharForReader` says that there is no third reason); tasks keep `ST_RUN` while
they wait on a semaphore (`semWait`; `StateFitsQueue` states the exception); a
failed creation leaves the parent's PID in a free slot, where `sys_get_stats` may find
it first (`ForkFails`, `PidFindsTask`); a semaphore
created with a negative value lets `semSignal` corrupt `readyqueue`
(`CorruptedByNegativeValue` says that nothing else does); a gap that ends with the last page of the table is not accepted
(`IsGap`).

### Fairness

`FairSpec` assumes strong fairness of `ClockTick` and weak fairness of
`GetKeyResumes`. The timer interrupts periodically; a tick that arrives while the
kernel runs is latched by the interrupt controller and taken on the return to user
mode. So tasks that make system calls without pause, which disable `ClockTick`
again and again, cannot starve it: strong fairness. Once switched back to,
`sys_getKey` simply runs on. No fairness is assumed of user programs or of
the keyboard. The search loops of `GapSearch` run with interrupts disabled and are
given weak fairness, and so is the sweep of `List`.

## Proofs

All proofs are checked by TLAPS, for every value of the constants that the named
assumptions of the modules allow: at least two tasks, a positive quantum, a positive
buffer size, NUL a character and -1 none, a page table that holds the kernel, the code
and the data, a counter with at least one value, ... Every theorem is about the
specification that the runs check (in run `list`, `Spec` within a bound), so a run shows a
property on an instance and the theorem shows it for all. No theorem has a hypothesis
of its own.

**Lists and scheduling** (`KernelProofs`, first part). `TypeOK` is inductive: `SchedNextType`,
`LeaveCpuType` and `ScheduleType` give the types after a switch for any table and queues a
caller passes, `CountDownType` those of the clock's pass over the waiters
(`KernelTypes`). `OneList` is not inductive. `update_process_state_rr` and the timeout
sweep call `list_del` by the state field, so a wrong state would link a task twice; and
`sys_sem_create` resets a list head, which would lose tasks if anybody could wait there
before. `ListInv` is the conjunction of three facts: the links (`Once`, the running task
unlinked, idle at most ready, everybody else somewhere), the states (which state and
which saved frame a task on each list has), and semaphores that nobody waits for before
they are created. The lemmas `AddTailLinks`, `DelFirstLinks`, `MoveLinks`, `LeaveLinks`,
`ClockLinks` say what each list operation does to who is on which list, for any queues;
all later proofs use them and never look into a sequence again. From `ListInv` follow
`OneListAlways`, `NoTaskLostEver`, `StateTellsQueue`, and the action properties `RoundRobin`
(nobody overtakes in the ready queue) and `CrashOnlyByLoneYield`.

**Processes and semaphores** (`KernelProofs`, second part). `Family` is the inductive invariant of the
processes. `MasterAlive` needs that a master knows that it has threads, because
`sys_exit` decides by `has_threads`; `RunsInOwnSpace` needs that equal `master_thread`
means equal directory, because `inner_task_switch` decides by that; both need that live
masters have different PIDs, which needs that `global_PID` is not below any of them
(`OwnSpace`, `MasterOutlivesThreads`, `StatsSlotRight`). For the semaphores `SemInv` adds where
the initial values come from (`WaitersAreCounted`, `OnlyNegativeValuesCorrupt`).
`SemaphoreRefinement` maps `count` and the list to the value and the line of
`CountingSemaphore`: every step of the kernel is a `Wait`, `Signal` or `Create` there or a
stutter. Semaphores created with a negative value are not covered, and do not disturb
the others.

**Memory** (`MemoryProofs`). `MemInv` holds as long as the kernel runs (`TablesStayInOrder`). Its
core `Exclusive` speaks of every slot, not only those of live processes: `sys_exit`
leaves the regions mapped, and these become pages of the next process in the slot. The
page tables are one array, so `AtRow`, `AtInjective` and `EntryAt` first show that rows do
not overlap, by arithmetic of `s * TOTAL_PAGES + p`. `SetPages` and `DelPages` then say what
`set_ss_pag` and `del_ss_pag` do to a span, and `GapTaken` what an allocation does; each
of `fork`, thread creation, `memRegGet`, `memRegDel` and exit is a combination of these.
From it follow `FramesStayExclusive`, `FramesAccounted`,
`AreasStayKept`, `StaleStays` and the action property `FailedForkTakesNoData`. Areas are kept
for the processes that are not `clobbered`, and a frame that such a fork takes from a
region goes to `lost` (`LosePages`), so that everything else holds on. The access bits
need one more invariant, `BitsInv`: a process is as boot or as a fork left it, and a fork makes
the second out of either (`ForkBits`); `KernelStaysMapped` joins it with `MemInv`.

The lists of regions have an invariant of their own, `ListsInv`. `OwnRegionsListed` is far
from inductive: `list_del` writes through the pointers of the node it takes out, the nodes of
ended threads stay linked to heads of slots that are used again, and the same page number
is another node, or none, in another process. `ListsOK` therefore says of the nodes of the
first process that next and prev are inverse (`Paired`), that every pointer leads to a node
or to a head (`Closed`), that a head leads to a node that leads back to it (`Ends`), also for
tasks that are not trusted, that only a trusted task's own nodes end at its head (`OwnEnds`),
and that its nodes are a `Chain`; moreover that a node belongs to the task that linked it
(`Owned`) and that no node of another process leads to the head of a task of the first one
(`NobodyElse`). Without the last `memRegDel` by a child process could write to such a head. `Unharmed`
adds that no fork has taken pages of the first process while one of its tasks is trusted,
so that the nodes still have their pages.
`ListsGrow`, `ListsShrink`, `ListsJoined` and `ListsLeft` say what the calls do to functions
over pages; `LinkedInOrder`, `UnlinkedInOrder` and `OwnerWritten` carry that over to the set of
nodes; then there is one lemma per call (`GetLists`, `DelLists`, `CreateLists` ...), up to
`ListsStayInOrder` and `OwnRegionsStayListed`. The nodes are written to pages that are
mapped and apart from each other, which `MemInv` provides.

**Readers** (`ReadersProofs`). `KeyboardCursorsAgree` and `KeysReachReadersInOrder` carry the
results about the circular buffer to the kernel: every step of `ReadersSpec` is a push,
a pop, or leaves the buffer alone, and the rest is an instance of
`CircularBufferProofs`. `PendingAccounted` and `CharForReader` are inductive together with
`InGetKey`: every waiter has left the CPU inside `sys_getKey`, idle never does, and who
is switched back into it has. That a switch serves the right task is `LeaveServes`; the
clock's (`ClockServes`) may wake several at once (`PendingIsAccounted`, `CharacterForReader`).

**Statistics** (`StatsProofs`). `TicksConserved` and `ReadyTimeExact` are inductive once
`ListInv` tells who begins and ends to wait in a step. `TimeExact` and `ChargeExact` are
the arithmetic modulo `TickWord`, for any width and any number of wraps. Charges compose
(`ChargesUpdate`, `ChargesCompose`). With every charge at a tick of its own,
`SwitchCharges` says that a switch turns the balance of the task that leaves into that
of one that waits from its charge on, and back, at its own charge, for the one that comes;
`WakeCharges`, that each woken task waits from the tick at which it is charged. `SwitchAccounts`
and `WakeAccounts` carry this over to all tasks. There is one lemma for each
action, up to `TicksAreConserved` and `ReadyTimeIsExact`. Run `stats` lets one
tick pass; the theorems let any number pass, between any two readings.

**Console** (`ConsoleProofs`). `AccessInUserPages` is the reason for the check in `access_ok`:
a block that wraps around ends in a page below its first, unless it is nearly as long as
the address space, which no `int` size is (`ConsoleAssumption`). `ConsoleInv` says of a
`sys_write` under way that the buffer stands after the bytes printed and that what is left
lies in user pages. `ShowChunk` is a turn of its loop. What `printk` and
`sys_write_console` leave is a recursive function over the characters; `RunExists`,
`RunInside` and `RunPlaced` are inductions over it that go by a least counterexample
(`Least`), for which the set-based `WFMin` of the library is enough. A single character
(`PutInside`, `PutPlaced`) moves the cursor to the next cell of the ring that the screen is,
and the cells behind it keep their text (`CellBack`). The quotients and remainders of
non-constant sizes rest on one lemma, `Quotient`. Hence all invariants of run `console`:
`ConsoleTypes`, `ChunksAreTheBuffer`, `NoKernelByteShown`, `NoKernelByteStored`,
`CursorStaysOnScreen` and `TextStandsInOrder`.

**Parts that stand alone.**
* `GapSearchProofs`: `SearchIsFirstFit`. `FirstFit` says nothing while the loops run, so
  `LoopInv` adds what they know: pages from `next_start_pos` to `pag` are free, no gap
  starts before `next_start_pos`, and while a mapped run is skipped all of it is mapped.
  Restarting behind the run is sound because a gap that starts earlier would contain the
  mapped page `pag`.
* `CircularBufferProofs`: `CursorsAlwaysAgree`, and `BufferImplementsFifo`, the refinement
  `Spec => Fifo!Spec`. With the relation of the three cursors a push appends to the
  represented queue and a pop takes its head, across the wrap of either cursor.
* `ListProofs`: the rings of `list.c` are sequences. `WellLinked` alone is not inductive: the
  sweep unlinks whatever `pos` points to. The invariant `Sound` says of every list that is
  not broken that next and prev are inverse (`Good`, which gives `list_del` its predecessor)
  and that the walk along `next` from the head is a sequence of exactly the entries on it,
  each once (`Chain`, which excludes rings without a head). `AddChain` and `DelChain` show that
  `__list_add` and `list_del` insert into and remove from that sequence; `ContentsIs`, that
  the walk as `Contents` computes it returns it. The walk is recursive, and that part is an
  induction over data by a least counterexample, as for the console.
  The lists of threads are what could spoil this: `list_add` follows the `next` field of a head
  that may have been overwritten. `Apart` says that it cannot leave its kind: the links of heads
  and anchors of threads lead to such nodes or nowhere (`Confined`), and no anchor is ever on a
  list of the other kind (`Kinds`). `Known` says that the field is never NULL where a
  creation follows it. `CopySound` then shows what overwriting a slot breaks, `ThreadAdds` and
  `BrokenAdd` what adding to a sound and to a broken list does: a broken one can spoil only the
  list that its stray pointer leads to, and that is then broken too. Hence `LinksAlwaysAgree` and
  the refinement `RingsAreSequences`, `Spec => ImplementsLists`: for lists of tasks always,
  for lists of threads as long as they are not broken. `SweepInv` adds what is left of a sweep: the
  waiters not yet visited are still on `getKey_blocked`, linked as when it began, and the two
  cursors stand on the next two (`SweepVisitsEveryWaiter`).

**Only model-checked.** The liveness properties (`ReadyRuns`, `TimedWaitEnds`, `SweepEnds`, `Terminates`): fairness and
ENABLED are out of the prover's reach. All other properties of the passing runs are also
theorems.

## Not modelled

The boot sector and image builder, descriptor tables, port I/O and the sysenter
wrappers program hardware and keep no state of the kernel's logic; of the boot the
models have the state that `main` leaves. `itoa` and `strlen` of the user library are
sequential and tested in a line; `errno` is the only state there, shared by the threads
of a process. The helpers of `screen_matrix.c` that compose a matrix run in user mode.
`printc_xy`, `printc_xy_color` and `list_is_last` are called nowhere. `sys_semDestroy`
is in no entry of `sys_call_table`. `user.c` is a demonstration. `sys_getpid` and
`sys_gettime` only return a value. The saving of
registers in `entry.ss` is assumed to be right; the bound check of the call number
there accepts one number too many, which depends on what the linker places behind
the table.
