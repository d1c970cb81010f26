------------------------------- MODULE Kernel --------------------------------
(***************************************************************************)
(* The kernel as a whole: the system calls and interrupts of all parts,    *)
(* interleaved on the shared task table and queues.                        *)
(***************************************************************************)
EXTENDS Process, KeyInput, Semaphore, FiniteSets

vars == <<schedVars, global_PID, keyVars, semVars>>

Init == init_sched /\ init_process /\ init_keys /\ init_freesem

SchedNext == (Yield \/ Block \/ Spin) /\ UNCHANGED <<global_PID, keyVars, semVars>>

ProcessNext == /\ Fork \/ ForkFails \/ ThreadCreate \/ ThreadCreateFails \/ Exit
               /\ UNCHANGED <<keyVars, semVars>>

KeyNext == /\ \/ \E timeout \in Timeouts : GetKeyWaits(timeout) \/ GetKeyAtOnce(timeout)
              \/ GetKeyResumes
              \/ \E c \in Keys : KeyPress(c)
              \/ KeyRelease
              \/ ClockTick
           /\ UNCHANGED <<global_PID, semVars>>

SemNext == /\ \/ \E v \in SemValues : sem_create(v)
              \/ \E s \in Created : semWait(s) \/ semSignal(s)
           /\ UNCHANGED <<global_PID, keyVars>>

Next == SchedNext \/ ProcessNext \/ KeyNext \/ SemNext

Spec == Init /\ [][Next]_vars

(* The timer keeps interrupting: a tick that comes while the kernel runs is
   latched by the interrupt controller and taken on the return to user
   mode, so ticks are not starved by system calls.  A switched-back
   sys_getKey runs on.  User code and the keyboard owe nothing. *)
Fairness == /\ SF_vars(ClockTick /\ UNCHANGED <<global_PID, semVars>>)
            /\ WF_vars(GetKeyResumes /\ UNCHANGED <<global_PID, semVars>>)

FairSpec == Spec /\ Fairness
-----------------------------------------------------------------------------
OnList(t, q) == \E i \in DOMAIN queue[q] : queue[q][i] = t

TypeOK ==
  /\ task \in [Task -> task_struct]
  /\ queue \in [Queue -> Seq(Task)]
  /\ current \in Task
  /\ remaining_quantum \in 1 .. DEFAULT_QUANTUM
  /\ cr3 \in Task \cup {NULL}
  /\ resume \in {"user", "getKey"}
  /\ halted \in {"no", "hung", "crashed", "corrupt"}
  /\ global_PID \in Nat
  /\ keyboard_buffer \in Buffer
  /\ pending_to_service \in Int
  /\ make_flag \in BOOLEAN
  /\ sem \in [Semafor -> [count : Int, TID : Int, value : Int]]
  /\ freesem \in Seq(Semafor)

(* task_struct has one anchor, list, shared by all queues: a second
   list_add_tail without a list_del would splice two queues together.  No
   task is ever linked twice, the running task is linked nowhere, and idle
   is linked nowhere but in readyqueue. *)
OneList ==
  /\ \A p, q \in Queue : \A i \in DOMAIN queue[p], j \in DOMAIN queue[q] :
       queue[p][i] = queue[q][j] => p = q /\ i = j
  /\ \A q \in Queue : ~ OnList(current, q)
  /\ \A q \in Queue \ {readyqueue} : ~ OnList(idle_task, q)

(* No task_struct leaks: a slot that is neither running nor idle is on some
   list, whatever path (failed creation, timeout, wake up, exit) it took. *)
NoTaskLost ==
  \A t \in Task \ {idle_task, current} : \E q \in Queue : OnList(t, q)

Alive == {t \in Task : ~ OnList(t, freequeue)}

(* inner_task_switch skips set_cr3 between tasks of equal master_thread; the
   MMU nevertheless always uses the page directory of the running task. *)
RunsInOwnSpace == cr3 = task[current].dir_pages_baseAddr

(* A thread borrows the page directory and the thread list of its master.
   As long as it lives, master_thread_address still is that master. *)
MasterAlive ==
  \A t \in Alive \ {idle_task} :
    LET m == task[t].master_thread_address
    IN  /\ m \in Alive
        /\ task[m].PID = task[t].master_thread
        /\ task[m].dir_pages_baseAddr = task[t].dir_pages_baseAddr

(* sys_get_stats looks a PID up in the whole table.  No two live tasks share
   one, so it can only be misled by a free slot, in which a failed creation
   has left a copy of the PID of its caller. *)
PidFindsTask ==
  \A t \in Alive : \A u \in stats_slot(task[t].PID) : u = t \/ OnList(u, freequeue)

(* switch_stack on the running task itself loads a frame that is gone.  Only
   a yield with nobody else ready gets there: preemption, blocking calls and
   exit always find another task, idle at least. *)
OnlyLoneYieldCrashes ==
  [][halted # "crashed" /\ halted' = "crashed" =>
       /\ queue[readyqueue] = <<>>
       /\ task'[current].register_esp = "yield"]_vars

(* The state field is what update_process_state_rr decides list_del by.  It
   agrees with the queue a task is on, but for the tasks that come from a
   semaphore, which keep ST_RUN. *)
StateFitsQueue ==
  /\ task[current].state = "ST_RUN"
  /\ \A t \in Task :
       /\ OnList(t, blocked) \/ OnList(t, getKey_blocked) => task[t].state = "ST_BLOCKED"
       /\ OnList(t, readyqueue) =>
            \/ task[t].state = "ST_READY"
            \/ task[t].state = "ST_RUN" /\ task[t].register_esp = "semWait"
       /\ \A s \in Semafor : OnList(t, s) =>
            task[t].state = "ST_RUN" /\ task[t].register_esp = "semWait"

Excess(n) == IF n < 0 THEN -n ELSE 0

(* A negative count is the number of waiters (beyond what a negative initial
   value leaves): no semSignal is lost and none wakes a task twice. *)
WaitersCounted ==
  \A s \in Created : halted = "no" =>
    Len(queue[s]) = Excess(sem[s].count) - Excess(sem[s].value)

(* sys_semSignal only meets an empty list with a count of 0 or less when a
   semaphore was created with a negative value. *)
CorruptedByNegativeValue ==
  halted = "corrupt" => \E s \in Created : sem[s].value < 0

(* The semaphores in use that were created with a value of 0 or more.  One
   created with less promises nothing: its first signals can take a unit that
   is not there, or link the list head (CorruptedByNegativeValue). *)
Covered == {s \in Created : sem[s].value >= 0}

CountingSem == INSTANCE CountingSemaphore
  WITH Sem <- Semafor, Tasks <- Task, Initial <- SemValues \cap Nat,
       created <- Covered,
       value <- [s \in Semafor |->
                   IF s \in Covered THEN sem[s].count + Len(queue[s]) ELSE 0],
       line <- [s \in Semafor |-> IF s \in Covered THEN queue[s] ELSE <<>>]

(* The semaphores, whose count goes below zero while tasks wait, implement
   counting semaphores: a unit signalled by semSignal goes to the first in
   line or to the value and to neither twice, although the line is made of
   the list anchors that the other queues use as well; a caller goes on only
   with a unit.  Semaphores created with a negative value are left out, and
   do not disturb the others. *)
ImplementsSemaphore == CountingSem!Spec

(* Tasks that a key has woken and that have not been served yet.  A waiter
   whose timeout ended is woken without a key; its key_timeout is 0. *)
Woken ==
  {t \in Task : /\ OnList(t, readyqueue) \/ (t = current /\ resume = "getKey")
                /\ task[t].register_esp = "getKey"
                /\ task[t].key_timeout > 0}

Extends(r, s) == Len(s) <= Len(r) /\ \A i \in DOMAIN s : r[i] = s[i]

(* Round robin: a ready task is only ever taken from the front of readyqueue,
   and taken to run; nobody overtakes, whoever wakes up in between. *)
FirstReadyFirstRun ==
  [][LET r == queue[readyqueue]
     IN  \/ Extends(queue'[readyqueue], r)
         \/ r # <<>> /\ current' = Head(r) /\ Extends(queue'[readyqueue], Tail(r))]_vars

(* No starvation: a task in readyqueue gets the CPU, whatever the others do,
   unless the kernel has stopped. *)
ReadyRuns ==
  \A t \in Task : OnList(t, readyqueue) ~> (current = t \/ halted # "no")

(* sys_getKey with a positive timeout returns even if no key is typed: the
   waiter leaves getKey_blocked and gets the CPU back. *)
TimedWaitEnds ==
  \A t \in Task : (OnList(t, getKey_blocked) /\ task[t].key_timeout > 0)
                    ~> (current = t \/ halted # "no")
-----------------------------------------------------------------------------
(* What comments in the source say, and the code does not always do. *)

(* No sys_exit keeps the CPU for ever.  sys.c:479 says that it "Restarts
   execution of the next process". *)
ExitSwitches == halted # "hung"

(* The test of pending_to_service in sys_getKey holds exactly when a reader
   that a key has woken is still to be served.  sys.c:390 says of it "There
   are ready processes pending to get a char from the buffer." *)
PendingIffReady == pending_to_service > 0 <=> Woken # {}
=============================================================================
