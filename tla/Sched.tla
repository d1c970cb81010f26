-------------------------------- MODULE Sched --------------------------------
(***************************************************************************)
(* sched.c: the task table, the task queues and the round robin policy.    *)
(*                                                                         *)
(* Interrupts are disabled while the kernel runs, so a handler is one      *)
(* step, up to the point where task_switch leaves its kernel stack.  What  *)
(* a task does when it is switched back to is decided by the frame its     *)
(* register_esp points to.  Only sys_getKey has code left to run after the *)
(* switch: every other handler returns to user mode.                       *)
(***************************************************************************)
EXTENDS Integers, Sequences

CONSTANTS
  NR_TASKS,          \* slots of the task table (10 in the source)
  DEFAULT_QUANTUM,   \* ticks every task is given (10 in the source)
  NUM_SEM            \* num_sem, entries of sems_free (10 in the source)

ASSUME SchedAssumption ==
  /\ NR_TASKS \in Nat /\ NR_TASKS >= 2
  /\ DEFAULT_QUANTUM \in Nat \ {0}
  /\ NUM_SEM \in Nat

Task == 0 .. NR_TASKS - 1     \* a task_struct pointer is its index in task[]
NULL == -1
idle_task == 0
Semafor == 0 .. NUM_SEM - 1   \* a semafor pointer is its index in sems_free

\* The list heads a task can be linked to; s->blocked is named by s itself.
readyqueue == -1
freequeue == -2
blocked == -3
getKey_blocked == -4
Queue == -4 .. NUM_SEM - 1

(* register_esp abstracted to the call that left it there: "none" is the 0
   of a task that was never switched out, "init" and "fork" are the frames
   that init_idle and fork or thread creation build. *)
Frame == {"none", "init", "fork", "clock", "yield", "block", "getKey",
          "semWait", "exit"}

state_t == {"ST_RUN", "ST_READY", "ST_BLOCKED"}

\* The fields that carry control; pending_unblocks is 0 in every reachable state.
task_struct ==
  [PID : Int, master_thread : Int, master_thread_address : Task \cup {NULL},
   dir_pages_baseAddr : Task \cup {NULL}, register_esp : Frame,
   state : state_t, key_timeout : Int, has_threads : BOOLEAN]

VARIABLES
  task,                \* the task table
  queue,               \* the tasks on each list, first to last
  current,             \* current(), the owner of the kernel stack in use
  remaining_quantum,
  cr3,                 \* whose page directory the MMU uses
  resume,              \* where current goes on: "user", or "getKey" inside sys_getKey
  halted               \* "no", "hung", "crashed" or "corrupt"

schedVars == <<task, queue, current, remaining_quantum, cr3, resume, halted>>

free_task == [PID |-> -1, master_thread |-> 0, master_thread_address |-> NULL,
              dir_pages_baseAddr |-> NULL, register_esp |-> "none",
              state |-> "ST_RUN", key_timeout |-> 0, has_threads |-> FALSE]

init_idle == [free_task EXCEPT !.PID = 0, !.dir_pages_baseAddr = idle_task,
                               !.register_esp = "init"]

init_task1 == [free_task EXCEPT !.PID = 1, !.master_thread = 1,
                                !.master_thread_address = 1,
                                !.dir_pages_baseAddr = 1]

init_freequeue == [i \in 1 .. NR_TASKS - 2 |-> i + 1]

init_sched ==
  /\ task = [t \in Task |-> IF t = idle_task THEN init_idle
                            ELSE IF t = 1 THEN init_task1 ELSE free_task]
  /\ queue = [q \in Queue |-> IF q = freequeue THEN init_freequeue ELSE <<>>]
  /\ current = 1
  /\ remaining_quantum = DEFAULT_QUANTUM
  /\ cr3 = 1
  /\ resume = "user"
  /\ halted = "no"
-----------------------------------------------------------------------------
\* An interrupt or a system call is taken only from user mode.
UserMode == halted = "no" /\ resume = "user"

\* cpu_idle never makes a system call.
Syscall == UserMode /\ current # idle_task

list_add_tail(Q, t, q) == [Q EXCEPT ![q] = Append(@, t)]

list_del_first(Q, q) == [Q EXCEPT ![q] = Tail(@)]

(* switch_stack.  The stack pointer to load is read before the old one is
   saved, so a task switched to itself continues on the frame of an earlier
   switch: the same one if that came from the same call, otherwise a frame
   that is gone. *)
switch_stack(T, t, path) ==
  /\ task' = [T EXCEPT ![current].register_esp = path]
  /\ current' = t
  /\ resume' = IF T[t].register_esp = "getKey" THEN "getKey" ELSE "user"
  /\ halted' = IF t = current /\ T[t].register_esp # path THEN "crashed" ELSE halted

\* task_switch and inner_task_switch: threads of a process share its space.
task_switch(T, t, path) ==
  /\ switch_stack(T, t, path)
  /\ cr3' = IF T[current].master_thread = T[t].master_thread
              THEN cr3 ELSE T[t].dir_pages_baseAddr

\* Mutant: the chosen task stays linked in the ready queue.
sched_next_keeps(T, Q, path) ==
  LET t == IF Q[readyqueue] = <<>> THEN idle_task ELSE Head(Q[readyqueue])
  IN  /\ queue' = Q
      /\ remaining_quantum' = DEFAULT_QUANTUM
      /\ task_switch([T EXCEPT ![t].state = "ST_RUN"], t, path)

(* Switch to the first ready task, or to idle_task when there is none.  T and
   Q are the task table and the queues as the caller has left them. *)
sched_next_rr(T, Q, path) ==
  LET t == IF Q[readyqueue] = <<>> THEN idle_task ELSE Head(Q[readyqueue])
  IN  /\ queue' = IF Q[readyqueue] = <<>> THEN Q ELSE list_del_first(Q, readyqueue)
      /\ remaining_quantum' = DEFAULT_QUANTUM
      /\ task_switch([T EXCEPT ![t].state = "ST_RUN"], t, path)

(* update_process_state_rr on the running task, whose state is ST_RUN and
   which is on no list, followed by sched_next_rr. *)
leave_cpu(T, Q, q, path) ==
  sched_next_rr(
    [T EXCEPT ![current].state = IF q = readyqueue THEN "ST_READY" ELSE "ST_BLOCKED"],
    list_add_tail(Q, current, q), path)

\* Mutant: the quantum is not renewed when nobody else is ready.
schedule_without_renewal(T, Q) ==
  \/ /\ remaining_quantum - 1 # 0 \/ Q[readyqueue] = <<>>
     /\ remaining_quantum' = remaining_quantum - 1
     /\ task' = T /\ queue' = Q
     /\ UNCHANGED <<current, cr3, resume, halted>>
  \/ /\ remaining_quantum - 1 = 0
     /\ Q[readyqueue] # <<>>
     /\ leave_cpu(T, Q, readyqueue, "clock")

\* Mutant: the quantum is renewed without looking at the ready queue.
schedule_no_preemption(T, Q) ==
  /\ remaining_quantum' = IF remaining_quantum - 1 = 0 THEN DEFAULT_QUANTUM
                                                       ELSE remaining_quantum - 1
  /\ task' = T /\ queue' = Q
  /\ UNCHANGED <<current, cr3, resume, halted>>

\* Mutant: needs_sched_rr does not look whether somebody is ready.
schedule_unchecked(T, Q) ==
  \/ /\ remaining_quantum - 1 # 0
     /\ remaining_quantum' = remaining_quantum - 1
     /\ task' = T /\ queue' = Q
     /\ UNCHANGED <<current, cr3, resume, halted>>
  \/ /\ remaining_quantum - 1 = 0
     /\ leave_cpu(T, Q, readyqueue, "clock")

\* update_sched_data_rr, needs_sched_rr and the switch they decide.
schedule(T, Q) ==
  \/ /\ remaining_quantum - 1 # 0
     /\ remaining_quantum' = remaining_quantum - 1
     /\ task' = T /\ queue' = Q
     /\ UNCHANGED <<current, cr3, resume, halted>>
  \/ /\ remaining_quantum - 1 = 0
     /\ Q[readyqueue] = <<>>
     /\ remaining_quantum' = DEFAULT_QUANTUM
     /\ task' = T /\ queue' = Q
     /\ UNCHANGED <<current, cr3, resume, halted>>
  \/ /\ remaining_quantum - 1 = 0
     /\ Q[readyqueue] # <<>>
     /\ leave_cpu(T, Q, readyqueue, "clock")
-----------------------------------------------------------------------------
\* sys_yield, through force_task_switch.
Yield == Syscall /\ leave_cpu(task, queue, readyqueue, "yield")

\* sys_block with pending_unblocks = 0, the only value the kernel gives it.
Block == Syscall /\ leave_cpu(task, queue, blocked, "block")

\* A kernel that has hung, crashed or corrupted a list is not followed further.
Spin == halted # "no" /\ UNCHANGED schedVars
=============================================================================
