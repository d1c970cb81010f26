------------------------------- MODULE Process -------------------------------
(***************************************************************************)
(* Creation and termination of processes and threads (sys.c).  Frames and  *)
(* page tables are left to module Memory: here an allocation succeeds or   *)
(* fails, and a call that fails gives its task_struct back.                *)
(***************************************************************************)
EXTENDS Sched

CONSTANT MaxPID   \* bound: the last PID that is handed out

ASSUME ProcessAssumption == MaxPID \in Int

VARIABLE global_PID

init_process == global_PID = 1000

FreeSlot == queue[freequeue] # <<>> /\ global_PID < MaxPID

\* The first free slot moved to the tail of q; q may be freequeue itself.
MoveFreeSlot(q) ==
  list_add_tail(list_del_first(queue, freequeue), Head(queue[freequeue]), q)

\* Mutant: the child keeps the PID that was copied from its parent.
ForkSamePID ==
  /\ Syscall /\ FreeSlot
  /\ LET child == Head(queue[freequeue])
     IN  task' = [task EXCEPT ![child] =
                   [task[current] EXCEPT !.master_thread = task[current].PID,
                                         !.master_thread_address = child,
                                         !.dir_pages_baseAddr = child,
                                         !.register_esp = "fork",
                                         !.state = "ST_READY",
                                         !.has_threads = FALSE]]
  /\ global_PID' = global_PID + 1
  /\ queue' = MoveFreeSlot(readyqueue)
  /\ cr3' = task[current].dir_pages_baseAddr
  /\ UNCHANGED <<current, remaining_quantum, resume, halted>>

\* Mutant: the child's master_thread is left as copied from the parent.
ForkSameMaster ==
  /\ Syscall /\ FreeSlot
  /\ LET child == Head(queue[freequeue])
     IN  task' = [task EXCEPT ![child] =
                   [task[current] EXCEPT !.PID = global_PID + 1,
                                         !.master_thread_address = child,
                                         !.dir_pages_baseAddr = child,
                                         !.register_esp = "fork",
                                         !.state = "ST_READY",
                                         !.has_threads = FALSE]]
  /\ global_PID' = global_PID + 1
  /\ queue' = MoveFreeSlot(readyqueue)
  /\ cr3' = task[current].dir_pages_baseAddr
  /\ UNCHANGED <<current, remaining_quantum, resume, halted>>

(* sys_fork when memory suffices: the child is a copy of the parent's whole
   task_union, except for what the call assigns. *)
Fork ==
  /\ Syscall /\ FreeSlot
  /\ LET child == Head(queue[freequeue])
     IN  task' = [task EXCEPT ![child] =
                   [task[current] EXCEPT !.PID = global_PID + 1,
                                         !.master_thread = global_PID + 1,
                                         !.master_thread_address = child,
                                         !.dir_pages_baseAddr = child,
                                         !.register_esp = "fork",
                                         !.state = "ST_READY",
                                         !.has_threads = FALSE]]
  /\ global_PID' = global_PID + 1
  /\ queue' = MoveFreeSlot(readyqueue)
  /\ cr3' = task[current].dir_pages_baseAddr
  /\ UNCHANGED <<current, remaining_quantum, resume, halted>>

\* Mutant: the error path forgets to give the slot back.
ForkFailsLeaks ==
  /\ Syscall /\ queue[freequeue] # <<>>
  /\ queue' = list_del_first(queue, freequeue)
  /\ UNCHANGED <<task, current, remaining_quantum, cr3, resume, halted, global_PID>>

(* sys_fork without enough frames or pages: -EAGAIN after the copy.  The slot
   goes back to freequeue with the contents of the parent, PID included. *)
ForkFails ==
  /\ Syscall /\ queue[freequeue] # <<>>
  /\ LET child == Head(queue[freequeue])
     IN  task' = [task EXCEPT ![child] =
                   [task[current] EXCEPT !.dir_pages_baseAddr = child]]
  /\ queue' = MoveFreeSlot(freequeue)
  /\ UNCHANGED <<current, remaining_quantum, cr3, resume, halted, global_PID>>

(* sys_threadCreateWithStack: the thread keeps master_thread,
   master_thread_address and the page directory of its creator.  The
   thread_child_list of the master is abstracted to has_threads: the list
   is non-empty exactly when that flag is set, because nothing unlinks a
   thread from it. *)
ThreadCreate ==
  /\ Syscall /\ FreeSlot
  /\ LET newthread == Head(queue[freequeue])
         master == task[current].master_thread = task[current].PID
     IN  task' = [task EXCEPT
           ![newthread] = [task[current] EXCEPT !.PID = global_PID + 1,
                                                !.register_esp = "fork",
                                                !.state = "ST_READY",
                                                !.has_threads = FALSE],
           ![current].has_threads = master \/ task[current].has_threads]
  /\ global_PID' = global_PID + 1
  /\ queue' = MoveFreeSlot(readyqueue)
  /\ UNCHANGED <<current, remaining_quantum, cr3, resume, halted>>

\* sys_threadCreateWithStack without enough frames or pages: -EAGAIN.
ThreadCreateFails ==
  /\ Syscall /\ queue[freequeue] # <<>>
  /\ task' = [task EXCEPT ![Head(queue[freequeue])] = task[current]]
  /\ queue' = MoveFreeSlot(freequeue)
  /\ UNCHANGED <<current, remaining_quantum, cr3, resume, halted, global_PID>>

\* The slot goes to the end of freequeue and the next task runs.
release_and_switch ==
  sched_next_rr([task EXCEPT ![current].PID = -1],
                list_add_tail(queue, current, freequeue), "exit")

\* Mutant: a master that has threads exits as one that has none.
ExitLeavesThreads ==
  /\ Syscall
  /\ release_and_switch
  /\ UNCHANGED global_PID

(* sys_exit.  For a master with threads, INIT_LIST_HEAD on the anchor the
   loop stands on makes list_for_each go round on that anchor for ever,
   with interrupts disabled. *)
Exit ==
  /\ Syscall
  /\ \/ /\ task[current].master_thread # task[current].PID
        /\ release_and_switch
     \/ /\ task[current].master_thread = task[current].PID
        /\ ~ task[current].has_threads
        /\ release_and_switch
     \/ /\ task[current].master_thread = task[current].PID
        /\ task[current].has_threads
        /\ halted' = "hung"
        /\ UNCHANGED <<task, queue, current, remaining_quantum, cr3, resume>>
  /\ UNCHANGED global_PID

(* The slot whose counters sys_get_stats reads and returns: the first one
   with that PID, free or not. *)
stats_slot(pid) ==
  {t \in Task : task[t].PID = pid /\ \A u \in Task : u < t => task[u].PID # pid}
=============================================================================
