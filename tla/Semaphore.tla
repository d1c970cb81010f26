------------------------------ MODULE Semaphore ------------------------------
(***************************************************************************)
(* The counting semaphores of sched.c.  sys_semDestroy is in no entry of   *)
(* sys_call_table, so a semaphore that was created is never given back.    *)
(***************************************************************************)
EXTENDS Sched

CONSTANTS
  SemValues,   \* the initial values that tasks pass to sem_create
  MaxCount     \* bound: signals are sent while the count is below it

ASSUME SemAssumption == SemValues \subseteq Int /\ MaxCount \in Int

VARIABLES
  sem,       \* sems_free: count and TID, and the value it was created with
  freesem    \* the semaphores not created yet, in list order

semVars == <<sem, freesem>>

init_freesem ==
  /\ sem = [s \in Semafor |-> [count |-> 0, TID |-> 0, value |-> 0]]
  /\ freesem = [i \in 1 .. NUM_SEM |-> i - 1]

Created == {s \in Semafor : \A i \in DOMAIN freesem : freesem[i] # s}

\* sys_sem_create; with no free semaphore it changes nothing.
sem_create(v) ==
  /\ Syscall /\ freesem # <<>>
  /\ sem' = [sem EXCEPT ![Head(freesem)] =
               [count |-> v, TID |-> task[current].PID, value |-> v]]
  /\ queue' = [queue EXCEPT ![Head(freesem)] = <<>>]
  /\ freesem' = Tail(freesem)
  /\ UNCHANGED <<task, current, remaining_quantum, cr3, resume, halted>>

\* Mutant: the count is tested before it is decremented.
semWait_tests_first(s) ==
  /\ Syscall
  /\ sem' = [sem EXCEPT ![s].count = @ - 1]
  /\ IF sem[s].count < 0
       THEN sched_next_rr(task, list_add_tail(queue, current, s), "semWait")
       ELSE UNCHANGED schedVars
  /\ UNCHANGED freesem

(* sys_semWait.  The waiter is linked without update_process_state_rr, so
   its state stays ST_RUN. *)
semWait(s) ==
  /\ Syscall
  /\ sem' = [sem EXCEPT ![s].count = @ - 1]
  /\ IF sem[s].count - 1 < 0
       THEN sched_next_rr(task, list_add_tail(queue, current, s), "semWait")
       ELSE UNCHANGED schedVars
  /\ UNCHANGED freesem

\* Mutant: no task is woken when the count comes back to 0.
semSignal_misses_last(s) ==
  /\ Syscall /\ sem[s].count < MaxCount
  /\ sem' = [sem EXCEPT ![s].count = @ + 1]
  /\ IF sem[s].count + 1 < 0 /\ queue[s] # <<>>
       THEN /\ queue' = list_add_tail(list_del_first(queue, s), Head(queue[s]), readyqueue)
            /\ UNCHANGED <<task, current, remaining_quantum, cr3, resume, halted>>
       ELSE UNCHANGED schedVars
  /\ UNCHANGED freesem

\* Mutant: the task that came last is woken.
semSignal_wakes_last(s) ==
  /\ Syscall /\ sem[s].count < MaxCount
  /\ sem' = [sem EXCEPT ![s].count = @ + 1]
  /\ IF sem[s].count + 1 <= 0 /\ queue[s] # <<>>
       THEN LET q == queue[s]
            IN  queue' = list_add_tail([queue EXCEPT ![s] = SubSeq(q, 1, Len(q) - 1)],
                                       q[Len(q)], readyqueue)
       ELSE UNCHANGED queue
  /\ UNCHANGED <<task, current, remaining_quantum, cr3, resume, halted, freesem>>

(* sys_semSignal.  list_first of an empty list is the list head itself; it
   would be linked into readyqueue as if it were a task. *)
semSignal(s) ==
  /\ Syscall /\ sem[s].count < MaxCount
  /\ sem' = [sem EXCEPT ![s].count = @ + 1]
  /\ \/ /\ sem[s].count + 1 > 0
        /\ UNCHANGED schedVars
     \/ /\ sem[s].count + 1 <= 0
        /\ queue[s] # <<>>
        /\ queue' = list_add_tail(list_del_first(queue, s), Head(queue[s]), readyqueue)
        /\ UNCHANGED <<task, current, remaining_quantum, cr3, resume, halted>>
     \/ /\ sem[s].count + 1 <= 0
        /\ queue[s] = <<>>
        /\ halted' = "corrupt"
        /\ UNCHANGED <<task, queue, current, remaining_quantum, cr3, resume>>
  /\ UNCHANGED freesem
=============================================================================
