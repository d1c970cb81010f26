------------------------------ MODULE KeyInput -------------------------------
(***************************************************************************)
(* sys_getKey, keyboard_routine and the key timeouts of clock_routine.     *)
(***************************************************************************)
EXTENDS Sched, CircularBuffer

CONSTANTS
  Keys,         \* the characters that are typed
  Timeouts,     \* the timeouts that tasks pass to getKey
  MaxPending    \* bound: keys are typed while |pending_to_service| is below it

ASSUME KeyAssumption ==
  Keys \subseteq Char /\ Timeouts \subseteq Int /\ MaxPending \in Nat

VARIABLES
  keyboard_buffer,
  pending_to_service,
  make_flag          \* TRUE: the next keyboard interrupt is a key press

keyVars == <<keyboard_buffer, pending_to_service, make_flag>>

init_keys ==
  /\ keyboard_buffer = INIT_CIRCULAR_BUFFER
  /\ pending_to_service = 0
  /\ make_flag = TRUE

\* Mutant: a served task does not give its pending unit back.
getKey_serve_keeps_pending(timeout) ==
  IF timeout <= 0 THEN UNCHANGED <<keyboard_buffer, pending_to_service>>
  ELSE /\ keyboard_buffer' = circular_buffer_pop(keyboard_buffer)
       /\ UNCHANGED pending_to_service

\* Mutant: the character is popped before the timeout is looked at.
getKey_serve_pops_first(timeout) ==
  /\ keyboard_buffer' = circular_buffer_pop(keyboard_buffer)
  /\ pending_to_service' = IF timeout <= 0 THEN pending_to_service ELSE pending_to_service - 1

\* The tail of sys_getKey, run with the caller's key_timeout at that moment.
getKey_serve(timeout) ==
  IF timeout <= 0 THEN UNCHANGED <<keyboard_buffer, pending_to_service>>
  ELSE /\ pending_to_service' = pending_to_service - 1
       /\ keyboard_buffer' = circular_buffer_pop(keyboard_buffer)

MustWait == \/ pending_to_service > 0
            \/ circular_buffer_empty(keyboard_buffer)
            \/ queue[getKey_blocked] # <<>>

\* sys_getKey up to the switch, when the caller has to wait.
GetKeyWaits(timeout) ==
  /\ Syscall /\ MustWait
  /\ leave_cpu([task EXCEPT ![current].key_timeout = timeout], queue,
               getKey_blocked, "getKey")
  /\ UNCHANGED keyVars

\* sys_getKey when a character is there for the caller.
GetKeyAtOnce(timeout) ==
  /\ Syscall /\ ~MustWait
  /\ task' = [task EXCEPT ![current].key_timeout = timeout]
  /\ getKey_serve(timeout)
  /\ UNCHANGED <<queue, current, remaining_quantum, cr3, resume, halted, make_flag>>

\* sys_getKey from the switch back to the caller until it returns.
GetKeyResumes ==
  /\ halted = "no" /\ resume = "getKey"
  /\ getKey_serve(task[current].key_timeout)
  /\ resume' = "user"
  /\ UNCHANGED <<task, queue, current, remaining_quantum, cr3, halted, make_flag>>
-----------------------------------------------------------------------------
\* Mutant: the woken task is moved but its state is not updated.
wake_first_stale ==
  LET t == Head(queue[getKey_blocked])
  IN  /\ queue' = list_add_tail(list_del_first(queue, getKey_blocked), t, readyqueue)
      /\ UNCHANGED task

\* Mutant: list_add instead of list_add_tail.
wake_first_in_front ==
  LET t == Head(queue[getKey_blocked])
  IN  /\ queue' = [queue EXCEPT ![readyqueue] = <<t>> \o @, ![getKey_blocked] = Tail(@)]
      /\ task' = [task EXCEPT ![t].state = "ST_READY"]

\* update_process_state_rr(t, &readyqueue) on the first task of getKey_blocked.
wake_first ==
  LET t == Head(queue[getKey_blocked])
      Q == IF task[t].state # "ST_RUN" THEN list_del_first(queue, getKey_blocked)
                                       ELSE queue
  IN  /\ queue' = list_add_tail(Q, t, readyqueue)
      /\ task' = [task EXCEPT ![t].state = "ST_READY"]

\* keyboard_routine for the interrupt of a key press.
KeyPress(c) ==
  /\ UserMode /\ make_flag
  /\ -MaxPending < pending_to_service /\ pending_to_service < MaxPending
  /\ keyboard_buffer' = circular_buffer_push(keyboard_buffer, c)
  /\ IF queue[getKey_blocked] = <<>> THEN UNCHANGED <<task, queue, pending_to_service>>
     ELSE wake_first /\ pending_to_service' = pending_to_service + 1
  /\ make_flag' = FALSE
  /\ UNCHANGED <<current, remaining_quantum, cr3, resume, halted>>

\* keyboard_routine for the interrupt of a key release.
KeyRelease ==
  /\ UserMode /\ ~make_flag
  /\ make_flag' = TRUE
  /\ UNCHANGED <<schedVars, keyboard_buffer, pending_to_service>>
-----------------------------------------------------------------------------
Waiters == queue[getKey_blocked]

\* Positions in getKey_blocked whose timeout is running.
Counting == {i \in DOMAIN Waiters : task[Waiters[i]].key_timeout > 0}

\* Mutant: the timeout is compared with 0 before it is decremented.
ExpiredBeforeDecrement == {i \in Counting : task[Waiters[i]].key_timeout = 0}

\* Those whose timeout ends with this tick.
Expired == {i \in Counting : task[Waiters[i]].key_timeout = 1}

\* Mutant: the waiter is queued as ready and stays linked here too.
StayingAll == DOMAIN Waiters

\* Those that stay linked: list_del is skipped for a task in state ST_RUN.
Staying == DOMAIN Waiters \ {i \in Expired : task[Waiters[i]].state # "ST_RUN"}

\* The enumerations of a set I of positions, from the first to the last.
InOrder(I) ==
  {f \in UNION {[1 .. n -> I] : n \in 0 .. Len(Waiters)} :
     /\ \A i, j \in DOMAIN f : i < j => f[i] < f[j]
     /\ \A p \in I : \E i \in DOMAIN f : f[i] = p}

\* The task table and the queues after key_timout_system.
count_down ==
  [t \in Task |->
    [task[t] EXCEPT
       !.key_timeout = IF \E i \in Counting : Waiters[i] = t THEN @ - 1 ELSE @,
       !.state = IF \E i \in Expired : Waiters[i] = t THEN "ST_READY" ELSE @]]

wake_expired(f, g) ==
  [queue EXCEPT ![readyqueue] = @ \o [i \in DOMAIN f |-> Waiters[f[i]]],
                ![getKey_blocked] = [i \in DOMAIN g |-> Waiters[g[i]]]]

\* clock_routine: key_timout_system, then schedule.
ClockTick ==
  /\ UserMode
  /\ \E f \in InOrder(Expired), g \in InOrder(Staying) :
       schedule(count_down, wake_expired(f, g))
  /\ UNCHANGED keyVars
=============================================================================
