---------------------------- MODULE KernelProofs -----------------------------
(***************************************************************************)
(* Proofs about the kernel, for every number of tasks, quantum, number of  *)
(* semaphores, buffer size and set of inputs.                              *)
(*                                                                         *)
(* First the types and the task lists: no task is linked twice and none is *)
(* lost, the state field tells the list, ready tasks run in turn, and only *)
(* a lone yield crashes.  The inductive invariant is ListInv.  OneList     *)
(* alone is not inductive: key_timout_system and wake_first call list_del  *)
(* by the state field, so a wrong state would link a task twice; and       *)
(* sys_sem_create resets a list head, which would lose tasks if anybody    *)
(* could wait there before.                                                *)
(*                                                                         *)
(* Then processes, threads and address spaces, and the semaphores.         *)
(***************************************************************************)
EXTENDS Kernel, SequenceTheorems, TLAPS

SchedTypeOK ==
  /\ task \in [Task -> task_struct]
  /\ queue \in [Queue -> Seq(Task)]
  /\ current \in Task
  /\ remaining_quantum \in 1 .. DEFAULT_QUANTUM
  /\ cr3 \in Task \cup {NULL}
  /\ resume \in {"user", "getKey"}
  /\ halted \in {"no", "hung", "crashed", "corrupt"}

OthersTypeOK ==
  /\ global_PID \in Nat
  /\ keyboard_buffer \in Buffer
  /\ pending_to_service \in Int
  /\ make_flag \in BOOLEAN
  /\ sem \in [Semafor -> [count : Int, TID : Int, value : Int]]
  /\ freesem \in Seq(Semafor)

\* TypeOK splits into what the scheduler changes and what it never touches.
LEMMA TypeParts == TypeOK <=> SchedTypeOK /\ OthersTypeOK
  BY DEF TypeOK, SchedTypeOK, OthersTypeOK

\* The list heads that have names, and those of the semaphores.
LEMMA QueueNames ==
  /\ {readyqueue, freequeue, blocked, getKey_blocked} \subseteq Queue
  /\ Semafor \subseteq Queue
  /\ idle_task \in Task /\ 1 \in Task
  BY SchedAssumption
  DEF readyqueue, freequeue, blocked, getKey_blocked, Queue, Semafor, idle_task, Task

\* Assigning a field of a task_struct keeps the table well typed.
LEMMA SetField ==
  ASSUME NEW T \in [Task -> task_struct], NEW t \in Task
  PROVE  /\ \A v \in Frame : [T EXCEPT ![t].register_esp = v] \in [Task -> task_struct]
         /\ \A v \in state_t : [T EXCEPT ![t].state = v] \in [Task -> task_struct]
         /\ \A v \in Int : [T EXCEPT ![t].key_timeout = v] \in [Task -> task_struct]
         /\ \A v \in Int : [T EXCEPT ![t].PID = v] \in [Task -> task_struct]
  BY DEF task_struct

\* Linking a task to a list keeps the lists well typed.
LEMMA AddTailType ==
  ASSUME NEW Q \in [Queue -> Seq(Task)], NEW t \in Task, NEW q \in Queue
  PROVE  list_add_tail(Q, t, q) \in [Queue -> Seq(Task)]
  BY AppendProperties DEF list_add_tail

\* So does unlinking the first task, which is a task.
LEMMA DelFirstType ==
  ASSUME NEW Q \in [Queue -> Seq(Task)], NEW q \in Queue, Q[q] # <<>>
  PROVE  list_del_first(Q, q) \in [Queue -> Seq(Task)] /\ Head(Q[q]) \in Task
  BY HeadTailProperties DEF list_del_first

\* sched_next_rr keeps the types, whatever table and queues it is given.
LEMMA SchedNextType ==
  ASSUME SchedTypeOK,
         NEW T \in [Task -> task_struct], NEW Q \in [Queue -> Seq(Task)],
         NEW path \in Frame, sched_next_rr(T, Q, path)
  PROVE  SchedTypeOK'
<1> DEFINE t == IF Q[readyqueue] = <<>> THEN idle_task ELSE Head(Q[readyqueue])
           U == [T EXCEPT ![t].state = "ST_RUN"]
<1>1. t \in Task
  BY QueueNames, DelFirstType
<1>2. queue' \in [Queue -> Seq(Task)]
  BY QueueNames, DelFirstType DEF sched_next_rr
<1>3. U \in [Task -> task_struct]
  BY <1>1, SetField DEF state_t
<1>4. task_switch(U, t, path) /\ remaining_quantum' = DEFAULT_QUANTUM
  BY DEF sched_next_rr
<1> HIDE DEF t, U
<1>5. task' \in [Task -> task_struct]
  BY <1>3, <1>4, SetField DEF SchedTypeOK, task_switch, switch_stack
<1>6. current' \in Task /\ cr3' \in Task \cup {NULL}
  BY <1>1, <1>3, <1>4 DEF SchedTypeOK, task_switch, switch_stack, task_struct
<1>7. /\ resume' \in {"user", "getKey"}
      /\ halted' \in {"no", "hung", "crashed", "corrupt"}
  BY <1>4 DEF SchedTypeOK, task_switch, switch_stack
<1> QED
  BY <1>2, <1>4, <1>5, <1>6, <1>7, SchedAssumption DEF SchedTypeOK

\* Leaving the CPU for any list keeps the types.
LEMMA LeaveCpuType ==
  ASSUME SchedTypeOK,
         NEW T \in [Task -> task_struct], NEW Q \in [Queue -> Seq(Task)],
         NEW q \in Queue, NEW path \in Frame, leave_cpu(T, Q, q, path)
  PROVE  SchedTypeOK'
<1> DEFINE st == IF q = readyqueue THEN "ST_READY" ELSE "ST_BLOCKED"
<1>1. [T EXCEPT ![current].state = st] \in [Task -> task_struct]
  BY SetField DEF SchedTypeOK, state_t
<1>2. list_add_tail(Q, current, q) \in [Queue -> Seq(Task)]
  BY AddTailType DEF SchedTypeOK
<1> QED
  BY <1>1, <1>2, SchedNextType DEF leave_cpu

\* The clock's schedule keeps the types, and the quantum between its bounds.
LEMMA ScheduleType ==
  ASSUME SchedTypeOK,
         NEW T \in [Task -> task_struct], NEW Q \in [Queue -> Seq(Task)],
         schedule(T, Q)
  PROVE  SchedTypeOK'
<1>1. CASE leave_cpu(T, Q, readyqueue, "clock")
  BY <1>1, LeaveCpuType, QueueNames DEF Frame
<1>2. CASE /\ remaining_quantum' \in 1 .. DEFAULT_QUANTUM
           /\ task' = T /\ queue' = Q
           /\ UNCHANGED <<current, cr3, resume, halted>>
  BY <1>2 DEF SchedTypeOK
<1> QED
  BY <1>1, <1>2, SchedAssumption DEF schedule, SchedTypeOK
-----------------------------------------------------------------------------
\* The boot code leaves a well typed kernel.
LEMMA InitType == Init => TypeOK
<1> SUFFICES ASSUME Init PROVE TypeOK
  OBVIOUS
<1> USE SchedAssumption DEF Init
<1>1. /\ free_task \in task_struct /\ init_idle \in task_struct
      /\ init_task1 \in task_struct
  <2>1. free_task \in task_struct
    BY DEF free_task, task_struct, NULL, Frame, state_t
  <2>2. init_idle \in task_struct
    BY <2>1, QueueNames DEF init_idle, free_task, task_struct, Frame, state_t
  <2>3. init_task1 \in task_struct
    <3> DEFINE named == [free_task EXCEPT !.PID = 1, !.master_thread = 1]
    <3>1. named \in task_struct
      <4>1. \A T \in task_struct : \A v, w \in Int :
              [T EXCEPT !.PID = v, !.master_thread = w] \in task_struct
        BY DEF task_struct
      <4>2. 1 \in Int
        OBVIOUS
      <4> QED
        BY <2>1, <4>1, <4>2, Zenon
    <3>2. init_task1 = [named EXCEPT !.master_thread_address = 1,
                                     !.dir_pages_baseAddr = 1]
      BY DEF init_task1
    <3> HIDE DEF named
    <3> QED
      BY <3>1, <3>2, QueueNames DEF task_struct
  <2> QED
    BY <2>1, <2>2, <2>3
<1>2. task \in [Task -> task_struct]
  BY <1>1 DEF init_sched
<1>3. init_freequeue \in Seq(Task)
  BY DEF init_freequeue, Task
<1>4. queue \in [Queue -> Seq(Task)]
  BY <1>3, EmptySeq DEF init_sched
<1>5. /\ current \in Task /\ remaining_quantum \in 1 .. DEFAULT_QUANTUM
      /\ cr3 \in Task \cup {NULL} /\ resume \in {"user", "getKey"}
      /\ halted \in {"no", "hung", "crashed", "corrupt"}
  BY DEF init_sched, Task
<1>6. keyboard_buffer \in Buffer
  BY BufferSizeAssumption, CharAssumption DEF init_keys, INIT_CIRCULAR_BUFFER, Buffer, Slot
<1>7. sem \in [Semafor -> [count : Int, TID : Int, value : Int]] /\ freesem \in Seq(Semafor)
  BY DEF init_freesem, Semafor
<1> QED
  BY <1>2, <1>4, <1>5, <1>6, <1>7 DEF init_process, init_keys, TypeOK

\* sys_yield, sys_block and a kernel that has stopped.
LEMMA SchedNextActionType ==
  ASSUME TypeOK, SchedNext PROVE TypeOK'
<1>1. SchedTypeOK /\ OthersTypeOK
  BY TypeParts
<1>2. OthersTypeOK'
  BY <1>1 DEF OthersTypeOK, SchedNext, keyVars, semVars
<1>3. Yield => SchedTypeOK'
  BY <1>1, LeaveCpuType, QueueNames DEF Yield, SchedTypeOK, Frame
<1>4. Block => SchedTypeOK'
  BY <1>1, LeaveCpuType, QueueNames DEF Block, SchedTypeOK, Frame
<1>5. Spin => SchedTypeOK'
  BY <1>1 DEF Spin, schedVars, SchedTypeOK
<1>6. SchedTypeOK'
  BY <1>3, <1>4, <1>5 DEF SchedNext
<1> QED
  BY <1>2, <1>6 DEF TypeOK, SchedTypeOK, OthersTypeOK

\* The free slot that a creating call takes, and the queues it leaves.
LEMMA MoveFreeSlotType ==
  ASSUME SchedTypeOK, queue[freequeue] # <<>>, NEW q \in Queue
  PROVE  Head(queue[freequeue]) \in Task /\ MoveFreeSlot(q) \in [Queue -> Seq(Task)]
<1>1. /\ list_del_first(queue, freequeue) \in [Queue -> Seq(Task)]
      /\ Head(queue[freequeue]) \in Task
  BY QueueNames, DelFirstType DEF SchedTypeOK
<1> QED
  BY <1>1, AddTailType DEF MoveFreeSlot

\* The calls of sys.c that create and end processes and threads.
LEMMA ProcessNextType ==
  ASSUME TypeOK, ProcessNext PROVE TypeOK'
<1>1. SchedTypeOK /\ OthersTypeOK
  BY TypeParts
<1> DEFINE slot == Head(queue[freequeue])
<1>2. queue[freequeue] # <<>> =>
        /\ slot \in Task
        /\ MoveFreeSlot(readyqueue) \in [Queue -> Seq(Task)]
        /\ MoveFreeSlot(freequeue) \in [Queue -> Seq(Task)]
  BY <1>1, MoveFreeSlotType, QueueNames
<1>3. task[current] \in task_struct /\ task \in [Task -> task_struct] /\ current \in Task
  BY <1>1 DEF SchedTypeOK
<1>4. OthersTypeOK'
  <2>1. global_PID' \in Nat
    BY <1>1 DEF OthersTypeOK, ProcessNext, Fork, ForkFails, ThreadCreate,
                ThreadCreateFails, Exit
  <2> QED
    BY <1>1, <2>1 DEF OthersTypeOK, ProcessNext, keyVars, semVars
<1>5. Fork => SchedTypeOK'
  <2> SUFFICES ASSUME Fork PROVE SchedTypeOK'
    OBVIOUS
  <2>1. slot \in Task /\ queue' \in [Queue -> Seq(Task)]
    BY <1>2 DEF Fork, FreeSlot
  <2>2. global_PID + 1 \in Int
    BY <1>1 DEF OthersTypeOK
  <2> DEFINE child == [task[current] EXCEPT !.PID = global_PID + 1,
                          !.master_thread = global_PID + 1,
                          !.master_thread_address = slot,
                          !.dir_pages_baseAddr = slot,
                          !.register_esp = "fork",
                          !.state = "ST_READY",
                          !.has_threads = FALSE]
  <2>3. child \in task_struct
    BY <1>3, <2>1, <2>2 DEF task_struct, Frame, state_t
  <2>4. task' = [task EXCEPT ![slot] = child]
    BY DEF Fork
  <2> HIDE DEF child, slot
  <2>5. task' \in [Task -> task_struct]
    BY <1>3, <2>1, <2>3, <2>4
  <2>6. cr3' \in Task \cup {NULL}
    BY <1>3 DEF Fork, task_struct
  <2> QED
    BY <1>1, <2>1, <2>5, <2>6 DEF Fork, SchedTypeOK
<1>6. ForkFails => SchedTypeOK'
  <2> SUFFICES ASSUME ForkFails PROVE SchedTypeOK'
    OBVIOUS
  <2>1. slot \in Task /\ queue' \in [Queue -> Seq(Task)]
    BY <1>2 DEF ForkFails
  <2> DEFINE child == [task[current] EXCEPT !.dir_pages_baseAddr = slot]
  <2>2. child \in task_struct
    BY <1>3, <2>1 DEF task_struct
  <2>3. task' = [task EXCEPT ![slot] = child]
    BY DEF ForkFails
  <2> HIDE DEF child, slot
  <2> QED
    BY <1>1, <1>3, <2>1, <2>2, <2>3 DEF ForkFails, SchedTypeOK
<1>7. ThreadCreate => SchedTypeOK'
  <2> SUFFICES ASSUME ThreadCreate PROVE SchedTypeOK'
    OBVIOUS
  <2>1. slot \in Task /\ queue' \in [Queue -> Seq(Task)]
    BY <1>2 DEF ThreadCreate, FreeSlot
  <2>2. global_PID + 1 \in Int
    BY <1>1 DEF OthersTypeOK
  <2> DEFINE thread == [task[current] EXCEPT !.PID = global_PID + 1,
                          !.register_esp = "fork",
                          !.state = "ST_READY",
                          !.has_threads = FALSE]
             with == [task EXCEPT ![slot] = thread]
             flag == task[current].master_thread = task[current].PID
                       \/ task[current].has_threads
  <2>3. thread \in task_struct
    BY <1>3, <2>2 DEF task_struct, Frame, state_t
  <2>4. task' = [with EXCEPT ![current].has_threads = flag]
    BY DEF ThreadCreate
  <2>5. with \in [Task -> task_struct]
    BY <1>3, <2>1, <2>3
  <2>6. flag \in BOOLEAN
    BY <1>3 DEF task_struct
  <2> HIDE DEF with, flag
  <2>7. task' \in [Task -> task_struct]
    BY <1>3, <2>4, <2>5, <2>6 DEF task_struct
  <2> QED
    BY <1>1, <2>1, <2>7 DEF ThreadCreate, SchedTypeOK
<1>8. ThreadCreateFails => SchedTypeOK'
  BY <1>1, <1>2, <1>3 DEF ThreadCreateFails, SchedTypeOK
<1>9. Exit => SchedTypeOK'
  <2>1. release_and_switch => SchedTypeOK'
    <3>1. [task EXCEPT ![current].PID = -1] \in [Task -> task_struct]
      BY <1>3, SetField
    <3>2. list_add_tail(queue, current, freequeue) \in [Queue -> Seq(Task)]
      BY <1>1, AddTailType, QueueNames DEF SchedTypeOK
    <3> QED
      BY <1>1, <3>1, <3>2, SchedNextType DEF release_and_switch, Frame
  <2>2. /\ halted' = "hung"
        /\ UNCHANGED <<task, queue, current, remaining_quantum, cr3, resume>>
        => SchedTypeOK'
    BY <1>1 DEF SchedTypeOK
  <2> QED
    BY <2>1, <2>2 DEF Exit
<1> QED
  BY <1>4, <1>5, <1>6, <1>7, <1>8, <1>9
  DEF ProcessNext, TypeOK, SchedTypeOK, OthersTypeOK

\* Every buffer that push and pop return is a buffer.
LEMMA BufferType ==
  ASSUME NEW b \in Buffer
  PROVE  /\ \A c \in Char : circular_buffer_push(b, c) \in Buffer
         /\ circular_buffer_pop(b) \in Buffer
<1>1. ASSUME NEW c \in Char PROVE circular_buffer_push(b, c) \in Buffer
  <2>1. CASE circular_buffer_full(b)
    BY <2>1 DEF circular_buffer_push
  <2>2. CASE ~ circular_buffer_full(b)
    <3> DEFINE pos == IF b.tail < BUFFER_SIZE - 1 THEN b.tail + 1 ELSE 0
    <3>1. pos \in Slot /\ pos \in -1 .. BUFFER_SIZE - 1
      BY BufferSizeAssumption DEF Buffer, Slot
    <3>2. b.num_elem + 1 \in 0 .. BUFFER_SIZE
      BY <2>2, BufferSizeAssumption DEF Buffer, circular_buffer_full
    <3>3. [b.buffer EXCEPT ![pos] = c] \in [Slot -> Char]
      BY DEF Buffer
    <3>4. circular_buffer_push(b, c) =
            [head |-> b.head, tail |-> pos, num_elem |-> b.num_elem + 1,
             buffer |-> [b.buffer EXCEPT ![pos] = c]]
      BY <2>2 DEF circular_buffer_push, Buffer
    <3>5. b.head \in Slot
      BY DEF Buffer
    <3> HIDE DEF pos
    <3> QED
      BY <3>1, <3>2, <3>3, <3>4, <3>5 DEF Buffer
  <2> QED
    BY <2>1, <2>2
<1>2. circular_buffer_pop(b) \in Buffer
  <2>1. CASE circular_buffer_empty(b)
    BY <2>1 DEF circular_buffer_pop
  <2>2. CASE ~ circular_buffer_empty(b)
    <3> DEFINE pos == IF b.head < BUFFER_SIZE - 1 THEN b.head + 1 ELSE 0
    <3>1. pos \in Slot
      BY BufferSizeAssumption DEF Buffer, Slot
    <3>2. b.num_elem - 1 \in 0 .. BUFFER_SIZE
      BY <2>2, BufferSizeAssumption DEF Buffer, circular_buffer_empty
    <3>3. circular_buffer_pop(b) = [b EXCEPT !.head = pos, !.num_elem = b.num_elem - 1]
      BY <2>2 DEF circular_buffer_pop
    <3> HIDE DEF pos
    <3> QED
      BY <3>1, <3>2, <3>3 DEF Buffer
  <2> QED
    BY <2>1, <2>2
<1> QED
  BY <1>1, <1>2

\* The tail of sys_getKey keeps the buffer and the pending count well typed.
LEMMA ServeType ==
  ASSUME OthersTypeOK, NEW timeout, getKey_serve(timeout)
  PROVE  keyboard_buffer' \in Buffer /\ pending_to_service' \in Int
  BY BufferType DEF OthersTypeOK, getKey_serve

\* The table and the queues that key_timout_system hands to schedule.
LEMMA CountDownType ==
  ASSUME SchedTypeOK, NEW f \in InOrder(Expired), NEW g \in InOrder(Staying)
  PROVE  /\ count_down \in [Task -> task_struct]
         /\ wake_expired(f, g) \in [Queue -> Seq(Task)]
<1>1. \A t \in Task : \A k \in Int : \A st \in state_t :
        [task[t] EXCEPT !.key_timeout = k, !.state = st] \in task_struct
  BY DEF SchedTypeOK, task_struct
<1>2. count_down \in [Task -> task_struct]
  <2> SUFFICES ASSUME NEW t \in Task PROVE count_down[t] \in task_struct
    BY DEF count_down
  <2> DEFINE k == IF \E i \in Counting : Waiters[i] = t
                    THEN task[t].key_timeout - 1 ELSE task[t].key_timeout
             st == IF \E i \in Expired : Waiters[i] = t
                     THEN "ST_READY" ELSE task[t].state
  <2>1. count_down[t] = [task[t] EXCEPT !.key_timeout = k, !.state = st]
    BY DEF count_down
  <2>2. k \in Int /\ st \in state_t
    BY DEF SchedTypeOK, task_struct, state_t
  <2> HIDE DEF k, st
  <2>3. [task[t] EXCEPT !.key_timeout = k, !.state = st] \in task_struct
    BY <1>1, <2>2, Zenon
  <2> QED
    BY <2>1, <2>3, Zenon
<1>3. Waiters \in Seq(Task)
  BY QueueNames DEF Waiters, SchedTypeOK
<1>4. ASSUME NEW I \in SUBSET DOMAIN Waiters, NEW h \in InOrder(I)
      PROVE  [i \in DOMAIN h |-> Waiters[h[i]]] \in Seq(Task)
  <2>1. PICK n \in 0 .. Len(Waiters) : h \in [1 .. n -> I]
    BY DEF InOrder
  <2>2. n \in Nat
    BY <1>3, <2>1
  <2>3. \A i \in 1 .. n : Waiters[h[i]] \in Task
    BY <1>3, <2>1
  <2> QED
    BY <2>1, <2>2, <2>3
<1>5. Expired \subseteq DOMAIN Waiters /\ Staying \subseteq DOMAIN Waiters
  BY DEF Expired, Counting, Staying
<1>6. /\ [i \in DOMAIN f |-> Waiters[f[i]]] \in Seq(Task)
      /\ [i \in DOMAIN g |-> Waiters[g[i]]] \in Seq(Task)
  BY <1>4, <1>5
<1>7. queue[readyqueue] \o [i \in DOMAIN f |-> Waiters[f[i]]] \in Seq(Task)
  BY <1>6, QueueNames, ConcatProperties DEF SchedTypeOK
<1>8. wake_expired(f, g) \in [Queue -> Seq(Task)]
  BY <1>6, <1>7 DEF wake_expired, SchedTypeOK
<1> QED
  BY <1>2, <1>8

\* sys_getKey and the interrupts of keyboard and clock.
LEMMA KeyNextType ==
  ASSUME TypeOK, KeyNext PROVE TypeOK'
<1>1. SchedTypeOK /\ OthersTypeOK
  BY TypeParts
<1>2. ASSUME NEW timeout \in Timeouts, GetKeyWaits(timeout)
      PROVE  TypeOK'
  <2>1. timeout \in Int
    BY KeyAssumption
  <2>2. [task EXCEPT ![current].key_timeout = timeout] \in [Task -> task_struct]
    BY <1>1, <2>1, SetField DEF SchedTypeOK
  <2>3. SchedTypeOK'
    BY <1>1, <1>2, <2>2, QueueNames, LeaveCpuType DEF GetKeyWaits, SchedTypeOK, Frame
  <2> QED
    BY <1>1, <1>2, <2>3
    DEF GetKeyWaits, keyVars, semVars, KeyNext, TypeOK, SchedTypeOK, OthersTypeOK
<1>3. ASSUME NEW timeout \in Timeouts, GetKeyAtOnce(timeout)
      PROVE  TypeOK'
  <2>1. timeout \in Int
    BY KeyAssumption
  <2>2. task' \in [Task -> task_struct]
    BY <1>1, <1>3, <2>1, SetField DEF SchedTypeOK, GetKeyAtOnce
  <2>3. keyboard_buffer' \in Buffer /\ pending_to_service' \in Int
    BY <1>1, <1>3, ServeType DEF GetKeyAtOnce
  <2> QED
    BY <1>1, <1>3, <2>2, <2>3
    DEF GetKeyAtOnce, semVars, KeyNext, TypeOK, SchedTypeOK, OthersTypeOK
<1>4. ASSUME GetKeyResumes
      PROVE  TypeOK'
  <2>1. keyboard_buffer' \in Buffer /\ pending_to_service' \in Int
    BY <1>1, <1>4, ServeType DEF GetKeyResumes
  <2> QED
    BY <1>1, <1>4, <2>1
    DEF GetKeyResumes, semVars, KeyNext, TypeOK, SchedTypeOK, OthersTypeOK
<1>5. ASSUME NEW c \in Keys, KeyPress(c)
      PROVE  TypeOK'
  <2>1. keyboard_buffer' \in Buffer
    BY <1>1, <1>5, BufferType, KeyAssumption DEF KeyPress, OthersTypeOK
  <2>2. queue[getKey_blocked] # <<>> /\ wake_first =>
          task' \in [Task -> task_struct] /\ queue' \in [Queue -> Seq(Task)]
    <3> SUFFICES ASSUME queue[getKey_blocked] # <<>>, wake_first
                 PROVE  task' \in [Task -> task_struct] /\ queue' \in [Queue -> Seq(Task)]
      OBVIOUS
    <3> DEFINE t == Head(queue[getKey_blocked])
               Q == IF task[t].state # "ST_RUN"
                      THEN list_del_first(queue, getKey_blocked) ELSE queue
    <3>1. t \in Task /\ Q \in [Queue -> Seq(Task)]
      BY <1>1, QueueNames, DelFirstType DEF SchedTypeOK
    <3>2. queue' = list_add_tail(Q, t, readyqueue) /\ task' = [task EXCEPT ![t].state = "ST_READY"]
      BY DEF wake_first
    <3> HIDE DEF t, Q
    <3> QED
      BY <1>1, <3>1, <3>2, QueueNames, AddTailType, SetField DEF SchedTypeOK, state_t
  <2>3. /\ task' \in [Task -> task_struct] /\ queue' \in [Queue -> Seq(Task)]
        /\ pending_to_service' \in Int
    BY <1>1, <1>5, <2>2 DEF KeyPress, SchedTypeOK, OthersTypeOK
  <2> QED
    BY <1>1, <1>5, <2>1, <2>3
    DEF KeyPress, semVars, KeyNext, TypeOK, SchedTypeOK, OthersTypeOK
<1>6. ASSUME KeyRelease
      PROVE  TypeOK'
  BY <1>1, <1>6
  DEF KeyRelease, schedVars, semVars, KeyNext, TypeOK, SchedTypeOK, OthersTypeOK
<1>7. ASSUME ClockTick
      PROVE  TypeOK'
  <2>1. SchedTypeOK'
    BY <1>1, <1>7, CountDownType, ScheduleType DEF ClockTick
  <2> QED
    BY <1>1, <1>7, <2>1
    DEF ClockTick, keyVars, semVars, KeyNext, TypeOK, SchedTypeOK, OthersTypeOK
<1> QED
  BY <1>2, <1>3, <1>4, <1>5, <1>6, <1>7 DEF KeyNext

\* The semaphore calls.
LEMMA SemNextType ==
  ASSUME TypeOK, SemNext PROVE TypeOK'
<1>1. SchedTypeOK /\ OthersTypeOK
  BY TypeParts
<1>2. ASSUME NEW v \in SemValues, sem_create(v)
      PROVE  TypeOK'
  <2>1. Head(freesem) \in Semafor /\ Tail(freesem) \in Seq(Semafor)
    BY <1>1, <1>2, HeadTailProperties DEF OthersTypeOK, sem_create
  <2>2. task[current].PID \in Int /\ v \in Int
    BY <1>1, SemAssumption DEF SchedTypeOK, task_struct
  <2>3. sem' \in [Semafor -> [count : Int, TID : Int, value : Int]]
    BY <1>1, <1>2, <2>1, <2>2 DEF OthersTypeOK, sem_create
  <2>4. queue' \in [Queue -> Seq(Task)]
    BY <1>1, <1>2, <2>1, QueueNames, EmptySeq DEF SchedTypeOK, sem_create
  <2> QED
    BY <1>1, <1>2, <2>1, <2>3, <2>4
    DEF sem_create, keyVars, SemNext, TypeOK, SchedTypeOK, OthersTypeOK
<1>3. ASSUME NEW s \in Created
      PROVE  /\ s \in Semafor /\ s \in Queue
             /\ \A n \in Int : [sem EXCEPT ![s].count = n]
                                \in [Semafor -> [count : Int, TID : Int, value : Int]]
             /\ sem[s].count \in Int
  BY <1>1, QueueNames DEF Created, OthersTypeOK
<1>4. ASSUME NEW s \in Created, semWait(s)
      PROVE  TypeOK'
  <2>1. sem' \in [Semafor -> [count : Int, TID : Int, value : Int]]
    BY <1>3, <1>4 DEF semWait
  <2>2. list_add_tail(queue, current, s) \in [Queue -> Seq(Task)]
    BY <1>1, <1>3, AddTailType DEF SchedTypeOK
  <2>3. sched_next_rr(task, list_add_tail(queue, current, s), "semWait") => SchedTypeOK'
    BY <1>1, <2>2, SchedNextType DEF SchedTypeOK, Frame
  <2>4. SchedTypeOK'
    BY <1>1, <1>4, <2>3 DEF semWait, SchedTypeOK, schedVars
  <2> QED
    BY <1>1, <1>4, <2>1, <2>4
    DEF semWait, keyVars, SemNext, TypeOK, SchedTypeOK, OthersTypeOK
<1>5. ASSUME NEW s \in Created, semSignal(s)
      PROVE  TypeOK'
  <2>1. sem' \in [Semafor -> [count : Int, TID : Int, value : Int]]
    <3>1. sem' = [sem EXCEPT ![s].count = sem[s].count + 1] /\ sem[s].count + 1 \in Int
      BY <1>3, <1>5 DEF semSignal
    <3> QED
      BY <1>3, <3>1, Zenon
  <2>2. queue[s] # <<>> =>
          list_add_tail(list_del_first(queue, s), Head(queue[s]), readyqueue)
            \in [Queue -> Seq(Task)]
    BY <1>1, <1>3, DelFirstType, AddTailType, QueueNames DEF SchedTypeOK
  <2>3. SchedTypeOK'
    BY <1>1, <1>5, <2>2 DEF semSignal, SchedTypeOK, schedVars
  <2> QED
    BY <1>1, <1>5, <2>1, <2>3
    DEF semSignal, keyVars, SemNext, TypeOK, SchedTypeOK, OthersTypeOK
<1> QED
  BY <1>2, <1>4, <1>5 DEF SemNext

LEMMA NextType == TypeOK /\ [Next]_vars => TypeOK'
<1> SUFFICES ASSUME TypeOK, [Next]_vars PROVE TypeOK'
  OBVIOUS
<1>1. CASE UNCHANGED vars
  BY <1>1 DEF vars, schedVars, keyVars, semVars, TypeOK
<1> QED
  BY <1>1, SchedNextActionType, ProcessNextType, KeyNextType, SemNextType DEF Next

(* Whatever system calls the tasks make and whenever the clock and keyboard
   interrupt, every field, list and counter keeps its type: in particular
   the quantum never runs out of its range and no list holds a stray
   pointer, for any number of tasks, semaphores and buffer slots. *)
THEOREM KernelTypes == Spec => []TypeOK
<1> QED
  BY NextType, InitType, PTL DEF Spec
-----------------------------------------------------------------------------

\* Task t is linked to list q of the queues Q.
On(Q, t, q) == \E i \in DOMAIN Q[q] : Q[q][i] = t

\* No task is linked twice.
Once(Q) ==
  \A p, q \in Queue : \A i \in DOMAIN Q[p], j \in DOMAIN Q[q] :
    Q[p][i] = Q[q][j] => p = q /\ i = j

Unlinked(Q, t) == \A q \in Queue : ~ On(Q, t, q)

\* What list_add_tail of an unlinked task does to the lists.
LEMMA AddTailLinks ==
  ASSUME NEW Q \in [Queue -> Seq(Task)], NEW t \in Task, NEW q \in Queue
  PROVE  /\ \A u \in Task, p \in Queue :
              On(list_add_tail(Q, t, q), u, p) <=> On(Q, u, p) \/ (u = t /\ p = q)
         /\ Once(Q) /\ Unlinked(Q, t) => Once(list_add_tail(Q, t, q))
<1> DEFINE R == list_add_tail(Q, t, q)
           n == Len(Q[q])
<1>1. /\ n \in Nat /\ DOMAIN Q[q] = 1 .. n /\ DOMAIN R[q] = 1 .. n + 1
      /\ \A i \in 1 .. n : R[q][i] = Q[q][i]
      /\ R[q][n + 1] = t
  BY AppendProperties, LenProperties DEF list_add_tail
<1>2. \A p \in Queue \ {q} : R[p] = Q[p]
  BY DEF list_add_tail
<1> HIDE DEF R, n
<1>3. ASSUME NEW u \in Task, NEW p \in Queue
      PROVE  On(R, u, p) <=> On(Q, u, p) \/ (u = t /\ p = q)
  <2>1. CASE p = q
    <3>1. \A i \in 1 .. n + 1 : i \in 1 .. n \/ i = n + 1
      BY <1>1
    <3>2. \A i \in 1 .. n : i \in 1 .. n + 1
      BY <1>1
    <3>3. n + 1 \in 1 .. n + 1
      BY <1>1
    <3> QED
      BY <1>1, <2>1, <3>1, <3>2, <3>3, Zenon DEF On
  <2>2. CASE p # q
    BY <1>2, <2>2 DEF On
  <2> QED
    BY <2>1, <2>2
<1>4. ASSUME Once(Q), Unlinked(Q, t) PROVE Once(R)
  <2> SUFFICES ASSUME NEW p \in Queue, NEW r \in Queue,
                      NEW i \in DOMAIN R[p], NEW j \in DOMAIN R[r], R[p][i] = R[r][j]
               PROVE  p = r /\ i = j
    BY DEF Once
  <2>1. \A x \in Queue : \A k \in DOMAIN R[x] :
          \/ k \in DOMAIN Q[x] /\ R[x][k] = Q[x][k] /\ R[x][k] # t
          \/ x = q /\ k = n + 1 /\ R[x][k] = t
    BY <1>1, <1>2, <1>4 DEF Unlinked, On
  <2> QED
    BY <1>4, <2>1 DEF Once
<1> QED
  BY <1>3, <1>4 DEF R

\* What list_del of the first task does to the lists.
LEMMA DelFirstLinks ==
  ASSUME NEW Q \in [Queue -> Seq(Task)], NEW q \in Queue, Q[q] # <<>>, Once(Q)
  PROVE  /\ On(Q, Head(Q[q]), q)
         /\ \A u \in Task, p \in Queue :
              On(list_del_first(Q, q), u, p) <=> On(Q, u, p) /\ u # Head(Q[q])
         /\ Once(list_del_first(Q, q))
<1> DEFINE R == list_del_first(Q, q)
           n == Len(Q[q])
           h == Head(Q[q])
<1>1. /\ n \in Nat /\ n >= 1 /\ DOMAIN Q[q] = 1 .. n /\ DOMAIN R[q] = 1 .. n - 1
      /\ \A i \in 1 .. n - 1 : R[q][i] = Q[q][i + 1]
      /\ Q[q][1] = h
  BY HeadTailProperties, LenProperties, EmptySeq DEF list_del_first
<1>2. \A p \in Queue \ {q} : R[p] = Q[p]
  BY DEF list_del_first
<1> HIDE DEF R, n, h
<1>3. On(Q, h, q) /\ \A p \in Queue : \A i \in DOMAIN Q[p] : Q[p][i] = h => p = q /\ i = 1
  BY <1>1, SMTT(30) DEF On, Once
<1>4. ASSUME NEW u \in Task, NEW p \in Queue
      PROVE  On(R, u, p) <=> On(Q, u, p) /\ u # h
  <2>1. CASE p = q
    <3>1. ASSUME On(R, u, p) PROVE On(Q, u, p) /\ u # h
      <4>1. PICK i \in 1 .. n - 1 : Q[q][i + 1] = u
        BY <1>1, <2>1, <3>1 DEF On
      <4>2. i + 1 \in DOMAIN Q[q] /\ i + 1 # 1
        BY <1>1
      <4> QED
        BY <1>3, <2>1, <4>1, <4>2 DEF On
    <3>2. ASSUME On(Q, u, p), u # h PROVE On(R, u, p)
      <4>1. PICK i \in 1 .. n : Q[q][i] = u
        BY <1>1, <2>1, <3>2 DEF On
      <4>2. i - 1 \in 1 .. n - 1 /\ (i - 1) + 1 = i
        BY <1>1, <3>2, <4>1
      <4> QED
        BY <1>1, <2>1, <4>1, <4>2 DEF On
    <3> QED
      BY <3>1, <3>2
  <2>2. CASE p # q
    BY <1>2, <1>3, <2>2 DEF On
  <2> QED
    BY <2>1, <2>2
<1>5. Once(R)
  <2> SUFFICES ASSUME NEW p \in Queue, NEW r \in Queue,
                      NEW i \in DOMAIN R[p], NEW j \in DOMAIN R[r], R[p][i] = R[r][j]
               PROVE  p = r /\ i = j
    BY DEF Once
  <2>1. \A x \in Queue : \A k \in DOMAIN R[x] :
          \/ x # q /\ k \in DOMAIN Q[x] /\ R[x][k] = Q[x][k]
          \/ x = q /\ k \in Int /\ k + 1 \in DOMAIN Q[x] /\ R[x][k] = Q[x][k + 1]
    <3>1. \A k \in 1 .. n - 1 : k \in Int /\ k + 1 \in 1 .. n
      BY <1>1
    <3> QED
      BY <1>1, <1>2, <3>1, Zenon
  <2> DEFINE k == IF p = q THEN i + 1 ELSE i
             l == IF r = q THEN j + 1 ELSE j
  <2>2. k \in DOMAIN Q[p] /\ l \in DOMAIN Q[r] /\ Q[p][k] = Q[r][l]
    BY <2>1
  <2>3. ASSUME NEW x \in DOMAIN Q[p], NEW y \in DOMAIN Q[r], Q[p][x] = Q[r][y]
        PROVE  p = r /\ x = y
    BY <2>3 DEF Once
  <2>4. p = r /\ k = l
    <3> HIDE DEF k, l
    <3> QED
      BY <2>2, <2>3, Zenon
  <2> QED
    BY <2>1, <2>4
<1> QED
  BY <1>3, <1>4, <1>5 DEF R, h

\* The first task of list p moved to the tail of list q.
LEMMA MoveLinks ==
  ASSUME NEW Q \in [Queue -> Seq(Task)], NEW p \in Queue, NEW q \in Queue,
         Q[p] # <<>>, Once(Q),
         NEW R, R = list_add_tail(list_del_first(Q, p), Head(Q[p]), q)
  PROVE  /\ Head(Q[p]) \in Task /\ On(Q, Head(Q[p]), p)
         /\ \A u \in Task, r \in Queue :
              On(R, u, r) <=> IF u = Head(Q[p]) THEN r = q ELSE On(Q, u, r)
         /\ Once(R)
<1> DEFINE D == list_del_first(Q, p)
           h == Head(Q[p])
<1>1. D \in [Queue -> Seq(Task)] /\ h \in Task
  BY DelFirstType
<1>2. /\ On(Q, h, p) /\ Once(D)
      /\ \A u \in Task, r \in Queue : On(D, u, r) <=> On(Q, u, r) /\ u # h
  BY DelFirstLinks
<1>3. R = list_add_tail(D, h, q)
  OBVIOUS
<1> HIDE DEF D, h
<1>4. Unlinked(D, h)
  BY <1>1, <1>2 DEF Unlinked
<1>5. /\ \A u \in Task, r \in Queue : On(R, u, r) <=> On(D, u, r) \/ (u = h /\ r = q)
      /\ Once(R)
  <2>1. /\ \A u \in Task, r \in Queue :
             On(list_add_tail(D, h, q), u, r) <=> On(D, u, r) \/ (u = h /\ r = q)
        /\ Once(list_add_tail(D, h, q))
    BY <1>1, <1>2, <1>4, AddTailLinks
  <2> QED
    BY <1>3, <2>1, Zenon
<1>6. \A u \in Task, r \in Queue : On(R, u, r) <=> IF u = h THEN r = q ELSE On(Q, u, r)
  BY <1>2, <1>5
<1> QED
  BY <1>1, <1>2, <1>5, <1>6 DEF h

\* idle_task is linked to no list but readyqueue.
IdleReady(Q) == \A q \in Queue \ {readyqueue} : ~ On(Q, idle_task, q)

\* sched_next_rr unlinks the task it switches to, and no other.
LEMMA SwitchLinks ==
  ASSUME NEW T, NEW Q \in [Queue -> Seq(Task)], NEW path, sched_next_rr(T, Q, path),
         Once(Q), IdleReady(Q)
  PROVE  /\ current' \in Task /\ Once(queue')
         /\ current' = idle_task \/ On(Q, current', readyqueue)
         /\ \A u \in Task, q \in Queue : On(queue', u, q) <=> On(Q, u, q) /\ u # current'
<1>1. CASE Q[readyqueue] = <<>>
  <2>1. queue' = Q /\ current' = idle_task
    BY <1>1 DEF sched_next_rr, task_switch, switch_stack
  <2>2. ~ On(Q, idle_task, readyqueue)
    BY <1>1 DEF On
  <2> QED
    BY <2>1, <2>2, QueueNames DEF IdleReady
<1>2. CASE Q[readyqueue] # <<>>
  <2>1. queue' = list_del_first(Q, readyqueue) /\ current' = Head(Q[readyqueue])
    BY <1>2 DEF sched_next_rr, task_switch, switch_stack
  <2>2. readyqueue \in Queue
    BY QueueNames
  <2> QED
    BY <1>2, <2>1, <2>2, DelFirstLinks, DelFirstType
<1> QED
  BY <1>1, <1>2

(* The fields of a task_struct that a switch leaves alone: all but state and
   register_esp. *)
SameIdentity(U, T) ==
  \A t \in Task : /\ U[t].PID = T[t].PID
                  /\ U[t].master_thread = T[t].master_thread
                  /\ U[t].master_thread_address = T[t].master_thread_address
                  /\ U[t].dir_pages_baseAddr = T[t].dir_pages_baseAddr
                  /\ U[t].key_timeout = T[t].key_timeout
                  /\ U[t].has_threads = T[t].has_threads

\* What sched_next_rr writes to the task table.
LEMMA SwitchFields ==
  ASSUME NEW T \in [Task -> task_struct], NEW Q \in [Queue -> Seq(Task)], NEW path,
         sched_next_rr(T, Q, path), current \in Task
  PROVE  /\ SameIdentity(task', T)
         /\ \A t \in Task :
              /\ task'[t].state = IF t = current' THEN "ST_RUN" ELSE T[t].state
              /\ task'[t].register_esp = IF t = current THEN path ELSE T[t].register_esp
<1>1. task' = [[T EXCEPT ![current'].state = "ST_RUN"] EXCEPT ![current].register_esp = path]
  BY DEF sched_next_rr, task_switch, switch_stack
<1>2. \A t \in Task : T[t] \in task_struct
  OBVIOUS
<1> QED
  BY <1>1, <1>2 DEF task_struct, SameIdentity

\* The task that leaves the CPU for list q is linked there, unless it goes on.
LEMMA LeaveLinks ==
  ASSUME NEW T, NEW Q \in [Queue -> Seq(Task)], NEW q \in Queue, NEW path,
         leave_cpu(T, Q, q, path), current \in Task,
         Once(Q), Unlinked(Q, current), IdleReady(Q),
         current = idle_task => q = readyqueue
  PROVE  /\ current' \in Task /\ Once(queue')
         /\ \/ current' = idle_task
            \/ On(Q, current', readyqueue)
            \/ current' = current /\ q = readyqueue
         /\ \A u \in Task, p \in Queue :
              On(queue', u, p) <=> u # current' /\ (On(Q, u, p) \/ (u = current /\ p = q))
<1> DEFINE R == list_add_tail(Q, current, q)
           U == [T EXCEPT ![current].state = IF q = readyqueue THEN "ST_READY" ELSE "ST_BLOCKED"]
<1>1. R \in [Queue -> Seq(Task)]
  BY AddTailType
<1>2. /\ Once(R)
      /\ \A u \in Task, p \in Queue : On(R, u, p) <=> On(Q, u, p) \/ (u = current /\ p = q)
  BY AddTailLinks
<1>3. sched_next_rr(U, R, path)
  BY DEF leave_cpu
<1> HIDE DEF R, U
<1>4. IdleReady(R)
  BY <1>2, QueueNames DEF IdleReady
<1>5. /\ current' \in Task /\ Once(queue')
      /\ current' = idle_task \/ On(R, current', readyqueue)
      /\ \A u \in Task, p \in Queue : On(queue', u, p) <=> On(R, u, p) /\ u # current'
  BY <1>1, <1>2, <1>3, <1>4, SwitchLinks
<1> QED
  BY <1>2, <1>5, QueueNames

\* What leave_cpu writes to the task table.
LEMMA LeaveFields ==
  ASSUME NEW T \in [Task -> task_struct], NEW Q \in [Queue -> Seq(Task)],
         NEW q \in Queue, NEW path, leave_cpu(T, Q, q, path), current \in Task
  PROVE  /\ SameIdentity(task', T)
         /\ \A t \in Task :
              /\ task'[t].state = IF t = current' THEN "ST_RUN"
                                  ELSE IF t # current THEN T[t].state
                                  ELSE IF q = readyqueue THEN "ST_READY" ELSE "ST_BLOCKED"
              /\ task'[t].register_esp = IF t = current THEN path ELSE T[t].register_esp
<1> DEFINE R == list_add_tail(Q, current, q)
           st == IF q = readyqueue THEN "ST_READY" ELSE "ST_BLOCKED"
           U == [T EXCEPT ![current].state = st]
<1>1. R \in [Queue -> Seq(Task)] /\ U \in [Task -> task_struct]
  BY AddTailType, SetField DEF state_t
<1>2. sched_next_rr(U, R, path)
  BY DEF leave_cpu
<1>3. /\ SameIdentity(U, T)
      /\ \A t \in Task :
           /\ U[t].state = IF t # current THEN T[t].state ELSE st
           /\ U[t].register_esp = T[t].register_esp
  BY DEF task_struct, SameIdentity
<1> HIDE DEF R, U, st
<1>4. /\ SameIdentity(task', U)
      /\ \A t \in Task :
           /\ task'[t].state = IF t = current' THEN "ST_RUN" ELSE U[t].state
           /\ task'[t].register_esp = IF t = current THEN path ELSE U[t].register_esp
  BY <1>1, <1>2, SwitchFields
<1> QED
  BY <1>3, <1>4 DEF st, SameIdentity

\* A task whose timeout ends with this tick.
Due(u) == \E i \in Expired : Waiters[i] = u

\* An enumeration in order has no repetitions and leaves nothing out.
LEMMA InOrderInjective ==
  ASSUME Waiters \in Seq(Task), NEW I \in {Expired, Staying}, NEW f \in InOrder(I)
  PROVE  \E n \in Nat : /\ DOMAIN f = 1 .. n
                        /\ \A i \in 1 .. n : f[i] \in I
                        /\ \A i, j \in 1 .. n : f[i] = f[j] => i = j
                        /\ \A p \in I : \E i \in 1 .. n : f[i] = p
<1>1. PICK n \in 0 .. Len(Waiters) : f \in [1 .. n -> I]
  BY DEF InOrder
<1>2. n \in Nat /\ DOMAIN f = 1 .. n /\ \A i \in 1 .. n : f[i] \in I
  BY <1>1
<1>3. \A i \in 1 .. n : f[i] \in Int
  <2>1. I \subseteq DOMAIN Waiters
    BY DEF Expired, Counting, Staying
  <2> QED
    BY <1>2, <2>1
<1>4. ASSUME NEW i \in 1 .. n, NEW j \in 1 .. n, f[i] = f[j] PROVE i = j
  <2>1. /\ i < j => f[i] < f[j]
        /\ j < i => f[j] < f[i]
    BY <1>2 DEF InOrder
  <2> QED
    BY <1>3, <1>4, <2>1
<1>5. \A p \in I : \E i \in 1 .. n : f[i] = p
  BY <1>2 DEF InOrder
<1> QED
  BY <1>2, <1>4, <1>5

(* key_timout_system moves the tasks that are due to readyqueue and no others.
   Every waiter is in a state for which list_del is called. *)
LEMMA ClockLinks ==
  ASSUME SchedTypeOK, Once(queue),
         \A i \in DOMAIN Waiters : task[Waiters[i]].state # "ST_RUN",
         NEW f \in InOrder(Expired), NEW g \in InOrder(Staying),
         NEW W, W = wake_expired(f, g)
  PROVE  /\ Once(W)
         /\ \A u \in Task, q \in Queue :
              On(W, u, q) <=> IF Due(u) THEN q = readyqueue ELSE On(queue, u, q)
<1> DEFINE R == queue[readyqueue]
           m == Len(R)
<1>1. /\ readyqueue \in Queue /\ getKey_blocked \in Queue /\ readyqueue # getKey_blocked
      /\ Waiters \in Seq(Task) /\ R \in Seq(Task) /\ m \in Nat /\ DOMAIN R = 1 .. m
  BY QueueNames, LenProperties DEF Waiters, SchedTypeOK, readyqueue, getKey_blocked
<1>2. /\ Expired \subseteq DOMAIN Waiters /\ Staying \subseteq DOMAIN Waiters
      /\ Staying = DOMAIN Waiters \ Expired
  BY DEF Expired, Counting, Staying
<1>3. PICK n \in Nat : /\ DOMAIN f = 1 .. n
                       /\ \A i \in 1 .. n : f[i] \in Expired
                       /\ \A i, j \in 1 .. n : f[i] = f[j] => i = j
                       /\ \A p \in Expired : \E i \in 1 .. n : f[i] = p
  BY <1>1, InOrderInjective
<1>4. PICK k \in Nat : /\ DOMAIN g = 1 .. k
                       /\ \A i \in 1 .. k : g[i] \in Staying
                       /\ \A i, j \in 1 .. k : g[i] = g[j] => i = j
                       /\ \A p \in Staying : \E i \in 1 .. k : g[i] = p
  BY <1>1, InOrderInjective
<1> DEFINE F == [i \in DOMAIN f |-> Waiters[f[i]]]
           G == [i \in DOMAIN g |-> Waiters[g[i]]]
<1>5. F \in Seq(Task) /\ Len(F) = n /\ \A i \in 1 .. n : F[i] = Waiters[f[i]]
  BY <1>1, <1>2, <1>3
<1>6. /\ W[readyqueue] = R \o F /\ W[getKey_blocked] = G
      /\ \A q \in Queue \ {readyqueue, getKey_blocked} : W[q] = queue[q]
  BY <1>1 DEF wake_expired, SchedTypeOK
<1>7. /\ DOMAIN W[readyqueue] = 1 .. m + n
      /\ \A i \in 1 .. m : W[readyqueue][i] = R[i]
      /\ \A i \in 1 .. n : m + i \in 1 .. m + n /\ W[readyqueue][m + i] = Waiters[f[i]]
      /\ \A i \in 1 .. m + n : i \in 1 .. m \/ (i - m \in 1 .. n /\ i = m + (i - m))
  <2>1. DOMAIN (R \o F) = 1 .. m + n /\ \A i \in 1 .. m + n :
           (R \o F)[i] = IF i <= m THEN R[i] ELSE F[i - m]
    BY <1>1, <1>5, ConcatProperties, LenProperties
  <2> HIDE DEF F, m, R
  <2>2. \A i \in 1 .. m + n : i \in 1 .. m \/ (i - m \in 1 .. n /\ i = m + (i - m))
    BY <1>1, <1>3
  <2>3. \A i \in 1 .. m : i \in 1 .. m + n /\ i <= m
    BY <1>1, <1>3
  <2>4. \A i \in 1 .. n : m + i \in 1 .. m + n /\ ~(m + i <= m) /\ (m + i) - m = i
    BY <1>1, <1>3
  <2>5. \A i \in 1 .. n : W[readyqueue][m + i] = Waiters[f[i]]
    BY <1>5, <1>6, <2>1, <2>4
  <2> QED
    BY <1>6, <2>1, <2>2, <2>3, <2>4, <2>5
<1>8. /\ DOMAIN W[getKey_blocked] = 1 .. k
      /\ \A i \in 1 .. k : W[getKey_blocked][i] = Waiters[g[i]]
  BY <1>4, <1>6
<1>9. Waiters = queue[getKey_blocked] /\ R = queue[readyqueue]
  BY DEF Waiters
<1> HIDE DEF R, m, F, G
<1>10. ASSUME NEW u \in Task, NEW q \in Queue
       PROVE  On(W, u, q) <=> IF Due(u) THEN q = readyqueue ELSE On(queue, u, q)
  <2>1. Due(u) => \A p \in Queue : On(queue, u, p) <=> p = getKey_blocked
    BY <1>1, <1>2, <1>9 DEF Due, On, Once
  <2>2. CASE q = readyqueue
    <3>1. On(W, u, readyqueue) <=> On(queue, u, readyqueue) \/ \E i \in 1 .. n : Waiters[f[i]] = u
      <4>1. ASSUME On(W, u, readyqueue)
            PROVE  On(queue, u, readyqueue) \/ \E i \in 1 .. n : Waiters[f[i]] = u
        <5>1. PICK i \in 1 .. m + n : W[readyqueue][i] = u
          BY <1>7, <4>1 DEF On
        <5>2. CASE i \in 1 .. m
          BY <1>1, <1>7, <1>9, <5>1, <5>2 DEF On
        <5>3. CASE i - m \in 1 .. n /\ i = m + (i - m)
          <6>1. W[readyqueue][m + (i - m)] = Waiters[f[i - m]]
            BY <1>7, <5>3
          <6> QED
            BY <5>1, <5>3, <6>1
        <5> QED
          BY <1>7, <5>2, <5>3
      <4>2. ASSUME On(queue, u, readyqueue) PROVE On(W, u, readyqueue)
        <5>1. PICK i \in 1 .. m : R[i] = u
          BY <1>1, <1>9, <4>2 DEF On
        <5>2. i \in 1 .. m + n
          BY <1>1, <1>3
        <5> QED
          BY <1>7, <5>1, <5>2 DEF On
      <4>3. ASSUME NEW i \in 1 .. n, Waiters[f[i]] = u PROVE On(W, u, readyqueue)
        BY <1>7, <4>3 DEF On
      <4> QED
        BY <4>1, <4>2, <4>3
    <3>2. (\E i \in 1 .. n : Waiters[f[i]] = u) <=> Due(u)
      BY <1>3 DEF Due
    <3> QED
      BY <2>2, <3>1, <3>2
  <2>3. CASE q = getKey_blocked
    <3>1. On(W, u, q) <=> \E i \in Staying : Waiters[i] = u
      BY <1>4, <1>8, <2>3 DEF On
    <3>2. (\E i \in Staying : Waiters[i] = u) <=> On(queue, u, q) /\ ~ Due(u)
      <4>1. \A i, j \in DOMAIN Waiters : Waiters[i] = Waiters[j] => i = j
        BY <1>1, <1>9 DEF Once
      <4> QED
        BY <1>2, <1>9, <2>3, <4>1 DEF On, Due
    <3> QED
      BY <1>1, <2>3, <3>1, <3>2
  <2>4. CASE q \notin {readyqueue, getKey_blocked}
    BY <1>6, <2>1, <2>4 DEF On
  <2> QED
    BY <2>2, <2>3, <2>4
<1>11. Once(W)
  <2> DEFINE Origin(x, i, y, j) ==
        \/ x = readyqueue /\ y = x /\ i \in 1 .. m /\ j = i
        \/ x = readyqueue /\ y = getKey_blocked /\ i - m \in 1 .. n /\ j = f[i - m]
        \/ x = getKey_blocked /\ y = x /\ i \in 1 .. k /\ j = g[i]
        \/ x \notin {readyqueue, getKey_blocked} /\ y = x /\ j = i
  <2>1. ASSUME NEW x \in Queue, NEW i \in DOMAIN W[x]
        PROVE  \E y \in Queue : \E j \in DOMAIN queue[y] : W[x][i] = queue[y][j] /\ Origin(x, i, y, j)
    <3>1. CASE x = readyqueue /\ i \in 1 .. m
      BY <1>1, <1>7, <1>9, <3>1
    <3>2. CASE x = readyqueue /\ i - m \in 1 .. n /\ i = m + (i - m)
      <4>1. f[i - m] \in DOMAIN queue[getKey_blocked] /\ W[x][i] = queue[getKey_blocked][f[i - m]]
        BY <1>2, <1>3, <1>7, <1>9, <3>2
      <4> QED
        BY <1>1, <3>2, <4>1
    <3>3. CASE x = getKey_blocked
      <4>1. i \in 1 .. k /\ g[i] \in DOMAIN queue[getKey_blocked]
            /\ W[x][i] = queue[getKey_blocked][g[i]]
        BY <1>2, <1>4, <1>8, <1>9, <3>3
      <4> QED
        BY <1>1, <3>3, <4>1
    <3>4. CASE x \notin {readyqueue, getKey_blocked}
      BY <1>6, <3>4
    <3> QED
      BY <1>7, <3>1, <3>2, <3>3, <3>4
  <2>2. ASSUME NEW x \in Queue, NEW i \in DOMAIN W[x], NEW z \in Queue, NEW l \in DOMAIN W[z],
               NEW y \in Queue, NEW j \in DOMAIN queue[y], Origin(x, i, y, j), Origin(z, l, y, j)
        PROVE  x = z /\ i = l
    <3>1. CASE y = getKey_blocked
      <4>1. ASSUME x = readyqueue, z = readyqueue PROVE i = l
        <5>1. /\ i - m \in 1 .. n /\ l - m \in 1 .. n /\ f[i - m] = f[l - m]
          BY <1>1, <2>2, <3>1, <4>1
        <5>2. i - m = l - m
          BY <1>3, <5>1
        <5>3. i \in Int /\ l \in Int
          BY <1>7, <4>1, <1>1, <1>3
        <5> QED
          BY <1>1, <5>2, <5>3
      <4>2. ASSUME x = getKey_blocked, z = getKey_blocked PROVE i = l
        BY <1>1, <1>4, <2>2, <3>1, <4>2
      <4>3. x = readyqueue => j \in Expired
        BY <1>1, <1>3, <2>2, <3>1
      <4>4. z = readyqueue => j \in Expired
        BY <1>1, <1>3, <2>2, <3>1
      <4>5. x = getKey_blocked => j \in Staying
        BY <1>1, <1>4, <2>2, <3>1
      <4>6. z = getKey_blocked => j \in Staying
        BY <1>1, <1>4, <2>2, <3>1
      <4>7. x \in {readyqueue, getKey_blocked} /\ z \in {readyqueue, getKey_blocked}
        BY <1>1, <2>2, <3>1
      <4> QED
        BY <1>2, <4>1, <4>2, <4>3, <4>4, <4>5, <4>6, <4>7
    <3>2. CASE y # getKey_blocked
      BY <2>2, <3>2
    <3> QED
      BY <3>1, <3>2
  <2> HIDE DEF Origin
  <2> SUFFICES ASSUME NEW x \in Queue, NEW z \in Queue,
                      NEW i \in DOMAIN W[x], NEW l \in DOMAIN W[z], W[x][i] = W[z][l]
               PROVE  x = z /\ i = l
    BY DEF Once
  <2>3. PICK y \in Queue : \E j \in DOMAIN queue[y] : W[x][i] = queue[y][j] /\ Origin(x, i, y, j)
    BY <2>1
  <2>4. PICK j \in DOMAIN queue[y] : W[x][i] = queue[y][j] /\ Origin(x, i, y, j)
    BY <2>3
  <2>5. PICK v \in Queue : \E h \in DOMAIN queue[v] : W[z][l] = queue[v][h] /\ Origin(z, l, v, h)
    BY <2>1
  <2>6. PICK h \in DOMAIN queue[v] : W[z][l] = queue[v][h] /\ Origin(z, l, v, h)
    BY <2>5
  <2>7. queue[y][j] = queue[v][h]
    BY <2>4, <2>6, Zenon
  <2>8. y = v /\ j = h
    <3>1. \A p, q \in Queue : \A a \in DOMAIN queue[p], b \in DOMAIN queue[q] :
            queue[p][a] = queue[q][b] => p = q /\ a = b
      BY DEF Once
    <3> QED
      BY <2>7, <3>1
  <2> QED
    BY <2>2, <2>4, <2>6, <2>8, Zenon
<1> QED
  BY <1>10, <1>11
-----------------------------------------------------------------------------
(* OneList and NoTaskLost for the queues Q when c runs: every task but c, and
   perhaps idle, is linked exactly once. *)
Links(Q, c) ==
  /\ Once(Q) /\ Unlinked(Q, c) /\ IdleReady(Q)
  /\ \A t \in Task \ {idle_task, c} : \E q \in Queue : On(Q, t, q)

\* StateFitsQueue for the table T and the queues Q when c runs.
States(T, Q, c) ==
  /\ T[c].state = "ST_RUN"
  /\ \A t \in Task :
       /\ On(Q, t, blocked) \/ On(Q, t, getKey_blocked) => T[t].state = "ST_BLOCKED"
       /\ On(Q, t, readyqueue) =>
            \/ T[t].state = "ST_READY"
            \/ T[t].state = "ST_RUN" /\ T[t].register_esp = "semWait"
       /\ \A s \in Semafor : On(Q, t, s) =>
            T[t].state = "ST_RUN" /\ T[t].register_esp = "semWait"

LEMMA LinksIsOneList == Links(queue, current) <=> OneList /\ NoTaskLost
  BY DEF Links, Once, Unlinked, IdleReady, On, OneList, NoTaskLost, OnList

LEMMA StatesIsFit == States(task, queue, current) <=> StateFitsQueue
  BY DEF States, On, StateFitsQueue, OnList

\* The list heads are distinct.
LEMMA QueuesApart ==
  /\ readyqueue # freequeue /\ readyqueue # blocked /\ readyqueue # getKey_blocked
  /\ freequeue # blocked /\ freequeue # getKey_blocked /\ blocked # getKey_blocked
  /\ {readyqueue, freequeue, blocked, getKey_blocked} \cap Semafor = {}
  BY DEF readyqueue, freequeue, blocked, getKey_blocked, Semafor

\* A task that leaves the CPU through update_process_state_rr.
LEMMA LeaveKeeps ==
  ASSUME NEW T \in [Task -> task_struct], NEW Q \in [Queue -> Seq(Task)],
         NEW q \in {readyqueue, blocked, getKey_blocked}, NEW path,
         leave_cpu(T, Q, q, path), current \in Task,
         Links(Q, current), States(T, Q, current), current = idle_task => q = readyqueue
  PROVE  /\ Links(queue', current') /\ States(task', queue', current')
         /\ current' \in Task
         /\ \A u \in Task, p \in Queue :
              On(queue', u, p) <=> u # current' /\ (On(Q, u, p) \/ (u = current /\ p = q))
<1>1. q \in Queue
  BY QueueNames
<1>2. Once(Q) /\ Unlinked(Q, current) /\ IdleReady(Q)
  BY DEF Links
<1>3. /\ current' \in Task /\ Once(queue')
      /\ \/ current' = idle_task
         \/ On(Q, current', readyqueue)
         \/ current' = current /\ q = readyqueue
      /\ \A u \in Task, p \in Queue :
           On(queue', u, p) <=> u # current' /\ (On(Q, u, p) \/ (u = current /\ p = q))
  BY <1>1, <1>2, LeaveLinks
<1>4. \A t \in Task :
        /\ task'[t].state = IF t = current' THEN "ST_RUN"
                            ELSE IF t # current THEN T[t].state
                            ELSE IF q = readyqueue THEN "ST_READY" ELSE "ST_BLOCKED"
        /\ task'[t].register_esp = IF t = current THEN path ELSE T[t].register_esp
  BY <1>1, LeaveFields
<1>5. Links(queue', current')
  <2>1. Unlinked(queue', current') /\ IdleReady(queue')
    BY <1>2, <1>3, QueueNames DEF Unlinked, IdleReady
  <2>2. \A t \in Task \ {idle_task, current'} : \E p \in Queue : On(queue', t, p)
    BY <1>1, <1>3 DEF Links
  <2> QED
    BY <1>3, <2>1, <2>2 DEF Links
<1>6. States(task', queue', current')
  <2> SUFFICES ASSUME NEW t \in Task
               PROVE /\ On(queue', t, blocked) \/ On(queue', t, getKey_blocked)
                          => task'[t].state = "ST_BLOCKED"
                     /\ On(queue', t, readyqueue) =>
                          \/ task'[t].state = "ST_READY"
                          \/ task'[t].state = "ST_RUN" /\ task'[t].register_esp = "semWait"
                     /\ \A s \in Semafor : On(queue', t, s) =>
                          task'[t].state = "ST_RUN" /\ task'[t].register_esp = "semWait"
    BY <1>3, <1>4 DEF States
  <2>1. CASE t = current
    <3>1. \A p \in Queue : On(queue', t, p) => t # current' /\ p = q
      BY <1>2, <1>3, <2>1 DEF Unlinked
    <3> QED
      BY <1>4, <2>1, <3>1, QueueNames, QueuesApart
  <2>2. CASE t # current
    <3>1. \A p \in Queue : On(queue', t, p) => t # current' /\ On(Q, t, p)
      BY <1>3, <2>2
    <3> QED
      BY <1>4, <2>2, <3>1, QueueNames DEF States
  <2> QED
    BY <2>1, <2>2
<1> QED
  BY <1>3, <1>5, <1>6

(* A task that leaves the CPU without update_process_state_rr: it exits, or
   waits for a semaphore. *)
LEMMA JoinKeeps ==
  ASSUME NEW T \in [Task -> task_struct], queue \in [Queue -> Seq(Task)],
         NEW q \in Semafor \cup {freequeue}, NEW path,
         q \in Semafor => path = "semWait",
         sched_next_rr(T, list_add_tail(queue, current, q), path),
         current \in Task, current # idle_task,
         Links(queue, current), States(T, queue, current)
  PROVE  /\ Links(queue', current') /\ States(task', queue', current')
         /\ current' \in Task /\ current' # current
         /\ \A u \in Task, p \in Queue :
              On(queue', u, p) <=> u # current' /\ (On(queue, u, p) \/ (u = current /\ p = q))
<1> DEFINE R == list_add_tail(queue, current, q)
<1>1. q \in Queue /\ q # readyqueue /\ q # blocked /\ q # getKey_blocked
  BY QueueNames, QueuesApart
<1>2. Once(queue) /\ Unlinked(queue, current) /\ IdleReady(queue)
  BY DEF Links
<1>3. R \in [Queue -> Seq(Task)]
  BY <1>1, AddTailType
<1>4. /\ Once(R)
      /\ \A u \in Task, p \in Queue : On(R, u, p) <=> On(queue, u, p) \/ (u = current /\ p = q)
  BY <1>1, <1>2, AddTailLinks
<1>5. sched_next_rr(T, R, path)
  OBVIOUS
<1> HIDE DEF R
<1>6. IdleReady(R)
  BY <1>2, <1>4, QueueNames DEF IdleReady
<1>7. /\ current' \in Task /\ Once(queue')
      /\ current' = idle_task \/ On(R, current', readyqueue)
      /\ \A u \in Task, p \in Queue : On(queue', u, p) <=> On(R, u, p) /\ u # current'
  BY <1>3, <1>4, <1>5, <1>6, SwitchLinks
<1>8. /\ current' # current
      /\ \A u \in Task, p \in Queue :
           On(queue', u, p) <=> u # current' /\ (On(queue, u, p) \/ (u = current /\ p = q))
  BY <1>1, <1>2, <1>4, <1>7, QueueNames DEF Unlinked
<1>9. \A t \in Task :
        /\ task'[t].state = IF t = current' THEN "ST_RUN" ELSE T[t].state
        /\ task'[t].register_esp = IF t = current THEN path ELSE T[t].register_esp
  BY <1>3, <1>5, SwitchFields
<1>10. Links(queue', current')
  <2>1. Unlinked(queue', current') /\ IdleReady(queue')
    BY <1>2, <1>7, <1>8, QueueNames DEF Unlinked, IdleReady
  <2>2. \A t \in Task \ {idle_task, current'} : \E p \in Queue : On(queue', t, p)
    BY <1>1, <1>8 DEF Links
  <2> QED
    BY <1>7, <2>1, <2>2 DEF Links
<1>11. States(task', queue', current')
  <2> SUFFICES ASSUME NEW t \in Task
               PROVE /\ On(queue', t, blocked) \/ On(queue', t, getKey_blocked)
                          => task'[t].state = "ST_BLOCKED"
                     /\ On(queue', t, readyqueue) =>
                          \/ task'[t].state = "ST_READY"
                          \/ task'[t].state = "ST_RUN" /\ task'[t].register_esp = "semWait"
                     /\ \A s \in Semafor : On(queue', t, s) =>
                          task'[t].state = "ST_RUN" /\ task'[t].register_esp = "semWait"
    BY <1>7, <1>9 DEF States
  <2>1. CASE t = current
    <3>1. \A p \in Queue : On(queue', t, p) => t # current' /\ p = q
      BY <1>2, <1>8, <2>1 DEF Unlinked
    <3> QED
      BY <1>1, <1>9, <2>1, <3>1, QueueNames, QueuesApart DEF States
  <2>2. CASE t # current
    <3>1. \A p \in Queue : On(queue', t, p) => t # current' /\ On(queue, t, p)
      BY <1>8, <2>2
    <3> QED
      BY <1>9, <2>2, <3>1, QueueNames DEF States
  <2> QED
    BY <2>1, <2>2
<1> QED
  BY <1>7, <1>8, <1>10, <1>11

\* The table that key_timout_system leaves.
LEMMA CountDownFields ==
  ASSUME SchedTypeOK
  PROVE  \A t \in Task :
           /\ count_down[t].state = IF Due(t) THEN "ST_READY" ELSE task[t].state
           /\ count_down[t].register_esp = task[t].register_esp
           /\ count_down[t].PID = task[t].PID
           /\ count_down[t].master_thread = task[t].master_thread
           /\ count_down[t].master_thread_address = task[t].master_thread_address
           /\ count_down[t].dir_pages_baseAddr = task[t].dir_pages_baseAddr
           /\ count_down[t].has_threads = task[t].has_threads
<1> SUFFICES ASSUME NEW t \in Task
             PROVE  /\ count_down[t].state = IF Due(t) THEN "ST_READY" ELSE task[t].state
                    /\ count_down[t].register_esp = task[t].register_esp
                    /\ count_down[t].PID = task[t].PID
                    /\ count_down[t].master_thread = task[t].master_thread
                    /\ count_down[t].master_thread_address = task[t].master_thread_address
                    /\ count_down[t].dir_pages_baseAddr = task[t].dir_pages_baseAddr
                    /\ count_down[t].has_threads = task[t].has_threads
  OBVIOUS
<1>1. task[t] \in task_struct
  BY DEF SchedTypeOK
<1> QED
  BY <1>1 DEF count_down, task_struct, Due

\* key_timout_system keeps lists and states in order.
LEMMA CountDownKeeps ==
  ASSUME SchedTypeOK, Links(queue, current), States(task, queue, current),
         NEW f \in InOrder(Expired), NEW g \in InOrder(Staying),
         NEW W, W = wake_expired(f, g)
  PROVE  Links(W, current) /\ States(count_down, W, current)
<1>1. Once(queue) /\ Unlinked(queue, current) /\ IdleReady(queue) /\ current \in Task
  BY DEF Links, SchedTypeOK
<1>2. \A i \in DOMAIN Waiters : /\ Waiters[i] \in Task
                                /\ On(queue, Waiters[i], getKey_blocked)
                                /\ task[Waiters[i]].state # "ST_RUN"
  <2>1. Waiters \in Seq(Task)
    BY QueueNames DEF Waiters, SchedTypeOK
  <2>2. \A i \in DOMAIN Waiters : Waiters[i] \in Task
    BY <2>1
  <2>3. \A i \in DOMAIN Waiters : On(queue, Waiters[i], getKey_blocked)
    BY DEF On, Waiters
  <2> QED
    BY <2>2, <2>3 DEF States
<1>3. /\ Once(W)
      /\ \A u \in Task, q \in Queue :
           On(W, u, q) <=> IF Due(u) THEN q = readyqueue ELSE On(queue, u, q)
  BY <1>1, <1>2, ClockLinks
<1>4. \A u \in Task : Due(u) => On(queue, u, getKey_blocked)
  BY <1>2 DEF Due, Expired, Counting
<1>5. ~ Due(current) /\ ~ Due(idle_task)
  BY <1>1, <1>4, QueueNames, QueuesApart DEF Unlinked, IdleReady
<1>6. Links(W, current)
  <2>1. Unlinked(W, current) /\ IdleReady(W)
    BY <1>1, <1>3, <1>5, QueueNames DEF Unlinked, IdleReady
  <2>2. \A t \in Task \ {idle_task, current} : \E q \in Queue : On(W, t, q)
    BY <1>3, QueueNames DEF Links
  <2> QED
    BY <1>3, <2>1, <2>2 DEF Links
<1>7. States(count_down, W, current)
  <2> DEFINE st(t) == count_down[t].state
             esp(t) == count_down[t].register_esp
  <2>1. \A t \in Task : /\ st(t) = IF Due(t) THEN "ST_READY" ELSE task[t].state
                        /\ esp(t) = task[t].register_esp
    BY CountDownFields
  <2>2. st(current) = "ST_RUN"
    BY <1>1, <1>5, <2>1 DEF States
  <2> HIDE DEF st, esp
  <2>3. ASSUME NEW t \in Task
        PROVE  /\ On(W, t, blocked) \/ On(W, t, getKey_blocked) => st(t) = "ST_BLOCKED"
               /\ On(W, t, readyqueue) =>
                    st(t) = "ST_READY" \/ (st(t) = "ST_RUN" /\ esp(t) = "semWait")
               /\ \A s \in Semafor : On(W, t, s) => st(t) = "ST_RUN" /\ esp(t) = "semWait"
    BY <1>3, <2>1, QueueNames, QueuesApart DEF States
  <2> QED
    BY <2>2, <2>3 DEF States, st, esp
<1> QED
  BY <1>6, <1>7

(* The inductive invariant of the lists: links, states, and semaphores that
   nobody can wait for before they are created. *)
SemFresh ==
  /\ \A s \in Semafor \ Created, t \in Task : ~ On(queue, t, s)
  /\ \A i, j \in DOMAIN freesem : freesem[i] = freesem[j] => i = j

ListInv == Links(queue, current) /\ States(task, queue, current) /\ SemFresh

LEMMA InitLists == Init => ListInv
<1> SUFFICES ASSUME Init PROVE ListInv
  OBVIOUS
<1> USE SchedAssumption DEF Init, init_sched
<1>1. \A q \in Queue : DOMAIN queue[q] = IF q = freequeue THEN 1 .. NR_TASKS - 2 ELSE {}
  BY DEF init_freequeue
<1>2. \A i \in 1 .. NR_TASKS - 2 : queue[freequeue][i] = i + 1
  BY QueueNames DEF init_freequeue
<1>3. \A t, q : q \in Queue /\ On(queue, t, q) => q = freequeue /\ t \in 2 .. NR_TASKS - 1
  BY <1>1, <1>2 DEF On
<1>4. Once(queue)
  BY <1>1, <1>2 DEF Once
<1>5. Unlinked(queue, current) /\ IdleReady(queue)
  BY <1>3 DEF Unlinked, IdleReady, idle_task
<1>6. ASSUME NEW t \in Task \ {idle_task, current} PROVE On(queue, t, freequeue)
  <2>1. t - 1 \in 1 .. NR_TASKS - 2 /\ (t - 1) + 1 = t
    BY DEF Task, idle_task
  <2> QED
    BY <1>1, <1>2, <2>1, QueueNames DEF On
<1>7. Links(queue, current)
  BY <1>4, <1>5, <1>6, QueueNames DEF Links
<1>8. States(task, queue, current)
  <2>1. task[current].state = "ST_RUN"
    <3>1. task[1] = init_task1
      BY QueueNames DEF idle_task
    <3>2. init_task1.state = "ST_RUN"
      BY DEF init_task1, free_task
    <3> QED
      BY <3>1, <3>2
  <2> QED
    BY <1>3, <2>1, QueueNames, QueuesApart DEF States
<1>9. SemFresh
  <2>1. \A s \in Semafor, t \in Task : ~ On(queue, t, s)
    BY <1>3, QueueNames, QueuesApart
  <2>2. \A i, j \in DOMAIN freesem : freesem[i] = freesem[j] => i = j
    BY DEF init_freesem
  <2> QED
    BY <2>1, <2>2 DEF SemFresh
<1> QED
  BY <1>7, <1>8, <1>9 DEF ListInv

\* Most calls create no semaphore and make nobody wait for one.
LEMMA SemFreshKept ==
  ASSUME SemFresh, UNCHANGED freesem,
         \A s \in Semafor, t \in Task : On(queue', t, s) => On(queue, t, s)
  PROVE  SemFresh'
  BY DEF SemFresh, Created

\* sys_yield and sys_block.
LEMMA SchedNextLists ==
  ASSUME TypeOK, ListInv, SchedNext PROVE ListInv'
<1>1. CASE Spin
  BY <1>1 DEF Spin, SchedNext, schedVars, semVars, ListInv, SemFresh, Created
<1>2. ASSUME NEW q \in {readyqueue, blocked}, NEW path, leave_cpu(task, queue, q, path), Syscall
      PROVE  ListInv'
  <2>1. /\ Links(queue', current') /\ States(task', queue', current')
        /\ \A u \in Task, p \in Queue :
             On(queue', u, p) <=> u # current' /\ (On(queue, u, p) \/ (u = current /\ p = q))
    <3>1. /\ task \in [Task -> task_struct] /\ queue \in [Queue -> Seq(Task)]
          /\ current \in Task /\ current # idle_task
          /\ q \in {readyqueue, blocked, getKey_blocked}
          /\ Links(queue, current) /\ States(task, queue, current)
      BY <1>2 DEF TypeOK, ListInv, Syscall
    <3> QED
      BY <1>2, <3>1, LeaveKeeps
  <2>2. \A s \in Semafor, t \in Task : On(queue', t, s) => On(queue, t, s)
    BY <2>1, QueueNames, QueuesApart
  <2>3. UNCHANGED freesem
    BY DEF SchedNext, semVars
  <2> QED
    BY <2>1, <2>2, <2>3, SemFreshKept DEF ListInv
<1> QED
  BY <1>1, <1>2 DEF SchedNext, Yield, Block

\* A free slot handed out or given back.
LEMMA MoveFreeSlotLists ==
  ASSUME TypeOK, ListInv, queue[freequeue] # <<>>, NEW q \in {readyqueue, freequeue},
         queue' = MoveFreeSlot(q), current' = current
  PROVE  /\ Head(queue[freequeue]) \in Task \ {current, idle_task}
         /\ On(queue, Head(queue[freequeue]), freequeue)
         /\ Links(queue', current')
         /\ \A u \in Task, p \in Queue :
              On(queue', u, p) <=> IF u = Head(queue[freequeue]) THEN p = q ELSE On(queue, u, p)
<1> DEFINE h == Head(queue[freequeue])
<1>1. queue \in [Queue -> Seq(Task)] /\ freequeue \in Queue /\ q \in Queue
  BY QueueNames DEF TypeOK
<1>2. Once(queue) /\ Unlinked(queue, current) /\ IdleReady(queue)
  BY DEF ListInv, Links
<1>3. /\ h \in Task /\ On(queue, h, freequeue)
      /\ \A u \in Task, p \in Queue :
           On(queue', u, p) <=> IF u = h THEN p = q ELSE On(queue, u, p)
      /\ Once(queue')
  BY <1>1, <1>2, MoveLinks DEF MoveFreeSlot
<1> HIDE DEF h
<1>4. h # current /\ h # idle_task
  BY <1>1, <1>2, <1>3, QueueNames, QueuesApart DEF Unlinked, IdleReady
<1>5. Unlinked(queue', current') /\ IdleReady(queue')
  BY <1>2, <1>3, <1>4, QueueNames DEF Unlinked, IdleReady, TypeOK
<1>6. \A t \in Task \ {idle_task, current'} : \E p \in Queue : On(queue', t, p)
  BY <1>1, <1>3 DEF ListInv, Links
<1> QED
  BY <1>3, <1>4, <1>5, <1>6 DEF Links, h

\* What sys_fork writes to the task table.
LEMMA ForkFields ==
  ASSUME TypeOK, NEW c \in Task, c = Head(queue[freequeue]), Fork
  PROVE  /\ \A t \in Task \ {c} : task'[t] = task[t]
         /\ task'[c].state = "ST_READY" /\ task'[c].PID = global_PID + 1
         /\ task'[c].has_threads = FALSE
         /\ task'[c].master_thread = global_PID + 1
         /\ task'[c].master_thread_address = c
         /\ task'[c].dir_pages_baseAddr = c
<1> DEFINE child == [task[current] EXCEPT !.PID = global_PID + 1,
                                          !.master_thread = global_PID + 1,
                                          !.master_thread_address = c,
                                          !.dir_pages_baseAddr = c,
                                          !.register_esp = "fork",
                                          !.state = "ST_READY",
                                          !.has_threads = FALSE]
<1>1. task \in [Task -> task_struct] /\ task[current] \in task_struct
  BY DEF TypeOK
<1>2. task' = [task EXCEPT ![c] = child]
  BY DEF Fork
<1>3. /\ child.state = "ST_READY" /\ child.PID = global_PID + 1
      /\ child.has_threads = FALSE
      /\ child.master_thread = global_PID + 1
      /\ child.master_thread_address = c
      /\ child.dir_pages_baseAddr = c
  BY <1>1 DEF task_struct
<1> HIDE DEF child
<1> QED
  BY <1>1, <1>2, <1>3

\* What sys_threadCreateWithStack writes to the task table.
LEMMA ThreadFields ==
  ASSUME TypeOK, NEW c \in Task, c = Head(queue[freequeue]), c # current, ThreadCreate
  PROVE  /\ \A t \in Task \ {c, current} : task'[t] = task[t]
         /\ task'[current] = [task[current] EXCEPT !.has_threads =
                                \/ task[current].master_thread = task[current].PID
                                \/ task[current].has_threads]
         /\ task'[c].state = "ST_READY" /\ task'[c].PID = global_PID + 1
         /\ task'[c].has_threads = FALSE
         /\ task'[c].master_thread = task[current].master_thread
         /\ task'[c].master_thread_address = task[current].master_thread_address
         /\ task'[c].dir_pages_baseAddr = task[current].dir_pages_baseAddr
<1> DEFINE thread == [task[current] EXCEPT !.PID = global_PID + 1,
                                           !.register_esp = "fork",
                                           !.state = "ST_READY",
                                           !.has_threads = FALSE]
           flag == \/ task[current].master_thread = task[current].PID
                   \/ task[current].has_threads
<1>1. task \in [Task -> task_struct] /\ task[current] \in task_struct /\ current \in Task
  BY DEF TypeOK
<1>2. task' = [task EXCEPT ![c] = thread, ![current].has_threads = flag]
  BY DEF ThreadCreate
<1>3. /\ thread.state = "ST_READY" /\ thread.PID = global_PID + 1
      /\ thread.has_threads = FALSE
      /\ thread.master_thread = task[current].master_thread
      /\ thread.master_thread_address = task[current].master_thread_address
      /\ thread.dir_pages_baseAddr = task[current].dir_pages_baseAddr
  BY <1>1 DEF task_struct
<1>4. /\ task'[c] = thread /\ \A t \in Task \ {c, current} : task'[t] = task[t]
      /\ task'[current] = [task[current] EXCEPT !.has_threads = flag]
  <2> HIDE DEF thread, flag
  <2> QED
    BY <1>1, <1>2
<1> QED
  BY <1>3, <1>4, Zenon

\* Creation and failed creation only write to the slot they take.
LEMMA CreateLists ==
  ASSUME TypeOK, ListInv, Fork \/ ForkFails \/ ThreadCreate \/ ThreadCreateFails,
         UNCHANGED freesem
  PROVE  ListInv'
<1> DEFINE h == Head(queue[freequeue])
<1>1. queue[freequeue] # <<>> /\ current' = current
  BY DEF Fork, ForkFails, ThreadCreate, ThreadCreateFails, FreeSlot
<1>2. \/ queue' = MoveFreeSlot(readyqueue) /\ (Fork \/ ThreadCreate)
      \/ queue' = MoveFreeSlot(freequeue)
  BY DEF Fork, ForkFails, ThreadCreate, ThreadCreateFails
<1>3. PICK q \in {readyqueue, freequeue} :
           queue' = MoveFreeSlot(q) /\ (q = readyqueue => Fork \/ ThreadCreate)
  BY <1>2, QueuesApart
<1>4. /\ h \in Task \ {current, idle_task}
      /\ Links(queue', current')
      /\ \A u \in Task, p \in Queue : On(queue', u, p) <=> IF u = h THEN p = q ELSE On(queue, u, p)
  BY <1>1, <1>3, MoveFreeSlotLists
<1>5. \A t \in Task : t # h => /\ task'[t].state = task[t].state
                               /\ task'[t].register_esp = task[t].register_esp
  <2>1. task \in [Task -> task_struct] /\ current \in Task
    BY DEF TypeOK
  <2>2. Fork \/ ForkFails \/ ThreadCreateFails => \A t \in Task \ {h} : task'[t] = task[t]
    BY <1>4, <2>1 DEF Fork, ForkFails, ThreadCreateFails
  <2>3. ThreadCreate => \A t \in Task \ {h} : /\ task'[t].state = task[t].state
                                              /\ task'[t].register_esp = task[t].register_esp
    <3>1. task[current] \in task_struct
      BY <2>1
    <3>2. ThreadCreate =>
            /\ \A t \in Task \ {h, current} : task'[t] = task[t]
            /\ task'[current] = [task[current] EXCEPT !.has_threads =
                                    \/ task[current].master_thread = task[current].PID
                                    \/ task[current].has_threads]
      BY <1>4, ThreadFields
    <3> QED
      BY <3>1, <3>2 DEF task_struct
  <2> QED
    BY <2>2, <2>3
<1>6. Fork \/ ThreadCreate => task'[h].state = "ST_READY"
  BY <1>4, ForkFields, ThreadFields
<1> HIDE DEF h
<1>7. States(task', queue', current')
  <2>1. task'[current'].state = "ST_RUN"
    BY <1>1, <1>4, <1>5 DEF TypeOK, ListInv, States
  <2>2. ASSUME NEW t \in Task
        PROVE  /\ On(queue', t, blocked) \/ On(queue', t, getKey_blocked)
                    => task'[t].state = "ST_BLOCKED"
               /\ On(queue', t, readyqueue) =>
                    \/ task'[t].state = "ST_READY"
                    \/ task'[t].state = "ST_RUN" /\ task'[t].register_esp = "semWait"
               /\ \A s \in Semafor : On(queue', t, s) =>
                    task'[t].state = "ST_RUN" /\ task'[t].register_esp = "semWait"
    <3>1. CASE t = h
      BY <1>3, <1>4, <1>6, <3>1, QueueNames, QueuesApart
    <3>2. CASE t # h
      BY <1>4, <1>5, <3>2, QueueNames DEF ListInv, States
    <3> QED
      BY <3>1, <3>2
  <2> QED
    BY <2>1, <2>2 DEF States
<1>8. \A s \in Semafor, t \in Task : On(queue', t, s) => On(queue, t, s)
  BY <1>4, QueueNames, QueuesApart
<1> QED
  BY <1>4, <1>7, <1>8, SemFreshKept DEF ListInv

\* What sys_exit writes to the task table before the switch.
LEMMA ReleasedFields ==
  ASSUME task \in [Task -> task_struct], current \in Task,
         NEW T, T = [task EXCEPT ![current].PID = -1]
  PROVE  /\ T \in [Task -> task_struct]
         /\ \A t \in Task :
              /\ T[t].PID = IF t = current THEN -1 ELSE task[t].PID
              /\ T[t].state = task[t].state
              /\ T[t].register_esp = task[t].register_esp
              /\ T[t].master_thread = task[t].master_thread
              /\ T[t].master_thread_address = task[t].master_thread_address
              /\ T[t].dir_pages_baseAddr = task[t].dir_pages_baseAddr
              /\ T[t].has_threads = task[t].has_threads
<1>1. T \in [Task -> task_struct]
  <2>1. -1 \in Int
    OBVIOUS
  <2> QED
    BY <2>1, SetField, Zenon
<1>2. \A t \in Task : task[t] \in task_struct
  OBVIOUS
<1> QED
  BY <1>1, <1>2 DEF task_struct

\* sys_exit gives the slot back, or hangs and changes nothing.
LEMMA ExitLists ==
  ASSUME TypeOK, ListInv, Exit, UNCHANGED freesem PROVE ListInv'
<1>1. CASE release_and_switch
  <2> DEFINE T == [task EXCEPT ![current].PID = -1]
  <2>1. T \in [Task -> task_struct] /\ \A t \in Task : /\ T[t].state = task[t].state
                                                       /\ T[t].register_esp = task[t].register_esp
    BY ReleasedFields DEF TypeOK
  <2>2. sched_next_rr(T, list_add_tail(queue, current, freequeue), "exit")
    BY <1>1 DEF release_and_switch
  <2> HIDE DEF T
  <2>3. States(T, queue, current)
    <3>1. current \in Task
      BY DEF TypeOK
    <3> QED
      BY <2>1, <3>1 DEF ListInv, States
  <2>4. /\ queue \in [Queue -> Seq(Task)] /\ current \in Task /\ current # idle_task
        /\ freequeue \in Semafor \cup {freequeue} /\ freequeue \notin Semafor
        /\ Links(queue, current)
    BY QueuesApart DEF TypeOK, Exit, Syscall, ListInv
  <2>5. /\ Links(queue', current') /\ States(task', queue', current')
        /\ \A u \in Task, p \in Queue :
             On(queue', u, p) <=> u # current' /\ (On(queue, u, p) \/ (u = current /\ p = freequeue))
    BY <2>1, <2>2, <2>3, <2>4, JoinKeeps
  <2>6. \A s \in Semafor, t \in Task : On(queue', t, s) => On(queue, t, s)
    BY <2>5, QueueNames, QueuesApart
  <2> QED
    BY <2>5, <2>6, SemFreshKept DEF ListInv
<1>2. CASE UNCHANGED <<task, queue, current>>
  BY <1>2 DEF ListInv, SemFresh, Created
<1> QED
  BY <1>1, <1>2 DEF Exit

\* sys_getKey and the interrupts of keyboard and clock.
LEMMA KeyNextLists ==
  ASSUME TypeOK, ListInv, KeyNext PROVE ListInv'
<1>1. /\ task \in [Task -> task_struct] /\ queue \in [Queue -> Seq(Task)]
      /\ current \in Task /\ UNCHANGED freesem
      /\ Links(queue, current) /\ States(task, queue, current) /\ SemFresh
      /\ SchedTypeOK
  BY TypeParts DEF TypeOK, ListInv, KeyNext, semVars
<1>2. ASSUME NEW k \in Int
      PROVE  LET T == [task EXCEPT ![current].key_timeout = k]
             IN  /\ T \in [Task -> task_struct] /\ States(T, queue, current)
                 /\ \A Q : States(task, Q, current) => States(T, Q, current)
  <2> DEFINE T == [task EXCEPT ![current].key_timeout = k]
  <2>1. T \in [Task -> task_struct]
    BY <1>1, SetField
  <2>2. \A t \in Task : /\ T[t].state = task[t].state
                        /\ T[t].register_esp = task[t].register_esp
    BY <1>1 DEF task_struct
  <2> HIDE DEF T
  <2>3. \A Q : States(task, Q, current) => States(T, Q, current)
    BY <1>1, <2>2 DEF States
  <2> QED
    BY <1>1, <2>1, <2>3 DEF T
<1>3. ASSUME NEW timeout \in Timeouts, GetKeyWaits(timeout) PROVE ListInv'
  <2> DEFINE T == [task EXCEPT ![current].key_timeout = timeout]
  <2>1. timeout \in Int
    BY KeyAssumption
  <2>2. T \in [Task -> task_struct] /\ States(T, queue, current)
    BY <1>2, <2>1
  <2>3. leave_cpu(T, queue, getKey_blocked, "getKey") /\ current # idle_task
    BY <1>3 DEF GetKeyWaits, Syscall
  <2> HIDE DEF T
  <2>4. /\ Links(queue', current') /\ States(task', queue', current')
        /\ \A u \in Task, p \in Queue :
             On(queue', u, p) <=> u # current' /\ (On(queue, u, p) \/ (u = current /\ p = getKey_blocked))
    BY <1>1, <2>2, <2>3, LeaveKeeps
  <2>5. \A s \in Semafor, t \in Task : On(queue', t, s) => On(queue, t, s)
    BY <2>4, QueueNames, QueuesApart
  <2> QED
    BY <1>1, <2>4, <2>5, SemFreshKept DEF ListInv
<1>4. ASSUME NEW timeout \in Timeouts, GetKeyAtOnce(timeout) PROVE ListInv'
  <2>1. timeout \in Int
    BY KeyAssumption
  <2>2. UNCHANGED <<queue, current>> /\ task' = [task EXCEPT ![current].key_timeout = timeout]
    BY <1>4 DEF GetKeyAtOnce
  <2>3. States(task', queue', current')
    BY <1>2, <2>1, <2>2
  <2> QED
    BY <1>1, <2>2, <2>3, SemFreshKept DEF ListInv
<1>5. ASSUME UNCHANGED <<task, queue, current>> PROVE ListInv'
  BY <1>1, <1>5, SemFreshKept DEF ListInv
<1>6. ASSUME NEW c \in Keys, KeyPress(c), queue[getKey_blocked] # <<>> PROVE ListInv'
  <2> DEFINE h == Head(queue[getKey_blocked])
  <2>1. h \in Task /\ On(queue, h, getKey_blocked)
    BY <1>1, <1>6, QueueNames, DelFirstType, DelFirstLinks DEF Links
  <2>2. task[h].state = "ST_BLOCKED"
    BY <1>1, <2>1 DEF States
  <2>3. /\ queue' = list_add_tail(list_del_first(queue, getKey_blocked), h, readyqueue)
        /\ task' = [task EXCEPT ![h].state = "ST_READY"] /\ current' = current
    BY <1>6, <2>2 DEF KeyPress, wake_first
  <2>4. /\ \A u \in Task, p \in Queue :
             On(queue', u, p) <=> IF u = h THEN p = readyqueue ELSE On(queue, u, p)
        /\ Once(queue')
    BY <1>1, <1>6, <2>3, MoveLinks, QueueNames DEF Links
  <2> HIDE DEF h
  <2>5. h # current /\ h # idle_task
    BY <1>1, <2>1, QueueNames, QueuesApart DEF Links, Unlinked, IdleReady
  <2>6. Links(queue', current')
    <3>1. Unlinked(queue', current') /\ IdleReady(queue')
      BY <1>1, <2>3, <2>4, <2>5, QueueNames DEF Links, Unlinked, IdleReady
    <3>2. \A t \in Task \ {idle_task, current'} : \E p \in Queue : On(queue', t, p)
      BY <1>1, <2>3, <2>4, QueueNames DEF Links
    <3> QED
      BY <2>4, <3>1, <3>2 DEF Links
  <2>7. \A t \in Task : /\ task'[t].state = IF t = h THEN "ST_READY" ELSE task[t].state
                        /\ task'[t].register_esp = task[t].register_esp
    BY <1>1, <2>1, <2>3 DEF task_struct
  <2>8. States(task', queue', current')
    <3>1. task'[current'].state = "ST_RUN"
      BY <1>1, <2>3, <2>5, <2>7 DEF States
    <3>2. ASSUME NEW t \in Task
          PROVE  /\ On(queue', t, blocked) \/ On(queue', t, getKey_blocked)
                      => task'[t].state = "ST_BLOCKED"
                 /\ On(queue', t, readyqueue) =>
                      \/ task'[t].state = "ST_READY"
                      \/ task'[t].state = "ST_RUN" /\ task'[t].register_esp = "semWait"
                 /\ \A s \in Semafor : On(queue', t, s) =>
                      task'[t].state = "ST_RUN" /\ task'[t].register_esp = "semWait"
      <4>1. CASE t = h
        BY <2>4, <2>7, <4>1, QueueNames, QueuesApart
      <4>2. CASE t # h
        BY <1>1, <2>4, <2>7, <4>2, QueueNames DEF States
      <4> QED
        BY <4>1, <4>2
    <3> QED
      BY <3>1, <3>2 DEF States
  <2>9. \A s \in Semafor, t \in Task : On(queue', t, s) => On(queue, t, s)
    BY <2>4, QueueNames, QueuesApart
  <2> QED
    BY <1>1, <2>6, <2>8, <2>9, SemFreshKept DEF ListInv
<1>7. ASSUME ClockTick PROVE ListInv'
  <2>1. PICK f \in InOrder(Expired), g \in InOrder(Staying) :
             schedule(count_down, wake_expired(f, g))
    BY <1>7 DEF ClockTick
  <2> DEFINE W == wake_expired(f, g)
  <2>2. count_down \in [Task -> task_struct] /\ W \in [Queue -> Seq(Task)]
    BY <1>1, CountDownType
  <2>3. Links(W, current) /\ States(count_down, W, current)
    BY <1>1, CountDownKeeps
  <2>4. \A s \in Semafor, t \in Task : On(W, t, s) => On(queue, t, s)
    <3>1. \A s \in Semafor : W[s] = queue[s]
      BY <1>1, QueueNames, QueuesApart DEF wake_expired
    <3> QED
      BY <3>1 DEF On
  <2> HIDE DEF W
  <2>5. CASE leave_cpu(count_down, W, readyqueue, "clock")
    <3>1. /\ Links(queue', current') /\ States(task', queue', current')
          /\ \A u \in Task, p \in Queue :
               On(queue', u, p) <=> u # current' /\ (On(W, u, p) \/ (u = current /\ p = readyqueue))
      BY <1>1, <2>2, <2>3, <2>5, LeaveKeeps
    <3>2. \A s \in Semafor, t \in Task : On(queue', t, s) => On(queue, t, s)
      BY <2>4, <3>1, QueueNames, QueuesApart
    <3> QED
      BY <1>1, <3>1, <3>2, SemFreshKept DEF ListInv
  <2>6. CASE task' = count_down /\ queue' = W /\ current' = current
    BY <1>1, <2>3, <2>4, <2>6, SemFreshKept DEF ListInv
  <2> QED
    BY <2>1, <2>5, <2>6 DEF schedule, W
<1> QED
  BY <1>3, <1>4, <1>5, <1>6, <1>7 DEF KeyNext, GetKeyResumes, KeyPress, KeyRelease, schedVars

\* sys_sem_create takes a semaphore that nobody waits for.
LEMMA SemCreateLists ==
  ASSUME TypeOK, ListInv, NEW v \in SemValues, sem_create(v)
  PROVE  /\ Head(freesem) \in Semafor \ Created
         /\ queue' = queue
         /\ Created' = Created \cup {Head(freesem)}
         /\ ListInv'
<1> DEFINE h == Head(freesem)
           n == Len(freesem)
<1>1. /\ queue \in [Queue -> Seq(Task)] /\ freesem \in Seq(Semafor) /\ freesem # <<>>
      /\ UNCHANGED <<task, current>> /\ freesem' = Tail(freesem)
      /\ queue' = [queue EXCEPT ![h] = <<>>]
  BY DEF TypeOK, sem_create
<1>2. /\ n \in Nat \ {0} /\ DOMAIN freesem = 1 .. n /\ DOMAIN freesem' = 1 .. n - 1
      /\ \A i \in 1 .. n - 1 : freesem'[i] = freesem[i + 1]
      /\ freesem[1] = h /\ h \in Semafor
  BY <1>1, HeadTailProperties, LenProperties, EmptySeq
<1>3. \A i, j \in DOMAIN freesem : freesem[i] = freesem[j] => i = j
  BY DEF ListInv, SemFresh
<1> HIDE DEF h, n
<1>4. h \notin Created
  BY <1>2 DEF Created
<1>5. queue' = queue
  <2>1. \A t \in Task : ~ On(queue, t, h)
    BY <1>2, <1>4 DEF ListInv, SemFresh
  <2>2. h \in Queue /\ queue[h] \in Seq(Task)
    BY <1>1, <1>2, QueueNames
  <2>3. queue[h] = <<>>
    <3> SUFFICES ASSUME queue[h] # <<>> PROVE FALSE
      OBVIOUS
    <3>1. Head(queue[h]) \in Task /\ 1 \in DOMAIN queue[h] /\ queue[h][1] = Head(queue[h])
      BY <2>2, HeadTailProperties, LenProperties, EmptySeq
    <3> QED
      BY <2>1, <3>1 DEF On
  <2> QED
    BY <1>1, <2>2, <2>3
<1>6. Created' = Created \cup {h}
  <2>1. ASSUME NEW s \in Semafor
        PROVE  (\A i \in 1 .. n - 1 : freesem[i + 1] # s) <=> (\A i \in 1 .. n : freesem[i] # s) \/ s = h
    <3>1. ASSUME NEW i \in 1 .. n - 1 PROVE i + 1 \in 1 .. n /\ freesem[i + 1] # h
      BY <1>2, <1>3, <3>1
    <3>2. ASSUME NEW i \in 1 .. n, i # 1 PROVE i - 1 \in 1 .. n - 1 /\ (i - 1) + 1 = i
      BY <1>2, <3>2
    <3>3. ASSUME \A i \in 1 .. n - 1 : freesem[i + 1] # s, s # h, NEW i \in 1 .. n
          PROVE  freesem[i] # s
      BY <1>2, <3>2, <3>3
    <3> QED
      BY <3>1, <3>3
  <2>2. \A s \in Semafor : s \in Created' <=> s \in Created \/ s = h
    <3>1. \A s \in Semafor : s \in Created <=> \A i \in 1 .. n : freesem[i] # s
      BY <1>2 DEF Created
    <3>2. \A s \in Semafor : s \in Created' <=> \A i \in 1 .. n - 1 : freesem'[i] # s
      BY <1>2 DEF Created
    <3>3. \A s \in Semafor : s \in Created' <=> \A i \in 1 .. n - 1 : freesem[i + 1] # s
      BY <1>2, <3>2
    <3> QED
      BY <2>1, <3>1, <3>3, Zenon
  <2>3. Created \subseteq Semafor /\ Created' \subseteq Semafor
    BY DEF Created
  <2> QED
    BY <1>2, <2>2, <2>3
<1>7. \A i, j \in DOMAIN freesem' : freesem'[i] = freesem'[j] => i = j
  BY <1>2, <1>3, SMTT(30)
<1>8. \A s \in Semafor \ Created', t \in Task : ~ On(queue', t, s)
  BY <1>5, <1>6 DEF ListInv, SemFresh
<1>9. SemFresh'
  BY <1>7, <1>8 DEF SemFresh
<1> QED
  BY <1>1, <1>2, <1>4, <1>5, <1>6, <1>9 DEF ListInv, h

\* A task woken by semSignal goes to readyqueue as it is.
LEMMA SignalLists ==
  ASSUME TypeOK, ListInv, NEW s \in Created, queue[s] # <<>>,
         queue' = list_add_tail(list_del_first(queue, s), Head(queue[s]), readyqueue),
         UNCHANGED <<task, current, freesem>>
  PROVE  ListInv'
<1> DEFINE h == Head(queue[s])
<1>1. /\ queue \in [Queue -> Seq(Task)] /\ s \in Semafor /\ s \in Queue /\ readyqueue \in Queue
      /\ current \in Task
      /\ Once(queue) /\ Unlinked(queue, current) /\ IdleReady(queue)
      /\ Links(queue, current) /\ States(task, queue, current) /\ SemFresh
  BY QueueNames DEF TypeOK, Created, ListInv, Links
<1>2. /\ h \in Task /\ On(queue, h, s) /\ Once(queue')
      /\ \A u \in Task, p \in Queue :
           On(queue', u, p) <=> IF u = h THEN p = readyqueue ELSE On(queue, u, p)
  BY <1>1, MoveLinks
<1> HIDE DEF h
<1>3. h # current /\ h # idle_task
  BY <1>1, <1>2, QueuesApart DEF Unlinked, IdleReady
<1>4. Unlinked(queue', current') /\ IdleReady(queue')
  BY <1>1, <1>2, <1>3, QueueNames DEF Unlinked, IdleReady
<1>5. \A t \in Task \ {idle_task, current'} : \E p \in Queue : On(queue', t, p)
  BY <1>1, <1>2 DEF Links
<1>6. States(task', queue', current')
  <2>1. task[h].state = "ST_RUN" /\ task[h].register_esp = "semWait"
    BY <1>1, <1>2 DEF States
  <2>2. ASSUME NEW t \in Task
        PROVE  /\ On(queue', t, blocked) \/ On(queue', t, getKey_blocked)
                    => task[t].state = "ST_BLOCKED"
               /\ On(queue', t, readyqueue) =>
                    \/ task[t].state = "ST_READY"
                    \/ task[t].state = "ST_RUN" /\ task[t].register_esp = "semWait"
               /\ \A r \in Semafor : On(queue', t, r) =>
                    task[t].state = "ST_RUN" /\ task[t].register_esp = "semWait"
    <3>1. CASE t = h
      BY <1>2, <2>1, <3>1, QueueNames, QueuesApart
    <3>2. CASE t # h
      BY <1>1, <1>2, <3>2, QueueNames DEF States
    <3> QED
      BY <3>1, <3>2
  <2>3. task[current].state = "ST_RUN"
    BY <1>1 DEF States
  <2> QED
    BY <2>2, <2>3 DEF States
<1>7. \A r \in Semafor, t \in Task : On(queue', t, r) => On(queue, t, r)
  BY <1>2, QueueNames, QueuesApart
<1>8. Links(queue', current')
  BY <1>2, <1>4, <1>5 DEF Links
<1>9. SemFresh'
  BY <1>1, <1>7, SemFreshKept
<1> QED
  BY <1>6, <1>8, <1>9 DEF ListInv

\* The semaphore calls.
LEMMA SemNextLists ==
  ASSUME TypeOK, ListInv, SemNext PROVE ListInv'
<1>1. ASSUME NEW s \in Created, semWait(s) PROVE ListInv'
  <2>1. CASE sched_next_rr(task, list_add_tail(queue, current, s), "semWait")
    <3>1. /\ task \in [Task -> task_struct] /\ queue \in [Queue -> Seq(Task)]
          /\ s \in Semafor /\ s \in Semafor \cup {freequeue}
          /\ current \in Task /\ current # idle_task
          /\ Links(queue, current) /\ States(task, queue, current) /\ SemFresh
      BY <1>1 DEF TypeOK, ListInv, semWait, Syscall, Created
    <3>2. /\ Links(queue', current') /\ States(task', queue', current')
          /\ \A u \in Task, p \in Queue :
               On(queue', u, p) <=> u # current' /\ (On(queue, u, p) \/ (u = current /\ p = s))
      BY <2>1, <3>1, JoinKeeps
    <3>3. Created' = Created /\ UNCHANGED freesem
      BY <1>1 DEF semWait, Created
    <3>4. SemFresh'
      BY <3>1, <3>2, <3>3, QueueNames DEF SemFresh
    <3> QED
      BY <3>2, <3>4 DEF ListInv
  <2>2. CASE UNCHANGED schedVars
    BY <1>1, <2>2, SemFreshKept DEF schedVars, semWait, ListInv
  <2> QED
    BY <1>1, <2>1, <2>2 DEF semWait
<1>2. ASSUME NEW s \in Created, semSignal(s) PROVE ListInv'
  <2>1. CASE UNCHANGED <<task, queue, current>>
    BY <1>2, <2>1, SemFreshKept DEF semSignal, ListInv
  <2> QED
    BY <1>2, <2>1, SignalLists DEF semSignal, schedVars
<1> QED
  BY <1>1, <1>2, SemCreateLists DEF SemNext

\* The lists stay in order whatever happens.
LEMMA ListsKept ==
  ASSUME TypeOK, ListInv, [Next]_vars PROVE ListInv'
<1>1. CASE UNCHANGED vars
  BY <1>1, SemFreshKept DEF vars, schedVars, semVars, ListInv
<1>2. CASE ProcessNext
  BY <1>2, CreateLists, ExitLists DEF ProcessNext, semVars
<1> QED
  BY <1>1, <1>2, SchedNextLists, KeyNextLists, SemNextLists DEF Next

LEMMA ListsInvariant == Spec => [](TypeOK /\ ListInv)
  BY InitLists, ListsKept, KernelTypes, PTL DEF Spec

(* No task is ever linked twice although all lists share the one anchor of a
   task_struct, the running task is on no list, and idle_task at most on
   readyqueue: no list_add_tail of sys.c, sched.c or interrupt.c splices two
   queues together, for any number of tasks and semaphores. *)
THEOREM OneListAlways == Spec => []OneList
<1>1. ListInv => OneList
  BY LinksIsOneList DEF ListInv
<1> QED
  BY <1>1, ListsInvariant, PTL

(* No path of creation, failed creation, waiting, timeout, wake up or exit
   loses a task_struct: each but the running one and idle_task is on a list. *)
THEOREM NoTaskLostEver == Spec => []NoTaskLost
<1>1. ListInv => NoTaskLost
  BY LinksIsOneList DEF ListInv
<1> QED
  BY <1>1, ListsInvariant, PTL

(* The state field, by which update_process_state_rr decides about list_del,
   always tells the truth about the list a task is on; only tasks that come
   from a semaphore are on readyqueue in state ST_RUN. *)
THEOREM StateTellsQueue == Spec => []StateFitsQueue
<1>1. ListInv => StateFitsQueue
  BY StatesIsFit DEF ListInv
<1> QED
  BY <1>1, ListsInvariant, PTL
-----------------------------------------------------------------------------
\* What list_add_tail and list_del do to the front of a sequence.
LEMMA ExtendsFacts ==
  ASSUME NEW S, NEW r \in Seq(S)
  PROVE  /\ Extends(r, r)
         /\ \A R \in Seq(S) : r = <<>> => Extends(R, r)
         /\ \A x \in S : Extends(Append(r, x), r)
         /\ \A R \in Seq(S) : Extends(r \o R, r)
         /\ \A R \in Seq(S) : Extends(R, r) =>
              \A x \in S : Extends(Append(R, x), r)
         /\ \A R \in Seq(S) : Extends(R, r) /\ r # <<>> =>
              R # <<>> /\ Head(R) = Head(r) /\ Extends(Tail(R), Tail(r))
<1>1. Len(r) \in Nat /\ DOMAIN r = 1 .. Len(r)
  BY LenProperties
<1>2. Extends(r, r)
  BY <1>1 DEF Extends
<1>3. \A R \in Seq(S) : r = <<>> => Extends(R, r)
  BY LenProperties, EmptySeq DEF Extends
<1>4. \A x \in S : Extends(Append(r, x), r)
  BY <1>1, AppendProperties DEF Extends
<1>5. \A R \in Seq(S) : Extends(r \o R, r)
  BY <1>1, ConcatProperties, LenProperties DEF Extends
<1>6. ASSUME NEW R \in Seq(S), Extends(R, r), NEW x \in S PROVE Extends(Append(R, x), r)
  BY <1>1, <1>6, AppendProperties, LenProperties DEF Extends
<1>7. ASSUME NEW R \in Seq(S), Extends(R, r), r # <<>>
      PROVE  R # <<>> /\ Head(R) = Head(r) /\ Extends(Tail(R), Tail(r))
  <2>1. Len(r) >= 1 /\ Len(R) \in Nat /\ Len(r) <= Len(R) /\ R # <<>>
    BY <1>1, <1>7, LenProperties, EmptySeq DEF Extends
  <2>2. Head(R) = R[1] /\ Head(r) = r[1] /\ R[1] = r[1]
    BY <1>1, <1>7, <2>1, HeadTailProperties DEF Extends
  <2>3. /\ Len(Tail(r)) = Len(r) - 1 /\ Len(Tail(R)) = Len(R) - 1
        /\ DOMAIN Tail(r) = 1 .. Len(r) - 1
        /\ \A i \in 1 .. Len(r) - 1 : Tail(r)[i] = r[i + 1]
        /\ \A i \in 1 .. Len(R) - 1 : Tail(R)[i] = R[i + 1]
    BY <1>7, <2>1, HeadTailProperties, LenProperties
  <2>4. \A i \in 1 .. Len(r) - 1 : i + 1 \in DOMAIN r /\ i \in 1 .. Len(R) - 1
    BY <1>1, <2>1
  <2> QED
    BY <1>7, <2>1, <2>2, <2>3, <2>4 DEF Extends
<1> QED
  BY <1>2, <1>3, <1>4, <1>5, <1>6, <1>7

\* A step that takes nobody from readyqueue, or its first task to run.
InTurn ==
  \/ Extends(queue'[readyqueue], queue[readyqueue])
  \/ /\ queue[readyqueue] # <<>> /\ current' = Head(queue[readyqueue])
     /\ Extends(queue'[readyqueue], Tail(queue[readyqueue]))

\* sched_next_rr takes the first, if the caller has only added to readyqueue.
LEMMA SwitchInTurn ==
  ASSUME queue \in [Queue -> Seq(Task)], NEW T, NEW Q \in [Queue -> Seq(Task)], NEW path,
         sched_next_rr(T, Q, path), Extends(Q[readyqueue], queue[readyqueue])
  PROVE  InTurn
<1> DEFINE r == queue[readyqueue]
           R == Q[readyqueue]
<1>1. r \in Seq(Task) /\ R \in Seq(Task) /\ readyqueue \in Queue
  BY QueueNames
<1>2. CASE R = <<>>
  BY <1>2 DEF sched_next_rr, InTurn
<1>3. CASE R # <<>>
  <2>1. queue'[readyqueue] = Tail(R) /\ current' = Head(R) /\ Tail(R) \in Seq(Task)
    BY <1>1, <1>3, HeadTailProperties DEF sched_next_rr, list_del_first, task_switch, switch_stack
  <2>2. r # <<>> => Head(R) = Head(r) /\ Extends(Tail(R), Tail(r))
    BY <1>1, ExtendsFacts
  <2>3. r = <<>> => Extends(Tail(R), r)
    BY <1>1, <2>1, ExtendsFacts
  <2> QED
    BY <2>1, <2>2, <2>3 DEF InTurn
<1> QED
  BY <1>2, <1>3

\* So does leave_cpu.
LEMMA LeaveInTurn ==
  ASSUME queue \in [Queue -> Seq(Task)], NEW T, NEW Q \in [Queue -> Seq(Task)],
         NEW q \in Queue, NEW path, current \in Task,
         leave_cpu(T, Q, q, path), Extends(Q[readyqueue], queue[readyqueue])
  PROVE  InTurn
<1> DEFINE R == list_add_tail(Q, current, q)
           U == [T EXCEPT ![current].state = IF q = readyqueue THEN "ST_READY" ELSE "ST_BLOCKED"]
<1>1. R \in [Queue -> Seq(Task)] /\ sched_next_rr(U, R, path)
  BY AddTailType DEF leave_cpu
<1>2. queue[readyqueue] \in Seq(Task) /\ Q[readyqueue] \in Seq(Task) /\ readyqueue \in Queue
  BY QueueNames
<1>3. R[readyqueue] = IF q = readyqueue THEN Append(Q[readyqueue], current) ELSE Q[readyqueue]
  BY <1>2 DEF list_add_tail
<1>4. Extends(Append(Q[readyqueue], current), queue[readyqueue])
  BY <1>2, ExtendsFacts
<1>5. Extends(R[readyqueue], queue[readyqueue])
  BY <1>3, <1>4
<1> HIDE DEF R, U
<1> QED
  BY <1>1, <1>5, SwitchInTurn

\* A task linked to the tail of readyqueue waits for its turn.
LEMMA MoveInTurn ==
  ASSUME queue \in [Queue -> Seq(Task)], NEW p \in Queue \ {readyqueue}, queue[p] # <<>>,
         NEW q \in Queue,
         queue' = list_add_tail(list_del_first(queue, p), Head(queue[p]), q)
  PROVE  InTurn
<1> DEFINE D == list_del_first(queue, p)
           h == Head(queue[p])
<1>1. /\ D \in [Queue -> Seq(Task)] /\ h \in Task /\ D[readyqueue] = queue[readyqueue]
      /\ queue' = [D EXCEPT ![q] = Append(@, h)]
  BY DelFirstType, QueueNames DEF list_del_first, list_add_tail
<1>2. readyqueue \in Queue /\ queue[readyqueue] \in Seq(Task)
  BY QueueNames
<1> HIDE DEF D, h
<1>3. \/ queue'[readyqueue] = queue[readyqueue]
      \/ queue'[readyqueue] = Append(queue[readyqueue], h)
  BY <1>1, <1>2
<1>4. /\ Extends(queue[readyqueue], queue[readyqueue])
      /\ Extends(Append(queue[readyqueue], h), queue[readyqueue])
  BY <1>1, <1>2, ExtendsFacts
<1> QED
  BY <1>3, <1>4 DEF InTurn

\* The clock: waiters that are due join the tail of readyqueue first.
LEMMA ClockInTurn ==
  ASSUME SchedTypeOK, ClockTick PROVE InTurn
<1>1. PICK f \in InOrder(Expired), g \in InOrder(Staying) :
           schedule(count_down, wake_expired(f, g))
  BY DEF ClockTick
<1> DEFINE W == wake_expired(f, g)
           due == [i \in DOMAIN f |-> Waiters[f[i]]]
<1>2. /\ W \in [Queue -> Seq(Task)] /\ queue \in [Queue -> Seq(Task)] /\ current \in Task
      /\ readyqueue \in Queue /\ queue[readyqueue] \in Seq(Task) /\ Waiters \in Seq(Task)
  BY CountDownType, QueueNames DEF SchedTypeOK, Waiters
<1>3. due \in Seq(Task)
  <2>1. PICK n \in Nat : DOMAIN f = 1 .. n /\ \A i \in 1 .. n : f[i] \in Expired
    BY <1>2, InOrderInjective
  <2>2. Expired \subseteq DOMAIN Waiters
    BY DEF Expired, Counting
  <2> QED
    BY <1>2, <2>1, <2>2
<1>4. W[readyqueue] = queue[readyqueue] \o due
  BY <1>2, QueuesApart DEF wake_expired
<1> HIDE DEF W, due
<1>5. Extends(W[readyqueue], queue[readyqueue])
  BY <1>2, <1>3, <1>4, ExtendsFacts
<1>6. \/ queue' = W
      \/ leave_cpu(count_down, W, readyqueue, "clock")
  BY <1>1 DEF schedule, W
<1>7. CASE queue' = W
  BY <1>5, <1>7 DEF InTurn
<1>8. CASE leave_cpu(count_down, W, readyqueue, "clock")
  BY <1>2, <1>5, <1>8, LeaveInTurn
<1> QED
  BY <1>6, <1>7, <1>8

\* Every step takes ready tasks in turn.
LEMMA NextInTurn ==
  ASSUME TypeOK, ListInv, [Next]_vars PROVE InTurn
<1>1. /\ task \in [Task -> task_struct] /\ queue \in [Queue -> Seq(Task)]
      /\ current \in Task /\ SchedTypeOK
      /\ readyqueue \in Queue /\ queue[readyqueue] \in Seq(Task)
  BY TypeParts, QueueNames DEF TypeOK
<1>2. Extends(queue[readyqueue], queue[readyqueue])
  BY <1>1, ExtendsFacts
<1>3. queue' = queue => InTurn
  BY <1>2 DEF InTurn
<1>4. ASSUME NEW T, NEW q \in {readyqueue, blocked, getKey_blocked}, NEW path,
             leave_cpu(T, queue, q, path)
      PROVE  InTurn
  BY <1>1, <1>2, <1>4, QueueNames, LeaveInTurn
<1>5. ASSUME NEW T, NEW q \in Semafor \cup {freequeue}, NEW path,
             sched_next_rr(T, list_add_tail(queue, current, q), path)
      PROVE  InTurn
  <2>1. /\ list_add_tail(queue, current, q) \in [Queue -> Seq(Task)]
        /\ list_add_tail(queue, current, q)[readyqueue] = queue[readyqueue]
    BY <1>1, QueueNames, QueuesApart, AddTailType DEF list_add_tail
  <2> QED
    BY <1>1, <1>2, <1>5, <2>1, SwitchInTurn
<1>6. ASSUME NEW p \in {freequeue, getKey_blocked} \cup Semafor, queue[p] # <<>>,
             NEW q \in {readyqueue, freequeue},
             queue' = list_add_tail(list_del_first(queue, p), Head(queue[p]), q)
      PROVE  InTurn
  BY <1>1, <1>6, QueueNames, QueuesApart, MoveInTurn
<1>7. SchedNext => InTurn
  BY <1>3, <1>4 DEF SchedNext, Yield, Block, Spin, schedVars
<1>8. ProcessNext => InTurn
  <2>1. Fork \/ ForkFails \/ ThreadCreate \/ ThreadCreateFails => InTurn
    BY <1>6 DEF Fork, ForkFails, ThreadCreate, ThreadCreateFails, FreeSlot, MoveFreeSlot
  <2>2. Exit => InTurn
    BY <1>3, <1>5 DEF Exit, release_and_switch
  <2> QED
    BY <2>1, <2>2 DEF ProcessNext
<1>9. KeyNext => InTurn
  <2>1. ASSUME NEW timeout \in Timeouts, GetKeyWaits(timeout) PROVE InTurn
    BY <1>4, <2>1 DEF GetKeyWaits
  <2>2. ASSUME NEW c \in Keys, KeyPress(c) PROVE InTurn
    <3>1. CASE queue[getKey_blocked] = <<>>
      BY <1>3, <2>2, <3>1 DEF KeyPress
    <3>2. CASE queue[getKey_blocked] # <<>>
      <4>1. getKey_blocked \in Queue
        BY QueueNames
      <4>2. Head(queue[getKey_blocked]) \in Task /\ On(queue, Head(queue[getKey_blocked]), getKey_blocked)
        BY <1>1, <3>2, <4>1, DelFirstType, DelFirstLinks DEF ListInv, Links
      <4>3. task[Head(queue[getKey_blocked])].state = "ST_BLOCKED"
        BY <4>2 DEF ListInv, States
      <4>4. queue' = list_add_tail(list_del_first(queue, getKey_blocked),
                                   Head(queue[getKey_blocked]), readyqueue)
        BY <2>2, <3>2, <4>3 DEF KeyPress, wake_first
      <4> QED
        BY <1>6, <3>2, <4>4
    <3> QED
      BY <3>1, <3>2
  <2> QED
    BY <1>1, <1>3, <2>1, <2>2, ClockInTurn
    DEF KeyNext, GetKeyAtOnce, GetKeyResumes, KeyRelease, schedVars
<1>10. SemNext => InTurn
  <2>1. ASSUME NEW v \in SemValues, sem_create(v) PROVE InTurn
    BY <1>3, <2>1, SemCreateLists
  <2>2. ASSUME NEW s \in Created, semWait(s) PROVE InTurn
    BY <1>3, <1>5, <2>2 DEF semWait, schedVars, Created
  <2>3. ASSUME NEW s \in Created, semSignal(s) PROVE InTurn
    BY <1>3, <1>6, <2>3 DEF semSignal, schedVars, Created
  <2> QED
    BY <2>1, <2>2, <2>3 DEF SemNext
<1>11. UNCHANGED vars => InTurn
  BY <1>3 DEF vars, schedVars
<1> QED
  BY <1>7, <1>8, <1>9, <1>10, <1>11 DEF Next

(* Round robin: whatever wakes up, times out, is created or signalled in
   between, a ready task leaves readyqueue only from its front, and only to
   run. *)
THEOREM RoundRobin == Spec => FirstReadyFirstRun
<1>1. TypeOK /\ ListInv /\ [Next]_vars => [InTurn]_vars
  BY NextInTurn
<1>2. FirstReadyFirstRun <=> [][InTurn]_vars
  BY PTL DEF FirstReadyFirstRun, InTurn
<1> QED
  BY <1>1, <1>2, ListsInvariant, PTL DEF Spec
-----------------------------------------------------------------------------
\* A crash is a switch of the running task to itself.
LEMMA CrashIsSelfSwitch ==
  ASSUME NEW T \in [Task -> task_struct], NEW Q \in [Queue -> Seq(Task)], NEW path,
         sched_next_rr(T, Q, path), current \in Task, halted # "crashed", halted' = "crashed"
  PROVE  current' = current /\ task'[current].register_esp = path
<1>1. current' = current
  BY DEF sched_next_rr, task_switch, switch_stack
<1> QED
  BY <1>1, SwitchFields

\* Whoever leaves the CPU finds another task to run, unless it is the only one ready.
LEMMA LeaveElsewhere ==
  ASSUME NEW T \in [Task -> task_struct], NEW Q \in [Queue -> Seq(Task)],
         NEW q \in {readyqueue, blocked, getKey_blocked}, NEW path,
         leave_cpu(T, Q, q, path), current \in Task, Links(Q, current),
         current = idle_task => q = readyqueue, current' = current
  PROVE  q = readyqueue /\ Q[readyqueue] = <<>>
<1> DEFINE R == list_add_tail(Q, current, q)
           st == IF q = readyqueue THEN "ST_READY" ELSE "ST_BLOCKED"
           U == [T EXCEPT ![current].state = st]
<1>1. /\ R \in [Queue -> Seq(Task)] /\ U \in [Task -> task_struct]
      /\ sched_next_rr(U, R, path) /\ readyqueue \in Queue /\ q \in Queue
  BY AddTailType, SetField, QueueNames DEF leave_cpu, state_t
<1>2. /\ R[q] = Append(Q[q], current)
      /\ \A p \in Queue \ {q} : R[p] = Q[p]
  BY <1>1 DEF list_add_tail
<1> HIDE DEF R, U
<1>3. Once(Q) /\ Unlinked(Q, current) /\ IdleReady(Q)
  BY DEF Links
<1>4. \/ current' = idle_task
      \/ On(Q, current', readyqueue)
      \/ current' = current /\ q = readyqueue
  BY <1>1, <1>3, LeaveLinks
<1>5. q = readyqueue
  BY <1>1, <1>3, <1>4 DEF Unlinked
<1>6. ASSUME Q[readyqueue] # <<>> PROVE FALSE
  <2> DEFINE r == Q[readyqueue]
  <2>1. r \in Seq(Task) /\ Append(r, current) \in Seq(Task) /\ Append(r, current) # <<>>
    <3>1. r \in Seq(Task)
      BY <1>1
    <3>2. Append(r, current) \in Seq(Task) /\ Len(Append(r, current)) = Len(r) + 1 /\ Len(r) \in Nat
      BY <3>1, AppendProperties, LenProperties
    <3>3. \A x \in Seq(Task) : Len(x) > 0 => x # <<>>
      BY EmptySeq
    <3>4. Append(r, current) # <<>>
      <4> HIDE DEF r
      <4> QED
        BY <3>2, <3>3
    <3> QED
      BY <3>1, <3>2, <3>4
  <2>2. Extends(Append(r, current), r)
    BY <2>1, ExtendsFacts
  <2>3. Head(Append(r, current)) = Head(r)
    <3>1. \A x \in Seq(Task) : Extends(x, r) /\ r # <<>> => Head(x) = Head(r)
      BY <2>1, ExtendsFacts
    <3> QED
      BY <1>6, <2>1, <2>2, <3>1
  <2>4. current' = Head(r)
    BY <1>1, <1>2, <1>5, <2>1, <2>3 DEF sched_next_rr, task_switch, switch_stack
  <2>5. On(Q, Head(r), readyqueue)
    BY <1>1, <1>3, <1>6, DelFirstLinks
  <2> QED
    BY <1>1, <1>3, <2>4, <2>5 DEF Unlinked
<1> QED
  BY <1>5, <1>6

\* leave_cpu only crashes when the caller is the only one ready.
LEMMA LeaveCrash ==
  ASSUME NEW T \in [Task -> task_struct], NEW Q \in [Queue -> Seq(Task)],
         NEW q \in {readyqueue, blocked, getKey_blocked}, NEW path,
         leave_cpu(T, Q, q, path), current \in Task, Links(Q, current),
         current = idle_task => q = readyqueue,
         halted # "crashed", halted' = "crashed"
  PROVE  q = readyqueue /\ Q[readyqueue] = <<>> /\ task'[current].register_esp = path
<1> DEFINE R == list_add_tail(Q, current, q)
           st == IF q = readyqueue THEN "ST_READY" ELSE "ST_BLOCKED"
           U == [T EXCEPT ![current].state = st]
<1>1. /\ R \in [Queue -> Seq(Task)] /\ U \in [Task -> task_struct] /\ sched_next_rr(U, R, path)
  BY AddTailType, SetField, QueueNames DEF leave_cpu, state_t
<1> HIDE DEF R, U
<1>2. current' = current /\ task'[current].register_esp = path
  BY <1>1, CrashIsSelfSwitch
<1> QED
  BY <1>2, LeaveElsewhere

CrashByYield == halted # "crashed" /\ halted' = "crashed" =>
                  queue[readyqueue] = <<>> /\ task'[current].register_esp = "yield"

\* Of all steps only a yield can crash.
LEMMA NextCrash ==
  ASSUME TypeOK, ListInv, [Next]_vars PROVE CrashByYield
<1> SUFFICES ASSUME halted # "crashed", halted' = "crashed"
             PROVE  queue[readyqueue] = <<>> /\ task'[current].register_esp = "yield"
  BY DEF CrashByYield
<1>1. /\ task \in [Task -> task_struct] /\ queue \in [Queue -> Seq(Task)]
      /\ current \in Task /\ SchedTypeOK
      /\ Links(queue, current) /\ States(task, queue, current)
  BY TypeParts DEF TypeOK, ListInv
<1>2. ASSUME NEW T \in [Task -> task_struct], NEW q \in {blocked, getKey_blocked}, NEW path,
             leave_cpu(T, queue, q, path), Syscall
      PROVE  FALSE
  BY <1>1, <1>2, LeaveCrash, QueuesApart DEF Syscall
<1>3. CASE SchedNext
  <2>1. CASE Yield
    BY <1>1, <2>1, LeaveCrash DEF Yield
  <2>2. CASE Block
    BY <1>1, <1>2, <2>2 DEF Block
  <2> QED
    BY <1>3, <2>1, <2>2 DEF SchedNext, Spin, schedVars
<1>4. CASE ProcessNext
  <2> DEFINE T == [task EXCEPT ![current].PID = -1]
  <2>1. T \in [Task -> task_struct] /\ \A t \in Task : /\ T[t].state = task[t].state
                                                       /\ T[t].register_esp = task[t].register_esp
    BY <1>1, ReleasedFields
  <2>2. CASE Exit
    <3>1. sched_next_rr(T, list_add_tail(queue, current, freequeue), "exit") /\ current # idle_task
      BY <2>2 DEF Exit, release_and_switch, Syscall
    <3> HIDE DEF T
    <3>2. States(T, queue, current)
      BY <1>1, <2>1 DEF States
    <3>3. current' # current
      BY <1>1, <2>1, <3>1, <3>2, QueuesApart, JoinKeeps
    <3>4. list_add_tail(queue, current, freequeue) \in [Queue -> Seq(Task)]
      BY <1>1, QueueNames, AddTailType
    <3> QED
      BY <1>1, <2>1, <3>1, <3>3, <3>4, CrashIsSelfSwitch
  <2> QED
    BY <1>4, <2>2 DEF ProcessNext, Fork, ForkFails, ThreadCreate, ThreadCreateFails
<1>5. CASE KeyNext
  <2>1. ASSUME NEW timeout \in Timeouts, GetKeyWaits(timeout) PROVE FALSE
    <3>1. [task EXCEPT ![current].key_timeout = timeout] \in [Task -> task_struct]
      BY <1>1, KeyAssumption, SetField
    <3> QED
      BY <1>2, <2>1, <3>1 DEF GetKeyWaits
  <2>2. ASSUME ClockTick PROVE FALSE
    <3>1. PICK f \in InOrder(Expired), g \in InOrder(Staying) :
               schedule(count_down, wake_expired(f, g))
      BY <2>2 DEF ClockTick
    <3> DEFINE W == wake_expired(f, g)
    <3>2. count_down \in [Task -> task_struct] /\ W \in [Queue -> Seq(Task)]
      BY <1>1, CountDownType
    <3>3. Links(W, current)
      BY <1>1, CountDownKeeps
    <3>4. leave_cpu(count_down, W, readyqueue, "clock") /\ W[readyqueue] # <<>>
      BY <3>1 DEF schedule
    <3> HIDE DEF W
    <3> QED
      BY <1>1, <3>2, <3>3, <3>4, LeaveCrash
  <2> QED
    BY <1>5, <2>1, <2>2 DEF KeyNext, GetKeyAtOnce, GetKeyResumes, KeyPress, KeyRelease, schedVars
<1>6. CASE SemNext
  <2>1. ASSUME NEW s \in Created, semWait(s) PROVE FALSE
    <3>1. /\ sched_next_rr(task, list_add_tail(queue, current, s), "semWait")
          /\ current # idle_task /\ s \in Semafor
      BY <2>1 DEF semWait, Syscall, schedVars, Created
    <3>2. current' # current
      BY <1>1, <3>1, JoinKeeps
    <3>3. list_add_tail(queue, current, s) \in [Queue -> Seq(Task)]
      BY <1>1, <3>1, QueueNames, AddTailType
    <3> QED
      BY <1>1, <3>1, <3>2, <3>3, CrashIsSelfSwitch
  <2> QED
    BY <1>6, <2>1 DEF SemNext, sem_create, semSignal, schedVars
<1> QED
  BY <1>3, <1>4, <1>5, <1>6 DEF Next, vars, schedVars

(* switch_stack never loads a frame that is gone, but for a sys_yield with
   nobody else ready: preemption, blocking calls and sys_exit always find
   another task to switch to. *)
THEOREM CrashOnlyByLoneYield == Spec => OnlyLoneYieldCrashes
<1>1. TypeOK /\ ListInv /\ [Next]_vars => [CrashByYield]_vars
  BY NextCrash
<1>2. OnlyLoneYieldCrashes <=> [][CrashByYield]_vars
  BY PTL DEF OnlyLoneYieldCrashes, CrashByYield
<1> QED
  BY <1>1, <1>2, ListsInvariant, PTL DEF Spec
-----------------------------------------------------------------------------
Live(Q, t) == ~ On(Q, t, freequeue)

\* PIDs are handed out in order and no two live tasks have the same.
PidsDiffer(T, Q, last) ==
  /\ last \in Nat
  /\ \A t \in Task : T[t].PID <= last
  /\ \A t, u \in Task : Live(Q, t) /\ Live(Q, u) /\ T[t].PID = T[u].PID => t = u

(* master_thread_address of a live task t is a live master: its own process,
   with the page directory of t, and it knows that it has threads. *)
Master(T, Q, t) ==
  LET m == T[t].master_thread_address
  IN  /\ m \in Task \ {idle_task} /\ Live(Q, m)
      /\ T[m].PID = T[t].master_thread /\ T[m].master_thread = T[m].PID
      /\ T[m].dir_pages_baseAddr = T[t].dir_pages_baseAddr
      /\ m # t => T[m].has_threads

(* The inductive invariant of the processes.  MasterAlive alone is not
   inductive: that an exit leaves no thread behind rests on has_threads, and
   that set_cr3 may be skipped on the masters being told apart by their PIDs. *)
Family(T, Q, last) ==
  /\ PidsDiffer(T, Q, last)
  /\ T[idle_task].PID = 0 /\ T[idle_task].master_thread = 0
  /\ \A t \in Task \ {idle_task} : Live(Q, t) => Master(T, Q, t)

ProcInv == Family(task, queue, global_PID) /\ RunsInOwnSpace

LEMMA InitProc == Init => ProcInv
<1> SUFFICES ASSUME Init PROVE ProcInv
  OBVIOUS
<1> USE SchedAssumption DEF Init, init_sched, init_process
<1>1. \A t \in Task : /\ task[t].PID = IF t = idle_task THEN 0 ELSE IF t = 1 THEN 1 ELSE -1
                      /\ t \in {idle_task, 1} => task[t].master_thread = t
                      /\ t = 1 => task[t].master_thread_address = 1
                      /\ t = 1 => task[t].dir_pages_baseAddr = 1
  BY DEF init_idle, init_task1, free_task, idle_task
<1>2. ASSUME NEW t \in Task PROVE Live(queue, t) <=> t \in {idle_task, 1}
  <2>1. freequeue \in Queue
    BY QueueNames
  <2>2. On(queue, t, freequeue) <=> t \in 2 .. NR_TASKS - 1
    <3>1. queue[freequeue] = init_freequeue
      BY <2>1
    <3>2. ASSUME t \in 2 .. NR_TASKS - 1 PROVE On(queue, t, freequeue)
      <4>1. t - 1 \in 1 .. NR_TASKS - 2 /\ (t - 1) + 1 = t
        BY <3>2 DEF Task
      <4> QED
        BY <3>1, <4>1 DEF On, init_freequeue
    <3>3. ASSUME On(queue, t, freequeue) PROVE t \in 2 .. NR_TASKS - 1
      BY <3>1, <3>3 DEF On, init_freequeue
    <3> QED
      BY <3>2, <3>3
  <2> QED
    BY <2>2 DEF Live, Task, idle_task
<1>3. PidsDiffer(task, queue, global_PID)
  BY <1>1, <1>2 DEF PidsDiffer, idle_task
<1>4. \A t \in Task \ {idle_task} : Live(queue, t) => Master(task, queue, t)
  BY <1>1, <1>2, QueueNames DEF Master, idle_task
<1>5. RunsInOwnSpace
  BY <1>1, QueueNames DEF RunsInOwnSpace
<1> QED
  BY <1>1, <1>3, <1>4, <1>5, QueueNames DEF ProcInv, Family, idle_task

LEMMA ProcSays ==
  ASSUME TypeOK, ProcInv PROVE MasterAlive /\ PidFindsTask /\ RunsInOwnSpace
<1>1. \A t \in Task : Live(queue, t) <=> t \in Alive
  BY DEF Live, Alive, On, OnList
<1>2. MasterAlive
  BY <1>1 DEF ProcInv, Family, Master, MasterAlive, Alive
<1>3. PidFindsTask
  <2> SUFFICES ASSUME NEW t \in Alive, NEW u \in stats_slot(task[t].PID), ~ OnList(u, freequeue)
               PROVE  u = t
    BY DEF PidFindsTask
  <2>1. u \in Task /\ t \in Task /\ task[u].PID = task[t].PID /\ Live(queue, t) /\ Live(queue, u)
    BY <1>1 DEF stats_slot, Alive
  <2> QED
    BY <2>1 DEF ProcInv, Family, PidsDiffer
<1> QED
  BY <1>2, <1>3 DEF ProcInv
-----------------------------------------------------------------------------
\* inner_task_switch, by what the tables said before the call.
SwitchSpace ==
  cr3' = IF task[current].master_thread = task[current'].master_thread
           THEN cr3 ELSE task[current'].dir_pages_baseAddr

LEMMA SwitchSetsSpace ==
  ASSUME NEW T \in [Task -> task_struct], NEW Q, NEW path, sched_next_rr(T, Q, path),
         current \in Task, current' \in Task,
         \A t \in Task : /\ T[t].master_thread = task[t].master_thread
                         /\ T[t].dir_pages_baseAddr = task[t].dir_pages_baseAddr
  PROVE  SwitchSpace
<1> DEFINE U == [T EXCEPT ![current'].state = "ST_RUN"]
<1>1. cr3' = IF U[current].master_thread = U[current'].master_thread
               THEN cr3 ELSE U[current'].dir_pages_baseAddr
  BY DEF sched_next_rr, task_switch, switch_stack
<1>2. \A t \in Task : /\ U[t].master_thread = T[t].master_thread
                      /\ U[t].dir_pages_baseAddr = T[t].dir_pages_baseAddr
  BY DEF task_struct
<1> HIDE DEF U
<1> QED
  BY <1>1, <1>2 DEF SwitchSpace

(* Skipping set_cr3 between tasks of equal master_thread is sound: they are
   threads of one process, or both are idle_task. *)
LEMMA SpacesAgree ==
  ASSUME TypeOK, ProcInv, SwitchSpace, current' \in Task, Live(queue, current), Live(queue, current'),
         task'[current'].dir_pages_baseAddr = task[current'].dir_pages_baseAddr
  PROVE  RunsInOwnSpace'
<1> DEFINE a == current
           b == current'
<1>1. /\ a \in Task /\ b \in Task /\ idle_task \in Task
      /\ \A t, u \in Task : Live(queue, t) /\ Live(queue, u) /\ task[t].PID = task[u].PID => t = u
      /\ task[idle_task].PID = 0 /\ task[idle_task].master_thread = 0
      /\ \A t \in Task \ {idle_task} : Live(queue, t) => Master(task, queue, t)
      /\ cr3 = task[a].dir_pages_baseAddr
      /\ Live(queue, a) /\ Live(queue, b)
  BY QueueNames DEF ProcInv, Family, PidsDiffer, TypeOK, RunsInOwnSpace
<1> HIDE DEF a, b
<1>2. ASSUME NEW t \in Task \ {idle_task}, Live(queue, t), task[t].master_thread = 0, Live(queue, idle_task)
      PROVE  FALSE
  BY <1>1, <1>2 DEF Master
<1>3. ASSUME task[a].master_thread = task[b].master_thread
      PROVE  task[a].dir_pages_baseAddr = task[b].dir_pages_baseAddr
  <2>1. CASE a = idle_task \/ b = idle_task
    BY <1>1, <1>2, <1>3, <2>1
  <2>2. CASE a # idle_task /\ b # idle_task
    BY <1>1, <1>3, <2>2 DEF Master
  <2> QED
    BY <2>1, <2>2
<1> QED
  BY <1>1, <1>3 DEF SwitchSpace, RunsInOwnSpace, a, b
-----------------------------------------------------------------------------
\* The fields that make up a process.
SameProcess(U, T) ==
  \A t \in Task : /\ U[t].PID = T[t].PID
                  /\ U[t].master_thread = T[t].master_thread
                  /\ U[t].master_thread_address = T[t].master_thread_address
                  /\ U[t].dir_pages_baseAddr = T[t].dir_pages_baseAddr
                  /\ U[t].has_threads = T[t].has_threads

\* A step that creates and ends no task: at most, the CPU changes hands.
Quiet ==
  /\ SameProcess(task', task)
  /\ \A t \in Task : On(queue', t, freequeue) <=> On(queue, t, freequeue)
  /\ SwitchSpace
  /\ UNCHANGED global_PID

LEMMA QuietKeeps ==
  ASSUME TypeOK, TypeOK', ListInv, ListInv', ProcInv, Quiet PROVE ProcInv'
<1>1. /\ current \in Task /\ current' \in Task /\ freequeue \in Queue /\ idle_task \in Task
      /\ Unlinked(queue, current) /\ Unlinked(queue', current')
  BY QueueNames DEF TypeOK, ListInv, Links
<1>2. \A t \in Task : Live(queue', t) <=> Live(queue, t)
  BY DEF Quiet, Live
<1>3. Live(queue, current) /\ Live(queue, current')
  BY <1>1, <1>2 DEF Live, Unlinked
<1>4. RunsInOwnSpace'
  BY <1>1, <1>3, SpacesAgree DEF Quiet, SameProcess
<1>5. PidsDiffer(task', queue', global_PID')
  BY <1>2 DEF ProcInv, Family, PidsDiffer, Quiet, SameProcess
<1>6. task'[idle_task].PID = 0 /\ task'[idle_task].master_thread = 0
  BY <1>1 DEF ProcInv, Family, Quiet, SameProcess
<1>7. ASSUME NEW t \in Task \ {idle_task}, Live(queue', t) PROVE Master(task', queue', t)
  <2>1. Master(task, queue, t)
    BY <1>2, <1>7 DEF ProcInv, Family
  <2>2. SameProcess(task', task)
    BY DEF Quiet
  <2> QED
    BY <1>2, <2>1, <2>2 DEF Master, SameProcess
<1> QED
  BY <1>4, <1>5, <1>6, <1>7 DEF ProcInv, Family

\* A task is on one list only.
LEMMA OnOne ==
  ASSUME NEW Q, Once(Q), NEW t, NEW p \in Queue, NEW q \in Queue, On(Q, t, p), On(Q, t, q)
  PROVE  p = q
  BY DEF Once, On

\* leave_cpu is quiet.
LEMMA LeaveQuiet ==
  ASSUME task \in [Task -> task_struct], current \in Task,
         NEW T \in [Task -> task_struct], NEW Q \in [Queue -> Seq(Task)],
         NEW q \in {readyqueue, blocked, getKey_blocked}, NEW path,
         leave_cpu(T, Q, q, path), Links(Q, current), current = idle_task => q = readyqueue,
         SameProcess(T, task),
         \A t \in Task : On(Q, t, freequeue) <=> On(queue, t, freequeue),
         UNCHANGED global_PID
  PROVE  Quiet
<1> DEFINE R == list_add_tail(Q, current, q)
           st == IF q = readyqueue THEN "ST_READY" ELSE "ST_BLOCKED"
           U == [T EXCEPT ![current].state = st]
<1>1. q \in Queue /\ q # freequeue /\ freequeue \in Queue /\ readyqueue \in Queue
  BY QueueNames, QueuesApart
<1>2. Once(Q) /\ Unlinked(Q, current) /\ IdleReady(Q)
  BY DEF Links
<1>3. /\ current' \in Task
      /\ \/ current' = idle_task
         \/ On(Q, current', readyqueue)
         \/ current' = current /\ q = readyqueue
      /\ \A u \in Task, p \in Queue :
           On(queue', u, p) <=> u # current' /\ (On(Q, u, p) \/ (u = current /\ p = q))
  BY <1>1, <1>2, LeaveLinks
<1>4. ~ On(Q, current', freequeue)
  BY <1>1, <1>2, <1>3, OnOne, QueuesApart DEF Unlinked, IdleReady
<1>5. \A t \in Task : On(queue', t, freequeue) <=> On(queue, t, freequeue)
  BY <1>1, <1>3, <1>4
<1>6. SameIdentity(task', T)
  BY <1>1, LeaveFields
<1>7. U \in [Task -> task_struct] /\ sched_next_rr(U, R, path)
  BY SetField DEF leave_cpu, state_t
<1>8. \A t \in Task : /\ U[t].master_thread = T[t].master_thread
                      /\ U[t].dir_pages_baseAddr = T[t].dir_pages_baseAddr
  BY DEF task_struct
<1> HIDE DEF U, R
<1>9. SwitchSpace
  BY <1>3, <1>7, <1>8, SwitchSetsSpace DEF SameProcess
<1>10. SameProcess(task', task)
  BY <1>6 DEF SameIdentity, SameProcess
<1> QED
  BY <1>5, <1>9, <1>10 DEF Quiet

\* Moving the first task of a list to readyqueue is quiet, unless it was free.
LEMMA WakeQuiet ==
  ASSUME TypeOK, ListInv, NEW p \in Queue, p # freequeue, queue[p] # <<>>,
         queue' = list_add_tail(list_del_first(queue, p), Head(queue[p]), readyqueue)
  PROVE  \A t \in Task : On(queue', t, freequeue) <=> On(queue, t, freequeue)
<1> DEFINE h == Head(queue[p])
<1>1. /\ queue \in [Queue -> Seq(Task)] /\ freequeue \in Queue
      /\ readyqueue \in Queue /\ readyqueue # freequeue /\ Once(queue)
  BY QueueNames, QueuesApart DEF TypeOK, ListInv, Links
<1>2. /\ h \in Task /\ On(queue, h, p) /\ Once(queue')
      /\ \A u \in Task, r \in Queue :
           On(queue', u, r) <=> IF u = h THEN r = readyqueue ELSE On(queue, u, r)
  BY <1>1, MoveLinks
<1> HIDE DEF h
<1>3. ~ On(queue, h, freequeue)
  BY <1>1, <1>2, OnOne
<1> QED
  BY <1>1, <1>2, <1>3

LEMMA IdleStepQuiet ==
  ASSUME UNCHANGED <<queue, current, cr3, global_PID>>, SameProcess(task', task)
  PROVE  Quiet
  BY DEF Quiet, SwitchSpace

\* The system calls and interrupts that create and end no task are quiet.
LEMMA SchedNextQuiet ==
  ASSUME TypeOK, ListInv, SchedNext PROVE Quiet
<1>1. /\ task \in [Task -> task_struct] /\ queue \in [Queue -> Seq(Task)]
      /\ current \in Task /\ Links(queue, current) /\ UNCHANGED global_PID
      /\ SameProcess(task, task)
  BY DEF TypeOK, ListInv, SchedNext, SameProcess
<1>2. CASE Spin
  BY <1>1, <1>2, IdleStepQuiet DEF Spin, schedVars
<1>3. ASSUME NEW q \in {readyqueue, blocked}, NEW path, leave_cpu(task, queue, q, path), Syscall
      PROVE  Quiet
  BY <1>1, <1>3, LeaveQuiet DEF Syscall
<1> QED
  BY <1>2, <1>3 DEF SchedNext, Yield, Block

LEMMA KeyNextQuiet ==
  ASSUME TypeOK, ListInv, KeyNext PROVE Quiet
<1>1. /\ task \in [Task -> task_struct] /\ queue \in [Queue -> Seq(Task)]
      /\ current \in Task /\ Links(queue, current) /\ States(task, queue, current)
      /\ UNCHANGED global_PID /\ SameProcess(task, task) /\ SchedTypeOK
  BY TypeParts DEF TypeOK, ListInv, KeyNext, SameProcess
<1>2. ASSUME NEW timeout \in Timeouts
      PROVE  LET T == [task EXCEPT ![current].key_timeout = timeout]
             IN  T \in [Task -> task_struct] /\ SameProcess(T, task)
  <2>1. timeout \in Int
    BY KeyAssumption
  <2> QED
    BY <1>1, <2>1, SetField, SMTT(30) DEF task_struct, SameProcess
<1>3. ASSUME NEW timeout \in Timeouts, GetKeyWaits(timeout) PROVE Quiet
  <2> DEFINE T == [task EXCEPT ![current].key_timeout = timeout]
  <2>1. T \in [Task -> task_struct] /\ SameProcess(T, task)
    BY <1>2
  <2>2. leave_cpu(T, queue, getKey_blocked, "getKey") /\ current # idle_task
    BY <1>3 DEF GetKeyWaits, Syscall
  <2> HIDE DEF T
  <2> QED
    BY <1>1, <2>1, <2>2, LeaveQuiet
<1>4. ASSUME NEW timeout \in Timeouts, GetKeyAtOnce(timeout) PROVE Quiet
  <2>1. SameProcess(task', task) /\ UNCHANGED <<queue, current, cr3>>
    BY <1>2, <1>4 DEF GetKeyAtOnce
  <2> QED
    BY <1>1, <2>1, IdleStepQuiet
<1>5. ASSUME UNCHANGED <<task, queue, current, cr3>> PROVE Quiet
  BY <1>1, <1>5, IdleStepQuiet
<1>6. ASSUME NEW c \in Keys, KeyPress(c), queue[getKey_blocked] # <<>> PROVE Quiet
  <2> DEFINE h == Head(queue[getKey_blocked])
  <2>1. h \in Task /\ On(queue, h, getKey_blocked)
    BY <1>1, <1>6, QueueNames, DelFirstType, DelFirstLinks DEF Links
  <2>2. task[h].state = "ST_BLOCKED"
    BY <1>1, <2>1 DEF States
  <2>3. /\ queue' = list_add_tail(list_del_first(queue, getKey_blocked), h, readyqueue)
        /\ task' = [task EXCEPT ![h].state = "ST_READY"] /\ UNCHANGED <<current, cr3>>
    BY <1>6, <2>2 DEF KeyPress, wake_first
  <2>4. \A t \in Task : On(queue', t, freequeue) <=> On(queue, t, freequeue)
    BY <1>6, <2>3, WakeQuiet, QueueNames, QueuesApart
  <2> HIDE DEF h
  <2>5. SameProcess(task', task)
    BY <1>1, <2>1, <2>3 DEF task_struct, SameProcess
  <2> QED
    BY <1>1, <2>3, <2>4, <2>5 DEF Quiet, SwitchSpace
<1>7. ASSUME ClockTick PROVE Quiet
  <2>1. PICK f \in InOrder(Expired), g \in InOrder(Staying) :
             schedule(count_down, wake_expired(f, g))
    BY <1>7 DEF ClockTick
  <2> DEFINE W == wake_expired(f, g)
  <2>2. count_down \in [Task -> task_struct] /\ W \in [Queue -> Seq(Task)]
    BY <1>1, CountDownType
  <2>3. Links(W, current)
    BY <1>1, CountDownKeeps
  <2>4. \A t \in Task : On(W, t, freequeue) <=> On(queue, t, freequeue)
    <3>1. W[freequeue] = queue[freequeue]
      BY <1>1, QueueNames, QueuesApart DEF wake_expired
    <3> QED
      BY <3>1 DEF On
  <2>5. SameProcess(count_down, task)
    BY <1>1, CountDownFields DEF SameProcess
  <2> HIDE DEF W
  <2>6. CASE leave_cpu(count_down, W, readyqueue, "clock")
    BY <1>1, <2>2, <2>3, <2>4, <2>5, <2>6, LeaveQuiet
  <2>7. CASE task' = count_down /\ queue' = W /\ UNCHANGED <<current, cr3>>
    BY <1>1, <2>4, <2>5, <2>7 DEF Quiet, SwitchSpace
  <2> QED
    BY <2>1, <2>6, <2>7 DEF schedule, W
<1> QED
  BY <1>3, <1>4, <1>5, <1>6, <1>7 DEF KeyNext, GetKeyResumes, KeyPress, KeyRelease, schedVars

LEMMA SemNextQuiet ==
  ASSUME TypeOK, ListInv, SemNext PROVE Quiet
<1>1. /\ task \in [Task -> task_struct] /\ queue \in [Queue -> Seq(Task)]
      /\ current \in Task /\ Links(queue, current) /\ States(task, queue, current)
      /\ UNCHANGED global_PID /\ SameProcess(task, task)
  BY DEF TypeOK, ListInv, SemNext, SameProcess
<1>2. ASSUME UNCHANGED <<task, queue, current, cr3>> PROVE Quiet
  BY <1>1, <1>2, IdleStepQuiet
<1>3. ASSUME NEW v \in SemValues, sem_create(v) PROVE Quiet
  <2>1. queue' = queue
    BY <1>3, SemCreateLists
  <2> QED
    BY <1>2, <1>3, <2>1 DEF sem_create
<1>4. ASSUME NEW s \in Created, semWait(s) PROVE Quiet
  <2>1. CASE sched_next_rr(task, list_add_tail(queue, current, s), "semWait")
    <3> DEFINE R == list_add_tail(queue, current, s)
    <3>1. /\ s \in Semafor \cup {freequeue} /\ s \in Semafor /\ s \in Queue /\ current # idle_task
          /\ freequeue \in Queue /\ s # freequeue
      BY <1>4, QueueNames, QueuesApart DEF semWait, Syscall, Created
    <3>2. /\ current' \in Task
          /\ \A u \in Task, p \in Queue :
               On(queue', u, p) <=> u # current' /\ (On(queue, u, p) \/ (u = current /\ p = s))
      BY <1>1, <2>1, <3>1, JoinKeeps
    <3>3. SwitchSpace
      BY <1>1, <2>1, <3>2, SwitchSetsSpace
    <3>4. Once(queue) /\ Unlinked(queue, current) /\ IdleReady(queue)
      BY <1>1 DEF Links
    <3>5. /\ R \in [Queue -> Seq(Task)] /\ Once(R)
          /\ \A u \in Task, p \in Queue : On(R, u, p) <=> On(queue, u, p) \/ (u = current /\ p = s)
      BY <1>1, <3>1, <3>4, AddTailType, AddTailLinks
    <3>6. sched_next_rr(task, R, "semWait")
      BY <2>1
    <3> HIDE DEF R
    <3>7. IdleReady(R)
      BY <1>1, <3>1, <3>4, <3>5, QueueNames DEF IdleReady
    <3>8. current' = idle_task \/ On(R, current', readyqueue)
      BY <3>5, <3>6, <3>7, SwitchLinks
    <3>9. ~ On(R, current', freequeue)
      BY <3>1, <3>5, <3>7, <3>8, OnOne, QueueNames, QueuesApart DEF IdleReady
    <3>10. \A t \in Task : On(queue', t, freequeue) <=> On(queue, t, freequeue)
      BY <3>1, <3>2, <3>5, <3>9
    <3>11. SameProcess(task', task)
      <4>1. SameIdentity(task', task)
        BY <1>1, <3>5, <3>6, SwitchFields
      <4> QED
        BY <4>1 DEF SameIdentity, SameProcess
    <3> QED
      BY <1>1, <3>3, <3>10, <3>11 DEF Quiet
  <2> QED
    BY <1>2, <1>4, <2>1 DEF semWait, schedVars
<1>5. ASSUME NEW s \in Created, semSignal(s) PROVE Quiet
  <2>1. s \in Queue /\ s # freequeue
    BY QueueNames, QueuesApart DEF Created
  <2>2. CASE /\ queue[s] # <<>>
             /\ queue' = list_add_tail(list_del_first(queue, s), Head(queue[s]), readyqueue)
             /\ UNCHANGED <<task, current, cr3>>
    <3>1. \A t \in Task : On(queue', t, freequeue) <=> On(queue, t, freequeue)
      BY <2>1, <2>2, WakeQuiet
    <3> QED
      BY <1>1, <2>2, <3>1 DEF Quiet, SwitchSpace
  <2> QED
    BY <1>2, <1>5, <2>2 DEF semSignal, schedVars
<1> QED
  BY <1>3, <1>4, <1>5 DEF SemNext
-----------------------------------------------------------------------------
\* The free slot c is handed out; nobody alive refers to it.
LEMMA SlotTaken ==
  ASSUME TypeOK, ListInv, ProcInv, queue[freequeue] # <<>>,
         NEW q \in {readyqueue, freequeue}, queue' = MoveFreeSlot(q), current' = current
  PROVE  LET c == Head(queue[freequeue])
         IN  /\ c \in Task \ {current, idle_task}
             /\ \A t \in Task : Live(queue', t) <=> Live(queue, t) \/ (t = c /\ q = readyqueue)
             /\ ~ Live(queue, c)
             /\ current \in Task \ {idle_task} => Master(task, queue, current)
<1>1. freequeue \in Queue /\ freequeue # readyqueue /\ current \in Task
      /\ Unlinked(queue, current)
  BY QueueNames, QueuesApart DEF TypeOK, ListInv, Links
<1>2. /\ Head(queue[freequeue]) \in Task \ {current, idle_task}
      /\ On(queue, Head(queue[freequeue]), freequeue)
      /\ \A u \in Task, p \in Queue :
           On(queue', u, p) <=> IF u = Head(queue[freequeue]) THEN p = q ELSE On(queue, u, p)
  BY MoveFreeSlotLists
<1>3. current \in Task \ {idle_task} => Master(task, queue, current)
  BY <1>1 DEF ProcInv, Family, Live, Unlinked
<1> QED
  BY <1>1, <1>2, <1>3 DEF Live

\* sys_fork: the child is a process of its own.
LEMMA ForkProc ==
  ASSUME TypeOK, ListInv, ProcInv, Fork PROVE ProcInv'
<1> DEFINE c == Head(queue[freequeue])
           g == global_PID + 1
<1>1. /\ queue[freequeue] # <<>> /\ queue' = MoveFreeSlot(readyqueue) /\ current' = current
      /\ cr3' = task[current].dir_pages_baseAddr /\ global_PID' = g
      /\ global_PID \in Nat /\ current \in Task
  BY DEF Fork, FreeSlot, TypeOK
<1>2. /\ c \in Task \ {current, idle_task} /\ ~ Live(queue, c)
      /\ \A t \in Task : Live(queue', t) <=> Live(queue, t) \/ t = c
  BY <1>1, SlotTaken
<1>3. /\ \A t \in Task \ {c} : task'[t] = task[t]
      /\ task'[c].PID = g /\ task'[c].master_thread = g
      /\ task'[c].master_thread_address = c
      /\ task'[c].dir_pages_baseAddr = c
  BY <1>2, ForkFields
<1>4. /\ \A t \in Task : task[t].PID <= global_PID /\ task[t].PID \in Int
      /\ \A t, u \in Task : Live(queue, t) /\ Live(queue, u) /\ task[t].PID = task[u].PID => t = u
      /\ task[idle_task].PID = 0 /\ task[idle_task].master_thread = 0
      /\ \A t \in Task \ {idle_task} : Live(queue, t) => Master(task, queue, t)
      /\ idle_task \in Task
  BY QueueNames DEF ProcInv, Family, PidsDiffer, TypeOK, task_struct
<1> HIDE DEF c
<1>5. PidsDiffer(task', queue', global_PID')
  <2>1. \A t \in Task : task'[t].PID <= g /\ (task'[t].PID = g => t = c)
    BY <1>1, <1>2, <1>3, <1>4
  <2>2. ASSUME NEW t \in Task, NEW u \in Task, Live(queue', t), Live(queue', u),
               task'[t].PID = task'[u].PID
        PROVE  t = u
    <3>1. CASE t = c \/ u = c
      BY <1>3, <2>1, <2>2, <3>1
    <3>2. CASE t # c /\ u # c
      BY <1>2, <1>3, <1>4, <2>2, <3>2
    <3> QED
      BY <3>1, <3>2
  <2> QED
    BY <1>1, <2>1, <2>2 DEF PidsDiffer
<1>6. ASSUME NEW t \in Task \ {idle_task}, Live(queue', t) PROVE Master(task', queue', t)
  <2>1. CASE t = c
    BY <1>2, <1>3, <2>1 DEF Master
  <2>2. CASE t # c
    <3>1. Master(task, queue, t) /\ task[t].master_thread_address # c
      BY <1>2, <1>4, <1>6, <2>2 DEF Master
    <3> QED
      BY <1>2, <1>3, <2>2, <3>1 DEF Master
  <2> QED
    BY <2>1, <2>2
<1>7. RunsInOwnSpace'
  BY <1>1, <1>2, <1>3 DEF RunsInOwnSpace
<1> QED
  BY <1>2, <1>3, <1>4, <1>5, <1>6, <1>7 DEF ProcInv, Family

\* A failed creation leaves its traces in a free slot only.
LEMMA FailProc ==
  ASSUME TypeOK, ListInv, ProcInv, ForkFails \/ ThreadCreateFails PROVE ProcInv'
<1> DEFINE c == Head(queue[freequeue])
<1>1. /\ queue[freequeue] # <<>> /\ queue' = MoveFreeSlot(freequeue) /\ current' = current
      /\ cr3' = cr3 /\ global_PID' = global_PID /\ current \in Task
  BY DEF ForkFails, ThreadCreateFails, TypeOK
<1>2. /\ c \in Task \ {current, idle_task} /\ ~ Live(queue, c)
      /\ \A t \in Task : Live(queue', t) <=> Live(queue, t)
  BY <1>1, SlotTaken, QueuesApart
<1>3. /\ \A t \in Task \ {c} : task'[t] = task[t]
      /\ task'[c].PID = task[current].PID
  <2>1. task \in [Task -> task_struct] /\ task[current] \in task_struct
    BY DEF TypeOK
  <2> QED
    BY <1>2, <2>1 DEF ForkFails, ThreadCreateFails, task_struct
<1>4. /\ \A t \in Task : task[t].PID <= global_PID
      /\ \A t, u \in Task : Live(queue, t) /\ Live(queue, u) /\ task[t].PID = task[u].PID => t = u
      /\ task[idle_task].PID = 0 /\ task[idle_task].master_thread = 0
      /\ \A t \in Task \ {idle_task} : Live(queue, t) => Master(task, queue, t)
      /\ idle_task \in Task /\ global_PID \in Nat
  BY QueueNames DEF ProcInv, Family, PidsDiffer, TypeOK, task_struct
<1> HIDE DEF c
<1>5. PidsDiffer(task', queue', global_PID')
  <2>1. \A t \in Task : task'[t].PID <= global_PID
    BY <1>1, <1>3, <1>4
  <2>2. \A t, u \in Task : Live(queue', t) /\ Live(queue', u) /\ task'[t].PID = task'[u].PID => t = u
    BY <1>2, <1>3, <1>4
  <2> QED
    BY <1>1, <1>4, <2>1, <2>2 DEF PidsDiffer
<1>6. ASSUME NEW t \in Task \ {idle_task}, Live(queue', t) PROVE Master(task', queue', t)
  <2>1. Master(task, queue, t) /\ task[t].master_thread_address # c /\ t # c
    BY <1>2, <1>4, <1>6 DEF Master
  <2> QED
    BY <1>2, <1>3, <2>1 DEF Master
<1>7. RunsInOwnSpace'
  BY <1>1, <1>2, <1>3 DEF RunsInOwnSpace, ProcInv
<1> QED
  BY <1>2, <1>3, <1>4, <1>5, <1>6, <1>7 DEF ProcInv, Family

\* sys_threadCreateWithStack: the thread has the master of its creator.
LEMMA ThreadProc ==
  ASSUME TypeOK, ListInv, ProcInv, ThreadCreate PROVE ProcInv'
<1> DEFINE c == Head(queue[freequeue])
           g == global_PID + 1
           flag == \/ task[current].master_thread = task[current].PID
                   \/ task[current].has_threads
<1>1. /\ queue[freequeue] # <<>> /\ queue' = MoveFreeSlot(readyqueue) /\ current' = current
      /\ cr3' = cr3 /\ global_PID' = g
      /\ global_PID \in Nat /\ current \in Task /\ current # idle_task
  BY DEF ThreadCreate, FreeSlot, TypeOK, Syscall
<1>2. /\ c \in Task \ {current, idle_task} /\ ~ Live(queue, c)
      /\ \A t \in Task : Live(queue', t) <=> Live(queue, t) \/ t = c
      /\ Master(task, queue, current)
  BY <1>1, SlotTaken
<1>3. /\ \A t \in Task \ {c, current} : task'[t] = task[t]
      /\ task'[current] = [task[current] EXCEPT !.has_threads = flag]
      /\ task'[c].PID = g
      /\ task'[c].master_thread = task[current].master_thread
      /\ task'[c].master_thread_address = task[current].master_thread_address
      /\ task'[c].dir_pages_baseAddr = task[current].dir_pages_baseAddr
  BY <1>2, ThreadFields
<1>4. /\ \A t \in Task : task[t].PID <= global_PID /\ task[t].PID \in Int
      /\ \A t, u \in Task : Live(queue, t) /\ Live(queue, u) /\ task[t].PID = task[u].PID => t = u
      /\ task[idle_task].PID = 0 /\ task[idle_task].master_thread = 0
      /\ \A t \in Task \ {idle_task} : Live(queue, t) => Master(task, queue, t)
      /\ idle_task \in Task /\ task[current] \in task_struct
  BY QueueNames DEF ProcInv, Family, PidsDiffer, TypeOK, task_struct
<1> HIDE DEF c
<1>5. /\ task'[current].PID = task[current].PID
      /\ task'[current].master_thread = task[current].master_thread
      /\ task'[current].master_thread_address = task[current].master_thread_address
      /\ task'[current].dir_pages_baseAddr = task[current].dir_pages_baseAddr
      /\ task'[current].has_threads = flag
  BY <1>3, <1>4 DEF task_struct
<1> HIDE DEF flag
<1>6. \A t \in Task \ {c} : /\ task'[t].PID = task[t].PID
                           /\ task'[t].master_thread = task[t].master_thread
                           /\ task'[t].master_thread_address = task[t].master_thread_address
                           /\ task'[t].dir_pages_baseAddr = task[t].dir_pages_baseAddr
  BY <1>3, <1>5
<1>7. \A t \in Task \ {c} : task[t].has_threads => task'[t].has_threads
  <2>1. task[current].has_threads => flag
    BY DEF flag
  <2> QED
    BY <1>3, <1>5, <2>1
<1>8. PidsDiffer(task', queue', global_PID')
  <2>1. \A t \in Task : task'[t].PID <= g /\ (task'[t].PID = g => t = c)
    BY <1>1, <1>2, <1>3, <1>4, <1>6
  <2>2. ASSUME NEW t \in Task, NEW u \in Task, Live(queue', t), Live(queue', u),
               task'[t].PID = task'[u].PID
        PROVE  t = u
    <3>1. CASE t = c \/ u = c
      BY <1>3, <2>1, <2>2, <3>1
    <3>2. CASE t # c /\ u # c
      BY <1>2, <1>4, <1>6, <2>2, <3>2
    <3> QED
      BY <3>1, <3>2
  <2> QED
    BY <1>1, <2>1, <2>2 DEF PidsDiffer
<1>9. ASSUME NEW t \in Task \ {idle_task}, Live(queue', t) PROVE Master(task', queue', t)
  <2>1. CASE t = c
    <3> DEFINE m == task[current].master_thread_address
    <3>1. /\ m \in Task \ {idle_task} /\ Live(queue, m) /\ m # c
          /\ task[m].PID = task[current].master_thread /\ task[m].master_thread = task[m].PID
          /\ task[m].dir_pages_baseAddr = task[current].dir_pages_baseAddr
          /\ m # current => task[m].has_threads
      BY <1>2 DEF Master
    <3> HIDE DEF m
    <3>2. task'[m].has_threads
      BY <1>3, <1>5, <1>7, <3>1 DEF flag
    <3>3. task'[t].master_thread_address = m
      BY <1>3, <2>1 DEF m
    <3> QED
      BY <1>2, <1>3, <1>6, <2>1, <3>1, <3>2, <3>3 DEF Master
  <2>2. CASE t # c
    <3>1. Master(task, queue, t) /\ task[t].master_thread_address # c
      BY <1>2, <1>4, <1>9, <2>2 DEF Master
    <3> QED
      BY <1>2, <1>6, <1>7, <2>2, <3>1 DEF Master
  <2> QED
    BY <2>1, <2>2
<1>10. RunsInOwnSpace'
  BY <1>1, <1>2, <1>6 DEF RunsInOwnSpace, ProcInv
<1> QED
  BY <1>2, <1>4, <1>6, <1>8, <1>9, <1>10 DEF ProcInv, Family

(* sys_exit of a thread, or of a master without threads: nobody alive has the
   task that ends as its master. *)
LEMMA ReleaseProc ==
  ASSUME TypeOK, ListInv, ProcInv, Syscall, release_and_switch, UNCHANGED global_PID,
         \/ task[current].master_thread # task[current].PID
         \/ ~ task[current].has_threads
  PROVE  ProcInv'
<1> DEFINE T == [task EXCEPT ![current].PID = -1]
           R == list_add_tail(queue, current, freequeue)
<1>1. /\ task \in [Task -> task_struct] /\ queue \in [Queue -> Seq(Task)]
      /\ current \in Task /\ current # idle_task
      /\ Links(queue, current) /\ States(task, queue, current)
      /\ Once(queue) /\ Unlinked(queue, current) /\ IdleReady(queue)
      /\ freequeue \in Queue /\ readyqueue \in Queue /\ freequeue # readyqueue
      /\ freequeue \in Semafor \cup {freequeue} /\ freequeue \notin Semafor
      /\ global_PID \in Nat
  BY QueueNames, QueuesApart DEF TypeOK, ListInv, Syscall, Links
<1>2. /\ T \in [Task -> task_struct]
      /\ \A t \in Task :
           /\ T[t].PID = IF t = current THEN -1 ELSE task[t].PID
           /\ T[t].state = task[t].state
           /\ T[t].register_esp = task[t].register_esp
           /\ T[t].master_thread = task[t].master_thread
           /\ T[t].master_thread_address = task[t].master_thread_address
           /\ T[t].dir_pages_baseAddr = task[t].dir_pages_baseAddr
           /\ T[t].has_threads = task[t].has_threads
  BY <1>1, ReleasedFields
<1>3. /\ R \in [Queue -> Seq(Task)] /\ Once(R)
      /\ \A u \in Task, p \in Queue : On(R, u, p) <=> On(queue, u, p) \/ (u = current /\ p = freequeue)
  BY <1>1, AddTailType, AddTailLinks
<1>4. sched_next_rr(T, R, "exit")
  BY DEF release_and_switch
<1>5. /\ current' \in Task /\ current' # current
      /\ \A u \in Task, p \in Queue :
           On(queue', u, p) <=> u # current' /\ (On(queue, u, p) \/ (u = current /\ p = freequeue))
  <2> HIDE DEF T
  <2>1. States(T, queue, current)
    BY <1>1, <1>2 DEF States
  <2> QED
    BY <1>1, <1>2, <1>4, <2>1, JoinKeeps
<1> HIDE DEF T, R
<1>6. IdleReady(R)
  BY <1>1, <1>3, QueueNames DEF IdleReady
<1>7. current' = idle_task \/ On(R, current', readyqueue)
  BY <1>3, <1>4, <1>6, SwitchLinks
<1>8. Live(queue, current) /\ Live(queue, current')
  <2>1. ~ On(R, current', freequeue)
    BY <1>1, <1>3, <1>6, <1>7, OnOne DEF IdleReady
  <2> QED
    BY <1>1, <1>3, <1>5, <2>1 DEF Live, Unlinked
<1>9. \A t \in Task : Live(queue', t) <=> Live(queue, t) /\ t # current
  BY <1>1, <1>5, <1>8 DEF Live
<1>10. \A t \in Task : /\ task'[t].PID = IF t = current THEN -1 ELSE task[t].PID
                       /\ task'[t].master_thread = task[t].master_thread
                       /\ task'[t].master_thread_address = task[t].master_thread_address
                       /\ task'[t].dir_pages_baseAddr = task[t].dir_pages_baseAddr
                       /\ task'[t].has_threads = task[t].has_threads
  <2>1. SameIdentity(task', T)
    BY <1>1, <1>2, <1>3, <1>4, SwitchFields
  <2> QED
    BY <1>2, <2>1 DEF SameIdentity
<1>11. RunsInOwnSpace'
  <2>1. SwitchSpace
    BY <1>1, <1>2, <1>4, <1>5, SwitchSetsSpace
  <2> QED
    BY <1>5, <1>8, <1>10, <2>1, SpacesAgree
<1>12. /\ \A t \in Task : task[t].PID <= global_PID
       /\ \A t, u \in Task : Live(queue, t) /\ Live(queue, u) /\ task[t].PID = task[u].PID => t = u
       /\ task[idle_task].PID = 0 /\ task[idle_task].master_thread = 0
       /\ \A t \in Task \ {idle_task} : Live(queue, t) => Master(task, queue, t)
       /\ idle_task \in Task
  BY QueueNames DEF ProcInv, Family, PidsDiffer
<1>13. PidsDiffer(task', queue', global_PID')
  BY <1>1, <1>9, <1>10, <1>12 DEF PidsDiffer
<1>14. ASSUME NEW t \in Task \ {idle_task}, Live(queue', t) PROVE Master(task', queue', t)
  <2> DEFINE m == task[t].master_thread_address
  <2>1. /\ m \in Task \ {idle_task} /\ Live(queue, m)
        /\ task[m].PID = task[t].master_thread /\ task[m].master_thread = task[m].PID
        /\ task[m].dir_pages_baseAddr = task[t].dir_pages_baseAddr
        /\ m # t => task[m].has_threads
    BY <1>9, <1>12, <1>14 DEF Master
  <2>2. t # current
    BY <1>9, <1>14
  <2> HIDE DEF m
  <2>3. m # current
    BY <2>1, <2>2
  <2>4. task'[t].master_thread_address = m
    BY <1>10 DEF m
  <2> QED
    BY <1>9, <1>10, <2>1, <2>2, <2>3, <2>4 DEF Master
<1> QED
  BY <1>1, <1>10, <1>11, <1>12, <1>13, <1>14 DEF ProcInv, Family

LEMMA ProcKept ==
  ASSUME TypeOK, TypeOK', ListInv, ListInv', ProcInv, [Next]_vars PROVE ProcInv'
<1>1. CASE ProcessNext
  <2>1. CASE Exit
    <3>1. CASE halted' = "hung" /\ UNCHANGED <<task, queue, current, cr3>>
      BY <2>1, <3>1, IdleStepQuiet, QuietKeeps DEF Exit, SameProcess
    <3> QED
      BY <2>1, <3>1, ReleaseProc DEF Exit
  <2> QED
    BY <1>1, <2>1, ForkProc, FailProc, ThreadProc DEF ProcessNext
<1>2. CASE UNCHANGED vars
  BY <1>2, IdleStepQuiet, QuietKeeps DEF vars, schedVars, SameProcess
<1>3. CASE SchedNext \/ KeyNext \/ SemNext
  BY <1>3, SchedNextQuiet, KeyNextQuiet, SemNextQuiet, QuietKeeps
<1> QED
  BY <1>1, <1>2, <1>3 DEF Next

LEMMA ProcInvariant == Spec => [](TypeOK /\ ListInv /\ ProcInv)
<1>1. TypeOK /\ ListInv /\ ProcInv /\ [Next]_vars /\ TypeOK' /\ ListInv' => ProcInv'
  BY ProcKept
<1> QED
  BY <1>1, InitProc, ListsInvariant, PTL DEF Spec

(* The MMU uses the page directory of the running task at all times, although
   inner_task_switch skips set_cr3 when the master_thread fields agree: PIDs
   of live masters are distinct, so equal fields mean one address space. *)
THEOREM OwnSpace == Spec => []RunsInOwnSpace
<1>1. TypeOK /\ ProcInv => RunsInOwnSpace
  BY ProcSays
<1> QED
  BY <1>1, ProcInvariant, PTL

(* While a thread lives, its master_thread_address is a live task with the PID
   it remembers and the page directory it runs in: sys_exit never takes a
   master away from its threads, however creations and exits interleave. *)
THEOREM MasterOutlivesThreads == Spec => []MasterAlive
<1>1. TypeOK /\ ProcInv => MasterAlive
  BY ProcSays
<1> QED
  BY <1>1, ProcInvariant, PTL

(* sys_get_stats never returns the counters of another live task: the slot it
   finds for the PID of a live task is that task's or a free one. *)
THEOREM StatsSlotRight == Spec => []PidFindsTask
<1>1. TypeOK /\ ProcInv => PidFindsTask
  BY ProcSays
<1> QED
  BY <1>1, ProcInvariant, PTL
-----------------------------------------------------------------------------
(* The inductive invariant of the semaphores: WaitersCounted, together with
   where the values come from and who is to blame for a corrupted list. *)
SemInv ==
  /\ WaitersCounted /\ CorruptedByNegativeValue
  /\ \A s \in Created : sem[s].value \in SemValues

\* A step that leaves the semaphores and their lists alone.
SemsKept ==
  /\ \A s \in Semafor : queue'[s] = queue[s]
  /\ UNCHANGED semVars
  /\ halted' = "no" => halted = "no"
  /\ halted' = "corrupt" => halted = "corrupt"

\* A switch takes nobody from the list of a semaphore.
LEMMA SwitchKeepsSems ==
  ASSUME NEW T, NEW Q \in [Queue -> Seq(Task)], NEW path, sched_next_rr(T, Q, path)
  PROVE  /\ \A s \in Semafor : queue'[s] = Q[s]
         /\ halted' \in {halted, "crashed"}
  BY QueueNames, QueuesApart
  DEF sched_next_rr, task_switch, switch_stack, list_del_first

\* Neither does leave_cpu add anybody to one.
LEMMA LeaveKeepsSems ==
  ASSUME NEW T, NEW Q \in [Queue -> Seq(Task)], current \in Task,
         NEW q \in {readyqueue, blocked, getKey_blocked}, NEW path, leave_cpu(T, Q, q, path)
  PROVE  /\ \A s \in Semafor : queue'[s] = Q[s]
         /\ halted' \in {halted, "crashed"}
<1> DEFINE R == list_add_tail(Q, current, q)
           U == [T EXCEPT ![current].state = IF q = readyqueue THEN "ST_READY" ELSE "ST_BLOCKED"]
<1>1. R \in [Queue -> Seq(Task)] /\ sched_next_rr(U, R, path)
  BY QueueNames, AddTailType DEF leave_cpu
<1>2. \A s \in Semafor : R[s] = Q[s]
  BY QueueNames, QueuesApart DEF list_add_tail
<1> HIDE DEF R, U
<1> QED
  BY <1>1, <1>2, SwitchKeepsSems

LEMMA SchedNextSems ==
  ASSUME TypeOK, SchedNext PROVE SemsKept
<1>1. queue \in [Queue -> Seq(Task)] /\ current \in Task /\ UNCHANGED semVars
  BY DEF TypeOK, SchedNext
<1>2. CASE Spin
  BY <1>1, <1>2 DEF Spin, schedVars, SemsKept
<1>3. ASSUME NEW q \in {readyqueue, blocked}, NEW path, leave_cpu(task, queue, q, path)
      PROVE  SemsKept
  BY <1>1, <1>3, LeaveKeepsSems DEF SemsKept
<1> QED
  BY <1>2, <1>3 DEF SchedNext, Yield, Block

LEMMA ProcessNextSems ==
  ASSUME TypeOK, ProcessNext PROVE SemsKept
<1>1. queue \in [Queue -> Seq(Task)] /\ current \in Task /\ UNCHANGED semVars
  BY DEF TypeOK, ProcessNext
<1>2. CASE Fork \/ ForkFails \/ ThreadCreate \/ ThreadCreateFails
  <2> DEFINE D == list_del_first(queue, freequeue)
             h == Head(queue[freequeue])
  <2>1. PICK q \in {readyqueue, freequeue} : queue' = list_add_tail(D, h, q) /\ halted' = halted
    BY <1>2 DEF Fork, ForkFails, ThreadCreate, ThreadCreateFails, MoveFreeSlot
  <2>2. D \in [Queue -> Seq(Task)] /\ h \in Task /\ \A s \in Semafor : D[s] = queue[s]
    <3>1. queue[freequeue] # <<>>
      BY <1>2 DEF Fork, ForkFails, ThreadCreate, ThreadCreateFails, FreeSlot
    <3> QED
      BY <1>1, <3>1, DelFirstType, QueueNames, QueuesApart DEF list_del_first
  <2> HIDE DEF D, h
  <2>3. \A s \in Semafor : queue'[s] = queue[s]
    BY <2>1, <2>2, QueueNames, QueuesApart DEF list_add_tail
  <2> QED
    BY <1>1, <2>1, <2>3 DEF SemsKept
<1>3. CASE Exit
  <2>1. CASE release_and_switch
    <3> DEFINE R == list_add_tail(queue, current, freequeue)
               T == [task EXCEPT ![current].PID = -1]
    <3>1. /\ R \in [Queue -> Seq(Task)] /\ sched_next_rr(T, R, "exit")
          /\ \A s \in Semafor : R[s] = queue[s]
      BY <1>1, <2>1, QueueNames, QueuesApart, AddTailType DEF release_and_switch, list_add_tail
    <3> HIDE DEF R, T
    <3> QED
      BY <1>1, <3>1, SwitchKeepsSems DEF SemsKept
  <2> QED
    BY <1>1, <1>3, <2>1 DEF Exit, SemsKept
<1> QED
  BY <1>2, <1>3 DEF ProcessNext

LEMMA KeyNextSems ==
  ASSUME TypeOK, KeyNext PROVE SemsKept
<1>1. /\ queue \in [Queue -> Seq(Task)] /\ current \in Task /\ UNCHANGED semVars /\ SchedTypeOK
  BY TypeParts DEF TypeOK, KeyNext
<1>2. ASSUME NEW timeout \in Timeouts, GetKeyWaits(timeout) PROVE SemsKept
  BY <1>1, <1>2, LeaveKeepsSems DEF GetKeyWaits, SemsKept
<1>3. ASSUME NEW c \in Keys, KeyPress(c) PROVE SemsKept
  <2>1. CASE queue[getKey_blocked] = <<>>
    BY <1>1, <1>3, <2>1 DEF KeyPress, SemsKept
  <2>2. CASE queue[getKey_blocked] # <<>>
    <3> DEFINE h == Head(queue[getKey_blocked])
               Q == IF task[h].state # "ST_RUN" THEN list_del_first(queue, getKey_blocked)
                                                ELSE queue
    <3>1. queue' = list_add_tail(Q, h, readyqueue) /\ halted' = halted
      BY <1>3, <2>2 DEF KeyPress, wake_first
    <3>2. Q \in [Queue -> Seq(Task)] /\ \A s \in Semafor : Q[s] = queue[s]
      BY <1>1, <2>2, DelFirstType, QueueNames, QueuesApart DEF list_del_first
    <3> HIDE DEF h, Q
    <3> QED
      BY <1>1, <3>1, <3>2, QueueNames, QueuesApart DEF list_add_tail, SemsKept
  <2> QED
    BY <2>1, <2>2
<1>4. ASSUME ClockTick PROVE SemsKept
  <2>1. PICK f \in InOrder(Expired), g \in InOrder(Staying) :
             schedule(count_down, wake_expired(f, g))
    BY <1>4 DEF ClockTick
  <2> DEFINE W == wake_expired(f, g)
  <2>2. W \in [Queue -> Seq(Task)] /\ \A s \in Semafor : W[s] = queue[s]
    BY <1>1, CountDownType, QueueNames, QueuesApart DEF wake_expired
  <2>3. \/ queue' = W /\ halted' = halted
        \/ leave_cpu(count_down, W, readyqueue, "clock")
    BY <2>1 DEF schedule
  <2> HIDE DEF W
  <2> QED
    BY <1>1, <2>2, <2>3, LeaveKeepsSems DEF SemsKept
<1>5. UNCHANGED <<queue, halted>> => SemsKept
  BY <1>1 DEF SemsKept
<1> QED
  BY <1>2, <1>3, <1>4, <1>5 DEF KeyNext, GetKeyAtOnce, GetKeyResumes, KeyRelease, schedVars

\* Such a step keeps the invariant.
LEMMA SemsKeptKeeps ==
  ASSUME SemInv, SemsKept PROVE SemInv'
<1>1. /\ Created' = Created /\ sem' = sem /\ Created \subseteq Semafor
  BY DEF SemsKept, semVars, Created
<1> QED
  BY <1>1 DEF SemInv, SemsKept, WaitersCounted, CorruptedByNegativeValue

\* What sys_semWait does to the semaphores.
LEMMA WaitEffect ==
  ASSUME TypeOK, NEW s \in Created, semWait(s)
  PROVE  /\ halted = "no" /\ halted' \in {"no", "crashed"}
         /\ \A r \in Semafor : sem'[r].value = sem[r].value
         /\ \A r \in Semafor : sem'[r].count = IF r = s THEN sem[s].count - 1 ELSE sem[r].count
         /\ freesem' = freesem /\ Created' = Created
         /\ \A r \in Semafor : queue'[r] = IF r = s /\ sem[s].count <= 0
                                            THEN Append(queue[s], current) ELSE queue[r]
<1>1. /\ queue \in [Queue -> Seq(Task)] /\ current \in Task /\ s \in Semafor /\ s \in Queue
      /\ sem \in [Semafor -> [count : Int, TID : Int, value : Int]]
      /\ sem[s].count \in Int /\ Semafor \subseteq Queue
  BY QueueNames DEF TypeOK, Created
<1>2. halted = "no" /\ freesem' = freesem /\ sem' = [sem EXCEPT ![s].count = @ - 1]
  BY DEF semWait, Syscall, UserMode
<1>3. /\ \A r \in Semafor : sem'[r].value = sem[r].value
      /\ \A r \in Semafor : sem'[r].count = IF r = s THEN sem[s].count - 1 ELSE sem[r].count
  BY <1>1, <1>2
<1>4. CASE sem[s].count <= 0
  <2> DEFINE R == list_add_tail(queue, current, s)
  <2>1. sched_next_rr(task, R, "semWait")
    BY <1>1, <1>4 DEF semWait
  <2>2. /\ R \in [Queue -> Seq(Task)]
        /\ \A r \in Semafor : R[r] = IF r = s THEN Append(queue[s], current) ELSE queue[r]
    BY <1>1, AddTailType DEF list_add_tail
  <2> HIDE DEF R
  <2>3. /\ \A r \in Semafor : queue'[r] = R[r]
        /\ halted' \in {halted, "crashed"}
    BY <2>1, <2>2, SwitchKeepsSems
  <2> QED
    BY <1>2, <1>3, <1>4, <2>2, <2>3 DEF Created
<1>5. CASE ~ (sem[s].count <= 0)
  <2>1. UNCHANGED schedVars
    BY <1>1, <1>5 DEF semWait
  <2> QED
    BY <1>2, <1>3, <1>5, <2>1 DEF schedVars, Created
<1> QED
  BY <1>4, <1>5

\* What sys_semSignal does to the semaphores.
LEMMA SignalEffect ==
  ASSUME TypeOK, NEW s \in Created, semSignal(s)
  PROVE  /\ halted = "no"
         /\ \A r \in Semafor : sem'[r].value = sem[r].value
         /\ \A r \in Semafor : sem'[r].count = IF r = s THEN sem[s].count + 1 ELSE sem[r].count
         /\ freesem' = freesem /\ Created' = Created
         /\ \A r \in Semafor \ {s} : queue'[r] = queue[r]
         /\ \/ sem[s].count >= 0 /\ queue'[s] = queue[s] /\ halted' = "no"
            \/ /\ sem[s].count < 0 /\ queue[s] # <<>>
               /\ queue'[s] = Tail(queue[s]) /\ halted' = "no"
            \/ /\ sem[s].count < 0 /\ queue[s] = <<>>
               /\ queue'[s] = queue[s] /\ halted' = "corrupt"
<1>1. /\ queue \in [Queue -> Seq(Task)] /\ s \in Semafor /\ s \in Queue
      /\ sem \in [Semafor -> [count : Int, TID : Int, value : Int]]
      /\ sem[s].count \in Int /\ Semafor \subseteq Queue
  BY QueueNames DEF TypeOK, Created
<1>2. halted = "no" /\ freesem' = freesem /\ sem' = [sem EXCEPT ![s].count = @ + 1]
  BY DEF semSignal, Syscall, UserMode
<1>3. /\ \A r \in Semafor : sem'[r].value = sem[r].value
      /\ \A r \in Semafor : sem'[r].count = IF r = s THEN sem[s].count + 1 ELSE sem[r].count
  BY <1>1, <1>2
<1>4. Created' = Created
  BY <1>2 DEF Created
<1>5. CASE sem[s].count + 1 > 0 /\ UNCHANGED schedVars
  BY <1>1, <1>2, <1>3, <1>4, <1>5 DEF schedVars
<1>6. CASE /\ sem[s].count + 1 <= 0 /\ queue[s] # <<>> /\ halted' = halted
           /\ queue' = list_add_tail(list_del_first(queue, s), Head(queue[s]), readyqueue)
  <2> DEFINE D == list_del_first(queue, s)
             h == Head(queue[s])
  <2>1. /\ D \in [Queue -> Seq(Task)] /\ h \in Task /\ D[s] = Tail(queue[s])
        /\ \A r \in Semafor \ {s} : D[r] = queue[r]
        /\ queue' = [D EXCEPT ![readyqueue] = Append(@, h)]
    BY <1>1, <1>6, DelFirstType DEF list_del_first, list_add_tail
  <2> HIDE DEF D, h
  <2>2. \A r \in Semafor : queue'[r] = D[r]
    BY <1>1, <2>1, QueuesApart
  <2> QED
    BY <1>1, <1>2, <1>3, <1>4, <1>6, <2>1, <2>2
<1>7. CASE sem[s].count + 1 <= 0 /\ queue[s] = <<>> /\ halted' = "corrupt" /\ queue' = queue
  BY <1>1, <1>2, <1>3, <1>4, <1>7
<1> QED
  BY <1>5, <1>6, <1>7 DEF semSignal

\* What sys_sem_create does to the semaphores.
LEMMA CreateEffect ==
  ASSUME TypeOK, ListInv, NEW v \in SemValues, sem_create(v)
  PROVE  LET s == Head(freesem)
         IN  /\ s \in Semafor \ Created /\ Created' = Created \cup {s}
             /\ queue' = queue /\ queue[s] = <<>> /\ halted' = halted
             /\ sem'[s].count = v /\ sem'[s].value = v
             /\ \A r \in Semafor \ {s} : sem'[r] = sem[r]
<1> DEFINE s == Head(freesem)
<1>1. s \in Semafor \ Created /\ queue' = queue /\ Created' = Created \cup {s}
  BY SemCreateLists
<1>2. /\ queue' = [queue EXCEPT ![s] = <<>>] /\ halted' = halted
      /\ sem' = [sem EXCEPT ![s] = [count |-> v, TID |-> task[current].PID, value |-> v]]
  BY DEF sem_create
<1>3. /\ queue \in [Queue -> Seq(Task)] /\ s \in Queue
      /\ sem \in [Semafor -> [count : Int, TID : Int, value : Int]]
  BY <1>1, QueueNames DEF TypeOK
<1> HIDE DEF s
<1>4. queue'[s] = <<>>
  BY <1>2, <1>3
<1> QED
  BY <1>1, <1>2, <1>3, <1>4 DEF s

\* The semaphore calls keep the count of the waiters right.
LEMMA SemNextSems ==
  ASSUME TypeOK, ListInv, SemInv, SemNext PROVE SemInv'
<1>1. /\ \A s \in Semafor : sem[s].count \in Int /\ sem[s].value \in Int
      /\ \A s \in Semafor : queue[s] \in Seq(Task) /\ Len(queue[s]) \in Nat
      /\ Created \subseteq Semafor /\ SemValues \subseteq Int /\ current \in Task
  BY QueueNames, LenProperties, SemAssumption DEF TypeOK, Created
<1>2. ASSUME NEW v \in SemValues, sem_create(v) PROVE SemInv'
  <2> DEFINE s == Head(freesem)
  <2>1. /\ s \in Semafor \ Created /\ Created' = Created \cup {s}
        /\ queue' = queue /\ queue[s] = <<>> /\ halted' = halted
        /\ sem'[s].count = v /\ sem'[s].value = v
        /\ \A r \in Semafor \ {s} : sem'[r] = sem[r]
    BY <1>2, CreateEffect
  <2> HIDE DEF s
  <2>2. Len(queue[s]) = 0
    BY <2>1
  <2>3. WaitersCounted'
    BY <1>1, <2>1, <2>2 DEF SemInv, WaitersCounted, Excess
  <2>4. CorruptedByNegativeValue'
    BY <1>1, <2>1 DEF SemInv, CorruptedByNegativeValue
  <2> QED
    BY <1>1, <2>1, <2>3, <2>4 DEF SemInv
<1>3. ASSUME NEW s \in Created, semWait(s) PROVE SemInv'
  <2>1. /\ halted = "no" /\ halted' \in {"no", "crashed"}
        /\ \A r \in Semafor : sem'[r].value = sem[r].value
        /\ \A r \in Semafor : sem'[r].count = IF r = s THEN sem[s].count - 1 ELSE sem[r].count
        /\ freesem' = freesem /\ Created' = Created
        /\ \A r \in Semafor : queue'[r] = IF r = s /\ sem[s].count <= 0
                                           THEN Append(queue[s], current) ELSE queue[r]
    BY <1>3, WaitEffect
  <2>2. Len(Append(queue[s], current)) = Len(queue[s]) + 1
    BY <1>1, AppendProperties
  <2>3. \A r \in Created : Len(queue[r]) = Excess(sem[r].count) - Excess(sem[r].value)
    BY <2>1 DEF SemInv, WaitersCounted
  <2>4. ASSUME NEW r \in Created
        PROVE  Len(queue'[r]) = Excess(sem'[r].count) - Excess(sem'[r].value)
    <3>1. CASE r # s
      BY <1>1, <2>1, <2>3, <3>1
    <3>2. CASE r = s /\ sem[s].count <= 0
      <4>1. queue'[r] = Append(queue[s], current) /\ sem'[r].count = sem[s].count - 1
        BY <1>1, <2>1, <3>2
      <4>2. Excess(sem[s].count - 1) = Excess(sem[s].count) + 1
        BY <1>1, <3>2 DEF Excess
      <4>3. Excess(sem[s].value) \in Int /\ Excess(sem[s].count) \in Int
        BY <1>1 DEF Excess
      <4> QED
        BY <1>1, <2>1, <2>2, <2>3, <3>2, <4>1, <4>2, <4>3
    <3>3. CASE r = s /\ ~ (sem[s].count <= 0)
      <4>1. queue'[r] = queue[s] /\ sem'[r].count = sem[s].count - 1
        BY <1>1, <2>1, <3>3
      <4>2. Excess(sem[s].count - 1) = Excess(sem[s].count)
        BY <1>1, <3>3 DEF Excess
      <4> QED
        BY <1>1, <2>1, <2>3, <3>3, <4>1, <4>2
    <3> QED
      BY <3>1, <3>2, <3>3
  <2>5. WaitersCounted' /\ CorruptedByNegativeValue'
    BY <2>1, <2>4 DEF WaitersCounted, CorruptedByNegativeValue
  <2> QED
    BY <1>1, <2>1, <2>5 DEF SemInv
<1>4. ASSUME NEW s \in Created, semSignal(s) PROVE SemInv'
  <2>1. /\ halted = "no"
        /\ \A r \in Semafor : sem'[r].value = sem[r].value
        /\ \A r \in Semafor : sem'[r].count = IF r = s THEN sem[s].count + 1 ELSE sem[r].count
        /\ freesem' = freesem /\ Created' = Created
        /\ \A r \in Semafor \ {s} : queue'[r] = queue[r]
        /\ \/ sem[s].count >= 0 /\ queue'[s] = queue[s] /\ halted' = "no"
           \/ /\ sem[s].count < 0 /\ queue[s] # <<>>
              /\ queue'[s] = Tail(queue[s]) /\ halted' = "no"
           \/ /\ sem[s].count < 0 /\ queue[s] = <<>>
              /\ queue'[s] = queue[s] /\ halted' = "corrupt"
    BY <1>4, SignalEffect
  <2>2. \A r \in Created : Len(queue[r]) = Excess(sem[r].count) - Excess(sem[r].value)
    BY <2>1 DEF SemInv, WaitersCounted
  <2>3. /\ Excess(sem[s].value) \in Nat /\ Excess(sem[s].count) \in Nat
        /\ Excess(sem[s].value) > 0 => sem[s].value < 0
        /\ sem[s].count < 0 => Excess(sem[s].count) > 0 /\ Excess(sem[s].count + 1) = Excess(sem[s].count) - 1
        /\ sem[s].count >= 0 => Excess(sem[s].count + 1) = Excess(sem[s].count)
    BY <1>1 DEF Excess
  <2>4. ASSUME halted' = "no", NEW r \in Created
        PROVE  Len(queue'[r]) = Excess(sem'[r].count) - Excess(sem'[r].value)
    <3>1. CASE r # s
      BY <1>1, <2>1, <2>2, <3>1
    <3>2. CASE r = s /\ sem[s].count >= 0
      BY <1>1, <2>1, <2>2, <2>3, <3>2
    <3>3. CASE r = s /\ sem[s].count < 0
      <4>1. queue'[s] = Tail(queue[s]) /\ queue[s] # <<>>
        BY <1>1, <2>1, <2>4, <3>3
      <4>2. Len(Tail(queue[s])) = Len(queue[s]) - 1
        BY <1>1, <4>1, HeadTailProperties
      <4> QED
        BY <1>1, <2>1, <2>2, <2>3, <3>3, <4>1, <4>2
    <3> QED
      BY <1>1, <3>1, <3>2, <3>3
  <2>5. CorruptedByNegativeValue'
    <3> SUFFICES ASSUME halted' = "corrupt" PROVE sem'[s].value < 0
      BY <2>1 DEF CorruptedByNegativeValue
    <3>1. sem[s].count < 0 /\ Len(queue[s]) = 0
      BY <2>1
    <3> QED
      BY <1>1, <2>1, <2>2, <2>3, <3>1
  <2>6. WaitersCounted'
    BY <2>1, <2>4 DEF WaitersCounted
  <2> QED
    BY <1>1, <2>1, <2>5, <2>6 DEF SemInv
<1> QED
  BY <1>2, <1>3, <1>4 DEF SemNext

LEMMA InitSems == Init => SemInv
<1> SUFFICES ASSUME Init PROVE SemInv
  OBVIOUS
<1>1. freesem = [i \in 1 .. NUM_SEM |-> i - 1] /\ halted = "no"
  BY DEF Init, init_freesem, init_sched
<1>2. ASSUME NEW s \in Semafor PROVE s \notin Created
  <2>1. s + 1 \in 1 .. NUM_SEM /\ (s + 1) - 1 = s
    BY SchedAssumption DEF Semafor
  <2> QED
    BY <1>1, <2>1 DEF Created
<1>3. Created = {}
  BY <1>2 DEF Created
<1> QED
  BY <1>1, <1>3 DEF SemInv, WaitersCounted, CorruptedByNegativeValue

LEMMA SemInvariant == Spec => [](TypeOK /\ ListInv /\ SemInv)
<1>1. TypeOK /\ ListInv /\ SemInv /\ [Next]_vars => SemInv'
  <2> SUFFICES ASSUME TypeOK, ListInv, SemInv, [Next]_vars PROVE SemInv'
    OBVIOUS
  <2>1. CASE UNCHANGED vars
    BY <2>1, SemsKeptKeeps DEF vars, schedVars, SemsKept
  <2> QED
    BY <2>1, SchedNextSems, ProcessNextSems, KeyNextSems, SemNextSems, SemsKeptKeeps DEF Next
<1> QED
  BY <1>1, InitSems, ListsInvariant, PTL DEF Spec

(* The negative part of count is exactly the number of tasks on the list of
   the semaphore, beyond what a negative initial value leaves: no semSignal
   is lost and none wakes a task twice. *)
THEOREM WaitersAreCounted == Spec => []WaitersCounted
<1>1. SemInv => WaitersCounted
  BY DEF SemInv
<1> QED
  BY <1>1, SemInvariant, PTL

(* sys_semSignal takes list_first of an empty list, and links the list head
   into readyqueue, only if some semaphore was created with a value below 0. *)
THEOREM OnlyNegativeValuesCorrupt == Spec => []CorruptedByNegativeValue
<1>1. SemInv => CorruptedByNegativeValue
  BY DEF SemInv
<1> QED
  BY <1>1, SemInvariant, PTL
-----------------------------------------------------------------------------
\* The refinement mapping: the value and the line of an abstract semaphore.
absValue == [s \in Semafor |-> IF s \in Covered THEN sem[s].count + Len(queue[s]) ELSE 0]

absLine == [s \in Semafor |-> IF s \in Covered THEN queue[s] ELSE <<>>]

LEMMA InitRefines == Init => CountingSem!Init
<1> SUFFICES ASSUME Init PROVE CountingSem!Init
  OBVIOUS
<1>1. freesem = [i \in 1 .. NUM_SEM |-> i - 1]
  BY DEF Init, init_freesem
<1>2. ASSUME NEW s \in Semafor PROVE s \notin Created
  <2>1. s + 1 \in 1 .. NUM_SEM /\ (s + 1) - 1 = s
    BY SchedAssumption DEF Semafor
  <2> QED
    BY <1>1, <2>1 DEF Created
<1>3. Covered = {}
  BY <1>2 DEF Created, Covered
<1>4. absValue = [s \in Semafor |-> 0] /\ absLine = [s \in Semafor |-> <<>>]
  BY <1>3 DEF absValue, absLine
<1> QED
  BY <1>3, <1>4 DEF CountingSem!Init, absValue, absLine

\* Steps of other parts are stutters.
LEMMA SemsKeptStutters ==
  ASSUME SemsKept PROVE UNCHANGED <<Covered, absValue, absLine>>
<1>1. Covered' = Covered
  BY DEF SemsKept, semVars, Created, Covered
<1> QED
  BY <1>1 DEF SemsKept, semVars, absValue, absLine

\* Without a debt from its creation, the positive part of count is what is left.
LEMMA NothingOwed ==
  ASSUME TypeOK, SemInv, halted = "no", NEW s \in Covered
  PROVE  /\ s \in Semafor /\ sem[s].count \in Int /\ queue[s] \in Seq(Task)
         /\ Len(queue[s]) = Excess(sem[s].count)
         /\ absValue[s] = sem[s].count + Len(queue[s]) /\ absLine[s] = queue[s]
         /\ absValue[s] = IF sem[s].count > 0 THEN sem[s].count ELSE 0
         /\ sem[s].count >= 0 <=> queue[s] = <<>>
<1>1. /\ s \in Semafor /\ sem[s].count \in Int /\ queue[s] \in Seq(Task)
      /\ sem[s].value \in Nat /\ s \in Created
  BY QueueNames DEF TypeOK, Created, Covered
<1>2. Len(queue[s]) = Excess(sem[s].count) - Excess(sem[s].value)
  BY <1>1 DEF SemInv, WaitersCounted
<1>3. Excess(sem[s].value) = 0 /\ Excess(sem[s].count) \in Nat
  BY <1>1 DEF Excess
<1>4. Len(queue[s]) = Excess(sem[s].count)
  BY <1>2, <1>3
<1>5. queue[s] = <<>> <=> Len(queue[s]) = 0
  BY <1>1, EmptySeq
<1> QED
  BY <1>1, <1>4, <1>5 DEF absValue, absLine, Excess

\* A call on a semaphore in use keeps the set of those the mapping covers.
LEMMA CoveredKept ==
  ASSUME Created' = Created, \A r \in Semafor : sem'[r].value = sem[r].value
  PROVE  Covered' = Covered
  BY DEF Covered, Created

\* A step that only touches one semaphore.
LEMMA OneChanges ==
  ASSUME NEW s \in Semafor,
         \A r \in Semafor \ {s} : sem'[r].count = sem[r].count /\ queue'[r] = queue[r],
         s \in Covered', \A r \in Semafor \ {s} : r \in Covered' <=> r \in Covered
  PROVE  /\ absValue' = [absValue EXCEPT ![s] = sem'[s].count + Len(queue'[s])]
         /\ absLine' = [absLine EXCEPT ![s] = queue'[s]]
         /\ sem'[s].count + Len(queue'[s]) = absValue[s] => absValue' = absValue
         /\ queue'[s] = absLine[s] => absLine' = absLine
<1> DEFINE v(r) == IF r \in Covered THEN sem[r].count + Len(queue[r]) ELSE 0
           w(r) == IF r \in Covered' THEN sem'[r].count + Len(queue'[r]) ELSE 0
           l(r) == IF r \in Covered THEN queue[r] ELSE <<>>
           m(r) == IF r \in Covered' THEN queue'[r] ELSE <<>>
<1>1. \A r \in Semafor \ {s} : w(r) = v(r) /\ m(r) = l(r)
  OBVIOUS
<1>2. /\ absValue = [r \in Semafor |-> v(r)] /\ absValue' = [r \in Semafor |-> w(r)]
      /\ absLine = [r \in Semafor |-> l(r)] /\ absLine' = [r \in Semafor |-> m(r)]
  BY DEF absValue, absLine
<1>3. w(s) = sem'[s].count + Len(queue'[s]) /\ m(s) = queue'[s]
  OBVIOUS
<1> HIDE DEF v, w, l, m
<1>4. /\ absValue' = [absValue EXCEPT ![s] = w(s)]
      /\ w(s) = absValue[s] => absValue' = absValue
  BY <1>1, <1>2
<1>5. /\ absLine' = [absLine EXCEPT ![s] = m(s)]
      /\ m(s) = absLine[s] => absLine' = absLine
  BY <1>1, <1>2
<1> QED
  BY <1>3, <1>4, <1>5

\* A step that only touches a semaphore created with a negative value.
LEMMA UncoveredStutters ==
  ASSUME Covered' = Covered, NEW s \in Semafor, s \notin Covered,
         \A r \in Semafor \ {s} : sem'[r].count = sem[r].count /\ queue'[r] = queue[r]
  PROVE  UNCHANGED <<Covered, absValue, absLine>>
<1> DEFINE v(r) == IF r \in Covered THEN sem[r].count + Len(queue[r]) ELSE 0
           w(r) == IF r \in Covered' THEN sem'[r].count + Len(queue'[r]) ELSE 0
           l(r) == IF r \in Covered THEN queue[r] ELSE <<>>
           m(r) == IF r \in Covered' THEN queue'[r] ELSE <<>>
<1>1. \A r \in Semafor : w(r) = v(r) /\ m(r) = l(r)
  OBVIOUS
<1>2. /\ absValue = [r \in Semafor |-> v(r)] /\ absValue' = [r \in Semafor |-> w(r)]
      /\ absLine = [r \in Semafor |-> l(r)] /\ absLine' = [r \in Semafor |-> m(r)]
  BY DEF absValue, absLine
<1> HIDE DEF v, w, l, m
<1> QED
  BY <1>1, <1>2

LEMMA SemNextRefines ==
  ASSUME TypeOK, ListInv, SemInv, SemNext
  PROVE  [CountingSem!Next]_<<Covered, absValue, absLine>>
<1>1. Created \subseteq Semafor /\ current \in Task
  BY DEF Created, TypeOK
<1>2. ASSUME NEW v \in SemValues, sem_create(v)
      PROVE  [CountingSem!Next]_<<Covered, absValue, absLine>>
  <2>1. PICK s \in Semafor \ Created :
             /\ Created' = Created \cup {s}
             /\ queue' = queue /\ queue[s] = <<>>
             /\ sem'[s].count = v /\ sem'[s].value = v
             /\ \A r \in Semafor \ {s} : sem'[r] = sem[r]
    BY <1>2, CreateEffect
  <2>2. v \in Int /\ s \notin Covered /\ Created \subseteq Semafor
    BY <2>1, SemAssumption DEF Covered, Created
  <2>3. CASE v >= 0
    <3>1. Covered' = Covered \cup {s}
      BY <2>1, <2>2, <2>3 DEF Covered
    <3>2. sem'[s].count + Len(queue'[s]) = v /\ queue'[s] = absLine[s]
      <4>1. Len(queue'[s]) = 0 /\ v \in Nat
        BY <2>1, <2>2, <2>3
      <4> QED
        BY <2>1, <2>2, <4>1 DEF absLine
    <3>3. /\ s \in Covered' /\ \A r \in Semafor \ {s} : r \in Covered' <=> r \in Covered
          /\ \A r \in Semafor \ {s} : sem'[r].count = sem[r].count /\ queue'[r] = queue[r]
      BY <2>1, <3>1
    <3>4. absLine' = absLine /\ absValue' = [absValue EXCEPT ![s] = v]
      BY <2>1, <3>2, <3>3, OneChanges
    <3>5. v \in SemValues \cap Nat
      BY <2>2, <2>3
    <3>6. CountingSem!Create(s)
      BY <3>1, <3>4, <3>5 DEF CountingSem!Create, absValue, absLine
    <3> QED
      BY <2>1, <2>2, <3>6 DEF CountingSem!Next
  <2>4. CASE ~ (v >= 0)
    <3>1. Covered' = Covered
      BY <2>1, <2>2, <2>4 DEF Covered
    <3>2. \A r \in Semafor \ {s} : sem'[r].count = sem[r].count /\ queue'[r] = queue[r]
      BY <2>1
    <3> QED
      BY <2>1, <2>2, <3>1, <3>2, UncoveredStutters
  <2> QED
    BY <2>3, <2>4
<1>3. ASSUME NEW s \in Covered, semWait(s)
      PROVE  CountingSem!Wait(current, s) /\ Covered' = Covered
  <2> s \in Created
    BY DEF Covered
  <2>1. /\ halted = "no" /\ \A r \in Semafor : sem'[r].value = sem[r].value
        /\ \A r \in Semafor : sem'[r].count = IF r = s THEN sem[s].count - 1 ELSE sem[r].count
        /\ Created' = Created
        /\ \A r \in Semafor : queue'[r] = IF r = s /\ sem[s].count <= 0
                                           THEN Append(queue[s], current) ELSE queue[r]
    BY <1>3, WaitEffect
  <2>2. /\ s \in Semafor /\ sem[s].count \in Int /\ queue[s] \in Seq(Task)
        /\ absValue[s] = sem[s].count + Len(queue[s]) /\ absLine[s] = queue[s]
        /\ absValue[s] = IF sem[s].count > 0 THEN sem[s].count ELSE 0
    BY <2>1, NothingOwed
  <2>c. /\ Covered' = Covered /\ s \in Covered'
        /\ \A r \in Semafor \ {s} : r \in Covered' <=> r \in Covered
    BY <2>1, CoveredKept
  <2>3. Len(queue[s]) \in Nat /\ Len(Append(queue[s], current)) = Len(queue[s]) + 1
    BY <1>1, <2>2, LenProperties, AppendProperties
  <2>4. ~ CountingSem!Waits(current)
    <3>1. \A r \in Semafor : ~ On(queue, current, r)
      BY QueueNames DEF ListInv, Links, Unlinked
    <3>2. \A r \in Semafor : absLine[r] \in {queue[r], <<>>}
      BY DEF absLine
    <3>3. \A r \in Semafor : \A i \in DOMAIN absLine[r] : absLine[r][i] # current
      BY <3>1, <3>2 DEF On
    <3> QED
      BY <3>3 DEF CountingSem!Waits, absLine
  <2>5. \A r \in Semafor \ {s} : sem'[r].count = sem[r].count /\ queue'[r] = queue[r]
    BY <2>1
  <2>6. CASE sem[s].count > 0
    <3>1. queue'[s] = queue[s] /\ sem'[s].count = sem[s].count - 1
      BY <2>1, <2>2, <2>6
    <3>2. sem'[s].count + Len(queue'[s]) = absValue[s] - 1
      BY <2>2, <2>3, <3>1
    <3>3. absLine' = absLine /\ absValue' = [absValue EXCEPT ![s] = absValue[s] - 1]
      BY <2>2, <2>5, <2>c, <3>1, <3>2, OneChanges
    <3> QED
      BY <2>c, <2>2, <2>4, <2>6, <3>3 DEF CountingSem!Wait, absValue, absLine
  <2>7. CASE ~ (sem[s].count > 0)
    <3>1. queue'[s] = Append(queue[s], current) /\ sem'[s].count = sem[s].count - 1
      <4>1. sem[s].count <= 0
        BY <2>2, <2>7
      <4> QED
        BY <2>1, <2>2, <4>1
    <3>2. sem'[s].count + Len(queue'[s]) = absValue[s]
      BY <2>2, <2>3, <3>1, SMTT(30)
    <3>3. absValue' = absValue /\ absLine' = [absLine EXCEPT ![s] = Append(absLine[s], current)]
      BY <2>2, <2>5, <2>c, <3>1, <3>2, OneChanges
    <3> QED
      BY <2>c, <2>2, <2>4, <2>7, <3>3 DEF CountingSem!Wait, absValue, absLine
  <2> QED
    BY <2>6, <2>7
<1>4. ASSUME NEW s \in Covered, semSignal(s)
      PROVE  CountingSem!Signal(s) /\ Covered' = Covered
  <2> s \in Created
    BY DEF Covered
  <2>1. /\ halted = "no" /\ \A r \in Semafor : sem'[r].value = sem[r].value
        /\ \A r \in Semafor : sem'[r].count = IF r = s THEN sem[s].count + 1 ELSE sem[r].count
        /\ Created' = Created
        /\ \A r \in Semafor \ {s} : queue'[r] = queue[r]
        /\ \/ sem[s].count >= 0 /\ queue'[s] = queue[s]
           \/ sem[s].count < 0 /\ queue[s] # <<>> /\ queue'[s] = Tail(queue[s])
           \/ sem[s].count < 0 /\ queue[s] = <<>>
    BY <1>4, SignalEffect
  <2>2. /\ s \in Semafor /\ sem[s].count \in Int /\ queue[s] \in Seq(Task)
        /\ absLine[s] = queue[s] /\ absValue[s] = sem[s].count + Len(queue[s])
        /\ sem[s].count >= 0 <=> queue[s] = <<>>
    BY <2>1, NothingOwed
  <2>c. /\ Covered' = Covered /\ s \in Covered'
        /\ \A r \in Semafor \ {s} : r \in Covered' <=> r \in Covered
    BY <2>1, CoveredKept
  <2>3. Len(queue[s]) \in Nat /\ (queue[s] # <<>> => Len(Tail(queue[s])) = Len(queue[s]) - 1)
    BY <2>2, LenProperties, HeadTailProperties
  <2>4. \A r \in Semafor \ {s} : sem'[r].count = sem[r].count /\ queue'[r] = queue[r]
    BY <2>1
  <2>5. CASE sem[s].count >= 0
    <3>1. queue'[s] = queue[s] /\ queue[s] = <<>> /\ sem'[s].count = sem[s].count + 1
      BY <2>1, <2>2, <2>5
    <3>2. sem'[s].count + Len(queue'[s]) = absValue[s] + 1
      BY <2>2, <2>3, <3>1
    <3>3. absLine' = absLine /\ absValue' = [absValue EXCEPT ![s] = absValue[s] + 1]
      BY <2>2, <2>4, <2>c, <3>1, <3>2, OneChanges
    <3> QED
      BY <2>c, <2>2, <3>1, <3>3 DEF CountingSem!Signal, absValue, absLine
  <2>6. CASE ~ (sem[s].count >= 0)
    <3>1. queue[s] # <<>> /\ queue'[s] = Tail(queue[s]) /\ sem'[s].count = sem[s].count + 1
      BY <2>1, <2>2, <2>6
    <3>2. sem'[s].count + Len(queue'[s]) = absValue[s]
      BY <2>2, <2>3, <3>1
    <3>3. absValue' = absValue /\ absLine' = [absLine EXCEPT ![s] = Tail(absLine[s])]
      BY <2>2, <2>4, <2>c, <3>1, <3>2, OneChanges
    <3> QED
      BY <2>c, <2>2, <3>1, <3>3 DEF CountingSem!Signal, absValue, absLine
  <2> QED
    BY <2>5, <2>6
<1>5. ASSUME NEW s \in Created \ Covered, semWait(s) \/ semSignal(s)
      PROVE  UNCHANGED <<Covered, absValue, absLine>>
  <2>1. /\ Created' = Created /\ \A r \in Semafor : sem'[r].value = sem[r].value
        /\ \A r \in Semafor \ {s} : sem'[r].count = sem[r].count /\ queue'[r] = queue[r]
    <3>1. CASE semWait(s)
      BY <3>1, WaitEffect
    <3>2. CASE semSignal(s)
      BY <3>2, SignalEffect
    <3> QED
      BY <1>5, <3>1, <3>2
  <2>2. Covered' = Covered /\ s \in Semafor
    BY <1>1, <2>1, CoveredKept
  <2> QED
    BY <2>1, <2>2, UncoveredStutters
<1>6. CASE \E v \in SemValues : sem_create(v)
  BY <1>2, <1>6
<1>7. CASE \E s \in Covered : semWait(s)
  BY <1>1, <1>3, <1>7 DEF CountingSem!Next
<1>8. CASE \E s \in Covered : semSignal(s)
  BY <1>4, <1>8 DEF CountingSem!Next
<1> QED
  BY <1>5, <1>6, <1>7, <1>8 DEF SemNext

(* The semaphores of the kernel, whose lists are made of the anchors all
   queues share, implement counting semaphores for any number of tasks and
   semaphores.  Those created with a negative value are not covered (with one,
   sys_semSignal can corrupt readyqueue: OnlyNegativeValuesCorrupt); they do
   not disturb the others. *)
THEOREM SemaphoreRefinement == Spec => ImplementsSemaphore
<1>1. TypeOK /\ ListInv /\ SemInv /\ [Next]_vars =>
        [CountingSem!Next]_<<Covered, absValue, absLine>>
  <2> SUFFICES ASSUME TypeOK, ListInv, SemInv, [Next]_vars
               PROVE  [CountingSem!Next]_<<Covered, absValue, absLine>>
    OBVIOUS
  <2>1. CASE UNCHANGED vars
    BY <2>1, SemsKeptStutters DEF vars, schedVars, SemsKept
  <2> QED
    BY <2>1, SchedNextSems, ProcessNextSems, KeyNextSems, SemsKeptStutters, SemNextRefines DEF Next
<1> QED
  BY <1>1, InitRefines, SemInvariant, PTL
  DEF Spec, ImplementsSemaphore, CountingSem!Spec, absValue, absLine
=============================================================================
