---------------------------- MODULE ReadersProofs ----------------------------
(***************************************************************************)
(* The keyboard buffer inside the kernel.  The handlers reach it only by   *)
(* pushes and pops, so what is proved of the circular buffer alone carries *)
(* over to every interleaving of readers, keys and clock ticks.  Then the  *)
(* accounting of pending_to_service, which needs the invariant of the      *)
(* lists.                                                                  *)
(***************************************************************************)
EXTENDS Readers, KernelProofs, FiniteSetTheorems

Alone == INSTANCE CircularBufferProofs WITH buff <- keyboard_buffer

\* init_keys initialises the buffer.
LEMMA BufferInit == ReadersInit => Alone!Init
  BY DEF ReadersInit, Init, init_keys, Alone!Init, INIT_CIRCULAR_BUFFER, Slot,
         Alone!INIT_CIRCULAR_BUFFER, Alone!Slot

\* What is left of sys_getKey after the test of the timeout is a pop.
LEMMA ServeIsPop ==
  ASSUME NEW timeout, getKey_serve(timeout),
         ret' = IF timeout <= 0 THEN ret ELSE circular_buffer_popped(keyboard_buffer)
  PROVE  [Alone!Next]_(Alone!vars)
<1>1. CASE timeout <= 0
  BY <1>1 DEF getKey_serve, Alone!vars
<1>2. CASE ~ (timeout <= 0)
  <2>1. Alone!Pop
    BY <1>2 DEF getKey_serve, Alone!Pop, circular_buffer_pop, circular_buffer_popped,
                circular_buffer_empty, Alone!circular_buffer_pop,
                Alone!circular_buffer_popped, Alone!circular_buffer_empty
  <2> QED
    BY <2>1 DEF Alone!Next
<1> QED
  BY <1>1, <1>2

\* keyboard_routine pushes what was typed; with the buffer full it does not.
LEMMA TypeIsPush ==
  ASSUME NEW c \in Keys, Type(c)
  PROVE  [Alone!Next]_(Alone!vars)
<1>1. c \in Char
  BY KeyAssumption
<1>2. CASE circular_buffer_full(keyboard_buffer)
  BY <1>2 DEF Type, KeyPress, circular_buffer_push, Alone!vars
<1>3. CASE ~ circular_buffer_full(keyboard_buffer)
  <2>1. Alone!Push(c)
    BY <1>3 DEF Type, KeyPress, Alone!Push, circular_buffer_push, circular_buffer_full,
                Alone!circular_buffer_push, Alone!circular_buffer_full
  <2> QED
    BY <1>1, <2>1 DEF Alone!Next
<1> QED
  BY <1>2, <1>3

\* Every step of the kernel is a push, a pop, or leaves the buffer alone.
LEMMA BufferStep ==
  [ReadersNext]_<<vars, readVars>> => [Alone!Next]_(Alone!vars)
<1> SUFFICES ASSUME [ReadersNext]_<<vars, readVars>>
             PROVE  [Alone!Next]_(Alone!vars)
  OBVIOUS
<1>1. CASE Others
  BY <1>1 DEF Others, GetKeyWaits, KeyRelease, ClockTick, keyVars, readVars, Alone!vars
<1>2. ASSUME NEW timeout \in Timeouts, ReadAtOnce(timeout)
      PROVE  [Alone!Next]_(Alone!vars)
  <2>1. getKey_serve(timeout)
    BY <1>2 DEF ReadAtOnce, GetKeyAtOnce
  <2>2. ret' = IF timeout <= 0 THEN ret ELSE circular_buffer_popped(keyboard_buffer)
    BY <1>2 DEF ReadAtOnce, readVars
  <2> QED
    BY <2>1, <2>2, ServeIsPop
<1>3. CASE ReadResumes
  BY <1>3, ServeIsPop DEF ReadResumes, GetKeyResumes
<1>4. ASSUME NEW c \in Keys, Type(c) PROVE [Alone!Next]_(Alone!vars)
  BY <1>4, TypeIsPush
<1>5. CASE UNCHANGED <<vars, readVars>>
  BY <1>5 DEF vars, keyVars, readVars, Alone!vars
<1> QED
  BY <1>1, <1>2, <1>3, <1>4, <1>5 DEF ReadersNext

\* The invariant of the circular buffer is one of the kernel.
LEMMA BufferInvHolds == ReadersSpec => []Alone!Inv
<1>1. ReadersInit => Alone!Inv
  BY BufferInit, Alone!InvInit, BufferSizeAssumption, CharAssumption
<1>2. Alone!Inv /\ [ReadersNext]_<<vars, readVars>> => Alone!Inv'
  BY BufferStep, Alone!InvStep, BufferSizeAssumption, CharAssumption
<1> QED
  BY <1>1, <1>2, PTL DEF ReadersSpec

(* The cursors of the keyboard buffer agree in every state of the kernel, for
   any number of tasks and slots, any keys and any timeouts. *)
THEOREM KeyboardCursorsAgree == ReadersSpec => []CursorsAgree
<1>1. Alone!Inv => CursorsAgree
  BY DEF Alone!Inv, Alone!CursorsAgree, CursorsAgree, Buff!CursorsAgree,
         Alone!Wrap, Buff!Wrap
<1> QED
  BY <1>1, BufferInvHolds, PTL
-----------------------------------------------------------------------------
\* The queue that the buffer represents is the same in both instances.
LEMMA SameContents ==
  /\ Buff!Contents = Alone!Contents
  /\ Buff!Contents' = Alone!Contents'
  BY DEF Buff!Contents, Alone!Contents, Buff!Wrap, Alone!Wrap

\* Every step of the kernel is a step of the FIFO.
LEMMA KernelStepRefines ==
  Alone!Inv /\ Alone!Inv' /\ [ReadersNext]_<<vars, readVars>>
    => [Buff!Fifo!Next]_(Buff!Fifo!vars)
<1> SUFFICES ASSUME Alone!Inv, Alone!Inv', [ReadersNext]_<<vars, readVars>>
             PROVE  [Buff!Fifo!Next]_(Buff!Fifo!vars)
  OBVIOUS
<1>1. [Alone!Fifo!Next]_(Alone!Fifo!vars)
  BY BufferStep, Alone!StepRefines, BufferSizeAssumption, CharAssumption
<1> QED
  BY <1>1, SameContents
  DEF Alone!Fifo!Next, Alone!Fifo!vars, Alone!Fifo!Push, Alone!Fifo!Pop,
      Buff!Fifo!Next, Buff!Fifo!vars, Buff!Fifo!Push, Buff!Fifo!Pop

(* Typed characters reach the readers first in first out and none twice, in
   every interleaving of key presses, reads, timeouts and switches. *)
THEOREM KeysReachReadersInOrder == ReadersSpec => ImplementsFifo
<1>1. ReadersInit => Buff!Fifo!Init
  BY DEF ReadersInit, Init, init_keys, INIT_CIRCULAR_BUFFER, Buff!Fifo!Init,
         Buff!Contents
<1> QED
  BY <1>1, BufferInvHolds, KernelStepRefines, PTL
  DEF ReadersSpec, ImplementsFifo, Buff!ImplementsFifo, Buff!Fifo!Spec
-----------------------------------------------------------------------------
(***************************************************************************)
(* The accounting of pending_to_service.  It rests on the lists being in   *)
(* order, and on who has left the CPU inside sys_getKey: the waiters have, *)
(* idle_task never, and whoever is switched back into it has.              *)
(***************************************************************************)

\* Who left the CPU inside sys_getKey, for the table T and the queues Q.
InGetKey(T, Q, c, r) ==
  /\ \A t \in Task : On(Q, t, getKey_blocked) => T[t].register_esp = "getKey"
  /\ T[idle_task].register_esp # "getKey"
  /\ r = "getKey" => T[c].register_esp = "getKey"

WokenIn(T, Q, c, r) ==
  {t \in Task : /\ On(Q, t, readyqueue) \/ (t = c /\ r = "getKey")
                /\ T[t].register_esp = "getKey" /\ T[t].key_timeout > 0}

ReadInv ==
  /\ InGetKey(task, queue, current, resume)
  /\ skew \in Int /\ robbed \in BOOLEAN
  /\ PendingAccounted
  /\ CharForReader

LEMMA WokenIs == Woken = WokenIn(task, queue, current, resume)
  BY DEF Woken, WokenIn, OnList, On

(* The task that a task leaving the CPU switches to was woken before it is
   switched to, or was not at all. *)
LEMMA LeaveServes ==
  ASSUME NEW T \in [Task -> task_struct], NEW Q \in [Queue -> Seq(Task)],
         NEW q \in {readyqueue, getKey_blocked}, NEW path,
         leave_cpu(T, Q, q, path), current \in Task, Links(Q, current),
         current = idle_task => q = readyqueue,
         q = readyqueue => Q[readyqueue] # <<>> /\ path # "getKey",
         q = getKey_blocked => path = "getKey",
         InGetKey(T, Q, current, "user")
  PROVE  /\ InGetKey(task', queue', current', resume')
         /\ WokenIn(task', queue', current', resume') = WokenIn(T, Q, current, "user")
<1> DEFINE st == IF q = readyqueue THEN "ST_READY" ELSE "ST_BLOCKED"
           U == [T EXCEPT ![current].state = st]
<1>1. /\ Once(Q) /\ Unlinked(Q, current) /\ IdleReady(Q)
      /\ q \in Queue /\ q \in {readyqueue, blocked, getKey_blocked}
      /\ readyqueue \in Queue /\ getKey_blocked \in Queue /\ idle_task \in Task
      /\ readyqueue # getKey_blocked
  BY QueueNames, QueuesApart DEF Links
<1>2. /\ current' \in Task
      /\ current' = idle_task \/ On(Q, current', readyqueue) \/ current' = current
      /\ \A u \in Task, p \in Queue :
           On(queue', u, p) <=> u # current' /\ (On(Q, u, p) \/ (u = current /\ p = q))
  BY <1>1, LeaveLinks
<1>3. current' # current
  BY <1>1, LeaveElsewhere
<1>4. /\ \A t \in Task : task'[t].key_timeout = T[t].key_timeout
      /\ \A t \in Task : task'[t].register_esp = IF t = current THEN path ELSE T[t].register_esp
  BY <1>1, LeaveFields, ZenonT(60) DEF SameIdentity
<1>5. resume' = "getKey" <=> T[current'].register_esp = "getKey"
  <2>1. U \in [Task -> task_struct]
    BY SetField DEF state_t
  <2>2. \A t \in Task : U[t].register_esp = T[t].register_esp
    BY DEF task_struct
  <2>3. sched_next_rr(U, list_add_tail(Q, current, q), path)
    BY DEF leave_cpu
  <2> HIDE DEF U
  <2>4. \A t \in Task :
          [U EXCEPT ![t].state = "ST_RUN"][t].register_esp = U[t].register_esp
    BY <2>1 DEF task_struct
  <2>5. resume' = IF [U EXCEPT ![current'].state = "ST_RUN"][current'].register_esp = "getKey"
                    THEN "getKey" ELSE "user"
    BY <2>3 DEF sched_next_rr, task_switch, switch_stack
  <2> QED
    BY <1>2, <2>2, <2>4, <2>5
<1>6. InGetKey(task', queue', current', resume')
  <2>1. ASSUME NEW t \in Task, On(queue', t, getKey_blocked)
        PROVE  task'[t].register_esp = "getKey"
    <3>1. On(Q, t, getKey_blocked) \/ (t = current /\ getKey_blocked = q)
      BY <2>1, <1>1, <1>2
    <3>2. CASE On(Q, t, getKey_blocked)
      BY <3>2, <1>1, <1>4 DEF InGetKey, Unlinked
    <3>3. CASE t = current /\ getKey_blocked = q
      BY <3>3, <1>4
    <3> QED
      BY <3>1, <3>2, <3>3
  <2>2. task'[idle_task].register_esp # "getKey"
    BY <1>1, <1>4 DEF InGetKey
  <2>3. resume' = "getKey" => task'[current'].register_esp = "getKey"
    BY <1>2, <1>3, <1>4, <1>5
  <2> QED
    BY <2>1, <2>2, <2>3 DEF InGetKey
<1>7. ASSUME NEW t \in Task
      PROVE  t \in WokenIn(task', queue', current', resume') <=> t \in WokenIn(T, Q, current, "user")
  <2>1. CASE t = current
    BY <1>1, <1>2, <1>3, <1>4, <2>1 DEF WokenIn, Unlinked
  <2>2. CASE t = current'
    BY <1>1, <1>2, <1>3, <1>4, <1>5, <2>2 DEF WokenIn, InGetKey
  <2>3. CASE t # current /\ t # current'
    BY <1>1, <1>2, <1>4, <2>3 DEF WokenIn
  <2> QED
    BY <2>1, <2>2, <2>3
<1> QED
  BY <1>6, <1>7 DEF WokenIn

\* key_timout_system: who is due, and what is left of the others' timeouts.
LEMMA CountDownTimeouts ==
  ASSUME SchedTypeOK, NEW t \in Task
  PROVE  /\ count_down[t].key_timeout =
              IF On(queue, t, getKey_blocked) /\ task[t].key_timeout > 0
                THEN task[t].key_timeout - 1 ELSE task[t].key_timeout
         /\ Due(t) <=> On(queue, t, getKey_blocked) /\ task[t].key_timeout = 1
<1>1. task[t] \in task_struct /\ task[t].key_timeout \in Int
  BY DEF SchedTypeOK, task_struct
<1>2. (\E i \in Counting : Waiters[i] = t)
        <=> On(queue, t, getKey_blocked) /\ task[t].key_timeout > 0
  BY DEF Counting, Waiters, On
<1>3. count_down[t].key_timeout = IF \E i \in Counting : Waiters[i] = t
                                    THEN task[t].key_timeout - 1 ELSE task[t].key_timeout
  BY <1>1 DEF count_down, task_struct
<1>4. Due(t) <=> (\E i \in Counting : Waiters[i] = t) /\ task[t].key_timeout = 1
  BY DEF Due, Expired
<1> QED
  BY <1>1, <1>2, <1>3, <1>4

\* A clock tick wakes nobody for a character.
LEMMA ClockServes ==
  ASSUME TypeOK, ListInv, InGetKey(task, queue, current, resume), ClockTick
  PROVE  InGetKey(task', queue', current', resume') /\ Woken' = Woken
<1>1. /\ SchedTypeOK /\ task \in [Task -> task_struct] /\ queue \in [Queue -> Seq(Task)]
      /\ current \in Task /\ resume = "user" /\ idle_task \in Task
      /\ Links(queue, current) /\ States(task, queue, current)
      /\ Once(queue) /\ Unlinked(queue, current) /\ IdleReady(queue)
      /\ readyqueue \in Queue /\ getKey_blocked \in Queue /\ readyqueue # getKey_blocked
  BY TypeParts, QueueNames, QueuesApart DEF TypeOK, ListInv, Links, ClockTick, UserMode
<1>2. PICK f \in InOrder(Expired), g \in InOrder(Staying) :
        schedule(count_down, wake_expired(f, g))
  BY DEF ClockTick
<1> DEFINE W == wake_expired(f, g)
<1>3. count_down \in [Task -> task_struct] /\ W \in [Queue -> Seq(Task)]
  BY <1>1, CountDownType
<1>4. Links(W, current)
  BY <1>1, CountDownKeeps
<1>5. \A u \in Task, q \in Queue :
        On(W, u, q) <=> IF Due(u) THEN q = readyqueue ELSE On(queue, u, q)
  <2>1. \A i \in DOMAIN Waiters : Waiters[i] \in Task /\ On(queue, Waiters[i], getKey_blocked)
    <3>1. Waiters \in Seq(Task)
      BY <1>1 DEF Waiters
    <3> QED
      BY <3>1 DEF On, Waiters
  <2>2. \A i \in DOMAIN Waiters : task[Waiters[i]].state # "ST_RUN"
    BY <1>1, <2>1 DEF States
  <2> QED
    BY <1>1, <2>2, ClockLinks
<1>6. \A t \in Task : /\ count_down[t].register_esp = task[t].register_esp
                      /\ Due(t) => count_down[t].key_timeout = 0
                      /\ Due(t) => On(queue, t, getKey_blocked)
                      /\ ~ On(queue, t, getKey_blocked) =>
                           count_down[t].key_timeout = task[t].key_timeout
  BY <1>1, CountDownFields, CountDownTimeouts
<1>7. \A t \in Task : On(queue, t, getKey_blocked) => ~ On(queue, t, readyqueue) /\ t # current
  BY <1>1 DEF Once, On, Unlinked
<1> HIDE DEF W
<1>8. InGetKey(count_down, W, current, "user")
  BY <1>1, <1>5, <1>6 DEF InGetKey
<1>9. WokenIn(count_down, W, current, "user") = Woken
  <2>1. ASSUME NEW t \in Task
        PROVE  t \in WokenIn(count_down, W, current, "user")
                 <=> t \in WokenIn(task, queue, current, "user")
    <3>1. CASE Due(t)
      BY <1>6, <1>7, <3>1 DEF WokenIn
    <3>2. CASE ~ Due(t)
      BY <1>1, <1>5, <1>6, <1>7, <3>2 DEF WokenIn
    <3> QED
      BY <3>1, <3>2
  <2>2. WokenIn(count_down, W, current, "user") = WokenIn(task, queue, current, "user")
    BY <2>1 DEF WokenIn
  <2> QED
    BY <2>2, <1>1, WokenIs
<1>10. CASE leave_cpu(count_down, W, readyqueue, "clock") /\ W[readyqueue] # <<>>
  <2>1. /\ InGetKey(task', queue', current', resume')
        /\ WokenIn(task', queue', current', resume') = WokenIn(count_down, W, current, "user")
    BY <1>1, <1>3, <1>4, <1>8, <1>10, LeaveServes
  <2>2. Woken' = WokenIn(task', queue', current', resume')
    BY DEF Woken, WokenIn, OnList, On
  <2> QED
    BY <1>9, <2>1, <2>2
<1>11. CASE task' = count_down /\ queue' = W /\ UNCHANGED <<current, resume>>
  <2>1. Woken' = WokenIn(task', queue', current', resume')
    BY DEF Woken, WokenIn, OnList, On
  <2> QED
    BY <1>1, <1>8, <1>9, <1>11, <2>1
<1> QED
  BY <1>2, <1>10, <1>11 DEF schedule, W

\* A reader that has to wait was not woken for a character yet.
LEMMA WaitServes ==
  ASSUME TypeOK, ListInv, InGetKey(task, queue, current, resume),
         NEW timeout \in Timeouts, GetKeyWaits(timeout)
  PROVE  InGetKey(task', queue', current', resume') /\ Woken' = Woken
<1> DEFINE T == [task EXCEPT ![current].key_timeout = timeout]
<1>1. /\ task \in [Task -> task_struct] /\ queue \in [Queue -> Seq(Task)]
      /\ current \in Task /\ current # idle_task /\ resume = "user" /\ timeout \in Int
      /\ Links(queue, current) /\ Unlinked(queue, current) /\ readyqueue # getKey_blocked
      /\ readyqueue \in Queue /\ getKey_blocked \in Queue /\ idle_task \in Task
      /\ leave_cpu(T, queue, getKey_blocked, "getKey")
  BY KeyAssumption, QueueNames, QueuesApart
  DEF TypeOK, ListInv, Links, GetKeyWaits, Syscall, UserMode
<1>2. T \in [Task -> task_struct]
  BY <1>1, SetField
<1>3. \A t \in Task : /\ T[t].register_esp = task[t].register_esp
                      /\ t # current => T[t].key_timeout = task[t].key_timeout
  BY <1>1 DEF task_struct
<1> HIDE DEF T
<1>4. InGetKey(T, queue, current, "user")
  BY <1>1, <1>3 DEF InGetKey
<1>5. WokenIn(T, queue, current, "user") = Woken
  <2>1. ASSUME NEW t \in Task
        PROVE  t \in WokenIn(T, queue, current, "user")
                 <=> t \in WokenIn(task, queue, current, "user")
    BY <1>1, <1>3 DEF WokenIn, Unlinked
  <2>2. WokenIn(T, queue, current, "user") = WokenIn(task, queue, current, "user")
    BY <2>1 DEF WokenIn
  <2> QED
    BY <1>1, <2>2, WokenIs
<1>6. /\ InGetKey(task', queue', current', resume')
      /\ WokenIn(task', queue', current', resume') = WokenIn(T, queue, current, "user")
  BY <1>1, <1>2, <1>4, LeaveServes
<1>7. Woken' = WokenIn(task', queue', current', resume')
  BY DEF Woken, WokenIn, OnList, On
<1> QED
  BY <1>5, <1>6, <1>7

\* A child is ready, but not in sys_getKey.
LEMMA ForkServes ==
  ASSUME TypeOK, ListInv, InGetKey(task, queue, current, resume), Fork
  PROVE  InGetKey(task', queue', current', resume') /\ Woken' = Woken
<1> DEFINE c == Head(queue[freequeue])
<1>1. /\ task \in [Task -> task_struct] /\ queue[freequeue] # <<>>
      /\ queue' = MoveFreeSlot(readyqueue) /\ current' = current /\ resume' = resume
      /\ idle_task \in Task /\ current \in Task /\ readyqueue \in Queue /\ freequeue \in Queue
      /\ getKey_blocked \in Queue /\ readyqueue # getKey_blocked /\ readyqueue # freequeue
  BY QueueNames, QueuesApart DEF Fork, FreeSlot, TypeOK
<1>2. /\ c \in Task \ {current, idle_task} /\ On(queue, c, freequeue)
      /\ \A u \in Task, p \in Queue :
           On(queue', u, p) <=> IF u = c THEN p = readyqueue ELSE On(queue, u, p)
  BY <1>1, MoveFreeSlotLists
<1>3. \A t \in Task \ {c} : task'[t] = task[t]
  BY <1>2, ForkFields
<1>4. task'[c].register_esp = "fork"
  <2>1. task[current] \in task_struct
    BY <1>1
  <2> QED
    BY <1>1, <1>2, <2>1 DEF Fork, task_struct
<1>5. ~ On(queue, c, readyqueue)
  BY <1>1, <1>2 DEF ListInv, Links, Once, On
<1> HIDE DEF c
<1>6. InGetKey(task', queue', current', resume')
  BY <1>1, <1>2, <1>3 DEF InGetKey
<1>7. ASSUME NEW t \in Task
      PROVE  t \in WokenIn(task', queue', current', resume')
               <=> t \in WokenIn(task, queue, current, resume)
  <2>1. CASE t = c
    BY <1>1, <1>2, <1>4, <1>5, <2>1 DEF WokenIn
  <2>2. CASE t # c
    BY <1>1, <1>2, <1>3, <2>2 DEF WokenIn
  <2> QED
    BY <2>1, <2>2
<1>8. Woken' = WokenIn(task', queue', current', resume')
  BY DEF Woken, WokenIn, OnList, On
<1> QED
  BY <1>6, <1>7, <1>8, WokenIs DEF WokenIn

\* A key wakes the first waiter, for a character if it still has time.
LEMMA KeyServes ==
  ASSUME TypeOK, ListInv, InGetKey(task, queue, current, resume), NEW c \in Keys, KeyPress(c),
         Waiters # <<>>
  PROVE  /\ InGetKey(task', queue', current', resume')
         /\ Head(Waiters) \in Task \ Woken
         /\ Woken' = IF task[Head(Waiters)].key_timeout > 0
                       THEN Woken \cup {Head(Waiters)} ELSE Woken
<1> DEFINE h == Head(queue[getKey_blocked])
<1>1. /\ task \in [Task -> task_struct] /\ queue \in [Queue -> Seq(Task)]
      /\ current \in Task /\ idle_task \in Task /\ resume = "user" /\ resume' = resume
      /\ current' = current /\ queue[getKey_blocked] # <<>> /\ h = Head(Waiters)
      /\ Once(queue) /\ Unlinked(queue, current) /\ IdleReady(queue)
      /\ States(task, queue, current)
      /\ readyqueue \in Queue /\ getKey_blocked \in Queue /\ readyqueue # getKey_blocked
  BY QueueNames, QueuesApart DEF TypeOK, ListInv, Links, KeyPress, UserMode, Waiters
<1>2. h \in Task /\ On(queue, h, getKey_blocked)
  BY <1>1, DelFirstType, DelFirstLinks
<1>3. task[h].state = "ST_BLOCKED"
  BY <1>1, <1>2 DEF States
<1>4. /\ queue' = list_add_tail(list_del_first(queue, getKey_blocked), h, readyqueue)
      /\ task' = [task EXCEPT ![h].state = "ST_READY"]
  BY <1>1, <1>3 DEF KeyPress, wake_first
<1>5. \A u \in Task, p \in Queue :
        On(queue', u, p) <=> IF u = h THEN p = readyqueue ELSE On(queue, u, p)
  <2>1. PICK R : R = list_add_tail(list_del_first(queue, getKey_blocked),
                                   Head(queue[getKey_blocked]), readyqueue)
    OBVIOUS
  <2>2. \A u \in Task, p \in Queue :
          On(R, u, p) <=> IF u = h THEN p = readyqueue ELSE On(queue, u, p)
    BY <1>1, <2>1, MoveLinks
  <2> QED
    BY <1>4, <2>1, <2>2
<1>6. \A t \in Task : /\ task'[t].register_esp = task[t].register_esp
                      /\ task'[t].key_timeout = task[t].key_timeout
  BY <1>1, <1>2, <1>4 DEF task_struct
<1>7. h # current /\ ~ On(queue, h, readyqueue)
  BY <1>1, <1>2 DEF Once, On, Unlinked
<1>8. task[h].register_esp = "getKey"
  BY <1>2 DEF InGetKey
<1> HIDE DEF h
<1>9. InGetKey(task', queue', current', resume')
  BY <1>1, <1>5, <1>6 DEF InGetKey
<1>10. h \notin Woken
  BY <1>1, <1>7, WokenIs DEF WokenIn
<1>11. Woken' = WokenIn(task', queue', current', resume')
  BY DEF Woken, WokenIn, OnList, On
<1>12. ASSUME NEW t \in Task
       PROVE  t \in Woken' <=> t \in Woken \/ (t = h /\ task[h].key_timeout > 0)
  <2>1. CASE t = h
    BY <1>1, <1>2, <1>5, <1>6, <1>8, <1>10, <1>11, <2>1 DEF WokenIn
  <2>2. CASE t # h
    BY <1>1, <1>5, <1>6, <1>11, <2>2, WokenIs DEF WokenIn
  <2> QED
    BY <2>1, <2>2
<1>13. Woken \subseteq Task /\ Woken' \subseteq Task
  BY <1>11, WokenIs DEF WokenIn
<1> QED
  BY <1>1, <1>2, <1>9, <1>10, <1>12, <1>13

\* The characters in the buffer, after a push and after a pop.
LEMMA BufferCounts ==
  ASSUME keyboard_buffer \in Buffer
  PROVE  /\ keyboard_buffer.num_elem \in Nat
         /\ \A c : circular_buffer_push(keyboard_buffer, c).num_elem =
              IF circular_buffer_full(keyboard_buffer) THEN keyboard_buffer.num_elem
              ELSE keyboard_buffer.num_elem + 1
         /\ circular_buffer_pop(keyboard_buffer).num_elem =
              IF keyboard_buffer.num_elem = 0 THEN 0 ELSE keyboard_buffer.num_elem - 1
<1>1. /\ keyboard_buffer.num_elem \in Nat
      /\ \A b \in Buffer : \A x, y, n : /\ [b EXCEPT !.num_elem = n].num_elem = n
                                        /\ [b EXCEPT !.head = x, !.num_elem = n].num_elem = n
  BY BufferSizeAssumption DEF Buffer
<1>2. \A c : circular_buffer_push(keyboard_buffer, c).num_elem =
               IF circular_buffer_full(keyboard_buffer) THEN keyboard_buffer.num_elem
               ELSE keyboard_buffer.num_elem + 1
  BY <1>1 DEF circular_buffer_push, Buffer
<1>3. circular_buffer_pop(keyboard_buffer).num_elem =
        IF keyboard_buffer.num_elem = 0 THEN 0 ELSE keyboard_buffer.num_elem - 1
  BY <1>1 DEF circular_buffer_pop, circular_buffer_empty, Buffer
<1> QED
  BY <1>1, <1>2, <1>3

\* How many readers are woken, and one more or one less.
LEMMA WokenCounts ==
  /\ Cardinality(Woken) \in Nat
  /\ Woken = {} => Cardinality(Woken) = 0
  /\ \A t \in Woken : Cardinality(Woken \ {t}) = Cardinality(Woken) - 1
  /\ \A t : t \notin Woken => Cardinality(Woken \cup {t}) = Cardinality(Woken) + 1
<1>1. IsFiniteSet(Task)
  BY FS_Interval, SchedAssumption DEF Task
<1>2. IsFiniteSet(Woken)
  BY <1>1, FS_Subset DEF Woken
<1> QED
  BY <1>2, FS_CardinalityType, FS_EmptySet, FS_RemoveElement, FS_AddElement

\* What is left of sys_getKey after the test of the timeout.
LEMMA AtOnceAccounts ==
  ASSUME TypeOK, ListInv, ReadInv, NEW timeout \in Timeouts, ReadAtOnce(timeout)
  PROVE  ReadInv'
<1>1. /\ task \in [Task -> task_struct] /\ current \in Task /\ idle_task \in Task
      /\ resume = "user" /\ resume' = resume /\ timeout \in Int
      /\ task' = [task EXCEPT ![current].key_timeout = timeout]
      /\ current' = current /\ queue' = queue /\ getKey_serve(timeout)
      /\ Unlinked(queue, current) /\ readyqueue \in Queue /\ getKey_blocked \in Queue
      /\ keyboard_buffer \in Buffer /\ pending_to_service \in Int
      /\ keyboard_buffer.num_elem # 0
  BY KeyAssumption, QueueNames
  DEF TypeOK, ListInv, Links, ReadAtOnce, GetKeyAtOnce, Syscall, UserMode, MustWait,
      circular_buffer_empty
<1>2. \A t \in Task : /\ task'[t].register_esp = task[t].register_esp
                      /\ t # current => task'[t].key_timeout = task[t].key_timeout
  BY <1>1 DEF task_struct
<1>3. InGetKey(task', queue', current', resume')
  BY <1>1, <1>2 DEF ReadInv, InGetKey
<1>4. Woken' = Woken
  <2>1. Woken' = WokenIn(task', queue', current', resume')
    BY DEF Woken, WokenIn, OnList, On
  <2>2. ASSUME NEW t \in Task
        PROVE  t \in WokenIn(task', queue', current', resume')
                 <=> t \in WokenIn(task, queue, current, resume)
    BY <1>1, <1>2 DEF WokenIn, Unlinked
  <2> QED
    BY <2>1, <2>2, WokenIs DEF WokenIn
<1>5. /\ pending_to_service = Cardinality(Woken) - skew
      /\ robbed \/ Cardinality(Woken) <= keyboard_buffer.num_elem
      /\ skew \in Int /\ robbed \in BOOLEAN
  BY DEF ReadInv, PendingAccounted, CharForReader
<1>6. CASE timeout <= 0
  <2>1. UNCHANGED <<keyboard_buffer, pending_to_service, skew, robbed>>
    BY <1>1, <1>6 DEF getKey_serve, ReadAtOnce, readVars
  <2> QED
    BY <1>3, <1>4, <1>5, <2>1 DEF ReadInv, PendingAccounted, CharForReader
<1>7. CASE ~ (timeout <= 0)
  <2>1. /\ pending_to_service' = pending_to_service - 1
        /\ keyboard_buffer' = circular_buffer_pop(keyboard_buffer)
        /\ skew' = skew + 1 /\ robbed' = (robbed \/ Woken # {})
    BY <1>1, <1>7 DEF getKey_serve, ReadAtOnce
  <2>2. /\ keyboard_buffer'.num_elem = keyboard_buffer.num_elem - 1
        /\ keyboard_buffer.num_elem \in Nat
    BY <1>1, <2>1, BufferCounts
  <2>3. PendingAccounted' /\ skew' \in Int
    BY <1>1, <1>4, <1>5, <2>1, WokenCounts DEF PendingAccounted
  <2>4. robbed' \in BOOLEAN
    BY <1>5, <2>1
  <2>5. CASE Woken = {}
    <3>1. Cardinality(Woken') <= keyboard_buffer'.num_elem
      BY <1>1, <1>4, <2>2, <2>5, WokenCounts
    <3> QED
      BY <1>3, <2>3, <2>4, <3>1 DEF ReadInv, CharForReader
  <2>6. CASE Woken # {}
    <3>1. robbed'
      BY <2>1, <2>6
    <3> QED
      BY <1>3, <2>3, <2>4, <3>1 DEF ReadInv, CharForReader
  <2> QED
    BY <2>5, <2>6
<1> QED
  BY <1>6, <1>7

LEMMA ResumeAccounts ==
  ASSUME TypeOK, ListInv, ReadInv, ReadResumes
  PROVE  ReadInv'
<1>1. /\ task \in [Task -> task_struct] /\ current \in Task /\ idle_task \in Task
      /\ resume = "getKey" /\ resume' = "user"
      /\ task' = task /\ current' = current /\ queue' = queue
      /\ getKey_serve(task[current].key_timeout) /\ task[current].key_timeout \in Int
      /\ Unlinked(queue, current) /\ readyqueue \in Queue
      /\ keyboard_buffer \in Buffer /\ pending_to_service \in Int
      /\ task[current].register_esp = "getKey"
      /\ skew' = skew /\ robbed' = robbed
  BY QueueNames
  DEF TypeOK, ListInv, Links, ReadResumes, GetKeyResumes, task_struct, ReadInv, InGetKey
<1>2. InGetKey(task', queue', current', resume')
  BY <1>1 DEF ReadInv, InGetKey
<1>3. /\ pending_to_service = Cardinality(Woken) - skew
      /\ robbed \/ Cardinality(Woken) <= keyboard_buffer.num_elem
      /\ skew \in Int /\ robbed \in BOOLEAN
  BY DEF ReadInv, PendingAccounted, CharForReader
<1>4. Woken' = WokenIn(task', queue', current', resume')
  BY DEF Woken, WokenIn, OnList, On
<1>5. CASE task[current].key_timeout <= 0
  <2>1. UNCHANGED <<keyboard_buffer, pending_to_service>>
    BY <1>1, <1>5 DEF getKey_serve
  <2>2. ASSUME NEW t \in Task
        PROVE  t \in WokenIn(task', queue', current', resume')
                 <=> t \in WokenIn(task, queue, current, resume)
    BY <1>1, <1>5 DEF WokenIn
  <2>3. Woken' = Woken
    BY <1>4, <2>2, WokenIs DEF WokenIn
  <2> QED
    BY <1>1, <1>2, <1>3, <2>1, <2>3 DEF ReadInv, PendingAccounted, CharForReader
<1>6. CASE ~ (task[current].key_timeout <= 0)
  <2>1. /\ pending_to_service' = pending_to_service - 1
        /\ keyboard_buffer' = circular_buffer_pop(keyboard_buffer)
    BY <1>1, <1>6 DEF getKey_serve
  <2>2. /\ keyboard_buffer.num_elem \in Nat
        /\ keyboard_buffer'.num_elem = IF keyboard_buffer.num_elem = 0 THEN 0
                                       ELSE keyboard_buffer.num_elem - 1
    BY <1>1, <2>1, BufferCounts
  <2>3. current \in Woken
    BY <1>1, <1>6, WokenIs DEF WokenIn
  <2>4. Woken' = Woken \ {current}
    <3>1. ASSUME NEW t \in Task
          PROVE  t \in WokenIn(task', queue', current', resume')
                   <=> t \in WokenIn(task, queue, current, resume) /\ t # current
      BY <1>1 DEF WokenIn, Unlinked
    <3> QED
      BY <1>4, <3>1, WokenIs DEF WokenIn
  <2>5. Cardinality(Woken') = Cardinality(Woken) - 1 /\ Cardinality(Woken) \in Nat
    BY <2>3, <2>4, WokenCounts
  <2>6. Cardinality(Woken') \in Nat
    <3>1. IsFiniteSet(Task)
      BY FS_Interval, SchedAssumption DEF Task
    <3>2. IsFiniteSet(Woken)
      BY <3>1, FS_Subset DEF Woken
    <3> QED
      BY <2>4, <3>2, FS_Subset, FS_CardinalityType
  <2>7. PendingAccounted'
    BY <1>1, <1>3, <2>1, <2>5 DEF PendingAccounted
  <2>8. CharForReader'
    BY <1>1, <1>3, <2>2, <2>5, <2>6 DEF CharForReader
  <2> QED
    BY <1>1, <1>2, <1>3, <2>7, <2>8 DEF ReadInv
<1> QED
  BY <1>5, <1>6
\* A key press: a character, and a reader woken for it if one waits with time left.
LEMMA TypeAccounts ==
  ASSUME TypeOK, ListInv, ReadInv, NEW c \in Keys, Type(c)
  PROVE  ReadInv'
<1> DEFINE full == circular_buffer_full(keyboard_buffer)
<1>1. /\ KeyPress(c) /\ current' = current /\ resume' = resume
      /\ keyboard_buffer \in Buffer /\ pending_to_service \in Int
      /\ keyboard_buffer' = circular_buffer_push(keyboard_buffer, c)
      /\ InGetKey(task, queue, current, resume)
  BY DEF TypeOK, Type, KeyPress, ReadInv
<1>2. /\ keyboard_buffer.num_elem \in Nat
      /\ keyboard_buffer'.num_elem = IF full THEN keyboard_buffer.num_elem
                                     ELSE keyboard_buffer.num_elem + 1
  BY <1>1, BufferCounts
<1>3. /\ pending_to_service = Cardinality(Woken) - skew
      /\ robbed \/ Cardinality(Woken) <= keyboard_buffer.num_elem
      /\ skew \in Int /\ robbed \in BOOLEAN
      /\ Cardinality(Woken) \in Nat
  BY WokenCounts DEF ReadInv, PendingAccounted, CharForReader
<1>4. CASE Waiters = <<>>
  <2>1. UNCHANGED <<task, queue, pending_to_service>>
    BY <1>1, <1>4 DEF KeyPress, Waiters
  <2>2. skew' = skew /\ (robbed' <=> robbed) /\ robbed' \in BOOLEAN
    BY <1>3, <1>4 DEF Type
  <2>3. Woken' = Woken
    BY <1>1, <2>1 DEF Woken, OnList
  <2>4. InGetKey(task', queue', current', resume')
    BY <1>1, <2>1
  <2>5. Cardinality(Woken) <= keyboard_buffer.num_elem
          => Cardinality(Woken) <= keyboard_buffer'.num_elem
    BY <1>2, <1>3
  <2>6. CharForReader'
    BY <1>3, <2>2, <2>3, <2>5, Zenon DEF CharForReader
  <2> QED
    BY <1>3, <2>1, <2>2, <2>3, <2>4, <2>6 DEF ReadInv, PendingAccounted
<1>5. CASE Waiters # <<>>
  <2> DEFINE h == Head(Waiters)
  <2>1. /\ InGetKey(task', queue', current', resume')
        /\ h \notin Woken
        /\ Woken' = IF task[h].key_timeout > 0 THEN Woken \cup {h} ELSE Woken
    BY <1>1, <1>5, KeyServes
  <2>2. pending_to_service' = pending_to_service + 1
    BY <1>1, <1>5 DEF KeyPress, Waiters
  <2>3. CASE task[h].key_timeout > 0
    <3>1. Cardinality(Woken') = Cardinality(Woken) + 1
      BY <2>1, <2>3, WokenCounts
    <3>2. skew' = skew
      BY <2>3 DEF Type
    <3>3. robbed' = (robbed \/ full)
      BY <1>5, <2>3 DEF Type
    <3>4. PendingAccounted' /\ skew' \in Int
      BY <1>3, <2>2, <3>1, <3>2 DEF PendingAccounted
    <3>5. ~ full /\ Cardinality(Woken) <= keyboard_buffer.num_elem
            => Cardinality(Woken') <= keyboard_buffer'.num_elem
      BY <1>2, <1>3, <3>1
    <3>6. CharForReader' /\ robbed' \in BOOLEAN
      BY <1>3, <3>3, <3>5, Zenon DEF CharForReader
    <3> QED
      BY <2>1, <3>4, <3>6 DEF ReadInv
  <2>4. CASE ~ (task[h].key_timeout > 0)
    <3>1. Woken' = Woken
      BY <2>1, <2>4
    <3>2. skew' = skew - 1
      BY <1>5, <2>4 DEF Type
    <3>3. (robbed' <=> robbed) /\ robbed' \in BOOLEAN
      BY <1>3, <2>4 DEF Type
    <3>4. PendingAccounted' /\ skew' \in Int
      BY <1>3, <2>2, <3>1, <3>2 DEF PendingAccounted
    <3>5. Cardinality(Woken) <= keyboard_buffer.num_elem
            => Cardinality(Woken) <= keyboard_buffer'.num_elem
      BY <1>2, <1>3
    <3>6. CharForReader'
      BY <1>3, <3>1, <3>3, <3>5, Zenon DEF CharForReader
    <3> QED
      BY <2>1, <3>3, <3>4, <3>6 DEF ReadInv
  <2> QED
    BY <2>3, <2>4
<1> QED
  BY <1>4, <1>5

\* The histories only watch: every step of the readers is one of the kernel.
LEMMA ReadersStep == [ReadersNext]_<<vars, readVars>> => [Next]_vars
<1> SUFFICES ASSUME [ReadersNext]_<<vars, readVars>> PROVE [Next]_vars
  OBVIOUS
<1>1. CASE Others
  BY <1>1 DEF Others, Next, ProcessNext, KeyNext
<1>2. ASSUME NEW timeout \in Timeouts, ReadAtOnce(timeout) PROVE Next
  BY <1>2 DEF ReadAtOnce, Next, KeyNext
<1>3. CASE ReadResumes
  BY <1>3 DEF ReadResumes, Next, KeyNext
<1>4. ASSUME NEW c \in Keys, Type(c) PROVE Next
  BY <1>4 DEF Type, Next, KeyNext
<1>5. CASE UNCHANGED <<vars, readVars>>
  BY <1>5
<1> QED
  BY <1>1, <1>2, <1>3, <1>4, <1>5 DEF ReadersNext

LEMMA ReadersInitInv == ReadersInit => ReadInv
<1> SUFFICES ASSUME ReadersInit PROVE ReadInv
  OBVIOUS
<1>1. /\ \A q \in Queue \ {freequeue} : queue[q] = <<>>
      /\ \A t \in Task : task[t].register_esp # "getKey"
      /\ resume = "user" /\ idle_task \in Task
      /\ readyqueue \in Queue \ {freequeue} /\ getKey_blocked \in Queue \ {freequeue}
  BY SchedAssumption, QueueNames, QueuesApart
  DEF ReadersInit, Init, init_sched, init_idle, init_task1, free_task, Task, idle_task
<1>2. InGetKey(task, queue, current, resume)
  BY <1>1 DEF InGetKey, On
<1>3. Woken = {}
  BY <1>1 DEF Woken
<1>4. Cardinality(Woken) = 0
  BY <1>3, WokenCounts
<1>5. pending_to_service = 0 /\ keyboard_buffer.num_elem = 0 /\ skew = 0 /\ robbed = FALSE
  BY DEF ReadersInit, Init, init_keys, INIT_CIRCULAR_BUFFER
<1>6. PendingAccounted
  BY <1>4, <1>5 DEF PendingAccounted
<1>7. Cardinality(Woken) <= keyboard_buffer.num_elem
  BY <1>4, <1>5
<1>8. skew \in Int
  BY <1>5
<1>9. robbed \in BOOLEAN
  BY <1>5, Zenon
<1> QED
  BY <1>2, <1>6, <1>7, <1>8, <1>9 DEF ReadInv, CharForReader

\* A step that leaves the buffer and the histories alone only has to keep Woken.
LEMMA SameAccounts ==
  ASSUME ReadInv, InGetKey(task', queue', current', resume'), Woken' = Woken,
         UNCHANGED <<keyboard_buffer, pending_to_service, skew, robbed>>
  PROVE  ReadInv'
  BY DEF ReadInv, PendingAccounted, CharForReader

LEMMA ReadersKept ==
  ASSUME TypeOK, ListInv, ReadInv, [ReadersNext]_<<vars, readVars>>
  PROVE  ReadInv'
<1>1. InGetKey(task, queue, current, resume)
  BY DEF ReadInv
<1>2. CASE Others
  <2>1. UNCHANGED <<keyboard_buffer, pending_to_service, skew, robbed>>
    BY <1>2 DEF Others, GetKeyWaits, KeyRelease, ClockTick, keyVars, readVars
  <2>2. CASE Fork
    BY <1>1, <2>1, <2>2, ForkServes, SameAccounts
  <2>3. ASSUME NEW timeout \in Timeouts, GetKeyWaits(timeout) PROVE ReadInv'
    BY <1>1, <2>1, <2>3, WaitServes, SameAccounts
  <2>4. CASE KeyRelease
    <3>1. Woken' = Woken /\ InGetKey(task', queue', current', resume')
      BY <1>1, <2>4 DEF KeyRelease, schedVars, Woken, OnList
    <3> QED
      BY <2>1, <3>1, SameAccounts
  <2>5. CASE ClockTick
    BY <1>1, <2>1, <2>5, ClockServes, SameAccounts
  <2> QED
    BY <1>2, <2>2, <2>3, <2>4, <2>5 DEF Others
<1>3. CASE UNCHANGED <<vars, readVars>>
  <2>1. /\ UNCHANGED <<keyboard_buffer, pending_to_service, skew, robbed>>
        /\ Woken' = Woken /\ InGetKey(task', queue', current', resume')
    BY <1>1, <1>3 DEF vars, schedVars, keyVars, readVars, Woken, OnList
  <2> QED
    BY <2>1, SameAccounts
<1> QED
  BY <1>2, <1>3, AtOnceAccounts, ResumeAccounts, TypeAccounts DEF ReadersNext

LEMMA ReadersInvariant == ReadersSpec => [](TypeOK /\ ListInv /\ ReadInv)
<1>1. ReadersInit => TypeOK /\ ListInv /\ ReadInv
  BY InitType, InitLists, ReadersInitInv DEF ReadersInit
<1>2. TypeOK /\ ListInv /\ ReadInv /\ [ReadersNext]_<<vars, readVars>>
        => TypeOK' /\ ListInv' /\ ReadInv'
  BY NextType, ReadersStep, ListsKept, ReadersKept
<1> QED
  BY <1>1, <1>2, PTL DEF ReadersSpec

(* pending_to_service is always the number of readers that a key has woken
   and that are still to be served, but for the two errors that skew counts:
   a read served at once, and a waiter woken when its time was up.  No other
   interleaving of sys_getKey, keyboard_routine and key_timout_system loses
   or doubles a reader, for any number of tasks, keys and timeouts. *)
THEOREM PendingIsAccounted == ReadersSpec => []PendingAccounted
<1>1. ReadInv => PendingAccounted
  BY DEF ReadInv
<1> QED
  BY <1>1, ReadersInvariant, PTL

(* A reader that keyboard_routine has woken finds a character in the buffer
   when sys_getKey goes on, unless a read served at once took it or the key
   had been dropped by a full buffer, whatever the size of the buffer and
   however many readers wait. *)
THEOREM CharacterForReader == ReadersSpec => []CharForReader
<1>1. ReadInv => CharForReader
  BY DEF ReadInv
<1> QED
  BY <1>1, ReadersInvariant, PTL
=============================================================================
