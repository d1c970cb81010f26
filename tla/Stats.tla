-------------------------------- MODULE Stats --------------------------------
(***************************************************************************)
(* The accounting of p_stats.c, together with the handlers that charge     *)
(* time to a task.  Only the clock and the keyboard handler tell user from *)
(* system time; a system call charges nothing unless it switches.          *)
(*                                                                         *)
(* get_ticks is a 32-bit quotient of the cycle counter: now is the exact   *)
(* count, and what the code reads and keeps is now % TickWord.  Every      *)
(* charge reads the counter again, and time may pass between one reading   *)
(* and the next: a yield reads it at sched.c:125, 149 and 150, the two     *)
(* interrupt handlers also on entry and before they return.  The time that *)
(* a call takes before its first reading passes before its step.           *)
(* total_trans, which only counts switches, is left out.                   *)
(***************************************************************************)
EXTENDS Kernel

CONSTANTS
  TickWord,    \* values of an unsigned long (2^32 in the source)
  FirstTick,   \* what get_ticks returns when the kernel starts
  LastTick,    \* bound: the last tick that is followed
  Pids         \* the PIDs that tasks pass to get_stats

ASSUME StatsAssumption ==
  /\ TickWord \in Nat \ {0} /\ FirstTick \in Nat /\ LastTick \in Nat
  /\ Pids \subseteq Nat

VARIABLES
  p_stats,
  now,
  birth,     \* history: when the task was created
  waited     \* history: the time it has spent ready or waiting for a semaphore, in
             \* this wait (up to now) and in the earlier ones

statsVars == <<p_stats, now, birth, waited>>

get_ticks(n) == n % TickWord

init_stats(n) ==
  [user_ticks |-> 0, system_ticks |-> 0, blocked_ticks |-> 0, ready_ticks |-> 0,
   elapsed_total_ticks |-> get_ticks(n), remaining_ticks |-> get_ticks(n)]

StatsInit ==
  /\ Init
  /\ p_stats = [t \in Task |-> init_stats(FirstTick)]
  /\ now = FirstTick
  /\ birth = [t \in Task |-> FirstTick]
  /\ waited = [t \in Task |-> 0]

\* The time since the last charge goes to counter v of task t.
update_stats(P, t, v, n) ==
  [P EXCEPT ![t][v] = (@ + get_ticks(n) - P[t].elapsed_total_ticks) % TickWord,
            ![t].elapsed_total_ticks = get_ticks(n)]

\* Called by clock_handler and keyboard_handler before anything else.
user_to_system(P) == update_stats(P, current, "user_ticks", now)

\* What a reading of the counter finds that comes after one at tick n.
Later(n) == n .. LastTick

\* Ticks by task: those of at, and tick n for task t.
At(t, n, at) == [u \in DOMAIN at \cup {t} |-> IF u = t THEN n ELSE at[u]]

Nobody == [u \in {} |-> now]

\* Mutant: a task that is made ready is not charged first.
ready_stats_none(P, at) == P

(* update_process_state_rr to readyqueue charges what went by as system time:
   each task t of DOMAIN at, at tick at[t]. *)
ready_stats(P, at) ==
  [t \in Task |-> IF t \in DOMAIN at THEN update_stats(P, t, "system_ticks", at[t])[t]
                                     ELSE P[t]]

(* A task that waits for the CPU or for a semaphore; idle waits when nobody
   has switched to it, linked or not. *)
Waiting(t) == \/ OnList(t, readyqueue)
              \/ \E s \in Semafor : OnList(t, s)
              \/ t = idle_task /\ current # idle_task

(* The waits after a step that ends at tick n.  Task t of DOMAIN began to wait
   at tick begin[t]; the wait of the task that runs now, if it did wait, ended
   at tick c. *)
waits(n, begin, c) ==
  [t \in Task |->
     LET until == IF t = current' THEN c ELSE n
     IN  IF t \in DOMAIN begin THEN waited[t] + (until - begin[t])
         ELSE IF Waiting(t) THEN waited[t] + (until - now)
         ELSE waited[t]]

(* sched_next_rr, with the counters P and after tick n: the task that leaves
   is charged at tick b, then the one that comes at tick c.  One that was
   preempted goes on inside clock_handler, with system_to_user.  If the task
   that leaves is to wait it is in begin, and waits from its charge on. *)
sched_next_stats(P, n, begin) ==
  LET t == current'
  IN \E b \in Later(n) : \E c \in Later(b) :
     \E s \in IF task[t].register_esp = "clock" THEN Later(c) ELSE {c} :
       LET left == update_stats(P, current, "system_ticks", b)
           come == update_stats(left, t, "ready_ticks", c)
       IN  /\ p_stats' = IF task[t].register_esp = "clock"
                           THEN update_stats(come, t, "system_ticks", s) ELSE come
           /\ now' = s
           /\ waited' = waits(s, IF current \in DOMAIN begin THEN At(current, b, begin)
                                                             ELSE begin, c)
           /\ UNCHANGED birth

AtOnce == UNCHANGED <<now, birth, waited>>
-----------------------------------------------------------------------------
\* The running task goes on, in user mode or in a system call.
Elapse ==
  /\ halted = "no" /\ now < LastTick
  /\ UNCHANGED <<vars, p_stats, birth>>
  /\ now' = now + 1
  /\ waited' = waits(now + 1, Nobody, now + 1)

\* sys_yield charges its caller when it links it and again when it leaves it.
YieldCharged ==
  /\ Yield /\ UNCHANGED <<global_PID, keyVars, semVars>>
  /\ \E a \in Later(now) :
       LET at == At(current, a, Nobody)
       IN  sched_next_stats(ready_stats(p_stats, at), a, at)

\* The other system calls that always leave the CPU, not to wait for it.
SwitchCharged ==
  /\ \/ Block /\ UNCHANGED <<global_PID, keyVars, semVars>>
     \/ Exit /\ UNCHANGED <<keyVars, semVars>>
     \/ \E timeout \in Timeouts : GetKeyWaits(timeout) /\ UNCHANGED <<global_PID, semVars>>
  /\ IF halted' = "hung" THEN UNCHANGED statsVars
                         ELSE sched_next_stats(p_stats, now, Nobody)

semWaitCharged(s) ==
  /\ semWait(s) /\ UNCHANGED <<global_PID, keyVars>>
  /\ IF sem'[s].count < 0 THEN sched_next_stats(p_stats, now, At(current, now, Nobody))
                          ELSE UNCHANGED statsVars

\* The system calls that neither switch nor charge.
QuietCall ==
  /\ \/ GetKeyResumes /\ UNCHANGED semVars
     \/ \E timeout \in Timeouts : GetKeyAtOnce(timeout) /\ UNCHANGED semVars
     \/ \E v \in SemValues : sem_create(v) /\ UNCHANGED keyVars
     \/ \E s \in Created : semSignal(s) /\ UNCHANGED keyVars
  /\ UNCHANGED <<global_PID, p_stats>>
  /\ AtOnce

\* Mutant: the counters of a new task go on from those of its creator.
CreateCopiesStats ==
  LET c == Head(queue[freequeue])
  IN  /\ Fork \/ ThreadCreate
      /\ p_stats' = [p_stats EXCEPT ![c] = p_stats[current]]
      /\ birth' = [birth EXCEPT ![c] = now]
      /\ waited' = [waited EXCEPT ![c] = 0]
      /\ UNCHANGED <<now, keyVars, semVars>>

CreateCharged ==
  LET c == Head(queue[freequeue])
  IN  /\ Fork \/ ThreadCreate
      /\ p_stats' = [p_stats EXCEPT ![c] = init_stats(now)]
      /\ birth' = [birth EXCEPT ![c] = now]
      /\ waited' = [waited EXCEPT ![c] = 0]
      /\ UNCHANGED <<now, keyVars, semVars>>

\* A creation that fails leaves the counters of its caller in the free slot.
CreateFailsCharged ==
  /\ ForkFails \/ ThreadCreateFails
  /\ p_stats' = [p_stats EXCEPT ![Head(queue[freequeue])] = p_stats[current]]
  /\ UNCHANGED <<keyVars, semVars>>
  /\ AtOnce

\* The end of an interrupt handler that does not switch, after tick n.
return_stats(P, n, begin) ==
  \E s \in Later(n) : /\ p_stats' = update_stats(P, current, "system_ticks", s)
                      /\ now' = s
                      /\ waited' = waits(s, begin, s)
                      /\ UNCHANGED birth

\* keyboard_handler: user_to_system, keyboard_routine, system_to_user.
KeyboardCharged ==
  /\ KeyRelease \/ \E c \in Keys : KeyPress(c)
  /\ LET woken == {t \in Task : make_flag /\ Waiters # <<>> /\ t = Head(Waiters)}
     IN  \E n \in Later(now) :
           LET at == [t \in woken |-> n]
           IN  return_stats(ready_stats(user_to_system(p_stats), at), n, at)
  /\ UNCHANGED <<global_PID, semVars>>

\* clock_handler; each waiter that its sweep wakes is charged on its own.
ClockCharged ==
  /\ ClockTick
  /\ LET woken == {Waiters[i] : i \in Expired}
         switches == remaining_quantum = 1 /\ (queue[readyqueue] # <<>> \/ woken # {})
     IN  \E n \in Later(now) : \E at \in [woken -> now .. n] :
           LET P == ready_stats(user_to_system(p_stats), at)
           IN  IF switches
                 THEN sched_next_stats(ready_stats(P, At(current, n, Nobody)), n,
                                       At(current, n, at))
                 ELSE return_stats(P, n, at)
  /\ UNCHANGED <<global_PID, semVars>>

\* sys_get_stats; with no such PID it changes nothing.
get_stats(pid) ==
  /\ Syscall
  /\ \E t \in stats_slot(pid) :
       p_stats' = [p_stats EXCEPT ![t].remaining_ticks = remaining_quantum]
  /\ AtOnce
  /\ UNCHANGED vars

StatsNext ==
  \/ Elapse \/ YieldCharged \/ SwitchCharged \/ QuietCall
  \/ CreateCharged \/ CreateFailsCharged \/ KeyboardCharged \/ ClockCharged
  \/ \E s \in Created : semWaitCharged(s)
  \/ \E pid \in Pids : get_stats(pid)
  \/ Spin /\ UNCHANGED <<global_PID, keyVars, semVars, statsVars>>

StatsSpec == StatsInit /\ [][StatsNext]_<<vars, statsVars>>
-----------------------------------------------------------------------------
(* The four counters of a task add up to the time from its creation to its
   last charge, on every path of switches, wake-ups and failed creations,
   and across the wrap of the tick counter: no tick is lost or counted
   twice, and nothing is inherited from an earlier owner of the slot. *)
TicksConserved ==
  \A t \in Alive :
    LET s == p_stats[t]
    IN  (s.user_ticks + s.system_ticks + s.blocked_ticks + s.ready_ticks) % TickWord
          = (s.elapsed_total_ticks - birth[t]) % TickWord

(* ready_ticks is the time spent ready or waiting for a semaphore, up to the
   last charge: from the charge with which a task leaves the CPU (sched.c:149)
   or is woken (125) to the one with which it comes back (150), whatever is
   switched and woken in between.  What passes after a yield or the clock has
   linked its task to readyqueue and before that task is charged for the last
   time is system time.  The time blocked in getKey is none of it, although
   nothing is charged to blocked_ticks. *)
ReadyTimeExact ==
  \A t \in Alive :
    LET s == p_stats[t]
        uncharged == IF Waiting(t) THEN get_ticks(now) - s.elapsed_total_ticks ELSE 0
    IN  (s.ready_ticks + uncharged) % TickWord = get_ticks(waited[t])
=============================================================================
