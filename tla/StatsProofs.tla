----------------------------- MODULE StatsProofs -----------------------------
(***************************************************************************)
(* The accounting of p_stats.c: no tick is lost or counted twice, and the  *)
(* ready time is the time spent waiting for the CPU or for a semaphore,    *)
(* whatever the word size of the counters.                                 *)
(*                                                                         *)
(* TicksConserved and ReadyTimeExact are inductive once the lists are in   *)
(* order: each charge keeps the balance of the task that it is made to,    *)
(* and ListInv tells which tasks begin and end to wait in a step.          *)
(***************************************************************************)
EXTENDS Stats, KernelProofs

\* Remainders: their range, and that they may be taken before adding.
LEMMA RemainderType == \A a \in Int : a % TickWord \in 0 .. TickWord - 1
  BY StatsAssumption

LEMMA Quotient ==
  \A a \in Int : a \div TickWord \in Int /\ a = TickWord * (a \div TickWord) + (a % TickWord)
  BY StatsAssumption

LEMMA RemainderUnique ==
  ASSUME NEW r \in 0 .. TickWord - 1, NEW s \in 0 .. TickWord - 1,
         NEW k \in Int, r = s + k * TickWord
  PROVE  r = s
<1>1. CASE k >= 1
  <2>1. k * TickWord >= TickWord
    BY <1>1, StatsAssumption
  <2> QED
    BY <2>1, StatsAssumption
<1>2. CASE k <= -1
  <2>1. k * TickWord <= -TickWord
    BY <1>2, StatsAssumption
  <2> QED
    BY <2>1, StatsAssumption
<1>3. CASE k = 0
  BY <1>3, StatsAssumption
<1> QED
  BY <1>1, <1>2, <1>3

LEMMA SameRemainderPlus ==
  ASSUME NEW a \in Int, NEW b \in Int, NEW c \in Int, a % TickWord = b % TickWord
  PROVE  (a + c) % TickWord = (b + c) % TickWord
<1>1. PICK i \in Int, j \in Int :
           a = TickWord * i + (a % TickWord) /\ b = TickWord * j + (b % TickWord)
  BY Quotient
<1>2. PICK m \in Int, n \in Int : /\ a + c = TickWord * m + ((a + c) % TickWord)
                                  /\ b + c = TickWord * n + ((b + c) % TickWord)
  BY Quotient
<1>3. PICK r \in 0 .. TickWord - 1, s \in 0 .. TickWord - 1, z \in 0 .. TickWord - 1 :
           r = (a + c) % TickWord /\ s = (b + c) % TickWord /\ z = a % TickWord
  BY RemainderType
<1>4. TickWord \in Int /\ r \in Int /\ s \in Int /\ z \in Int
  BY StatsAssumption
<1>5. /\ a = TickWord * i + z /\ b = TickWord * j + z
      /\ a + c = TickWord * m + r /\ b + c = TickWord * n + s
  BY <1>1, <1>2, <1>3
<1>6. r - s = TickWord * i - TickWord * m - TickWord * j + TickWord * n
  BY <1>4, <1>5
<1>7. r = s + (i - m - j + n) * TickWord
  BY <1>4, <1>6
<1>8. r = s
  BY <1>7, RemainderUnique
<1> QED
  BY <1>3, <1>8

LEMMA RemainderTwice == \A a \in Int : (a % TickWord) % TickWord = a % TickWord
<1> SUFFICES ASSUME NEW a \in Int PROVE (a % TickWord) % TickWord = a % TickWord
  OBVIOUS
<1>1. PICK r \in 0 .. TickWord - 1 : r = a % TickWord
  BY RemainderType
<1>2. PICK k \in Int, s \in 0 .. TickWord - 1 : r = TickWord * k + s /\ s = r % TickWord
  BY Quotient, RemainderType
<1>3. r = s + k * TickWord
  BY <1>2, StatsAssumption
<1> QED
  BY <1>1, <1>2, <1>3, RemainderUnique
-----------------------------------------------------------------------------
stats == [user_ticks : Int, system_ticks : Int, blocked_ticks : Int, ready_ticks : Int,
          elapsed_total_ticks : Int, remaining_ticks : Int]

\* TicksConserved for the counters s of a task created at b.
Conserved(s, b) ==
  (s.user_ticks + s.system_ticks + s.blocked_ticks + s.ready_ticks) % TickWord
    = (s.elapsed_total_ticks - b) % TickWord

(* ReadyTimeExact for the counters s of a task that has waited for w ticks:
   of one that waits at tick n, and of one that does not wait. *)
ExactIn(s, n, w) ==
  (s.ready_ticks + (get_ticks(n) - s.elapsed_total_ticks)) % TickWord = get_ticks(w)

ExactOut(s, w) == s.ready_ticks % TickWord = get_ticks(w)

\* The one charge of update_stats.
LEMMA UpdateFields ==
  ASSUME NEW P \in [Task -> stats], NEW t \in Task, NEW n \in Int,
         NEW v \in {"user_ticks", "system_ticks", "ready_ticks"},
         NEW R, R = update_stats(P, t, v, n)
  PROVE  /\ R \in [Task -> stats]
         /\ \A u \in Task \ {t} : R[u] = P[u]
         /\ R[t].elapsed_total_ticks = get_ticks(n)
         /\ v # "ready_ticks" => R[t].ready_ticks = P[t].ready_ticks
         /\ v = "ready_ticks" => R[t].ready_ticks =
              (P[t].ready_ticks + get_ticks(n) - P[t].elapsed_total_ticks) % TickWord
         /\ \A b \in Int : Conserved(P[t], b) => Conserved(R[t], b)
<1> DEFINE g == get_ticks(n)
           s == P[t]
           c == (s[v] + g - s.elapsed_total_ticks) % TickWord
<1>1. /\ s \in stats /\ g \in Int /\ s[v] \in Int
      /\ s.user_ticks \in Int /\ s.system_ticks \in Int /\ s.blocked_ticks \in Int
      /\ s.ready_ticks \in Int /\ s.elapsed_total_ticks \in Int
  BY RemainderType DEF stats, get_ticks
<1>2. c \in Int /\ c % TickWord = (s[v] + g - s.elapsed_total_ticks) % TickWord
  <2>1. s[v] + g - s.elapsed_total_ticks \in Int
    BY <1>1
  <2> QED
    BY <2>1, RemainderType, RemainderTwice
<1>3. R = [P EXCEPT ![t] = [[s EXCEPT ![v] = c] EXCEPT !.elapsed_total_ticks = g]]
  BY <1>1 DEF update_stats, stats
<1> HIDE DEF c, g
<1>4. /\ [[s EXCEPT ![v] = c] EXCEPT !.elapsed_total_ticks = g] \in stats
      /\ R[t] = [[s EXCEPT ![v] = c] EXCEPT !.elapsed_total_ticks = g]
  BY <1>1, <1>2, <1>3 DEF stats
<1>5. /\ R \in [Task -> stats]
      /\ \A u \in Task \ {t} : R[u] = P[u]
  BY <1>3, <1>4
<1>6. /\ R[t].elapsed_total_ticks = g
      /\ R[t].blocked_ticks = s.blocked_ticks
      /\ R[t].user_ticks = IF v = "user_ticks" THEN c ELSE s.user_ticks
      /\ R[t].system_ticks = IF v = "system_ticks" THEN c ELSE s.system_ticks
      /\ R[t].ready_ticks = IF v = "ready_ticks" THEN c ELSE s.ready_ticks
  BY <1>1, <1>4 DEF stats
<1>7. ASSUME NEW b \in Int, Conserved(P[t], b) PROVE Conserved(R[t], b)
  <2> DEFINE X == s.user_ticks + s.system_ticks + s.blocked_ticks + s.ready_ticks
             e == s.elapsed_total_ticks
             Y == R[t].user_ticks + R[t].system_ticks + R[t].blocked_ticks + R[t].ready_ticks
  <2>1. X \in Int /\ e \in Int /\ X % TickWord = (e - b) % TickWord
    BY <1>1, <1>7 DEF Conserved
  <2>2. Y = c + (X - s[v])
    <3>1. CASE v = "user_ticks"
      BY <1>1, <1>2, <1>6, <3>1
    <3>2. CASE v = "system_ticks"
      BY <1>1, <1>2, <1>6, <3>2
    <3>3. CASE v = "ready_ticks"
      BY <1>1, <1>2, <1>6, <3>3
    <3> QED
      BY <3>1, <3>2, <3>3
  <2> HIDE DEF X, Y
  <2>3. (c + (X - s[v])) % TickWord = ((s[v] + g - e) + (X - s[v])) % TickWord
    <3>1. s[v] + g - e \in Int /\ X - s[v] \in Int
      BY <1>1, <2>1
    <3> QED
      BY <1>2, <3>1, SameRemainderPlus
  <2>4. (s[v] + g - e) + (X - s[v]) = X + (g - e)
    BY <1>1, <2>1
  <2>5. (X + (g - e)) % TickWord = ((e - b) + (g - e)) % TickWord
    <3>1. e - b \in Int /\ g - e \in Int
      BY <1>1, <2>1
    <3> QED
      BY <2>1, <3>1, SameRemainderPlus
  <2>6. (e - b) + (g - e) = g - b
    BY <1>1, <2>1
  <2>7. Y % TickWord = (g - b) % TickWord
    BY <2>2, <2>3, <2>4, <2>5, <2>6
  <2> QED
    BY <1>6, <2>7 DEF Conserved, Y
<1> QED
  BY <1>5, <1>6, <1>7 DEF c, g
\* A charge to another counter than ready_ticks, and one to ready_ticks.
LEMMA ChargeExact ==
  ASSUME NEW P \in [Task -> stats], NEW t \in Task, NEW n \in Int,
         NEW v \in {"user_ticks", "system_ticks", "ready_ticks"},
         NEW R, R = update_stats(P, t, v, n), NEW w \in Int,
         IF v = "ready_ticks" THEN ExactIn(P[t], n, w) ELSE ExactOut(P[t], w)
  PROVE  ExactIn(R[t], n, w) /\ ExactOut(R[t], w)
<1> DEFINE g == get_ticks(n)
           r == P[t].ready_ticks
           e == P[t].elapsed_total_ticks
<1>1. /\ r \in Int /\ e \in Int /\ g \in Int
      /\ R[t].elapsed_total_ticks = g
      /\ R[t].ready_ticks = IF v = "ready_ticks" THEN (r + g - e) % TickWord ELSE r
  <2>1. P[t] \in stats
    OBVIOUS
  <2>2. g \in Int /\ r \in Int /\ e \in Int
    BY <2>1, RemainderType DEF get_ticks, stats
  <2> QED
    BY <2>2, UpdateFields
<1>2. ExactOut(R[t], w)
  <2>1. CASE v = "ready_ticks"
    <3>1. r + g - e \in Int /\ r + g - e = r + (g - e)
      BY <1>1
    <3>2. ((r + g - e) % TickWord) % TickWord = (r + g - e) % TickWord
      BY <3>1, RemainderTwice
    <3>3. (r + (g - e)) % TickWord = get_ticks(w)
      BY <2>1 DEF ExactIn
    <3> HIDE DEF r, g, e
    <3> QED
      BY <1>1, <2>1, <3>1, <3>2, <3>3 DEF ExactOut
  <2>2. CASE v # "ready_ticks"
    BY <1>1, <2>2 DEF ExactOut
  <2> QED
    BY <2>1, <2>2
<1>3. R[t].ready_ticks \in Int
  <2>1. R[t] \in stats
    BY UpdateFields
  <2> QED
    BY <2>1 DEF stats
<1>4. R[t].ready_ticks + (g - R[t].elapsed_total_ticks) = R[t].ready_ticks
  BY <1>1, <1>3
<1> QED
  BY <1>2, <1>4 DEF ExactIn, ExactOut

\* Time that passes, from tick n to tick m, while the task waits.
LEMMA TimeExact ==
  ASSUME NEW s \in stats, NEW n \in Int, NEW m \in Int, NEW w \in Int, ExactIn(s, n, w)
  PROVE  ExactIn(s, m, w + (m - n))
<1> DEFINE a == s.ready_ticks + (get_ticks(n) - s.elapsed_total_ticks)
           b == s.ready_ticks - s.elapsed_total_ticks
<1>0. PICK d \in Int : d = m - n
  OBVIOUS
<1>1. /\ get_ticks(n) \in Int /\ get_ticks(m) \in Int
      /\ s.ready_ticks \in Int /\ s.elapsed_total_ticks \in Int /\ a \in Int /\ b \in Int
  BY RemainderType DEF get_ticks, stats
<1>2. (a + d) % TickWord = (w + d) % TickWord
  <2>1. PICK e \in Int : e = a /\ e % TickWord = w % TickWord
    BY <1>1 DEF ExactIn, get_ticks
  <2>2. (e + d) % TickWord = (w + d) % TickWord
    BY <2>1, SameRemainderPlus
  <2> QED
    BY <2>1, <2>2
<1>3. (get_ticks(n) + (b + d)) % TickWord = (n + (b + d)) % TickWord
  <2>1. PICK g \in Int : g = get_ticks(n) /\ g % TickWord = n % TickWord
    BY <1>1, RemainderTwice DEF get_ticks
  <2>2. PICK e \in Int : e = b + d
    BY <1>0, <1>1
  <2> HIDE DEF b
  <2>3. (g + e) % TickWord = (n + e) % TickWord
    BY <2>1, <2>2, SameRemainderPlus
  <2> QED
    BY <2>1, <2>2, <2>3
<1>4. (get_ticks(m) + b) % TickWord = (m + b) % TickWord
  <2>1. PICK g \in Int : g = get_ticks(m) /\ g % TickWord = m % TickWord
    BY <1>1, RemainderTwice DEF get_ticks
  <2>2. PICK e \in Int : e = b
    BY <1>1
  <2> HIDE DEF b
  <2>3. (g + e) % TickWord = (m + e) % TickWord
    BY <2>1, <2>2, SameRemainderPlus
  <2> QED
    BY <2>1, <2>2, <2>3
<1>5. /\ a + d = get_ticks(n) + (b + d) /\ n + (b + d) = m + b
      /\ s.ready_ticks + (get_ticks(m) - s.elapsed_total_ticks) = get_ticks(m) + b
  BY <1>0, <1>1
<1>6. (s.ready_ticks + (get_ticks(m) - s.elapsed_total_ticks)) % TickWord = (w + d) % TickWord
  <2> HIDE DEF a, b
  <2> QED
    BY <1>2, <1>3, <1>4, <1>5
<1> QED
  BY <1>0, <1>6 DEF ExactIn, get_ticks
-----------------------------------------------------------------------------
(* Who waits with the queues Q when c runs, and the balance of the ready time
   of task t. *)
WaitsIn(Q, c, t) == \/ On(Q, t, readyqueue)
                    \/ \E s \in Semafor : On(Q, t, s)
                    \/ t = idle_task /\ c # idle_task

Balanced(s, Q, c, t, n, w) ==
  /\ WaitsIn(Q, c, t) => ExactIn(s, n, w)
  /\ ~ WaitsIn(Q, c, t) => ExactOut(s, w)

\* A sequence of charges that ends with the counters R keeps what P conserved.
Charges(P, R) ==
  /\ R \in [Task -> stats]
  /\ \A u \in Task, b \in Int : Conserved(P[u], b) => Conserved(R[u], b)

LEMMA ChargesUpdate ==
  ASSUME NEW P \in [Task -> stats], NEW t \in Task, NEW n \in Int,
         NEW v \in {"user_ticks", "system_ticks", "ready_ticks"},
         NEW R, R = update_stats(P, t, v, n)
  PROVE  Charges(P, R) /\ \A u \in Task \ {t} : R[u] = P[u]
<1>1. /\ R \in [Task -> stats]
      /\ \A u \in Task \ {t} : R[u] = P[u]
      /\ \A b \in Int : Conserved(P[t], b) => Conserved(R[t], b)
  BY UpdateFields, Z3T(30)
<1>2. \A u \in Task, b \in Int : Conserved(P[u], b) => Conserved(R[u], b)
  BY <1>1
<1> QED
  BY <1>1, <1>2 DEF Charges

LEMMA ChargesCompose ==
  ASSUME NEW P, NEW R, NEW S, Charges(P, R), Charges(R, S) PROVE Charges(P, S)
  BY DEF Charges

\* The task that runs is charged: nobody else's balance moves.
LEMMA RunningBalanced ==
  ASSUME NEW P \in [Task -> stats], NEW c \in Task, NEW n \in Int, NEW Q,
         NEW v \in {"user_ticks", "system_ticks"}, ~ WaitsIn(Q, c, c),
         NEW R, R = update_stats(P, c, v, n)
  PROVE  \A u \in Task, m, w \in Int : Balanced(P[u], Q, c, u, m, w) => Balanced(R[u], Q, c, u, m, w)
<1> SUFFICES ASSUME NEW u \in Task, NEW m \in Int, NEW w \in Int, Balanced(P[u], Q, c, u, m, w)
             PROVE  Balanced(R[u], Q, c, u, m, w)
  OBVIOUS
<1>1. CASE u = c
  <2>1. ExactOut(P[c], w)
    BY <1>1 DEF Balanced
  <2>2. v \in {"user_ticks", "system_ticks", "ready_ticks"} /\ v # "ready_ticks"
    OBVIOUS
  <2>3. ExactOut(R[c], w)
    BY <2>1, <2>2, ChargeExact
  <2> QED
    BY <1>1, <2>3 DEF Balanced
<1>2. CASE u # c
  BY <1>2, ChargesUpdate DEF Balanced
<1> QED
  BY <1>1, <1>2

\* The counters P, L and R before, between and after the charges of a switch.
Switched(P, L, R, t, u, b, c) ==
  /\ Charges(P, R)
  /\ \A v \in Task \ {t, u} : R[v] = P[v]
  /\ t # u => R[t] = L[t] /\ L[u] = P[u]
  /\ L \in [Task -> stats]
  /\ \A w \in Int : ExactOut(P[t], w) => ExactIn(L[t], b, w) /\ ExactOut(L[t], w)
  /\ \A w \in Int : ExactIn(L[u], c, w) => ExactOut(R[u], w)

(* sched_next_rr charges the task that leaves at tick b, and the one that
   comes at tick c; clock_handler may charge that one again at tick z. *)
LEMMA SwitchCharges ==
  ASSUME NEW P \in [Task -> stats], NEW t \in Task, NEW u \in Task,
         NEW b \in Int, NEW c \in Int, NEW z \in Int,
         NEW L, L = update_stats(P, t, "system_ticks", b),
         NEW M, M = update_stats(L, u, "ready_ticks", c),
         NEW R, R = update_stats(M, u, "system_ticks", z) \/ R = M
  PROVE  Switched(P, L, R, t, u, b, c)
<1>1. /\ Charges(P, L) /\ \A v \in Task \ {t} : L[v] = P[v]
      /\ \A w \in Int : ExactOut(P[t], w) => ExactIn(L[t], b, w) /\ ExactOut(L[t], w)
  BY ChargesUpdate, ChargeExact
<1>2. L \in [Task -> stats]
  BY <1>1 DEF Charges
<1>3. /\ Charges(L, M) /\ \A v \in Task \ {u} : M[v] = L[v]
      /\ \A w \in Int : ExactIn(L[u], c, w) => ExactOut(M[u], w)
  BY <1>2, ChargesUpdate, ChargeExact
<1>4. M \in [Task -> stats]
  BY <1>3 DEF Charges
<1>5. /\ Charges(M, R) /\ \A v \in Task \ {u} : R[v] = M[v]
      /\ \A w \in Int : ExactOut(M[u], w) => ExactOut(R[u], w)
  <2>1. CASE R = update_stats(M, u, "system_ticks", z)
    <3>1. R = update_stats(M, u, "system_ticks", z)
      BY <2>1
    <3>2. Charges(M, R) /\ \A v \in Task \ {u} : R[v] = M[v]
      BY <1>4, <3>1, ChargesUpdate
    <3>3. \A w \in Int : ExactOut(M[u], w) => ExactOut(R[u], w)
      BY <1>4, <3>1, ChargeExact
    <3> QED
      BY <3>2, <3>3
  <2>2. CASE R = M
    BY <1>4, <2>2 DEF Charges
  <2> QED
    BY <2>1, <2>2
<1> QED
  BY <1>1, <1>2, <1>3, <1>5, ChargesCompose DEF Switched

\* update_process_state_rr to readyqueue charges the tasks it wakes.
LEMMA WakeCharges ==
  ASSUME NEW P \in [Task -> stats], NEW woken \in SUBSET Task, NEW at \in [woken -> Int],
         NEW R, R = ready_stats(P, at)
  PROVE  /\ Charges(P, R)
         /\ \A u \in Task \ woken : R[u] = P[u]
         /\ \A u \in woken, w \in Int : ExactOut(P[u], w) => ExactIn(R[u], at[u], w)
<1>1. /\ \A u \in woken : R[u] = update_stats(P, u, "system_ticks", at[u])[u]
      /\ \A u \in Task \ woken : R[u] = P[u]
  BY DEF ready_stats
<1>3. ASSUME NEW u \in woken
      PROVE  /\ R[u] \in stats
             /\ \A b \in Int : Conserved(P[u], b) => Conserved(R[u], b)
             /\ \A w \in Int : ExactOut(P[u], w) => ExactIn(R[u], at[u], w)
  <2>0. PICK n \in Int : n = at[u]
    OBVIOUS
  <2> DEFINE S == update_stats(P, u, "system_ticks", n)
  <2>1. Charges(P, S)
    BY ChargesUpdate
  <2>2. \A w \in Int : ExactOut(P[u], w) => ExactIn(S[u], n, w)
    BY ChargeExact
  <2>3. R[u] = S[u]
    BY <1>1, <2>0
  <2> HIDE DEF S
  <2> QED
    BY <2>0, <2>1, <2>2, <2>3 DEF Charges
<1>4. Charges(P, R)
  <2>1. R = [u \in Task |-> R[u]]
    BY DEF ready_stats
  <2>2. \A u \in Task : R[u] \in stats
    BY <1>1, <1>3
  <2> QED
    BY <1>1, <1>3, <2>1, <2>2 DEF Charges
<1> QED
  BY <1>1, <1>3, <1>4
-----------------------------------------------------------------------------
StatsType ==
  /\ p_stats \in [Task -> stats] /\ now \in Int
  /\ birth \in [Task -> Int] /\ waited \in [Task -> Int]

\* Both balances for the counters P of every task that lives with the queues Q.
Accounts(P, Q, c, n, B, V) ==
  \A t \in Task : ~ On(Q, t, freequeue) =>
    Conserved(P[t], B[t]) /\ Balanced(P[t], Q, c, t, n, V[t])

StatsInv == StatsType /\ Accounts(p_stats, queue, current, now, birth, waited)

LEMMA WaitingIs == \A t : Waiting(t) <=> WaitsIn(queue, current, t)
  BY DEF Waiting, WaitsIn, OnList, On

\* Ticks of reading for some of the tasks.
TicksOf(begin) == DOMAIN begin \subseteq Task /\ \A t \in DOMAIN begin : begin[t] \in Int

\* When a task began to wait in the step, or had done so before it.
Start(begin, t) == IF t \in DOMAIN begin THEN begin[t] ELSE now

\* What waits says of one task.
LEMMA WaitsValue ==
  ASSUME StatsType, NEW begin, TicksOf(begin), NEW n \in Int, NEW c \in Int,
         NEW W, W = waits(n, begin, c)
  PROVE  /\ W \in [Task -> Int]
         /\ \A t \in Task :
              W[t] = IF t \in DOMAIN begin \/ WaitsIn(queue, current, t)
                       THEN waited[t] + ((IF t = current' THEN c ELSE n) - Start(begin, t))
                       ELSE waited[t]
<1>1. /\ waited \in [Task -> Int] /\ now \in Int
      /\ \A t \in DOMAIN begin : begin[t] \in Int
      /\ \A t : Waiting(t) <=> WaitsIn(queue, current, t)
  BY WaitingIs DEF StatsType, TicksOf
<1>2. \A t \in Task :
        /\ W[t] = IF t \in DOMAIN begin \/ WaitsIn(queue, current, t)
                    THEN waited[t] + ((IF t = current' THEN c ELSE n) - Start(begin, t))
                    ELSE waited[t]
        /\ Start(begin, t) \in Int
  BY <1>1 DEF waits, Start
<1>3. \A t \in Task : W[t] \in Int
  <2>1. \A t \in Task : waited[t] \in Int /\ (IF t = current' THEN c ELSE n) \in Int
    BY <1>1
  <2> QED
    BY <1>2, <2>1
<1>4. W = [t \in Task |-> W[t]]
  BY DEF waits
<1> QED
  BY <1>2, <1>3, <1>4

\* A later reading.
LEMMA LaterInt == \A n \in Int : \A m \in Later(n) : m \in Int
  BY StatsAssumption DEF Later

\* What the lists say of the task that runs and of the one that comes.
LEMMA RunnerFacts ==
  ASSUME NEW Q, Once(Q), Unlinked(Q, current), IdleReady(Q), current \in Task, current' \in Task
  PROVE  /\ ~ WaitsIn(Q, current, current)
         /\ current' = idle_task \/ On(Q, current', readyqueue) \/ current' = current
              => ~ On(Q, current', freequeue)
<1>1. readyqueue \in Queue /\ freequeue \in Queue /\ Semafor \subseteq Queue /\ freequeue # readyqueue
  BY QueueNames, QueuesApart
<1>2. ~ WaitsIn(Q, current, current)
  BY <1>1 DEF WaitsIn, Unlinked
<1>3. ASSUME On(Q, current', readyqueue) PROVE ~ On(Q, current', freequeue)
  BY <1>1, <1>3 DEF On, Once
<1> QED
  BY <1>1, <1>2, <1>3 DEF Unlinked, IdleReady

(* The histories of a step that makes tasks ready before it switches or
   returns, as if they had waited up to now. *)
Fitting(V, begin) ==
  /\ V \in [Task -> Int]
  /\ \A t \in Task : V[t] = IF t \in DOMAIN begin \ {current}
                              THEN waited[t] + (now - begin[t]) ELSE waited[t]

\* The tasks that wait with the queues Q did so before, or began in the step.
Begun(Q, begin) ==
  \A t \in Task \ {current} :
    WaitsIn(Q, current, t) <=> t \in DOMAIN begin \/ WaitsIn(queue, current, t)

(* A switch: the task that leaves is linked to q, and is forgotten if that is
   freequeue. *)
LEMMA SwitchAccounts ==
  ASSUME StatsType, NEW P \in [Task -> stats], NEW Q, NEW q \in Queue,
         current \in Task, current' \in Task,
         Once(Q), Unlinked(Q, current), IdleReady(Q), Unlinked(queue, current),
         \A u \in Task, p \in Queue :
           On(queue', u, p) <=> u # current' /\ (On(Q, u, p) \/ (u = current /\ p = q)),
         current' = idle_task \/ On(Q, current', readyqueue) \/ current' = current,
         current' = current => q = readyqueue,
         current = idle_task => q = readyqueue,
         NEW begin, TicksOf(begin), Begun(Q, begin),
         current \in DOMAIN begin <=> q \in Semafor \cup {readyqueue},
         NEW V, Fitting(V, begin), Accounts(P, Q, current, now, birth, V),
         NEW n \in Int, sched_next_stats(P, n, begin)
  PROVE  StatsInv'
<1>1. PICK b \in Later(n) : \E c \in Later(b) :
        \E z \in IF task[current'].register_esp = "clock" THEN Later(c) ELSE {c} :
          LET left == update_stats(P, current, "system_ticks", b)
              come == update_stats(left, current', "ready_ticks", c)
          IN  /\ p_stats' = IF task[current'].register_esp = "clock"
                              THEN update_stats(come, current', "system_ticks", z) ELSE come
              /\ now' = z
              /\ waited' = waits(z, IF current \in DOMAIN begin THEN At(current, b, begin)
                                                                ELSE begin, c)
              /\ UNCHANGED birth
  BY DEF sched_next_stats
<1>2. PICK c \in Later(b) :
        \E z \in IF task[current'].register_esp = "clock" THEN Later(c) ELSE {c} :
          LET left == update_stats(P, current, "system_ticks", b)
              come == update_stats(left, current', "ready_ticks", c)
          IN  /\ p_stats' = IF task[current'].register_esp = "clock"
                              THEN update_stats(come, current', "system_ticks", z) ELSE come
              /\ now' = z
              /\ waited' = waits(z, IF current \in DOMAIN begin THEN At(current, b, begin)
                                                                ELSE begin, c)
              /\ UNCHANGED birth
  BY <1>1
<1>3. PICK z \in IF task[current'].register_esp = "clock" THEN Later(c) ELSE {c} :
          LET left == update_stats(P, current, "system_ticks", b)
              come == update_stats(left, current', "ready_ticks", c)
          IN  /\ p_stats' = IF task[current'].register_esp = "clock"
                              THEN update_stats(come, current', "system_ticks", z) ELSE come
              /\ now' = z
              /\ waited' = waits(z, IF current \in DOMAIN begin THEN At(current, b, begin)
                                                                ELSE begin, c)
              /\ UNCHANGED birth
  BY <1>2
<1>4. b \in Int /\ c \in Int /\ z \in Int
  BY LaterInt
<1>5. PICK clock \in BOOLEAN : clock <=> task[current'].register_esp = "clock"
  OBVIOUS
<1>L. PICK L : L = update_stats(P, current, "system_ticks", b)
  OBVIOUS
<1>M. PICK M : M = update_stats(L, current', "ready_ticks", c)
  OBVIOUS
<1>R. PICK R : R = IF clock THEN update_stats(M, current', "system_ticks", z) ELSE M
  OBVIOUS
<1>f. PICK full : full = IF current \in DOMAIN begin THEN At(current, b, begin) ELSE begin
  OBVIOUS
<1>a. p_stats' = R /\ now' = z /\ waited' = waits(z, full, c) /\ birth' = birth
  BY <1>3, <1>5, <1>L, <1>M, <1>R, <1>f
<1>6. PICK t \in Task, u \in Task : t = current /\ u = current'
  OBVIOUS
<1>7. /\ Charges(P, R)
      /\ \A v \in Task \ {t, u} : R[v] = P[v]
      /\ t # u => R[t] = L[t] /\ L[u] = P[u]
      /\ L \in [Task -> stats]
      /\ \A w \in Int : ExactOut(P[t], w) => ExactIn(L[t], b, w) /\ ExactOut(L[t], w)
      /\ \A w \in Int : ExactIn(L[u], c, w) => ExactOut(R[u], w)
  <2>1. L = update_stats(P, t, "system_ticks", b)
    BY <1>6, <1>L
  <2>2. M = update_stats(L, u, "ready_ticks", c)
    BY <1>6, <1>M
  <2>3. R = update_stats(M, u, "system_ticks", z) \/ R = M
    BY <1>6, <1>R
  <2>4. Switched(P, L, R, t, u, b, c)
    BY <1>4, <2>1, <2>2, <2>3, SwitchCharges
  <2> QED
    BY <2>4 DEF Switched
<1>8. /\ DOMAIN full = DOMAIN begin
      /\ t \in DOMAIN begin => full[t] = b
      /\ \A v \in DOMAIN begin \ {t} : full[v] = begin[v]
  BY <1>f, <1>6 DEF At
<1>9. TicksOf(full)
  BY <1>4, <1>8 DEF TicksOf
<1>10. PICK W \in [Task -> Int] :
         /\ W = waited'
         /\ \A v \in Task :
              W[v] = IF v \in DOMAIN begin \/ WaitsIn(queue, t, v)
                       THEN waited[v] + ((IF v = u THEN c ELSE z) - Start(full, v))
                       ELSE waited[v]
  BY <1>4, <1>a, <1>6, <1>8, <1>9, WaitsValue
<1>11. /\ readyqueue \in Queue /\ freequeue \in Queue /\ Semafor \subseteq Queue
       /\ freequeue # readyqueue /\ freequeue \notin Semafor
       /\ now \in Int /\ waited \in [Task -> Int] /\ birth \in [Task -> Int]
  BY QueueNames, QueuesApart DEF StatsType
<1>12. /\ ~ WaitsIn(Q, t, t) /\ ~ WaitsIn(queue, t, t)
       /\ ~ WaitsIn(queue', u, u)
       /\ ~ On(Q, u, freequeue)
  BY <1>6, <1>11, RunnerFacts DEF WaitsIn, Unlinked
<1>13. u # t => WaitsIn(Q, t, u)
  BY <1>6, <1>11 DEF WaitsIn
<1>14. \A v \in Task \ {t, u} : WaitsIn(queue', u, v) <=> WaitsIn(Q, t, v)
  BY <1>6, <1>11 DEF WaitsIn
<1>15. u # t => (WaitsIn(queue', u, t) <=> t \in DOMAIN begin)
  <2>1. ASSUME u # t PROVE \A p \in Queue : On(queue', t, p) <=> p = q
    BY <1>6, <2>1 DEF Unlinked
  <2> QED
    BY <1>6, <1>11, <2>1 DEF WaitsIn
<1>16. ASSUME NEW v \in Task, ~ On(queue', v, freequeue)
       PROVE  Conserved(R[v], birth[v]) /\ Balanced(R[v], queue', u, v, z, W[v])
  <2>1. ~ On(Q, v, freequeue)
    BY <1>6, <1>11, <1>12, <1>16
  <2>2. /\ Conserved(P[v], birth[v]) /\ Balanced(P[v], Q, t, v, now, V[v])
        /\ birth[v] \in Int /\ V[v] \in Int /\ waited[v] \in Int
        /\ P[v] \in stats
    BY <1>6, <1>11, <2>1 DEF Accounts, Fitting
  <2>3. Conserved(R[v], birth[v])
    BY <1>7, <2>2 DEF Charges
  <2>4. CASE v # t /\ v # u
    <3>1. R[v] = P[v] /\ (WaitsIn(queue', u, v) <=> WaitsIn(Q, t, v))
      BY <1>7, <1>14, <2>4
    <3>2. WaitsIn(Q, t, v) <=> v \in DOMAIN begin \/ WaitsIn(queue, t, v)
      BY <1>6, <2>4 DEF Begun
    <3>3. CASE WaitsIn(Q, t, v)
      <4>1. W[v] = waited[v] + (z - Start(full, v)) /\ Start(full, v) = Start(begin, v)
        BY <1>8, <1>10, <2>4, <3>2, <3>3 DEF Start
      <4>2. V[v] = waited[v] + (now - Start(begin, v)) /\ Start(begin, v) \in Int
        BY <1>6, <1>11, <2>2, <2>4 DEF Fitting, Start, TicksOf
      <4>3. W[v] = V[v] + (z - now)
        BY <1>4, <1>11, <2>2, <4>1, <4>2
      <4>4. ExactIn(P[v], z, V[v] + (z - now))
        BY <1>4, <1>11, <2>2, <3>3, TimeExact DEF Balanced
      <4> QED
        BY <2>3, <3>1, <3>3, <4>3, <4>4 DEF Balanced
    <3>4. CASE ~ WaitsIn(Q, t, v)
      <4>1. W[v] = waited[v] /\ V[v] = waited[v]
        BY <1>6, <1>10, <2>4, <3>2, <3>4 DEF Fitting
      <4> QED
        BY <2>2, <2>3, <3>1, <3>4, <4>1 DEF Balanced
    <3> QED
      BY <3>3, <3>4
  <2>5. CASE v = t
    <3>1. V[v] = waited[v]
      BY <1>6, <2>5 DEF Fitting
    <3>2. ExactIn(L[t], b, waited[v]) /\ ExactOut(L[t], waited[v])
      BY <1>7, <1>12, <2>2, <2>5, <3>1 DEF Balanced
    <3>3. L[t] \in stats
      BY <1>7
    <3>4. CASE u # t /\ t \in DOMAIN begin
      <4>1. W[v] = waited[v] + (z - b)
        BY <1>8, <1>10, <2>5, <3>4 DEF Start
      <4>2. ExactIn(L[t], z, waited[v] + (z - b))
        BY <1>4, <2>2, <3>2, <3>3, TimeExact
      <4> QED
        BY <1>7, <1>15, <2>3, <2>5, <3>4, <4>1, <4>2 DEF Balanced
    <3>5. CASE u # t /\ t \notin DOMAIN begin
      <4>1. W[v] = waited[v]
        BY <1>10, <1>12, <2>5, <3>5
      <4> QED
        BY <1>7, <1>15, <2>3, <2>5, <3>2, <3>5, <4>1 DEF Balanced
    <3>6. CASE u = t
      <4>1. t \in DOMAIN begin
        BY <1>6, <3>6
      <4>2. W[v] = waited[v] + (c - b)
        BY <1>8, <1>10, <2>5, <3>6, <4>1 DEF Start
      <4>3. ExactIn(L[t], c, waited[v] + (c - b))
        BY <1>4, <2>2, <3>2, <3>3, TimeExact
      <4>4. waited[v] + (c - b) \in Int
        BY <1>4, <2>2
      <4>5. ExactOut(R[u], waited[v] + (c - b))
        BY <1>7, <3>6, <4>3, <4>4
      <4> QED
        BY <1>12, <2>3, <2>5, <3>6, <4>2, <4>5 DEF Balanced
    <3> QED
      BY <3>4, <3>5, <3>6
  <2>6. CASE v = u /\ v # t
    <3>1. WaitsIn(Q, t, v)
      BY <1>13, <2>6
    <3>2. v \in DOMAIN begin \/ WaitsIn(queue, t, v)
      BY <1>6, <2>6, <3>1 DEF Begun
    <3>3. W[v] = waited[v] + (c - Start(full, v)) /\ Start(full, v) = Start(begin, v)
      BY <1>8, <1>10, <2>6, <3>2 DEF Start
    <3>4. V[v] = waited[v] + (now - Start(begin, v)) /\ Start(begin, v) \in Int
      BY <1>6, <1>11, <2>2, <2>6 DEF Fitting, Start, TicksOf
    <3>5. W[v] = V[v] + (c - now) /\ W[v] \in Int
      BY <1>4, <1>11, <2>2, <3>3, <3>4
    <3>6. ExactIn(P[v], c, V[v] + (c - now))
      BY <1>4, <1>11, <2>2, <3>1, TimeExact DEF Balanced
    <3>7. ExactIn(L[u], c, W[v])
      BY <1>7, <2>6, <3>5, <3>6
    <3>8. ExactOut(R[u], W[v])
      BY <1>7, <3>5, <3>7
    <3> QED
      BY <1>12, <2>3, <2>6, <3>8 DEF Balanced
  <2> QED
    BY <2>4, <2>5, <2>6
<1>17. /\ p_stats' = R /\ now' = z /\ waited' = W /\ birth' = birth /\ current' = u
       /\ R \in [Task -> stats]
  BY <1>a, <1>6, <1>7, <1>10 DEF Charges
<1>18. StatsType'
  BY <1>4, <1>11, <1>17 DEF StatsType
<1>19. Accounts(p_stats, queue, current, now, birth, waited)'
  BY <1>16, <1>17 DEF Accounts
<1> QED
  BY <1>18, <1>19 DEF StatsInv

\* A step without a charge that leaves everybody waiting or not waiting.
LEMMA StillAccounts ==
  ASSUME StatsInv, UNCHANGED statsVars,
         \A t \in Task : /\ On(queue', t, freequeue) <=> On(queue, t, freequeue)
                         /\ WaitsIn(queue', current', t) <=> WaitsIn(queue, current, t)
  PROVE  StatsInv'
<1>1. StatsType'
  BY DEF StatsInv, StatsType, statsVars
<1>2. UNCHANGED <<p_stats, now, birth, waited>>
  BY DEF statsVars
<1>3. ASSUME NEW t \in Task, ~ On(queue', t, freequeue)
      PROVE  /\ Conserved(p_stats[t], birth[t])
             /\ Balanced(p_stats[t], queue', current', t, now, waited[t])
  BY <1>3 DEF StatsInv, Accounts, Balanced
<1> QED
  BY <1>1, <1>2, <1>3 DEF StatsInv, Accounts
-----------------------------------------------------------------------------
\* Nobody begins to wait but the task that leaves.
LEMMA OnlyLeaver ==
  ASSUME StatsType, NEW begin, DOMAIN begin \subseteq {current}
  PROVE  Fitting(waited, begin) /\ Begun(queue, begin)
  BY DEF Fitting, Begun, StatsType

LEMMA AtIs ==
  ASSUME NEW t, NEW n
  PROVE  /\ DOMAIN At(t, n, Nobody) = {t} /\ At(t, n, Nobody)[t] = n
         /\ DOMAIN Nobody = {}
  BY DEF At, Nobody

LEMMA AtTicks ==
  ASSUME NEW t \in Task, NEW n \in Int, NEW begin, begin = At(t, n, Nobody)
  PROVE  DOMAIN begin = {t} /\ TicksOf(begin)
<1>1. DOMAIN begin = {t} /\ begin[t] = n
  BY AtIs
<1>2. \A u \in DOMAIN begin : u = t /\ begin[u] \in Int
  BY <1>1
<1> QED
  BY <1>1, <1>2 DEF TicksOf

LEMMA NobodyTicks == ASSUME NEW begin, begin = Nobody PROVE DOMAIN begin = {} /\ TicksOf(begin)
<1>1. DOMAIN begin = {}
  BY AtIs
<1> QED
  BY <1>1 DEF TicksOf

\* One task alone is charged as system time.
LEMMA ReadyOne ==
  ASSUME NEW P \in [Task -> stats], NEW t \in Task, NEW n \in Int
  PROVE  ready_stats(P, At(t, n, Nobody)) = update_stats(P, t, "system_ticks", n)
<1>1. PICK S : S = update_stats(P, t, "system_ticks", n)
  OBVIOUS
<1>2. Charges(P, S) /\ \A u \in Task \ {t} : S[u] = P[u]
  BY <1>1, ChargesUpdate
<1>3. PICK at : at = At(t, n, Nobody)
  OBVIOUS
<1>4. DOMAIN at = {t} /\ at[t] = n
  BY <1>3, AtIs
<1>5. S \in [Task -> stats]
  BY <1>2 DEF Charges
<1>6. ready_stats(P, at) = [u \in Task |-> S[u]]
  BY <1>1, <1>2, <1>4 DEF ready_stats
<1> QED
  BY <1>1, <1>3, <1>5, <1>6

\* What the invariants say before a step.
Ground ==
  /\ task \in [Task -> task_struct] /\ queue \in [Queue -> Seq(Task)] /\ current \in Task
  /\ Once(queue) /\ Unlinked(queue, current) /\ IdleReady(queue) /\ Links(queue, current)
  /\ States(task, queue, current)
  /\ StatsType /\ p_stats \in [Task -> stats] /\ now \in Int
  /\ birth \in [Task -> Int] /\ waited \in [Task -> Int]
  /\ Accounts(p_stats, queue, current, now, birth, waited)
  /\ ~ WaitsIn(queue, current, current)

LEMMA GroundHolds ==
  ASSUME TypeOK, ListInv, StatsInv PROVE Ground
<1>1. ~ WaitsIn(queue, current, current)
  BY QueueNames DEF WaitsIn, ListInv, Links, Unlinked
<1> QED
  BY <1>1 DEF Ground, TypeOK, ListInv, Links, StatsInv, StatsType

\* A charge to the task that runs keeps the accounts.
LEMMA RunningAccounts ==
  ASSUME NEW P \in [Task -> stats], NEW Q, NEW c \in Task, NEW n \in Int, NEW m \in Int,
         NEW v \in {"user_ticks", "system_ticks"}, ~ WaitsIn(Q, c, c),
         NEW B \in [Task -> Int], NEW V \in [Task -> Int], Accounts(P, Q, c, n, B, V),
         NEW R, R = update_stats(P, c, v, m)
  PROVE  R \in [Task -> stats] /\ Accounts(R, Q, c, n, B, V)
<1>1. /\ Charges(P, R)
      /\ \A u \in Task, k, w \in Int : Balanced(P[u], Q, c, u, k, w) => Balanced(R[u], Q, c, u, k, w)
  BY ChargesUpdate, RunningBalanced
<1> QED
  BY <1>1 DEF Charges, Accounts

\* A charge to the task that runs, as the step begins.
LEMMA GroundCharged ==
  ASSUME Ground, NEW m \in Int, NEW v \in {"user_ticks", "system_ticks"},
         NEW R, R = update_stats(p_stats, current, v, m)
  PROVE  R \in [Task -> stats] /\ Accounts(R, queue, current, now, birth, waited)
<1>1. PICK P \in [Task -> stats], c \in Task, n \in Int, B \in [Task -> Int], V \in [Task -> Int] :
           P = p_stats /\ c = current /\ n = now /\ B = birth /\ V = waited
  BY DEF Ground
<1>2. Accounts(P, queue, c, n, B, V) /\ ~ WaitsIn(queue, c, c) /\ R = update_stats(P, c, v, m)
  BY <1>1 DEF Ground
<1>3. R \in [Task -> stats] /\ Accounts(R, queue, c, n, B, V)
  BY <1>2, RunningAccounts
<1> QED
  BY <1>1, <1>3

\* sys_yield.
LEMMA YieldChargedKeeps ==
  ASSUME TypeOK, ListInv, StatsInv, YieldCharged
  PROVE  StatsInv'
<1>1. Ground /\ readyqueue \in Queue
  BY GroundHolds, QueueNames
<1>2. leave_cpu(task, queue, readyqueue, "yield") /\ current # idle_task
  BY DEF YieldCharged, Yield, Syscall
<1>3. PICK a \in Later(now) :
           sched_next_stats(ready_stats(p_stats, At(current, a, Nobody)), a, At(current, a, Nobody))
  BY DEF YieldCharged
<1>4. a \in Int
  BY <1>1, LaterInt DEF Ground
<1>5. PICK begin, P : /\ begin = At(current, a, Nobody)
                      /\ P = update_stats(p_stats, current, "system_ticks", a)
  OBVIOUS
<1>6. sched_next_stats(P, a, begin)
  <2>1. p_stats \in [Task -> stats] /\ current \in Task
    BY <1>1 DEF Ground
  <2>2. P = ready_stats(p_stats, At(current, a, Nobody))
    BY <1>4, <1>5, <2>1, ReadyOne
  <2> QED
    BY <1>3, <1>5, <2>2
<1>7. DOMAIN begin = {current} /\ TicksOf(begin)
  <2>1. current \in Task
    BY <1>1 DEF Ground
  <2> QED
    BY <1>4, <1>5, <2>1, AtTicks
<1>8. P \in [Task -> stats] /\ Accounts(P, queue, current, now, birth, waited)
  BY <1>1, <1>4, <1>5, GroundCharged
<1>9. Fitting(waited, begin) /\ Begun(queue, begin)
  BY <1>1, <1>7, OnlyLeaver DEF Ground
<1>10. /\ current' \in Task
       /\ current' = idle_task \/ On(queue, current', readyqueue) \/ current' = current
       /\ \A u \in Task, p \in Queue :
            On(queue', u, p) <=> u # current' /\ (On(queue, u, p) \/ (u = current /\ p = readyqueue))
  BY <1>1, <1>2, LeaveLinks DEF Ground
<1>11. current \in DOMAIN begin <=> readyqueue \in Semafor \cup {readyqueue}
  BY <1>7
<1> QED
  BY <1>1, <1>4, <1>6, <1>7, <1>8, <1>9, <1>10, <1>11, SwitchAccounts DEF Ground

\* What a task that leaves the CPU finds: itself only if it is still ready.
LEMMA OthersCome ==
  ASSUME Ground, NEW q \in Queue, q # readyqueue, NEW T,
         NEW path, leave_cpu(T, queue, q, path), current # idle_task
  PROVE  current' # current
<1>1. list_add_tail(queue, current, q)[readyqueue] = queue[readyqueue]
  BY QueueNames DEF list_add_tail, Ground
<1>2. current' = IF queue[readyqueue] = <<>> THEN idle_task ELSE Head(queue[readyqueue])
  BY <1>1 DEF leave_cpu, sched_next_rr, task_switch, switch_stack
<1>3. queue[readyqueue] # <<>> => On(queue, Head(queue[readyqueue]), readyqueue)
  BY DelFirstLinks, QueueNames DEF Ground
<1> QED
  BY <1>2, <1>3, QueueNames DEF Ground, Unlinked

\* The system calls that leave the CPU and not to wait for it, sys_exit too.
LEMMA SwitchChargedKeeps ==
  ASSUME TypeOK, ListInv, StatsInv, SwitchCharged
  PROVE  StatsInv'
<1>1. Ground
  BY GroundHolds
<1>2. current # idle_task /\ halted = "no"
  BY DEF SwitchCharged, Block, Exit, GetKeyWaits, Syscall, UserMode
<1>3. CASE halted' = "hung" /\ UNCHANGED <<task, queue, current>>
  <2>1. UNCHANGED statsVars
    BY <1>3 DEF SwitchCharged
  <2> QED
    BY <1>3, <2>1, StillAccounts
<1>4. ASSUME NEW q \in {blocked, getKey_blocked, freequeue}, halted' # "hung",
             current' \in Task, current' # current,
             current' = idle_task \/ On(queue, current', readyqueue),
             \A u \in Task, p \in Queue :
               On(queue', u, p) <=> u # current' /\ (On(queue, u, p) \/ (u = current /\ p = q))
      PROVE  StatsInv'
  <2>1. PICK begin : begin = Nobody
    OBVIOUS
  <2>2. DOMAIN begin = {} /\ TicksOf(begin)
    BY <2>1, AtIs DEF TicksOf
  <2>3. sched_next_stats(p_stats, now, begin)
    BY <1>4, <2>1 DEF SwitchCharged
  <2>4. Fitting(waited, begin) /\ Begun(queue, begin)
    BY <1>1, <2>2, OnlyLeaver DEF Ground
  <2>5. q \in Queue /\ (current \in DOMAIN begin <=> q \in Semafor \cup {readyqueue})
    BY <2>2, QueueNames, QueuesApart
  <2> QED
    BY <1>1, <1>2, <1>4, <2>2, <2>3, <2>4, <2>5, SwitchAccounts DEF Ground
<1>5. ASSUME NEW q \in {blocked, getKey_blocked}, NEW T, NEW path, leave_cpu(T, queue, q, path)
      PROVE  StatsInv'
  <2>1. q \in Queue /\ q # readyqueue
    BY QueueNames, QueuesApart
  <2>2. /\ current' \in Task
        /\ current' = idle_task \/ On(queue, current', readyqueue) \/ current' = current
        /\ \A u \in Task, p \in Queue :
             On(queue', u, p) <=> u # current' /\ (On(queue, u, p) \/ (u = current /\ p = q))
    BY <1>1, <1>2, <1>5, <2>1, LeaveLinks DEF Ground
  <2>3. current' # current
    BY <1>1, <1>2, <1>5, <2>1, OthersCome
  <2>4. halted' # "hung"
    BY <1>2, <1>5 DEF leave_cpu, sched_next_rr, task_switch, switch_stack
  <2> QED
    BY <1>4, <2>2, <2>3, <2>4
<1>6. CASE release_and_switch
  <2> DEFINE T == [task EXCEPT ![current].PID = -1]
  <2>1. /\ T \in [Task -> task_struct]
        /\ \A t \in Task : /\ T[t].state = task[t].state
                           /\ T[t].register_esp = task[t].register_esp
    BY <1>1, ReleasedFields DEF Ground
  <2>2. sched_next_rr(T, list_add_tail(queue, current, freequeue), "exit")
    BY <1>6 DEF release_and_switch
  <2>3. halted' # "hung"
    BY <1>2, <2>2 DEF sched_next_rr, task_switch, switch_stack
  <2> HIDE DEF T
  <2>4. States(T, queue, current)
    BY <1>1, <2>1 DEF States, Ground
  <2>5. freequeue \in Semafor \cup {freequeue} /\ freequeue \notin Semafor /\ freequeue \in Queue
    BY QueueNames, QueuesApart
  <2>6. /\ current' \in Task /\ current' # current
        /\ \A u \in Task, p \in Queue :
             On(queue', u, p) <=>
               u # current' /\ (On(queue, u, p) \/ (u = current /\ p = freequeue))
    BY <1>1, <1>2, <2>1, <2>2, <2>4, <2>5, JoinKeeps DEF Ground
  <2>7. current' = idle_task \/ On(queue, current', readyqueue)
    <3>1. list_add_tail(queue, current, freequeue)[readyqueue] = queue[readyqueue]
      BY <1>1, QueueNames, QueuesApart DEF list_add_tail, Ground
    <3>2. current' = IF queue[readyqueue] = <<>> THEN idle_task ELSE Head(queue[readyqueue])
      BY <2>2, <3>1 DEF sched_next_rr, task_switch, switch_stack
    <3> QED
      BY <1>1, <3>2, DelFirstLinks, QueueNames DEF Ground
  <2> QED
    BY <1>4, <2>3, <2>6, <2>7
<1>7. CASE Block
  BY <1>5, <1>7 DEF Block
<1>8. ASSUME NEW timeout \in Timeouts, GetKeyWaits(timeout)
      PROVE  StatsInv'
  BY <1>5, <1>8 DEF GetKeyWaits
<1>9. CASE Exit
  BY <1>3, <1>6, <1>9 DEF Exit
<1> QED
  BY <1>7, <1>8, <1>9 DEF SwitchCharged

\* sys_semWait, with and without a switch.
LEMMA SemWaitChargedKeeps ==
  ASSUME TypeOK, ListInv, StatsInv, NEW s \in Created, semWaitCharged(s)
  PROVE  StatsInv'
<1>1. Ground /\ s \in Semafor /\ current # idle_task /\ halted = "no"
  BY GroundHolds DEF semWaitCharged, semWait, Syscall, UserMode, Created
<1>2. sem'[s].count = sem[s].count - 1
  <2>1. sem \in [Semafor -> [count : Int, TID : Int, value : Int]]
    BY DEF TypeOK
  <2> QED
    BY <1>1, <2>1 DEF semWaitCharged, semWait
<1>3. CASE sem[s].count - 1 < 0
  <2>1. sched_next_rr(task, list_add_tail(queue, current, s), "semWait")
    BY <1>3 DEF semWaitCharged, semWait
  <2>2. s \in Semafor \cup {freequeue} /\ s \in Queue /\ s # freequeue /\ s # readyqueue
    BY <1>1, QueueNames, QueuesApart
  <2>3. /\ current' \in Task /\ current' # current
        /\ \A u \in Task, p \in Queue :
             On(queue', u, p) <=> u # current' /\ (On(queue, u, p) \/ (u = current /\ p = s))
    BY <1>1, <2>1, <2>2, JoinKeeps DEF Ground
  <2>4. current' = idle_task \/ On(queue, current', readyqueue) \/ current' = current
    <3>1. list_add_tail(queue, current, s)[readyqueue] = queue[readyqueue]
      BY <1>1, <2>2, QueueNames DEF list_add_tail, Ground
    <3>2. current' = IF queue[readyqueue] = <<>> THEN idle_task ELSE Head(queue[readyqueue])
      BY <2>1, <3>1 DEF sched_next_rr, task_switch, switch_stack
    <3> QED
      BY <1>1, <3>2, DelFirstLinks, QueueNames DEF Ground
  <2>n. PICK n \in Int : n = now
    BY <1>1 DEF Ground
  <2>5. PICK begin : begin = At(current, n, Nobody)
    OBVIOUS
  <2>6. DOMAIN begin = {current} /\ TicksOf(begin)
    <3>1. current \in Task
      BY <1>1 DEF Ground
    <3> QED
      BY <2>5, <3>1, AtTicks
  <2>7. sched_next_stats(p_stats, now, begin)
    BY <1>2, <1>3, <2>5, <2>n DEF semWaitCharged
  <2>8. Fitting(waited, begin) /\ Begun(queue, begin)
    BY <1>1, <2>6, OnlyLeaver DEF Ground
  <2>9. current \in DOMAIN begin <=> s \in Semafor \cup {readyqueue}
    BY <1>1, <2>6
  <2> QED
    BY <1>1, <2>2, <2>3, <2>4, <2>6, <2>7, <2>8, <2>9, SwitchAccounts DEF Ground
<1>4. CASE ~ (sem[s].count - 1 < 0)
  <2>1. UNCHANGED schedVars /\ UNCHANGED statsVars
    BY <1>2, <1>4 DEF semWaitCharged, semWait
  <2>2. queue' = queue /\ current' = current
    BY <2>1 DEF schedVars
  <2> QED
    BY <2>1, <2>2, StillAccounts
<1> QED
  BY <1>3, <1>4

\* A task woken by semSignal goes on waiting, now for the CPU.
LEMMA QuietCallKeeps ==
  ASSUME TypeOK, ListInv, StatsInv, QuietCall
  PROVE  StatsInv'
<1>1. UNCHANGED statsVars
  BY DEF QuietCall, AtOnce, statsVars
<1>2. CASE queue' = queue /\ current' = current
  BY <1>1, <1>2, StillAccounts
<1>3. ASSUME NEW v \in SemValues, sem_create(v) PROVE StatsInv'
  <2>1. queue' = queue /\ current' = current
    BY <1>3, SemCreateLists DEF sem_create
  <2> QED
    BY <1>2, <2>1
<1>4. ASSUME NEW s \in Created, semSignal(s) PROVE StatsInv'
  <2>1. CASE queue' = list_add_tail(list_del_first(queue, s), Head(queue[s]), readyqueue)
             /\ queue[s] # <<>> /\ current' = current
    <3>1. /\ queue \in [Queue -> Seq(Task)] /\ s \in Semafor /\ s \in Queue
          /\ readyqueue \in Queue /\ freequeue \in Queue /\ Semafor \subseteq Queue
          /\ Once(queue) /\ s # freequeue /\ readyqueue # freequeue
      BY QueueNames, QueuesApart DEF TypeOK, Created, ListInv, Links
    <3>2. PICK Z, h : /\ Z = queue' /\ h = Head(queue[s])
                      /\ Z = list_add_tail(list_del_first(queue, s), Head(queue[s]), readyqueue)
      BY <2>1
    <3>3. /\ h \in Task /\ On(queue, h, s)
          /\ \A u \in Task, p \in Queue :
               On(Z, u, p) <=> IF u = h THEN p = readyqueue ELSE On(queue, u, p)
      BY <2>1, <3>1, <3>2, MoveLinks
    <3>4. ~ On(queue, h, freequeue)
      BY <3>1, <3>3 DEF Once, On
    <3>5. ASSUME NEW t \in Task
          PROVE  /\ On(Z, t, freequeue) <=> On(queue, t, freequeue)
                 /\ WaitsIn(Z, current, t) <=> WaitsIn(queue, current, t)
      BY <3>1, <3>3, <3>4 DEF WaitsIn
    <3> QED
      BY <1>1, <2>1, <3>2, <3>5, StillAccounts
  <2>2. CASE queue' = queue /\ current' = current
    BY <1>2, <2>2
  <2> QED
    BY <1>4, <2>1, <2>2 DEF semSignal, schedVars
<1> QED
  BY <1>2, <1>3, <1>4 DEF QuietCall, GetKeyResumes, GetKeyAtOnce

\* The counters of init_stats are balanced.
LEMMA FreshExact ==
  ASSUME NEW n \in Int
  PROVE  /\ init_stats(n) \in stats
         /\ Conserved(init_stats(n), n)
         /\ ExactIn(init_stats(n), n, 0) /\ ExactOut(init_stats(n), 0)
<1>1. get_ticks(n) \in Int
  BY RemainderType DEF get_ticks
<1>2. init_stats(n) \in stats
  BY <1>1 DEF init_stats, stats
<1>3. 0 % TickWord = (get_ticks(n) - n) % TickWord
  <2>1. PICK g \in Int : g = get_ticks(n) /\ g % TickWord = n % TickWord
    BY <1>1, RemainderTwice DEF get_ticks
  <2>2. PICK m \in Int : m = -n
    OBVIOUS
  <2>3. (g + m) % TickWord = (n + m) % TickWord
    BY <2>1, SameRemainderPlus
  <2>4. g + m = g - n /\ n + m = 0
    BY <2>2
  <2> QED
    BY <2>1, <2>3, <2>4
<1>4. Conserved(init_stats(n), n)
  BY <1>3 DEF Conserved, init_stats
<1>5. 0 + (get_ticks(n) - get_ticks(n)) = 0
  BY <1>1
<1>6. ExactIn(init_stats(n), n, 0) /\ ExactOut(init_stats(n), 0)
  BY <1>5 DEF ExactIn, ExactOut, init_stats, get_ticks
<1> QED
  BY <1>2, <1>4, <1>6

\* The counters of a new task begin with its life.
LEMMA CreateChargedKeeps ==
  ASSUME TypeOK, ListInv, StatsInv, CreateCharged
  PROVE  StatsInv'
<1> DEFINE c == Head(queue[freequeue])
<1>1. /\ p_stats \in [Task -> stats] /\ now \in Int /\ now' = now /\ current' = current
      /\ birth \in [Task -> Int] /\ waited \in [Task -> Int] /\ current \in Task
      /\ Accounts(p_stats, queue, current, now, birth, waited)
      /\ queue[freequeue] # <<>> /\ queue' = MoveFreeSlot(readyqueue)
      /\ p_stats' = [p_stats EXCEPT ![c] = init_stats(now)]
      /\ birth' = [birth EXCEPT ![c] = now]
      /\ waited' = [waited EXCEPT ![c] = 0]
      /\ readyqueue \in Queue /\ freequeue \in Queue /\ Semafor \subseteq Queue
      /\ readyqueue # freequeue
  BY QueueNames, QueuesApart
  DEF StatsInv, StatsType, TypeOK, CreateCharged, Fork, ThreadCreate, FreeSlot
<1>2. /\ c \in Task \ {current, idle_task} /\ On(queue, c, freequeue)
      /\ \A u \in Task, p \in Queue :
           On(queue', u, p) <=> IF u = c THEN p = readyqueue ELSE On(queue, u, p)
  BY <1>1, MoveFreeSlotLists
<1> HIDE DEF c
<1>4. /\ init_stats(now) \in stats
      /\ Conserved(init_stats(now), now)
      /\ ExactIn(init_stats(now), now, 0)
  BY <1>1, FreshExact
<1>5. StatsType'
  BY <1>1, <1>2, <1>4 DEF StatsType
<1>6. ASSUME NEW t \in Task, ~ On(queue', t, freequeue)
      PROVE  /\ Conserved(p_stats'[t], birth'[t])
             /\ Balanced(p_stats'[t], queue', current', t, now', waited'[t])
  <2>1. CASE t = c
    <3>1. p_stats'[t] = init_stats(now) /\ birth'[t] = now /\ waited'[t] = 0
      BY <1>1, <1>2, <2>1
    <3>2. WaitsIn(queue', current', t)
      BY <1>1, <1>2, <2>1 DEF WaitsIn
    <3> QED
      BY <1>1, <1>4, <3>1, <3>2 DEF Balanced
  <2>2. CASE t # c
    <3>1. p_stats'[t] = p_stats[t] /\ birth'[t] = birth[t] /\ waited'[t] = waited[t]
      BY <1>1, <2>2
    <3>2. ~ On(queue, t, freequeue) /\ (WaitsIn(queue', current', t) <=> WaitsIn(queue, current, t))
      BY <1>1, <1>2, <1>6, <2>2 DEF WaitsIn
    <3> QED
      BY <1>1, <3>1, <3>2 DEF Accounts, Balanced
  <2> QED
    BY <2>1, <2>2
<1> QED
  BY <1>5, <1>6 DEF StatsInv, Accounts

\* A creation that fails writes to counters that are nobody's.
LEMMA CreateFailsChargedKeeps ==
  ASSUME TypeOK, ListInv, StatsInv, CreateFailsCharged
  PROVE  StatsInv'
<1> DEFINE c == Head(queue[freequeue])
<1>1. /\ p_stats \in [Task -> stats] /\ current' = current /\ current \in Task
      /\ UNCHANGED <<now, birth, waited>>
      /\ Accounts(p_stats, queue, current, now, birth, waited)
      /\ queue[freequeue] # <<>> /\ queue' = MoveFreeSlot(freequeue)
      /\ p_stats' = [p_stats EXCEPT ![c] = p_stats[current]]
      /\ readyqueue \in Queue /\ freequeue \in Queue /\ Semafor \subseteq Queue
      /\ readyqueue # freequeue
  BY QueueNames, QueuesApart
  DEF StatsInv, StatsType, TypeOK, CreateFailsCharged, ForkFails, ThreadCreateFails, AtOnce
<1>2. /\ c \in Task \ {current, idle_task}
      /\ \A u \in Task, p \in Queue :
           On(queue', u, p) <=> IF u = c THEN p = freequeue ELSE On(queue, u, p)
  BY <1>1, MoveFreeSlotLists
<1> HIDE DEF c
<1>3. StatsType'
  BY <1>1, <1>2 DEF StatsInv, StatsType
<1>4. ASSUME NEW t \in Task, ~ On(queue', t, freequeue)
      PROVE  /\ Conserved(p_stats'[t], birth'[t])
             /\ Balanced(p_stats'[t], queue', current', t, now', waited'[t])
  <2>1. t # c /\ p_stats'[t] = p_stats[t]
    BY <1>1, <1>2, <1>4
  <2>2. ~ On(queue, t, freequeue) /\ (WaitsIn(queue', current', t) <=> WaitsIn(queue, current, t))
    BY <1>1, <1>2, <1>4, <2>1 DEF WaitsIn
  <2> QED
    BY <1>1, <2>1, <2>2 DEF Accounts, Balanced
<1> QED
  BY <1>3, <1>4 DEF StatsInv, Accounts
-----------------------------------------------------------------------------
(* The two interrupt handlers up to the wake-ups: the time in user mode is
   charged, more time may pass, and the tasks that wake are charged. *)
LEMMA WakeAccounts ==
  ASSUME Ground,
         NEW woken \in SUBSET Task, \A t \in woken : On(queue, t, getKey_blocked),
         NEW at \in [woken -> Int],
         NEW Z, \A u \in Task, p \in Queue :
                  On(Z, u, p) <=> IF u \in woken THEN p = readyqueue ELSE On(queue, u, p),
         NEW P, P = ready_stats(user_to_system(p_stats), at)
  PROVE  /\ P \in [Task -> stats] /\ TicksOf(at) /\ Begun(Z, at) /\ current \notin woken
         /\ \E V : Fitting(V, at) /\ Accounts(P, Z, current, now, birth, V)
<1>1. /\ readyqueue \in Queue /\ freequeue \in Queue /\ getKey_blocked \in Queue
      /\ Semafor \subseteq Queue /\ readyqueue # freequeue /\ readyqueue # getKey_blocked
      /\ freequeue # getKey_blocked /\ getKey_blocked \notin Semafor
  BY QueueNames, QueuesApart
<1>2. PICK S : S = update_stats(p_stats, current, "user_ticks", now)
  OBVIOUS
<1>3. S \in [Task -> stats] /\ Accounts(S, queue, current, now, birth, waited)
  <2>1. now \in Int /\ "user_ticks" \in {"user_ticks", "system_ticks"}
    BY DEF Ground
  <2> QED
    BY <1>2, <2>1, GroundCharged
<1>4. P = ready_stats(S, at)
  BY <1>2 DEF user_to_system
<1>5. /\ Charges(S, P)
      /\ \A u \in Task \ woken : P[u] = S[u]
      /\ \A u \in woken, w \in Int : ExactOut(S[u], w) => ExactIn(P[u], at[u], w)
  BY <1>3, <1>4, WakeCharges
<1>6. \A t \in woken : /\ ~ WaitsIn(queue, current, t) /\ ~ On(queue, t, freequeue)
                       /\ t # current
  <2> SUFFICES ASSUME NEW t \in woken
               PROVE  /\ ~ WaitsIn(queue, current, t) /\ ~ On(queue, t, freequeue)
                      /\ t # current
    OBVIOUS
  <2>1. \A p \in Queue : On(queue, t, p) => p = getKey_blocked
    BY <1>1 DEF Once, On, Ground
  <2>2. t # idle_task /\ t # current
    BY <1>1 DEF IdleReady, Unlinked, Ground
  <2> QED
    BY <1>1, <2>1, <2>2 DEF WaitsIn
<1>7. TicksOf(at) /\ current \notin woken
  BY <1>6 DEF TicksOf
<1>8. Begun(Z, at)
  BY <1>1 DEF Begun, WaitsIn
<1> DEFINE V == [t \in Task |-> IF t \in woken THEN waited[t] + (now - at[t]) ELSE waited[t]]
<1>9. Fitting(V, at)
  <2>1. /\ waited \in [Task -> Int] /\ now \in Int
        /\ \A t \in woken : waited[t] + (now - at[t]) \in Int
    BY DEF Ground
  <2>2. V \in [Task -> Int]
    BY <2>1
  <2> QED
    BY <1>7, <2>2 DEF Fitting
<1>10. \A t \in Task : V[t] = IF t \in woken THEN waited[t] + (now - at[t]) ELSE waited[t]
  OBVIOUS
<1> HIDE DEF V
<1>11. ASSUME NEW t \in Task, ~ On(Z, t, freequeue)
       PROVE  Conserved(P[t], birth[t]) /\ Balanced(P[t], Z, current, t, now, V[t])
  <2>1. ~ On(queue, t, freequeue)
    BY <1>1, <1>6, <1>11
  <2>2. /\ Conserved(S[t], birth[t]) /\ Balanced(S[t], queue, current, t, now, waited[t])
        /\ birth[t] \in Int /\ waited[t] \in Int /\ now \in Int
    BY <1>3, <2>1 DEF Accounts, Ground
  <2>3. Conserved(P[t], birth[t]) /\ P[t] \in stats
    BY <1>5, <2>2 DEF Charges
  <2>4. CASE t \in woken
    <3>1. ExactOut(S[t], waited[t])
      BY <1>6, <2>2, <2>4 DEF Balanced
    <3>2. ExactIn(P[t], at[t], waited[t]) /\ at[t] \in Int
      BY <1>5, <2>2, <2>4, <3>1
    <3>3. ExactIn(P[t], now, waited[t] + (now - at[t]))
      BY <2>2, <2>3, <3>2, TimeExact
    <3>4. WaitsIn(Z, current, t)
      BY <1>1, <2>4 DEF WaitsIn
    <3> QED
      BY <1>10, <2>3, <2>4, <3>3, <3>4 DEF Balanced
  <2>5. CASE t \notin woken
    <3>1. WaitsIn(Z, current, t) <=> WaitsIn(queue, current, t)
      BY <1>1, <2>5 DEF WaitsIn
    <3>2. P[t] = S[t] /\ V[t] = waited[t]
      BY <1>5, <1>10, <2>5
    <3> QED
      BY <2>2, <2>3, <3>1, <3>2 DEF Balanced
  <2> QED
    BY <2>4, <2>5
<1>12. Accounts(P, Z, current, now, birth, V)
  BY <1>11 DEF Accounts
<1> QED
  BY <1>5, <1>7, <1>8, <1>9, <1>12 DEF Charges

\* The end of a handler that does not switch.
LEMMA ReturnAccounts ==
  ASSUME Ground, NEW P \in [Task -> stats], NEW Z, Z = queue', current' = current,
         Unlinked(Z, current),
         NEW begin, TicksOf(begin), Begun(Z, begin), current \notin DOMAIN begin,
         NEW V, Fitting(V, begin), Accounts(P, Z, current, now, birth, V),
         NEW n \in Int, return_stats(P, n, begin)
  PROVE  StatsInv'
<1>1. PICK z \in Later(n) : /\ p_stats' = update_stats(P, current, "system_ticks", z)
                            /\ now' = z
                            /\ waited' = waits(z, begin, z)
                            /\ birth' = birth
  BY DEF return_stats
<1>2. z \in Int
  BY LaterInt
<1>3. PICK R, W : R = update_stats(P, current, "system_ticks", z) /\ W = waits(z, begin, z)
  OBVIOUS
<1>4. ~ WaitsIn(Z, current, current)
  BY QueueNames DEF WaitsIn, Unlinked
<1>5. V \in [Task -> Int]
  BY DEF Fitting
<1>6. R \in [Task -> stats] /\ Accounts(R, Z, current, now, birth, V)
  <2>1. PICK c \in Task, n0 \in Int, B \in [Task -> Int] : c = current /\ n0 = now /\ B = birth
    BY DEF Ground
  <2>2. /\ Accounts(P, Z, c, n0, B, V) /\ ~ WaitsIn(Z, c, c)
        /\ R = update_stats(P, c, "system_ticks", z)
    BY <1>3, <1>4, <2>1
  <2>3. R \in [Task -> stats] /\ Accounts(R, Z, c, n0, B, V)
    BY <1>2, <1>5, <2>2, RunningAccounts
  <2> QED
    BY <2>1, <2>3
<1>7. /\ W \in [Task -> Int]
      /\ \A t \in Task :
           W[t] = IF t \in DOMAIN begin \/ WaitsIn(queue, current, t)
                    THEN waited[t] + (z - Start(begin, t)) ELSE waited[t]
  <2>1. \A t : (IF t = current' THEN z ELSE z) = z
    OBVIOUS
  <2> QED
    BY <1>2, <1>3, <2>1, WaitsValue DEF Ground
<1>8. ASSUME NEW t \in Task, ~ On(Z, t, freequeue)
      PROVE  Conserved(R[t], birth[t]) /\ Balanced(R[t], Z, current, t, z, W[t])
  <2>1. /\ Conserved(R[t], birth[t]) /\ Balanced(R[t], Z, current, t, now, V[t])
        /\ R[t] \in stats /\ V[t] \in Int /\ waited[t] \in Int /\ now \in Int
    BY <1>5, <1>6, <1>8 DEF Accounts, Ground
  <2>2. CASE WaitsIn(Z, current, t)
    <3>1. t # current /\ (t \in DOMAIN begin \/ WaitsIn(queue, current, t))
      BY <1>4, <2>2 DEF Begun
    <3>2. /\ V[t] = waited[t] + (now - Start(begin, t)) /\ Start(begin, t) \in Int
          /\ W[t] = waited[t] + (z - Start(begin, t))
      BY <1>7, <2>1, <3>1 DEF Fitting, Start, TicksOf
    <3>3. W[t] = V[t] + (z - now)
      BY <1>2, <2>1, <3>2
    <3> QED
      BY <1>2, <2>1, <2>2, <3>3, TimeExact DEF Balanced
  <2>3. CASE ~ WaitsIn(Z, current, t)
    <3>1. t \notin DOMAIN begin /\ ~ WaitsIn(queue, current, t)
      BY <2>3 DEF Begun, Ground
    <3>2. V[t] = waited[t] /\ W[t] = waited[t]
      BY <1>7, <3>1 DEF Fitting
    <3> QED
      BY <2>1, <2>3, <3>2 DEF Balanced
  <2> QED
    BY <2>2, <2>3
<1>9. StatsType'
  BY <1>1, <1>2, <1>3, <1>6, <1>7 DEF StatsType, Ground
<1>10. Accounts(p_stats, queue, current, now, birth, waited)'
  BY <1>1, <1>3, <1>8 DEF Accounts
<1> QED
  BY <1>9, <1>10 DEF StatsInv

\* keyboard_handler.
LEMMA KeyboardChargedKeeps ==
  ASSUME TypeOK, ListInv, StatsInv, KeyboardCharged
  PROVE  StatsInv'
<1> DEFINE woken == {t \in Task : make_flag /\ Waiters # <<>> /\ t = Head(Waiters)}
<1>1. /\ queue \in [Queue -> Seq(Task)] /\ current \in Task /\ task \in [Task -> task_struct]
      /\ Once(queue) /\ Unlinked(queue, current) /\ States(task, queue, current)
      /\ readyqueue \in Queue /\ getKey_blocked \in Queue
      /\ current' = current
  BY QueueNames DEF TypeOK, ListInv, Links, KeyboardCharged, KeyPress, KeyRelease, schedVars
<1>2. PICK n \in Later(now) :
        LET at == [t \in woken |-> n]
        IN  return_stats(ready_stats(user_to_system(p_stats), at), n, at)
  BY DEF KeyboardCharged
<1>3. PICK Z : Z = queue'
  OBVIOUS
<1>4. /\ \A t \in woken : On(queue, t, getKey_blocked)
      /\ \A u \in Task, p \in Queue :
           On(Z, u, p) <=> IF u \in woken THEN p = readyqueue ELSE On(queue, u, p)
  <2>1. CASE KeyRelease
    <3>1. queue' = queue /\ ~ make_flag
      BY <2>1 DEF KeyRelease, schedVars
    <3> QED
      BY <1>3, <3>1
  <2>2. ASSUME NEW c \in Keys, KeyPress(c), Waiters = <<>>
        PROVE  queue' = queue /\ woken = {}
    BY <2>2 DEF KeyPress, Waiters
  <2>3. ASSUME NEW c \in Keys, KeyPress(c), Waiters # <<>>
        PROVE  /\ \A t \in woken : On(queue, t, getKey_blocked)
               /\ \A u \in Task, p \in Queue :
                    On(Z, u, p) <=> IF u \in woken THEN p = readyqueue ELSE On(queue, u, p)
    <3> DEFINE h == Head(queue[getKey_blocked])
    <3>1. queue[getKey_blocked] # <<>> /\ make_flag /\ h = Head(Waiters)
      BY <2>3 DEF KeyPress, Waiters
    <3>2. h \in Task /\ On(queue, h, getKey_blocked)
      BY <1>1, <3>1, DelFirstType, DelFirstLinks
    <3>3. task[h].state = "ST_BLOCKED"
      BY <1>1, <3>2 DEF States
    <3>4. Z = list_add_tail(list_del_first(queue, getKey_blocked), h, readyqueue)
      BY <1>3, <2>3, <3>1, <3>3 DEF KeyPress, wake_first
    <3>5. \A u \in Task, p \in Queue :
            On(Z, u, p) <=> IF u = h THEN p = readyqueue ELSE On(queue, u, p)
      BY <1>1, <3>1, <3>4, MoveLinks, SMTT(30)
    <3>6. woken = {h}
      BY <2>3, <3>1, <3>2
    <3> HIDE DEF h, woken
    <3> QED
      BY <3>2, <3>5, <3>6
  <2>4. CASE \E c \in Keys : KeyPress(c)
    BY <1>3, <2>2, <2>3, <2>4
  <2> QED
    BY <2>1, <2>4 DEF KeyboardCharged
<1>5. woken \in SUBSET Task
  OBVIOUS
<1> HIDE DEF woken
<1>6. Ground /\ n \in Int
  BY GroundHolds, LaterInt DEF Ground
<1>7. PICK at, P : /\ at = [t \in woken |-> n] /\ P = ready_stats(user_to_system(p_stats), at)
                   /\ return_stats(P, n, at)
  BY <1>2
<1>8. at \in [woken -> Int]
  BY <1>6, <1>7
<1>9. PICK V : /\ P \in [Task -> stats] /\ TicksOf(at) /\ Begun(Z, at) /\ current \notin woken
               /\ Fitting(V, at) /\ Accounts(P, Z, current, now, birth, V)
  BY <1>4, <1>5, <1>6, <1>7, <1>8, WakeAccounts
<1>10. Unlinked(Z, current) /\ current \notin DOMAIN at
  BY <1>1, <1>4, <1>8, <1>9 DEF Unlinked, Once, On
<1> QED
  BY <1>1, <1>3, <1>6, <1>7, <1>9, <1>10, ReturnAccounts

\* clock_handler.
LEMMA ClockChargedKeeps ==
  ASSUME TypeOK, ListInv, StatsInv, ClockCharged
  PROVE  StatsInv'
<1> DEFINE woken == {Waiters[i] : i \in Expired}
<1>1. /\ SchedTypeOK /\ queue \in [Queue -> Seq(Task)] /\ current \in Task
      /\ Links(queue, current) /\ States(task, queue, current)
      /\ Once(queue) /\ Unlinked(queue, current) /\ IdleReady(queue)
      /\ readyqueue \in Queue /\ getKey_blocked \in Queue /\ freequeue \in Queue
      /\ readyqueue # freequeue
      /\ remaining_quantum \in Int
  BY TypeParts, QueueNames, QueuesApart DEF ListInv, Links, ClockCharged, SchedTypeOK
<1>2. PICK f \in InOrder(Expired), g \in InOrder(Staying) :
           schedule(count_down, wake_expired(f, g))
  BY DEF ClockCharged, ClockTick
<1>3. PICK W : W = wake_expired(f, g)
  OBVIOUS
<1>4. \A i \in DOMAIN Waiters : /\ Waiters[i] \in Task
                                /\ On(queue, Waiters[i], getKey_blocked)
                                /\ task[Waiters[i]].state # "ST_RUN"
  <2>1. Waiters \in Seq(Task)
    BY <1>1 DEF Waiters
  <2> QED
    BY <1>1, <2>1 DEF On, Waiters, States
<1>5. /\ \A u \in Task, q \in Queue :
           On(W, u, q) <=> IF Due(u) THEN q = readyqueue ELSE On(queue, u, q)
      /\ Once(W)
  BY <1>1, <1>3, <1>4, ClockLinks
<1>6. /\ woken \in SUBSET Task /\ \A t \in woken : On(queue, t, getKey_blocked)
      /\ \A t \in Task : t \in woken <=> Due(t)
  BY <1>4 DEF Due, Expired, Counting
<1> HIDE DEF woken
<1>7. \A u \in Task, p \in Queue :
        On(W, u, p) <=> IF u \in woken THEN p = readyqueue ELSE On(queue, u, p)
  BY <1>5, <1>6
<1>8. Ground
  BY GroundHolds
<1>9. /\ Links(W, current) /\ Unlinked(W, current) /\ IdleReady(W)
  <2>1. Links(W, current)
    BY <1>1, <1>3, CountDownKeeps
  <2> QED
    BY <2>1 DEF Links
<1>10. W \in [Queue -> Seq(Task)]
  BY <1>1, <1>2, <1>3, CountDownType
<1>11. W[readyqueue] # <<>> <=> queue[readyqueue] # <<>> \/ woken # {}
  <2>1. \A Q \in [Queue -> Seq(Task)] :
          Q[readyqueue] # <<>> <=> \E u \in Task : On(Q, u, readyqueue)
    <3> SUFFICES ASSUME NEW Q \in [Queue -> Seq(Task)]
                 PROVE  Q[readyqueue] # <<>> <=> \E u \in Task : On(Q, u, readyqueue)
      OBVIOUS
    <3>1. Q[readyqueue] \in Seq(Task)
      BY <1>1
    <3>2. ASSUME Q[readyqueue] # <<>> PROVE \E u \in Task : On(Q, u, readyqueue)
      <4>1. /\ Head(Q[readyqueue]) \in Task /\ 1 \in DOMAIN Q[readyqueue]
            /\ Q[readyqueue][1] = Head(Q[readyqueue])
        BY <3>1, <3>2, HeadTailProperties, LenProperties, EmptySeq
      <4> QED
        BY <4>1 DEF On
    <3>3. ASSUME Q[readyqueue] = <<>> PROVE ~ \E u \in Task : On(Q, u, readyqueue)
      BY <3>3 DEF On
    <3> QED
      BY <3>2, <3>3
  <2>2. woken # {} => \E u \in Task : u \in woken
    BY <1>6
  <2> QED
    BY <1>1, <1>7, <1>10, <2>1, <2>2
<1>0. PICK n \in Later(now) : \E at \in [woken -> now .. n] :
         IF remaining_quantum = 1 /\ W[readyqueue] # <<>>
           THEN sched_next_stats(
                  ready_stats(ready_stats(user_to_system(p_stats), at), At(current, n, Nobody)),
                  n, At(current, n, at))
           ELSE return_stats(ready_stats(user_to_system(p_stats), at), n, at)
  BY <1>11 DEF ClockCharged, woken
<1>12. PICK at \in [woken -> now .. n] :
         IF remaining_quantum = 1 /\ W[readyqueue] # <<>>
           THEN sched_next_stats(
                  ready_stats(ready_stats(user_to_system(p_stats), at), At(current, n, Nobody)),
                  n, At(current, n, at))
           ELSE return_stats(ready_stats(user_to_system(p_stats), at), n, at)
  BY <1>0
<1>13. PICK P : P = ready_stats(user_to_system(p_stats), at)
  OBVIOUS
<1>14. n \in Int /\ at \in [woken -> Int]
  BY <1>8, LaterInt DEF Ground
<1>15. PICK V : /\ P \in [Task -> stats] /\ TicksOf(at) /\ Begun(W, at) /\ current \notin woken
                /\ Fitting(V, at) /\ Accounts(P, W, current, now, birth, V)
  BY <1>6, <1>7, <1>8, <1>13, <1>14, WakeAccounts
<1>16. CASE remaining_quantum = 1 /\ W[readyqueue] # <<>>
  <2>1. leave_cpu(count_down, W, readyqueue, "clock")
    BY <1>1, <1>2, <1>3, <1>16 DEF schedule
  <2>2. /\ current' \in Task
        /\ current' = idle_task \/ On(W, current', readyqueue) \/ current' = current
        /\ \A u \in Task, p \in Queue :
             On(queue', u, p) <=>
               u # current' /\ (On(W, u, p) \/ (u = current /\ p = readyqueue))
    BY <1>1, <1>5, <1>9, <1>10, <2>1, LeaveLinks
  <2>3. PICK begin, R : /\ begin = At(current, n, at)
                        /\ R = update_stats(P, current, "system_ticks", n)
    OBVIOUS
  <2>4. sched_next_stats(R, n, begin)
    BY <1>1, <1>12, <1>13, <1>14, <1>15, <1>16, <2>3, ReadyOne
  <2>5. /\ DOMAIN begin = woken \cup {current}
        /\ begin[current] = n /\ \A t \in woken : begin[t] = at[t]
    BY <1>14, <1>15, <2>3 DEF At
  <2>6. TicksOf(begin) /\ Begun(W, begin) /\ Fitting(V, begin)
    BY <1>1, <1>14, <1>15, <2>5 DEF TicksOf, Begun, Fitting
  <2>7. ~ WaitsIn(W, current, current) /\ Unlinked(queue, current)
    BY <1>1, <1>9, QueueNames DEF WaitsIn, Unlinked
  <2>8. V \in [Task -> Int]
    BY <1>15 DEF Fitting
  <2>9. R \in [Task -> stats] /\ Accounts(R, W, current, now, birth, V)
    <3>1. PICK c \in Task, n0 \in Int, B \in [Task -> Int] : c = current /\ n0 = now /\ B = birth
      BY <1>8 DEF Ground
    <3>2. /\ Accounts(P, W, c, n0, B, V) /\ ~ WaitsIn(W, c, c)
          /\ R = update_stats(P, c, "system_ticks", n) /\ P \in [Task -> stats]
      BY <1>15, <2>3, <2>7, <3>1
    <3>3. R \in [Task -> stats] /\ Accounts(R, W, c, n0, B, V)
      BY <1>14, <2>8, <3>2, RunningAccounts
    <3> QED
      BY <3>1, <3>3
  <2>10. current \in DOMAIN begin <=> readyqueue \in Semafor \cup {readyqueue}
    BY <2>5
  <2> QED
    BY <1>1, <1>5, <1>8, <1>9, <1>14, <2>2, <2>4, <2>6, <2>7, <2>9, <2>10, SwitchAccounts
    DEF Ground
<1>17. CASE ~ (remaining_quantum = 1 /\ W[readyqueue] # <<>>)
  <2>1. queue' = W /\ current' = current
    BY <1>1, <1>2, <1>3, <1>17 DEF schedule
  <2>2. return_stats(P, n, at) /\ current \notin DOMAIN at
    BY <1>12, <1>13, <1>14, <1>15, <1>17
  <2> QED
    BY <1>8, <1>9, <1>14, <1>15, <2>1, <2>2, ReturnAccounts
<1> QED
  BY <1>16, <1>17
-----------------------------------------------------------------------------
\* Time that passes outside a handler.
LEMMA ElapseKeeps ==
  ASSUME TypeOK, ListInv, StatsInv, Elapse
  PROVE  StatsInv'
<1>1. Ground
  BY GroundHolds
<1>n. PICK n, begin : n = now + 1 /\ begin = Nobody
  OBVIOUS
<1>W. PICK W : W = waits(n, begin, n)
  OBVIOUS
<1>2. /\ n = now + 1 /\ begin = Nobody /\ W = waits(n, begin, n)
      /\ waited' = W /\ now' = n /\ birth' = birth /\ p_stats' = p_stats
      /\ queue' = queue /\ current' = current
  BY <1>n, <1>W DEF Elapse, vars, schedVars
<1>3. n \in Int /\ TicksOf(begin) /\ DOMAIN begin = {}
  <2>1. n \in Int
    BY <1>1, <1>n DEF Ground
  <2> QED
    BY <1>n, <2>1, NobodyTicks
<1>4. /\ W \in [Task -> Int]
      /\ \A t \in Task : W[t] = IF WaitsIn(queue, current, t)
                                  THEN waited[t] + (n - now) ELSE waited[t]
  <2>1. \A t : (IF t = current' THEN n ELSE n) = n /\ Start(begin, t) = now
    BY <1>3 DEF Start
  <2> QED
    BY <1>1, <1>2, <1>3, <2>1, WaitsValue DEF Ground
<1>5. ASSUME NEW t \in Task, ~ On(queue, t, freequeue)
      PROVE  /\ Conserved(p_stats[t], birth[t])
             /\ Balanced(p_stats[t], queue, current, t, n, W[t])
  <2>1. /\ Conserved(p_stats[t], birth[t])
        /\ Balanced(p_stats[t], queue, current, t, now, waited[t])
        /\ p_stats[t] \in stats /\ waited[t] \in Int /\ now \in Int
    BY <1>1, <1>5 DEF Ground, Accounts
  <2> QED
    BY <1>3, <1>4, <2>1, TimeExact DEF Balanced
<1>6. StatsType' /\ Accounts(p_stats, queue, current, now, birth, waited)'
  BY <1>1, <1>2, <1>3, <1>4, <1>5 DEF StatsType, Accounts, Ground
<1> QED
  BY <1>6 DEF StatsInv

\* sys_get_stats writes a field that no account depends on.
LEMMA GetStatsKeeps ==
  ASSUME TypeOK, StatsInv, NEW pid \in Pids, get_stats(pid)
  PROVE  StatsInv'
<1>1. PICK t \in Task : p_stats' = [p_stats EXCEPT ![t].remaining_ticks = remaining_quantum]
  BY DEF get_stats, stats_slot
<1>2. /\ p_stats \in [Task -> stats] /\ remaining_quantum \in Int
      /\ queue' = queue /\ current' = current
      /\ UNCHANGED <<now, birth, waited>>
      /\ StatsType /\ Accounts(p_stats, queue, current, now, birth, waited)
  BY DEF StatsInv, StatsType, TypeOK, get_stats, AtOnce, vars, schedVars
<1>3. PICK r \in Int : r = remaining_quantum
  BY <1>2
<1>4. /\ p_stats' \in [Task -> stats]
      /\ \A u \in Task : /\ p_stats'[u].user_ticks = p_stats[u].user_ticks
                          /\ p_stats'[u].system_ticks = p_stats[u].system_ticks
                          /\ p_stats'[u].blocked_ticks = p_stats[u].blocked_ticks
                          /\ p_stats'[u].ready_ticks = p_stats[u].ready_ticks
                          /\ p_stats'[u].elapsed_total_ticks = p_stats[u].elapsed_total_ticks
  <2>1. ASSUME NEW s \in stats
        PROVE  /\ [s EXCEPT !.remaining_ticks = r] \in stats
               /\ [s EXCEPT !.remaining_ticks = r].user_ticks = s.user_ticks
               /\ [s EXCEPT !.remaining_ticks = r].system_ticks = s.system_ticks
               /\ [s EXCEPT !.remaining_ticks = r].blocked_ticks = s.blocked_ticks
               /\ [s EXCEPT !.remaining_ticks = r].ready_ticks = s.ready_ticks
               /\ [s EXCEPT !.remaining_ticks = r].elapsed_total_ticks = s.elapsed_total_ticks
    BY DEF stats
  <2>2. PICK s \in stats : s = p_stats[t]
    BY <1>2
  <2>3. p_stats' = [p_stats EXCEPT ![t] = [s EXCEPT !.remaining_ticks = r]]
    BY <1>1, <1>3, <2>2
  <2>4. PICK z \in stats : z = [s EXCEPT !.remaining_ticks = r]
    BY <2>1
  <2>5. p_stats' = [p_stats EXCEPT ![t] = z]
    BY <2>3, <2>4
  <2>6. p_stats' \in [Task -> stats] /\ p_stats'[t] = z /\ \A u \in Task \ {t} : p_stats'[u] = p_stats[u]
    BY <1>2, <2>5
  <2>7. ASSUME NEW u \in Task
        PROVE  /\ p_stats'[u].user_ticks = p_stats[u].user_ticks
               /\ p_stats'[u].system_ticks = p_stats[u].system_ticks
               /\ p_stats'[u].blocked_ticks = p_stats[u].blocked_ticks
               /\ p_stats'[u].ready_ticks = p_stats[u].ready_ticks
               /\ p_stats'[u].elapsed_total_ticks = p_stats[u].elapsed_total_ticks
    <3>1. CASE u = t
      <4>1. p_stats'[u] = [s EXCEPT !.remaining_ticks = r] /\ p_stats[u] = s
        BY <2>2, <2>4, <2>6, <3>1
      <4> QED
        BY <2>1, <4>1
    <3>2. CASE u # t
      <4>1. p_stats'[u] = p_stats[u]
        BY <2>6, <3>2
      <4> QED
        BY <4>1
    <3> QED
      BY <3>1, <3>2
  <2> QED
    BY <2>6, <2>7
<1>5. ASSUME NEW u \in Task, ~ On(queue, u, freequeue)
      PROVE  /\ Conserved(p_stats'[u], birth[u])
             /\ Balanced(p_stats'[u], queue, current, u, now, waited[u])
  <2>1. /\ Conserved(p_stats[u], birth[u])
        /\ Balanced(p_stats[u], queue, current, u, now, waited[u])
    BY <1>2, <1>5 DEF Accounts
  <2> QED
    BY <1>4, <2>1 DEF Conserved, Balanced, ExactIn, ExactOut
<1> QED
  BY <1>2, <1>4, <1>5 DEF StatsInv, StatsType, Accounts

\* The boot code: idle waits, task 1 runs, and every other slot is free.
LEMMA StatsInitInv == StatsInit => StatsInv
<1> SUFFICES ASSUME StatsInit PROVE StatsInv
  OBVIOUS
<1>1. /\ TypeOK /\ ListInv
      /\ p_stats = [t \in Task |-> init_stats(FirstTick)]
      /\ now = FirstTick /\ FirstTick \in Int
      /\ birth = [t \in Task |-> FirstTick]
      /\ waited = [t \in Task |-> 0]
  BY InitType, InitLists, StatsAssumption DEF StatsInit
<1>2. /\ init_stats(FirstTick) \in stats
      /\ Conserved(init_stats(FirstTick), FirstTick)
      /\ ExactIn(init_stats(FirstTick), FirstTick, 0) /\ ExactOut(init_stats(FirstTick), 0)
  BY <1>1, FreshExact
<1>3. StatsType
  BY <1>1, <1>2 DEF StatsType
<1> QED
  BY <1>1, <1>2, <1>3 DEF StatsInv, Accounts, Balanced
-----------------------------------------------------------------------------
\* Every step with its charges is a step of the kernel.
LEMMA StatsStep == [StatsNext]_<<vars, statsVars>> => [Next]_vars
<1> SUFFICES ASSUME StatsNext PROVE [Next]_vars
  OBVIOUS
<1>1. CASE Elapse \/ \E pid \in Pids : get_stats(pid)
  BY <1>1 DEF Elapse, get_stats
<1>2. CASE \/ YieldCharged \/ SwitchCharged
           \/ Spin /\ UNCHANGED <<global_PID, keyVars, semVars, statsVars>>
  BY <1>2 DEF YieldCharged, SwitchCharged, Next, SchedNext, KeyNext, ProcessNext
<1>3. CASE CreateCharged \/ CreateFailsCharged
  BY <1>3 DEF CreateCharged, CreateFailsCharged, Next, ProcessNext
<1>4. CASE KeyboardCharged \/ ClockCharged
  BY <1>4 DEF KeyboardCharged, ClockCharged, Next, KeyNext
<1>5. CASE QuietCall
  BY <1>5 DEF QuietCall, Next, KeyNext, SemNext
<1>6. CASE \E s \in Created : semWaitCharged(s)
  BY <1>6 DEF semWaitCharged, Next, SemNext
<1> QED
  BY <1>1, <1>2, <1>3, <1>4, <1>5, <1>6, Zenon DEF StatsNext

LEMMA StatsKept ==
  ASSUME TypeOK, ListInv, StatsInv, [StatsNext]_<<vars, statsVars>>
  PROVE  StatsInv'
<1>1. CASE UNCHANGED <<queue, current, statsVars>>
  BY <1>1 DEF statsVars, StatsInv, StatsType, Accounts, Balanced, WaitsIn, On
<1>2. CASE UNCHANGED <<vars, statsVars>>
  BY <1>1, <1>2 DEF vars, schedVars
<1>3. CASE Spin /\ UNCHANGED <<global_PID, keyVars, semVars, statsVars>>
  BY <1>1, <1>3 DEF Spin, schedVars
<1>4. CASE \E s \in Created : semWaitCharged(s)
  BY <1>4, SemWaitChargedKeeps
<1>5. CASE \E pid \in Pids : get_stats(pid)
  BY <1>5, GetStatsKeeps
<1> QED
  BY <1>2, <1>3, <1>4, <1>5, ElapseKeeps, YieldChargedKeeps, SwitchChargedKeeps,
     QuietCallKeeps, CreateChargedKeeps, CreateFailsChargedKeeps,
     KeyboardChargedKeeps, ClockChargedKeeps
  DEF StatsNext

LEMMA StatsInvariant == StatsSpec => [](TypeOK /\ ListInv /\ StatsInv)
<1>1. StatsInit => TypeOK /\ ListInv /\ StatsInv
  BY InitType, InitLists, StatsInitInv DEF StatsInit
<1>2. TypeOK /\ ListInv /\ StatsInv /\ [StatsNext]_<<vars, statsVars>>
        => TypeOK' /\ ListInv' /\ StatsInv'
  BY NextType, StatsStep, ListsKept, StatsKept
<1> QED
  BY <1>1, <1>2, PTL DEF StatsSpec

(* update_stats never loses a tick and never counts one twice: the counters
   of every living task add up to its age at its last charge, whatever the
   order of switches, wake-ups, exits and failed creations, for any number
   of tasks and semaphores, any tick at boot and any width of the counters,
   which may wrap any number of times. *)
THEOREM TicksAreConserved == StatsSpec => []TicksConserved
<1>1. StatsInv => TicksConserved
  BY DEF StatsInv, Accounts, Conserved, TicksConserved, Alive, OnList, On
<1> QED
  BY <1>1, StatsInvariant, PTL

(* ready_ticks is exactly the time that the task was ready or waited for a
   semaphore, from the last charge before the wait (sched.c:125 for a task
   that is woken, 149 for one that leaves) to the one that ends it (150),
   however much time passes between these readings: the charges of system
   time in update_process_state_rr and of ready time in sched_next_rr never
   meet a task that waits otherwise, in any run. *)
THEOREM ReadyTimeIsExact == StatsSpec => []ReadyTimeExact
<1>1. ASSUME StatsInv PROVE ReadyTimeExact
  <2> SUFFICES ASSUME NEW t \in Alive
               PROVE  (p_stats[t].ready_ticks
                        + (IF Waiting(t) THEN get_ticks(now) - p_stats[t].elapsed_total_ticks
                                         ELSE 0)) % TickWord
                        = get_ticks(waited[t])
    BY DEF ReadyTimeExact
  <2>1. t \in Task /\ p_stats[t] \in stats /\ p_stats[t].ready_ticks \in Int
    BY <1>1 DEF StatsInv, StatsType, Alive, stats
  <2>2. Balanced(p_stats[t], queue, current, t, now, waited[t])
    BY <1>1 DEF StatsInv, Accounts, Alive, OnList, On
  <2>3. CASE Waiting(t)
    BY <2>2, <2>3, WaitingIs DEF Balanced, ExactIn
  <2>4. CASE ~ Waiting(t)
    <3>1. p_stats[t].ready_ticks + 0 = p_stats[t].ready_ticks
      BY <2>1
    <3> QED
      BY <2>2, <2>4, <3>1, WaitingIs DEF Balanced, ExactOut
  <2> QED
    BY <2>3, <2>4
<1> QED
  BY <1>1, StatsInvariant, PTL
=============================================================================
