-------------------------------- MODULE List ---------------------------------
(***************************************************************************)
(* list.c and list.h at the level of pointers: circular doubly linked      *)
(* lists whose links are part of the entries.  The lists of tasks, on      *)
(* which an entry stands at most once (OneList of module Kernel), are used *)
(* in any order, also by the sweep of key_timout_system over one of them   *)
(* while it moves entries to another; the other modules take them as       *)
(* sequences, and ImplementsLists is what allows them to.  The lists of    *)
(* threads, the only ones that list_add serves, are used as sys.c uses     *)
(* them: a thread that ends stays on its master's list, and copy_data      *)
(* overwrites the anchor and the head of the slot that is used next.       *)
(***************************************************************************)
EXTENDS Integers, SequencesExt

CONSTANTS
  ListHead,         \* the heads of task lists: variables of the kernel, semaphores
  Entry,            \* task.list of the task_structs
  readyqueue,       \* the two heads that the sweep is about
  getKey_blocked,
  Slot,             \* the task_structs that have threads or are one
  task1,            \* the one of the first process
  NULL

thread_child_list(s) == <<s, "thread_child_list">>

thread_child_anchor(s) == <<s, "thread_child_anchor">>

ThreadHead == {thread_child_list(s) : s \in Slot}

ThreadNode == ThreadHead \cup {thread_child_anchor(s) : s \in Slot}

ASSUME ListAssumption ==
  /\ {readyqueue, getKey_blocked} \subseteq ListHead
  /\ readyqueue # getKey_blocked
  /\ ListHead \cap Entry = {}
  /\ NULL \notin ListHead \cup Entry \cup Slot \cup ThreadNode
  /\ (ListHead \cup Entry) \cap ThreadNode = {}
  /\ task1 \in Slot
  /\ IsFiniteSet(Entry) /\ IsFiniteSet(Slot)

HeadNode == ListHead \cup ThreadHead

Anchor == Entry \cup {thread_child_anchor(s) : s \in Slot}

Node == HeadNode \cup Anchor

VARIABLES
  link,    \* the fields next and prev of every struct list_head
  pos,     \* the two cursors of list_for_each_safe; pos is NULL when no
  n,       \* sweep is under way
  task,    \* what a slot says of its task, NULL when it is on freequeue
  owner,   \* history: the head an anchor was last added to, NULL once deleted,
           \* overwritten, or left behind by a head that was initialised again
  broken,  \* history: the heads of threads never initialised, overwritten, with
           \* an overwritten anchor, or written to through one of these
  seen,    \* history: what the sweep has visited, in order, up to one visit too many
  due      \* history: what was on getKey_blocked when the sweep began

vars == <<link, pos, n, task, owner, broken, seen, due>>

threads == <<task, broken>>
sweep == <<pos, n, seen, due>>

\* Mutant: a list of threads is not initialised again.
INIT_LIST_HEAD_skips(l, h) == l

INIT_LIST_HEAD(l, h) == [l EXCEPT !.next[h] = h, !.prev[h] = h]

\* __list_add
list_add_between(l, new, prev, next) ==
  [next |-> [l.next EXCEPT ![new] = next, ![prev] = new],
   prev |-> [l.prev EXCEPT ![next] = new, ![new] = prev]]

list_add(l, new, head) == list_add_between(l, new, head, l.next[head])

\* Mutant: the new entry is put in front.
list_add_tail_front(l, new, head) == list_add(l, new, head)

list_add_tail(l, new, head) == list_add_between(l, new, l.prev[head], head)

\* list_del with __list_del: the entry's own fields are set to NULL.
list_del(l, entry) ==
  [next |-> [l.next EXCEPT ![l.prev[entry]] = l.next[entry], ![entry] = NULL],
   prev |-> [l.prev EXCEPT ![l.next[entry]] = l.prev[entry], ![entry] = NULL]]

list_first(l, head) == l.next[head]

list_empty(l, head) == l.next[head] = head

\* copy_data of the creator's task_union: head and anchor of c over those of s.
copied(l, c, s) ==
  LET over(f) == [f EXCEPT ![thread_child_list(s)] = f[thread_child_list(c)],
                           ![thread_child_anchor(s)] = f[thread_child_anchor(c)]]
  IN  [next |-> over(l.next), prev |-> over(l.prev)]

(* INIT_LIST_HEAD for the heads of the kernel and of the first process; every
   other field is zero in a fresh kernel. *)
Init ==
  /\ LET self == [x \in Node |->
                    IF x \in ListHead \cup {thread_child_list(task1)} THEN x ELSE NULL]
     IN  link = [next |-> self, prev |-> self]
  /\ task = [s \in Slot |-> IF s # task1 THEN NULL ELSE
                [master |-> s, thread |-> FALSE, has_threads |-> FALSE]]
  /\ owner = [x \in Anchor |-> NULL]
  /\ broken = ThreadHead \ {thread_child_list(task1)}
  /\ pos = NULL /\ n = NULL /\ seen = <<>> /\ due = <<>>
-----------------------------------------------------------------------------
\* Interrupts are disabled in the kernel: nothing comes between two turns.
Quiet == pos = NULL

AddTail(e, h) ==
  /\ Quiet /\ owner[e] = NULL
  /\ link' = list_add_tail(link, e, h)
  /\ owner' = [owner EXCEPT ![e] = h]
  /\ UNCHANGED <<threads, sweep>>

\* The schedulers delete at the front of a list, timeouts anywhere.
Del(e) ==
  /\ Quiet /\ owner[e] # NULL
  /\ link' = list_del(link, e)
  /\ owner' = [owner EXCEPT ![e] = NULL]
  /\ UNCHANGED <<threads, sweep>>

ListOf(x) == IF x \in HeadNode THEN x ELSE owner[x]

NonNull(H) == H \ {NULL}

\* The heads that are not to be trusted once copy_data has overwritten slot s.
copy_breaks(s) ==
  broken \cup NonNull({thread_child_list(s), owner[thread_child_anchor(s)]})

\* What was added to h is behind when h is initialised again.
left_behind(o, h) == [x \in Anchor |-> IF o[x] = h THEN NULL ELSE o[x]]

\* A call of c that takes slot s off freequeue and copies c over it.
Copies(c, s) == Quiet /\ task[c] # NULL /\ task[s] = NULL

overwritten(s) == [owner EXCEPT ![thread_child_anchor(s)] = NULL]

\* sys_fork and sys_threadCreateWithStack that find no page or no gap.
creation_fails(c, s) ==
  /\ Copies(c, s)
  /\ link' = copied(link, c, s)
  /\ owner' = overwritten(s)
  /\ broken' = copy_breaks(s)
  /\ UNCHANGED <<task, sweep>>

sys_fork(c, s) ==
  /\ Copies(c, s)
  /\ link' = INIT_LIST_HEAD(copied(link, c, s), thread_child_list(s))
  /\ task' = [task EXCEPT ![s] = [master |-> s, thread |-> FALSE, has_threads |-> FALSE]]
  /\ owner' = left_behind(overwritten(s), thread_child_list(s))
  /\ broken' = copy_breaks(s) \ {thread_child_list(s)}
  /\ UNCHANGED sweep

(* list_add writes to the first node of the master's list, whatever that node
   is by now.  The master's slot may be anyone's: its address is not checked. *)
threadCreate(c, s) ==
  LET h == thread_child_list(task[c].master)
      l == copied(link, c, s)
      b == copy_breaks(s)
  IN  /\ Copies(c, s)
      /\ link' = list_add(l, thread_child_anchor(s), h)
      /\ task' = [task EXCEPT ![s] = [master |-> task[c].master, thread |-> TRUE,
                                      has_threads |-> FALSE],
                              ![c].has_threads = @ \/ ~task[c].thread]
      /\ owner' = [owner EXCEPT ![thread_child_anchor(s)] = h]
      /\ broken' = IF h \in b THEN b \cup NonNull({ListOf(l.next[h])}) ELSE b
      /\ UNCHANGED sweep

\* terminate_thread: the anchor stays where it is.
exit_thread(c) ==
  /\ Quiet /\ task[c] # NULL /\ task[c].thread
  /\ task' = [task EXCEPT ![c] = NULL]
  /\ UNCHANGED <<link, owner, broken, sweep>>

(* sys_exit of a process without threads of its own; with some it never ends
   (run exit_hangs).  Threads that its threads have created are left behind. *)
exit_process(c) ==
  /\ Quiet /\ task[c] # NULL /\ ~task[c].thread /\ ~task[c].has_threads
  /\ link' = INIT_LIST_HEAD(link, thread_child_list(c))
  /\ task' = [task EXCEPT ![c] = NULL]
  /\ owner' = left_behind(owner, thread_child_list(c))
  /\ broken' = broken \ {thread_child_list(c)}
  /\ UNCHANGED sweep

\* list_del and list_add_tail of update_process_state_rr(e, &readyqueue).
make_ready(e) ==
  /\ link' = list_add_tail(list_del(link, e), e, readyqueue)
  /\ owner' = [owner EXCEPT ![e] = readyqueue]

\* keyboard_routine wakes the first task that waits for a key.
WakeFirst ==
  /\ Quiet /\ ~list_empty(link, getKey_blocked)
  /\ make_ready(list_first(link, getKey_blocked))
  /\ UNCHANGED <<threads, sweep>>

\* The nodes met by following next from a head until it comes round to it.
Reached(l, h) ==
  LET at[k \in 1 .. Cardinality(Anchor) + 1] ==
        IF k = 1 THEN l.next[h] ELSE IF at[k - 1] = h THEN h ELSE l.next[at[k - 1]]
  IN  at

Contents(l, h) ==
  LET at  == Reached(l, h)
      len == CHOOSE k \in 0 .. Cardinality(Anchor) :
               at[k + 1] = h /\ \A j \in 1 .. k : at[j] # h
  IN  [k \in 1 .. len |-> at[k]]

\* The loop head: pos = head->next, n = pos->next.
SweepStart ==
  /\ Quiet
  /\ pos' = list_first(link, getKey_blocked)
  /\ n' = link.next[list_first(link, getKey_blocked)]
  /\ seen' = <<>> /\ due' = Contents(link, getKey_blocked)
  /\ UNCHANGED <<link, owner, threads>>

\* Mutant: list_for_each, which reads the next entry after the body.
Advance_unsafe ==
  /\ pos' = link'.next[pos]
  /\ n' = link'.next[link'.next[pos]]

\* Mutant: the second cursor is not moved on.
Advance_forgets_n == pos' = n /\ n' = n

\* pos = n, n = pos->next, read from the list as the body has left it.
Advance == pos' = n /\ n' = link'.next[n]

\* The body of the loop: the waiter stays, or its timeout has ended and
\* update_process_state_rr moves it to the ready queue.
SweepTurn ==
  /\ pos \notin {NULL, getKey_blocked}
  /\ \/ UNCHANGED <<link, owner>>
     \/ make_ready(pos)
  /\ Advance
  /\ seen' = IF Len(seen) > Len(due) THEN seen ELSE Append(seen, pos)
  /\ UNCHANGED <<threads, due>>

SweepEnd ==
  /\ pos = getKey_blocked
  /\ pos' = NULL /\ n' = NULL /\ seen' = <<>> /\ due' = <<>>
  /\ UNCHANGED <<link, owner, threads>>

\* The lists of tasks: any use of list.c, and the sweep.
TaskStep ==
  \/ \E e \in Entry : Del(e) \/ \E h \in ListHead : AddTail(e, h)
  \/ WakeFirst \/ SweepStart \/ SweepTurn \/ SweepEnd

\* The calls that overwrite a slot, and those that only free one.
CreateStep == \E c, s \in Slot : creation_fails(c, s) \/ sys_fork(c, s) \/ threadCreate(c, s)

ExitStep == \E c \in Slot : exit_thread(c) \/ exit_process(c)

Next == TaskStep \/ CreateStep \/ ExitStep

\* The handler runs to its end once it has begun.
Spec == Init /\ [][Next]_vars /\ WF_vars(SweepTurn \/ SweepEnd)
-----------------------------------------------------------------------------
TypeOK ==
  /\ link \in [next : [Node -> Node \cup {NULL}], prev : [Node -> Node \cup {NULL}]]
  /\ pos \in ListHead \cup Entry \cup {NULL} /\ n \in ListHead \cup Entry \cup {NULL}
  /\ task \in [Slot -> {NULL} \cup
                [master : Slot, thread : BOOLEAN, has_threads : BOOLEAN]]
  /\ owner \in [Anchor -> HeadNode \cup {NULL}] /\ broken \subseteq ThreadHead
  /\ seen \in Seq(Entry) /\ due \in Seq(Entry)

IsLinked(x) == x \in HeadNode \/ owner[x] # NULL

IsAmong(x, s) == \E i \in DOMAIN s : s[i] = x

(* next and prev are inverse to each other on everything that is linked, a list
   is closed under both and whatever was added to it is found from its head,
   and a task that is on no list has no links.  It holds for every list of
   tasks, whatever has become of the lists of threads, and for a process's list
   of threads until the slot of one of them is used again, its own slot is
   overwritten, or an addition to a list so broken writes to it: list_add never
   asks whether the anchor is still on a list. *)
WellLinked ==
  /\ \A x \in Node : IsLinked(x) /\ ListOf(x) \notin broken =>
       /\ link.next[x] \in Node /\ link.prev[link.next[x]] = x
       /\ link.prev[x] \in Node /\ link.next[link.prev[x]] = x
       /\ IsLinked(link.next[x]) /\ ListOf(link.next[x]) = ListOf(x)
       /\ IsLinked(link.prev[x]) /\ ListOf(link.prev[x]) = ListOf(x)
       /\ x \in Anchor => IsAmong(x, Contents(link, owner[x]))
  /\ \A e \in Entry : owner[e] = NULL => link.next[e] = NULL /\ link.prev[e] = NULL

Lists == INSTANCE TaskLists WITH lists <- [h \in ListHead |-> Contents(link, h)]

(* Followed from their heads the lists of tasks are sequences to which list.c
   adds at the end and from which it removes one entry: no other entry is
   lost, doubled or reordered, wherever the entry stands, and no call that
   creates or ends a thread changes one. *)
ImplementsLists == Lists!Spec

(* list_for_each_safe visits every waiter once and in order although the body
   moves the entry it stands on to another list. *)
SweepVisitsAll ==
  /\ Len(seen) <= Len(due) /\ seen = SubSeq(due, 1, Len(seen))
  /\ pos = getKey_blocked => seen = due

\* The timeout sweep of a clock interrupt comes to its end.
SweepEnds == pos # NULL ~> pos = NULL
=============================================================================
