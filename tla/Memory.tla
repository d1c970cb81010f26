------------------------------- MODULE Memory --------------------------------
(***************************************************************************)
(* Physical frames and page tables (mm.c) and what the system calls of     *)
(* sys.c do to them.  A task table slot is both a task and a page table.   *)
(* Of the bits of an entry the model keeps the present bit, the frame, and *)
(* whether user and rw still are what they were at boot.  The search for   *)
(* free pages is GapSearch.                                                *)
(*                                                                         *)
(* The list of a task's regions has its head in the task_struct and its    *)
(* nodes in the first page of each region.  A node pointer is a page, so   *)
(* what it leads to depends on the page table in use; the head of slot t   *)
(* is the pointer HeadOf(t).  The next field of a head is written and      *)
(* never read, and is left out.                                            *)
(***************************************************************************)
EXTENDS Integers, FiniteSets, Functions

CONSTANTS
  NR_TASKS,         \* task table slots, each with a page table (10 in the source)
  TOTAL_PAGES,      \* entries of a page table and physical frames (1024)
  NUM_PAG_KERNEL,   \* 256
  NUM_PAG_CODE,     \* 8
  NUM_PAG_DATA,     \* 20
  GuardPages,       \* the pages before and after the task array
  ADDRESS_PAGES,    \* pages of the address space; the table maps the first ones (2^20)
  FRAME_STEP,       \* alloc_frame looks at every second frame (2)
  StackSizes,       \* the N that threadCreateWithStack is called with
  RegionSizes,      \* the num_pages that memRegGet is called with
  INT_MAX,          \* the largest int (2^31 - 1)
  MaxRegions        \* bound: regions handed out at a time

PAG_LOG_INIT_CODE == NUM_PAG_KERNEL
PAG_LOG_INIT_DATA == NUM_PAG_KERNEL + NUM_PAG_CODE
FirstPage == NUM_PAG_KERNEL + NUM_PAG_CODE + NUM_PAG_DATA

ASSUME MemoryAssumption ==
  /\ NR_TASKS \in Nat /\ NR_TASKS >= 2
  /\ TOTAL_PAGES \in Nat /\ NUM_PAG_KERNEL \in Nat \ {0}
  /\ NUM_PAG_CODE \in Nat \ {0} /\ NUM_PAG_DATA \in Nat \ {0}
  /\ FRAME_STEP \in Nat \ {0}
  /\ PAG_LOG_INIT_DATA + NUM_PAG_DATA < TOTAL_PAGES
  /\ FRAME_STEP * (NUM_PAG_CODE + NUM_PAG_DATA) < TOTAL_PAGES - NUM_PAG_KERNEL
  /\ GuardPages \subseteq 1 .. NUM_PAG_KERNEL - 1
  /\ ADDRESS_PAGES \in Nat /\ ADDRESS_PAGES > TOTAL_PAGES
  /\ INT_MAX \in Nat /\ INT_MAX > TOTAL_PAGES /\ MaxRegions \in Nat
  /\ StackSizes \subseteq Int /\ RegionSizes \subseteq 0 .. INT_MAX

Slot == 0 .. NR_TASKS - 1
Page == 0 .. TOTAL_PAGES - 1
Frame == 0 .. TOTAL_PAGES - 1

\* pagusr_table is one array: page TOTAL_PAGES of slot s is page 0 of slot s + 1.
Entry == 0 .. NR_TASKS * TOTAL_PAGES - 1
NotPresent == -1
at(s, page) == s * TOTAL_PAGES + page

VARIABLES
  free,           \* phys_mem: the frames marked FREE_FRAME
  pagusr_table,   \* per entry, the mapped frame or NotPresent
  sealed,         \* entries mapped at boot without the user bit or without rw
  spaces,         \* slots of processes (tasks that own their page table)
  stacks,         \* the user stacks of threads: slot, page table, first page, pages
  memoria,        \* the regions handed out: page table, first page, pages, and
                  \* their node: who linked it (or Gone), tam, next and prev
  head,           \* the prev field of memoria in each task_struct
  has_threads,    \* slots of masters that have created a thread
  cr3,            \* the slot whose page table is in use
  stale,          \* <<page, frame>> pairs the TLB may hold for unmapped pages of cr3
  halted,         \* "no", or what ended the run
  trusted,        \* history: tasks whose list nothing but their own calls reaches
  clobbered,      \* history: processes that a fork has taken pages from
  lost            \* history: the frames of those pages

lists == <<memoria, head, trusted>>
mmu == <<cr3, stale>>
harm == <<clobbered, lost>>
vars == <<free, pagusr_table, sealed, spaces, stacks, has_threads, halted, lists, mmu, harm>>

HeadOf(t) == -1 - t
Gone == -1

Tasks == spaces \cup {k.slot : k \in stacks}
space_of(t) == IF t \in spaces THEN t ELSE (CHOOSE k \in stacks : k.slot = t).space

\* The slots on freequeue; idle_task keeps slot 0.
FreeSlots == (Slot \ {0}) \ (spaces \cup {k.slot : k \in stacks})
-----------------------------------------------------------------------------
(* get_frame does not look at the present bit.  An entry that is not present
   is 0, but for a guard page: it keeps its frame until fork maps it. *)
get_frame(PT, e) ==
  IF PT[e] # NotPresent THEN PT[e]
  ELSE IF e % TOTAL_PAGES \in GuardPages THEN e % TOTAL_PAGES ELSE 0

\* Entries first .. first + n - 1 set by set_ss_pag, and cleared by del_ss_pag.
set_ss_pags(PT, first, frames) ==
  [e \in Entry |-> IF e - first \in DOMAIN frames THEN frames[e - first] ELSE PT[e]]

del_ss_pags(PT, first, n) ==
  [e \in Entry |-> IF first <= e /\ e < first + n THEN NotPresent ELSE PT[e]]

\* Mutant: the frames of a cancelled call are forgotten.
free_frames_none(F, frames) == F

\* free_frame for each of the frames; the first user frame is never freed.
free_frames(F, frames) ==
  F \cup {f \in frames : f > NUM_PAG_KERNEL /\ f < TOTAL_PAGES}

\* The frames mapped at entries first .. first + n - 1, as get_frame reads them.
frames_at(PT, first, n) ==
  {get_frame(PT, e) : e \in {d \in Entry : first <= d /\ d < first + n}}

\* The frames alloc_frame can return.
Allocatable ==
  {f \in free : f >= NUM_PAG_KERNEL /\ (f - NUM_PAG_KERNEL) % FRAME_STEP = 0}

\* Mutant: the search does not look at the frame's mark.
alloc_any_frames(n) ==
  {a \in [0 .. n - 1 -> {f \in Frame : f >= NUM_PAG_KERNEL}] :
     \A i, j \in 0 .. n - 1 : i < j => a[i] < a[j]}

\* What n calls of alloc_frame return one after the other: the lowest frames.
alloc_frames(n) ==
  {a \in [0 .. n - 1 -> Allocatable] :
     /\ \A i, j \in 0 .. n - 1 : i < j => a[i] < a[j]
     /\ \A i \in 0 .. n - 1, f \in Allocatable :
          f < a[i] => \E j \in 0 .. n - 1 : a[j] = f}

TooFewFrames(n) == Cardinality(Allocatable) < n

\* Mutant: pages already mapped are accepted.
Gaps_overlapping(s, n) == {p \in FirstPage .. TOTAL_PAGES - 1 : p + n < TOTAL_PAGES}

\* The starts of n free pages that end before the last page of s's table.
Gaps(s, n) ==
  {p \in FirstPage .. TOTAL_PAGES - 1 :
     /\ p + n < TOTAL_PAGES
     /\ \A i \in 0 .. n - 1 : pagusr_table[at(s, p + i)] = NotPresent}

IsFirstGap(p, s, n) == p \in Gaps(s, n) /\ \A q \in Gaps(s, n) : p <= q
-----------------------------------------------------------------------------
INIT_LIST_HEAD(t) == HeadOf(t)

\* The kernel and code pages of slot s.
low(s) == {at(s, p) : p \in 0 .. PAG_LOG_INIT_DATA - 1}

\* init_table_pages, and set_user_pages for slot 1.
InitialEntry(s, p) ==
  CASE p \in (1 .. NUM_PAG_KERNEL - 1) \ GuardPages -> p
    [] s = 1 /\ p \in PAG_LOG_INIT_CODE .. FirstPage - 1 ->
         NUM_PAG_KERNEL + FRAME_STEP * (p - PAG_LOG_INIT_CODE)
    [] OTHER -> NotPresent

init_mm ==
  /\ pagusr_table = [e \in Entry |-> InitialEntry(e \div TOTAL_PAGES, e % TOTAL_PAGES)]
  /\ free = {f \in Frame : /\ f >= NUM_PAG_KERNEL
                           /\ \A e \in Entry : pagusr_table[e] # f}
  /\ sealed = {e \in UNION {low(s) : s \in Slot} : pagusr_table[e] # NotPresent}
  /\ spaces = {1}
  /\ stacks = {}
  /\ memoria = {}
  /\ head = [t \in Slot |-> INIT_LIST_HEAD(t)]
  /\ has_threads = {}
  /\ cr3 = 1
  /\ stale = {}
  /\ halted = "no"
  /\ trusted = {1}
  /\ clobbered = {}
  /\ lost = {}
-----------------------------------------------------------------------------
\* A store to the next or prev field of what q points to in address space s.
store_next(M, s, q, v) ==
  {IF r.space = s /\ r.page = q THEN [r EXCEPT !.next = v] ELSE r : r \in M}
store_prev(M, s, q, v) ==
  {IF r.space = s /\ r.page = q THEN [r EXCEPT !.prev = v] ELSE r : r \in M}

(* The store faults when q is a page that is not mapped.  A mapped page that
   is no node belongs to the process, and its contents are not modelled. *)
Faults(PT, s, q) == q >= 0 /\ PT[at(s, q)] = NotPresent

\* list_add_tail of node r to the list of task t.
link(M, t, r) ==
  /\ memoria' = store_next(M \cup {[r EXCEPT !.next = HeadOf(t), !.prev = head[t]]},
                           r.space, head[t], r.page)
  /\ head' = [head EXCEPT ![t] = r.page]

\* The nodes that pages first .. first + n - 1 of address space s hold.
nodes_in(s, first, n) == {r \in memoria : r.space = s /\ r.page \in first .. first + n - 1}

(* list_del of node r, whose fields are not read again, nor those of the nodes
   gone with it.  The head of a free slot is set before it is used, so a store
   to it makes no difference. *)
unlink(r, gone) ==
  /\ memoria' = store_next(store_prev(memoria \ (gone \cup {r}), r.space, r.next, r.prev),
                           r.space, r.prev, r.next)
  /\ head' = [t \in Slot |-> IF r.next = HeadOf(t) /\ t \in Tasks THEN r.prev ELSE head[t]]
-----------------------------------------------------------------------------
(* Pages from first on are mapped to frames a without emptying the TLB: what is
   stored there may go to the frame that the page had before. *)
Astray(first, a) == \E x \in stale : x[1] - first \in DOMAIN a /\ a[x[1] - first] # x[2]
remap(first, a) == stale' = {x \in stale : x[1] - first \notin DOMAIN a}

\* sys_memRegGet: one page more than asked for, the first one with the list node.
memRegGet(t, num_pages) ==
  LET s == space_of(t)
      n == num_pages + 1
  IN  /\ num_pages < INT_MAX /\ Cardinality(memoria) < MaxRegions
      /\ \E p \in Gaps(s, n), a \in alloc_frames(n) :
           /\ IsFirstGap(p, s, n)
           /\ pagusr_table' = set_ss_pags(pagusr_table, at(s, p), a)
           /\ free' = free \ Range(a)
           /\ remap(p, a)
           /\ \/ /\ Faults(pagusr_table', s, head[t])
                 /\ halted' = "fault" /\ UNCHANGED <<memoria, head>>
              \/ /\ Astray(p, a)
                 /\ halted' = "astray" /\ UNCHANGED <<memoria, head>>
              \/ /\ ~ Faults(pagusr_table', s, head[t])
                 /\ link(memoria, t, [space |-> s, page |-> p, num |-> n, task |-> t,
                                      tam |-> n, next |-> 0, prev |-> 0])
                 /\ UNCHANGED halted
      /\ UNCHANGED <<sealed, spaces, stacks, has_threads, cr3, trusted, harm>>

(* sys_memRegGet(INT_MAX).  ++num_pages is the smallest int: the search finds
   its first page without looking at it, no page is mapped, and the node is
   written there all the same, over the node of a region if there is one. *)
memRegGet_wrapped(t) ==
  LET s == space_of(t)
      here == {r \in memoria : r.space = s /\ r.page = FirstPage}
  IN  /\ INT_MAX \in RegionSizes /\ Cardinality(memoria) < MaxRegions
      /\ IF Faults(pagusr_table, s, FirstPage) \/ Faults(pagusr_table, s, head[t])
           THEN halted' = "fault" /\ UNCHANGED lists
           ELSE /\ link(memoria \ here, t,
                        [space |-> s, page |-> FirstPage, task |-> t,
                         num |-> IF here = {} THEN 0 ELSE (CHOOSE r \in here : TRUE).num,
                         tam |-> -INT_MAX - 1, next |-> 0, prev |-> 0])
                /\ trusted' = {u \in trusted : space_of(u) # s}
                /\ UNCHANGED halted
      /\ UNCHANGED <<free, pagusr_table, sealed, spaces, stacks, has_threads, mmu, harm>>

(* The part that memRegGet and threadCreateWithStack share when frames run
   out: the frames that were left are taken, mapped, freed and unmapped. *)
map_and_undo(s, n) ==
  /\ TooFewFrames(n)
  /\ \E p \in Gaps(s, n) :
       /\ IsFirstGap(p, s, n)
       /\ pagusr_table' = del_ss_pags(pagusr_table, at(s, p), Cardinality(Allocatable))
  /\ free' = free_frames(free \ Allocatable, Allocatable)
  /\ UNCHANGED <<sealed, spaces, stacks, has_threads, halted, lists, mmu, harm>>

memRegGet_fails(t, num_pages) ==
  num_pages < INT_MAX /\ map_and_undo(space_of(t), num_pages + 1)

(* sys_memRegDel of a pointer that memRegGet has returned and whose node is
   still there; set_cr3 empties the TLB. *)
memRegDel(r) ==
  /\ r.space = cr3
  /\ IF Faults(pagusr_table, cr3, r.next) \/ Faults(pagusr_table, cr3, r.prev)
       THEN halted' = "fault" /\ UNCHANGED <<free, pagusr_table, memoria, head, stale>>
       ELSE /\ free' = free_frames(free, frames_at(pagusr_table, at(cr3, r.page), r.tam))
            /\ pagusr_table' = del_ss_pags(pagusr_table, at(cr3, r.page), r.tam)
            /\ unlink(r, nodes_in(cr3, r.page, r.tam))
            /\ stale' = {}
            /\ UNCHANGED halted
  /\ UNCHANGED <<sealed, spaces, stacks, has_threads, cr3, trusted, harm>>

(* Who keeps a list of its own when slot c becomes a thread of process s.  A
   node that a former thread of the slot was in, or linked, may still lead to
   the slot's head: the new thread is not alone with it.  If the node is one of
   another process, the thread's next region is linked to whatever page of s
   that process leaves in the head, and no list of s is safe. *)
still_trusted(s, c) ==
  LET left == {r.space : r \in {x \in memoria : x.next = HeadOf(c)}}
  IN  IF s \notin trusted THEN trusted
      ELSE IF ~ left \subseteq {s} THEN {u \in trusted : space_of(u) # s}
      ELSE IF left = {} THEN trusted \cup {c} ELSE trusted

(* How the stores of ext and parameter end, with the last page of the stack at
   page q: the caller's N may be negative, and nothing stops them from going
   below the data.  The frames a are those of the stack. *)
pushed(PT, s, p, q, a) ==
  IF q >= TOTAL_PAGES \/ Faults(PT, s, q) THEN {"fault"}
  ELSE IF q < PAG_LOG_INIT_DATA THEN {"overwritten"}
  ELSE IF Astray(p, a) THEN {halted, "astray"} ELSE {halted}

\* A stack of N pages in the table of t for the new thread c.
new_stack(t, c, N) ==
  LET s == space_of(t)
  IN  /\ N < TOTAL_PAGES - FirstPage
      /\ \E p \in Gaps(s, N), a \in alloc_frames(N) :
           /\ IsFirstGap(p, s, N)
           /\ pagusr_table' = set_ss_pags(pagusr_table, at(s, p), a)
           /\ free' = free \ Range(a)
           /\ stacks' = stacks \cup {[slot |-> c, space |-> s, page |-> p, num |-> N]}
           /\ remap(p, a)
           /\ halted' \in pushed(pagusr_table', s, p, (p + N - 1) % ADDRESS_PAGES, a)
      /\ has_threads' = IF t \in spaces /\ halted' # "fault" THEN has_threads \cup {t}
                                                            ELSE has_threads
      /\ trusted' = still_trusted(s, c)
      /\ UNCHANGED <<sealed, spaces, memoria, cr3, harm>>

\* Mutant: the list of the thread is left as copied from its creator.
threadCreate_copies_head(t, c, N) ==
  new_stack(t, c, N) /\ head' = [head EXCEPT ![c] = head[t]]

\* sys_threadCreateWithStack: the new task in slot c gets a stack and its own list.
threadCreate(t, c, N) ==
  new_stack(t, c, N) /\ head' = [head EXCEPT ![c] = INIT_LIST_HEAD(c)]

threadCreate_fails(t, N) == N < TOTAL_PAGES - FirstPage /\ map_and_undo(space_of(t), N)

(* terminate_thread, from the sys_exit of the thread itself.  Its regions stay
   with the process; the next task may be one of the same process, and then
   the switch keeps the TLB.  After a fork that has clobbered the process the
   pages of the stack may be those of a region. *)
terminate_thread(k) ==
  /\ k.space = cr3
  /\ free' = free_frames(free, frames_at(pagusr_table, at(cr3, k.page), k.num))
  /\ pagusr_table' = del_ss_pags(pagusr_table, at(cr3, k.page), k.num)
  /\ stacks' = stacks \ {k}
  /\ memoria' = {IF r.task = k.slot THEN [r EXCEPT !.task = Gone] ELSE r :
                   r \in memoria \ nodes_in(cr3, k.page, k.num)}
  /\ stale' = stale \cup {<<p, pagusr_table[at(cr3, p)]>> :
                 p \in {q \in k.page .. k.page + k.num - 1 : ~ Faults(pagusr_table, cr3, q)}}
  /\ head' = [head EXCEPT ![k.slot] = INIT_LIST_HEAD(k.slot)]
  /\ trusted' = trusted \ {k.slot}
  /\ UNCHANGED <<sealed, spaces, has_threads, cr3, halted, harm>>

(* sys_exit of a process without threads: only the data pages are freed.  Its
   regions stay mapped in the table of the free slot. *)
exit(s) ==
  /\ s \notin has_threads
  /\ free' = free_frames(free,
               frames_at(pagusr_table, at(s, PAG_LOG_INIT_DATA), NUM_PAG_DATA))
  /\ pagusr_table' = del_ss_pags(pagusr_table, at(s, PAG_LOG_INIT_DATA), NUM_PAG_DATA)
  /\ spaces' = spaces \ {s}
  /\ memoria' = {r \in memoria : r.space # s}
  /\ head' = [head EXCEPT ![s] = INIT_LIST_HEAD(s)]
  /\ trusted' = trusted \ {s}
  /\ cr3' \in (IF spaces' = {} THEN {0} ELSE spaces')
  /\ stale' = {}
  /\ clobbered' = clobbered \ {s}
  /\ UNCHANGED <<sealed, stacks, has_threads, halted, lost>>

\* set_cr3 when the scheduler comes to process s from another one or from idle.
switch(s) ==
  /\ cr3' = s
  /\ stale' = {}
  /\ UNCHANGED <<free, pagusr_table, sealed, spaces, stacks, has_threads, halted, lists, harm>>
-----------------------------------------------------------------------------
\* Mutant: the last code page is not copied.
child_table_short(s, c, a) ==
  LET data == set_ss_pags(pagusr_table, at(c, PAG_LOG_INIT_DATA), a)
      copied == [i \in 0 .. PAG_LOG_INIT_DATA - 1 |-> get_frame(pagusr_table, at(s, i))]
  IN  set_ss_pags(data, at(c, 0), [i \in 0 .. PAG_LOG_INIT_DATA - 2 |-> copied[i]])

(* The table of child c of s when its data pages are mapped to the frames a:
   kernel and code pages go to the frames of the parent.  set_ss_pag maps page
   0 and the guard pages as well, and all of them for the user, to be written. *)
child_table(s, c, a) ==
  LET data == set_ss_pags(pagusr_table, at(c, PAG_LOG_INIT_DATA), a)
      copied == [i \in 0 .. PAG_LOG_INIT_DATA - 1 |-> get_frame(pagusr_table, at(s, i))]
  IN  set_ss_pags(data, at(c, 0), copied)

(* The first page of the parent that sys_fork maps the child's data to while
   it copies: for pag from NUM_PAG_KERNEL + NUM_PAG_CODE on, it computes
   next_start_pos + (pag - NUM_PAG_KERNEL + NUM_PAG_CODE). *)
temp_page(p) == p + 2 * NUM_PAG_CODE

window(s, p) == {at(s, temp_page(p) + i) : i \in 0 .. NUM_PAG_DATA - 1} \cap Entry

(* What sys_fork by t does besides the page tables: the child's task_struct
   is a copy, the head of its list included. *)
fork_task(t, c) ==
  /\ spaces' = spaces \cup {c}
  /\ head' = [head EXCEPT ![c] = head[t]]
  /\ sealed' = sealed \ low(c)
  /\ UNCHANGED <<stacks, has_threads, cr3>>

\* Mutant: sys_fork returns without set_cr3.
flush_none(window_of_child) == stale' = stale \cup window_of_child

\* set_cr3 forgets the pages that the copy has gone through.
flush(window_of_child) == stale' = {}

(* sys_fork when the copy goes through pages of the parent that are not mapped.
   The TLB may still lead it elsewhere: CR3 is loaded after the copy only. *)
fork(t, c) ==
  LET s == space_of(t)
  IN  /\ \E p \in Gaps(s, NUM_PAG_DATA), a \in alloc_frames(NUM_PAG_DATA) :
           /\ IsFirstGap(p, s, NUM_PAG_DATA)
           /\ temp_page(p) + NUM_PAG_DATA <= TOTAL_PAGES
           /\ \A e \in window(s, p) : pagusr_table[e] = NotPresent
           /\ pagusr_table' = child_table(s, c, a)
           /\ free' = free \ Range(a)
           /\ halted' \in (IF Astray(temp_page(p), a) THEN {halted, "astray"} ELSE {halted})
           /\ flush({<<temp_page(p) + i, a[i]>> : i \in DOMAIN a})
      /\ fork_task(t, c)
      /\ UNCHANGED <<memoria, trusted, harm>>

(* sys_fork when some are mapped: del_ss_pag leaves them unmapped, whatever they
   were, and the call returns as ever.  The TLB may hold what was there. *)
fork_clobbers(t, c) ==
  LET s == space_of(t)
  IN  /\ \E p \in Gaps(s, NUM_PAG_DATA), a \in alloc_frames(NUM_PAG_DATA) :
           LET hit == {e \in window(s, p) : pagusr_table[e] # NotPresent}
           IN  /\ IsFirstGap(p, s, NUM_PAG_DATA)
               /\ temp_page(p) + NUM_PAG_DATA <= TOTAL_PAGES
               /\ hit # {}
               /\ pagusr_table' = del_ss_pags(child_table(s, c, a), at(s, temp_page(p)), NUM_PAG_DATA)
               /\ free' = free \ Range(a)
               /\ lost' = lost \cup {pagusr_table[e] : e \in hit}
               /\ memoria' = memoria \ nodes_in(s, temp_page(p), NUM_PAG_DATA)
               /\ halted' \in {halted, "astray"}
               /\ flush({<<temp_page(p) + i, a[i]>> : i \in DOMAIN a})
      /\ clobbered' = clobbered \cup {s}
      /\ trusted' = {u \in trusted : space_of(u) # s}
      /\ fork_task(t, c)

(* sys_fork when the copy gets beyond the table: page 0 of the next table is
   set, the store to the page beyond faults, and page_fault_ext_routine never
   returns. *)
fork_faults(t, c) ==
  LET s == space_of(t)
  IN  /\ \E p \in Gaps(s, NUM_PAG_DATA), a \in alloc_frames(NUM_PAG_DATA) :
           LET i == IF temp_page(p) < TOTAL_PAGES THEN TOTAL_PAGES - temp_page(p) ELSE 0
           IN  /\ IsFirstGap(p, s, NUM_PAG_DATA)
               /\ temp_page(p) + NUM_PAG_DATA > TOTAL_PAGES
               /\ pagusr_table' =
                    set_ss_pags(del_ss_pags(child_table(s, c, a), at(s, temp_page(p)), i),
                                at(s, temp_page(p) + i), [j \in {0} |-> a[i]])
               /\ sealed' = (sealed \ low(c)) \ {at(s, temp_page(p) + i)}
               /\ free' = free \ Range(a)
      /\ halted' = "fault"
      /\ UNCHANGED <<spaces, stacks, has_threads, lists, mmu, harm>>

\* sys_fork without enough frames for the data pages.
fork_no_frames(c) ==
  /\ TooFewFrames(NUM_PAG_DATA)
  /\ pagusr_table' = del_ss_pags(pagusr_table, at(c, PAG_LOG_INIT_DATA), Cardinality(Allocatable))
  /\ free' = free_frames(free \ Allocatable, Allocatable)
  /\ UNCHANGED <<sealed, spaces, stacks, has_threads, halted, lists, mmu, harm>>

\* Mutant: the clean-up counts one page too many.
overrun_longer(PT, c) == del_ss_pags(PT, at(c, PAG_LOG_INIT_DATA), TOTAL_PAGES + 1)

\* The clean-up of sys_fork without a gap, as far as the tables go.
overrun(PT, c) == del_ss_pags(PT, at(c, PAG_LOG_INIT_DATA), TOTAL_PAGES)

(* sys_fork without a gap: the clean-up runs up to the pag of the search,
   counted from the data pages, and so into the next table.  That pag is
   TOTAL_PAGES: inner_error takes a mapped last page, and no call maps it. *)
fork_no_gap(s, c) ==
  /\ Gaps(s, NUM_PAG_DATA) = {}
  /\ \E a \in alloc_frames(NUM_PAG_DATA) :
       LET PT == child_table(s, c, a)
       IN  /\ free' = free_frames(free \ Range(a),
                        frames_at(PT, at(c, PAG_LOG_INIT_DATA), TOTAL_PAGES))
           /\ pagusr_table' = overrun(PT, c)
  /\ sealed' = sealed \ (low(c) \cup low(c + 1))
  /\ halted' = "overrun"
  /\ UNCHANGED <<spaces, stacks, has_threads, lists, mmu, harm>>

Running == halted = "no"

\* Only idle_task is left, or the kernel has stopped.
Stopped == (halted # "no" \/ spaces = {}) /\ UNCHANGED vars

\* The system calls of the tasks of the process that runs.
Call(t) ==
  \/ \E n \in RegionSizes : memRegGet(t, n) \/ memRegGet_fails(t, n)
  \/ memRegGet_wrapped(t)
  \/ \E c \in FreeSlots :
       \/ \E N \in StackSizes : threadCreate(t, c, N)
       \/ fork(t, c)
       \/ fork_clobbers(t, c)
       \/ fork_faults(t, c)
       \/ fork_no_frames(c)
       \/ fork_no_gap(space_of(t), c)
  \/ FreeSlots # {} /\ \E N \in StackSizes : threadCreate_fails(t, N)

Next ==
  \/ Running /\ \E t \in Tasks : space_of(t) = cr3 /\ Call(t)
  \/ Running /\ cr3 \in spaces /\ exit(cr3)
  \/ Running /\ \E r \in memoria : memRegDel(r)
  \/ Running /\ \E k \in stacks : terminate_thread(k)
  \/ Running /\ \E s \in spaces : switch(s)
  \/ Stopped

Spec == init_mm /\ [][Next]_vars
-----------------------------------------------------------------------------
TypeOK ==
  /\ free \subseteq Frame
  /\ pagusr_table \in [Entry -> Frame \cup {NotPresent}]
  /\ spaces \subseteq Slot \ {0}
  /\ stacks \subseteq [slot : Slot, space : Slot, page : Page, num : Int]
  /\ memoria \subseteq [space : Slot, page : Page, num : Nat, task : Slot \cup {Gone},
                       tam : Int, next : Int, prev : Int]
  /\ head \in [Slot -> Int]
  /\ has_threads \subseteq Slot
  /\ cr3 \in spaces \cup {0}
  /\ stale \subseteq Page \X Frame
  /\ sealed \subseteq Entry
  /\ trusted \subseteq Tasks
  /\ clobbered \subseteq spaces
  /\ lost \subseteq Frame
  /\ halted \in {"no", "fault", "overrun", "astray", "overwritten"}

\* Entries of processes for data, stacks and regions.
Private ==
  {e \in Entry : /\ e \div TOTAL_PAGES \in spaces
                 /\ e % TOTAL_PAGES >= PAG_LOG_INIT_DATA
                 /\ pagusr_table[e] # NotPresent}

CodeFrames == {NUM_PAG_KERNEL + FRAME_STEP * i : i \in 0 .. NUM_PAG_CODE - 1}

(* Memory protection: as long as the kernel runs, a private page of a process
   has a user frame of its own, one that no other page of any process maps
   and that is not marked free, however slots and frames are reused. *)
FramesExclusive ==
  Running => \A d \in Private :
    /\ pagusr_table[d] >= NUM_PAG_KERNEL
    /\ pagusr_table[d] \notin free \cup CodeFrames
    /\ \A e \in Private : pagusr_table[d] = pagusr_table[e] => d = e

\* Page 0 and the guard pages of process s are not mapped, and boot's bits are kept.
AsAtBoot(s) ==
  /\ \A p \in GuardPages \cup {0} : pagusr_table[at(s, p)] = NotPresent
  /\ low(s) \subseteq sealed \cup {at(s, p) : p \in GuardPages \cup {0}}

\* They are mapped, and the user may write all kernel and code pages.
AsForked(s) ==
  /\ \A p \in GuardPages \cup {0} : pagusr_table[at(s, p)] = p
  /\ low(s) \cap sealed = {}

(* set_cr3 must never take the ground from under the kernel: every process maps
   every kernel and code page to the frame it was loaded to, over generations
   of forks.  But only the table filled at boot also protects them: a forked
   process has the guard pages of the task array and page 0 mapped, and the
   user bit and rw set on kernel and code, one or the other for all pages. *)
KernelAndCodeMapped ==
  Running => \A s \in spaces :
    /\ \A p \in (1 .. NUM_PAG_KERNEL - 1) \ GuardPages : pagusr_table[at(s, p)] = p
    /\ \A i \in 0 .. NUM_PAG_CODE - 1 :
         pagusr_table[at(s, PAG_LOG_INIT_CODE + i)] = NUM_PAG_KERNEL + FRAME_STEP * i
    /\ AsAtBoot(s) \/ AsForked(s)

(* A stack or region stays mapped, and apart from all others of its process,
   from the call that returns it to the one that gives it back, unless a fork
   of the process has copied through pages that were mapped. *)
AreasKept ==
  LET Areas == {<<r.space, r.page, r.num>> : r \in memoria} \cup
               {<<k.space, k.page, k.num>> : k \in stacks}
      Safe == {x \in Areas : x[1] \notin clobbered}
      pages(x) == {at(x[1], x[2] + i) : i \in 0 .. x[3] - 1}
  IN  Running => /\ \A x \in Safe : pages(x) \subseteq Private
                 /\ \A x, y \in Safe : x # y => pages(x) \cap pages(y) = {}

(* A frame in use is accounted for: it holds code, or a process maps it, or it
   was part of a region of a process that has exited, which sys_exit leaves
   mapped in the table of the slot, or a fork has unmapped it from its parent.
   Cancelled calls, ended threads and the data pages of ended processes lose
   none. *)
NoFrameLost ==
  Running => \A f \in Frame : f >= NUM_PAG_KERNEL =>
    \/ f \in free \cup CodeFrames
    \/ \E e \in Private : pagusr_table[e] = f
    \/ \E s \in Slot \ spaces, p \in FirstPage .. TOTAL_PAGES - 1 :
         pagusr_table[at(s, p)] = f
    \/ f \in lost

(* A fork that fails late clears entries of the table after the child's: the
   kernel and code pages of whoever has that table, perhaps the caller.  It
   still takes no data page, stack or region from anybody. *)
FailedForkKeepsData ==
  [][halted' = "overrun" => \A e \in Private : /\ pagusr_table'[e] = pagusr_table[e]
                                               /\ pagusr_table[e] \notin free']_vars

(* A thread that ends leaves translations of its stack in the TLB, and a
   switch to a task of the same process keeps them.  They never lead to a
   frame that another process uses.  A fork gives frames to the child before
   it loads CR3: its own stores may go astray, and then the kernel is followed
   no further; otherwise the TLB is empty when it returns. *)
StaleStaysHome ==
  Running => \A x \in stale :
    \/ x[2] \in free
    \/ \E p \in Page : pagusr_table[at(cr3, p)] = x[2]

\* The regions of task t, from the first to the last, as its list has them.
ListedBackwards(t) ==
  LET mine == {r \in memoria : r.task = t}
      n == Cardinality(mine)
  IN  \E f \in [1 .. n -> mine] :
        /\ \A r \in mine : \E i \in 1 .. n : f[i] = r
        /\ head[t] = IF n = 0 THEN HeadOf(t) ELSE f[n].page
        /\ \A i \in 1 .. n : f[i].prev = IF i = 1 THEN HeadOf(t) ELSE f[i - 1].page

(* sys_fork copies the head of the caller's list, so a child's list ends in
   its parent's, whose nodes it does not map.  The first process and its
   threads, whose heads are initialised, still find their own regions in
   order, whatever the others do with their lists. *)
OwnRegionsListed == Running => \A t \in trusted : ListedBackwards(t)
-----------------------------------------------------------------------------
(* What a comment in the source says, and the code does not always do. *)

(* A fork leaves the page table of the parent as it was.  sys.c:124 says that
   it copies through "temporal free virtual addresses". *)
ForkKeepsParent ==
  [][\A t \in Tasks, c \in FreeSlots : fork(t, c) \/ fork_clobbers(t, c) =>
       \A p \in Page : pagusr_table'[at(cr3, p)] = pagusr_table[at(cr3, p)]]_vars
=============================================================================
