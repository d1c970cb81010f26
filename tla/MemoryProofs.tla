---------------------------- MODULE MemoryProofs -----------------------------
(***************************************************************************)
(* Memory protection and the accounting of frames, for every size of the   *)
(* tables and every number of processes.                                   *)
(*                                                                         *)
(* The inductive invariant speaks of entry at(s, p), page p of slot s, for *)
(* every slot of the task table and not only for those of processes: the   *)
(* regions that sys_exit leaves mapped become private pages of the next    *)
(* process in the slot.  It says nothing of a kernel that has stopped.     *)
(*                                                                         *)
(* The lists of regions come last: first over the pages of one process and *)
(* the fields of their nodes, then over sets of nodes, then call by call.  *)
(***************************************************************************)
EXTENDS Memory, FiniteSetTheorems, TLAPS

DataPage == PAG_LOG_INIT_DATA .. TOTAL_PAGES - 1
UserPage == FirstPage .. TOTAL_PAGES - 1

\* The page tables PT, with the frames F marked free and the processes S.
Typed(PT, F, S) ==
  /\ PT \in [Entry -> Frame \cup {NotPresent}]
  /\ F \subseteq Frame /\ F \cap CodeFrames = {}
  /\ S \subseteq Slot \ {0}

(* A data page, stack or region has a user frame of its own, whether or not
   its slot still has a process. *)
Exclusive(PT, F) ==
  \A s \in Slot, p \in DataPage : PT[at(s, p)] # NotPresent =>
    /\ PT[at(s, p)] >= NUM_PAG_KERNEL
    /\ PT[at(s, p)] \notin F
    /\ PT[at(s, p)] \notin CodeFrames
    /\ \A u \in Slot, q \in DataPage : PT[at(s, p)] = PT[at(u, q)] => s = u /\ p = q

\* The pages below lead to no frame that can be allocated.
LowPages(PT) ==
  \A s \in Slot, p \in 0 .. PAG_LOG_INIT_DATA - 1 :
    \/ PT[at(s, p)] = NotPresent
    \/ PT[at(s, p)] < NUM_PAG_KERNEL
    \/ PT[at(s, p)] \in CodeFrames

\* A guard page that is not mapped counts with the frame that get_frame reads.
KernelAndCode(PT, S) ==
  \A s \in S :
    /\ \A p \in 1 .. NUM_PAG_KERNEL - 1 : get_frame(PT, at(s, p)) = p
    /\ \A i \in 0 .. NUM_PAG_CODE - 1 :
         PT[at(s, PAG_LOG_INIT_CODE + i)] = NUM_PAG_KERNEL + FRAME_STEP * i

\* sys_exit clears the data pages.
NoData(PT, S) ==
  \A s \in Slot \ S, p \in PAG_LOG_INIT_DATA .. FirstPage - 1 : PT[at(s, p)] = NotPresent

Accounted(PT, F, L) ==
  \A f \in Frame : f >= NUM_PAG_KERNEL =>
    \/ f \in F
    \/ f \in CodeFrames
    \/ \E s \in Slot, p \in DataPage : PT[at(s, p)] = f
    \/ f \in L

Tables(PT, F, S, L) ==
  /\ Typed(PT, F, S)
  /\ Exclusive(PT, F)
  /\ LowPages(PT)
  /\ KernelAndCode(PT, S)
  /\ NoData(PT, S)
  /\ Accounted(PT, F, L)

\* Page q of slot s is part of the stack or region x.
Holds(x, s, q) == x.space = s /\ x.page <= q /\ q < x.page + x.num

(* The stacks K of threads and the regions R, in the tables PT of the
   processes S, those in H with threads. *)
StacksFit(K, S, H) ==
  /\ H \subseteq S
  /\ K \subseteq [slot : Slot, space : H, page : UserPage, num : Int]
  /\ \A k \in K : k.page + k.num < TOTAL_PAGES

(* What memRegDel gives back is what memRegGet took; only the node that
   memRegGet(INT_MAX) writes has another size, a negative one. *)
RegionsFit(R, S) ==
  /\ R \subseteq [space : S, page : UserPage, num : Nat, task : Int,
                 tam : Int, next : Int, prev : Int]
  /\ \A r \in R : r.page + r.num < TOTAL_PAGES /\ (r.tam = r.num \/ r.tam < 0)

Kept(PT, X, B) ==
  \A x \in X, s \in Slot \ B, q \in UserPage : Holds(x, s, q) => PT[at(s, q)] # NotPresent

Apart(X, Y, B) ==
  \A x \in X, y \in Y, s \in Slot \ B, q \in UserPage : Holds(x, s, q) => ~ Holds(y, s, q)

ApartInside(X, B) ==
  \A x, y \in X, s \in Slot \ B, q \in UserPage : Holds(x, s, q) /\ Holds(y, s, q) => x = y

Areas(PT, K, R, B) ==
  /\ Kept(PT, K, B) /\ Kept(PT, R, B)
  /\ Apart(K, R, B) /\ ApartInside(K, B) /\ ApartInside(R, B)

\* A frame the TLB still knows is free or a page of the table in use has it.
AtHome(PT, F, s, X) ==
  \A x \in X : x[2] \in F \/ \E p \in Page : PT[at(s, p)] = x[2]

MemOK ==
  /\ Tables(pagusr_table, free, spaces, lost)
  /\ StacksFit(stacks, spaces, has_threads)
  /\ RegionsFit(memoria, spaces)
  /\ Areas(pagusr_table, stacks, memoria, clobbered)
  /\ cr3 \in spaces \cup {0}
  /\ head \in [Slot -> Int]
  /\ stale \subseteq Page \X Frame
  /\ AtHome(pagusr_table, free, cr3, stale)

MemInv == Running => MemOK
-----------------------------------------------------------------------------
\* The sizes of the tables, as the proofs use them.
LEMMA Sizes ==
  /\ NR_TASKS \in Nat /\ NR_TASKS >= 2
  /\ TOTAL_PAGES \in Nat \ {0}
  /\ NUM_PAG_KERNEL \in Nat /\ NUM_PAG_KERNEL > 0
  /\ NUM_PAG_CODE \in Nat /\ NUM_PAG_CODE > 0
  /\ NUM_PAG_DATA \in Nat /\ NUM_PAG_DATA > 0
  /\ PAG_LOG_INIT_CODE = NUM_PAG_KERNEL
  /\ PAG_LOG_INIT_DATA \in Nat /\ PAG_LOG_INIT_DATA = NUM_PAG_KERNEL + NUM_PAG_CODE
  /\ FirstPage \in Nat /\ FirstPage = PAG_LOG_INIT_DATA + NUM_PAG_DATA
  /\ FirstPage < TOTAL_PAGES
  BY MemoryAssumption DEF PAG_LOG_INIT_CODE, PAG_LOG_INIT_DATA, FirstPage

\* Rows of the page tables do not overlap.
LEMMA Rows ==
  ASSUME NEW T \in Nat, NEW a \in Int, NEW b \in Int, a < b
  PROVE  a * T + T <= b * T
<1>1. (b - a - 1) \in Nat /\ b = a + 1 + (b - a - 1)
  OBVIOUS
<1>2. ASSUME NEW d \in Nat PROVE d * T >= 0
  OBVIOUS
<1>3. (b - a - 1) * T >= 0
  BY <1>1, <1>2
<1>4. (b - a - 1) * T = b * T - a * T - T
  OBVIOUS
<1>5. a * T \in Int /\ b * T \in Int
  OBVIOUS
<1> QED
  BY <1>3, <1>4, <1>5

LEMMA DivMod ==
  ASSUME NEW T \in Nat \ {0}, NEW s \in Nat, NEW p \in 0 .. T - 1
  PROVE  (s * T + p) \div T = s /\ (s * T + p) % T = p
  OBVIOUS

LEMMA ModDiv ==
  ASSUME NEW T \in Nat \ {0}, NEW e \in Nat
  PROVE  e \div T \in Nat /\ e % T \in 0 .. T - 1 /\ e = (e \div T) * T + (e % T)
  OBVIOUS

\* A page of a slot is an entry of the one array the tables are.
LEMMA AtEntry ==
  ASSUME NEW s \in Slot, NEW p \in Page
  PROVE  at(s, p) \in Entry
<1>1. s * TOTAL_PAGES + TOTAL_PAGES <= NR_TASKS * TOTAL_PAGES
  BY Sizes, Rows DEF Slot
<1>2. s * TOTAL_PAGES \in Nat /\ NR_TASKS * TOTAL_PAGES \in Nat
  BY Sizes DEF Slot
<1> HIDE DEF at
<1> QED
  BY <1>1, <1>2, Sizes DEF Page, Entry, at

(* Page q of slot u, seen from page p of slot s: n entries that start there
   and end before the row does are n pages of slot s. *)
LEMMA AtRow ==
  ASSUME NEW s \in Slot, NEW u \in Slot, NEW p \in Page, NEW q \in Page,
         NEW n \in Int, p + n <= TOTAL_PAGES
  PROVE  /\ at(u, q) - at(s, p) \in Int
         /\ at(u, q) - at(s, p) \in 0 .. n - 1 <=> u = s /\ p <= q /\ q < p + n
         /\ at(s, p) <= at(u, q) /\ at(u, q) < at(s, p) + n
              <=> u = s /\ p <= q /\ q < p + n
         /\ u = s => at(u, q) - at(s, p) = q - p
<1>1. s * TOTAL_PAGES \in Int /\ u * TOTAL_PAGES \in Int
  BY Sizes DEF Slot
<1>2. s < u => s * TOTAL_PAGES + TOTAL_PAGES <= u * TOTAL_PAGES
  BY Sizes, Rows DEF Slot
<1>3. u < s => u * TOTAL_PAGES + TOTAL_PAGES <= s * TOTAL_PAGES
  BY Sizes, Rows DEF Slot
<1>4. s \in Int /\ u \in Int /\ p \in Int /\ q \in Int /\ 0 <= p /\ 0 <= q /\ q < TOTAL_PAGES
  BY Sizes DEF Slot, Page
<1>5. CASE u = s
  BY <1>5, <1>1, <1>4, Sizes DEF at
<1>6. CASE u < s
  <2> DEFINE x == u * TOTAL_PAGES
             y == s * TOTAL_PAGES
  <2>1. x \in Int /\ y \in Int /\ x + TOTAL_PAGES <= y
    BY <1>1, <1>3, <1>6
  <2> HIDE DEF x, y
  <2>2. (x + q) - (y + p) < 0
    BY <2>1, <1>4, Sizes
  <2>3. at(u, q) = x + q /\ at(s, p) = y + p
    BY DEF at, x, y
  <2> QED
    BY <2>1, <2>2, <2>3, <1>4, <1>6, Sizes
<1>7. CASE s < u
  <2> DEFINE x == u * TOTAL_PAGES
             y == s * TOTAL_PAGES
  <2>1. x \in Int /\ y \in Int /\ y + TOTAL_PAGES <= x
    BY <1>1, <1>2, <1>7
  <2> HIDE DEF x, y
  <2>2. (x + q) - (y + p) >= n
    BY <2>1, <1>4, Sizes
  <2>3. at(u, q) = x + q /\ at(s, p) = y + p
    BY DEF at, x, y
  <2> QED
    BY <2>1, <2>2, <2>3, <1>4, <1>7, Sizes
<1> QED
  BY <1>4, <1>5, <1>6, <1>7

\* Every entry is a page of a slot.
LEMMA EntryAt ==
  ASSUME NEW e \in Entry
  PROVE  /\ e \div TOTAL_PAGES \in Slot /\ e % TOTAL_PAGES \in Page
         /\ e = at(e \div TOTAL_PAGES, e % TOTAL_PAGES)
<1>1. e \in Nat /\ e < NR_TASKS * TOTAL_PAGES
  BY Sizes DEF Entry
<1>2. /\ e \div TOTAL_PAGES \in Nat /\ e % TOTAL_PAGES \in Page
      /\ e = at(e \div TOTAL_PAGES, e % TOTAL_PAGES)
  BY <1>1, Sizes, ModDiv DEF Page, at
<1>3. e \div TOTAL_PAGES < NR_TASKS
  <2> SUFFICES ASSUME e \div TOTAL_PAGES >= NR_TASKS PROVE FALSE
    BY <1>2, Sizes
  <2> DEFINE d == e \div TOTAL_PAGES
  <2>1. d \in Nat /\ (d = NR_TASKS \/ NR_TASKS < d)
    BY <1>2, Sizes
  <2> HIDE DEF d
  <2>2. d * TOTAL_PAGES >= NR_TASKS * TOTAL_PAGES
    BY <2>1, Sizes, Rows
  <2>3. e = d * TOTAL_PAGES + (e % TOTAL_PAGES) /\ e % TOTAL_PAGES >= 0
    BY <1>2, Sizes DEF d, at, Page
  <2>4. d * TOTAL_PAGES \in Int /\ NR_TASKS * TOTAL_PAGES \in Int /\ e % TOTAL_PAGES \in Int
    BY <2>1, <1>2, Sizes DEF Page
  <2> QED
    BY <2>2, <2>3, <2>4, <1>1
<1> QED
  BY <1>2, <1>3, Sizes DEF Slot

LEMMA AtDivMod ==
  ASSUME NEW s \in Slot, NEW p \in Page
  PROVE  at(s, p) \div TOTAL_PAGES = s /\ at(s, p) % TOTAL_PAGES = p
  BY DivMod, Sizes DEF Slot, Page, at

LEMMA AtInjective ==
  ASSUME NEW s \in Slot, NEW p \in Page, NEW u \in Slot, NEW q \in Page, at(s, p) = at(u, q)
  PROVE  s = u /\ p = q
  BY AtDivMod

(* n pages of slot s from page p on, all in the table of s; whether page q of
   slot u is one of them; the frames for them. *)
Span(s, p, n) == s \in Slot /\ p \in Page /\ n \in Int /\ p + n <= TOTAL_PAGES
In(u, q, s, p, n) == u = s /\ p <= q /\ q < p + n
Long(a, n) == DOMAIN a = 0 .. n - 1

\* PT2 is PT with these pages set to the frames a, or cleared.
WithSet(PT2, PT, s, p, n, a) ==
  \A u \in Slot, q \in Page :
    /\ In(u, q, s, p, n) => PT2[at(u, q)] = a[q - p]
    /\ ~ In(u, q, s, p, n) => PT2[at(u, q)] = PT[at(u, q)]
WithCleared(PT2, PT, s, p, n) ==
  \A u \in Slot, q \in Page :
    /\ In(u, q, s, p, n) => PT2[at(u, q)] = NotPresent
    /\ ~ In(u, q, s, p, n) => PT2[at(u, q)] = PT[at(u, q)]

\* What set_ss_pag does to n pages of slot s.
LEMMA SetPages ==
  ASSUME NEW PT, NEW s, NEW p, NEW n, Span(s, p, n), NEW a, Long(a, n)
  PROVE  WithSet(set_ss_pags(PT, at(s, p), a), PT, s, p, n, a)
<1> SUFFICES ASSUME NEW u \in Slot, NEW q \in Page
    PROVE  /\ In(u, q, s, p, n) => set_ss_pags(PT, at(s, p), a)[at(u, q)] = a[q - p]
           /\ ~ In(u, q, s, p, n) => set_ss_pags(PT, at(s, p), a)[at(u, q)] = PT[at(u, q)]
  BY DEF WithSet
<1>1. at(u, q) \in Entry
  BY AtEntry
<1>2. set_ss_pags(PT, at(s, p), a)[at(u, q)] =
        IF at(u, q) - at(s, p) \in 0 .. n - 1 THEN a[at(u, q) - at(s, p)] ELSE PT[at(u, q)]
  BY <1>1 DEF set_ss_pags, Long
<1>3. /\ at(u, q) - at(s, p) \in 0 .. n - 1 <=> u = s /\ p <= q /\ q < p + n
      /\ u = s => at(u, q) - at(s, p) = q - p
  BY AtRow DEF Span
<1> QED
  BY <1>2, <1>3, Zenon DEF In

\* What del_ss_pag does to n pages of slot s.
LEMMA DelPages ==
  ASSUME NEW PT, NEW s, NEW p, NEW n, Span(s, p, n)
  PROVE  WithCleared(del_ss_pags(PT, at(s, p), n), PT, s, p, n)
<1> SUFFICES ASSUME NEW u \in Slot, NEW q \in Page
    PROVE  /\ In(u, q, s, p, n) => del_ss_pags(PT, at(s, p), n)[at(u, q)] = NotPresent
           /\ ~ In(u, q, s, p, n) => del_ss_pags(PT, at(s, p), n)[at(u, q)] = PT[at(u, q)]
  BY DEF WithCleared
<1>1. at(u, q) \in Entry
  BY AtEntry
<1>2. del_ss_pags(PT, at(s, p), n)[at(u, q)] =
        IF at(s, p) <= at(u, q) /\ at(u, q) < at(s, p) + n THEN NotPresent ELSE PT[at(u, q)]
  BY <1>1 DEF del_ss_pags
<1>3. at(s, p) <= at(u, q) /\ at(u, q) < at(s, p) + n <=> u = s /\ p <= q /\ q < p + n
  BY AtRow DEF Span
<1> QED
  BY <1>2, <1>3, Zenon DEF In

\* The frames that get_frame reads from n pages of slot s.
LEMMA FramesAt ==
  ASSUME NEW PT, NEW s, NEW p, NEW n, Span(s, p, n), NEW f
  PROVE  f \in frames_at(PT, at(s, p), n) <=>
           \E q \in Page : In(s, q, s, p, n) /\ f = get_frame(PT, at(s, q))
<1>1. ASSUME NEW q \in Page, In(s, q, s, p, n)
      PROVE  at(s, q) \in Entry /\ at(s, p) <= at(s, q) /\ at(s, q) < at(s, p) + n
  BY <1>1, AtEntry, AtRow DEF In, Span
<1>2. ASSUME NEW e \in Entry, at(s, p) <= e, e < at(s, p) + n
      PROVE  \E q \in Page : In(s, q, s, p, n) /\ e = at(s, q)
  <2>1. /\ e \div TOTAL_PAGES \in Slot /\ e % TOTAL_PAGES \in Page
        /\ e = at(e \div TOTAL_PAGES, e % TOTAL_PAGES)
    BY <1>2, EntryAt
  <2>2. PICK u \in Slot, q \in Page : e = at(u, q)
    BY <2>1
  <2>3. u = s /\ p <= q /\ q < p + n
    BY <2>2, <1>2, AtRow DEF Span
  <2> QED
    BY <2>2, <2>3 DEF In
<1> QED
  BY <1>1, <1>2, Zenon DEF frames_at
-----------------------------------------------------------------------------
LEMMA Pages ==
  /\ DataPage \subseteq Page /\ UserPage \subseteq DataPage /\ UserPage \subseteq Page
  /\ 0 .. PAG_LOG_INIT_DATA - 1 \subseteq Page
  /\ PAG_LOG_INIT_DATA .. FirstPage - 1 \subseteq DataPage
  /\ \A q \in Page : q \in Int /\ q >= 0 /\ q < TOTAL_PAGES
  /\ \A q \in DataPage : q \in Int /\ q >= PAG_LOG_INIT_DATA /\ q < TOTAL_PAGES
  /\ \A q \in UserPage : q \in Int /\ q >= FirstPage /\ q < TOTAL_PAGES
  /\ \A q \in Page : q \in DataPage \/ q \in 0 .. PAG_LOG_INIT_DATA - 1
  BY Sizes DEF DataPage, UserPage, Page

\* n different user frames of F.
Fresh(a, n, F) ==
  /\ a \in [0 .. n - 1 -> F]
  /\ \A i \in 0 .. n - 1 : a[i] >= NUM_PAG_KERNEL
  /\ \A i, j \in 0 .. n - 1 : a[i] = a[j] => i = j

\* n pages of slot s that are not present.
Absent(PT, s, p, n) ==
  \A q \in Page : In(s, q, s, p, n) => PT[at(s, q)] = NotPresent

\* Kernel and code stay mapped as long as nothing below the data pages changes.
LEMMA LowPagesKept ==
  ASSUME NEW PT, NEW S, KernelAndCode(PT, S), NEW PT2,
         \A u \in S, q \in 0 .. PAG_LOG_INIT_DATA - 1 : PT2[at(u, q)] = PT[at(u, q)]
  PROVE  KernelAndCode(PT2, S)
<1> SUFFICES ASSUME NEW u \in S
             PROVE  /\ \A q \in 1 .. NUM_PAG_KERNEL - 1 : get_frame(PT2, at(u, q)) = q
                    /\ \A i \in 0 .. NUM_PAG_CODE - 1 :
                         PT2[at(u, PAG_LOG_INIT_CODE + i)] = NUM_PAG_KERNEL + FRAME_STEP * i
  BY DEF KernelAndCode
<1>1. ASSUME NEW q \in 1 .. NUM_PAG_KERNEL - 1 PROVE get_frame(PT2, at(u, q)) = q
  <2>1. q \in 0 .. PAG_LOG_INIT_DATA - 1
    BY Sizes
  <2>2. PT2[at(u, q)] = PT[at(u, q)]
    BY <2>1
  <2>3. get_frame(PT, at(u, q)) = q
    BY DEF KernelAndCode
  <2> QED
    BY <2>2, <2>3 DEF get_frame
<1>2. ASSUME NEW i \in 0 .. NUM_PAG_CODE - 1
      PROVE  PT2[at(u, PAG_LOG_INIT_CODE + i)] = NUM_PAG_KERNEL + FRAME_STEP * i
  <2>1. PICK q \in 0 .. PAG_LOG_INIT_DATA - 1 : q = PAG_LOG_INIT_CODE + i
    BY Sizes
  <2> QED
    BY <2>1 DEF KernelAndCode
<1> QED
  BY <1>1, <1>2

\* Free frames a are mapped to n pages of slot s that were not present.
LEMMA MapPages ==
  ASSUME NEW PT, NEW F, NEW S, NEW L, Tables(PT, F, S, L),
         NEW s, NEW p, NEW n, Span(s, p, n), s # 0, p \in DataPage,
         Absent(PT, s, p, n), NEW a, Fresh(a, n, F),
         NEW PT2, PT2 = set_ss_pags(PT, at(s, p), a)
  PROVE  /\ Typed(PT2, F \ Range(a), S) /\ Exclusive(PT2, F \ Range(a)) /\ LowPages(PT2)
         /\ KernelAndCode(PT2, S) /\ NoData(PT2, S \cup {s})
         /\ Accounted(PT2, F \ Range(a), L)
<1> DEFINE new(u, q) == In(u, q, s, p, n)
           F2 == F \ Range(a)
<1>0. /\ a \in [0 .. n - 1 -> F] /\ Long(a, n) /\ n \in Int /\ s \in Slot
      /\ \A i \in 0 .. n - 1 : a[i] >= NUM_PAG_KERNEL
      /\ \A i, j \in 0 .. n - 1 : a[i] = a[j] => i = j
  BY DEF Fresh, Long, Span
<1>1. \A u \in Slot, q \in Page :
        /\ new(u, q) => PT2[at(u, q)] = a[q - p]
        /\ ~ new(u, q) => PT2[at(u, q)] = PT[at(u, q)]
  <2>1. WithSet(PT2, PT, s, p, n, a)
    BY <1>0, SetPages
  <2> QED
    BY <2>1 DEF WithSet
<1>2. /\ PT \in [Entry -> Frame \cup {NotPresent}] /\ F \subseteq Frame
      /\ F \cap CodeFrames = {} /\ S \subseteq Slot \ {0}
  BY DEF Tables, Typed
<1>3. \A i \in 0 .. n - 1 : /\ a[i] \in F /\ a[i] \in Range(a) /\ a[i] # NotPresent
                            /\ a[i] \notin CodeFrames /\ a[i] \notin F2
  <2>1. \A i \in 0 .. n - 1 : a[i] \in F /\ a[i] \in Range(a)
    BY <1>0 DEF Range
  <2>2. NotPresent \notin Frame
    BY DEF NotPresent, Frame
  <2> QED
    BY <2>1, <2>2, <1>2
<1>4. \A u \in Slot, q \in Page : new(u, q) =>
        /\ q - p \in 0 .. n - 1 /\ PT[at(u, q)] = NotPresent
        /\ PT2[at(u, q)] = a[q - p]
  <2>1. \A u \in Slot, q \in Page : new(u, q) => q - p \in 0 .. n - 1 /\ u = s
    BY <1>0, Pages DEF In
  <2> QED
    BY <2>1, <1>1 DEF Absent
<1>5. \A u \in Slot, q \in Page : ~ new(u, q) => PT2[at(u, q)] = PT[at(u, q)]
  BY <1>1
<1>6. \A u \in Slot, q \in Page : new(u, q) => q \in DataPage /\ u = s
  BY <1>0, Pages, Sizes DEF DataPage, In
<1>7. F2 \subseteq F
  OBVIOUS
<1>8. \A q, r \in Page : q - p = r - p => q = r
  BY Pages
<1> HIDE DEF new, F2
<1>9. Typed(PT2, F2, S)
  <2>1. ASSUME NEW e \in Entry
        PROVE  set_ss_pags(PT, at(s, p), a)[e] \in Frame \cup {NotPresent}
    <3>1. CASE e - at(s, p) \in DOMAIN a
      BY <3>1, <1>0, <1>2, <1>3 DEF set_ss_pags
    <3>2. CASE e - at(s, p) \notin DOMAIN a
      BY <3>2, <1>2 DEF set_ss_pags
    <3> QED
      BY <3>1, <3>2
  <2>2. PT2 \in [Entry -> Frame \cup {NotPresent}]
    BY <2>1 DEF set_ss_pags
  <2> QED
    BY <2>2, <1>2, <1>7 DEF Typed
<1>10. Exclusive(PT2, F2)
  <2>1. Exclusive(PT, F)
    BY DEF Tables
  <2> SUFFICES ASSUME NEW u \in Slot, NEW q \in DataPage, PT2[at(u, q)] # NotPresent
               PROVE  /\ PT2[at(u, q)] >= NUM_PAG_KERNEL
                      /\ PT2[at(u, q)] \notin F2
                      /\ PT2[at(u, q)] \notin CodeFrames
                      /\ \A v \in Slot, r \in DataPage :
                           PT2[at(u, q)] = PT2[at(v, r)] => u = v /\ q = r
    BY DEF Exclusive
  <2>2. q \in Page
    BY Pages
  <2>3. \A v \in Slot, r \in DataPage : PT[at(v, r)] # NotPresent =>
          PT[at(v, r)] \notin F
    BY <2>1 DEF Exclusive
  <2>4. CASE new(u, q)
    <3>1. PT2[at(u, q)] = a[q - p] /\ q - p \in 0 .. n - 1
      BY <2>2, <2>4, <1>4
    <3>2. ASSUME NEW v \in Slot, NEW r \in DataPage, PT2[at(u, q)] = PT2[at(v, r)]
          PROVE  u = v /\ q = r
      <4>1. r \in Page
        BY Pages
      <4>2. CASE new(v, r)
        <5>1. PT2[at(v, r)] = a[r - p] /\ r - p \in 0 .. n - 1
          BY <4>1, <4>2, <1>4
        <5>2. q - p = r - p
          BY <5>1, <3>1, <3>2, <1>0
        <5>3. q = r
          BY <5>2, <1>8, <2>2, <4>1
        <5> QED
          BY <5>3, <2>2, <4>1, <2>4, <4>2, <1>6
      <4>3. CASE ~ new(v, r)
        <5>1. PT2[at(v, r)] = PT[at(v, r)]
          BY <4>1, <4>3, <1>5
        <5> QED
          BY <5>1, <3>1, <3>2, <1>3, <2>3
      <4> QED
        BY <4>2, <4>3
    <3> QED
      BY <3>1, <3>2, <1>0, <1>3
  <2>5. CASE ~ new(u, q)
    <3>1. PT2[at(u, q)] = PT[at(u, q)]
      BY <2>2, <2>5, <1>5
    <3>2. /\ PT[at(u, q)] >= NUM_PAG_KERNEL
          /\ PT[at(u, q)] \notin F
          /\ PT[at(u, q)] \notin CodeFrames
          /\ \A v \in Slot, r \in DataPage :
               PT[at(u, q)] = PT[at(v, r)] => u = v /\ q = r
      BY <3>1, <2>1 DEF Exclusive
    <3>3. ASSUME NEW v \in Slot, NEW r \in DataPage, PT2[at(u, q)] = PT2[at(v, r)]
          PROVE  u = v /\ q = r
      <4>1. r \in Page
        BY Pages
      <4>2. ~ new(v, r)
        BY <4>1, <3>1, <3>2, <3>3, <1>3, <1>4
      <4> QED
        BY <4>1, <4>2, <3>1, <3>2, <3>3, <1>5
    <3> QED
      BY <3>1, <3>2, <3>3, <1>7
  <2> QED
    BY <2>4, <2>5
<1>11. LowPages(PT2)
  <2>1. ASSUME NEW u \in Slot, NEW q \in 0 .. PAG_LOG_INIT_DATA - 1
        PROVE  q \in Page /\ ~ new(u, q)
    BY <1>6, Pages, Sizes DEF DataPage
  <2> QED
    BY <2>1, <1>5 DEF LowPages, Tables
<1>12. KernelAndCode(PT2, S)
  <2>1. \A u \in S, q \in 0 .. PAG_LOG_INIT_DATA - 1 : PT2[at(u, q)] = PT[at(u, q)]
    BY <1>2, <1>5, <1>6, Pages, Sizes DEF DataPage
  <2>2. KernelAndCode(PT, S)
    BY DEF Tables
  <2> QED
    BY <2>1, <2>2, LowPagesKept
<1>13. NoData(PT2, S \cup {s})
  <2> SUFFICES ASSUME NEW u \in Slot \ (S \cup {s}),
                      NEW q \in PAG_LOG_INIT_DATA .. FirstPage - 1
               PROVE  PT2[at(u, q)] = NotPresent
    BY DEF NoData
  <2>1. q \in Page /\ ~ new(u, q)
    BY <1>6, Pages
  <2>2. PT[at(u, q)] = NotPresent
    BY DEF Tables, NoData
  <2> QED
    BY <2>1, <2>2, <1>5
<1>14. Accounted(PT2, F2, L)
  <2> SUFFICES ASSUME NEW f \in Frame, f >= NUM_PAG_KERNEL,
                      f \notin F2, f \notin CodeFrames, f \notin L
               PROVE  \E u \in Slot, q \in DataPage : PT2[at(u, q)] = f
    BY DEF Accounted
  <2>1. CASE f \in F
    <3>1. PICK i \in 0 .. n - 1 : a[i] = f
      BY <1>0, <2>1 DEF Range, F2
    <3>2. p + i \in Page /\ new(s, p + i) /\ (p + i) - p = i
      BY <1>0, Pages, Sizes DEF new, In, Span, Page
    <3>3. p + i \in DataPage /\ PT2[at(s, p + i)] = f
      BY <3>1, <3>2, <1>0, <1>4, <1>6
    <3> QED
      BY <3>3, <1>0
  <2>2. CASE f \notin F
    <3>1. PICK u \in Slot, q \in DataPage : PT[at(u, q)] = f
      BY <2>2 DEF Accounted, Tables
    <3>2. f # NotPresent /\ q \in Page
      BY Pages DEF Frame, NotPresent
    <3>3. ~ new(u, q)
      BY <3>1, <3>2, <1>4
    <3> QED
      BY <3>1, <3>2, <3>3, <1>5
  <2> QED
    BY <2>1, <2>2
<1> QED
  BY <1>9, <1>10, <1>11, <1>12, <1>13, <1>14 DEF F2

\* What free_frame is given for a mapped data page, stack or region.
LEMMA FreedFrames ==
  ASSUME NEW PT, NEW F, NEW S, NEW L, Tables(PT, F, S, L),
         NEW s, NEW p, NEW n, Span(s, p, n), p \in DataPage,
         NEW F2, F2 = free_frames(F, frames_at(PT, at(s, p), n))
  PROVE  /\ F \subseteq F2
         /\ \A q \in Page : In(s, q, s, p, n) /\ PT[at(s, q)] # NotPresent
                              => PT[at(s, q)] \in F2
         /\ \A f \in F2 : f \in F \/ \E q \in Page : /\ In(s, q, s, p, n)
                                                     /\ PT[at(s, q)] # NotPresent
                                                     /\ f = PT[at(s, q)]
<1>1. n \in Int /\ s \in Slot
  BY DEF Span
<1>2. \A f : f \in frames_at(PT, at(s, p), n) <=>
        \E q \in Page : In(s, q, s, p, n) /\ f = get_frame(PT, at(s, q))
  BY FramesAt
<1>3. NUM_PAG_KERNEL \in CodeFrames
  <2>1. 0 \in 0 .. NUM_PAG_CODE - 1 /\ NUM_PAG_KERNEL + FRAME_STEP * 0 = NUM_PAG_KERNEL
    BY MemoryAssumption
  <2> QED
    BY <2>1 DEF CodeFrames
<1>4. ASSUME NEW q \in Page, In(s, q, s, p, n), PT[at(s, q)] # NotPresent
      PROVE  PT[at(s, q)] \in F2
  <2>1. q \in DataPage
    BY <1>1, <1>4, Pages, Sizes DEF DataPage, In
  <2>2. PT[at(s, q)] >= NUM_PAG_KERNEL /\ PT[at(s, q)] \notin CodeFrames
    BY <1>1, <2>1, <1>4 DEF Tables, Exclusive
  <2>3. PT[at(s, q)] \in Frame
    BY <1>1, <1>4, AtEntry DEF Tables, Typed
  <2>4. PT[at(s, q)] \in frames_at(PT, at(s, p), n)
    BY <1>2, <1>4 DEF get_frame
  <2>5. PT[at(s, q)] > NUM_PAG_KERNEL /\ PT[at(s, q)] < TOTAL_PAGES
    BY <2>2, <2>3, <1>3, Sizes DEF Frame
  <2> QED
    BY <2>4, <2>5 DEF free_frames
<1>5. ASSUME NEW f \in F2, f \notin F
      PROVE  \E q \in Page : In(s, q, s, p, n) /\ PT[at(s, q)] # NotPresent
                             /\ f = PT[at(s, q)]
  <2>1. f \in frames_at(PT, at(s, p), n) /\ f > NUM_PAG_KERNEL
    BY <1>5 DEF free_frames
  <2>2. PICK q \in Page : In(s, q, s, p, n) /\ f = get_frame(PT, at(s, q))
    BY <1>2, <2>1
  <2>3. ~ (0 > NUM_PAG_KERNEL) /\ \A g \in GuardPages : ~ (g > NUM_PAG_KERNEL)
    BY Sizes, MemoryAssumption
  <2>4. PT[at(s, q)] # NotPresent /\ f = PT[at(s, q)]
    BY <2>1, <2>2, <2>3 DEF get_frame
  <2> QED
    BY <2>2, <2>4
<1> QED
  BY <1>4, <1>5 DEF free_frames

\* n data pages, or pages of a stack or region, of slot s are unmapped and freed.
LEMMA UnmapPages ==
  ASSUME NEW PT, NEW F, NEW S, NEW L, Tables(PT, F, S, L),
         NEW s, NEW p, NEW n, Span(s, p, n), p \in DataPage,
         NEW PT2, PT2 = del_ss_pags(PT, at(s, p), n),
         NEW F2, F2 = free_frames(F, frames_at(PT, at(s, p), n))
  PROVE  Tables(PT2, F2, S, L)
<1> DEFINE old(u, q) == In(u, q, s, p, n)
<1>1. \A u \in Slot, q \in Page :
        /\ old(u, q) => PT2[at(u, q)] = NotPresent
        /\ ~ old(u, q) => PT2[at(u, q)] = PT[at(u, q)]
  <2>1. WithCleared(PT2, PT, s, p, n)
    BY DelPages
  <2> QED
    BY <2>1 DEF WithCleared
<1>2. /\ PT \in [Entry -> Frame \cup {NotPresent}] /\ F \subseteq Frame
      /\ F \cap CodeFrames = {} /\ S \subseteq Slot \ {0}
  BY DEF Tables, Typed
<1>3. /\ F \subseteq F2
      /\ \A q \in Page : old(s, q) /\ PT[at(s, q)] # NotPresent => PT[at(s, q)] \in F2
      /\ \A f \in F2 : f \in F \/ \E q \in Page : /\ old(s, q) /\ PT[at(s, q)] # NotPresent
                                                  /\ f = PT[at(s, q)]
  BY FreedFrames
<1>4. \A u \in Slot, q \in Page : old(u, q) => u = s /\ q \in DataPage
  BY Pages, Sizes DEF DataPage, In, Span
<1>0. s \in Slot
  BY DEF Span
<1> HIDE DEF old
<1>5. Exclusive(PT, F)
  BY DEF Tables
<1>6. Typed(PT2, F2, S)
  <2>1. PT2 \in [Entry -> Frame \cup {NotPresent}]
    BY <1>2 DEF del_ss_pags
  <2>2. ASSUME NEW f \in F2 PROVE f \in Frame /\ f \notin CodeFrames
    <3>1. CASE f \in F
      BY <3>1, <1>2
    <3>2. CASE f \notin F
      <4>1. PICK q \in Page : old(s, q) /\ PT[at(s, q)] # NotPresent /\ f = PT[at(s, q)]
        BY <3>2, <1>3
      <4>2. f \notin CodeFrames
        BY <4>1, <1>0, <1>4, <1>5 DEF Exclusive
      <4>3. f \in Frame
        BY <4>1, <1>0, AtEntry, <1>2
      <4> QED
        BY <4>2, <4>3
    <3> QED
      BY <3>1, <3>2
  <2> QED
    BY <2>1, <2>2, <1>2 DEF Typed
<1>7. Exclusive(PT2, F2)
  <2> SUFFICES ASSUME NEW u \in Slot, NEW q \in DataPage, PT2[at(u, q)] # NotPresent
               PROVE  /\ PT2[at(u, q)] >= NUM_PAG_KERNEL
                      /\ PT2[at(u, q)] \notin F2
                      /\ PT2[at(u, q)] \notin CodeFrames
                      /\ \A v \in Slot, r \in DataPage :
                           PT2[at(u, q)] = PT2[at(v, r)] => u = v /\ q = r
    BY DEF Exclusive
  <2>1. q \in Page /\ ~ old(u, q) /\ PT2[at(u, q)] = PT[at(u, q)]
    BY <1>1, Pages
  <2>2. /\ PT[at(u, q)] >= NUM_PAG_KERNEL
        /\ PT[at(u, q)] \notin F
        /\ PT[at(u, q)] \notin CodeFrames
        /\ \A v \in Slot, r \in DataPage :
             PT[at(u, q)] = PT[at(v, r)] => u = v /\ q = r
    BY <2>1, <1>5 DEF Exclusive
  <2>3. PT[at(u, q)] \notin F2
    BY <2>1, <2>2, <1>0, <1>3, <1>4
  <2>4. ASSUME NEW v \in Slot, NEW r \in DataPage, PT2[at(u, q)] = PT2[at(v, r)]
        PROVE  u = v /\ q = r
    <3>1. r \in Page
      BY Pages
    <3> QED
      BY <3>1, <2>1, <2>2, <2>4, <1>1
  <2> QED
    BY <2>1, <2>2, <2>3, <2>4
<1>8. \A u \in Slot, q \in 0 .. PAG_LOG_INIT_DATA - 1 :
        q \in Page /\ PT2[at(u, q)] = PT[at(u, q)]
  BY <1>1, <1>4, Pages, Sizes DEF DataPage
<1>9. LowPages(PT2)
  BY <1>8 DEF LowPages, Tables
<1>10. KernelAndCode(PT2, S)
  <2>1. \A u \in S, q \in 0 .. PAG_LOG_INIT_DATA - 1 : PT2[at(u, q)] = PT[at(u, q)]
    BY <1>2, <1>8
  <2>2. KernelAndCode(PT, S)
    BY DEF Tables
  <2> QED
    BY <2>1, <2>2, LowPagesKept
<1>11. NoData(PT2, S)
  <2>1. \A q \in PAG_LOG_INIT_DATA .. FirstPage - 1 : q \in Page
    BY Pages
  <2> QED
    BY <2>1, <1>1 DEF Tables, NoData
<1>12. Accounted(PT2, F2, L)
  <2> SUFFICES ASSUME NEW f \in Frame, f >= NUM_PAG_KERNEL,
                      f \notin F2, f \notin CodeFrames, f \notin L
               PROVE  \E u \in Slot, q \in DataPage : PT2[at(u, q)] = f
    BY DEF Accounted
  <2>1. PICK u \in Slot, q \in DataPage : PT[at(u, q)] = f
    BY <1>3 DEF Accounted, Tables
  <2>2. f # NotPresent /\ q \in Page
    BY Pages DEF Frame, NotPresent
  <2>3. ~ old(u, q)
    BY <2>1, <2>2, <1>0, <1>3, <1>4
  <2> QED
    BY <2>1, <2>2, <2>3, <1>1
<1> QED
  BY <1>6, <1>7, <1>9, <1>10, <1>11, <1>12 DEF Tables

\* n data pages, or pages of stacks and regions, of slot s are unmapped and lost.
LEMMA LosePages ==
  ASSUME NEW PT, NEW F, NEW S, NEW L, Tables(PT, F, S, L),
         NEW s, NEW p, NEW n, Span(s, p, n), p \in DataPage,
         NEW PT2, PT2 = del_ss_pags(PT, at(s, p), n),
         NEW L2, L \subseteq L2,
         \A q \in Page : In(s, q, s, p, n) /\ PT[at(s, q)] # NotPresent => PT[at(s, q)] \in L2
  PROVE  Tables(PT2, F, S, L2)
<1> DEFINE old(u, q) == In(u, q, s, p, n)
<1>1. \A u \in Slot, q \in Page :
        /\ old(u, q) => PT2[at(u, q)] = NotPresent
        /\ ~ old(u, q) => PT2[at(u, q)] = PT[at(u, q)]
  <2>1. WithCleared(PT2, PT, s, p, n)
    BY DelPages
  <2> QED
    BY <2>1 DEF WithCleared
<1>2. \A q \in Page : old(s, q) /\ PT[at(s, q)] # NotPresent => PT[at(s, q)] \in L2
  OBVIOUS
<1>3. /\ PT \in [Entry -> Frame \cup {NotPresent}] /\ F \subseteq Frame
      /\ F \cap CodeFrames = {} /\ S \subseteq Slot \ {0}
  BY DEF Tables, Typed
<1>4. \A u \in Slot, q \in Page : old(u, q) => u = s /\ q \in DataPage
  BY Pages, Sizes DEF DataPage, In, Span
<1> HIDE DEF old
<1>5. Exclusive(PT, F)
  BY DEF Tables
<1>6. Typed(PT2, F, S)
  <2>1. PT2 \in [Entry -> Frame \cup {NotPresent}]
    BY <1>3 DEF del_ss_pags
  <2> QED
    BY <2>1, <1>3 DEF Typed
<1>7. Exclusive(PT2, F)
  <2> SUFFICES ASSUME NEW u \in Slot, NEW q \in DataPage, PT2[at(u, q)] # NotPresent
               PROVE  /\ PT2[at(u, q)] >= NUM_PAG_KERNEL
                      /\ PT2[at(u, q)] \notin F
                      /\ PT2[at(u, q)] \notin CodeFrames
                      /\ \A v \in Slot, r \in DataPage :
                           PT2[at(u, q)] = PT2[at(v, r)] => u = v /\ q = r
    BY DEF Exclusive
  <2>1. q \in Page /\ ~ old(u, q) /\ PT2[at(u, q)] = PT[at(u, q)]
    BY <1>1, Pages
  <2>2. /\ PT[at(u, q)] >= NUM_PAG_KERNEL
        /\ PT[at(u, q)] \notin F
        /\ PT[at(u, q)] \notin CodeFrames
        /\ \A v \in Slot, r \in DataPage :
             PT[at(u, q)] = PT[at(v, r)] => u = v /\ q = r
    BY <2>1, <1>5 DEF Exclusive
  <2>3. ASSUME NEW v \in Slot, NEW r \in DataPage, PT2[at(u, q)] = PT2[at(v, r)]
        PROVE  u = v /\ q = r
    <3>1. r \in Page
      BY Pages
    <3> QED
      BY <3>1, <2>1, <2>2, <2>3, <1>1
  <2> QED
    BY <2>1, <2>2, <2>3
<1>8. \A u \in Slot, q \in 0 .. PAG_LOG_INIT_DATA - 1 :
        q \in Page /\ PT2[at(u, q)] = PT[at(u, q)]
  BY <1>1, <1>4, Pages, Sizes DEF DataPage
<1>9. LowPages(PT2)
  BY <1>8 DEF LowPages, Tables
<1>10. KernelAndCode(PT2, S)
  <2>1. \A u \in S, q \in 0 .. PAG_LOG_INIT_DATA - 1 : PT2[at(u, q)] = PT[at(u, q)]
    BY <1>3, <1>8
  <2>2. KernelAndCode(PT, S)
    BY DEF Tables
  <2> QED
    BY <2>1, <2>2, LowPagesKept
<1>11. NoData(PT2, S)
  <2>1. \A q \in PAG_LOG_INIT_DATA .. FirstPage - 1 : q \in Page
    BY Pages
  <2> QED
    BY <2>1, <1>1 DEF Tables, NoData
<1>12. Accounted(PT2, F, L2)
  <2> SUFFICES ASSUME NEW f \in Frame, f >= NUM_PAG_KERNEL,
                      f \notin F, f \notin CodeFrames, f \notin L2
               PROVE  \E u \in Slot, q \in DataPage : PT2[at(u, q)] = f
    BY DEF Accounted
  <2>1. PICK u \in Slot, q \in DataPage : PT[at(u, q)] = f
    BY DEF Accounted, Tables
  <2>2. f # NotPresent /\ q \in Page
    BY Pages DEF Frame, NotPresent
  <2>3. ~ old(u, q)
    BY <2>1, <2>2, <1>2, <1>4
  <2> QED
    BY <2>1, <2>2, <2>3, <1>1
<1> QED
  BY <1>6, <1>7, <1>9, <1>10, <1>11, <1>12 DEF Tables

\* Unmapping pages that are not present does nothing.
LEMMA UnmapNothing ==
  ASSUME NEW PT \in [Entry -> Frame \cup {NotPresent}],
         NEW s, NEW p, NEW n, Span(s, p, n), Absent(PT, s, p, n)
  PROVE  del_ss_pags(PT, at(s, p), n) = PT
<1>1. ASSUME NEW e \in Entry PROVE del_ss_pags(PT, at(s, p), n)[e] = PT[e]
  <2>1. PICK u \in Slot, q \in Page : e = at(u, q)
    BY EntryAt
  <2>2. WithCleared(del_ss_pags(PT, at(s, p), n), PT, s, p, n)
    BY DelPages
  <2>3. In(u, q, s, p, n) => u = s
    BY DEF In
  <2> QED
    BY <2>1, <2>2, <2>3 DEF Absent, WithCleared
<1> DEFINE D == del_ss_pags(PT, at(s, p), n)
<1>2. D = [e \in Entry |-> D[e]] /\ PT = [e \in Entry |-> PT[e]]
  BY DEF del_ss_pags
<1> HIDE DEF D
<1>3. \A e \in Entry : D[e] = PT[e]
  BY <1>1 DEF D
<1> QED
  BY <1>2, <1>3 DEF D
-----------------------------------------------------------------------------
\* alloc_frame returns free frames, none of them twice.
LEMMA AllocFacts ==
  ASSUME NEW n \in Int, NEW a \in alloc_frames(n), free \subseteq Frame
  PROVE  Fresh(a, n, free)
<1>1. /\ a \in [0 .. n - 1 -> Allocatable]
      /\ \A i, j \in 0 .. n - 1 : i < j => a[i] < a[j]
  BY DEF alloc_frames
<1>2. Allocatable \subseteq free /\ \A f \in Allocatable : f >= NUM_PAG_KERNEL /\ f \in Int
  BY DEF Allocatable, Frame
<1>3. ASSUME NEW i \in 0 .. n - 1, NEW j \in 0 .. n - 1, a[i] = a[j]
      PROVE  i = j
  <2>1. a[i] \in Int /\ a[j] \in Int
    BY <1>1, <1>2
  <2>2. ~ (i < j) /\ ~ (j < i)
    BY <2>1, <1>1, <1>3
  <2> QED
    BY <2>2
<1> QED
  BY <1>1, <1>2, <1>3 DEF Fresh

LEMMA GapFacts ==
  ASSUME NEW s \in Slot, NEW n \in Int, NEW p \in Gaps(s, n)
  PROVE  /\ p \in UserPage /\ p + n < TOTAL_PAGES
         /\ Absent(pagusr_table, s, p, n)
<1>1. /\ p \in UserPage /\ p + n < TOTAL_PAGES
      /\ \A i \in 0 .. n - 1 : pagusr_table[at(s, p + i)] = NotPresent
  BY DEF Gaps, UserPage
<1>2. ASSUME NEW q \in Page, In(s, q, s, p, n)
      PROVE  pagusr_table[at(s, q)] = NotPresent
  <2>1. q - p \in 0 .. n - 1 /\ p + (q - p) = q
    BY <1>1, <1>2, Pages DEF In
  <2> QED
    BY <1>1, <2>1
<1> QED
  BY <1>1, <1>2 DEF Absent

LEMMA FramesLeft ==
  ASSUME free \subseteq Frame
  PROVE  Cardinality(Allocatable) \in Nat
<1>1. IsFiniteSet(Frame)
  BY FS_Interval, Sizes DEF Frame
<1>2. Allocatable \subseteq Frame
  BY DEF Allocatable
<1> QED
  BY <1>1, <1>2, FS_Subset, FS_CardinalityType

\* A call that runs out of frames gives back those it has taken.
LEMMA GivenBack ==
  ASSUME free \subseteq Frame, free \cap CodeFrames = {}
  PROVE  free_frames(free \ Allocatable, Allocatable) = free
<1>1. NUM_PAG_KERNEL \in CodeFrames
  <2>1. 0 \in 0 .. NUM_PAG_CODE - 1 /\ NUM_PAG_KERNEL + FRAME_STEP * 0 = NUM_PAG_KERNEL
    BY MemoryAssumption
  <2> QED
    BY <2>1 DEF CodeFrames
<1>2. ASSUME NEW f \in Allocatable
      PROVE  f \in free /\ f > NUM_PAG_KERNEL /\ f < TOTAL_PAGES
  <2>1. f \in free /\ f >= NUM_PAG_KERNEL
    BY DEF Allocatable
  <2>2. f \in Frame /\ f # NUM_PAG_KERNEL
    BY <2>1, <1>1
  <2> QED
    BY <2>1, <2>2, Sizes DEF Frame
<1> QED
  BY <1>2 DEF free_frames

\* child_table, of the tables PT.
ChildOf(PT, s, c, a) ==
  LET data == set_ss_pags(PT, at(c, PAG_LOG_INIT_DATA), a)
      copied == [i \in 0 .. PAG_LOG_INIT_DATA - 1 |-> get_frame(PT, at(s, i))]
  IN  set_ss_pags(data, at(c, 0), copied)

LEMMA ChildIs ==
  ASSUME NEW s, NEW c, NEW a
  PROVE  child_table(s, c, a) = ChildOf(pagusr_table, s, c, a)
  BY DEF child_table, ChildOf

\* The pages below the data pages of slot c are set.
LEMMA SetLow ==
  ASSUME NEW X, NEW c \in Slot, NEW b, Long(b, PAG_LOG_INIT_DATA),
         NEW u \in Slot, NEW q \in Page
  PROVE  /\ u = c /\ q < PAG_LOG_INIT_DATA =>
              set_ss_pags(X, at(c, 0), b)[at(u, q)] = b[q]
         /\ ~ (u = c /\ q < PAG_LOG_INIT_DATA) =>
              set_ss_pags(X, at(c, 0), b)[at(u, q)] = X[at(u, q)]
<1>1. Span(c, 0, PAG_LOG_INIT_DATA)
  BY Sizes DEF Span, Page
<1>2. WithSet(set_ss_pags(X, at(c, 0), b), X, c, 0, PAG_LOG_INIT_DATA, b)
  BY <1>1, SetPages
<1>3. /\ In(u, q, c, 0, PAG_LOG_INIT_DATA) => set_ss_pags(X, at(c, 0), b)[at(u, q)] = b[q - 0]
      /\ ~ In(u, q, c, 0, PAG_LOG_INIT_DATA) =>
           set_ss_pags(X, at(c, 0), b)[at(u, q)] = X[at(u, q)]
  BY <1>2, Zenon DEF WithSet
<1>4. q - 0 = q /\ (In(u, q, c, 0, PAG_LOG_INIT_DATA) <=> u = c /\ q < PAG_LOG_INIT_DATA)
  BY Pages, Sizes DEF In
<1> QED
  BY <1>3, <1>4, Zenon

\* The table of the child c of s, page by page.
LEMMA ChildPages ==
  ASSUME NEW PT, NEW s \in Slot, NEW c \in Slot,
         NEW a, NEW u \in Slot, NEW q \in Page
  PROVE  ChildOf(PT, s, c, a)[at(u, q)] =
           IF u = c /\ q < PAG_LOG_INIT_DATA THEN get_frame(PT, at(s, q))
           ELSE set_ss_pags(PT, at(c, PAG_LOG_INIT_DATA), a)[at(u, q)]
<1> DEFINE data == set_ss_pags(PT, at(c, PAG_LOG_INIT_DATA), a)
           copied == [i \in 0 .. PAG_LOG_INIT_DATA - 1 |-> get_frame(PT, at(s, i))]
<1>1. Long(copied, PAG_LOG_INIT_DATA)
  BY DEF Long
<1>2. ChildOf(PT, s, c, a) = set_ss_pags(data, at(c, 0), copied)
  BY DEF ChildOf
<1>3. \A i \in 0 .. PAG_LOG_INIT_DATA - 1 : copied[i] = get_frame(PT, at(s, i))
  OBVIOUS
<1> HIDE DEF data, copied
<1>4. /\ u = c /\ q < PAG_LOG_INIT_DATA =>
           set_ss_pags(data, at(c, 0), copied)[at(u, q)] = copied[q]
      /\ ~ (u = c /\ q < PAG_LOG_INIT_DATA) =>
           set_ss_pags(data, at(c, 0), copied)[at(u, q)] = data[at(u, q)]
  BY <1>1, SetLow
<1>5. q < PAG_LOG_INIT_DATA => q \in 0 .. PAG_LOG_INIT_DATA - 1
  BY Pages, Sizes
<1>6. CASE u = c /\ q < PAG_LOG_INIT_DATA
  BY <1>6, <1>2, <1>3, <1>4, <1>5
<1>7. CASE ~ (u = c /\ q < PAG_LOG_INIT_DATA)
  BY <1>7, <1>2, <1>4, <1>5 DEF data
<1> QED
  BY <1>6, <1>7

\* sys_fork: the child gets data pages of its own and the parent's code.
LEMMA ChildTables ==
  ASSUME NEW PT, NEW F, NEW S, NEW L, Tables(PT, F, S, L),
         NEW s \in S, NEW c \in Slot \ {0}, c \notin S,
         NEW a, Fresh(a, NUM_PAG_DATA, F),
         NEW PT2, PT2 = ChildOf(PT, s, c, a)
  PROVE  Tables(PT2, F \ Range(a), S \cup {c}, L)
<1> DEFINE D == set_ss_pags(PT, at(c, PAG_LOG_INIT_DATA), a)
           F2 == F \ Range(a)
<1>1. /\ PT \in [Entry -> Frame \cup {NotPresent}] /\ F \subseteq Frame
      /\ S \subseteq Slot \ {0} /\ s \in Slot /\ c \in Slot
  BY DEF Tables, Typed
<1>3. /\ Typed(D, F2, S) /\ Exclusive(D, F2) /\ LowPages(D)
      /\ KernelAndCode(D, S) /\ NoData(D, S \cup {c}) /\ Accounted(D, F2, L)
  <2>1. /\ NUM_PAG_DATA \in Int /\ PAG_LOG_INIT_DATA \in DataPage
        /\ PAG_LOG_INIT_DATA + NUM_PAG_DATA <= TOTAL_PAGES
    BY Sizes DEF DataPage
  <2>2. Span(c, PAG_LOG_INIT_DATA, NUM_PAG_DATA)
    BY <2>1, Pages DEF Span
  <2>3. Absent(PT, c, PAG_LOG_INIT_DATA, NUM_PAG_DATA)
    <3>1. \A q \in Page : In(c, q, c, PAG_LOG_INIT_DATA, NUM_PAG_DATA)
            => q \in PAG_LOG_INIT_DATA .. FirstPage - 1
      BY Sizes, Pages DEF In
    <3> QED
      BY <3>1 DEF Tables, NoData, Absent
  <2>5. PICK X : X = set_ss_pags(PT, at(c, PAG_LOG_INIT_DATA), a)
    OBVIOUS
  <2>6. /\ Typed(X, F \ Range(a), S) /\ Exclusive(X, F \ Range(a)) /\ LowPages(X)
        /\ KernelAndCode(X, S) /\ NoData(X, S \cup {c})
        /\ Accounted(X, F \ Range(a), L)
    BY <2>1, <2>2, <2>3, <2>5, MapPages
  <2> QED
    BY <2>5, <2>6, Zenon
<1>4. \A u \in Slot, q \in Page :
        PT2[at(u, q)] = IF u = c /\ q < PAG_LOG_INIT_DATA
                          THEN get_frame(PT, at(s, q)) ELSE D[at(u, q)]
  BY <1>1, ChildPages
<1> HIDE DEF D, F2
<1>5. \A u \in Slot, q \in DataPage : q \in Page /\ PT2[at(u, q)] = D[at(u, q)]
  BY <1>4, Pages, Sizes
<1>6. Typed(PT2, F2, S \cup {c})
  <2> DEFINE copied == [i \in 0 .. PAG_LOG_INIT_DATA - 1 |-> get_frame(PT, at(s, i))]
  <2>1. PT2 = set_ss_pags(D, at(c, 0), copied)
    BY DEF ChildOf, D
  <2>2. \A i \in 0 .. PAG_LOG_INIT_DATA - 1 : copied[i] \in Frame
    <3>1. \A i \in 0 .. PAG_LOG_INIT_DATA - 1 :
            PT[at(s, i)] \in Frame \cup {NotPresent}
      BY Pages, AtEntry, <1>1
    <3>2. 0 \in Frame /\ GuardPages \subseteq Frame
      BY Sizes, MemoryAssumption DEF Frame
    <3> QED
      BY <3>1, <3>2 DEF get_frame
  <2>3. DOMAIN copied = 0 .. PAG_LOG_INIT_DATA - 1
    OBVIOUS
  <2>4. D \in [Entry -> Frame \cup {NotPresent}]
    BY <1>3 DEF Typed
  <2> HIDE DEF copied
  <2>5. ASSUME NEW e \in Entry
        PROVE  set_ss_pags(D, at(c, 0), copied)[e] \in Frame \cup {NotPresent}
    <3>1. CASE e - at(c, 0) \in DOMAIN copied
      BY <3>1, <2>2, <2>3 DEF set_ss_pags
    <3>2. CASE e - at(c, 0) \notin DOMAIN copied
      BY <3>2, <2>4 DEF set_ss_pags
    <3> QED
      BY <3>1, <3>2
  <2>6. PT2 \in [Entry -> Frame \cup {NotPresent}]
    BY <2>1, <2>5 DEF set_ss_pags
  <2> QED
    BY <2>6, <1>1, <1>3 DEF Typed
<1>7. Exclusive(PT2, F2)
  BY <1>3, <1>5 DEF Exclusive
<1>8. LowPages(PT2)
  <2> SUFFICES ASSUME NEW u \in Slot, NEW q \in 0 .. PAG_LOG_INIT_DATA - 1
               PROVE  \/ PT2[at(u, q)] = NotPresent
                      \/ PT2[at(u, q)] < NUM_PAG_KERNEL
                      \/ PT2[at(u, q)] \in CodeFrames
    BY DEF LowPages
  <2>1. q \in Page /\ q < PAG_LOG_INIT_DATA
    BY Pages, Sizes
  <2>2. CASE u = c
    <3>1. PT2[at(u, q)] = get_frame(PT, at(s, q))
      BY <2>1, <2>2, <1>4
    <3>2. \/ PT[at(s, q)] = NotPresent
          \/ PT[at(s, q)] < NUM_PAG_KERNEL
          \/ PT[at(s, q)] \in CodeFrames
      BY <1>1 DEF Tables, LowPages
    <3>3. 0 < NUM_PAG_KERNEL /\ \A g \in GuardPages : g < NUM_PAG_KERNEL
      BY Sizes, MemoryAssumption
    <3> QED
      BY <3>1, <3>2, <3>3 DEF get_frame
  <2>3. CASE u # c
    BY <2>1, <2>3, <1>3, <1>4 DEF LowPages
  <2> QED
    BY <2>2, <2>3
<1>9. KernelAndCode(PT2, S \cup {c})
  <2>1. KernelAndCode(PT, S)
    BY DEF Tables
  <2>2. ASSUME NEW p \in 1 .. NUM_PAG_KERNEL - 1 PROVE get_frame(PT2, at(c, p)) = p
    <3>1. p \in Page /\ p < PAG_LOG_INIT_DATA /\ p # NotPresent
      BY Sizes DEF Page, NotPresent
    <3>2. get_frame(PT, at(s, p)) = p
      BY <2>1 DEF KernelAndCode
    <3>3. PT2[at(c, p)] = p
      BY <3>1, <3>2, <1>1, <1>4
    <3> QED
      BY <3>1, <3>3 DEF get_frame
  <2>3. ASSUME NEW i \in 0 .. NUM_PAG_CODE - 1
        PROVE  PT2[at(c, PAG_LOG_INIT_CODE + i)] = NUM_PAG_KERNEL + FRAME_STEP * i
    <3>1. PICK q \in Page : q = PAG_LOG_INIT_CODE + i /\ q < PAG_LOG_INIT_DATA
      BY Sizes DEF Page
    <3>2. PT[at(s, q)] = NUM_PAG_KERNEL + FRAME_STEP * i
      BY <3>1, <2>1 DEF KernelAndCode
    <3>3. PT[at(s, q)] # NotPresent
      <4>1. NUM_PAG_KERNEL + FRAME_STEP * i \in CodeFrames
        BY DEF CodeFrames
      <4>2. NotPresent \notin CodeFrames
        BY MemoryAssumption DEF CodeFrames, NotPresent
      <4> QED
        BY <3>2, <4>1, <4>2
    <3>4. PT2[at(c, q)] = get_frame(PT, at(s, q))
      BY <3>1, <1>1, <1>4
    <3> QED
      BY <3>1, <3>2, <3>3, <3>4 DEF get_frame
  <2>4. KernelAndCode(PT2, S)
    <3>1. \A u \in S, q \in 0 .. PAG_LOG_INIT_DATA - 1 : PT2[at(u, q)] = D[at(u, q)]
      BY <1>1, <1>4, Pages, Sizes
    <3> QED
      BY <3>1, <1>3, LowPagesKept
  <2> QED
    BY <2>2, <2>3, <2>4 DEF KernelAndCode
<1>10. NoData(PT2, S \cup {c})
  BY <1>3, <1>5, Pages DEF NoData
<1>11. Accounted(PT2, F2, L)
  BY <1>3, <1>5 DEF Accounted
<1> QED
  BY <1>6, <1>7, <1>8, <1>9, <1>10, <1>11 DEF Tables, F2
-----------------------------------------------------------------------------
\* Fewer areas, whose pages stay mapped.
LEMMA FewerAreas ==
  ASSUME NEW PT, NEW K, NEW R, NEW B, Areas(PT, K, R, B),
         NEW K2, K2 \subseteq K, NEW R2, R2 \subseteq R, NEW PT2,
         \A x \in K2 \cup R2, s \in Slot \ B, q \in UserPage :
           Holds(x, s, q) /\ PT[at(s, q)] # NotPresent => PT2[at(s, q)] # NotPresent
  PROVE  Areas(PT2, K2, R2, B)
<1>1. Kept(PT, K, B) /\ Kept(PT, R, B) /\ Apart(K, R, B) /\ ApartInside(K, B) /\ ApartInside(R, B)
  BY DEF Areas
<1>2. Kept(PT2, K2, B)
  BY <1>1 DEF Kept
<1>3. Kept(PT2, R2, B)
  BY <1>1 DEF Kept
<1>4. Apart(K2, R2, B)
  BY <1>1 DEF Apart
<1>5. ApartInside(K2, B) /\ ApartInside(R2, B)
  BY <1>1 DEF ApartInside
<1> QED
  BY <1>2, <1>3, <1>4, <1>5 DEF Areas

\* Areas of more processes are left out, or those of one that has none.
LEMMA AreasOutside ==
  ASSUME NEW PT, NEW K, NEW R, NEW B, Areas(PT, K, R, B), NEW B2, B \subseteq B2
  PROVE  Areas(PT, K, R, B2)
  BY DEF Areas, Kept, Apart, ApartInside

LEMMA AreasWithout ==
  ASSUME NEW PT, NEW K, NEW R, NEW B, Areas(PT, K, R, B),
         NEW s, \A x \in K \cup R : x.space # s
  PROVE  Areas(PT, K, R, B \ {s})
<1>1. \A x \in K \cup R : \A q : ~ Holds(x, s, q)
  BY DEF Holds
<1> QED
  BY <1>1 DEF Areas, Kept, Apart, ApartInside

\* A region more, on mapped pages that no stack and no region has.
LEMMA OneRegionMore ==
  ASSUME NEW PT, NEW K, NEW R, NEW B, Areas(PT, K, R, B), NEW y,
         \A s \in Slot \ B, q \in UserPage : Holds(y, s, q) =>
           PT[at(s, q)] # NotPresent /\ \A x \in K \cup R : ~ Holds(x, s, q)
  PROVE  Areas(PT, K, R \cup {y}, B)
<1>1. Kept(PT, K, B) /\ Kept(PT, R, B) /\ Apart(K, R, B) /\ ApartInside(K, B) /\ ApartInside(R, B)
  BY DEF Areas
<1>2. Kept(PT, R \cup {y}, B)
  BY <1>1 DEF Kept
<1>3. Apart(K, R \cup {y}, B)
  BY <1>1 DEF Apart
<1>4. ApartInside(R \cup {y}, B)
  BY <1>1 DEF ApartInside
<1> QED
  BY <1>1, <1>2, <1>3, <1>4 DEF Areas

LEMMA OneStackMore ==
  ASSUME NEW PT, NEW K, NEW R, NEW B, Areas(PT, K, R, B), NEW y,
         \A s \in Slot \ B, q \in UserPage : Holds(y, s, q) =>
           PT[at(s, q)] # NotPresent /\ \A x \in K \cup R : ~ Holds(x, s, q)
  PROVE  Areas(PT, K \cup {y}, R, B)
<1>1. Kept(PT, K, B) /\ Kept(PT, R, B) /\ Apart(K, R, B) /\ ApartInside(K, B) /\ ApartInside(R, B)
  BY DEF Areas
<1>2. Kept(PT, K \cup {y}, B)
  BY <1>1 DEF Kept
<1>3. Apart(K \cup {y}, R, B)
  BY <1>1 DEF Apart
<1>4. ApartInside(K \cup {y}, B)
  BY <1>1 DEF ApartInside
<1> QED
  BY <1>1, <1>2, <1>3, <1>4 DEF Areas

\* A region whose node is written stays where it is.
SameArea(y, x) == y.space = x.space /\ y.page = x.page /\ y.num = x.num /\ y.tam = x.tam

Node(S) == [space : S, page : UserPage, num : Nat, task : Int,
            tam : Int, next : Int, prev : Int]

LEMMA NodesWritten ==
  ASSUME NEW PT, NEW K, NEW R, NEW S, RegionsFit(R, S), NEW B, Areas(PT, K, R, B),
         NEW g, \A r \in R : g[r] \in Node(S) /\ SameArea(g[r], r),
         NEW R2, R2 = {g[r] : r \in R}
  PROVE  RegionsFit(R2, S) /\ Areas(PT, K, R2, B)
<1>1. Kept(PT, K, B) /\ Kept(PT, R, B) /\ Apart(K, R, B) /\ ApartInside(K, B) /\ ApartInside(R, B)
  BY DEF Areas
<1>2. \A y \in R2 : \E r \in R : y = g[r] /\ y \in Node(S) /\ SameArea(y, r)
  OBVIOUS
<1>3. \A y, r, s, q : SameArea(y, r) => (Holds(y, s, q) <=> Holds(r, s, q))
  BY DEF SameArea, Holds
<1>4. RegionsFit(R2, S)
  <2>1. R2 \subseteq Node(S)
    BY <1>2
  <2>2. ASSUME NEW y \in R2
        PROVE  y.page + y.num < TOTAL_PAGES /\ (y.tam = y.num \/ y.tam < 0)
    <3>1. PICK r \in R : SameArea(y, r)
      BY <1>2
    <3>2. r.page + r.num < TOTAL_PAGES /\ (r.tam = r.num \/ r.tam < 0)
      BY DEF RegionsFit
    <3> QED
      BY <3>1, <3>2 DEF SameArea
  <2> QED
    BY <2>1, <2>2 DEF RegionsFit, Node
<1>5. Kept(PT, R2, B)
  BY <1>1, <1>2, <1>3 DEF Kept
<1>6. Apart(K, R2, B)
  BY <1>1, <1>2, <1>3 DEF Apart
<1>7. ApartInside(R2, B)
  <2> SUFFICES ASSUME NEW x \in R2, NEW y \in R2, NEW s \in Slot \ B, NEW q \in UserPage,
                      Holds(x, s, q), Holds(y, s, q)
               PROVE  x = y
    BY DEF ApartInside
  <2>1. PICK a \in R : x = g[a] /\ SameArea(x, a)
    BY <1>2
  <2>2. PICK b \in R : y = g[b] /\ SameArea(y, b)
    BY <1>2
  <2>3. Holds(a, s, q) /\ Holds(b, s, q)
    BY <2>1, <2>2, <1>3
  <2>4. a = b
    BY <2>3, <1>1 DEF ApartInside
  <2> QED
    BY <2>1, <2>2, <2>4
<1> QED
  BY <1>1, <1>4, <1>5, <1>6, <1>7 DEF Areas

LEMMA NextStored ==
  ASSUME NEW PT, NEW K, NEW R, NEW S, RegionsFit(R, S), NEW B, Areas(PT, K, R, B),
         NEW s, NEW q, NEW v \in Int
  PROVE  RegionsFit(store_next(R, s, q, v), S) /\ Areas(PT, K, store_next(R, s, q, v), B)
<1> DEFINE g == [r \in R |-> IF r.space = s /\ r.page = q THEN [r EXCEPT !.next = v] ELSE r]
<1>1. R \subseteq Node(S)
  BY DEF RegionsFit, Node
<1>2. ASSUME NEW r \in R PROVE g[r] \in Node(S) /\ SameArea(g[r], r)
  <2>1. r \in Node(S)
    BY <1>1
  <2>2. [r EXCEPT !.next = v] \in Node(S) /\ SameArea([r EXCEPT !.next = v], r)
    BY <2>1 DEF Node, SameArea
  <2> QED
    BY <2>1, <2>2 DEF SameArea
<1>3. store_next(R, s, q, v) = {g[r] : r \in R}
  BY DEF store_next
<1> HIDE DEF g
<1> QED
  BY <1>2, <1>3, NodesWritten

LEMMA PrevStored ==
  ASSUME NEW PT, NEW K, NEW R, NEW S, RegionsFit(R, S), NEW B, Areas(PT, K, R, B),
         NEW s, NEW q, NEW v \in Int
  PROVE  RegionsFit(store_prev(R, s, q, v), S) /\ Areas(PT, K, store_prev(R, s, q, v), B)
<1> DEFINE g == [r \in R |-> IF r.space = s /\ r.page = q THEN [r EXCEPT !.prev = v] ELSE r]
<1>1. R \subseteq Node(S)
  BY DEF RegionsFit, Node
<1>2. ASSUME NEW r \in R PROVE g[r] \in Node(S) /\ SameArea(g[r], r)
  <2>1. r \in Node(S)
    BY <1>1
  <2>2. [r EXCEPT !.prev = v] \in Node(S) /\ SameArea([r EXCEPT !.prev = v], r)
    BY <2>1 DEF Node, SameArea
  <2> QED
    BY <2>1, <2>2 DEF SameArea
<1>3. store_prev(R, s, q, v) = {g[r] : r \in R}
  BY DEF store_prev
<1> HIDE DEF g
<1> QED
  BY <1>2, <1>3, NodesWritten

\* The regions of thread t stay with its process when it ends.
Abandoned(R, t) == {IF r.task = t THEN [r EXCEPT !.task = Gone] ELSE r : r \in R}

LEMMA NodesLeft ==
  ASSUME NEW PT, NEW K, NEW R, NEW S, RegionsFit(R, S), NEW B, Areas(PT, K, R, B), NEW t
  PROVE  RegionsFit(Abandoned(R, t), S) /\ Areas(PT, K, Abandoned(R, t), B)
<1> DEFINE g == [r \in R |-> IF r.task = t THEN [r EXCEPT !.task = Gone] ELSE r]
<1>1. R \subseteq Node(S)
  BY DEF RegionsFit, Node
<1>2. ASSUME NEW r \in R PROVE g[r] \in Node(S) /\ SameArea(g[r], r)
  <2>1. r \in Node(S) /\ Gone \in Int
    BY <1>1 DEF Gone
  <2>2. [r EXCEPT !.task = Gone] \in Node(S) /\ SameArea([r EXCEPT !.task = Gone], r)
    BY <2>1 DEF Node, SameArea
  <2> QED
    BY <2>1, <2>2 DEF SameArea
<1>3. Abandoned(R, t) = {g[r] : r \in R}
  BY DEF Abandoned
<1> HIDE DEF g
<1> QED
  BY <1>2, <1>3, NodesWritten

\* Node r fits the processes S, and its pages are mapped and nobody else's.
Fits(r, S) ==
  r \in Node(S) /\ r.page + r.num < TOTAL_PAGES /\ (r.tam = r.num \/ r.tam < 0)
Alone(PT, K, R, r, B) ==
  \A s \in Slot \ B, q \in UserPage : Holds(r, s, q) =>
    PT[at(s, q)] # NotPresent /\ \A x \in K \cup R : ~ Holds(x, s, q)

\* M is R with node r, between n and p, after which v was stored in d.
Joined(M, R, r, n, p, t, d, v) ==
  M = store_next(R \cup {[r EXCEPT !.next = n, !.prev = p]}, t, d, v)

\* A region more, its node linked to the list.
LEMMA Linked ==
  ASSUME NEW PT, NEW K, NEW R, NEW S, RegionsFit(R, S), NEW B, Areas(PT, K, R, B),
         NEW r, Fits(r, S), Alone(PT, K, R, r, B),
         NEW n \in Int, NEW p \in Int, NEW t, NEW d, NEW v \in Int,
         NEW R2, Joined(R2, R, r, n, p, t, d, v)
  PROVE  RegionsFit(R2, S) /\ Areas(PT, K, R2, B)
<1> DEFINE y == [r EXCEPT !.next = n, !.prev = p]
<1>1. y \in Node(S) /\ SameArea(y, r)
  BY DEF Node, SameArea, Fits
<1>5. R2 = store_next(R \cup {y}, t, d, v)
  BY DEF Joined
<1> HIDE DEF y
<1>2. \A s, q : Holds(y, s, q) <=> Holds(r, s, q)
  BY <1>1 DEF SameArea, Holds
<1>3. RegionsFit(R \cup {y}, S)
  <2>1. y.page + y.num < TOTAL_PAGES /\ (y.tam = y.num \/ y.tam < 0)
    BY <1>1 DEF SameArea, Fits
  <2> QED
    BY <1>1, <2>1 DEF RegionsFit, Node
<1>4. Areas(PT, K, R \cup {y}, B)
  <2>1. \A s \in Slot \ B, q \in UserPage : Holds(y, s, q) =>
          PT[at(s, q)] # NotPresent /\ \A x \in K \cup R : ~ Holds(x, s, q)
    BY <1>2 DEF Alone
  <2> QED
    BY <2>1, OneRegionMore
<1>6. PICK Q : Q = R \cup {y}
  OBVIOUS
<1>7. /\ RegionsFit(store_next(Q, t, d, v), S)
      /\ Areas(PT, K, store_next(Q, t, d, v), B)
  BY <1>3, <1>4, <1>6, NextStored
<1> QED
  BY <1>5, <1>6, <1>7
-----------------------------------------------------------------------------
(* What mapping a gap of slot s, and unmapping an area of it, mean for the rest:
   PT and F become PT2 and F2. *)
GapTaken(PT2, F2, PT, F, S, L, s, p, n) ==
  /\ Tables(PT2, F2, S, L)
  /\ \A u \in Slot, q \in Page : PT[at(u, q)] # NotPresent => PT2[at(u, q)] # NotPresent
  /\ \A q \in Page : In(s, q, s, p, n) => PT2[at(s, q)] # NotPresent
  /\ \A X : X \subseteq Page \X Frame /\ AtHome(PT, F, s, X) => AtHome(PT2, F2, s, X)

AreaGiven(PT2, F2, PT, F, S, L, s, p, n) ==
  /\ Tables(PT2, F2, S, L)
  /\ \A u \in Slot, q \in Page : ~ In(u, q, s, p, n) => PT2[at(u, q)] = PT[at(u, q)]
  /\ \A q \in Page : In(s, q, s, p, n) /\ PT[at(s, q)] # NotPresent => PT[at(s, q)] \in F2
  /\ \A X : X \subseteq Page \X Frame /\ AtHome(PT, F, s, X) => AtHome(PT2, F2, s, X)

LEMMA GapMapped ==
  ASSUME NEW PT, NEW F, NEW S, NEW L, Tables(PT, F, S, L), NEW s \in S,
         NEW p \in UserPage, NEW n \in Int, p + n < TOTAL_PAGES,
         Absent(PT, s, p, n), NEW a, Fresh(a, n, F),
         NEW PT2, PT2 = set_ss_pags(PT, at(s, p), a)
  PROVE  GapTaken(PT2, F \ Range(a), PT, F, S, L, s, p, n)
<1>1. /\ Span(s, p, n) /\ s # 0 /\ s \in Slot /\ p \in DataPage /\ S \cup {s} = S
  BY Pages, Sizes DEF Span, Tables, Typed
<1>2. Tables(PT2, F \ Range(a), S, L)
  <2>1. /\ Typed(PT2, F \ Range(a), S) /\ Exclusive(PT2, F \ Range(a)) /\ LowPages(PT2)
        /\ KernelAndCode(PT2, S) /\ NoData(PT2, S \cup {s})
        /\ Accounted(PT2, F \ Range(a), L)
    BY <1>1, MapPages
  <2> QED
    BY <1>1, <2>1 DEF Tables
<1>3. /\ a \in [0 .. n - 1 -> F] /\ Long(a, n)
      /\ WithSet(PT2, PT, s, p, n, a)
  <2>1. a \in [0 .. n - 1 -> F] /\ Long(a, n)
    BY DEF Fresh, Long
  <2> QED
    BY <2>1, <1>1, SetPages
<1>4. NotPresent \notin F
  BY DEF Tables, Typed, Frame, NotPresent
<1>5. \A u \in Slot, q \in Page : In(u, q, s, p, n) =>
        /\ u = s /\ q - p \in 0 .. n - 1 /\ PT2[at(u, q)] = a[q - p]
        /\ PT2[at(u, q)] # NotPresent /\ PT[at(u, q)] = NotPresent
  <2>1. \A u \in Slot, q \in Page : In(u, q, s, p, n) => u = s /\ q - p \in 0 .. n - 1
    BY Pages DEF In
  <2>2. \A u \in Slot, q \in Page : In(u, q, s, p, n) => PT2[at(u, q)] = a[q - p]
    BY <1>3 DEF WithSet
  <2>3. \A i \in 0 .. n - 1 : a[i] # NotPresent
    BY <1>3, <1>4
  <2> QED
    BY <2>1, <2>2, <2>3 DEF Absent
<1>6. \A u \in Slot, q \in Page : ~ In(u, q, s, p, n) => PT2[at(u, q)] = PT[at(u, q)]
  BY <1>3 DEF WithSet
<1>7. ASSUME NEW X, X \subseteq Page \X Frame, AtHome(PT, F, s, X)
      PROVE  AtHome(PT2, F \ Range(a), s, X)
  <2> SUFFICES ASSUME NEW x \in X, x[2] \notin F \ Range(a)
               PROVE  \E q \in Page : PT2[at(s, q)] = x[2]
    BY DEF AtHome
  <2>1. CASE x[2] \in Range(a)
    <3>1. PICK i \in 0 .. n - 1 : a[i] = x[2]
      BY <2>1, <1>3 DEF Range
    <3>2. p + i \in Page /\ In(s, p + i, s, p, n) /\ (p + i) - p = i
      BY Pages, Sizes DEF In, Page
    <3> QED
      BY <3>1, <3>2, <1>1, <1>5
  <2>2. CASE x[2] \notin F
    <3>1. PICK q \in Page : PT[at(s, q)] = x[2]
      BY <2>2, <1>7 DEF AtHome
    <3>2. CASE ~ In(s, q, s, p, n)
      BY <3>1, <3>2, <1>1, <1>6
    <3>3. CASE In(s, q, s, p, n) /\ \A r \in Page : PT2[at(s, r)] # x[2]
      <4>1. x[2] = NotPresent
        BY <3>1, <3>3, <1>1, <1>5
      <4>2. x[2] \in Frame
        BY <1>7
      <4> QED
        BY <4>1, <4>2 DEF Frame, NotPresent
    <3> QED
      BY <3>2, <3>3
  <2> QED
    BY <2>1, <2>2
<1> QED
  BY <1>1, <1>2, <1>5, <1>6, <1>7 DEF GapTaken

LEMMA AreaUnmapped ==
  ASSUME NEW PT, NEW F, NEW S, NEW L, Tables(PT, F, S, L), NEW s \in S,
         NEW p \in UserPage, NEW n \in Int, p + n <= TOTAL_PAGES,
         NEW PT2, PT2 = del_ss_pags(PT, at(s, p), n),
         NEW F2, F2 = free_frames(F, frames_at(PT, at(s, p), n))
  PROVE  AreaGiven(PT2, F2, PT, F, S, L, s, p, n)
<1>1. Span(s, p, n) /\ s \in Slot /\ p \in DataPage
  BY Pages, Sizes DEF Span, Tables, Typed
<1>2. Tables(PT2, F2, S, L)
  BY <1>1, UnmapPages
<1>3. \A u \in Slot, q \in Page : ~ In(u, q, s, p, n) => PT2[at(u, q)] = PT[at(u, q)]
  <2>1. WithCleared(PT2, PT, s, p, n)
    BY <1>1, DelPages
  <2> QED
    BY <2>1 DEF WithCleared
<1>4. /\ F \subseteq F2
      /\ \A q \in Page : In(s, q, s, p, n) /\ PT[at(s, q)] # NotPresent
                           => PT[at(s, q)] \in F2
  BY <1>1, FreedFrames
<1>5. ASSUME NEW X, X \subseteq Page \X Frame, AtHome(PT, F, s, X)
      PROVE  AtHome(PT2, F2, s, X)
  <2> SUFFICES ASSUME NEW x \in X, x[2] \notin F2
               PROVE  \E q \in Page : PT2[at(s, q)] = x[2]
    BY DEF AtHome
  <2>1. PICK q \in Page : PT[at(s, q)] = x[2]
    BY <1>4, <1>5 DEF AtHome
  <2>2. x[2] # NotPresent
    <3>1. x[2] \in Frame
      BY <1>5
    <3> QED
      BY <3>1 DEF Frame, NotPresent
  <2>3. ~ In(s, q, s, p, n)
    BY <2>1, <2>2, <1>4
  <2> QED
    BY <2>1, <2>3, <1>1, <1>3
<1> QED
  BY <1>2, <1>3, <1>4, <1>5 DEF AreaGiven
-----------------------------------------------------------------------------
\* A task belongs to a process; a thread, to one that may not exit yet.
LEMMA TaskSpace ==
  ASSUME StacksFit(stacks, spaces, has_threads), spaces \subseteq Slot \ {0},
         NEW t \in Tasks
  PROVE  /\ t \in Slot /\ space_of(t) \in spaces
         /\ t \notin spaces => space_of(t) \in has_threads
<1>1. CASE t \in spaces
  BY <1>1 DEF space_of
<1>2. CASE t \notin spaces
  <2>1. \E k \in stacks : k.slot = t
    BY <1>2 DEF Tasks
  <2> DEFINE k == CHOOSE k \in stacks : k.slot = t
  <2>2. k \in stacks /\ k.slot = t
    BY <2>1
  <2> HIDE DEF k
  <2>3. k \in [slot : Slot, space : has_threads, page : UserPage, num : Int]
        /\ has_threads \subseteq spaces
    BY <2>2 DEF StacksFit
  <2>4. t \in Slot /\ k.space \in has_threads /\ k.space \in spaces
    BY <2>2, <2>3
  <2> QED
    BY <1>2, <2>4 DEF space_of, k
<1> QED
  BY <1>1, <1>2

LEMMA AreaPages ==
  ASSUME NEW x, NEW u, NEW q
  PROVE  Holds(x, u, q) <=> In(u, q, x.space, x.page, x.num)
  BY DEF Holds, In

\* Nothing of a gap belongs to a stack or region.
LEMMA GapIsNobodys ==
  ASSUME NEW PT, NEW K, NEW R, NEW B, Areas(PT, K, R, B), NEW s, NEW p, NEW n,
         Absent(PT, s, p, n), s \in Slot
  PROVE  \A u \in Slot \ B, q \in UserPage :
           In(u, q, s, p, n) => \A x \in K \cup R : ~ Holds(x, u, q)
<1>1. \A u \in Slot \ B, q \in UserPage : In(u, q, s, p, n) => PT[at(u, q)] = NotPresent
  BY Pages DEF Absent, In
<1>2. \A x \in K \cup R, u \in Slot \ B, q \in UserPage :
        Holds(x, u, q) => PT[at(u, q)] # NotPresent
  BY DEF Areas, Kept
<1> QED
  BY <1>1, <1>2

\* sys_memRegGet.
LEMMA GetStep ==
  ASSUME MemOK, Running, NEW t \in Tasks, space_of(t) = cr3,
         NEW num_pages \in RegionSizes, memRegGet(t, num_pages), Running'
  PROVE  MemOK'
<1>1. /\ Tables(pagusr_table, free, spaces, lost) /\ StacksFit(stacks, spaces, has_threads)
      /\ RegionsFit(memoria, spaces) /\ Areas(pagusr_table, stacks, memoria, clobbered)
      /\ head \in [Slot -> Int] /\ stale \subseteq Page \X Frame
      /\ AtHome(pagusr_table, free, cr3, stale)
      /\ spaces \subseteq Slot \ {0} /\ free \subseteq Frame
  BY DEF MemOK, Tables, Typed
<1>0. lost' = lost /\ clobbered' = clobbered
  BY DEF memRegGet, harm
<1>2. num_pages \in Nat
  BY MemoryAssumption
<1>3. PICK n \in Nat : n = num_pages + 1
  BY <1>2
<1>4. t \in Slot /\ cr3 \in spaces
  BY <1>1, TaskSpace
<1>5. PICK s \in spaces : s = cr3
  BY <1>4
<1>6. s \in Slot
  BY <1>1
<1>7. PICK p \in Gaps(s, n), a \in alloc_frames(n) :
        /\ pagusr_table' = set_ss_pags(pagusr_table, at(s, p), a)
        /\ free' = free \ Range(a)
        /\ remap(p, a)
        /\ link(memoria, t, [space |-> s, page |-> p, num |-> n, task |-> t,
                             tam |-> n, next |-> 0, prev |-> 0])
        /\ UNCHANGED <<spaces, stacks, has_threads, cr3, trusted>>
  BY <1>3, <1>5, Zenon DEF memRegGet, Running
<1>8. /\ p \in UserPage /\ p + n < TOTAL_PAGES /\ Absent(pagusr_table, s, p, n)
      /\ Fresh(a, n, free)
  BY <1>1, <1>6, GapFacts, AllocFacts
<1>9. /\ Tables(pagusr_table', free', spaces, lost)
      /\ \A u \in Slot, q \in Page : pagusr_table[at(u, q)] # NotPresent
                                       => pagusr_table'[at(u, q)] # NotPresent
      /\ \A q \in Page : In(s, q, s, p, n) => pagusr_table'[at(s, q)] # NotPresent
      /\ \A X : X \subseteq Page \X Frame /\ AtHome(pagusr_table, free, s, X)
                  => AtHome(pagusr_table', free', s, X)
  <2>1. Tables(pagusr_table, free, spaces, lost) /\ p \in UserPage /\ n \in Int
    BY <1>1, <1>8
  <2>2. GapTaken(pagusr_table', free', pagusr_table, free, spaces, lost, s, p, n)
    BY <2>1, <1>7, <1>8, GapMapped
  <2> QED
    BY <2>2 DEF GapTaken
<1> DEFINE r == [space |-> s, page |-> p, num |-> n, task |-> t,
                 tam |-> n, next |-> 0, prev |-> 0]
<1>10. Fits(r, spaces)
  BY <1>4, <1>8 DEF Fits, Node, Slot
<1>11. Alone(pagusr_table', stacks, memoria, r, clobbered)
  <2>1. \A u, q : Holds(r, u, q) <=> In(u, q, s, p, n)
    BY DEF Holds, In
  <2>2. \A u \in Slot \ clobbered, q \in UserPage :
          In(u, q, s, p, n) => \A x \in stacks \cup memoria : ~ Holds(x, u, q)
    BY <1>1, <1>6, <1>8, GapIsNobodys
  <2>3. \A u, q : In(u, q, s, p, n) => u = s
    BY DEF In
  <2> QED
    BY <2>1, <2>2, <2>3, <1>9, Pages DEF Alone
<1>12. Areas(pagusr_table', stacks, memoria, clobbered)
  BY <1>1, <1>9, Pages, FewerAreas
<1>13. /\ Joined(memoria', memoria, r, HeadOf(t), head[t], s, head[t], p)
       /\ head' = [head EXCEPT ![t] = p]
  BY <1>7 DEF link, Joined
<1>14. HeadOf(t) \in Int /\ head[t] \in Int /\ p \in Int
  BY <1>1, <1>4, <1>8, Pages DEF HeadOf, Slot
<1> HIDE DEF r
<1>15. RegionsFit(memoria', spaces) /\ Areas(pagusr_table', stacks, memoria', clobbered)
  BY <1>1, <1>10, <1>11, <1>12, <1>13, <1>14, Linked
<1>16. head' \in [Slot -> Int]
  BY <1>1, <1>13, <1>14
<1>17. stale' \subseteq stale
  BY <1>7 DEF remap
<1>18. stale' \subseteq Page \X Frame /\ AtHome(pagusr_table', free', cr3, stale')
  <2>1. AtHome(pagusr_table', free', s, stale)
    BY <1>1, <1>5, <1>9
  <2> QED
    BY <2>1, <1>1, <1>5, <1>17 DEF AtHome
<1> QED
  BY <1>0, <1>1, <1>4, <1>7, <1>9, <1>15, <1>16, <1>18 DEF MemOK

\* A call that runs out of frames after finding its pages leaves no trace.
LEMMA UndoStep ==
  ASSUME MemOK, NEW s \in spaces, NEW n \in Int, map_and_undo(s, n)
  PROVE  pagusr_table' = pagusr_table /\ free' = free
<1>1. /\ Typed(pagusr_table, free, spaces)
      /\ spaces \subseteq Slot \ {0} /\ free \subseteq Frame /\ free \cap CodeFrames = {}
      /\ pagusr_table \in [Entry -> Frame \cup {NotPresent}]
  BY DEF MemOK, Tables, Typed
<1>2. s \in Slot
  BY <1>1
<1>3. PICK m \in Nat : m = Cardinality(Allocatable)
  BY <1>1, FramesLeft
<1>4. m < n
  BY <1>3 DEF map_and_undo, TooFewFrames
<1>5. PICK p \in Gaps(s, n) : pagusr_table' = del_ss_pags(pagusr_table, at(s, p), m)
  BY <1>3 DEF map_and_undo
<1>6. p \in UserPage /\ p + n < TOTAL_PAGES /\ Absent(pagusr_table, s, p, n)
  BY <1>2, GapFacts
<1>7. Span(s, p, m)
  BY <1>2, <1>4, <1>6, Pages, Sizes DEF Span
<1>8. Absent(pagusr_table, s, p, m)
  <2>1. \A q \in Page : In(s, q, s, p, m) => In(s, q, s, p, n)
    BY <1>4, <1>6, Pages DEF In
  <2> QED
    BY <1>6, <2>1 DEF Absent
<1>9. pagusr_table' = pagusr_table
  BY <1>1, <1>5, <1>7, <1>8, UnmapNothing
<1>10. free' = free
  BY <1>1, GivenBack DEF map_and_undo
<1> QED
  BY <1>9, <1>10

\* sys_fork without frames: the child's data pages were not mapped before.
LEMMA ForkNoFramesStep ==
  ASSUME MemOK, NEW c \in Slot, c \notin spaces, fork_no_frames(c)
  PROVE  pagusr_table' = pagusr_table /\ free' = free
<1>1. /\ free \subseteq Frame /\ free \cap CodeFrames = {}
      /\ pagusr_table \in [Entry -> Frame \cup {NotPresent}]
      /\ NoData(pagusr_table, spaces)
  BY DEF MemOK, Tables, Typed
<1>2. PICK m \in Nat : m = Cardinality(Allocatable)
  BY <1>1, FramesLeft
<1>3. m < NUM_PAG_DATA
  BY <1>2 DEF fork_no_frames, TooFewFrames
<1>4. PICK p \in DataPage : p = PAG_LOG_INIT_DATA
  BY Sizes DEF DataPage
<1>5. pagusr_table' = del_ss_pags(pagusr_table, at(c, p), m)
  BY <1>2, <1>4 DEF fork_no_frames
<1>6. Span(c, p, m)
  BY <1>3, <1>4, Pages, Sizes DEF Span
<1>7. Absent(pagusr_table, c, p, m)
  <2>1. \A q \in Page : In(c, q, c, p, m) => q \in PAG_LOG_INIT_DATA .. FirstPage - 1
    BY <1>3, <1>4, Pages, Sizes DEF In
  <2> QED
    BY <1>1, <2>1 DEF Absent, NoData
<1>8. pagusr_table' = pagusr_table
  BY <1>1, <1>5, <1>6, <1>7, UnmapNothing
<1>9. free' = free
  BY <1>1, GivenBack DEF fork_no_frames
<1> QED
  BY <1>8, <1>9

\* sys_memRegGet(INT_MAX).
LEMMA WrappedStep ==
  ASSUME MemOK, Running, NEW t \in Tasks, memRegGet_wrapped(t), Running'
  PROVE  MemOK'
<1>1. /\ Tables(pagusr_table, free, spaces, lost) /\ StacksFit(stacks, spaces, has_threads)
      /\ RegionsFit(memoria, spaces) /\ Areas(pagusr_table, stacks, memoria, clobbered)
      /\ head \in [Slot -> Int] /\ spaces \subseteq Slot \ {0}
  BY DEF MemOK, Tables, Typed
<1>2. t \in Slot /\ space_of(t) \in spaces
  BY <1>1, TaskSpace
<1>3. PICK s \in spaces : s = space_of(t)
  BY <1>2
<1> DEFINE here == {r \in memoria : r.space = s /\ r.page = FirstPage}
           size == IF here = {} THEN 0 ELSE (CHOOSE r \in here : TRUE).num
           r == [space |-> s, page |-> FirstPage, num |-> size, task |-> t,
                 tam |-> -INT_MAX - 1, next |-> 0, prev |-> 0]
<1>4. /\ Joined(memoria', memoria \ here, r, HeadOf(t), head[t], s, head[t], FirstPage)
      /\ head' = [head EXCEPT ![t] = FirstPage]
      /\ UNCHANGED <<free, pagusr_table, spaces, stacks, has_threads, mmu, lost, clobbered>>
  <2>1. /\ link(memoria \ here, t,
                [space |-> s, page |-> FirstPage, task |-> t, num |-> size,
                 tam |-> -INT_MAX - 1, next |-> 0, prev |-> 0])
        /\ UNCHANGED <<free, pagusr_table, spaces, stacks, has_threads, mmu, lost, clobbered>>
    BY <1>3, Zenon DEF memRegGet_wrapped, Running, harm
  <2> QED
    BY <2>1 DEF link, Joined
<1>5. RegionsFit(memoria \ here, spaces) /\ Areas(pagusr_table, stacks, memoria \ here, clobbered)
  <2>1. memoria \ here \subseteq memoria
    OBVIOUS
  <2>2. Areas(pagusr_table, stacks, memoria \ here, clobbered)
    BY <1>1, <2>1, FewerAreas
  <2> QED
    BY <1>1, <2>1, <2>2 DEF RegionsFit
<1>6. FirstPage \in UserPage
  BY Sizes DEF UserPage
<1>7. CASE here = {}
  <2>1. size = 0
    BY <1>7
  <2>2. Fits(r, spaces)
    BY <2>1, <1>2, <1>6, Sizes, MemoryAssumption DEF Fits, Node, Slot
  <2>3. Alone(pagusr_table, stacks, memoria \ here, r, clobbered)
    BY <2>1, Pages, Sizes DEF Alone, Holds
  <2> HIDE DEF r, here
  <2>4. HeadOf(t) \in Int /\ head[t] \in Int /\ FirstPage \in Int
    BY <1>1, <1>2, Sizes DEF HeadOf, Slot
  <2> QED
    <3>1. RegionsFit(memoria', spaces) /\ Areas(pagusr_table, stacks, memoria', clobbered)
      BY <1>4, <1>5, <2>2, <2>3, <2>4, Linked
    <3>2. head' \in [Slot -> Int]
      BY <1>1, <1>4, <2>4
    <3> QED
      BY <3>1, <3>2, <1>4 DEF MemOK, mmu
<1>8. CASE here # {}
  <2>1. PICK x \in here : size = x.num
    BY <1>8
  <2>2. x \in memoria /\ x.space = s /\ x.page = FirstPage
    OBVIOUS
  <2>3. x \in Node(spaces) /\ x.page + x.num < TOTAL_PAGES
    BY <1>1, <2>2 DEF RegionsFit, Node
  <2>4. Fits(r, spaces)
    BY <2>1, <2>2, <2>3, <1>2, <1>6, Sizes, MemoryAssumption DEF Fits, Node, Slot
  <2>5. \A u, q : Holds(r, u, q) <=> Holds(x, u, q)
    BY <2>1, <2>2 DEF Holds
  <2>6. x \notin memoria \ here
    OBVIOUS
  <2> HIDE DEF r, here
  <2>7. Alone(pagusr_table, stacks, memoria \ here, r, clobbered)
    <3>1. /\ Kept(pagusr_table, memoria, clobbered) /\ Apart(stacks, memoria, clobbered)
          /\ ApartInside(memoria, clobbered)
      BY <1>1 DEF Areas
    <3> QED
      BY <3>1, <2>2, <2>5, <2>6 DEF Alone, Kept, Apart, ApartInside
  <2>8. HeadOf(t) \in Int /\ head[t] \in Int /\ FirstPage \in Int
    BY <1>1, <1>2, Sizes DEF HeadOf, Slot
  <2> QED
    <3>1. RegionsFit(memoria', spaces) /\ Areas(pagusr_table, stacks, memoria', clobbered)
      BY <1>4, <1>5, <2>4, <2>7, <2>8, Linked
    <3>2. head' \in [Slot -> Int]
      BY <1>1, <1>4, <2>8
    <3> QED
      BY <3>1, <3>2, <1>4 DEF MemOK, mmu
<1> QED
  BY <1>7, <1>8

\* sys_memRegDel.
LEMMA DelStep ==
  ASSUME MemOK, Running, NEW r \in memoria, memRegDel(r), Running'
  PROVE  MemOK'
<1>1. /\ Tables(pagusr_table, free, spaces, lost) /\ StacksFit(stacks, spaces, has_threads)
      /\ RegionsFit(memoria, spaces) /\ Areas(pagusr_table, stacks, memoria, clobbered)
      /\ head \in [Slot -> Int] /\ spaces \subseteq Slot \ {0}
  BY DEF MemOK, Tables, Typed
<1>2. r \in Node(spaces) /\ r.page + r.num < TOTAL_PAGES /\ (r.tam = r.num \/ r.tam < 0)
  BY <1>1 DEF RegionsFit, Node
<1>3. /\ r.space \in spaces /\ r.space \in Slot /\ r.page \in UserPage /\ r.num \in Nat
      /\ r.tam \in Int /\ r.next \in Int /\ r.prev \in Int
  BY <1>1, <1>2 DEF Node
<1>4. PICK s \in spaces, p \in UserPage, n \in Int : s = r.space /\ p = r.page /\ n = r.tam
  BY <1>3
<1>5. p + n <= TOTAL_PAGES
  BY <1>2, <1>3, <1>4, Pages, Sizes
<1>6. /\ r.space = cr3
      /\ free' = free_frames(free, frames_at(pagusr_table, at(s, p), n))
      /\ pagusr_table' = del_ss_pags(pagusr_table, at(s, p), n)
      /\ unlink(r, nodes_in(s, p, n))
      /\ stale' = {}
      /\ UNCHANGED <<spaces, stacks, has_threads, cr3, lost, clobbered>>
  BY <1>4 DEF memRegDel, Running, harm
<1> DEFINE rest == memoria \ (nodes_in(s, p, n) \cup {r})
<1>0. rest \subseteq memoria /\ r \notin rest
  OBVIOUS
<1> HIDE DEF rest
<1>7. AreaGiven(pagusr_table', free', pagusr_table, free, spaces, lost, s, p, n)
  BY <1>1, <1>5, <1>6, AreaUnmapped
<1>8. Areas(pagusr_table', stacks, rest, clobbered)
  <2>1. \A x \in stacks \cup rest, u \in Slot \ clobbered, q \in UserPage :
          Holds(x, u, q) => ~ Holds(r, u, q)
    BY <1>0, <1>1 DEF Areas, Apart, ApartInside
  <2>2. \A u \in Slot, q \in UserPage : In(u, q, s, p, n) => Holds(r, u, q)
    <3> SUFFICES ASSUME NEW u \in Slot, NEW q \in UserPage, In(u, q, s, p, n)
                 PROVE  Holds(r, u, q)
      OBVIOUS
    <3>1. u = s /\ p <= q /\ q < p + n
      BY DEF In
    <3>2. ~ (n < 0)
      BY <3>1, Pages
    <3> QED
      BY <3>1, <3>2, <1>2, <1>4 DEF Holds
  <2>3. \A u \in Slot, q \in Page : ~ In(u, q, s, p, n) =>
          pagusr_table'[at(u, q)] = pagusr_table[at(u, q)]
    BY <1>7 DEF AreaGiven
  <2>4. \A x \in stacks \cup rest, u \in Slot \ clobbered, q \in UserPage :
          Holds(x, u, q) /\ pagusr_table[at(u, q)] # NotPresent
            => pagusr_table'[at(u, q)] # NotPresent
    BY <2>1, <2>2, <2>3, Pages
  <2> QED
    BY <1>0, <1>1, <2>4, FewerAreas
<1>9. RegionsFit(rest, spaces)
  BY <1>0, <1>1 DEF RegionsFit
<1>10. RegionsFit(memoria', spaces) /\ Areas(pagusr_table', stacks, memoria', clobbered)
  <2> DEFINE M == store_prev(rest, r.space, r.next, r.prev)
  <2>1. RegionsFit(M, spaces) /\ Areas(pagusr_table', stacks, M, clobbered)
    BY <1>3, <1>8, <1>9, PrevStored
  <2>2. memoria' = store_next(M, r.space, r.prev, r.next)
    BY <1>6 DEF unlink, rest
  <2> HIDE DEF M
  <2> QED
    BY <2>1, <2>2, <1>3, NextStored
<1>11. head' \in [Slot -> Int]
  BY <1>1, <1>3, <1>6 DEF unlink
<1>12. stale' \subseteq Page \X Frame /\ AtHome(pagusr_table', free', cr3', stale')
  BY <1>6 DEF AtHome
<1> QED
  BY <1>1, <1>3, <1>6, <1>7, <1>10, <1>11, <1>12 DEF MemOK, AreaGiven

\* sys_threadCreateWithStack.
LEMMA CreateStep ==
  ASSUME MemOK, Running, NEW t \in Tasks, space_of(t) = cr3, NEW c \in FreeSlots,
         NEW N \in StackSizes, threadCreate(t, c, N), Running'
  PROVE  MemOK'
<1>1. /\ Tables(pagusr_table, free, spaces, lost) /\ StacksFit(stacks, spaces, has_threads)
      /\ RegionsFit(memoria, spaces) /\ Areas(pagusr_table, stacks, memoria, clobbered)
      /\ head \in [Slot -> Int] /\ stale \subseteq Page \X Frame
      /\ AtHome(pagusr_table, free, cr3, stale)
      /\ spaces \subseteq Slot \ {0} /\ free \subseteq Frame
  BY DEF MemOK, Tables, Typed
<1>2. PICK n \in Int : n = N
  BY MemoryAssumption
<1>3. /\ t \in Slot /\ c \in Slot /\ cr3 \in spaces
      /\ t \notin spaces => cr3 \in has_threads
  BY <1>1, TaskSpace DEF FreeSlots
<1>4. PICK s \in spaces : s = cr3
  BY <1>3
<1>5. s \in Slot
  BY <1>1
<1>6. PICK p \in Gaps(s, n), a \in alloc_frames(n) :
        /\ pagusr_table' = set_ss_pags(pagusr_table, at(s, p), a)
        /\ free' = free \ Range(a)
        /\ stacks' = stacks \cup {[slot |-> c, space |-> s, page |-> p, num |-> n]}
        /\ remap(p, a)
  BY <1>2, <1>4, Zenon DEF threadCreate, new_stack
<1>7. /\ head' = [head EXCEPT ![c] = INIT_LIST_HEAD(c)]
      /\ has_threads' = IF t \in spaces THEN has_threads \cup {t} ELSE has_threads
      /\ UNCHANGED <<spaces, memoria, cr3, lost, clobbered>>
  BY DEF threadCreate, new_stack, Running, harm
<1>8. /\ p \in UserPage /\ p + n < TOTAL_PAGES /\ Absent(pagusr_table, s, p, n)
      /\ Fresh(a, n, free)
  BY <1>1, <1>5, GapFacts, AllocFacts
<1>9. /\ Tables(pagusr_table', free', spaces, lost)
      /\ \A u \in Slot, q \in Page : pagusr_table[at(u, q)] # NotPresent
                                       => pagusr_table'[at(u, q)] # NotPresent
      /\ \A q \in Page : In(s, q, s, p, n) => pagusr_table'[at(s, q)] # NotPresent
      /\ \A X : X \subseteq Page \X Frame /\ AtHome(pagusr_table, free, s, X)
                  => AtHome(pagusr_table', free', s, X)
  <2>1. Tables(pagusr_table, free, spaces, lost) /\ p \in UserPage /\ n \in Int
    BY <1>1, <1>8
  <2>2. GapTaken(pagusr_table', free', pagusr_table, free, spaces, lost, s, p, n)
    BY <2>1, <1>6, <1>8, GapMapped
  <2> QED
    BY <2>2 DEF GapTaken
<1> DEFINE k == [slot |-> c, space |-> s, page |-> p, num |-> n]
<1>10. \A u \in Slot \ clobbered, q \in UserPage : Holds(k, u, q) =>
         pagusr_table'[at(u, q)] # NotPresent /\ \A x \in stacks \cup memoria : ~ Holds(x, u, q)
  <2>1. \A u, q : Holds(k, u, q) <=> In(u, q, s, p, n)
    BY DEF Holds, In
  <2>2. \A u \in Slot \ clobbered, q \in UserPage :
          In(u, q, s, p, n) => \A x \in stacks \cup memoria : ~ Holds(x, u, q)
    BY <1>1, <1>5, <1>8, GapIsNobodys
  <2>3. \A u, q : In(u, q, s, p, n) => u = s
    BY DEF In
  <2> QED
    BY <2>1, <2>2, <2>3, <1>9, Pages
<1>11. Areas(pagusr_table', stacks, memoria, clobbered)
  BY <1>1, <1>9, Pages, FewerAreas
<1>12. Areas(pagusr_table', stacks', memoria, clobbered)
  <2>1. stacks' = stacks \cup {k}
    BY <1>6
  <2> HIDE DEF k
  <2> QED
    BY <2>1, <1>10, <1>11, OneStackMore
<1>13. StacksFit(stacks', spaces, has_threads')
  <2>1. s \in has_threads' /\ has_threads \subseteq has_threads' /\ has_threads' \subseteq spaces
    <3>1. has_threads \subseteq spaces
      BY <1>1 DEF StacksFit
    <3>2. t \in spaces => t = s
      BY <1>4 DEF space_of
    <3> QED
      BY <3>1, <3>2, <1>3, <1>4, <1>7
  <2>2. k \in [slot : Slot, space : has_threads', page : UserPage, num : Int]
    BY <2>1, <1>3, <1>8
  <2>3. stacks' = stacks \cup {k} /\ k.page + k.num < TOTAL_PAGES
    BY <1>6, <1>8
  <2> HIDE DEF k
  <2>4. /\ stacks \subseteq [slot : Slot, space : has_threads, page : UserPage, num : Int]
        /\ \A x \in stacks : x.page + x.num < TOTAL_PAGES
    BY <1>1 DEF StacksFit
  <2>5. ASSUME NEW x \in stacks
        PROVE  x \in [slot : Slot, space : has_threads', page : UserPage, num : Int]
    BY <2>1, <2>4
  <2> QED
    BY <2>1, <2>2, <2>3, <2>4, <2>5 DEF StacksFit
<1>14. head' \in [Slot -> Int]
  BY <1>1, <1>3, <1>7 DEF INIT_LIST_HEAD, HeadOf, Slot
<1>15. stale' \subseteq stale
  BY <1>6 DEF remap
<1>16. stale' \subseteq Page \X Frame /\ AtHome(pagusr_table', free', cr3, stale')
  <2>1. AtHome(pagusr_table', free', s, stale)
    BY <1>1, <1>4, <1>9
  <2> QED
    BY <2>1, <1>1, <1>4, <1>15 DEF AtHome
<1> QED
  BY <1>1, <1>3, <1>7, <1>9, <1>12, <1>13, <1>14, <1>16 DEF MemOK

\* terminate_thread.
LEMMA EndStep ==
  ASSUME MemOK, Running, NEW k \in stacks, terminate_thread(k)
  PROVE  MemOK'
<1>1. /\ Tables(pagusr_table, free, spaces, lost) /\ StacksFit(stacks, spaces, has_threads)
      /\ RegionsFit(memoria, spaces) /\ Areas(pagusr_table, stacks, memoria, clobbered)
      /\ head \in [Slot -> Int] /\ stale \subseteq Page \X Frame
      /\ AtHome(pagusr_table, free, cr3, stale)
      /\ pagusr_table \in [Entry -> Frame \cup {NotPresent}]
      /\ spaces \subseteq Slot \ {0}
  BY DEF MemOK, Tables, Typed
<1>2. /\ k.slot \in Slot /\ k.space \in spaces /\ k.page \in UserPage /\ k.num \in Int
      /\ k.page + k.num < TOTAL_PAGES
  <2>1. /\ k \in [slot : Slot, space : has_threads, page : UserPage, num : Int]
        /\ has_threads \subseteq spaces /\ k.page + k.num < TOTAL_PAGES
    BY <1>1 DEF StacksFit
  <2> QED
    BY <2>1
<1>3. PICK s \in spaces, p \in UserPage, n \in Int : s = k.space /\ p = k.page /\ n = k.num
  BY <1>2
<1>4. s \in Slot /\ p + n <= TOTAL_PAGES /\ p \in Int
  BY <1>1, <1>2, <1>3, Pages, Sizes
<1>5. /\ s = cr3
      /\ free' = free_frames(free, frames_at(pagusr_table, at(s, p), n))
      /\ pagusr_table' = del_ss_pags(pagusr_table, at(s, p), n)
      /\ stacks' = stacks \ {k}
      /\ memoria' = {IF r.task = k.slot THEN [r EXCEPT !.task = Gone] ELSE r :
                       r \in memoria \ nodes_in(s, p, n)}
      /\ stale' = stale \cup {<<q, pagusr_table[at(s, q)]>> :
                     q \in {x \in p .. p + n - 1 : ~ Faults(pagusr_table, s, x)}}
      /\ head' = [head EXCEPT ![k.slot] = INIT_LIST_HEAD(k.slot)]
      /\ UNCHANGED <<spaces, has_threads, cr3, lost, clobbered>>
  BY <1>3 DEF terminate_thread, harm
<1> DEFINE rest == memoria \ nodes_in(s, p, n)
<1>0. rest \subseteq memoria
  OBVIOUS
<1> HIDE DEF rest
<1>6. AreaGiven(pagusr_table', free', pagusr_table, free, spaces, lost, s, p, n)
  BY <1>1, <1>4, <1>5, AreaUnmapped
<1>7. \A u, q : Holds(k, u, q) <=> In(u, q, s, p, n)
  BY <1>3 DEF Holds, In
<1>8. Areas(pagusr_table', stacks', rest, clobbered)
  <2>1. \A x \in stacks' \cup rest, u \in Slot \ clobbered, q \in UserPage :
          Holds(x, u, q) => ~ Holds(k, u, q)
    BY <1>0, <1>1, <1>5 DEF Areas, Apart, ApartInside
  <2>2. \A u \in Slot, q \in Page : ~ In(u, q, s, p, n) =>
          pagusr_table'[at(u, q)] = pagusr_table[at(u, q)]
    BY <1>6 DEF AreaGiven
  <2>3. \A x \in stacks' \cup rest, u \in Slot \ clobbered, q \in UserPage :
          Holds(x, u, q) /\ pagusr_table[at(u, q)] # NotPresent
            => pagusr_table'[at(u, q)] # NotPresent
    BY <2>1, <2>2, <1>7, Pages
  <2>4. PICK K2, PT2 : K2 = stacks' /\ PT2 = pagusr_table'
    OBVIOUS
  <2>5. \A x \in K2 \cup rest, u \in Slot \ clobbered, q \in UserPage :
          Holds(x, u, q) /\ pagusr_table[at(u, q)] # NotPresent => PT2[at(u, q)] # NotPresent
    BY <2>3, <2>4
  <2>6. K2 \subseteq stacks /\ Areas(pagusr_table, stacks, memoria, clobbered)
    BY <2>4, <1>1, <1>5
  <2>7. Areas(PT2, K2, rest, clobbered)
    BY <1>0, <2>5, <2>6, FewerAreas
  <2> QED
    BY <2>4, <2>7
<1>9. RegionsFit(memoria', spaces) /\ Areas(pagusr_table', stacks', memoria', clobbered)
  <2>1. PICK t, PT2, K2 : t = k.slot /\ PT2 = pagusr_table' /\ K2 = stacks'
    OBVIOUS
  <2>4. RegionsFit(rest, spaces)
    BY <1>0, <1>1 DEF RegionsFit
  <2>2. /\ RegionsFit(rest, spaces) /\ Areas(PT2, K2, rest, clobbered)
        /\ memoria' = Abandoned(rest, t)
    BY <2>1, <2>4, <1>5, <1>8 DEF Abandoned, rest
  <2>3. /\ RegionsFit(Abandoned(rest, t), spaces)
        /\ Areas(PT2, K2, Abandoned(rest, t), clobbered)
    BY <2>2, NodesLeft
  <2> QED
    BY <2>1, <2>2, <2>3
<1>10. StacksFit(stacks', spaces, has_threads)
  BY <1>1, <1>5 DEF StacksFit
<1>11. head' \in [Slot -> Int]
  BY <1>1, <1>2, <1>5 DEF INIT_LIST_HEAD, HeadOf, Slot
<1>12. \A q \in {x \in p .. p + n - 1 : ~ Faults(pagusr_table, s, x)} :
         /\ q \in Page /\ pagusr_table[at(s, q)] \in Frame /\ pagusr_table[at(s, q)] \in free'
  <2> SUFFICES ASSUME NEW q \in {x \in p .. p + n - 1 : ~ Faults(pagusr_table, s, x)}
               PROVE  /\ q \in Page /\ pagusr_table[at(s, q)] \in Frame
                      /\ pagusr_table[at(s, q)] \in free'
    OBVIOUS
  <2>1. q \in UserPage /\ q \in Page /\ In(s, q, s, p, n)
    BY <1>4, Pages, Sizes DEF UserPage, Page, In
  <2>2. pagusr_table[at(s, q)] # NotPresent
    BY <2>1, <1>4, Pages DEF Faults
  <2>3. pagusr_table[at(s, q)] \in Frame
    BY <2>1, <2>2, <1>1, <1>4, AtEntry
  <2>4. pagusr_table[at(s, q)] \in free'
    BY <2>1, <2>2, <1>6 DEF AreaGiven
  <2> QED
    BY <2>1, <2>3, <2>4
<1>13. stale' \subseteq Page \X Frame
  BY <1>1, <1>5, <1>12
<1>14. AtHome(pagusr_table', free', cr3, stale')
  <2>1. AtHome(pagusr_table', free', s, stale)
    BY <1>1, <1>5, <1>6 DEF AreaGiven
  <2>2. \A x \in stale' : x \in stale \/ x[2] \in free'
    BY <1>5, <1>12
  <2> QED
    BY <2>1, <2>2, <1>5 DEF AtHome
<1> QED
  BY <1>1, <1>2, <1>5, <1>6, <1>9, <1>10, <1>11, <1>13, <1>14 DEF MemOK, AreaGiven

\* sys_exit of a process.
LEMMA ExitStep ==
  ASSUME MemOK, Running, cr3 \in spaces, exit(cr3)
  PROVE  MemOK'
<1>1. /\ Tables(pagusr_table, free, spaces, lost) /\ StacksFit(stacks, spaces, has_threads)
      /\ RegionsFit(memoria, spaces) /\ Areas(pagusr_table, stacks, memoria, clobbered)
      /\ head \in [Slot -> Int] /\ spaces \subseteq Slot \ {0}
  BY DEF MemOK, Tables, Typed
<1>2. PICK s \in spaces, p \in DataPage, n \in Int :
        s = cr3 /\ p = PAG_LOG_INIT_DATA /\ n = NUM_PAG_DATA
  BY Sizes DEF DataPage
<1>3. Span(s, p, n) /\ s \in Slot
  BY <1>1, <1>2, Pages, Sizes DEF Span
<1>4. /\ s \notin has_threads
      /\ free' = free_frames(free, frames_at(pagusr_table, at(s, p), n))
      /\ pagusr_table' = del_ss_pags(pagusr_table, at(s, p), n)
      /\ spaces' = spaces \ {s}
      /\ memoria' = {r \in memoria : r.space # s}
      /\ head' = [head EXCEPT ![s] = INIT_LIST_HEAD(s)]
      /\ cr3' \in (IF spaces' = {} THEN {0} ELSE spaces')
      /\ stale' = {}
      /\ clobbered' = clobbered \ {s} /\ lost' = lost
      /\ UNCHANGED <<stacks, has_threads>>
  BY <1>2 DEF exit
<1>5. Tables(pagusr_table', free', spaces, lost)
  BY <1>1, <1>3, <1>4, UnmapPages
<1>6. \A u \in Slot, q \in Page :
        /\ In(u, q, s, p, n) => pagusr_table'[at(u, q)] = NotPresent
        /\ ~ In(u, q, s, p, n) => pagusr_table'[at(u, q)] = pagusr_table[at(u, q)]
  <2>1. WithCleared(pagusr_table', pagusr_table, s, p, n)
    BY <1>3, <1>4, DelPages
  <2> QED
    BY <2>1 DEF WithCleared
<1>7. Tables(pagusr_table', free', spaces', lost)
  <2>1. Typed(pagusr_table', free', spaces')
    BY <1>4, <1>5 DEF Tables, Typed
  <2>2. KernelAndCode(pagusr_table', spaces')
    <3>1. KernelAndCode(pagusr_table', spaces) /\ spaces' \subseteq spaces
      BY <1>4, <1>5 DEF Tables
    <3> QED
      BY <3>1 DEF KernelAndCode
  <2>3. NoData(pagusr_table', spaces')
    <3> SUFFICES ASSUME NEW u \in Slot \ spaces',
                        NEW q \in PAG_LOG_INIT_DATA .. FirstPage - 1
                 PROVE  pagusr_table'[at(u, q)] = NotPresent
      BY DEF NoData
    <3>1. CASE u = s
      <4>1. q \in Page /\ In(u, q, s, p, n)
        BY <3>1, <1>2, Pages, Sizes DEF In
      <4> QED
        BY <4>1, <1>6
    <3>2. CASE u # s
      <4>1. u \in Slot \ spaces
        BY <3>2, <1>4
      <4> QED
        BY <4>1, <1>5 DEF Tables, NoData
    <3> QED
      BY <3>1, <3>2
  <2> QED
    BY <2>1, <2>2, <2>3, <1>5 DEF Tables
<1>8. StacksFit(stacks', spaces', has_threads')
  BY <1>1, <1>4 DEF StacksFit
<1>9. RegionsFit(memoria', spaces')
  <2>1. /\ memoria \subseteq Node(spaces)
        /\ \A r \in memoria : r.page + r.num < TOTAL_PAGES /\ (r.tam = r.num \/ r.tam < 0)
    BY <1>1 DEF RegionsFit, Node
  <2>2. ASSUME NEW r \in memoria' PROVE r \in Node(spaces')
    <3>1. r \in memoria /\ r.space # s
      BY <1>4
    <3>2. r \in Node(spaces)
      BY <2>1, <3>1
    <3> QED
      BY <3>1, <3>2, <1>4 DEF Node
  <2>3. memoria' \subseteq memoria
    BY <1>4
  <2> QED
    BY <2>1, <2>2, <2>3 DEF RegionsFit, Node
<1>10. Areas(pagusr_table', stacks', memoria', clobbered \ {s})
  <2>1. \A u \in Slot, q \in UserPage : q \in Page /\ ~ In(u, q, s, p, n)
    BY <1>2, Pages, Sizes DEF In
  <2>2. stacks' \subseteq stacks /\ memoria' \subseteq memoria
    BY <1>4
  <2>4. PICK K2, R2, PT2 : K2 = stacks' /\ R2 = memoria' /\ PT2 = pagusr_table'
    OBVIOUS
  <2>3. \A x \in stacks' \cup memoria', u \in Slot, q \in UserPage :
          Holds(x, u, q) /\ pagusr_table[at(u, q)] # NotPresent
            => pagusr_table'[at(u, q)] # NotPresent
    BY <2>1, <1>6
  <2> QED
    <3>1. Areas(PT2, K2, R2, clobbered)
      BY <1>1, <2>2, <2>3, <2>4, FewerAreas
    <3>2. \A x \in K2 : x.space \in has_threads
      BY <1>1, <1>4, <2>4 DEF StacksFit
    <3>3. \A x \in K2 \cup R2 : x.space # s
      BY <3>2, <1>4, <2>4
    <3>4. Areas(PT2, K2, R2, clobbered \ {s})
      BY <3>1, <3>3, AreasWithout
    <3> QED
      BY <3>4, <2>4
<1>11. head' \in [Slot -> Int]
  BY <1>1, <1>3, <1>4 DEF INIT_LIST_HEAD, HeadOf, Slot
<1>12. stale' \subseteq Page \X Frame /\ AtHome(pagusr_table', free', cr3', stale')
  BY <1>4 DEF AtHome
<1>13. cr3' \in spaces' \cup {0}
  BY <1>4
<1> QED
  BY <1>4, <1>7, <1>8, <1>9, <1>10, <1>11, <1>12, <1>13 DEF MemOK

(* What the tables are when sys_fork has made child c of s from the frames a,
   and what it leaves of the rest. *)
LEMMA ForkedTables ==
  ASSUME MemOK, NEW s \in spaces, NEW c \in FreeSlots, NEW a \in alloc_frames(NUM_PAG_DATA),
         NEW PT2, PT2 = child_table(s, c, a)
  PROVE  /\ Tables(PT2, free \ Range(a), spaces \cup {c}, lost)
         /\ \A u \in Slot, q \in UserPage : u # c => PT2[at(u, q)] = pagusr_table[at(u, q)]
<1>1. /\ Tables(pagusr_table, free, spaces, lost)
      /\ spaces \subseteq Slot \ {0} /\ free \subseteq Frame
  BY DEF MemOK, Tables, Typed
<1>2. c \in Slot \ {0} /\ c \notin spaces /\ s \in Slot /\ c \in Slot
  BY <1>1 DEF FreeSlots
<1>3. PT2 = ChildOf(pagusr_table, s, c, a)
  BY ChildIs
<1>4. Fresh(a, NUM_PAG_DATA, free)
  <2>1. NUM_PAG_DATA \in Int
    BY Sizes
  <2> QED
    BY <2>1, <1>1, AllocFacts
<1>5. Tables(PT2, free \ Range(a), spaces \cup {c}, lost)
  BY <1>1, <1>2, <1>3, <1>4, ChildTables
<1>6. ASSUME NEW u \in Slot, NEW q \in UserPage, u # c
      PROVE  PT2[at(u, q)] = pagusr_table[at(u, q)]
  <2>1. Span(c, PAG_LOG_INIT_DATA, NUM_PAG_DATA) /\ Long(a, NUM_PAG_DATA)
    BY <1>2, <1>4, Sizes DEF Span, Page, Fresh, Long
  <2> DEFINE D == set_ss_pags(pagusr_table, at(c, PAG_LOG_INIT_DATA), a)
  <2>2. WithSet(D, pagusr_table, c, PAG_LOG_INIT_DATA, NUM_PAG_DATA, a)
    BY <2>1, SetPages
  <2>3. q \in Page /\ ~ In(u, q, c, PAG_LOG_INIT_DATA, NUM_PAG_DATA)
    BY <1>6, Pages DEF In
  <2>4. ChildOf(pagusr_table, s, c, a)[at(u, q)] = D[at(u, q)]
    BY <2>3, <1>2, <1>6, ChildPages
  <2> QED
    BY <2>2, <2>3, <2>4, <1>3 DEF WithSet
<1> QED
  BY <1>5, <1>6

\* Nothing but tables and areas of a fork's caller changes when c gets a process.
LEMMA ForkedRest ==
  ASSUME MemOK, NEW t \in Tasks, NEW c \in FreeSlots, fork_task(t, c),
         memoria' \subseteq memoria, stale' = {}
  PROVE  /\ StacksFit(stacks', spaces', has_threads') /\ RegionsFit(memoria', spaces')
         /\ head' \in [Slot -> Int] /\ cr3' \in spaces' \cup {0}
         /\ stale' \subseteq Page \X Frame /\ AtHome(pagusr_table', free', cr3', stale')
         /\ \A x \in stacks \cup memoria : x.space # c
<1>1. /\ StacksFit(stacks, spaces, has_threads) /\ RegionsFit(memoria, spaces)
      /\ head \in [Slot -> Int] /\ cr3 \in spaces \cup {0} /\ spaces \subseteq Slot \ {0}
  BY DEF MemOK, Tables, Typed
<1>2. c \notin spaces /\ t \in Slot
  BY <1>1, TaskSpace DEF FreeSlots
<1>3. /\ spaces' = spaces \cup {c}
      /\ head' = [head EXCEPT ![c] = head[t]]
      /\ UNCHANGED <<stacks, has_threads, cr3>>
  BY DEF fork_task
<1>4. \A x \in stacks \cup memoria : x.space # c
  <2>1. \A x \in stacks : x.space \in spaces
    BY <1>1 DEF StacksFit
  <2>2. \A x \in memoria : x.space \in spaces
    BY <1>1 DEF RegionsFit
  <2> QED
    BY <2>1, <2>2, <1>2
<1>5. StacksFit(stacks', spaces', has_threads')
  BY <1>1, <1>3 DEF StacksFit
<1>6. RegionsFit(memoria', spaces')
  <2>1. memoria \subseteq Node(spaces)
    BY <1>1 DEF RegionsFit, Node
  <2>2. Node(spaces) \subseteq Node(spaces')
    BY <1>3 DEF Node
  <2> QED
    BY <2>1, <2>2, <1>1 DEF RegionsFit, Node
<1>7. head' \in [Slot -> Int] /\ cr3' \in spaces' \cup {0}
  BY <1>1, <1>2, <1>3
<1> QED
  BY <1>4, <1>5, <1>6, <1>7 DEF AtHome

\* sys_fork through pages that are not mapped.
LEMMA ForkStep ==
  ASSUME MemOK, Running, NEW t \in Tasks, NEW c \in FreeSlots, fork(t, c)
  PROVE  MemOK'
<1>1. /\ StacksFit(stacks, spaces, has_threads) /\ spaces \subseteq Slot \ {0}
      /\ Areas(pagusr_table, stacks, memoria, clobbered)
  BY DEF MemOK, Tables, Typed
<1>2. PICK s \in spaces : s = space_of(t)
  BY <1>1, TaskSpace
<1>3. PICK a \in alloc_frames(NUM_PAG_DATA) :
        /\ pagusr_table' = child_table(s, c, a)
        /\ free' = free \ Range(a)
        /\ stale' = {}
  BY <1>2, Zenon DEF fork, flush
<1>4. fork_task(t, c) /\ UNCHANGED <<memoria, lost, clobbered>>
  BY DEF fork, harm
<1>5. /\ Tables(pagusr_table', free', spaces \cup {c}, lost)
      /\ \A u \in Slot, q \in UserPage :
           u # c => pagusr_table'[at(u, q)] = pagusr_table[at(u, q)]
  BY <1>3, ForkedTables
<1>6. /\ StacksFit(stacks', spaces', has_threads') /\ RegionsFit(memoria', spaces')
      /\ head' \in [Slot -> Int] /\ cr3' \in spaces' \cup {0}
      /\ stale' \subseteq Page \X Frame /\ AtHome(pagusr_table', free', cr3', stale')
      /\ \A x \in stacks \cup memoria : x.space # c
  BY <1>3, <1>4, ForkedRest
<1>7. spaces' = spaces \cup {c} /\ stacks' = stacks
  BY <1>4 DEF fork_task
<1>8. Areas(pagusr_table', stacks, memoria, clobbered)
  <2>1. \A x \in stacks \cup memoria, u \in Slot \ clobbered, q \in UserPage :
          Holds(x, u, q) /\ pagusr_table[at(u, q)] # NotPresent
            => pagusr_table'[at(u, q)] # NotPresent
    BY <1>5, <1>6 DEF Holds
  <2> QED
    BY <2>1, <1>1, FewerAreas
<1> QED
  BY <1>4, <1>5, <1>6, <1>7, <1>8 DEF MemOK

(* sys_fork through mapped pages of the caller: their frames are lost, and its
   stacks and regions do not count any more. *)
LEMMA ClobberStep ==
  ASSUME MemOK, Running, NEW t \in Tasks, NEW c \in FreeSlots, fork_clobbers(t, c)
  PROVE  MemOK'
<1>1. /\ StacksFit(stacks, spaces, has_threads) /\ spaces \subseteq Slot \ {0}
      /\ Areas(pagusr_table, stacks, memoria, clobbered)
  BY DEF MemOK, Tables, Typed
<1>2. PICK s \in spaces : s = space_of(t)
  BY <1>1, TaskSpace
<1>3. PICK g \in Gaps(s, NUM_PAG_DATA), a \in alloc_frames(NUM_PAG_DATA) :
        LET hit == {e \in window(s, g) : pagusr_table[e] # NotPresent}
        IN  /\ temp_page(g) + NUM_PAG_DATA <= TOTAL_PAGES
            /\ pagusr_table' = del_ss_pags(child_table(s, c, a), at(s, temp_page(g)), NUM_PAG_DATA)
            /\ free' = free \ Range(a)
            /\ lost' = lost \cup {pagusr_table[e] : e \in hit}
            /\ memoria' = memoria \ nodes_in(s, temp_page(g), NUM_PAG_DATA)
            /\ stale' = {}
  BY <1>2, Zenon DEF fork_clobbers, flush
<1>4. clobbered' = clobbered \cup {s} /\ fork_task(t, c) /\ memoria' \subseteq memoria
  BY <1>2, <1>3 DEF fork_clobbers
<1>5. s \in Slot /\ c \in Slot /\ s # c
  BY <1>1 DEF FreeSlots
<1>6. PICK n \in Int, p \in UserPage : /\ n = NUM_PAG_DATA /\ p = temp_page(g)
                                       /\ p + n <= TOTAL_PAGES
  <2>1. g \in UserPage
    BY <1>5, GapFacts, Sizes
  <2>2. temp_page(g) \in UserPage
    BY <2>1, <1>3, Sizes DEF temp_page, UserPage
  <2> QED
    BY <2>2, <1>3, Sizes
<1>7. PICK C, F2 : C = child_table(s, c, a) /\ F2 = free \ Range(a)
  OBVIOUS
<1>8. /\ Tables(C, F2, spaces \cup {c}, lost)
      /\ \A u \in Slot, q \in UserPage : u # c => C[at(u, q)] = pagusr_table[at(u, q)]
  BY <1>7, ForkedTables
<1>9. Span(s, p, n) /\ p \in DataPage
  BY <1>5, <1>6, Pages DEF Span
<1>10. \A q \in Page : In(s, q, s, p, n) /\ C[at(s, q)] # NotPresent => C[at(s, q)] \in lost'
  <2> SUFFICES ASSUME NEW q \in Page, In(s, q, s, p, n), C[at(s, q)] # NotPresent
               PROVE  C[at(s, q)] \in lost'
    OBVIOUS
  <2>1. q \in UserPage
    BY <1>6, Pages, Sizes DEF UserPage, Page, In
  <2>2. C[at(s, q)] = pagusr_table[at(s, q)]
    BY <2>1, <1>5, <1>8
  <2>3. at(s, q) \in window(s, g)
    <3>1. q - p \in 0 .. NUM_PAG_DATA - 1 /\ temp_page(g) + (q - p) = q
      BY <1>6, Pages DEF In
    <3> QED
      BY <3>1, <1>5, AtEntry DEF window
  <2> QED
    BY <2>2, <2>3, <1>3
<1>11. pagusr_table' = del_ss_pags(C, at(s, p), n) /\ lost \subseteq lost'
  BY <1>3, <1>6, <1>7
<1>12. Tables(pagusr_table', F2, spaces \cup {c}, lost')
  <2>1. PICK L2, PT2 : L2 = lost' /\ PT2 = pagusr_table'
    OBVIOUS
  <2>2. Tables(PT2, F2, spaces \cup {c}, L2)
    BY <2>1, <1>8, <1>9, <1>10, <1>11, LosePages
  <2> QED
    BY <2>1, <2>2
<1>13. \A u \in Slot \ clobbered', q \in UserPage :
         u # c => pagusr_table'[at(u, q)] = pagusr_table[at(u, q)]
  <2>1. WithCleared(pagusr_table', C, s, p, n)
    BY <1>9, <1>11, DelPages
  <2>2. \A u \in Slot \ clobbered', q \in UserPage : q \in Page /\ ~ In(u, q, s, p, n)
    BY <1>4, Pages DEF In
  <2>3. \A u \in Slot \ clobbered', q \in UserPage : pagusr_table'[at(u, q)] = C[at(u, q)]
    BY <2>1, <2>2 DEF WithCleared
  <2> QED
    BY <2>3, <1>8
<1>14. /\ StacksFit(stacks', spaces', has_threads') /\ RegionsFit(memoria', spaces')
       /\ head' \in [Slot -> Int] /\ cr3' \in spaces' \cup {0}
       /\ stale' \subseteq Page \X Frame /\ AtHome(pagusr_table', free', cr3', stale')
       /\ \A x \in stacks \cup memoria : x.space # c
  BY <1>3, <1>4, ForkedRest
<1>15. spaces' = spaces \cup {c} /\ stacks' = stacks /\ free' = F2
  BY <1>3, <1>4, <1>7 DEF fork_task
<1>16. Areas(pagusr_table', stacks, memoria', clobbered')
  <2>1. PICK B2, R2, PT2 : B2 = clobbered' /\ R2 = memoria' /\ PT2 = pagusr_table'
    OBVIOUS
  <2>2. Areas(pagusr_table, stacks, memoria, B2)
    BY <2>1, <1>1, <1>4, AreasOutside
  <2>3. \A x \in stacks \cup R2, u \in Slot \ B2, q \in UserPage :
          Holds(x, u, q) /\ pagusr_table[at(u, q)] # NotPresent => PT2[at(u, q)] # NotPresent
    BY <2>1, <1>4, <1>13, <1>14 DEF Holds
  <2>4. Areas(PT2, stacks, R2, B2)
    BY <2>1, <2>2, <2>3, <1>4, FewerAreas
  <2> QED
    BY <2>1, <2>4
<1> QED
  BY <1>12, <1>14, <1>15, <1>16 DEF MemOK
-----------------------------------------------------------------------------
\* The frames of the first process: different, and all within the memory.
LEMMA UserFrames ==
  /\ \A i \in 0 .. NUM_PAG_CODE + NUM_PAG_DATA - 1 :
       /\ NUM_PAG_KERNEL + FRAME_STEP * i \in Frame
       /\ NUM_PAG_KERNEL + FRAME_STEP * i >= NUM_PAG_KERNEL
  /\ \A i, j \in 0 .. NUM_PAG_CODE + NUM_PAG_DATA - 1 :
       NUM_PAG_KERNEL + FRAME_STEP * i = NUM_PAG_KERNEL + FRAME_STEP * j => i = j
<1> DEFINE B == NUM_PAG_CODE + NUM_PAG_DATA
<1>1. /\ B \in Nat /\ FRAME_STEP \in Nat /\ FRAME_STEP > 0
      /\ FRAME_STEP * B < TOTAL_PAGES - NUM_PAG_KERNEL
      /\ TOTAL_PAGES \in Nat /\ NUM_PAG_KERNEL \in Nat
  BY MemoryAssumption
<1> HIDE DEF B
<1>2. ASSUME NEW i \in Nat, NEW j \in Nat, i < j
      PROVE  FRAME_STEP * i \in Nat /\ FRAME_STEP * j \in Nat
             /\ FRAME_STEP * i + FRAME_STEP <= FRAME_STEP * j
  <2>1. i * FRAME_STEP + FRAME_STEP <= j * FRAME_STEP
    BY <1>1, <1>2, Rows
  <2>2. i * FRAME_STEP = FRAME_STEP * i /\ j * FRAME_STEP = FRAME_STEP * j
    BY <1>1
  <2>3. FRAME_STEP * i \in Nat /\ FRAME_STEP * j \in Nat
    BY <1>1
  <2> QED
    BY <2>1, <2>2, <2>3
<1>3. ASSUME NEW i \in 0 .. B - 1
      PROVE  /\ NUM_PAG_KERNEL + FRAME_STEP * i \in Frame
             /\ NUM_PAG_KERNEL + FRAME_STEP * i >= NUM_PAG_KERNEL
  <2>1. i \in Nat /\ i < B
    BY <1>1
  <2>2. FRAME_STEP * i \in Nat /\ FRAME_STEP * B \in Nat
        /\ FRAME_STEP * i + FRAME_STEP <= FRAME_STEP * B
    BY <2>1, <1>1, <1>2
  <2> QED
    BY <2>2, <1>1 DEF Frame
<1>4. ASSUME NEW i \in 0 .. B - 1, NEW j \in 0 .. B - 1,
             NUM_PAG_KERNEL + FRAME_STEP * i = NUM_PAG_KERNEL + FRAME_STEP * j
      PROVE  i = j
  <2>1. i \in Nat /\ j \in Nat
    BY <1>1
  <2>2. FRAME_STEP * i \in Nat /\ FRAME_STEP * j \in Nat
    BY <2>1, <1>1
  <2>3. FRAME_STEP * i = FRAME_STEP * j
    BY <2>2, <1>1, <1>4
  <2>4. CASE i < j
    BY <2>1, <2>2, <2>3, <2>4, <1>1, <1>2
  <2>5. CASE j < i
    BY <2>1, <2>2, <2>3, <2>5, <1>1, <1>2
  <2> QED
    BY <2>1, <2>4, <2>5
<1>5. ASSUME NEW i \in 0 .. NUM_PAG_CODE + NUM_PAG_DATA - 1
      PROVE  /\ NUM_PAG_KERNEL + FRAME_STEP * i \in Frame
             /\ NUM_PAG_KERNEL + FRAME_STEP * i >= NUM_PAG_KERNEL
  <2>1. i \in 0 .. B - 1
    BY Sizes DEF B
  <2> QED
    BY <2>1, <1>3
<1>6. ASSUME NEW i \in 0 .. NUM_PAG_CODE + NUM_PAG_DATA - 1,
             NEW j \in 0 .. NUM_PAG_CODE + NUM_PAG_DATA - 1,
             NUM_PAG_KERNEL + FRAME_STEP * i = NUM_PAG_KERNEL + FRAME_STEP * j
      PROVE  i = j
  <2>1. i \in 0 .. B - 1 /\ j \in 0 .. B - 1
    BY Sizes DEF B
  <2> QED
    BY <2>1, <1>4, <1>6
<1> QED
  BY <1>5, <1>6, Zenon

\* The tables that init_mm and set_user_pages leave.
LEMMA InitTables ==
  ASSUME init_mm
  PROVE  Tables(pagusr_table, free, spaces, lost)
<1>1. /\ pagusr_table = [e \in Entry |-> InitialEntry(e \div TOTAL_PAGES, e % TOTAL_PAGES)]
      /\ free = {f \in Frame : f >= NUM_PAG_KERNEL /\ \A e \in Entry : pagusr_table[e] # f}
      /\ spaces = {1}
  BY DEF init_mm
<1> DEFINE user(p) == NUM_PAG_KERNEL + FRAME_STEP * (p - PAG_LOG_INIT_CODE)
<1>2. \A s \in Slot, p \in Page : pagusr_table[at(s, p)] = InitialEntry(s, p)
  <2> SUFFICES ASSUME NEW s \in Slot, NEW p \in Page
               PROVE  pagusr_table[at(s, p)] = InitialEntry(s, p)
    OBVIOUS
  <2>1. at(s, p) \in Entry /\ at(s, p) \div TOTAL_PAGES = s /\ at(s, p) % TOTAL_PAGES = p
    BY AtEntry, AtDivMod
  <2>2. pagusr_table[at(s, p)]
          = InitialEntry(at(s, p) \div TOTAL_PAGES, at(s, p) % TOTAL_PAGES)
    BY <2>1, <1>1, Zenon
  <2> QED
    BY <2>1, <2>2, Zenon
<1>3. \A s \in Slot, p \in Page : p \in 1 .. NUM_PAG_KERNEL - 1 =>
        pagusr_table[at(s, p)] = IF p \in GuardPages THEN NotPresent ELSE p
  <2>1. \A p \in 1 .. NUM_PAG_KERNEL - 1 : p \notin PAG_LOG_INIT_CODE .. FirstPage - 1
    BY Sizes
  <2> QED
    BY <2>1, <1>2 DEF InitialEntry
<1>4. \A s \in Slot, p \in Page : p \in PAG_LOG_INIT_CODE .. FirstPage - 1 =>
        pagusr_table[at(s, p)] = IF s = 1 THEN user(p) ELSE NotPresent
  <2>1. \A p \in PAG_LOG_INIT_CODE .. FirstPage - 1 : p \notin 1 .. NUM_PAG_KERNEL - 1
    BY Sizes
  <2> QED
    BY <2>1, <1>2 DEF InitialEntry
<1>5. \A s \in Slot, p \in Page :
        p \notin 1 .. NUM_PAG_KERNEL - 1 /\ p \notin PAG_LOG_INIT_CODE .. FirstPage - 1
          => pagusr_table[at(s, p)] = NotPresent
  BY <1>2 DEF InitialEntry
<1>6. \A p \in PAG_LOG_INIT_CODE .. FirstPage - 1 :
        p \in Page /\ user(p) \in Frame /\ user(p) >= NUM_PAG_KERNEL
  <2>1. \A p \in PAG_LOG_INIT_CODE .. FirstPage - 1 :
          p \in Page /\ p - PAG_LOG_INIT_CODE \in 0 .. NUM_PAG_CODE + NUM_PAG_DATA - 1
    BY Sizes DEF Page
  <2> QED
    BY <2>1, UserFrames
<1>7. \A p, q \in PAG_LOG_INIT_CODE .. FirstPage - 1 : user(p) = user(q) => p = q
  <2>1. \A p \in PAG_LOG_INIT_CODE .. FirstPage - 1 :
          p - PAG_LOG_INIT_CODE \in 0 .. NUM_PAG_CODE + NUM_PAG_DATA - 1
    BY Sizes
  <2>2. \A p, q \in PAG_LOG_INIT_CODE .. FirstPage - 1 :
          user(p) = user(q) => p - PAG_LOG_INIT_CODE = q - PAG_LOG_INIT_CODE
    BY <2>1, UserFrames
  <2>3. \A p, q \in PAG_LOG_INIT_CODE .. FirstPage - 1 :
          p - PAG_LOG_INIT_CODE = q - PAG_LOG_INIT_CODE => p = q
    BY Sizes
  <2> QED
    BY <2>2, <2>3
<1>8. CodeFrames = {user(p) : p \in PAG_LOG_INIT_CODE .. PAG_LOG_INIT_DATA - 1}
  <2>1. \A i \in 0 .. NUM_PAG_CODE - 1 :
          /\ PAG_LOG_INIT_CODE + i \in PAG_LOG_INIT_CODE .. PAG_LOG_INIT_DATA - 1
          /\ (PAG_LOG_INIT_CODE + i) - PAG_LOG_INIT_CODE = i
    BY Sizes
  <2>2. \A p \in PAG_LOG_INIT_CODE .. PAG_LOG_INIT_DATA - 1 :
          p - PAG_LOG_INIT_CODE \in 0 .. NUM_PAG_CODE - 1
    BY Sizes
  <2>3. \A i \in 0 .. NUM_PAG_CODE - 1 :
          user(PAG_LOG_INIT_CODE + i) = NUM_PAG_KERNEL + FRAME_STEP * i
    BY <2>1
  <2> HIDE DEF user
  <2>4. \A i \in 0 .. NUM_PAG_CODE - 1 : NUM_PAG_KERNEL + FRAME_STEP * i
          \in {user(p) : p \in PAG_LOG_INIT_CODE .. PAG_LOG_INIT_DATA - 1}
    <3> SUFFICES ASSUME NEW i \in 0 .. NUM_PAG_CODE - 1
                 PROVE  \E p \in PAG_LOG_INIT_CODE .. PAG_LOG_INIT_DATA - 1 :
                          NUM_PAG_KERNEL + FRAME_STEP * i = user(p)
      OBVIOUS
    <3>1. /\ PAG_LOG_INIT_CODE + i \in PAG_LOG_INIT_CODE .. PAG_LOG_INIT_DATA - 1
          /\ user(PAG_LOG_INIT_CODE + i) = NUM_PAG_KERNEL + FRAME_STEP * i
      BY <2>1, <2>3
    <3> QED
      BY <3>1
  <2>5. \A p \in PAG_LOG_INIT_CODE .. PAG_LOG_INIT_DATA - 1 : user(p) \in CodeFrames
    BY <2>2 DEF CodeFrames, user
  <2> QED
    BY <2>4, <2>5 DEF CodeFrames
<1>9. /\ PAG_LOG_INIT_CODE .. PAG_LOG_INIT_DATA - 1 \subseteq PAG_LOG_INIT_CODE .. FirstPage - 1
      /\ PAG_LOG_INIT_DATA .. FirstPage - 1 \subseteq PAG_LOG_INIT_CODE .. FirstPage - 1
      /\ \A p \in Page : \/ p = 0 \/ p \in 1 .. NUM_PAG_KERNEL - 1
                         \/ p \in PAG_LOG_INIT_CODE .. PAG_LOG_INIT_DATA - 1
                         \/ p \in PAG_LOG_INIT_DATA .. FirstPage - 1
                         \/ p \in UserPage
      /\ \A p \in UserPage : /\ p \notin 1 .. NUM_PAG_KERNEL - 1
                             /\ p \notin PAG_LOG_INIT_CODE .. FirstPage - 1
      /\ 0 \notin 1 .. NUM_PAG_KERNEL - 1 /\ 0 \notin PAG_LOG_INIT_CODE .. FirstPage - 1
      /\ 1 \in Slot \ {0}
  BY Sizes DEF Page, UserPage, Slot
<1>10. NotPresent \notin Frame
  BY DEF NotPresent, Frame
<1> HIDE DEF user
<1>11. Typed(pagusr_table, free, spaces)
  <2>1. ASSUME NEW e \in Entry PROVE pagusr_table[e] \in Frame \cup {NotPresent}
    <3>1. PICK s \in Slot, p \in Page : e = at(s, p)
      BY EntryAt
    <3>2. CASE p \in 1 .. NUM_PAG_KERNEL - 1
      BY <3>1, <3>2, <1>3 DEF Page, Frame
    <3>3. CASE p \in PAG_LOG_INIT_CODE .. FirstPage - 1
      BY <3>1, <3>3, <1>4, <1>6
    <3>4. CASE p \notin 1 .. NUM_PAG_KERNEL - 1 /\ p \notin PAG_LOG_INIT_CODE .. FirstPage - 1
      BY <3>1, <3>4, <1>5
    <3> QED
      BY <3>2, <3>3, <3>4
  <2>2. pagusr_table \in [Entry -> Frame \cup {NotPresent}]
    BY <2>1, <1>1
  <2>3. ASSUME NEW f \in CodeFrames PROVE f \notin free
    <3>1. PICK p \in PAG_LOG_INIT_CODE .. PAG_LOG_INIT_DATA - 1 : f = user(p)
      BY <1>8
    <3>2. p \in Page /\ 1 \in Slot /\ pagusr_table[at(1, p)] = f
      BY <3>1, <1>4, <1>6, <1>9
    <3> QED
      BY <3>2, <1>1, AtEntry
  <2> QED
    BY <2>2, <2>3, <1>1, <1>9 DEF Typed
<1>12. ASSUME NEW s \in Slot, NEW p \in DataPage, pagusr_table[at(s, p)] # NotPresent
       PROVE  /\ s = 1 /\ p \in PAG_LOG_INIT_DATA .. FirstPage - 1
              /\ p \in PAG_LOG_INIT_CODE .. FirstPage - 1 /\ pagusr_table[at(s, p)] = user(p)
  <2>1. p \in Page /\ (p \in UserPage \/ p \in PAG_LOG_INIT_DATA .. FirstPage - 1)
    BY Pages, Sizes DEF DataPage, UserPage
  <2>2. p \notin UserPage
    BY <2>1, <1>5, <1>9, <1>12
  <2> QED
    BY <2>1, <2>2, <1>4, <1>9, <1>12
<1>13. Exclusive(pagusr_table, free)
  <2> SUFFICES ASSUME NEW s \in Slot, NEW p \in DataPage, pagusr_table[at(s, p)] # NotPresent
               PROVE  /\ pagusr_table[at(s, p)] >= NUM_PAG_KERNEL
                      /\ pagusr_table[at(s, p)] \notin free
                      /\ pagusr_table[at(s, p)] \notin CodeFrames
                      /\ \A u \in Slot, q \in DataPage :
                           pagusr_table[at(s, p)] = pagusr_table[at(u, q)] => s = u /\ p = q
    BY DEF Exclusive
  <2>1. /\ s = 1 /\ p \in PAG_LOG_INIT_DATA .. FirstPage - 1
        /\ p \in PAG_LOG_INIT_CODE .. FirstPage - 1 /\ pagusr_table[at(s, p)] = user(p)
    BY <1>12
  <2>2. pagusr_table[at(s, p)] \notin free
    BY <1>1, Pages, AtEntry
  <2>3. user(p) \notin CodeFrames
    <3>1. \A q \in PAG_LOG_INIT_CODE .. PAG_LOG_INIT_DATA - 1 : p # q
      BY <2>1, Sizes
    <3> QED
      BY <2>1, <3>1, <1>7, <1>8, <1>9
  <2>4. ASSUME NEW u \in Slot, NEW q \in DataPage,
               pagusr_table[at(s, p)] = pagusr_table[at(u, q)]
        PROVE  s = u /\ p = q
    <3>1. /\ u = 1 /\ q \in PAG_LOG_INIT_CODE .. FirstPage - 1
          /\ pagusr_table[at(u, q)] = user(q)
      BY <2>4, <1>12
    <3> QED
      BY <3>1, <2>1, <2>4, <1>7
  <2> QED
    BY <2>1, <2>2, <2>3, <2>4, <1>6
<1>14. LowPages(pagusr_table)
  <2> SUFFICES ASSUME NEW s \in Slot, NEW p \in 0 .. PAG_LOG_INIT_DATA - 1
               PROVE  \/ pagusr_table[at(s, p)] = NotPresent
                      \/ pagusr_table[at(s, p)] < NUM_PAG_KERNEL
                      \/ pagusr_table[at(s, p)] \in CodeFrames
    BY DEF LowPages
  <2>1. p \in Page
    BY Pages
  <2>2. CASE p = 0
    BY <2>1, <2>2, <1>5, <1>9
  <2>3. CASE p \in 1 .. NUM_PAG_KERNEL - 1
    BY <2>1, <2>3, <1>3, Sizes
  <2>4. CASE p \in PAG_LOG_INIT_CODE .. PAG_LOG_INIT_DATA - 1
    BY <2>1, <2>4, <1>4, <1>8, <1>9
  <2> QED
    BY <2>2, <2>3, <2>4, Sizes
<1>15. KernelAndCode(pagusr_table, spaces)
  <2>1. 1 \in Slot /\ \A p \in 1 .. NUM_PAG_KERNEL - 1 : p \in Page
    BY <1>9, Sizes DEF Page
  <2>2. ASSUME NEW p \in 1 .. NUM_PAG_KERNEL - 1 PROVE get_frame(pagusr_table, at(1, p)) = p
    <3>1. p \in Page /\ p # NotPresent /\ at(1, p) % TOTAL_PAGES = p
      BY <2>1, AtDivMod DEF NotPresent
    <3> QED
      BY <2>1, <3>1, <1>3 DEF get_frame
  <2>3. \A i \in 0 .. NUM_PAG_CODE - 1 :
          pagusr_table[at(1, PAG_LOG_INIT_CODE + i)] = NUM_PAG_KERNEL + FRAME_STEP * i
    <3>1. \A i \in 0 .. NUM_PAG_CODE - 1 :
            /\ PAG_LOG_INIT_CODE + i \in PAG_LOG_INIT_CODE .. FirstPage - 1
            /\ (PAG_LOG_INIT_CODE + i) - PAG_LOG_INIT_CODE = i
      BY Sizes
    <3>2. \A i \in 0 .. NUM_PAG_CODE - 1 :
            user(PAG_LOG_INIT_CODE + i) = NUM_PAG_KERNEL + FRAME_STEP * i
      BY <3>1 DEF user
    <3> QED
      BY <2>1, <3>1, <3>2, <1>4, <1>6
  <2> QED
    BY <2>2, <2>3, <1>1 DEF KernelAndCode
<1>16. NoData(pagusr_table, spaces)
  BY <1>1, <1>4, <1>6, <1>9 DEF NoData
<1>17. Accounted(pagusr_table, free, lost)
  <2> SUFFICES ASSUME NEW f \in Frame, f >= NUM_PAG_KERNEL, f \notin free, f \notin CodeFrames
               PROVE  \E s \in Slot, p \in DataPage : pagusr_table[at(s, p)] = f
    BY DEF Accounted
  <2>1. PICK e \in Entry : pagusr_table[e] = f
    BY <1>1
  <2>2. PICK s \in Slot, p \in Page : e = at(s, p)
    BY EntryAt
  <2>3. f # NotPresent
    BY <1>10
  <2>4. p \notin 1 .. NUM_PAG_KERNEL - 1
    <3>1. SUFFICES ASSUME p \in 1 .. NUM_PAG_KERNEL - 1 PROVE FALSE
      OBVIOUS
    <3>2. f = NotPresent \/ f = p
      BY <3>1, <2>1, <2>2, <1>3, Zenon
    <3> QED
      BY <3>1, <3>2, <2>3, Sizes
  <2>5. p \in PAG_LOG_INIT_CODE .. FirstPage - 1
    BY <2>1, <2>2, <2>3, <2>4, <1>5
  <2>6. f = user(p)
    BY <2>1, <2>2, <2>3, <2>5, <1>4
  <2>7. p \notin PAG_LOG_INIT_CODE .. PAG_LOG_INIT_DATA - 1
    BY <2>6, <1>8
  <2>8. p \in DataPage
    BY <2>5, <2>7, Sizes DEF DataPage
  <2> QED
    BY <2>1, <2>2, <2>8
<1> QED
  BY <1>11, <1>13, <1>14, <1>15, <1>16, <1>17 DEF Tables

LEMMA InitMem ==
  ASSUME init_mm
  PROVE  MemOK
<1>1. /\ spaces = {1} /\ stacks = {} /\ memoria = {} /\ has_threads = {}
      /\ head = [t \in Slot |-> INIT_LIST_HEAD(t)] /\ cr3 = 1 /\ stale = {}
  BY DEF init_mm
<1>2. Tables(pagusr_table, free, spaces, lost)
  BY InitTables
<1>3. StacksFit(stacks, spaces, has_threads) /\ RegionsFit(memoria, spaces)
  BY <1>1 DEF StacksFit, RegionsFit
<1>4. Areas(pagusr_table, stacks, memoria, clobbered)
  BY <1>1 DEF Areas, Kept, Apart, ApartInside
<1>5. head \in [Slot -> Int]
  BY <1>1 DEF INIT_LIST_HEAD, HeadOf, Slot
<1>6. stale \subseteq Page \X Frame /\ AtHome(pagusr_table, free, cr3, stale)
  BY <1>1 DEF AtHome
<1> QED
  BY <1>1, <1>2, <1>3, <1>4, <1>5, <1>6 DEF MemOK
-----------------------------------------------------------------------------
\* set_cr3, from the scheduler.
LEMMA SwitchStep ==
  ASSUME MemOK, NEW s \in spaces, switch(s)
  PROVE  MemOK'
  BY DEF MemOK, switch, lists, harm, AtHome

\* Calls that fail leave everything as it was.
LEMMA UnchangedOK ==
  ASSUME MemOK, UNCHANGED <<free, pagusr_table, spaces, stacks, has_threads, lists, mmu, harm>>
  PROVE  MemOK'
  BY DEF MemOK, lists, mmu, harm

LEMMA CallStep ==
  ASSUME MemOK, Running, Running', NEW t \in Tasks, space_of(t) = cr3, Call(t)
  PROVE  MemOK'
<1>1. /\ space_of(t) \in spaces /\ FreeSlots \subseteq Slot
      /\ \A c \in FreeSlots : c \notin spaces
  BY TaskSpace DEF MemOK, Tables, Typed, FreeSlots
<1>2. StackSizes \subseteq Int /\ \A n \in RegionSizes : n \in Int /\ n + 1 \in Int
  BY MemoryAssumption
<1>3. CASE \E n \in RegionSizes : memRegGet(t, n)
  BY <1>3, GetStep
<1>4. CASE \E n \in RegionSizes : memRegGet_fails(t, n)
  <2>1. PICK s \in spaces, n \in Int : map_and_undo(s, n)
    BY <1>1, <1>2, <1>4 DEF memRegGet_fails
  <2>2. pagusr_table' = pagusr_table /\ free' = free
    BY <2>1, UndoStep
  <2> QED
    BY <2>1, <2>2, UnchangedOK DEF map_and_undo
<1>5. CASE memRegGet_wrapped(t)
  BY <1>5, WrappedStep
<1>6. ASSUME NEW c \in FreeSlots, NEW N \in StackSizes, threadCreate(t, c, N)
      PROVE  MemOK'
  BY <1>6, CreateStep
<1>7. ASSUME NEW c \in FreeSlots, fork(t, c)
      PROVE  MemOK'
  BY <1>7, ForkStep
<1>8. ASSUME NEW c \in FreeSlots, fork_clobbers(t, c)
      PROVE  MemOK'
  BY <1>8, ClobberStep
<1>12. ASSUME NEW c \in FreeSlots, fork_faults(t, c)
       PROVE  FALSE
  BY <1>12 DEF fork_faults, Running
<1>9. ASSUME NEW c \in FreeSlots, fork_no_frames(c)
      PROVE  MemOK'
  <2>1. pagusr_table' = pagusr_table /\ free' = free
    BY <1>1, <1>9, ForkNoFramesStep
  <2> QED
    BY <1>9, <2>1, UnchangedOK DEF fork_no_frames
<1>10. ASSUME NEW c \in FreeSlots, fork_no_gap(space_of(t), c)
       PROVE  FALSE
  BY <1>10 DEF fork_no_gap, Running
<1>11. CASE \E N \in StackSizes : threadCreate_fails(t, N)
  <2>1. PICK s \in spaces, n \in Int : map_and_undo(s, n)
    BY <1>1, <1>2, <1>11 DEF threadCreate_fails
  <2>2. pagusr_table' = pagusr_table /\ free' = free
    BY <2>1, UndoStep
  <2> QED
    BY <2>1, <2>2, UnchangedOK DEF map_and_undo
<1> QED
  BY <1>3, <1>4, <1>5, <1>6, <1>7, <1>8, <1>9, <1>10, <1>11, <1>12, Zenon DEF Call

LEMMA MemStep ==
  ASSUME MemInv, [Next]_vars
  PROVE  MemInv'
<1> SUFFICES ASSUME Running' PROVE MemOK'
  BY DEF MemInv
<1>1. CASE UNCHANGED vars
  <2>1. Running /\ UNCHANGED <<free, pagusr_table, spaces, stacks, has_threads, lists, mmu, harm>>
    BY <1>1 DEF vars, Running
  <2> QED
    BY <2>1, UnchangedOK DEF MemInv
<1>2. CASE Running /\ Next
  <2>1. MemOK
    BY <1>2 DEF MemInv
  <2>2. CASE \E t \in Tasks : space_of(t) = cr3 /\ Call(t)
    BY <1>2, <2>1, <2>2, CallStep
  <2>3. CASE cr3 \in spaces /\ exit(cr3)
    BY <1>2, <2>1, <2>3, ExitStep
  <2>4. CASE \E r \in memoria : memRegDel(r)
    BY <1>2, <2>1, <2>4, DelStep
  <2>5. CASE \E k \in stacks : terminate_thread(k)
    BY <1>2, <2>1, <2>5, EndStep
  <2>6. CASE \E s \in spaces : switch(s)
    BY <2>1, <2>6, SwitchStep
  <2>7. CASE Stopped
    BY <2>7, <1>1 DEF Stopped
  <2> QED
    BY <1>2, <2>2, <2>3, <2>4, <2>5, <2>6, <2>7 DEF Next
<1>3. CASE Next /\ ~ Running
  BY <1>1, <1>3 DEF Next, Stopped
<1> QED
  BY <1>1, <1>2, <1>3

(* Whatever the calls of the tasks, the tables are in order as long as the
   kernel runs. *)
THEOREM TablesStayInOrder == Spec => []MemInv
<1>1. init_mm => MemInv
  BY InitMem DEF MemInv
<1>2. MemInv /\ [Next]_vars => MemInv'
  BY MemStep
<1> QED
  BY <1>1, <1>2, PTL DEF Spec
-----------------------------------------------------------------------------
\* A private page, as the invariant names it.
LEMMA PrivatePage ==
  ASSUME MemOK, NEW e \in Private
  PROVE  \E s \in spaces, p \in DataPage :
           /\ s \in Slot /\ p \in Page /\ e = at(s, p) /\ pagusr_table[at(s, p)] # NotPresent
<1>1. /\ e \in Entry /\ e \div TOTAL_PAGES \in spaces
      /\ e % TOTAL_PAGES >= PAG_LOG_INIT_DATA /\ pagusr_table[e] # NotPresent
  BY DEF Private
<1>2. PICK s \in Slot, p \in Page :
        s = e \div TOTAL_PAGES /\ p = e % TOTAL_PAGES /\ e = at(s, p)
  BY <1>1, EntryAt
<1>3. p \in DataPage
  BY <1>1, <1>2, Sizes DEF Page, DataPage
<1> QED
  BY <1>1, <1>2, <1>3

LEMMA PageIsPrivate ==
  ASSUME NEW s \in spaces, s \in Slot, NEW p \in DataPage, pagusr_table[at(s, p)] # NotPresent
  PROVE  at(s, p) \in Private
<1>1. p \in Page /\ p >= PAG_LOG_INIT_DATA
  BY Pages
<1>2. at(s, p) \in Entry /\ at(s, p) \div TOTAL_PAGES = s /\ at(s, p) % TOTAL_PAGES = p
  BY <1>1, AtEntry, AtDivMod
<1> QED
  BY <1>1, <1>2 DEF Private

(* Memory protection: alloc_frame, free_frame and the tables that sys_fork,
   sys_exit and the stack and region calls write never let two pages of
   processes share a frame, or a frame in use be marked free. *)
THEOREM FramesStayExclusive == Spec => []FramesExclusive
<1>1. ASSUME MemOK PROVE FramesExclusive
  <2> SUFFICES ASSUME NEW d \in Private
               PROVE  /\ pagusr_table[d] >= NUM_PAG_KERNEL
                      /\ pagusr_table[d] \notin free \cup CodeFrames
                      /\ \A e \in Private : pagusr_table[d] = pagusr_table[e] => d = e
    BY DEF FramesExclusive
  <2>1. Exclusive(pagusr_table, free)
    BY <1>1 DEF MemOK, Tables
  <2>2. PICK s \in spaces, p \in DataPage :
          s \in Slot /\ d = at(s, p) /\ pagusr_table[at(s, p)] # NotPresent
    BY <1>1, PrivatePage
  <2>3. ASSUME NEW e \in Private, pagusr_table[d] = pagusr_table[e]
        PROVE  d = e
    <3>1. PICK u \in spaces, q \in DataPage : u \in Slot /\ e = at(u, q)
      BY <1>1, PrivatePage
    <3> QED
      BY <2>1, <2>2, <2>3, <3>1 DEF Exclusive
  <2> QED
    BY <2>1, <2>2, <2>3 DEF Exclusive
<1>2. MemInv => FramesExclusive
  BY <1>1 DEF MemInv, FramesExclusive
<1> QED
  BY <1>2, TablesStayInOrder, PTL

(* The bits of the kernel and code pages, and the pages that are absent at
   boot: a process is as the first one was, or as a fork leaves its child. *)
BitsOK == \A s \in spaces : AsAtBoot(s) \/ AsForked(s)
BitsInv == Running => BitsOK

LowPage == 0 .. PAG_LOG_INIT_DATA - 1

\* Neither the pages below the data pages nor their bits change.
LowSame ==
  /\ sealed' = sealed /\ spaces' \subseteq spaces
  /\ \A u \in spaces, q \in LowPage : pagusr_table'[at(u, q)] = pagusr_table[at(u, q)]

LEMMA AbsentAreLow == GuardPages \cup {0} \subseteq LowPage
  BY MemoryAssumption, Sizes DEF LowPage

LEMMA BitsStay ==
  ASSUME BitsOK, LowSame
  PROVE  BitsOK'
<1> SUFFICES ASSUME NEW s \in spaces' PROVE AsAtBoot(s)' \/ AsForked(s)'
  BY DEF BitsOK
<1>1. s \in spaces /\ sealed' = sealed
  BY DEF LowSame
<1>2. \A p \in GuardPages \cup {0} : pagusr_table'[at(s, p)] = pagusr_table[at(s, p)]
  BY <1>1, AbsentAreLow DEF LowSame
<1>3. CASE AsAtBoot(s)
  BY <1>1, <1>2, <1>3 DEF AsAtBoot
<1>4. CASE AsForked(s)
  BY <1>1, <1>2, <1>4 DEF AsForked
<1> QED
  BY <1>1, <1>3, <1>4 DEF BitsOK

\* Pages from the data pages on, set or cleared.
LEMMA LowSet ==
  ASSUME NEW PT, NEW s, NEW p \in DataPage, NEW n, Span(s, p, n), NEW a, Long(a, n),
         NEW u \in Slot, NEW q \in LowPage
  PROVE  set_ss_pags(PT, at(s, p), a)[at(u, q)] = PT[at(u, q)]
<1>1. q \in Page /\ q < PAG_LOG_INIT_DATA /\ PAG_LOG_INIT_DATA <= p
  BY Pages, Sizes DEF LowPage
<1>2. ~ In(u, q, s, p, n)
  BY <1>1, Pages, Sizes DEF In
<1> QED
  BY <1>1, <1>2, SetPages DEF WithSet

LEMMA LowCleared ==
  ASSUME NEW PT, NEW s, NEW p \in DataPage, NEW n, Span(s, p, n),
         NEW u \in Slot, NEW q \in LowPage
  PROVE  del_ss_pags(PT, at(s, p), n)[at(u, q)] = PT[at(u, q)]
<1>1. q \in Page /\ q < PAG_LOG_INIT_DATA /\ PAG_LOG_INIT_DATA <= p
  BY Pages, Sizes DEF LowPage
<1>2. ~ In(u, q, s, p, n)
  BY <1>1, Pages, Sizes DEF In
<1> QED
  BY <1>1, <1>2, DelPages DEF WithCleared

\* A gap of process s that gets frames.
LEMMA LowMapped ==
  ASSUME spaces \subseteq Slot \ {0}, free \subseteq Frame, NEW s \in spaces, NEW n \in Int,
         NEW p \in Gaps(s, n), NEW a \in alloc_frames(n),
         pagusr_table' = set_ss_pags(pagusr_table, at(s, p), a),
         sealed' = sealed, spaces' = spaces
  PROVE  LowSame
<1>1. s \in Slot /\ p \in UserPage /\ p + n < TOTAL_PAGES
  BY GapFacts
<1>2. p \in DataPage /\ p \in Page /\ Span(s, p, n)
  BY <1>1, Pages, Sizes DEF Span
<1>3. Fresh(a, n, free)
  BY AllocFacts
<1>4. Long(a, n)
  BY <1>3 DEF Long, Fresh
<1> QED
  BY <1>2, <1>4, LowSet DEF LowSame

\* The low pages of different slots are different entries.
LEMMA LowApart ==
  ASSUME NEW s \in Slot, NEW u \in Slot, s # u
  PROVE  low(s) \cap low(u) = {}
<1> SUFFICES ASSUME NEW p \in LowPage, NEW q \in LowPage, at(s, p) = at(u, q) PROVE FALSE
  BY DEF low, LowPage
<1>1. p \in Page /\ q \in Page
  BY Pages DEF LowPage
<1> QED
  BY <1>1, AtInjective

(* The child of a fork, when C is its table and PT2 may leave out pages of the
   caller from some data page on. *)
LEMMA ForkBits ==
  ASSUME MemOK, BitsOK, NEW s \in spaces, NEW t, NEW c \in FreeSlots, fork_task(t, c),
         NEW a \in alloc_frames(NUM_PAG_DATA),
         \A u \in Slot, q \in LowPage :
           pagusr_table'[at(u, q)] = child_table(s, c, a)[at(u, q)]
  PROVE  BitsOK'
<1>1. /\ KernelAndCode(pagusr_table, spaces) /\ spaces \subseteq Slot \ {0}
      /\ free \subseteq Frame
  BY DEF MemOK, Tables, Typed
<1>2. c \in Slot /\ c \notin spaces /\ s \in Slot
  BY <1>1 DEF FreeSlots
<1>3. spaces' = spaces \cup {c} /\ sealed' = sealed \ low(c)
  BY DEF fork_task
<1>4. ASSUME NEW u \in Slot, NEW q \in LowPage
      PROVE  pagusr_table'[at(u, q)] =
               IF u = c THEN get_frame(pagusr_table, at(s, q)) ELSE pagusr_table[at(u, q)]
  <2>1. q \in Page /\ q < PAG_LOG_INIT_DATA
    BY Pages, Sizes DEF LowPage
  <2>2. /\ NUM_PAG_DATA \in Int /\ PAG_LOG_INIT_DATA \in DataPage
        /\ Span(c, PAG_LOG_INIT_DATA, NUM_PAG_DATA)
    BY <1>2, Sizes DEF Span, Page, DataPage
  <2>3. Fresh(a, NUM_PAG_DATA, free)
    BY <1>1, <2>2, AllocFacts
  <2>4. Long(a, NUM_PAG_DATA)
    BY <2>3 DEF Long, Fresh
  <2>5. set_ss_pags(pagusr_table, at(c, PAG_LOG_INIT_DATA), a)[at(u, q)] = pagusr_table[at(u, q)]
    BY <2>2, <2>4, LowSet
  <2>6. ChildOf(pagusr_table, s, c, a)[at(u, q)] =
          IF u = c /\ q < PAG_LOG_INIT_DATA THEN get_frame(pagusr_table, at(s, q))
          ELSE set_ss_pags(pagusr_table, at(c, PAG_LOG_INIT_DATA), a)[at(u, q)]
    BY <2>1, <1>2, ChildPages
  <2>7. pagusr_table'[at(u, q)] = ChildOf(pagusr_table, s, c, a)[at(u, q)]
    BY ChildIs
  <2> QED
    BY <2>1, <2>5, <2>6, <2>7
<1>5. ASSUME NEW u \in spaces PROVE AsAtBoot(u)' \/ AsForked(u)'
  <2>1. u \in Slot /\ u # c
    BY <1>1, <1>2
  <2>2. \A p \in GuardPages \cup {0} : pagusr_table'[at(u, p)] = pagusr_table[at(u, p)]
    BY <2>1, <1>4, AbsentAreLow
  <2>3. low(u) \cap low(c) = {}
    BY <2>1, <1>2, LowApart
  <2>4. CASE AsAtBoot(u)
    <3>1. low(u) \subseteq sealed' \cup {at(u, p) : p \in GuardPages \cup {0}}
      BY <2>3, <2>4, <1>3 DEF AsAtBoot
    <3> QED
      BY <3>1, <2>2, <2>4 DEF AsAtBoot
  <2>5. CASE AsForked(u)
    BY <2>2, <2>5, <1>3 DEF AsForked
  <2> QED
    BY <2>4, <2>5 DEF BitsOK
<1>6. AsForked(c)'
  <2>1. ASSUME NEW p \in GuardPages PROVE pagusr_table'[at(c, p)] = p
    <3>1. p \in 1 .. NUM_PAG_KERNEL - 1 /\ p \in LowPage
      BY MemoryAssumption, AbsentAreLow
    <3>2. get_frame(pagusr_table, at(s, p)) = p
      BY <3>1, <1>1 DEF KernelAndCode
    <3> QED
      BY <3>1, <3>2, <1>2, <1>4
  <2>2. pagusr_table'[at(c, 0)] = 0
    <3>1. 0 \in LowPage /\ 0 \in Page /\ 0 \notin GuardPages /\ 0 # NotPresent
      BY AbsentAreLow, Pages, MemoryAssumption DEF LowPage, NotPresent
    <3>2. at(s, 0) % TOTAL_PAGES = 0
      BY <3>1, <1>2, AtDivMod
    <3>3. pagusr_table[at(s, 0)] = NotPresent \/ pagusr_table[at(s, 0)] = 0
      BY DEF BitsOK, AsAtBoot, AsForked
    <3>4. get_frame(pagusr_table, at(s, 0)) = 0
      BY <3>1, <3>2, <3>3 DEF get_frame
    <3> QED
      BY <3>1, <3>4, <1>2, <1>4
  <2> QED
    BY <2>1, <2>2, <1>3 DEF AsForked
<1> QED
  BY <1>3, <1>5, <1>6 DEF BitsOK

LEMMA CallBits ==
  ASSUME MemOK, BitsOK, Running, Running', NEW t \in Tasks, space_of(t) = cr3, Call(t)
  PROVE  BitsOK'
<1>1. /\ free \subseteq Frame /\ StacksFit(stacks, spaces, has_threads)
      /\ spaces \subseteq Slot \ {0}
  BY DEF MemOK, Tables, Typed
<1>2. PICK s \in spaces : s = space_of(t)
  BY <1>1, TaskSpace
<1>3. /\ StackSizes \subseteq Int /\ \A n \in RegionSizes : n \in Int /\ n + 1 \in Int
      /\ \A c \in FreeSlots : c \in Slot /\ c \notin spaces
  BY MemoryAssumption DEF FreeSlots
<1>4. ASSUME NEW n \in RegionSizes, memRegGet(t, n) PROVE BitsOK'
  <2>1. PICK m \in Int : m = n + 1
    BY <1>3
  <2>2. PICK p \in Gaps(s, m), a \in alloc_frames(m) :
          /\ pagusr_table' = set_ss_pags(pagusr_table, at(s, p), a)
          /\ sealed' = sealed /\ spaces' = spaces
    BY <2>1, <1>2, <1>4, Zenon DEF memRegGet
  <2> QED
    BY <2>2, <1>1, LowMapped, BitsStay
<1>5. ASSUME NEW n \in Int, map_and_undo(s, n) PROVE BitsOK'
  <2>1. pagusr_table' = pagusr_table
    BY <1>5, UndoStep
  <2> QED
    BY <2>1, <1>5, BitsStay DEF map_and_undo, LowSame
<1>6. CASE \E n \in RegionSizes : memRegGet_fails(t, n)
  BY <1>2, <1>3, <1>5, <1>6 DEF memRegGet_fails
<1>7. CASE memRegGet_wrapped(t)
  BY <1>7, BitsStay DEF memRegGet_wrapped, LowSame
<1>8. ASSUME NEW c \in FreeSlots, NEW N \in StackSizes, threadCreate(t, c, N) PROVE BitsOK'
  <2>1. PICK m \in Int : m = N
    BY <1>3
  <2>2. PICK p \in Gaps(s, m), a \in alloc_frames(m) :
          /\ pagusr_table' = set_ss_pags(pagusr_table, at(s, p), a)
          /\ sealed' = sealed /\ spaces' = spaces
    BY <2>1, <1>2, <1>8, Zenon DEF threadCreate, new_stack
  <2> QED
    BY <2>2, <1>1, LowMapped, BitsStay
<1>9. ASSUME NEW c \in FreeSlots, fork(t, c) PROVE BitsOK'
  <2>1. PICK a \in alloc_frames(NUM_PAG_DATA) : pagusr_table' = child_table(s, c, a)
    BY <1>2, <1>9, Zenon DEF fork
  <2>2. fork_task(t, c)
    BY <1>9 DEF fork
  <2> QED
    BY <2>1, <2>2, ForkBits
<1>10. ASSUME NEW c \in FreeSlots, fork_clobbers(t, c) PROVE BitsOK'
  <2>1. PICK g \in Gaps(s, NUM_PAG_DATA), a \in alloc_frames(NUM_PAG_DATA) :
          /\ temp_page(g) + NUM_PAG_DATA <= TOTAL_PAGES
          /\ pagusr_table' = del_ss_pags(child_table(s, c, a), at(s, temp_page(g)), NUM_PAG_DATA)
    BY <1>2, <1>10, Zenon DEF fork_clobbers
  <2>2. fork_task(t, c)
    BY <1>10 DEF fork_clobbers
  <2>3. s \in Slot /\ NUM_PAG_DATA \in Int /\ g \in UserPage
    BY <1>1, Sizes, GapFacts
  <2>4. temp_page(g) \in DataPage /\ Span(s, temp_page(g), NUM_PAG_DATA)
    BY <2>1, <2>3, Sizes, Pages DEF temp_page, UserPage, DataPage, Page, Span
  <2>5. \A u \in Slot, q \in LowPage :
          pagusr_table'[at(u, q)] = child_table(s, c, a)[at(u, q)]
    BY <2>1, <2>4, LowCleared
  <2> QED
    BY <2>2, <2>5, ForkBits
<1>11. ASSUME NEW c \in FreeSlots, fork_no_frames(c) PROVE BitsOK'
  <2>1. pagusr_table' = pagusr_table
    BY <1>3, <1>11, ForkNoFramesStep
  <2> QED
    BY <2>1, <1>11, BitsStay DEF fork_no_frames, LowSame
<1>12. ASSUME NEW c \in FreeSlots, fork_faults(t, c) \/ fork_no_gap(space_of(t), c) PROVE FALSE
  BY <1>12 DEF fork_faults, fork_no_gap, Running
<1>13. CASE \E N \in StackSizes : threadCreate_fails(t, N)
  BY <1>2, <1>3, <1>5, <1>13 DEF threadCreate_fails
<1> QED
  BY <1>4, <1>6, <1>7, <1>8, <1>9, <1>10, <1>11, <1>12, <1>13, Zenon DEF Call

LEMMA BitsStep ==
  ASSUME MemInv, BitsInv, [Next]_vars
  PROVE  BitsInv'
<1> SUFFICES ASSUME Running' PROVE BitsOK'
  BY DEF BitsInv
<1>1. CASE UNCHANGED vars
  <2>1. Running /\ LowSame
    BY <1>1 DEF vars, Running, LowSame
  <2> QED
    BY <2>1, BitsStay DEF BitsInv
<1>2. CASE Running /\ Next
  <2>1. MemOK /\ BitsOK
    BY <1>2 DEF MemInv, BitsInv
  <2>2. /\ spaces \subseteq Slot \ {0} /\ RegionsFit(memoria, spaces)
        /\ StacksFit(stacks, spaces, has_threads)
    BY <2>1 DEF MemOK, Tables, Typed
  <2>3. ASSUME NEW s \in spaces, NEW p \in DataPage, NEW n \in Int, p + n <= TOTAL_PAGES,
               pagusr_table' = del_ss_pags(pagusr_table, at(s, p), n),
               sealed' = sealed, spaces' \subseteq spaces
        PROVE  BitsOK'
    <3>1. Span(s, p, n) /\ \A u \in spaces : u \in Slot
      BY <2>2, <2>3, Pages DEF Span
    <3> QED
      BY <3>1, <2>1, <2>3, LowCleared, BitsStay DEF LowSame
  <2>4. CASE \E t \in Tasks : space_of(t) = cr3 /\ Call(t)
    BY <1>2, <2>1, <2>4, CallBits
  <2>5. CASE cr3 \in spaces /\ exit(cr3)
    <3>1. /\ PAG_LOG_INIT_DATA \in DataPage /\ NUM_PAG_DATA \in Int
          /\ PAG_LOG_INIT_DATA + NUM_PAG_DATA <= TOTAL_PAGES
      BY Sizes DEF DataPage
    <3> QED
      BY <3>1, <2>3, <2>5 DEF exit
  <2>6. ASSUME NEW r \in memoria, memRegDel(r) PROVE BitsOK'
    <3>1. /\ r.space \in spaces /\ r.page \in UserPage /\ r.tam \in Int
          /\ r.page + r.tam <= TOTAL_PAGES /\ r.num \in Nat
      BY <2>2, Pages, Sizes DEF RegionsFit
    <3>2. PICK s \in spaces, p \in DataPage, n \in Int :
            s = r.space /\ p = r.page /\ n = r.tam
      BY <3>1, Pages
    <3>3. /\ pagusr_table' = del_ss_pags(pagusr_table, at(s, p), n)
          /\ sealed' = sealed /\ spaces' \subseteq spaces
      BY <3>2, <2>6, <1>2 DEF memRegDel, Running
    <3> QED
      BY <3>1, <3>2, <3>3, <2>3
  <2>7. ASSUME NEW k \in stacks, terminate_thread(k) PROVE BitsOK'
    <3>1. /\ k.space \in spaces /\ k.page \in UserPage /\ k.num \in Int
          /\ k.page + k.num <= TOTAL_PAGES
      BY <2>2, Pages, Sizes DEF StacksFit
    <3>2. PICK s \in spaces, p \in DataPage, n \in Int :
            s = k.space /\ p = k.page /\ n = k.num
      BY <3>1, Pages
    <3>3. /\ pagusr_table' = del_ss_pags(pagusr_table, at(s, p), n)
          /\ sealed' = sealed /\ spaces' \subseteq spaces
      BY <3>2, <2>7 DEF terminate_thread
    <3> QED
      BY <3>1, <3>2, <3>3, <2>3
  <2>8. CASE \E s \in spaces : switch(s)
    BY <2>1, <2>8, BitsStay DEF switch, LowSame
  <2>9. CASE Stopped
    BY <2>9, <1>1 DEF Stopped
  <2> QED
    BY <1>2, <2>4, <2>5, <2>6, <2>7, <2>8, <2>9 DEF Next
<1>3. CASE Next /\ ~ Running
  BY <1>1, <1>3 DEF Next, Stopped
<1> QED
  BY <1>1, <1>2, <1>3

LEMMA InitBits ==
  ASSUME init_mm
  PROVE  BitsOK
<1>1. /\ pagusr_table = [e \in Entry |-> InitialEntry(e \div TOTAL_PAGES, e % TOTAL_PAGES)]
      /\ sealed = {e \in UNION {low(s) : s \in Slot} : pagusr_table[e] # NotPresent}
      /\ spaces = {1}
  BY DEF init_mm
<1>2. 1 \in Slot /\ LowPage \subseteq Page
  BY Sizes, Pages DEF Slot, LowPage
<1>3. ASSUME NEW p \in LowPage PROVE pagusr_table[at(1, p)] = InitialEntry(1, p)
  <2>1. at(1, p) \in Entry /\ at(1, p) \div TOTAL_PAGES = 1 /\ at(1, p) % TOTAL_PAGES = p
    BY <1>2, AtEntry, AtDivMod
  <2>2. pagusr_table[at(1, p)] = InitialEntry(at(1, p) \div TOTAL_PAGES, at(1, p) % TOTAL_PAGES)
    BY <2>1, <1>1, Zenon
  <2> QED
    BY <2>1, <2>2, Zenon
<1>4. ASSUME NEW p \in GuardPages \cup {0} PROVE pagusr_table[at(1, p)] = NotPresent
  <2>1. p \notin (1 .. NUM_PAG_KERNEL - 1) \ GuardPages
        /\ p \notin PAG_LOG_INIT_CODE .. FirstPage - 1
    BY MemoryAssumption, Sizes
  <2>2. InitialEntry(1, p) = NotPresent
    BY <2>1, Zenon DEF InitialEntry
  <2> QED
    BY <2>2, <1>3, AbsentAreLow
<1>5. ASSUME NEW p \in LowPage, p \notin GuardPages \cup {0}
      PROVE  pagusr_table[at(1, p)] # NotPresent
  <2>0. p \in Int /\ p >= 0 /\ p < PAG_LOG_INIT_DATA /\ p # 0
    BY <1>5, Sizes DEF LowPage
  <2>1. p > 0 /\ (p \in 1 .. NUM_PAG_KERNEL - 1 \/ p \in PAG_LOG_INIT_CODE .. FirstPage - 1)
    BY <2>0, Sizes
  <2>2. CASE p \in 1 .. NUM_PAG_KERNEL - 1
    <3>1. p \in (1 .. NUM_PAG_KERNEL - 1) \ GuardPages
          /\ p \notin PAG_LOG_INIT_CODE .. FirstPage - 1
      BY <2>2, <1>5, Sizes
    <3>2. InitialEntry(1, p) = p
      BY <3>1, Zenon DEF InitialEntry
    <3> QED
      BY <3>2, <2>0, <1>3 DEF NotPresent
  <2>3. CASE p \in PAG_LOG_INIT_CODE .. FirstPage - 1
    <3>1. p \notin 1 .. NUM_PAG_KERNEL - 1
      BY <2>3, Sizes
    <3>2. InitialEntry(1, p) = NUM_PAG_KERNEL + FRAME_STEP * (p - PAG_LOG_INIT_CODE)
      BY <2>3, <3>1, Zenon DEF InitialEntry
    <3>3. p - PAG_LOG_INIT_CODE \in 0 .. NUM_PAG_CODE + NUM_PAG_DATA - 1
      BY <2>3, Sizes
    <3>4. NUM_PAG_KERNEL + FRAME_STEP * (p - PAG_LOG_INIT_CODE) \in Frame
      BY <3>3, UserFrames
    <3> QED
      BY <3>2, <3>4, <1>3 DEF Frame, NotPresent
  <2> QED
    BY <2>1, <2>2, <2>3
<1>6. low(1) \subseteq sealed \cup {at(1, p) : p \in GuardPages \cup {0}}
  <2> SUFFICES ASSUME NEW p \in LowPage, p \notin GuardPages \cup {0} PROVE at(1, p) \in sealed
    BY DEF low, LowPage
  <2>1. at(1, p) \in UNION {low(s) : s \in Slot}
    BY <1>2 DEF low, LowPage
  <2> QED
    BY <2>1, <1>1, <1>5
<1> QED
  BY <1>1, <1>4, <1>6 DEF BitsOK, AsAtBoot

(* Every table that set_cr3 may load maps every kernel and code page to the
   frame it was loaded to.  It protects them if it is as at boot, and does not
   protect any of them if its process was forked. *)
THEOREM KernelStaysMapped == Spec => []KernelAndCodeMapped
<1>1. init_mm => BitsInv
  BY InitBits DEF BitsInv
<1>2. MemInv /\ BitsInv /\ [Next]_vars => BitsInv'
  BY BitsStep
<1>3. MemInv /\ BitsInv => KernelAndCodeMapped
  <2> SUFFICES ASSUME MemOK, BitsOK, NEW s \in spaces
               PROVE  /\ \A p \in (1 .. NUM_PAG_KERNEL - 1) \ GuardPages :
                           pagusr_table[at(s, p)] = p
                      /\ \A i \in 0 .. NUM_PAG_CODE - 1 :
                           pagusr_table[at(s, PAG_LOG_INIT_CODE + i)]
                             = NUM_PAG_KERNEL + FRAME_STEP * i
                      /\ AsAtBoot(s) \/ AsForked(s)
    BY DEF MemInv, BitsInv, KernelAndCodeMapped
  <2>1. KernelAndCode(pagusr_table, spaces) /\ s \in Slot
    BY DEF MemOK, Tables, Typed
  <2>2. ASSUME NEW p \in (1 .. NUM_PAG_KERNEL - 1) \ GuardPages
        PROVE  pagusr_table[at(s, p)] = p
    <3>1. p \in Page /\ p # 0
      BY Sizes DEF Page
    <3>2. at(s, p) % TOTAL_PAGES = p
      BY <2>1, <3>1, AtDivMod
    <3>3. get_frame(pagusr_table, at(s, p)) = p
      BY <2>1 DEF KernelAndCode
    <3> QED
      BY <3>1, <3>2, <3>3 DEF get_frame
  <2> QED
    BY <2>1, <2>2 DEF KernelAndCode, BitsOK
<1> QED
  BY <1>1, <1>2, <1>3, TablesStayInOrder, PTL DEF Spec

(* No call and no failed call but a fork that copies through mapped pages loses
   a frame: what a frame in use is for can be read from the tables. *)
THEOREM FramesAccounted == Spec => []NoFrameLost
<1>1. ASSUME MemOK PROVE NoFrameLost
  <2> SUFFICES ASSUME NEW f \in Frame, f >= NUM_PAG_KERNEL, f \notin free \cup CodeFrames
               PROVE  \/ \E e \in Private : pagusr_table[e] = f
                      \/ \E s \in Slot \ spaces, p \in UserPage : pagusr_table[at(s, p)] = f
                      \/ f \in lost
    BY DEF NoFrameLost, UserPage
  <2> SUFFICES ASSUME f \notin lost
               PROVE  \/ \E e \in Private : pagusr_table[e] = f
                      \/ \E s \in Slot \ spaces, p \in UserPage : pagusr_table[at(s, p)] = f
    OBVIOUS
  <2>1. PICK s \in Slot, p \in DataPage : pagusr_table[at(s, p)] = f
    BY <1>1 DEF MemOK, Tables, Accounted
  <2>2. f # NotPresent
    BY DEF NotPresent, Frame
  <2>3. CASE s \in spaces
    BY <2>1, <2>2, <2>3, PageIsPrivate
  <2>4. CASE s \notin spaces
    <3>1. p \notin PAG_LOG_INIT_DATA .. FirstPage - 1
      BY <1>1, <2>1, <2>2, <2>4 DEF MemOK, Tables, NoData
    <3>2. p \in UserPage
      BY <3>1, Sizes DEF DataPage, UserPage
    <3> QED
      BY <2>1, <2>4, <3>2
  <2> QED
    BY <2>3, <2>4
<1>2. MemInv => NoFrameLost
  BY <1>1 DEF MemInv, NoFrameLost
<1> QED
  BY <1>2, TablesStayInOrder, PTL

(* A stack or region stays mapped in the process that has it, and no page of
   it is handed out again before it is given back, as long as no fork has
   copied through mapped pages of the process. *)
THEOREM AreasStayKept == Spec => []AreasKept
<1> DEFINE area(x) == <<x.space, x.page, x.num>>
           pages(x) == {at(x[1], x[2] + i) : i \in 0 .. x[3] - 1}
           All == {x \in {area(r) : r \in memoria} \cup {area(k) : k \in stacks} :
                     x[1] \notin clobbered}
<1>1. ASSUME MemOK, NEW r \in memoria \cup stacks, r.space \notin clobbered,
             NEW e \in pages(area(r))
      PROVE  \E u \in spaces, q \in UserPage :
               /\ u \in Slot \ clobbered /\ e = at(u, q) /\ Holds(r, u, q)
               /\ pagusr_table[at(u, q)] # NotPresent
  <2>1. PICK i \in 0 .. r.num - 1 : e = at(r.space, r.page + i)
    OBVIOUS
  <2>2. r.space \in spaces /\ r.page \in UserPage /\ r.num \in Int /\ r.page + r.num < TOTAL_PAGES
    <3>1. CASE r \in memoria
      BY <1>1, <3>1 DEF MemOK, RegionsFit
    <3>2. CASE r \in stacks
      BY <1>1, <3>2 DEF MemOK, StacksFit
    <3> QED
      BY <3>1, <3>2
  <2>3. r.page + i \in UserPage /\ r.page <= r.page + i /\ r.page + i < r.page + r.num
    BY <2>2, Sizes DEF UserPage
  <2>4. PICK u \in spaces, q \in UserPage : u = r.space /\ q = r.page + i
    BY <2>2, <2>3
  <2>5. u \in Slot \ clobbered /\ e = at(u, q) /\ Holds(r, u, q)
    BY <1>1, <2>1, <2>3, <2>4 DEF Holds, MemOK, Tables, Typed
  <2>6. pagusr_table[at(u, q)] # NotPresent
    BY <1>1, <2>5 DEF MemOK, Areas, Kept
  <2> QED
    BY <2>5, <2>6
<1>2. ASSUME MemOK, NEW x \in All
      PROVE  pages(x) \subseteq Private
  <2>1. PICK r \in memoria \cup stacks : x = area(r) /\ r.space \notin clobbered
    OBVIOUS
  <2> SUFFICES ASSUME NEW e \in pages(area(r)) PROVE e \in Private
    BY <2>1
  <2>2. PICK u \in spaces, q \in UserPage :
          u \in Slot /\ e = at(u, q) /\ pagusr_table[at(u, q)] # NotPresent
    BY <2>1, <1>1, <1>2
  <2> QED
    BY <2>2, Pages, PageIsPrivate
<1>3. ASSUME MemOK, NEW x \in All, NEW y \in All, x # y
      PROVE  pages(x) \cap pages(y) = {}
  <2>1. PICK r \in memoria \cup stacks : x = area(r) /\ r.space \notin clobbered
    OBVIOUS
  <2>2. PICK k \in memoria \cup stacks : y = area(k) /\ k.space \notin clobbered
    OBVIOUS
  <2> SUFFICES ASSUME NEW e \in pages(area(r)), e \in pages(area(k)) PROVE FALSE
    BY <2>1, <2>2
  <2>3. PICK u \in spaces, q \in UserPage :
          u \in Slot \ clobbered /\ e = at(u, q) /\ Holds(r, u, q)
    BY <2>1, <1>1, <1>3
  <2>4. PICK v \in spaces, w \in UserPage : v \in Slot /\ e = at(v, w) /\ Holds(k, v, w)
    BY <2>2, <1>1, <1>3
  <2>5. u = v /\ q = w
    <3>1. q \in Page /\ w \in Page /\ u \in Slot /\ v \in Slot /\ at(u, q) = at(v, w)
      BY <2>3, <2>4, Pages
    <3> HIDE DEF area, pages
    <3> QED
      BY <3>1, AtInjective
  <2>6. Holds(k, u, q) /\ r # k
    BY <1>3, <2>1, <2>2, <2>4, <2>5
  <2> HIDE DEF area, pages
  <2>7. Areas(pagusr_table, stacks, memoria, clobbered)
    BY <1>3 DEF MemOK
  <2> QED
    BY <2>3, <2>6, <2>7 DEF Areas, Apart, ApartInside
<1>4. MemOK => AreasKept
  BY <1>2, <1>3 DEF AreasKept
<1>5. MemInv => AreasKept
  BY <1>4 DEF MemInv, AreasKept
<1> QED
  BY <1>5, TablesStayInOrder, PTL

(* What the TLB still knows of the stack of an ended thread never leads to a
   frame of another process: the frame is free, or the process that runs has
   it again. *)
THEOREM StaleStays == Spec => []StaleStaysHome
<1>1. MemInv => StaleStaysHome
  BY DEF MemInv, MemOK, AtHome, StaleStaysHome
<1> QED
  BY <1>1, TablesStayInOrder, PTL
-----------------------------------------------------------------------------
\* A whole table, from a data page on, ends where the data pages of the next do.
LEMMA BeyondTheTable ==
  ASSUME NEW c \in Slot, NEW u \in Slot, NEW q \in DataPage, u # c
  PROVE  ~ (at(c, PAG_LOG_INIT_DATA) <= at(u, q)
            /\ at(u, q) < at(c, PAG_LOG_INIT_DATA) + TOTAL_PAGES)
<1> DEFINE x == u * TOTAL_PAGES
           y == c * TOTAL_PAGES
<1>1. x \in Int /\ y \in Int
  BY Sizes DEF Slot
<1>2. u < c => x + TOTAL_PAGES <= y
  BY Sizes, Rows DEF Slot
<1>3. c < u => y + TOTAL_PAGES <= x
  BY Sizes, Rows DEF Slot
<1>4. u < c \/ c < u
  BY DEF Slot
<1>5. at(u, q) = x + q /\ at(c, PAG_LOG_INIT_DATA) = y + PAG_LOG_INIT_DATA
  BY DEF at
<1>6. q \in Int /\ q >= PAG_LOG_INIT_DATA /\ q < TOTAL_PAGES
  BY Pages
<1> HIDE DEF x, y
<1> QED
  BY <1>1, <1>2, <1>3, <1>4, <1>5, <1>6, Sizes

\* The clean-up of a fork without a gap.
LEMMA OverrunStep ==
  ASSUME MemOK, NEW s \in spaces, NEW c \in FreeSlots, fork_no_gap(s, c), NEW e \in Private
  PROVE  pagusr_table'[e] = pagusr_table[e] /\ pagusr_table[e] \notin free'
<1>1. PICK a \in alloc_frames(NUM_PAG_DATA) :
        /\ free' = free_frames(free \ Range(a),
                     frames_at(child_table(s, c, a), at(c, PAG_LOG_INIT_DATA), TOTAL_PAGES))
        /\ pagusr_table' = overrun(child_table(s, c, a), c)
  BY DEF fork_no_gap
<1> DEFINE PT == child_table(s, c, a)
<1>2. /\ c \in Slot \ {0} /\ c \notin spaces /\ s \in Slot /\ free \subseteq Frame
      /\ Tables(pagusr_table, free, spaces, lost)
  BY DEF FreeSlots, MemOK, Tables, Typed
<1>3. Fresh(a, NUM_PAG_DATA, free)
  BY <1>2, Sizes, AllocFacts
<1>4. PT = ChildOf(pagusr_table, s, c, a)
  BY ChildIs
<1>5. Tables(PT, free \ Range(a), spaces \cup {c}, lost)
  BY <1>2, <1>3, <1>4, ChildTables
<1>6. PICK u \in spaces, q \in DataPage :
        /\ u \in Slot /\ q \in Page /\ e = at(u, q) /\ pagusr_table[at(u, q)] # NotPresent
  BY PrivatePage
<1>7. u # c /\ q >= PAG_LOG_INIT_DATA
  BY <1>2, <1>6, Pages
<1>8. PT[e] = pagusr_table[e]
  <2>1. Span(c, PAG_LOG_INIT_DATA, NUM_PAG_DATA) /\ Long(a, NUM_PAG_DATA)
    BY <1>2, <1>3, Sizes DEF Span, Page, Fresh, Long
  <2> DEFINE D == set_ss_pags(pagusr_table, at(c, PAG_LOG_INIT_DATA), a)
  <2>2. WithSet(D, pagusr_table, c, PAG_LOG_INIT_DATA, NUM_PAG_DATA, a)
    BY <2>1, SetPages
  <2>3. ~ In(u, q, c, PAG_LOG_INIT_DATA, NUM_PAG_DATA)
    BY <1>7 DEF In
  <2>4. ChildOf(pagusr_table, s, c, a)[at(u, q)] = D[at(u, q)]
    BY <1>2, <1>6, <1>7, ChildPages
  <2> QED
    BY <1>4, <1>6, <2>2, <2>3, <2>4 DEF WithSet
<1> HIDE DEF PT
<1>9. pagusr_table'[e] = PT[e]
  <2>1. e \in Entry
    BY <1>6, AtEntry
  <2>2. ~ (at(c, PAG_LOG_INIT_DATA) <= e /\ e < at(c, PAG_LOG_INIT_DATA) + TOTAL_PAGES)
    BY <1>2, <1>6, <1>7, BeyondTheTable
  <2>3. pagusr_table' = del_ss_pags(PT, at(c, PAG_LOG_INIT_DATA), TOTAL_PAGES)
    BY <1>1 DEF overrun, PT
  <2> QED
    BY <2>1, <2>2, <2>3 DEF del_ss_pags
<1>10. /\ PT[e] \notin free \ Range(a) /\ PT[e] \notin CodeFrames /\ PT[e] >= NUM_PAG_KERNEL
       /\ \A v \in Slot, w \in DataPage : PT[at(v, w)] = PT[e] => v = u
  BY <1>5, <1>6, <1>8 DEF Tables, Exclusive
<1>11. ASSUME NEW d \in Entry, at(c, PAG_LOG_INIT_DATA) <= d,
              d < at(c, PAG_LOG_INIT_DATA) + TOTAL_PAGES,
              PT[e] = get_frame(PT, d), PT[e] > NUM_PAG_KERNEL
       PROVE  FALSE
  <2>1. PICK v \in Slot, w \in Page : d = at(v, w)
    BY EntryAt
  <2>2. PT[d] = PT[e]
    <3>1. ~ (0 > NUM_PAG_KERNEL) /\ \A g \in GuardPages : ~ (g > NUM_PAG_KERNEL)
      BY MemoryAssumption
    <3>2. PT[d] # NotPresent
      BY <3>1, <1>11, Zenon DEF get_frame
    <3> QED
      BY <3>2, <1>11 DEF get_frame
  <2>3. CASE w \in DataPage
    <3>1. v = c
      BY <1>2, <1>11, <2>1, <2>3, BeyondTheTable
    <3> QED
      BY <3>1, <2>1, <2>2, <2>3, <1>7, <1>10
  <2>4. CASE w \in 0 .. PAG_LOG_INIT_DATA - 1
    <3>1. PT[d] = NotPresent \/ PT[d] < NUM_PAG_KERNEL \/ PT[d] \in CodeFrames
      BY <2>1, <2>4, <1>5 DEF Tables, LowPages
    <3>2. PT[e] # NotPresent /\ PT[e] \in Frame
      <4>1. pagusr_table[e] \in Frame \cup {NotPresent}
        BY <1>2, <1>6, AtEntry DEF Tables, Typed
      <4> QED
        BY <4>1, <1>6, <1>8
    <3> QED
      BY <3>1, <3>2, <2>2, <1>10, Sizes DEF Frame
  <2> QED
    BY <2>3, <2>4, Pages
<1>12. PT[e] \notin free'
  <2>1. ASSUME PT[e] \in frames_at(PT, at(c, PAG_LOG_INIT_DATA), TOTAL_PAGES),
               PT[e] > NUM_PAG_KERNEL
        PROVE  FALSE
    BY <2>1, <1>11 DEF frames_at
  <2> QED
    BY <2>1, <1>1, <1>10 DEF free_frames, PT
<1> QED
  BY <1>8, <1>9, <1>12

(* sys_fork without a gap for the data pages: its clean-up runs into the next
   table, but takes no page with data, a stack or a region, nor its frame,
   from any process. *)
THEOREM FailedForkTakesNoData == Spec => FailedForkKeepsData
<1>1. ASSUME MemInv, [Next]_vars, ~ UNCHANGED vars, halted' = "overrun", NEW e \in Private
      PROVE  pagusr_table'[e] = pagusr_table[e] /\ pagusr_table[e] \notin free'
  <2>1. Next /\ Running /\ halted = "no" /\ MemOK
    BY <1>1 DEF Next, Stopped, MemInv, Running
  <2>2. PICK t \in Tasks, c \in FreeSlots : fork_no_gap(space_of(t), c)
    <3>1. PICK t \in Tasks : Call(t)
      BY <1>1, <2>1 DEF Next, exit, memRegDel, terminate_thread, switch, Stopped
    <3>2. ASSUME NEW c \in FreeSlots, NEW N \in StackSizes, threadCreate(t, c, N) PROVE FALSE
      BY <1>1, <2>1, <3>2 DEF threadCreate, new_stack, pushed
    <3>3. \E c \in FreeSlots : fork_no_gap(space_of(t), c)
      BY <1>1, <2>1, <3>1, <3>2 DEF Call, memRegGet, memRegGet_fails, memRegGet_wrapped, map_and_undo,
           threadCreate_fails, fork, fork_clobbers, fork_faults, fork_no_frames
    <3> QED
      BY <3>3
  <2>3. space_of(t) \in spaces
    BY <2>1, TaskSpace DEF MemOK, Tables, Typed
  <2> QED
    BY <2>1, <2>2, <2>3, <1>1, OverrunStep
<1>2. MemInv /\ [Next]_vars =>
        [halted' = "overrun" => \A e \in Private : /\ pagusr_table'[e] = pagusr_table[e]
                                                   /\ pagusr_table[e] \notin free']_vars
  BY <1>1
<1> QED
  BY <1>2, TablesStayInOrder, PTL DEF Spec, FailedForkKeepsData
-----------------------------------------------------------------------------
(* The lists of regions.  The nodes of a process in order: P are the pages of
   the nodes, nx, pv and tk what is in their fields next, prev and task. *)
Shape(L, P, nx, pv, tk) ==
  /\ P = {r.page : r \in L} /\ P \subseteq Nat
  /\ nx \in [P -> Int] /\ pv \in [P -> Int] /\ tk \in [P -> Int]
  /\ \A r \in L : nx[r.page] = r.next /\ pv[r.page] = r.prev /\ tk[r.page] = r.task
  /\ \A r \in L : r.num >= 1
  /\ \A x, y \in L : x.page = y.page => x = y

Paired(P, nx, pv) == \A p, q \in P : nx[p] = q <=> pv[q] = p

\* A pointer leads to a node or to a head.
Closed(P, f) == \A p \in P : f[p] < 0 \/ f[p] \in P

\* The head of a task, in H, leads to the last node of a list that ends at it.
Ends(P, nx, H, T) == \A c \in T : H[c] < 0 \/ (H[c] \in P /\ nx[H[c]] = HeadOf(c))

OwnEnds(P, nx, tk, U) == \A p \in P, t \in U : nx[p] = HeadOf(t) => tk[p] = t

\* The pages g[1] .. g[n] are those of t's nodes, linked in this order.
Before(g, i, t) == IF i = 1 THEN HeadOf(t) ELSE g[i - 1]
After(g, n, i, t) == IF i = n THEN HeadOf(t) ELSE g[i + 1]

IsChain(g, n, P, nx, pv, tk, h, t) ==
  /\ n \in Nat /\ g \in [1 .. n -> P]
  /\ \A i, j \in 1 .. n : g[i] = g[j] => i = j
  /\ \A i \in 1 .. n : tk[g[i]] = t
  /\ \A p \in P : tk[p] = t => \E i \in 1 .. n : g[i] = p
  /\ \A i \in 1 .. n : pv[g[i]] = Before(g, i, t) /\ nx[g[i]] = After(g, n, i, t)
  /\ h = IF n = 0 THEN HeadOf(t) ELSE g[n]

Chain(P, nx, pv, tk, h, t) == \E n, g : IsChain(g, n, P, nx, pv, tk, h, t)

(* The lists of the tasks T of one process, with their heads in H; those of
   the tasks U have exactly their own nodes. *)
Lists(P, nx, pv, tk, H, T, U) ==
  /\ U \subseteq T /\ T \subseteq Slot /\ H \in [Slot -> Int]
  /\ Paired(P, nx, pv) /\ Closed(P, nx) /\ Closed(P, pv)
  /\ Ends(P, nx, H, T)
  /\ OwnEnds(P, nx, tk, U)
  /\ \A t \in U : Chain(P, nx, pv, tk, H[t], t)

Fields(P, nx, pv, tk) ==
  P \subseteq Nat /\ nx \in [P -> Int] /\ pv \in [P -> Int] /\ tk \in [P -> Int]

LEMMA HeadsDiffer ==
  /\ \A t \in Slot : HeadOf(t) \in Int /\ HeadOf(t) < 0
  /\ \A t, u \in Slot : HeadOf(t) = HeadOf(u) => t = u
  /\ \A t \in Slot : t \in Int /\ t # Gone
  BY DEF HeadOf, Slot, Gone

\* list_add_tail of a node in page p to the list of c, seen as pages.
next_added(P, nx, H, c, p) ==
  [x \in P \cup {p} |-> IF x = p THEN HeadOf(c) ELSE IF x = H[c] THEN p ELSE nx[x]]
field_added(P, f, p, v) == [x \in P \cup {p} |-> IF x = p THEN v ELSE f[x]]

\* The list that is added to grows by one, at its end.
LEMMA ChainGrows ==
  ASSUME NEW P, NEW nx, NEW pv, NEW tk, Fields(P, nx, pv, tk),
         NEW H, NEW c \in Slot, NEW p \in Nat, p \notin P,
         Chain(P, nx, pv, tk, H[c], c)
  PROVE  Chain(P \cup {p}, next_added(P, nx, H, c, p), field_added(P, pv, p, H[c]),
               field_added(P, tk, p, c), p, c)
<1>1. PICK n, g : IsChain(g, n, P, nx, pv, tk, H[c], c)
  BY DEF Chain
<1>2. /\ n \in Nat /\ g \in [1 .. n -> P]
      /\ \A i, j \in 1 .. n : g[i] = g[j] => i = j
      /\ \A i \in 1 .. n : tk[g[i]] = c
      /\ \A q \in P : tk[q] = c => \E i \in 1 .. n : g[i] = q
      /\ \A i \in 1 .. n : pv[g[i]] = Before(g, i, c) /\ nx[g[i]] = After(g, n, i, c)
      /\ H[c] = IF n = 0 THEN HeadOf(c) ELSE g[n]
  BY <1>1 DEF IsChain
<1> DEFINE f == [i \in 1 .. n + 1 |-> IF i = n + 1 THEN p ELSE g[i]]
           P2 == P \cup {p}
           nx2 == next_added(P, nx, H, c, p)
           pv2 == field_added(P, pv, p, H[c])
           tk2 == field_added(P, tk, p, c)
<1>3. /\ n + 1 \in Nat /\ n + 1 \in 1 .. n + 1 /\ f[n + 1] = p
      /\ \A i \in 1 .. n : i \in 1 .. n + 1 /\ i # n + 1 /\ f[i] = g[i] /\ g[i] \in P /\ g[i] # p
      /\ \A i \in 1 .. n + 1 : i \in 1 .. n \/ i = n + 1
  BY <1>2
<1>4. f \in [1 .. n + 1 -> P2]
  BY <1>3
<1>5. /\ nx2[p] = HeadOf(c) /\ pv2[p] = H[c] /\ tk2[p] = c
      /\ \A x \in P : /\ pv2[x] = pv[x] /\ tk2[x] = tk[x]
                      /\ nx2[x] = IF x = H[c] THEN p ELSE nx[x]
  BY DEF next_added, field_added
<1> HIDE DEF nx2, pv2, tk2
<1>6. \A i, j \in 1 .. n + 1 : f[i] = f[j] => i = j
  BY <1>2, <1>3
<1>7. \A i \in 1 .. n + 1 : tk2[f[i]] = c
  BY <1>2, <1>3, <1>5
<1>8. ASSUME NEW q \in P2, tk2[q] = c
      PROVE  \E i \in 1 .. n + 1 : f[i] = q
  <2>1. CASE q = p
    BY <2>1, <1>3
  <2>2. CASE q # p
    <3>1. q \in P /\ tk[q] = c
      BY <2>2, <1>5, <1>8
    <3>2. PICK i \in 1 .. n : g[i] = q
      BY <3>1, <1>2
    <3> QED
      BY <3>2, <1>3
  <2> QED
    BY <2>1, <2>2
<1> HIDE DEF f
<1>9. ASSUME NEW i \in 1 .. n + 1
      PROVE  pv2[f[i]] = Before(f, i, c) /\ nx2[f[i]] = After(f, n + 1, i, c)
  <2>1. CASE i = n + 1
    <3>1. f[i] = p /\ nx2[f[i]] = HeadOf(c) /\ pv2[f[i]] = H[c]
      BY <2>1, <1>3, <1>5
    <3>2. CASE n = 0
      BY <2>1, <3>1, <3>2, <1>2 DEF Before, After
    <3>3. CASE n # 0
      <4>1. n \in 1 .. n /\ n + 1 # 1 /\ (n + 1) - 1 = n
        BY <3>3, <1>2
      <4>2. H[c] = f[n]
        BY <4>1, <3>3, <1>2, <1>3
      <4> QED
        BY <2>1, <3>1, <4>1, <4>2 DEF Before, After
    <3> QED
      BY <3>2, <3>3
  <2>2. CASE i \in 1 .. n
    <3>1. f[i] = g[i] /\ g[i] \in P /\ i # n + 1 /\ i \in Int
      BY <2>2, <1>3
    <3>2. pv2[f[i]] = Before(f, i, c)
      <4>1. pv2[f[i]] = Before(g, i, c)
        BY <2>2, <3>1, <1>2, <1>5
      <4>2. i # 1 => i - 1 \in 1 .. n
        BY <2>2, <1>2
      <4>3. i # 1 => f[i - 1] = g[i - 1]
        BY <4>2, <1>3
      <4> QED
        BY <4>1, <4>3 DEF Before
    <3>3. CASE i = n
      <4>1. H[c] = g[i] /\ f[n + 1] = p
        BY <2>2, <3>3, <1>2, <1>3
      <4>2. nx2[f[i]] = p
        BY <4>1, <3>1, <1>5
      <4> QED
        BY <3>1, <3>2, <3>3, <4>1, <4>2 DEF After
    <3>4. CASE i # n
      <4>1. i + 1 \in 1 .. n /\ n \in 1 .. n /\ n # 0
        BY <2>2, <3>4, <1>2
      <4>2. g[i] # g[n] /\ H[c] = g[n] /\ f[i + 1] = g[i + 1]
        BY <2>2, <3>4, <4>1, <1>2, <1>3
      <4>3. nx2[f[i]] = nx[g[i]]
        BY <4>2, <3>1, <1>5
      <4>4. nx[g[i]] = g[i + 1]
        BY <2>2, <3>4, <1>2 DEF After
      <4> QED
        BY <3>1, <3>2, <4>2, <4>3, <4>4 DEF After
    <3> QED
      BY <3>3, <3>4
  <2> QED
    BY <2>1, <2>2, <1>3
<1>10. IsChain(f, n + 1, P2, nx2, pv2, tk2, p, c)
  <2>1. p = IF n + 1 = 0 THEN HeadOf(c) ELSE f[n + 1]
    BY <1>2, <1>3
  <2> QED
    BY <2>1, <1>3, <1>4, <1>6, <1>7, <1>8, <1>9 DEF IsChain
<1> QED
  BY <1>10 DEF Chain, nx2, pv2, tk2

\* A list whose nodes keep their links and owner stays as it is.
LEMMA ChainStays ==
  ASSUME NEW P, NEW nx, NEW pv, NEW tk, NEW h, NEW t, Chain(P, nx, pv, tk, h, t),
         NEW P2, NEW nx2, NEW pv2, NEW tk2,
         \A x \in P : tk[x] = t => /\ x \in P2 /\ nx2[x] = nx[x] /\ pv2[x] = pv[x]
                                   /\ tk2[x] = t,
         \A x \in P2 : tk2[x] = t => x \in P /\ tk[x] = t
  PROVE  Chain(P2, nx2, pv2, tk2, h, t)
<1>1. PICK n, g : IsChain(g, n, P, nx, pv, tk, h, t)
  BY DEF Chain
<1>2. \A i \in 1 .. n : /\ g[i] \in P2 /\ nx2[g[i]] = nx[g[i]] /\ pv2[g[i]] = pv[g[i]]
                        /\ tk2[g[i]] = t
  BY <1>1 DEF IsChain
<1>3. g \in [1 .. n -> P2]
  BY <1>1, <1>2 DEF IsChain
<1>4. \A p \in P2 : tk2[p] = t => \E i \in 1 .. n : g[i] = p
  BY <1>1 DEF IsChain
<1>5. IsChain(g, n, P2, nx2, pv2, tk2, h, t)
  BY <1>1, <1>2, <1>3, <1>4 DEF IsChain
<1> QED
  BY <1>5 DEF Chain

\* The nodes of a list are linked to one another and to the list's head.
Inside(P, nx, pv, tk, t) ==
  \A x \in P : tk[x] = t =>
    /\ nx[x] = HeadOf(t) \/ (nx[x] \in P /\ tk[nx[x]] = t)
    /\ pv[x] = HeadOf(t) \/ (pv[x] \in P /\ tk[pv[x]] = t)

LEMMA ChainInside ==
  ASSUME NEW P, NEW nx, NEW pv, NEW tk, NEW h, NEW t, Chain(P, nx, pv, tk, h, t)
  PROVE  Inside(P, nx, pv, tk, t)
<1> SUFFICES ASSUME NEW x \in P, tk[x] = t
             PROVE  /\ nx[x] = HeadOf(t) \/ (nx[x] \in P /\ tk[nx[x]] = t)
                    /\ pv[x] = HeadOf(t) \/ (pv[x] \in P /\ tk[pv[x]] = t)
  BY DEF Inside
<1>1. PICK n, g : IsChain(g, n, P, nx, pv, tk, h, t)
  BY DEF Chain
<1>2. /\ n \in Nat /\ g \in [1 .. n -> P]
      /\ \A i \in 1 .. n : tk[g[i]] = t
      /\ \A i \in 1 .. n : pv[g[i]] = Before(g, i, t) /\ nx[g[i]] = After(g, n, i, t)
  BY <1>1 DEF IsChain
<1>3. PICK i \in 1 .. n : g[i] = x
  BY <1>1 DEF IsChain
<1>4. i # n => i + 1 \in 1 .. n
  BY <1>2
<1>5. nx[x] = HeadOf(t) \/ (nx[x] \in P /\ tk[nx[x]] = t)
  BY <1>2, <1>3, <1>4 DEF After
<1>6. i # 1 => i - 1 \in 1 .. n
  BY <1>2
<1>7. pv[x] = HeadOf(t) \/ (pv[x] \in P /\ tk[pv[x]] = t)
  BY <1>2, <1>3, <1>6 DEF Before
<1> QED
  BY <1>5, <1>7

\* list_del of the node in page p, seen as pages.
next_removed(P, nx, pv, p) == [x \in P \ {p} |-> IF x = pv[p] THEN nx[p] ELSE nx[x]]
prev_removed(P, nx, pv, p) == [x \in P \ {p} |-> IF x = nx[p] THEN pv[p] ELSE pv[x]]
field_removed(P, f, p) == [x \in P \ {p} |-> f[x]]
head_removed(H, nx, pv, p, t) == IF nx[p] = HeadOf(t) THEN pv[p] ELSE H[t]

\* The list that the node was in closes over it.
LEMMA ChainShrinks ==
  ASSUME NEW P, NEW nx, NEW pv, NEW tk, Fields(P, nx, pv, tk),
         NEW H, NEW t \in Slot, NEW p \in P, tk[p] = t, Chain(P, nx, pv, tk, H[t], t)
  PROVE  Chain(P \ {p}, next_removed(P, nx, pv, p), prev_removed(P, nx, pv, p),
               field_removed(P, tk, p), head_removed(H, nx, pv, p, t), t)
<1>1. PICK n, g : IsChain(g, n, P, nx, pv, tk, H[t], t)
  BY DEF Chain
<1>2. /\ n \in Nat /\ g \in [1 .. n -> P]
      /\ \A i, j \in 1 .. n : g[i] = g[j] => i = j
      /\ \A i \in 1 .. n : tk[g[i]] = t
      /\ \A q \in P : tk[q] = t => \E i \in 1 .. n : g[i] = q
      /\ \A i \in 1 .. n : pv[g[i]] = Before(g, i, t) /\ nx[g[i]] = After(g, n, i, t)
      /\ H[t] = IF n = 0 THEN HeadOf(t) ELSE g[n]
  BY <1>1 DEF IsChain
<1>3. PICK m \in 1 .. n : g[m] = p
  BY <1>2
<1> DEFINE f == [i \in 1 .. n - 1 |-> IF i < m THEN g[i] ELSE g[i + 1]]
           P2 == P \ {p}
           nx2 == next_removed(P, nx, pv, p)
           pv2 == prev_removed(P, nx, pv, p)
           tk2 == field_removed(P, tk, p)
           h2 == head_removed(H, nx, pv, p, t)
<1>4. /\ n - 1 \in Nat /\ m \in Int /\ n \in Int
      /\ pv[p] = Before(g, m, t) /\ nx[p] = After(g, n, m, t)
      /\ HeadOf(t) \notin P
  BY <1>2, <1>3, HeadsDiffer DEF Fields
<1>5. \A i \in 1 .. n : i # m => g[i] \in P2
  BY <1>2, <1>3
<1>6. \A i \in 1 .. n - 1 :
        /\ i \in Int /\ i \in 1 .. n /\ i + 1 \in 1 .. n
        /\ i < m => f[i] = g[i] /\ i # m
        /\ ~ (i < m) => f[i] = g[i + 1] /\ i + 1 # m
  BY <1>4
<1>7. f \in [1 .. n - 1 -> P2]
  BY <1>5, <1>6
<1>8. /\ \A x \in P2 : /\ nx2[x] = IF x = pv[p] THEN nx[p] ELSE nx[x]
                       /\ pv2[x] = IF x = nx[p] THEN pv[p] ELSE pv[x]
                       /\ tk2[x] = tk[x]
      /\ h2 = IF nx[p] = HeadOf(t) THEN pv[p] ELSE H[t]
  BY DEF next_removed, prev_removed, field_removed, head_removed
<1> HIDE DEF f, nx2, pv2, tk2, h2, P2
<1>9. ASSUME NEW i \in 1 .. n - 1, NEW j \in 1 .. n - 1, f[i] = f[j]
      PROVE  i = j
  <2>1. CASE i < m /\ j < m
    BY <2>1, <1>2, <1>6, <1>9
  <2>2. CASE i < m /\ ~ (j < m)
    <3>1. i = j + 1
      BY <2>2, <1>2, <1>6, <1>9
    <3> QED
      BY <3>1, <2>2, <1>4
  <2>3. CASE ~ (i < m) /\ j < m
    <3>1. i + 1 = j
      BY <2>3, <1>2, <1>6, <1>9
    <3> QED
      BY <3>1, <2>3, <1>4
  <2>4. CASE ~ (i < m) /\ ~ (j < m)
    <3>1. i + 1 = j + 1
      BY <2>4, <1>2, <1>6, <1>9
    <3> QED
      BY <3>1
  <2> QED
    BY <2>1, <2>2, <2>3, <2>4
<1>10. ASSUME NEW i \in 1 .. n - 1 PROVE tk2[f[i]] = t
  <2>1. f[i] \in P2 /\ tk2[f[i]] = tk[f[i]]
    BY <1>7, <1>8
  <2>2. tk[f[i]] = t
    BY <1>2, <1>6
  <2> QED
    BY <2>1, <2>2
<1>11. ASSUME NEW q \in P2, tk2[q] = t
       PROVE  \E i \in 1 .. n - 1 : f[i] = q
  <2>1. q \in P /\ q # p /\ tk[q] = t
    BY <1>8, <1>11 DEF P2
  <2>2. PICK k \in 1 .. n : g[k] = q
    BY <2>1, <1>2
  <2>3. k # m
    BY <2>1, <2>2, <1>3
  <2>4. CASE k < m
    <3>1. k \in 1 .. n - 1
      BY <2>4, <1>3, <1>4
    <3> QED
      BY <3>1, <2>2, <2>4, <1>6
  <2>5. CASE m < k
    <3>1. k - 1 \in 1 .. n - 1 /\ ~ (k - 1 < m) /\ (k - 1) + 1 = k
      BY <2>5, <1>3, <1>4
    <3> QED
      BY <3>1, <2>2, <1>6
  <2> QED
    BY <2>3, <2>4, <2>5, <1>4
\* Where the neighbours of the removed node are.
<1>12. /\ m = n => nx[p] = HeadOf(t)
       /\ m # n => m + 1 \in 1 .. n /\ nx[p] = g[m + 1]
       /\ m = 1 => pv[p] = HeadOf(t)
       /\ m # 1 => m - 1 \in 1 .. n /\ pv[p] = g[m - 1]
  BY <1>3, <1>4 DEF Before, After
<1>13. \A k \in 1 .. n : /\ g[k] = nx[p] <=> k = m + 1
                         /\ g[k] = pv[p] <=> k = m - 1
  <2> SUFFICES ASSUME NEW k \in 1 .. n
               PROVE  (g[k] = nx[p] <=> k = m + 1) /\ (g[k] = pv[p] <=> k = m - 1)
    OBVIOUS
  <2>1. g[k] # HeadOf(t)
    BY <1>2, <1>4
  <2>2. g[k] = nx[p] <=> k = m + 1
    <3>1. CASE m = n
      BY <3>1, <2>1, <1>4, <1>12
    <3>2. CASE m # n
      BY <3>2, <1>2, <1>12
    <3> QED
      BY <3>1, <3>2
  <2>3. g[k] = pv[p] <=> k = m - 1
    <3>1. CASE m = 1
      BY <3>1, <2>1, <1>4, <1>12
    <3>2. CASE m # 1
      BY <3>2, <1>2, <1>12
    <3> QED
      BY <3>1, <3>2
  <2> QED
    BY <2>2, <2>3
<1>14. ASSUME NEW i \in 1 .. n - 1
       PROVE  pv2[f[i]] = Before(f, i, t)
  <2>0. f[i] \in P2 /\ i \in Int /\ i <= n - 1 /\ 1 <= i
    BY <1>7, <1>4
  <2>1. CASE i < m
    <3>1. i \in 1 .. n /\ f[i] = g[i] /\ i # m + 1
      BY <2>1, <1>4, <1>6
    <3>2. pv2[f[i]] = Before(g, i, t)
      BY <3>1, <2>0, <1>2, <1>8, <1>13
    <3>3. i # 1 => i - 1 \in 1 .. n - 1 /\ i - 1 < m
      BY <2>0, <2>1, <1>4
    <3>4. i # 1 => f[i - 1] = g[i - 1]
      BY <3>3, <1>6
    <3> QED
      BY <3>2, <3>4 DEF Before
  <2>2. CASE i = m
    <3>1. f[i] = g[m + 1] /\ m + 1 \in 1 .. n
      BY <2>2, <1>6
    <3>2. pv2[f[i]] = pv[p]
      BY <3>1, <2>0, <1>8, <1>13
    <3>3. i # 1 => i - 1 \in 1 .. n - 1 /\ i - 1 < m
      BY <2>0, <2>2, <1>4
    <3>4. i # 1 => f[i - 1] = g[i - 1]
      BY <3>3, <1>6
    <3> QED
      BY <3>2, <3>4, <2>2, <1>12 DEF Before
  <2>3. CASE m < i
    <3>1. f[i] = g[i + 1] /\ i + 1 \in 1 .. n /\ i + 1 # m + 1 /\ i + 1 # 1 /\ (i + 1) - 1 = i
      BY <2>0, <2>3, <1>4, <1>6
    <3>2. pv2[f[i]] = g[i]
      <4>1. pv2[f[i]] = pv[g[i + 1]]
        BY <3>1, <2>0, <1>8, <1>13
      <4> QED
        BY <4>1, <3>1, <1>2 DEF Before
    <3>3. i # 1 /\ i - 1 \in 1 .. n - 1 /\ ~ (i - 1 < m) /\ (i - 1) + 1 = i
      BY <2>0, <2>3, <1>3, <1>4
    <3>4. f[i - 1] = g[i]
      BY <3>3, <1>6
    <3> QED
      BY <3>2, <3>3, <3>4 DEF Before
  <2> QED
    BY <2>0, <2>1, <2>2, <2>3, <1>4
<1>15. ASSUME NEW i \in 1 .. n - 1
       PROVE  nx2[f[i]] = After(f, n - 1, i, t)
  <2>0. f[i] \in P2 /\ i \in Int /\ i <= n - 1 /\ 1 <= i
    BY <1>7, <1>4
  <2>1. CASE i < m - 1
    <3>1. i \in 1 .. n /\ f[i] = g[i] /\ i # m - 1 /\ i # n /\ i # n - 1
      BY <2>0, <2>1, <1>3, <1>4, <1>6
    <3>2. nx2[f[i]] = g[i + 1]
      <4>1. nx2[f[i]] = nx[g[i]]
        BY <3>1, <2>0, <1>8, <1>13
      <4> QED
        BY <4>1, <3>1, <1>2 DEF After
    <3>3. i + 1 \in 1 .. n - 1 /\ i + 1 < m
      BY <2>0, <2>1, <3>1, <1>4
    <3>4. f[i + 1] = g[i + 1]
      BY <3>3, <1>6
    <3> QED
      BY <3>1, <3>2, <3>4 DEF After
  <2>2. CASE i = m - 1
    <3>1. i < m /\ i \in 1 .. n /\ f[i] = g[i]
      BY <2>0, <2>2, <1>4, <1>6
    <3>2. nx2[f[i]] = nx[p]
      BY <3>1, <2>0, <2>2, <1>8, <1>13
    <3>3. CASE m = n
      BY <2>2, <3>2, <3>3, <1>12 DEF After
    <3>4. CASE m # n
      <4>1. m \in 1 .. n - 1 /\ i + 1 = m /\ i # n - 1 /\ ~ (m < m)
        BY <2>2, <3>4, <1>3, <1>4
      <4>2. f[m] = g[m + 1]
        BY <4>1, <1>6
      <4> QED
        BY <3>2, <3>4, <4>1, <4>2, <1>12 DEF After
    <3> QED
      BY <3>3, <3>4
  <2>3. CASE m <= i
    <3>1. f[i] = g[i + 1] /\ i + 1 \in 1 .. n /\ i + 1 # m - 1 /\ i + 1 \in Int
      BY <2>0, <2>3, <1>4, <1>6
    <3>2. nx2[f[i]] = After(g, n, i + 1, t)
      <4>1. nx2[f[i]] = nx[g[i + 1]]
        BY <3>1, <2>0, <1>8, <1>13
      <4> QED
        BY <4>1, <3>1, <1>2
    <3>3. CASE i + 1 = n
      BY <3>2, <3>3, <2>0, <1>4 DEF After
    <3>4. CASE i + 1 # n
      <4>1. i # n - 1 /\ i + 1 \in 1 .. n - 1 /\ ~ (i + 1 < m)
        BY <3>4, <2>0, <2>3, <1>4
      <4>2. f[i + 1] = g[(i + 1) + 1]
        BY <4>1, <1>6
      <4> QED
        BY <3>2, <3>4, <4>1, <4>2 DEF After
    <3> QED
      BY <3>3, <3>4
  <2> QED
    BY <2>0, <2>1, <2>2, <2>3, <1>4
<1>16. h2 = IF n - 1 = 0 THEN HeadOf(t) ELSE f[n - 1]
  <2>1. CASE m = n
    <3>1. h2 = pv[p]
      BY <2>1, <1>8, <1>12
    <3>2. n - 1 # 0 => n - 1 \in 1 .. n - 1 /\ n - 1 < m /\ m # 1
      BY <2>1, <1>4
    <3>3. n - 1 # 0 => f[n - 1] = g[m - 1]
      BY <3>2, <2>1, <1>6
    <3>4. n - 1 = 0 => m = 1
      BY <2>1, <1>4
    <3> QED
      BY <3>1, <3>2, <3>3, <3>4, <1>12
  <2>2. CASE m # n
    <3>1. nx[p] # HeadOf(t)
      BY <2>2, <1>2, <1>4, <1>12
    <3>2. n - 1 \in 1 .. n - 1 /\ ~ (n - 1 < m) /\ (n - 1) + 1 = n /\ n # 0 /\ n - 1 # 0
      BY <2>2, <1>3, <1>4
    <3>3. f[n - 1] = g[n]
      BY <3>2, <1>6
    <3> QED
      BY <3>1, <3>2, <3>3, <1>2, <1>8
  <2> QED
    BY <2>1, <2>2
<1>17. IsChain(f, n - 1, P2, nx2, pv2, tk2, h2, t)
  BY <1>4, <1>7, <1>9, <1>10, <1>11, <1>14, <1>15, <1>16 DEF IsChain
<1> QED
  BY <1>17 DEF Chain, P2, nx2, pv2, tk2, h2

\* list_add_tail keeps the lists of a process in order.
LEMMA ListsGrow ==
  ASSUME NEW P, NEW nx, NEW pv, NEW tk, Fields(P, nx, pv, tk),
         NEW H, NEW T, NEW U, Lists(P, nx, pv, tk, H, T, U),
         NEW c \in T, NEW p \in Nat, p \notin P
  PROVE  Lists(P \cup {p}, next_added(P, nx, H, c, p), field_added(P, pv, p, H[c]),
               field_added(P, tk, p, c), [H EXCEPT ![c] = p], T, U)
<1> DEFINE P2 == P \cup {p}
           nx2 == next_added(P, nx, H, c, p)
           pv2 == field_added(P, pv, p, H[c])
           tk2 == field_added(P, tk, p, c)
           H2 == [H EXCEPT ![c] = p]
<1>1. /\ U \subseteq T /\ T \subseteq Slot /\ H \in [Slot -> Int]
      /\ Paired(P, nx, pv) /\ Closed(P, nx) /\ Closed(P, pv) /\ Ends(P, nx, H, T)
      /\ OwnEnds(P, nx, tk, U) /\ \A t \in U : Chain(P, nx, pv, tk, H[t], t)
  BY DEF Lists
<1>2. /\ P \subseteq Nat /\ c \in Slot /\ HeadOf(c) < 0 /\ HeadOf(c) \in Int
      /\ H[c] \in Int /\ H[c] # p /\ HeadOf(c) \notin P2 /\ p >= 0
  BY <1>1, HeadsDiffer DEF Fields, Ends
<1>3. H[c] < 0 \/ (H[c] \in P /\ nx[H[c]] = HeadOf(c))
  BY <1>1 DEF Ends
<1>4. /\ nx2[p] = HeadOf(c) /\ pv2[p] = H[c] /\ tk2[p] = c
      /\ \A x \in P : /\ x # p /\ pv2[x] = pv[x] /\ tk2[x] = tk[x]
                      /\ x = H[c] => nx2[x] = p
                      /\ x # H[c] => nx2[x] = nx[x]
  BY DEF next_added, field_added
<1>5. /\ H2 \in [Slot -> Int] /\ H2[c] = p
      /\ \A t \in Slot : t # c => H2[t] = H[t]
  BY <1>1, <1>2
<1> HIDE DEF nx2, pv2, tk2, H2
<1>6. \A x \in P : nx[x] # p /\ pv[x] # p
  BY <1>1, <1>2 DEF Closed
<1>7. Paired(P2, nx2, pv2)
  <2> SUFFICES ASSUME NEW x \in P2, NEW y \in P2
               PROVE  nx2[x] = y <=> pv2[y] = x
    BY DEF Paired
  <2>1. CASE x = p /\ y = p
    BY <2>1, <1>2, <1>4
  <2>2. CASE x = p /\ y # p
    BY <2>2, <1>2, <1>4, <1>6
  <2>3. CASE x # p /\ y = p
    BY <2>3, <1>4, <1>6
  <2>4. CASE x # p /\ y # p /\ x = H[c]
    <3>1. x \in P /\ y \in P /\ nx[x] = HeadOf(c) /\ nx[x] # y
      BY <2>4, <1>2, <1>3
    <3>2. pv[y] # x
      BY <3>1, <1>1 DEF Paired
    <3> QED
      BY <2>4, <3>1, <3>2, <1>4
  <2>5. CASE x # p /\ y # p /\ x # H[c]
    BY <2>5, <1>1, <1>4 DEF Paired
  <2> QED
    BY <2>1, <2>2, <2>3, <2>4, <2>5
<1>8. Closed(P2, nx2)
  <2> SUFFICES ASSUME NEW x \in P2
               PROVE  nx2[x] < 0 \/ nx2[x] \in P2
    BY DEF Closed
  <2>1. CASE x = p
    BY <2>1, <1>2, <1>4
  <2>2. CASE x # p
    BY <2>2, <1>1, <1>4 DEF Closed
  <2> QED
    BY <2>1, <2>2
<1>9. Closed(P2, pv2)
  BY <1>1, <1>3, <1>4 DEF Closed
<1>10. Ends(P2, nx2, H2, T)
  <2> SUFFICES ASSUME NEW d \in T
               PROVE  H2[d] < 0 \/ (H2[d] \in P2 /\ nx2[H2[d]] = HeadOf(d))
    BY DEF Ends
  <2>1. CASE d = c
    BY <2>1, <1>4, <1>5
  <2>2. CASE d # c
    <3>1. d \in Slot /\ H2[d] = H[d] /\ HeadOf(d) # HeadOf(c)
      BY <2>2, <1>1, <1>2, <1>5, HeadsDiffer
    <3>2. H[d] < 0 \/ (H[d] \in P /\ nx[H[d]] = HeadOf(d))
      BY <1>1 DEF Ends
    <3>3. CASE H[d] \in P /\ nx[H[d]] = HeadOf(d)
      <4>1. H[d] # H[c]
        BY <3>1, <3>3, <1>2, <1>3 DEF Fields
      <4> QED
        BY <3>1, <3>3, <4>1, <1>4
    <3> QED
      BY <3>1, <3>2, <3>3
  <2> QED
    BY <2>1, <2>2
<1>11. OwnEnds(P2, nx2, tk2, U)
  <2> SUFFICES ASSUME NEW x \in P2, NEW t \in U, nx2[x] = HeadOf(t)
               PROVE  tk2[x] = t
    BY DEF OwnEnds
  <2>1. t \in Slot /\ HeadOf(t) < 0
    BY <1>1, HeadsDiffer
  <2>2. CASE x = p
    <3>1. HeadOf(t) = HeadOf(c)
      BY <2>2, <1>4
    <3> QED
      BY <3>1, <2>1, <2>2, <1>2, <1>4, HeadsDiffer
  <2>3. CASE x # p
    <3>1. x \in P /\ x # H[c]
      BY <2>1, <2>3, <1>2, <1>4
    <3> QED
      BY <3>1, <1>1, <1>4 DEF OwnEnds
  <2> QED
    BY <2>2, <2>3
<1>12. ASSUME NEW t \in U
       PROVE  Chain(P2, nx2, pv2, tk2, H2[t], t)
  <2>1. t \in Slot /\ Chain(P, nx, pv, tk, H[t], t)
    BY <1>1
  <2>2. CASE t = c
    BY <2>1, <2>2, <1>2, <1>5, ChainGrows DEF P2, nx2, pv2, tk2
  <2>3. CASE t # c
    <3>1. H2[t] = H[t] /\ HeadOf(t) # HeadOf(c)
      BY <2>1, <2>3, <1>2, <1>5, HeadsDiffer
    <3>2. ASSUME NEW x \in P, tk[x] = t
          PROVE  /\ x \in P2 /\ nx2[x] = nx[x] /\ pv2[x] = pv[x] /\ tk2[x] = t
      <4>1. nx[x] = HeadOf(t) \/ nx[x] \in P
        <5>1. Inside(P, nx, pv, tk, t)
          BY <2>1, ChainInside
        <5> QED
          BY <5>1, <3>2 DEF Inside
      <4>2. nx[x] # HeadOf(c)
        BY <4>1, <3>1, <1>2
      <4>3. x # H[c]
        BY <4>2, <1>2, <1>3
      <4> QED
        BY <3>2, <4>3, <1>4
    <3>3. \A x \in P2 : tk2[x] = t => x \in P /\ tk[x] = t
      BY <2>3, <1>4
    <3> HIDE DEF P2
    <3>4. Chain(P2, nx2, pv2, tk2, H[t], t)
      BY <2>1, <3>2, <3>3, ChainStays
    <3> QED
      BY <3>1, <3>4
  <2> QED
    BY <2>2, <2>3
<1>13. Lists(P2, nx2, pv2, tk2, H2, T, U)
  BY <1>1, <1>5, <1>7, <1>8, <1>9, <1>10, <1>11, <1>12 DEF Lists
<1> QED
  BY <1>13 DEF P2, nx2, pv2, tk2, H2

\* list_del keeps the lists of a process in order.
LEMMA ListsShrink ==
  ASSUME NEW P, NEW nx, NEW pv, NEW tk, Fields(P, nx, pv, tk),
         NEW H, NEW T, NEW U, Lists(P, nx, pv, tk, H, T, U),
         NEW p \in P,
         NEW H2 \in [Slot -> Int], \A t \in T : H2[t] = head_removed(H, nx, pv, p, t)
  PROVE  Lists(P \ {p}, next_removed(P, nx, pv, p), prev_removed(P, nx, pv, p),
               field_removed(P, tk, p), H2, T, U)
<1> DEFINE P2 == P \ {p}
           nx2 == next_removed(P, nx, pv, p)
           pv2 == prev_removed(P, nx, pv, p)
           tk2 == field_removed(P, tk, p)
<1>1. /\ U \subseteq T /\ T \subseteq Slot
      /\ Paired(P, nx, pv) /\ Closed(P, nx) /\ Closed(P, pv) /\ Ends(P, nx, H, T)
      /\ OwnEnds(P, nx, tk, U) /\ \A t \in U : Chain(P, nx, pv, tk, H[t], t)
  BY DEF Lists
<1>2. P \subseteq Nat /\ p \in Nat /\ nx[p] \in Int /\ pv[p] \in Int
  BY DEF Fields
<1>3. \A x \in P2 : /\ x \in P /\ x # p /\ tk2[x] = tk[x]
                    /\ x = pv[p] => nx2[x] = nx[p]
                    /\ x # pv[p] => nx2[x] = nx[x]
                    /\ x = nx[p] => pv2[x] = pv[p]
                    /\ x # nx[p] => pv2[x] = pv[x]
  BY DEF next_removed, prev_removed, field_removed
<1> HIDE DEF nx2, pv2, tk2
<1>4. /\ \A x \in P : nx[x] = p <=> pv[p] = x
      /\ \A x \in P : nx[p] = x <=> pv[x] = p
  BY <1>1 DEF Paired
<1>5. Paired(P2, nx2, pv2)
  <2> SUFFICES ASSUME NEW x \in P2, NEW y \in P2
               PROVE  nx2[x] = y <=> pv2[y] = x
    BY DEF Paired
  <2>0. x \in P /\ y \in P /\ x # p /\ y # p
    BY <1>3
  <2>1. CASE x = pv[p] /\ y = nx[p]
    BY <2>1, <1>3
  <2>2. CASE x = pv[p] /\ y # nx[p]
    <3>1. nx2[x] # y /\ pv2[y] = pv[y]
      BY <2>2, <1>3
    <3>2. nx[x] = p
      BY <2>0, <2>2, <1>4
    <3>3. pv[y] # x
      BY <3>2, <2>0, <1>1 DEF Paired
    <3> QED
      BY <3>1, <3>3
  <2>3. CASE x # pv[p] /\ y = nx[p]
    <3>1. pv2[y] # x /\ nx2[x] = nx[x]
      BY <2>3, <1>3
    <3>2. pv[y] = p
      BY <2>0, <2>3, <1>4
    <3>3. nx[x] # y
      BY <3>2, <2>0, <1>1 DEF Paired
    <3> QED
      BY <3>1, <3>3
  <2>4. CASE x # pv[p] /\ y # nx[p]
    BY <2>0, <2>4, <1>1, <1>3 DEF Paired
  <2> QED
    BY <2>1, <2>2, <2>3, <2>4
<1>6. Closed(P2, nx2)
  <2> SUFFICES ASSUME NEW x \in P2
               PROVE  nx2[x] < 0 \/ nx2[x] \in P2
    BY DEF Closed
  <2>0. x \in P /\ x # p
    BY <1>3
  <2>1. CASE x = pv[p]
    <3>1. nx2[x] = nx[p] /\ (nx[p] < 0 \/ nx[p] \in P)
      BY <2>1, <1>1, <1>3 DEF Closed
    <3>2. nx[p] # p
      BY <2>0, <2>1, <1>4
    <3> QED
      BY <3>1, <3>2
  <2>2. CASE x # pv[p]
    <3>1. nx2[x] = nx[x] /\ (nx[x] < 0 \/ nx[x] \in P) /\ nx[x] # p
      BY <2>0, <2>2, <1>1, <1>3, <1>4 DEF Closed
    <3> QED
      BY <3>1
  <2> QED
    BY <2>1, <2>2
<1>7. Closed(P2, pv2)
  <2> SUFFICES ASSUME NEW x \in P2
               PROVE  pv2[x] < 0 \/ pv2[x] \in P2
    BY DEF Closed
  <2>0. x \in P /\ x # p
    BY <1>3
  <2>1. CASE x = nx[p]
    <3>1. pv2[x] = pv[p] /\ (pv[p] < 0 \/ pv[p] \in P)
      BY <2>1, <1>1, <1>3 DEF Closed
    <3>2. pv[p] # p
      BY <2>0, <2>1, <1>4
    <3> QED
      BY <3>1, <3>2
  <2>2. CASE x # nx[p]
    <3>1. pv2[x] = pv[x] /\ (pv[x] < 0 \/ pv[x] \in P) /\ pv[x] # p
      BY <2>0, <2>2, <1>1, <1>3, <1>4 DEF Closed
    <3> QED
      BY <3>1
  <2> QED
    BY <2>1, <2>2
<1>8. Ends(P2, nx2, H2, T)
  <2> SUFFICES ASSUME NEW c \in T, H2[c] >= 0
               PROVE  H2[c] \in P2 /\ nx2[H2[c]] = HeadOf(c)
    BY <1>1 DEF Ends
  <2>1. c \in Slot /\ HeadOf(c) < 0 /\ H2[c] = head_removed(H, nx, pv, p, c)
    BY <1>1, HeadsDiffer
  <2>2. CASE nx[p] = HeadOf(c)
    <3>1. H2[c] = pv[p]
      BY <2>1, <2>2 DEF head_removed
    <3>2. pv[p] \in P
      BY <3>1, <1>1, <1>2 DEF Closed
    <3>3. pv[p] # p
      BY <2>1, <2>2, <1>2, <1>4
    <3> QED
      BY <2>2, <3>1, <3>2, <3>3, <1>3
  <2>3. CASE nx[p] # HeadOf(c)
    <3>1. H2[c] = H[c]
      BY <2>1, <2>3 DEF head_removed
    <3>2. H[c] \in P /\ nx[H[c]] = HeadOf(c)
      BY <3>1, <1>1 DEF Ends
    <3>3. H[c] # p /\ H[c] # pv[p]
      BY <3>2, <2>1, <2>3, <1>2, <1>4
    <3> QED
      BY <3>1, <3>2, <3>3, <1>3
  <2> QED
    BY <2>2, <2>3
<1>9. ASSUME NEW t \in U, tk[p] # t
      PROVE  \A x \in P : tk[x] = t => x # p /\ x # pv[p] /\ x # nx[p]
  <2> SUFFICES ASSUME NEW x \in P, tk[x] = t
               PROVE  x # p /\ x # pv[p] /\ x # nx[p]
    OBVIOUS
  <2>1. t \in Slot /\ HeadOf(t) < 0 /\ Chain(P, nx, pv, tk, H[t], t)
    BY <1>1, HeadsDiffer
  <2>2. /\ nx[x] = HeadOf(t) \/ (nx[x] \in P /\ tk[nx[x]] = t)
        /\ pv[x] = HeadOf(t) \/ (pv[x] \in P /\ tk[pv[x]] = t)
    <3>1. Inside(P, nx, pv, tk, t)
      BY <2>1, ChainInside
    <3> QED
      BY <3>1 DEF Inside
  <2>3. nx[x] # p /\ pv[x] # p
    BY <2>1, <2>2, <1>2, <1>9
  <2> QED
    BY <2>3, <1>4, <1>9
<1>10. OwnEnds(P2, nx2, tk2, U)
  <2> SUFFICES ASSUME NEW x \in P2, NEW t \in U, nx2[x] = HeadOf(t)
               PROVE  tk2[x] = t
    BY DEF OwnEnds
  <2>0. x \in P /\ x # p /\ tk2[x] = tk[x]
    BY <1>3
  <2>1. CASE x # pv[p]
    BY <2>0, <2>1, <1>1, <1>3 DEF OwnEnds
  <2>2. CASE x = pv[p]
    <3>1. nx[p] = HeadOf(t)
      BY <2>2, <1>3
    <3>2. tk[p] = t
      BY <3>1, <1>1 DEF OwnEnds
    <3>3. t \in Slot /\ HeadOf(t) < 0 /\ Chain(P, nx, pv, tk, H[t], t)
      BY <1>1, HeadsDiffer
    <3>4. pv[p] = HeadOf(t) \/ (pv[p] \in P /\ tk[pv[p]] = t)
      <4>1. Inside(P, nx, pv, tk, t)
        BY <3>3, ChainInside
      <4> QED
        BY <4>1, <3>2 DEF Inside
    <3> QED
      BY <2>0, <2>2, <3>3, <3>4, <1>2
  <2> QED
    BY <2>1, <2>2
<1>11. ASSUME NEW t \in U
       PROVE  Chain(P2, nx2, pv2, tk2, H2[t], t)
  <2>1. t \in Slot /\ t \in T /\ Chain(P, nx, pv, tk, H[t], t)
    BY <1>1
  <2>2. H2[t] = head_removed(H, nx, pv, p, t)
    BY <2>1
  <2>3. CASE tk[p] = t
    BY <2>1, <2>2, <2>3, ChainShrinks DEF P2, nx2, pv2, tk2
  <2>4. CASE tk[p] # t
    <3>1. nx[p] # HeadOf(t)
      BY <2>4, <1>1 DEF OwnEnds
    <3>2. H2[t] = H[t]
      BY <2>2, <3>1 DEF head_removed
    <3>3. \A x \in P : tk[x] = t => /\ x \in P2 /\ nx2[x] = nx[x] /\ pv2[x] = pv[x]
                                    /\ tk2[x] = t
      <4> SUFFICES ASSUME NEW x \in P, tk[x] = t
                   PROVE  /\ x \in P2 /\ nx2[x] = nx[x] /\ pv2[x] = pv[x] /\ tk2[x] = t
        OBVIOUS
      <4>1. x # p /\ x # pv[p] /\ x # nx[p]
        BY <2>4, <1>9
      <4> QED
        BY <4>1, <1>3
    <3>4. \A x \in P2 : tk2[x] = t => x \in P /\ tk[x] = t
      BY <1>3
    <3> HIDE DEF P2
    <3>5. Chain(P2, nx2, pv2, tk2, H[t], t)
      BY <2>1, <3>3, <3>4, ChainStays
    <3> QED
      BY <3>2, <3>5
  <2> QED
    BY <2>3, <2>4
<1>12. Lists(P2, nx2, pv2, tk2, H2, T, U)
  BY <1>1, <1>5, <1>6, <1>7, <1>8, <1>10, <1>11 DEF Lists
<1> QED
  BY <1>12 DEF P2, nx2, pv2, tk2

\* A task whose list nothing leads to joins, with an empty list.
LEMMA ListsJoined ==
  ASSUME NEW P, NEW nx, NEW pv, NEW tk, Fields(P, nx, pv, tk),
         NEW H, NEW T, NEW U, Lists(P, nx, pv, tk, H, T, U),
         NEW c \in Slot, c \notin T, \A p \in P : tk[p] # c,
         NEW U2, U2 \subseteq U \cup {c},
         c \in U2 => \A p \in P : nx[p] # HeadOf(c)
  PROVE  Lists(P, nx, pv, tk, [H EXCEPT ![c] = HeadOf(c)], T \cup {c}, U2)
<1> DEFINE H2 == [H EXCEPT ![c] = HeadOf(c)]
<1>1. /\ U \subseteq T /\ T \subseteq Slot /\ H \in [Slot -> Int]
      /\ Paired(P, nx, pv) /\ Closed(P, nx) /\ Closed(P, pv) /\ Ends(P, nx, H, T)
      /\ OwnEnds(P, nx, tk, U) /\ \A t \in U : Chain(P, nx, pv, tk, H[t], t)
  BY DEF Lists
<1>2. /\ HeadOf(c) \in Int /\ HeadOf(c) < 0
      /\ H2 \in [Slot -> Int] /\ H2[c] = HeadOf(c) /\ \A t \in T : H2[t] = H[t]
  BY <1>1, HeadsDiffer
<1> HIDE DEF H2
<1>3. Ends(P, nx, H2, T \cup {c})
  BY <1>1, <1>2 DEF Ends
<1>4. OwnEnds(P, nx, tk, U2)
  BY <1>1 DEF OwnEnds
<1>5. ASSUME NEW t \in U2
      PROVE  Chain(P, nx, pv, tk, H2[t], t)
  <2>1. CASE t = c
    <3> DEFINE g == [i \in 1 .. 0 |-> 0]
    <3>1. 1 .. 0 = {} /\ g \in [1 .. 0 -> P]
      OBVIOUS
    <3> HIDE DEF g
    <3>2. IsChain(g, 0, P, nx, pv, tk, H2[c], c)
      BY <3>1, <1>2 DEF IsChain
    <3> QED
      BY <2>1, <3>2 DEF Chain
  <2>2. CASE t # c
    BY <2>2, <1>1, <1>2
  <2> QED
    BY <2>1, <2>2
<1>6. Lists(P, nx, pv, tk, H2, T \cup {c}, U2)
  BY <1>1, <1>2, <1>3, <1>4, <1>5 DEF Lists
<1> QED
  BY <1>6 DEF H2

\* Tasks that leave, and heads of others that change, do not matter to the rest.
LEMMA ListsLeft ==
  ASSUME NEW P, NEW nx, NEW pv, NEW tk, NEW H, NEW T, NEW U,
         Lists(P, nx, pv, tk, H, T, U),
         NEW T2, T2 \subseteq T, NEW U2, U2 \subseteq U, U2 \subseteq T2,
         NEW H2 \in [Slot -> Int], \A t \in T2 : H2[t] = H[t],
         NEW tk2, \A p \in P, t \in U2 : tk2[p] = t <=> tk[p] = t
  PROVE  Lists(P, nx, pv, tk2, H2, T2, U2)
<1>1. /\ U \subseteq T /\ T \subseteq Slot
      /\ Paired(P, nx, pv) /\ Closed(P, nx) /\ Closed(P, pv) /\ Ends(P, nx, H, T)
      /\ OwnEnds(P, nx, tk, U) /\ \A t \in U : Chain(P, nx, pv, tk, H[t], t)
  BY DEF Lists
<1>2. Ends(P, nx, H2, T2)
  BY <1>1 DEF Ends
<1>3. OwnEnds(P, nx, tk2, U2)
  BY <1>1 DEF OwnEnds
<1>4. ASSUME NEW t \in U2
      PROVE  Chain(P, nx, pv, tk2, H2[t], t)
  <2>1. Chain(P, nx, pv, tk, H[t], t) /\ H2[t] = H[t]
    BY <1>1
  <2>2. Chain(P, nx, pv, tk2, H[t], t)
    BY <2>1, ChainStays
  <2> QED
    BY <2>1, <2>2
<1> QED
  BY <1>1, <1>2, <1>3, <1>4 DEF Lists
-----------------------------------------------------------------------------
\* The nodes and the tasks of process 1, the first one.
Home(R) == {r \in R : r.space = 1}
Members(K) == {1} \cup {k.slot : k \in {x \in K : x.space = 1}}

\* Its lists are in order: H are the heads, U the tasks that list just their own nodes.
InOrder(R, H, T, U) ==
  \E P, nx, pv, tk : Shape(Home(R), P, nx, pv, tk) /\ Lists(P, nx, pv, tk, H, T, U)

LEMMA ShapeFields ==
  ASSUME NEW L, NEW P, NEW nx, NEW pv, NEW tk, Shape(L, P, nx, pv, tk)
  PROVE  Fields(P, nx, pv, tk)
  BY DEF Shape, Fields

\* Stores that leave the nodes where they are.
SamePlace(y, r) == y.space = r.space /\ y.page = r.page /\ y.num = r.num

LEMMA NodesRewritten ==
  ASSUME NEW R, NEW P, NEW nx, NEW pv, NEW tk, Shape(Home(R), P, nx, pv, tk),
         NEW g, \A r \in R : SamePlace(g[r], r),
         NEW M, M = {g[r] : r \in R},
         NEW nx2 \in [P -> Int], NEW pv2 \in [P -> Int], NEW tk2 \in [P -> Int],
         \A r \in Home(R) : /\ nx2[r.page] = g[r].next /\ pv2[r.page] = g[r].prev
                            /\ tk2[r.page] = g[r].task
  PROVE  Shape(Home(M), P, nx2, pv2, tk2)
<1>1. /\ P = {r.page : r \in Home(R)} /\ P \subseteq Nat
      /\ \A r \in Home(R) : r.num >= 1
      /\ \A x, y \in Home(R) : x.page = y.page => x = y
  BY DEF Shape
<1>2. \A y \in Home(M) : \E r \in Home(R) : y = g[r] /\ y.page = r.page /\ y.num = r.num
  BY DEF Home, SamePlace
<1>3. \A r \in Home(R) : g[r] \in Home(M) /\ g[r].page = r.page
  BY DEF Home, SamePlace
<1>4. P = {y.page : y \in Home(M)}
  <2> DEFINE Q == {y.page : y \in Home(M)}
  <2>1. \A q \in P : q \in Q
    <3> SUFFICES ASSUME NEW q \in P PROVE q \in Q
      OBVIOUS
    <3>1. PICK r \in Home(R) : q = r.page
      BY <1>1
    <3>2. g[r] \in Home(M) /\ g[r].page = q
      BY <3>1, <1>3
    <3> QED
      BY <3>2
  <2>2. \A q \in Q : q \in P
    <3>1. \A y \in Home(M) : y.page \in P
      BY <1>1, <1>2
    <3> QED
      BY <3>1
  <2> HIDE DEF Q
  <2>3. P = Q
    BY <2>1, <2>2
  <2> QED
    BY <2>3 DEF Q
<1>5. \A y \in Home(M) : nx2[y.page] = y.next /\ pv2[y.page] = y.prev /\ tk2[y.page] = y.task
  BY <1>2
<1>6. \A y \in Home(M) : y.num >= 1
  BY <1>1, <1>2
<1>7. \A x, y \in Home(M) : x.page = y.page => x = y
  BY <1>1, <1>2
<1> QED
  BY <1>1, <1>4, <1>5, <1>6, <1>7 DEF Shape

NextSet(P, nx, q, v) == [x \in P |-> IF x = q THEN v ELSE nx[x]]

LEMMA NextWritten ==
  ASSUME NEW S, NEW R, R \subseteq Node(S),
         NEW P, NEW nx, NEW pv, NEW tk, Shape(Home(R), P, nx, pv, tk),
         NEW q, NEW v \in Int
  PROVE  Shape(Home(store_next(R, 1, q, v)), P, NextSet(P, nx, q, v), pv, tk)
<1> DEFINE g == [r \in R |-> IF r.space = 1 /\ r.page = q THEN [r EXCEPT !.next = v] ELSE r]
           nx2 == NextSet(P, nx, q, v)
<1>1. store_next(R, 1, q, v) = {g[r] : r \in R}
  BY DEF store_next
<1>2. ASSUME NEW r \in R
      PROVE  /\ SamePlace(g[r], r) /\ g[r].prev = r.prev /\ g[r].task = r.task
             /\ r.space = 1 /\ r.page = q => g[r].next = v
             /\ r.page # q => g[r].next = r.next
  <2>1. r \in Node(S)
    OBVIOUS
  <2> QED
    BY <2>1 DEF Node, SamePlace
<1>3. /\ nx \in [P -> Int] /\ pv \in [P -> Int] /\ tk \in [P -> Int]
      /\ \A r \in Home(R) : r \in R /\ r.space = 1 /\ r.page \in P
      /\ \A r \in Home(R) : nx[r.page] = r.next /\ pv[r.page] = r.prev /\ tk[r.page] = r.task
  BY DEF Shape, Home
<1>4. nx2 \in [P -> Int]
  BY <1>3 DEF NextSet
<1>5. \A r \in Home(R) : nx2[r.page] = IF r.page = q THEN v ELSE nx[r.page]
  BY <1>3 DEF NextSet
<1> HIDE DEF g, nx2
<1>6. \A r \in Home(R) : /\ nx2[r.page] = g[r].next /\ pv[r.page] = g[r].prev
                         /\ tk[r.page] = g[r].task
  BY <1>2, <1>3, <1>5
<1>7. PICK M : M = {g[r] : r \in R}
  OBVIOUS
<1>8. Shape(Home(M), P, nx2, pv, tk)
  <2>1. /\ nx \in [P -> Int] /\ pv \in [P -> Int] /\ tk \in [P -> Int]
        /\ \A r \in R : SamePlace(g[r], r)
    BY <1>2, <1>3
  <2> QED
    BY <2>1, <1>4, <1>6, <1>7, NodesRewritten
<1> QED
  BY <1>1, <1>7, <1>8 DEF nx2

LEMMA PrevWritten ==
  ASSUME NEW S, NEW R, R \subseteq Node(S),
         NEW P, NEW nx, NEW pv, NEW tk, Shape(Home(R), P, nx, pv, tk),
         NEW q, NEW v \in Int
  PROVE  Shape(Home(store_prev(R, 1, q, v)), P, nx, NextSet(P, pv, q, v), tk)
<1> DEFINE g == [r \in R |-> IF r.space = 1 /\ r.page = q THEN [r EXCEPT !.prev = v] ELSE r]
           pv2 == NextSet(P, pv, q, v)
<1>1. store_prev(R, 1, q, v) = {g[r] : r \in R}
  BY DEF store_prev
<1>2. ASSUME NEW r \in R
      PROVE  /\ SamePlace(g[r], r) /\ g[r].next = r.next /\ g[r].task = r.task
             /\ r.space = 1 /\ r.page = q => g[r].prev = v
             /\ r.page # q => g[r].prev = r.prev
  <2>1. r \in Node(S)
    OBVIOUS
  <2> QED
    BY <2>1 DEF Node, SamePlace
<1>3. /\ nx \in [P -> Int] /\ pv \in [P -> Int] /\ tk \in [P -> Int]
      /\ \A r \in Home(R) : r \in R /\ r.space = 1 /\ r.page \in P
      /\ \A r \in Home(R) : nx[r.page] = r.next /\ pv[r.page] = r.prev /\ tk[r.page] = r.task
  BY DEF Shape, Home
<1>4. pv2 \in [P -> Int]
  BY <1>3 DEF NextSet
<1>5. \A r \in Home(R) : pv2[r.page] = IF r.page = q THEN v ELSE pv[r.page]
  BY <1>3 DEF NextSet
<1> HIDE DEF g, pv2
<1>6. \A r \in Home(R) : /\ nx[r.page] = g[r].next /\ pv2[r.page] = g[r].prev
                         /\ tk[r.page] = g[r].task
  BY <1>2, <1>3, <1>5
<1>7. PICK M : M = {g[r] : r \in R}
  OBVIOUS
<1>8. Shape(Home(M), P, nx, pv2, tk)
  <2>1. /\ nx \in [P -> Int] /\ pv \in [P -> Int] /\ tk \in [P -> Int]
        /\ \A r \in R : SamePlace(g[r], r)
    BY <1>2, <1>3
  <2> QED
    BY <2>1, <1>4, <1>6, <1>7, NodesRewritten
<1> QED
  BY <1>1, <1>7, <1>8 DEF pv2

OwnerGone(P, tk, t) == [x \in P |-> IF tk[x] = t THEN Gone ELSE tk[x]]

LEMMA OwnerWritten ==
  ASSUME NEW S, NEW R, R \subseteq Node(S),
         NEW P, NEW nx, NEW pv, NEW tk, Shape(Home(R), P, nx, pv, tk), NEW t
  PROVE  Shape(Home(Abandoned(R, t)), P, nx, pv, OwnerGone(P, tk, t))
<1> DEFINE g == [r \in R |-> IF r.task = t THEN [r EXCEPT !.task = Gone] ELSE r]
           tk2 == OwnerGone(P, tk, t)
<1>1. Abandoned(R, t) = {g[r] : r \in R}
  BY DEF Abandoned
<1>2. ASSUME NEW r \in R
      PROVE  /\ SamePlace(g[r], r) /\ g[r].next = r.next /\ g[r].prev = r.prev
             /\ r.task = t => g[r].task = Gone
             /\ r.task # t => g[r].task = r.task
  <2>1. r \in Node(S)
    OBVIOUS
  <2> QED
    BY <2>1 DEF Node, SamePlace
<1>3. /\ nx \in [P -> Int] /\ pv \in [P -> Int] /\ tk \in [P -> Int] /\ Gone \in Int
      /\ \A r \in Home(R) : r \in R /\ r.space = 1 /\ r.page \in P
      /\ \A r \in Home(R) : nx[r.page] = r.next /\ pv[r.page] = r.prev /\ tk[r.page] = r.task
  BY DEF Shape, Home, Gone
<1>4. tk2 \in [P -> Int]
  BY <1>3 DEF OwnerGone
<1>5. \A r \in Home(R) : tk2[r.page] = IF tk[r.page] = t THEN Gone ELSE tk[r.page]
  BY <1>3 DEF OwnerGone
<1> HIDE DEF g, tk2
<1>6. \A r \in Home(R) : /\ nx[r.page] = g[r].next /\ pv[r.page] = g[r].prev
                         /\ tk2[r.page] = g[r].task
  BY <1>2, <1>3, <1>5
<1>7. PICK M : M = {g[r] : r \in R}
  OBVIOUS
<1>8. Shape(Home(M), P, nx, pv, tk2)
  <2>1. /\ nx \in [P -> Int] /\ pv \in [P -> Int] /\ tk \in [P -> Int]
        /\ \A r \in R : SamePlace(g[r], r)
    BY <1>2, <1>3
  <2> QED
    BY <2>1, <1>4, <1>6, <1>7, NodesRewritten, SMTT(30)
<1> QED
  BY <1>1, <1>7, <1>8 DEF tk2

LEMMA NodeAdded ==
  ASSUME NEW S, NEW R, NEW P, NEW nx, NEW pv, NEW tk, Shape(Home(R), P, nx, pv, tk),
         NEW y \in Node(S), y.space = 1, y.num >= 1, y.page \notin P, y.page \in Nat
  PROVE  Shape(Home(R \cup {y}), P \cup {y.page}, field_added(P, nx, y.page, y.next),
               field_added(P, pv, y.page, y.prev), field_added(P, tk, y.page, y.task))
<1> DEFINE L == Home(R)
           p == y.page
           P2 == P \cup {p}
           nx2 == field_added(P, nx, p, y.next)
           pv2 == field_added(P, pv, p, y.prev)
           tk2 == field_added(P, tk, p, y.task)
<1>1. Home(R \cup {y}) = L \cup {y}
  BY DEF Home
<1>2. y.next \in Int /\ y.prev \in Int /\ y.task \in Int
  BY DEF Node
<1>3. /\ P = {r.page : r \in L} /\ P \subseteq Nat
      /\ nx \in [P -> Int] /\ pv \in [P -> Int] /\ tk \in [P -> Int]
      /\ \A r \in L : r.page \in P /\ r.page # p
      /\ \A r \in L : nx[r.page] = r.next /\ pv[r.page] = r.prev /\ tk[r.page] = r.task
      /\ \A r \in L : r.num >= 1
      /\ \A x, z \in L : x.page = z.page => x = z
  BY DEF Shape
<1> HIDE DEF L
<1>4. nx2 \in [P2 -> Int] /\ pv2 \in [P2 -> Int] /\ tk2 \in [P2 -> Int]
  BY <1>2, <1>3 DEF field_added
<1>5. \A r \in L \cup {y} : nx2[r.page] = r.next /\ pv2[r.page] = r.prev /\ tk2[r.page] = r.task
  BY <1>3 DEF field_added
<1> HIDE DEF nx2, pv2, tk2
<1>6. P2 = {r.page : r \in L \cup {y}} /\ P2 \subseteq Nat
  BY <1>3
<1>7. \A x, z \in L \cup {y} : x.page = z.page => x = z
  BY <1>3
<1>8. Shape(L \cup {y}, P2, nx2, pv2, tk2)
  BY <1>3, <1>4, <1>5, <1>6, <1>7 DEF Shape
<1> QED
  BY <1>1, <1>8 DEF nx2, pv2, tk2

LEMMA NodeRemoved ==
  ASSUME NEW R, NEW P, NEW nx, NEW pv, NEW tk, Shape(Home(R), P, nx, pv, tk),
         NEW r \in Home(R), NEW p, p = r.page
  PROVE  Shape(Home(R \ {r}), P \ {p}, field_removed(P, nx, p), field_removed(P, pv, p),
               field_removed(P, tk, p))
<1> DEFINE L == Home(R)
           P2 == P \ {p}
           nx2 == field_removed(P, nx, p)
           pv2 == field_removed(P, pv, p)
           tk2 == field_removed(P, tk, p)
<1>1. Home(R \ {r}) = L \ {r}
  BY DEF Home
<1>2. /\ P = {x.page : x \in L} /\ P \subseteq Nat
      /\ nx \in [P -> Int] /\ pv \in [P -> Int] /\ tk \in [P -> Int]
      /\ \A x \in L : nx[x.page] = x.next /\ pv[x.page] = x.prev /\ tk[x.page] = x.task
      /\ \A x \in L : x.num >= 1
      /\ \A x, z \in L : x.page = z.page => x = z
  BY DEF Shape
<1>3. r \in L
  OBVIOUS
<1> HIDE DEF L
<1>4. \A x \in L \ {r} : x.page \in P2
  BY <1>2, <1>3
<1>5. P2 = {x.page : x \in L \ {r}} /\ P2 \subseteq Nat
  BY <1>2, <1>4
<1>6. nx2 \in [P2 -> Int] /\ pv2 \in [P2 -> Int] /\ tk2 \in [P2 -> Int]
  BY <1>2 DEF field_removed
<1>7. \A x \in L \ {r} : nx2[x.page] = x.next /\ pv2[x.page] = x.prev /\ tk2[x.page] = x.task
  BY <1>2, <1>4 DEF field_removed
<1> HIDE DEF nx2, pv2, tk2
<1>8. Shape(L \ {r}, P2, nx2, pv2, tk2)
  BY <1>2, <1>5, <1>6, <1>7 DEF Shape
<1> QED
  BY <1>1, <1>8 DEF nx2, pv2, tk2

\* What is stored in the pages of another process.
LEMMA NextElsewhere ==
  ASSUME NEW S, NEW R, R \subseteq Node(S), NEW s, s # 1, NEW q, NEW v
  PROVE  Home(store_next(R, s, q, v)) = Home(R)
<1> DEFINE g == [r \in R |-> IF r.space = s /\ r.page = q THEN [r EXCEPT !.next = v] ELSE r]
<1>1. store_next(R, s, q, v) = {g[r] : r \in R}
  BY DEF store_next
<1>2. ASSUME NEW r \in R
      PROVE  g[r].space = r.space /\ (r.space = 1 => g[r] = r)
  <2>1. r \in Node(S)
    OBVIOUS
  <2> QED
    BY <2>1 DEF Node
<1> HIDE DEF g
<1>3. Home({g[r] : r \in R}) = Home(R)
  BY <1>2 DEF Home
<1> QED
  BY <1>1, <1>3

LEMMA PrevElsewhere ==
  ASSUME NEW S, NEW R, R \subseteq Node(S), NEW s, s # 1, NEW q, NEW v
  PROVE  Home(store_prev(R, s, q, v)) = Home(R)
<1> DEFINE g == [r \in R |-> IF r.space = s /\ r.page = q THEN [r EXCEPT !.prev = v] ELSE r]
<1>1. store_prev(R, s, q, v) = {g[r] : r \in R}
  BY DEF store_prev
<1>2. ASSUME NEW r \in R
      PROVE  g[r].space = r.space /\ (r.space = 1 => g[r] = r)
  <2>1. r \in Node(S)
    OBVIOUS
  <2> QED
    BY <2>1 DEF Node
<1> HIDE DEF g
<1>3. Home({g[r] : r \in R}) = Home(R)
  BY <1>2 DEF Home
<1> QED
  BY <1>1, <1>3

\* list_add_tail and list_del in the first process.
LEMMA LinkedInOrder ==
  ASSUME NEW S, NEW R, R \subseteq Node(S), NEW H, NEW T, NEW U, InOrder(R, H, T, U),
         NEW c \in T, NEW y \in Node(S), y.space = 1, y.num >= 1, y.task = c,
         y.page \in Nat, \A r \in Home(R) : r.page # y.page,
         y.next = HeadOf(c), y.prev = H[c],
         NEW p, p = y.page, NEW M, M = store_next(R \cup {y}, 1, H[c], p)
  PROVE  InOrder(M, [H EXCEPT ![c] = p], T, U)
<1>1. PICK P, nx, pv, tk : Shape(Home(R), P, nx, pv, tk) /\ Lists(P, nx, pv, tk, H, T, U)
  BY DEF InOrder
<1>2. y.page \notin P
  BY <1>1 DEF Shape
<1> DEFINE P2 == P \cup {p}
           nx1 == field_added(P, nx, p, HeadOf(c))
           pv2 == field_added(P, pv, p, H[c])
           tk2 == field_added(P, tk, p, c)
           nx2 == NextSet(P2, nx1, H[c], p)
<1>3. Shape(Home(R \cup {y}), P2, nx1, pv2, tk2)
  BY <1>1, <1>2, NodeAdded
<1>4. R \cup {y} \subseteq Node(S) /\ p \in Int
  OBVIOUS
<1>5. Shape(Home(M), P2, nx2, pv2, tk2)
  <2> HIDE DEF P2, nx1, pv2, tk2
  <2> QED
    BY <1>3, <1>4, NextWritten
<1>6. Fields(P, nx, pv, tk)
  BY <1>1, ShapeFields
<1>7. nx2 = next_added(P, nx, H, c, p)
  <2>1. H[c] # p
    <3>1. H[c] < 0 \/ H[c] \in P
      BY <1>1 DEF Lists, Ends
    <3> QED
      BY <3>1, <1>2
  <2> QED
    BY <2>1 DEF NextSet, field_added, next_added
<1>8. Lists(P2, nx2, pv2, tk2, [H EXCEPT ![c] = p], T, U)
  BY <1>1, <1>2, <1>6, <1>7, ListsGrow DEF P2, pv2, tk2
<1> QED
  BY <1>5, <1>8 DEF InOrder

\* M is R after list_del of its node r of process 1, and H2 the heads T, H before.
NodeUnlinked(M, R, r) ==
  M = store_next(store_prev(R \ {r}, 1, r.next, r.prev), 1, r.prev, r.next)

HeadsUnlinked(H2, H, r, T) ==
  \A t \in T : H2[t] = IF r.next = HeadOf(t) THEN r.prev ELSE H[t]

LEMMA UnlinkedInOrder ==
  ASSUME NEW S, NEW R, R \subseteq Node(S), NEW H, NEW T, NEW U, InOrder(R, H, T, U),
         NEW r \in R, r.space = 1,
         NEW M, NodeUnlinked(M, R, r),
         NEW H2 \in [Slot -> Int], HeadsUnlinked(H2, H, r, T)
  PROVE  InOrder(M, H2, T, U)
<1>1. PICK P, nx, pv, tk : Shape(Home(R), P, nx, pv, tk) /\ Lists(P, nx, pv, tk, H, T, U)
  BY DEF InOrder
<1>2. PICK p : p = r.page
  OBVIOUS
<1>3. /\ r \in Home(R) /\ p \in P /\ nx[p] = r.next /\ pv[p] = r.prev
      /\ r.next \in Int /\ r.prev \in Int
  <2>1. r \in Home(R) /\ r \in Node(S)
    BY DEF Home
  <2> QED
    BY <2>1, <1>1, <1>2 DEF Shape, Node
<1> DEFINE P2 == P \ {p}
           nx1 == field_removed(P, nx, p)
           pv1 == field_removed(P, pv, p)
           tk2 == field_removed(P, tk, p)
           pv2 == NextSet(P2, pv1, r.next, r.prev)
           nx2 == NextSet(P2, nx1, r.prev, r.next)
           M1 == store_prev(R \ {r}, 1, r.next, r.prev)
<1>4. Shape(Home(R \ {r}), P2, nx1, pv1, tk2)
  BY <1>1, <1>2, <1>3, NodeRemoved
<1>5. R \ {r} \subseteq Node(S)
  OBVIOUS
<1>6. Shape(Home(M1), P2, nx1, pv2, tk2)
  <2> HIDE DEF P2, nx1, pv1, tk2
  <2> QED
    BY <1>3, <1>4, <1>5, PrevWritten
<1>7. M1 \subseteq Node(S)
  <2> DEFINE g == [x \in R \ {r} |-> IF x.space = 1 /\ x.page = r.next
                                       THEN [x EXCEPT !.prev = r.prev] ELSE x]
  <2>1. M1 = {g[x] : x \in R \ {r}}
    BY DEF store_prev
  <2>2. ASSUME NEW x \in R \ {r} PROVE g[x] \in Node(S)
    <3>1. x \in Node(S)
      OBVIOUS
    <3> QED
      BY <3>1, <1>3 DEF Node
  <2> HIDE DEF g, M1
  <2> QED
    BY <2>1, <2>2
<1>8. Shape(Home(M), P2, nx2, pv2, tk2)
  <2>1. M = store_next(M1, 1, r.prev, r.next)
    BY DEF NodeUnlinked
  <2> HIDE DEF P2, nx1, pv2, tk2, M1
  <2> QED
    BY <2>1, <1>3, <1>6, <1>7, NextWritten
<1>9. nx2 = next_removed(P, nx, pv, p) /\ pv2 = prev_removed(P, nx, pv, p)
  BY <1>3 DEF NextSet, field_removed, next_removed, prev_removed
<1>10. Fields(P, nx, pv, tk)
  BY <1>1, ShapeFields
<1>11. \A t \in T : H2[t] = head_removed(H, nx, pv, p, t)
  BY <1>3 DEF head_removed, HeadsUnlinked
<1>12. Lists(P2, nx2, pv2, tk2, H2, T, U)
  BY <1>1, <1>3, <1>9, <1>10, <1>11, ListsShrink DEF P2, tk2
<1> QED
  BY <1>8, <1>12 DEF InOrder
-----------------------------------------------------------------------------
\* A slot has one task, and a node that of a task of the process it is in.
SlotsApart(K, S) ==
  /\ \A k \in K : k.slot \notin S
  /\ \A k, l \in K : k.slot = l.slot => k = l

OwnerIn(r, K, S) ==
  \/ r.task = Gone
  \/ (r.task \in S /\ r.space = r.task)
  \/ \E k \in K : r.task = k.slot /\ r.space = k.space

Owned(R, K, S) == \A r \in R : OwnerIn(r, K, S)

\* No node of another process leads to the head of one of the tasks T.
NobodyElse(R, T) == \A r \in R : r.space # 1 => \A c \in T : r.next # HeadOf(c)

FirstOK(R, H, K, S, U) ==
  /\ 1 \in S /\ 1 \in U
  /\ NobodyElse(R, Members(K))
  /\ InOrder(R, H, Members(K), U)

\* No fork has taken pages from the first process while one of its tasks is trusted.
Unharmed == trusted # {} => 1 \notin clobbered

(* As long as a list of the first process is trusted, all its lists are in
   order; those of other processes need not be. *)
ListsOK ==
  /\ SlotsApart(stacks, spaces)
  /\ Owned(memoria, stacks, spaces)
  /\ trusted # {} => FirstOK(memoria, head, stacks, spaces, trusted)
  /\ Unharmed

ListsInv == Running => ListsOK

LEMMA OwnerSpace ==
  ASSUME NEW t \in Tasks
  PROVE  \/ t \in spaces /\ space_of(t) = t
         \/ \E k \in stacks : t \notin spaces /\ k.slot = t /\ k.space = space_of(t)
<1>1. CASE t \in spaces
  BY <1>1 DEF space_of
<1>2. CASE t \notin spaces
  <2> DEFINE k == CHOOSE k \in stacks : k.slot = t
  <2>1. k \in stacks /\ k.slot = t
    BY <1>2 DEF Tasks
  <2>2. space_of(t) = k.space
    BY <1>2 DEF space_of
  <2> HIDE DEF k
  <2> QED
    BY <2>1, <2>2, <1>2
<1> QED
  BY <1>1, <1>2

\* The tasks of the first process.
LEMMA MemberSpace ==
  ASSUME SlotsApart(stacks, spaces), 1 \in spaces
  PROVE  /\ Members(stacks) \subseteq Tasks
         /\ \A t \in Tasks : space_of(t) = 1 <=> t \in Members(stacks)
         /\ \A t \in Members(stacks) : t \in spaces => t = 1
<1>1. Members(stacks) \subseteq Tasks
  BY DEF Members, Tasks
<1>2. \A t \in Members(stacks) : t \in spaces => t = 1
  BY DEF Members, SlotsApart
<1>3. ASSUME NEW t \in Tasks
      PROVE  space_of(t) = 1 <=> t \in Members(stacks)
  <2>1. CASE t \in spaces /\ space_of(t) = t
    BY <2>1, <1>2 DEF Members
  <2>2. ASSUME NEW k \in stacks, t \notin spaces, k.slot = t, k.space = space_of(t)
        PROVE  space_of(t) = 1 <=> t \in Members(stacks)
    <3>1. \A l \in stacks : l.slot = t => l = k
      BY <2>2 DEF SlotsApart
    <3>2. t # 1
      BY <2>2
    <3>3. t \in Members(stacks) <=> k.space = 1
      BY <2>2, <3>1, <3>2 DEF Members
    <3> QED
      BY <2>2, <3>3
  <2> QED
    BY <2>1, <2>2, OwnerSpace
<1> QED
  BY <1>1, <1>2, <1>3

\* What stores to nodes do not change.
NextTraced(M, R, s, v) ==
  \A y \in M : \E r \in R :
    /\ y.task = r.task /\ y.space = r.space
    /\ y.next = r.next \/ (y.next = v /\ y.space = s)

PrevTraced(M, R) ==
  \A y \in M : \E r \in R : y.task = r.task /\ y.space = r.space /\ y.next = r.next

LEMMA NextKeeps ==
  ASSUME NEW S, NEW R, R \subseteq Node(S), NEW s, NEW q, NEW v \in Int
  PROVE  /\ store_next(R, s, q, v) \subseteq Node(S)
         /\ NextTraced(store_next(R, s, q, v), R, s, v)
<1> DEFINE M == store_next(R, s, q, v)
           g == [r \in R |-> IF r.space = s /\ r.page = q THEN [r EXCEPT !.next = v] ELSE r]
<1>1. M = {g[r] : r \in R}
  BY DEF store_next
<1>2. ASSUME NEW r \in R
      PROVE  /\ g[r] \in Node(S) /\ g[r].task = r.task /\ g[r].space = r.space
             /\ g[r].next = r.next \/ (g[r].next = v /\ g[r].space = s)
  <2>1. r \in Node(S)
    OBVIOUS
  <2> QED
    BY <2>1 DEF Node
<1> HIDE DEF g, M
<1>3. M \subseteq Node(S) /\ NextTraced(M, R, s, v)
  BY <1>1, <1>2 DEF NextTraced
<1> QED
  BY <1>3 DEF M

LEMMA PrevKeeps ==
  ASSUME NEW S, NEW R, R \subseteq Node(S), NEW s, NEW q, NEW v \in Int
  PROVE  /\ store_prev(R, s, q, v) \subseteq Node(S)
         /\ PrevTraced(store_prev(R, s, q, v), R)
<1> DEFINE M == store_prev(R, s, q, v)
           g == [r \in R |-> IF r.space = s /\ r.page = q THEN [r EXCEPT !.prev = v] ELSE r]
<1>1. M = {g[r] : r \in R}
  BY DEF store_prev
<1>2. ASSUME NEW r \in R
      PROVE  /\ g[r] \in Node(S) /\ g[r].task = r.task /\ g[r].space = r.space
             /\ g[r].next = r.next
  <2>1. r \in Node(S)
    OBVIOUS
  <2> QED
    BY <2>1 DEF Node
<1> HIDE DEF g, M
<1>3. M \subseteq Node(S) /\ PrevTraced(M, R)
  BY <1>1, <1>2 DEF PrevTraced
<1> QED
  BY <1>3 DEF M

LEMMA OwnerGoneKeeps ==
  ASSUME NEW S, NEW R, R \subseteq Node(S), NEW t, NEW M, M = Abandoned(R, t)
  PROVE  \A y \in M : \E r \in R :
           /\ y.space = r.space /\ y.next = r.next
           /\ y.task = IF r.task = t THEN Gone ELSE r.task
<1> DEFINE g == [r \in R |-> IF r.task = t THEN [r EXCEPT !.task = Gone] ELSE r]
<1>1. M = {g[r] : r \in R}
  BY DEF Abandoned
<1>2. ASSUME NEW r \in R
      PROVE  /\ g[r].space = r.space /\ g[r].next = r.next
             /\ g[r].task = IF r.task = t THEN Gone ELSE r.task
  <2>1. r \in Node(S)
    OBVIOUS
  <2> QED
    BY <2>1 DEF Node
<1> HIDE DEF g
<1> QED
  BY <1>1, <1>2

\* What happens elsewhere leaves the lists in order.
LEMMA OrderKept ==
  ASSUME NEW R, NEW H, NEW T, NEW U, InOrder(R, H, T, U),
         NEW R2, Home(R2) = Home(R),
         NEW T2, T2 \subseteq T, NEW U2, U2 \subseteq U, U2 \subseteq T2,
         NEW H2 \in [Slot -> Int], \A t \in T2 : H2[t] = H[t]
  PROVE  InOrder(R2, H2, T2, U2)
<1>1. PICK P, nx, pv, tk : Shape(Home(R), P, nx, pv, tk) /\ Lists(P, nx, pv, tk, H, T, U)
  BY DEF InOrder
<1>2. Lists(P, nx, pv, tk, H2, T2, U2)
  BY <1>1, ListsLeft
<1> QED
  BY <1>1, <1>2 DEF InOrder

\* M is R, without the nodes X, after y has been linked behind q in process s.
NodeLinked(M, R, X, y, s, q, p) == M = store_next((R \ X) \cup {y}, s, q, p)

\* A region of another process is linked.
LEMMA LinkedElsewhere ==
  ASSUME NEW S, NEW R, R \subseteq Node(S), NEW H \in [Slot -> Int], NEW T, NEW U,
         T \subseteq Slot, U \subseteq T, InOrder(R, H, T, U), NobodyElse(R, T),
         NEW s, s # 1, NEW X, \A x \in X : x.space = s,
         NEW t \in Slot, t \notin T,
         NEW y \in Node(S), y.space = s, y.next = HeadOf(t),
         NEW q, NEW p \in Nat, NEW M, NodeLinked(M, R, X, y, s, q, p),
         NEW H2 \in [Slot -> Int], \A c \in T : H2[c] = H[c]
  PROVE  InOrder(M, H2, T, U) /\ NobodyElse(M, T)
<1>1. PICK R1 : R1 = (R \ X) \cup {y}
  OBVIOUS
<1>2. R1 \subseteq Node(S) /\ Home(R1) = Home(R)
  BY <1>1 DEF Home
<1>3. M = store_next(R1, s, q, p)
  BY <1>1 DEF NodeLinked
<1>4. Home(M) = Home(R)
  BY <1>2, <1>3, NextElsewhere
<1>5. InOrder(M, H2, T, U)
  BY <1>4, OrderKept
<1>6. NobodyElse(M, T)
  <2> SUFFICES ASSUME NEW z \in M, z.space # 1, NEW c \in T
               PROVE  z.next # HeadOf(c)
    BY DEF NobodyElse
  <2>1. c \in Slot /\ c # t /\ HeadOf(c) < 0 /\ HeadOf(c) # HeadOf(t)
    BY HeadsDiffer
  <2>2. p \in Int /\ p # HeadOf(c)
    BY <2>1
  <2>3. \A x \in R1 : x.space # 1 => x.next # HeadOf(c)
    BY <2>1, <1>1 DEF NobodyElse
  <2>4. NextTraced(M, R1, s, p)
    BY <2>2, <1>2, <1>3, NextKeeps
  <2> QED
    BY <2>2, <2>3, <2>4 DEF NextTraced
<1> QED
  BY <1>5, <1>6

\* A node that is linked belongs to its task.
LEMMA LinkedOwned ==
  ASSUME NEW S0, NEW R, R \subseteq Node(S0), NEW K, NEW S, Owned(R, K, S), NEW X,
         NEW y \in Node(S0), OwnerIn(y, K, S),
         NEW s, NEW q, NEW p \in Int, NEW M, NodeLinked(M, R, X, y, s, q, p)
  PROVE  Owned(M, K, S)
<1>1. PICK R1 : R1 = (R \ X) \cup {y}
  OBVIOUS
<1>2. R1 \subseteq Node(S0) /\ \A x \in R1 : OwnerIn(x, K, S)
  BY <1>1 DEF Owned
<1>3. NextTraced(M, R1, s, p)
  <2>1. M = store_next(R1, s, q, p)
    BY <1>1 DEF NodeLinked
  <2> QED
    BY <2>1, <1>2, NextKeeps
<1>4. ASSUME NEW z \in M
      PROVE  OwnerIn(z, K, S)
  <2>1. PICK x \in R1 : z.task = x.task /\ z.space = x.space
    BY <1>3 DEF NextTraced
  <2>2. OwnerIn(x, K, S)
    BY <1>2
  <2> QED
    BY <2>1, <2>2 DEF OwnerIn
<1> QED
  BY <1>4 DEF Owned

LEMMA OwnNode ==
  ASSUME NEW t \in Tasks, NEW r, r.task = t, r.space = space_of(t)
  PROVE  OwnerIn(r, stacks, spaces)
  BY OwnerSpace DEF OwnerIn

LEMMA Fitting ==
  ASSUME MemOK
  PROVE  /\ memoria \subseteq Node(spaces) /\ head \in [Slot -> Int]
         /\ spaces \subseteq Slot \ {0}
         /\ \A k \in stacks : k.slot \in Slot /\ k.space \in has_threads /\ k.space \in spaces
<1>1. /\ RegionsFit(memoria, spaces) /\ StacksFit(stacks, spaces, has_threads)
      /\ head \in [Slot -> Int] /\ spaces \subseteq Slot \ {0}
  BY DEF MemOK, Tables, Typed
<1>2. ASSUME NEW k \in stacks
      PROVE  k.slot \in Slot /\ k.space \in has_threads /\ k.space \in spaces
  <2>1. /\ k \in [slot : Slot, space : has_threads, page : UserPage, num : Int]
        /\ has_threads \subseteq spaces
    BY <1>1 DEF StacksFit
  <2> QED
    BY <2>1
<1> QED
  BY <1>1, <1>2 DEF RegionsFit, Node

LEMMA MembersAreSlots ==
  ASSUME MemOK
  PROVE  Members(stacks) \subseteq Slot
<1>1. 1 \in Slot
  BY MemoryAssumption DEF Slot
<1> QED
  BY <1>1, Fitting DEF Members

LEMMA TrustedMembers ==
  ASSUME NEW R, NEW H, NEW T, NEW U, InOrder(R, H, T, U)
  PROVE  U \subseteq T
  BY DEF InOrder, Lists
-----------------------------------------------------------------------------
\* A page of a stack or region of the first process holds no node of another region.
LEMMA NodeApart ==
  ASSUME MemOK, ListsOK, trusted # {}, NEW x \in memoria, x.space = 1,
         NEW y, y \in stacks \/ (y \in memoria /\ x # y), y.space = 1
  PROVE  ~ (y.page <= x.page /\ x.page < y.page + y.num)
<1>1. /\ 1 \notin clobbered /\ InOrder(memoria, head, Members(stacks), trusted)
      /\ Apart(stacks, memoria, clobbered) /\ ApartInside(memoria, clobbered)
      /\ memoria \subseteq Node(spaces)
  BY Fitting DEF ListsOK, Unharmed, FirstOK, MemOK, Areas
<1>2. x.num >= 1
  BY <1>1 DEF InOrder, Shape, Home
<1>3. x \in Node(spaces) /\ x.page \in UserPage /\ x.num \in Nat /\ x.page \in Int
  BY <1>1, Pages DEF Node
<1>4. Holds(x, 1, x.page)
  BY <1>2, <1>3 DEF Holds
<1>5. 1 \in Slot \ clobbered
  BY <1>1, MemoryAssumption DEF Slot
<1>6. y.page <= x.page /\ x.page < y.page + y.num => Holds(y, 1, x.page)
  BY DEF Holds
<1> QED
  BY <1>1, <1>3, <1>4, <1>5, <1>6 DEF Apart, ApartInside

\* Without nodes of other processes the lists are the same.
LEMMA NodesGone ==
  ASSUME NEW R, NEW H \in [Slot -> Int], NEW K, NEW S, NEW U, FirstOK(R, H, K, S, U),
         NEW R2, R2 \subseteq R, Home(R2) = Home(R)
  PROVE  FirstOK(R2, H, K, S, U)
<1>1. /\ 1 \in S /\ 1 \in U /\ NobodyElse(R, Members(K)) /\ InOrder(R, H, Members(K), U)
  BY DEF FirstOK
<1>2. InOrder(R2, H, Members(K), U)
  BY <1>1 DEF InOrder
<1>3. NobodyElse(R2, Members(K))
  BY <1>1 DEF NobodyElse
<1> QED
  BY <1>1, <1>2, <1>3 DEF FirstOK

(* One lemma per call: the lists of the first process stay in order. *)

\* sys_memRegGet.
LEMMA GetLists ==
  ASSUME MemOK, Running, ListsOK, NEW t \in Tasks, NEW num_pages \in RegionSizes,
         memRegGet(t, num_pages), Running'
  PROVE  ListsOK'
<1>1. /\ memoria \subseteq Node(spaces) /\ head \in [Slot -> Int]
      /\ spaces \subseteq Slot \ {0} /\ Members(stacks) \subseteq Slot
      /\ SlotsApart(stacks, spaces) /\ Owned(memoria, stacks, spaces)
      /\ Areas(pagusr_table, stacks, memoria, clobbered)
  BY Fitting, MembersAreSlots DEF ListsOK, MemOK
<1>2. t \in Slot /\ space_of(t) \in spaces
  BY TaskSpace DEF MemOK, Tables, Typed
<1>3. num_pages \in Nat
  BY MemoryAssumption
<1>4. PICK n \in Nat, s \in spaces : n = num_pages + 1 /\ n >= 1 /\ s = space_of(t)
  BY <1>2, <1>3
<1>5. PICK p \in Gaps(s, n) :
        /\ link(memoria, t, [space |-> s, page |-> p, num |-> n, task |-> t,
                             tam |-> n, next |-> 0, prev |-> 0])
        /\ UNCHANGED <<spaces, stacks, has_threads, cr3, trusted>>
  BY <1>4, Zenon DEF memRegGet, Running
<1>12. clobbered' = clobbered
  BY DEF memRegGet, harm
<1>6. p \in UserPage /\ p + n < TOTAL_PAGES /\ Absent(pagusr_table, s, p, n) /\ s \in Slot
  BY <1>1, GapFacts
<1>7. p \in Nat /\ p \in Int /\ head[t] \in Int /\ HeadOf(t) \in Int
  BY <1>1, <1>2, <1>6, Pages, Sizes, HeadsDiffer DEF UserPage
<1> DEFINE r == [space |-> s, page |-> p, num |-> n, task |-> t,
                 tam |-> n, next |-> 0, prev |-> 0]
           y == [r EXCEPT !.next = HeadOf(t), !.prev = head[t]]
<1>8. /\ y \in Node(spaces) /\ y.space = s /\ y.page = p /\ y.num = n /\ y.task = t
      /\ y.next = HeadOf(t) /\ y.prev = head[t]
  <2>1. r \in Node(spaces)
    BY <1>2, <1>6 DEF Node, Slot
  <2>2. y \in Node(spaces)
    <3> HIDE DEF r
    <3> QED
      BY <2>1, <1>7 DEF Node
  <2> QED
    BY <2>2
<1>9. memoria' = store_next(memoria \cup {y}, s, head[t], p) /\ head' = [head EXCEPT ![t] = p]
  BY <1>5 DEF link
<1> HIDE DEF r, y
<1>10. Owned(memoria', stacks, spaces)
  <2>1. OwnerIn(y, stacks, spaces)
    BY <1>4, <1>8, OwnNode
  <2>2. NodeLinked(memoria', memoria, {}, y, s, head[t], p)
    BY <1>9 DEF NodeLinked
  <2> QED
    BY <2>1, <2>2, <1>1, <1>7, <1>8, LinkedOwned
<1>11. ASSUME trusted # {}
       PROVE  FirstOK(memoria', head', stacks, spaces, trusted)
  <2>1. /\ 1 \in spaces /\ 1 \in trusted /\ NobodyElse(memoria, Members(stacks))
        /\ InOrder(memoria, head, Members(stacks), trusted)
    BY <1>11 DEF ListsOK, FirstOK
  <2>2. s = 1 <=> t \in Members(stacks)
    BY <2>1, <1>1, <1>4, MemberSpace
  <2>3. CASE s = 1
    <3>1. \A x \in Home(memoria) : x.page # p
      <4>1. \A x \in Home(memoria) : x.num >= 1 /\ x \in memoria /\ x.space = 1
        BY <2>1 DEF InOrder, Shape, Home
      <4>2. In(1, p, 1, p, n)
        BY <1>4, <1>7 DEF In
      <4>3. \A x \in memoria : ~ Holds(x, 1, p)
        <5>1. 1 \in Slot \ clobbered
          BY <2>3, <1>6, <1>11 DEF ListsOK, Unharmed
        <5> QED
          BY <4>2, <5>1, <2>3, <1>1, <1>6, GapIsNobodys
      <4>4. ASSUME NEW x \in Home(memoria), x.page = p
            PROVE  Holds(x, 1, p)
        <5>1. x \in Node(spaces) /\ x.num >= 1 /\ x.space = 1
          BY <4>1, <1>1
        <5> QED
          BY <5>1, <4>4, <1>7 DEF Holds, Node
      <4> QED
        BY <4>1, <4>3, <4>4
    <3>2. InOrder(memoria', head', Members(stacks), trusted)
      <4>1. t \in Members(stacks) /\ y.space = 1 /\ y.num >= 1 /\ y.page \in Nat
        BY <2>2, <2>3, <1>4, <1>7, <1>8
      <4>2. memoria' = store_next(memoria \cup {y}, 1, head[t], p)
        BY <2>3, <1>9
      <4>3. \A x \in Home(memoria) : x.page # y.page
        BY <3>1, <1>8
      <4>4. PICK M, H : M = memoria' /\ H = head'
        OBVIOUS
      <4>5. M = store_next(memoria \cup {y}, 1, head[t], p) /\ H = [head EXCEPT ![t] = p]
        BY <4>2, <4>4, <1>9
      <4>6. InOrder(M, H, Members(stacks), trusted)
        BY <4>1, <4>3, <4>5, <2>1, <1>1, <1>8, LinkedInOrder
      <4> QED
        BY <4>4, <4>6
    <3>3. NobodyElse(memoria', Members(stacks))
      <4>1. \A x \in memoria \cup {y} : x.space # 1 =>
              \A c \in Members(stacks) : x.next # HeadOf(c)
        BY <2>1, <2>3, <1>8 DEF NobodyElse
      <4>2. memoria \cup {y} \subseteq Node(spaces)
        BY <1>1, <1>8
      <4>3. NextTraced(memoria', memoria \cup {y}, s, p)
        BY <4>2, <1>7, <1>9, NextKeeps
      <4> QED
        BY <4>1, <4>3, <2>3 DEF NobodyElse, NextTraced
    <3> QED
      BY <2>1, <3>2, <3>3 DEF FirstOK
  <2>4. CASE s # 1
    <3>1. PICK M, H, X : M = memoria' /\ H = head' /\ X = {}
      OBVIOUS
    <3>2. NodeLinked(M, memoria, X, y, s, head[t], p) /\ \A x \in X : x.space = s
      BY <3>1, <1>9 DEF NodeLinked
    <3>3. H \in [Slot -> Int] /\ \A c \in Members(stacks) : H[c] = head[c]
      BY <2>2, <2>4, <3>1, <1>1, <1>7, <1>9
    <3>4. t \notin Members(stacks) /\ trusted \subseteq Members(stacks)
      BY <2>1, <2>2, <2>4, TrustedMembers
    <3>5. InOrder(M, H, Members(stacks), trusted) /\ NobodyElse(M, Members(stacks))
      <4>1. y \in Node(spaces) /\ y.space = s /\ y.next = HeadOf(t)
        BY <1>8
      <4>2. InOrder(memoria, head, Members(stacks), trusted) /\ NobodyElse(memoria, Members(stacks))
        BY <2>1
      <4>3. /\ memoria \subseteq Node(spaces) /\ head \in [Slot -> Int]
            /\ Members(stacks) \subseteq Slot /\ t \in Slot /\ p \in Nat
        BY <1>1, <1>2, <1>7
      <4> QED
        BY <4>1, <4>2, <4>3, <3>2, <3>3, <3>4, <2>4, LinkedElsewhere, SMTT(30)
    <3> QED
      BY <3>1, <3>5, <2>1 DEF FirstOK
  <2> QED
    BY <2>3, <2>4
<1> QED
  BY <1>1, <1>5, <1>10, <1>11, <1>12 DEF ListsOK, Unharmed

\* sys_memRegGet(INT_MAX): nobody trusts the lists of its process from then on.
LEMMA WrappedLists ==
  ASSUME MemOK, Running, ListsOK, NEW t \in Tasks, memRegGet_wrapped(t), Running'
  PROVE  ListsOK'
<1>1. /\ memoria \subseteq Node(spaces) /\ head \in [Slot -> Int]
      /\ spaces \subseteq Slot \ {0} /\ Members(stacks) \subseteq Slot
      /\ SlotsApart(stacks, spaces) /\ Owned(memoria, stacks, spaces)
  BY Fitting, MembersAreSlots DEF ListsOK
<1>2. t \in Slot /\ space_of(t) \in spaces
  BY TaskSpace DEF MemOK, Tables, Typed
<1>3. PICK s \in spaces : s = space_of(t)
  BY <1>2
<1> DEFINE here == {x \in memoria : x.space = s /\ x.page = FirstPage}
           size == IF here = {} THEN 0 ELSE (CHOOSE x \in here : TRUE).num
           r == [space |-> s, page |-> FirstPage, task |-> t, num |-> size,
                 tam |-> -INT_MAX - 1, next |-> 0, prev |-> 0]
           y == [r EXCEPT !.next = HeadOf(t), !.prev = head[t]]
<1>4. /\ link(memoria \ here, t, r)
      /\ trusted' = {u \in trusted : space_of(u) # s}
      /\ UNCHANGED <<free, pagusr_table, spaces, stacks, has_threads, mmu, clobbered>>
  BY <1>3, Zenon DEF memRegGet_wrapped, Running, harm
<1>5. memoria' = store_next((memoria \ here) \cup {y}, s, head[t], FirstPage)
      /\ head' = [head EXCEPT ![t] = FirstPage]
  BY <1>4 DEF link
<1>6. size \in Nat
  <2>1. CASE here = {}
    BY <2>1
  <2>2. CASE here # {}
    <3>1. PICK x \in here : size = x.num
      BY <2>2
    <3>2. x \in Node(spaces)
      BY <1>1
    <3> QED
      BY <3>1, <3>2 DEF Node
  <2> QED
    BY <2>1, <2>2
<1>7. /\ FirstPage \in UserPage /\ FirstPage \in Nat /\ FirstPage \in Int
      /\ head[t] \in Int /\ HeadOf(t) \in Int /\ t \in Int /\ -INT_MAX - 1 \in Int
  BY <1>1, <1>2, Sizes, HeadsDiffer, MemoryAssumption DEF UserPage
<1> HIDE DEF size
<1>8. y \in Node(spaces) /\ y.space = s /\ y.task = t /\ y.next = HeadOf(t)
  BY <1>6, <1>7 DEF Node
<1>9. \A x \in here : x.space = s
  OBVIOUS
<1> HIDE DEF r, y, here
<1>10. Owned(memoria', stacks, spaces)
  <2>1. OwnerIn(y, stacks, spaces)
    BY <1>3, <1>8, OwnNode
  <2>2. NodeLinked(memoria', memoria, here, y, s, head[t], FirstPage)
    BY <1>5 DEF NodeLinked
  <2> QED
    BY <2>1, <2>2, <1>1, <1>7, <1>8, LinkedOwned
<1>11. ASSUME trusted' # {}
       PROVE  FirstOK(memoria', head', stacks, spaces, trusted')
  <2>1. /\ 1 \in spaces /\ 1 \in trusted /\ NobodyElse(memoria, Members(stacks))
        /\ InOrder(memoria, head, Members(stacks), trusted)
    BY <1>4, <1>11 DEF ListsOK, FirstOK
  <2>2. trusted \subseteq Members(stacks)
    BY <2>1, TrustedMembers
  <2>3. \A u \in trusted : space_of(u) = 1
    BY <2>1, <2>2, <1>1, MemberSpace
  <2>4. s # 1 /\ trusted' = trusted
    BY <2>3, <1>4, <1>11
  <2>5. t \notin Members(stacks)
    BY <2>1, <2>4, <1>1, <1>3, MemberSpace
  <2>6. PICK M, H : M = memoria' /\ H = head'
    OBVIOUS
  <2>7. /\ NodeLinked(M, memoria, here, y, s, head[t], FirstPage)
        /\ H \in [Slot -> Int] /\ \A c \in Members(stacks) : H[c] = head[c]
    BY <2>5, <2>6, <1>1, <1>5, <1>7 DEF NodeLinked
  <2>8. InOrder(M, H, Members(stacks), trusted) /\ NobodyElse(M, Members(stacks))
    <3>1. s # 1 /\ y \in Node(spaces) /\ y.space = s /\ y.next = HeadOf(t)
      BY <2>4, <1>8
    <3> QED
      BY <3>1, <2>1, <2>2, <2>5, <2>7, <1>1, <1>2, <1>7, <1>9, LinkedElsewhere, SMTT(30)
  <2> QED
    BY <2>1, <2>4, <2>6, <2>8 DEF FirstOK
<1> QED
  BY <1>1, <1>4, <1>10, <1>11 DEF ListsOK, Unharmed

\* sys_memRegDel.
LEMMA DelLists ==
  ASSUME MemOK, Running, ListsOK, NEW r \in memoria, memRegDel(r), Running'
  PROVE  ListsOK'
<1>1. /\ memoria \subseteq Node(spaces) /\ head \in [Slot -> Int]
      /\ spaces \subseteq Slot \ {0} /\ Members(stacks) \subseteq Slot
      /\ SlotsApart(stacks, spaces) /\ Owned(memoria, stacks, spaces)
  BY Fitting, MembersAreSlots DEF ListsOK
<1>2. r.next \in Int /\ r.prev \in Int
  <2>1. r \in Node(spaces)
    BY <1>1
  <2> QED
    BY <2>1 DEF Node
<1>3. /\ unlink(r, nodes_in(r.space, r.page, r.tam))
      /\ UNCHANGED <<spaces, stacks, trusted, clobbered>>
  BY DEF memRegDel, Running, harm
<1> DEFINE gone == nodes_in(r.space, r.page, r.tam)
<1>4. PICK R, M1, s : /\ R = memoria \ (gone \cup {r})
                      /\ M1 = store_prev(R, s, r.next, r.prev) /\ s = r.space
  OBVIOUS
<1>5. memoria' = store_next(M1, s, r.prev, r.next)
  BY <1>3, <1>4 DEF unlink
<1>6. /\ head' = [t \in Slot |-> IF r.next = HeadOf(t) /\ t \in Tasks THEN r.prev ELSE head[t]]
      /\ head' \in [Slot -> Int]
  BY <1>1, <1>2, <1>3 DEF unlink
<1>7. R \subseteq Node(spaces) /\ R \subseteq memoria
  BY <1>1, <1>4
<1> HIDE DEF gone
<1>8. M1 \subseteq Node(spaces) /\ PrevTraced(M1, R)
  BY <1>2, <1>4, <1>7, PrevKeeps
<1>9. NextTraced(memoria', M1, s, r.next)
  BY <1>2, <1>5, <1>8, NextKeeps
<1>10. NextTraced(memoria', memoria, s, r.next)
  <2> SUFFICES ASSUME NEW z \in memoria'
               PROVE  \E x \in memoria :
                        /\ z.task = x.task /\ z.space = x.space
                        /\ z.next = x.next \/ (z.next = r.next /\ z.space = s)
    BY DEF NextTraced
  <2>1. PICK y \in M1 : /\ z.task = y.task /\ z.space = y.space
                        /\ z.next = y.next \/ (z.next = r.next /\ z.space = s)
    BY <1>9 DEF NextTraced
  <2>2. PICK x \in R : y.task = x.task /\ y.space = x.space /\ y.next = x.next
    BY <1>8 DEF PrevTraced
  <2> QED
    BY <2>1, <2>2, <1>7
<1>11. Owned(memoria', stacks, spaces)
  <2> SUFFICES ASSUME NEW z \in memoria'
               PROVE  OwnerIn(z, stacks, spaces)
    BY DEF Owned
  <2>1. PICK x \in memoria : z.task = x.task /\ z.space = x.space
    BY <1>10 DEF NextTraced
  <2>2. OwnerIn(x, stacks, spaces)
    BY <1>1 DEF Owned
  <2> QED
    BY <2>1, <2>2 DEF OwnerIn
<1>12. ASSUME trusted # {}
       PROVE  FirstOK(memoria', head', stacks, spaces, trusted)
  <2>1. /\ 1 \in spaces /\ 1 \in trusted /\ NobodyElse(memoria, Members(stacks))
        /\ InOrder(memoria, head, Members(stacks), trusted)
    BY <1>12 DEF ListsOK, FirstOK
  <2>2. Members(stacks) \subseteq Tasks
    BY <2>1, <1>1, MemberSpace
  <2>3. NobodyElse(memoria', Members(stacks))
    <3> SUFFICES ASSUME NEW z \in memoria', z.space # 1, NEW c \in Members(stacks)
                 PROVE  z.next # HeadOf(c)
      BY DEF NobodyElse
    <3>1. PICK x \in memoria : /\ z.space = x.space
                               /\ z.next = x.next \/ (z.next = r.next /\ z.space = s)
      BY <1>10 DEF NextTraced
    <3> QED
      BY <3>1, <2>1, <1>4 DEF NobodyElse
  <2>4. PICK M, H : M = memoria' /\ H = head'
    OBVIOUS
  <2>5. H \in [Slot -> Int]
        /\ \A t \in Members(stacks) : H[t] = IF r.next = HeadOf(t) THEN r.prev ELSE head[t]
    BY <2>2, <2>4, <1>1, <1>6
  <2>6. CASE s = 1
    <3>0. R = memoria \ {r}
      <4>1. ASSUME NEW x \in gone PROVE x = r
        <5>1. x \in memoria /\ x.space = 1 /\ x.page \in r.page .. r.page + r.tam - 1
          BY <4>1, <2>6, <1>4 DEF gone, nodes_in
        <5>2. r.page <= x.page /\ x.page < r.page + r.num
          <6>1. /\ r.tam = r.num \/ r.tam < 0
                /\ r.page \in Int /\ r.tam \in Int /\ r.num \in Int
            <7>1. RegionsFit(memoria, spaces) /\ r \in Node(spaces)
              BY <1>1 DEF MemOK
            <7> QED
              BY <7>1, Pages DEF RegionsFit, Node
          <6> QED
            BY <5>1, <6>1
        <5> QED
          BY <5>1, <5>2, <2>6, <1>4, <1>12, NodeApart
      <4> QED
        BY <4>1, <1>4
    <3>1. NodeUnlinked(M, memoria, r) /\ r.space = 1
      BY <3>0, <2>4, <2>6, <1>4, <1>5 DEF NodeUnlinked
    <3>2. HeadsUnlinked(H, head, r, Members(stacks))
      BY <2>5 DEF HeadsUnlinked
    <3>3. InOrder(M, H, Members(stacks), trusted)
      BY <3>1, <3>2, <2>1, <2>5, <1>1, UnlinkedInOrder
    <3> QED
      BY <3>3, <2>1, <2>3, <2>4 DEF FirstOK
  <2>7. CASE s # 1
    <3>1. Home(M) = Home(M1)
      BY <2>4, <2>7, <1>5, <1>8, NextElsewhere
    <3>2. Home(M1) = Home(R)
      BY <2>7, <1>4, <1>7, PrevElsewhere
    <3>3. Home(R) = Home(memoria)
      BY <2>7, <1>4 DEF Home, gone, nodes_in
    <3>4. \A t \in Members(stacks) : H[t] = head[t]
      BY <2>1, <2>5, <2>7, <1>4 DEF NobodyElse
    <3>5. trusted \subseteq Members(stacks)
      BY <2>1, TrustedMembers
    <3>6. InOrder(M, H, Members(stacks), trusted)
      BY <3>1, <3>2, <3>3, <3>4, <3>5, <2>1, <2>5, OrderKept
    <3> QED
      BY <3>6, <2>1, <2>3, <2>4 DEF FirstOK
  <2> QED
    BY <2>6, <2>7
<1> QED
  BY <1>1, <1>3, <1>11, <1>12 DEF ListsOK, Unharmed
-----------------------------------------------------------------------------
\* A task whose list is empty joins the first process.
LEMMA JoinedInOrder ==
  ASSUME NEW R, NEW H, NEW T, NEW U, InOrder(R, H, T, U),
         NEW c \in Slot, c \notin T, \A r \in Home(R) : r.task # c,
         NEW U2, U2 \subseteq U \cup {c},
         c \in U2 => \A r \in Home(R) : r.next # HeadOf(c)
  PROVE  InOrder(R, [H EXCEPT ![c] = HeadOf(c)], T \cup {c}, U2)
<1>1. PICK P, nx, pv, tk : Shape(Home(R), P, nx, pv, tk) /\ Lists(P, nx, pv, tk, H, T, U)
  BY DEF InOrder
<1>2. Fields(P, nx, pv, tk)
  BY <1>1, ShapeFields
<1>3. (\A p \in P : tk[p] # c) /\ (c \in U2 => \A p \in P : nx[p] # HeadOf(c))
  BY <1>1 DEF Shape
<1>4. Lists(P, nx, pv, tk, [H EXCEPT ![c] = HeadOf(c)], T \cup {c}, U2)
  BY <1>1, <1>2, <1>3, ListsJoined
<1> QED
  BY <1>1, <1>4 DEF InOrder

\* A stack for a new thread in slot c.
LEMMA StackOwned ==
  ASSUME NEW R, NEW K, NEW S, SlotsApart(K, S), Owned(R, K, S),
         NEW k, k.slot \notin S, \A l \in K : l.slot # k.slot
  PROVE  SlotsApart(K \cup {k}, S) /\ Owned(R, K \cup {k}, S)
<1>1. SlotsApart(K \cup {k}, S)
  BY DEF SlotsApart
<1>2. Owned(R, K \cup {k}, S)
  BY DEF Owned, OwnerIn
<1> QED
  BY <1>1, <1>2

LEMMA FreeSlot ==
  ASSUME NEW c \in FreeSlots, SlotsApart(stacks, spaces), Owned(memoria, stacks, spaces)
  PROVE  /\ c \in Slot /\ c \notin spaces /\ \A k \in stacks : k.slot # c
         /\ \A r \in memoria : r.task # c
         /\ 1 \in spaces => c \notin Members(stacks)
<1>1. c \in Slot /\ c \notin spaces /\ \A k \in stacks : k.slot # c
  BY DEF FreeSlots
<1>2. c # Gone
  BY <1>1, HeadsDiffer
<1> QED
  BY <1>1, <1>2 DEF Owned, OwnerIn, Members

\* sys_threadCreateWithStack.
LEMMA CreateLists ==
  ASSUME MemOK, Running, ListsOK, NEW t \in Tasks, NEW c \in FreeSlots, NEW N \in StackSizes,
         threadCreate(t, c, N), Running'
  PROVE  ListsOK'
<1>1. /\ memoria \subseteq Node(spaces) /\ head \in [Slot -> Int]
      /\ spaces \subseteq Slot \ {0} /\ Members(stacks) \subseteq Slot
      /\ SlotsApart(stacks, spaces) /\ Owned(memoria, stacks, spaces)
  BY Fitting, MembersAreSlots DEF ListsOK
<1>2. PICK s \in spaces : s = space_of(t)
  BY TaskSpace DEF MemOK, Tables, Typed
<1>3. PICK k : /\ stacks' = stacks \cup {k} /\ k.slot = c /\ k.space = s
  <2>1. PICK p \in Gaps(s, N), a \in alloc_frames(N) :
          stacks' = stacks \cup {[slot |-> c, space |-> s, page |-> p, num |-> N]}
    BY <1>2, Zenon DEF threadCreate, new_stack
  <2> DEFINE k == [slot |-> c, space |-> s, page |-> p, num |-> N]
  <2>2. stacks' = stacks \cup {k} /\ k.slot = c /\ k.space = s
    BY <2>1
  <2> HIDE DEF k
  <2> QED
    BY <2>2
<1>4. /\ head' = [head EXCEPT ![c] = HeadOf(c)] /\ trusted' = still_trusted(s, c)
      /\ spaces' = spaces /\ memoria' = memoria /\ clobbered' = clobbered
  BY <1>2 DEF threadCreate, new_stack, INIT_LIST_HEAD, harm
<1>5. /\ c \in Slot /\ c \notin spaces /\ (\A l \in stacks : l.slot # c)
      /\ (\A r \in memoria : r.task # c) /\ (1 \in spaces => c \notin Members(stacks))
  BY <1>1, FreeSlot
<1>6. SlotsApart(stacks', spaces') /\ Owned(memoria', stacks', spaces')
  BY <1>1, <1>3, <1>4, <1>5, StackOwned
<1>7. head' \in [Slot -> Int]
  BY <1>1, <1>4, <1>5, HeadsDiffer
<1>8. ASSUME trusted' # {}
      PROVE  FirstOK(memoria', head', stacks', spaces', trusted')
  <2>1. FirstOK(memoria, head, stacks, spaces, trusted)
    <3>1. trusted # {}
      BY <1>4, <1>8 DEF still_trusted
    <3> QED
      BY <3>1 DEF ListsOK
  <2>2. /\ 1 \in spaces /\ 1 \in trusted /\ NobodyElse(memoria, Members(stacks))
        /\ InOrder(memoria, head, Members(stacks), trusted)
        /\ trusted \subseteq Members(stacks)
    BY <2>1, TrustedMembers DEF FirstOK
  <2>3. s \in trusted <=> s = 1
    BY <2>2, <1>1, MemberSpace
  <2>4. CASE s # 1
    <3>1. trusted' = trusted
      BY <2>3, <2>4, <1>4 DEF still_trusted
    <3>2. Members(stacks') = Members(stacks)
      BY <2>4, <1>3 DEF Members
    <3>3. \A u \in Members(stacks) : head'[u] = head[u]
      BY <2>2, <1>1, <1>4, <1>5
    <3>4. PICK H : H = head'
      OBVIOUS
    <3>5. InOrder(memoria, H, Members(stacks), trusted)
      BY <3>3, <3>4, <2>2, <1>7, OrderKept
    <3> QED
      BY <3>1, <3>2, <3>4, <3>5, <2>2, <1>4 DEF FirstOK
  <2>5. CASE s = 1
    <3> DEFINE left == {r.space : r \in {x \in memoria : x.next = HeadOf(c)}}
    <3>1. left \subseteq {1}
      <4>1. \A u \in trusted : space_of(u) = 1
        BY <2>2, <1>1, MemberSpace
      <4>2. {u \in trusted : space_of(u) # s} = {}
        BY <4>1, <2>5
      <4> QED
        BY <4>2, <2>3, <2>5, <1>4, <1>8, Zenon DEF still_trusted
    <3>2. trusted' = IF left = {} THEN trusted \cup {c} ELSE trusted
      BY <3>1, <2>3, <2>5, <1>4, Zenon DEF still_trusted
    <3>3. Members(stacks') = Members(stacks) \cup {c}
      BY <2>5, <1>3 DEF Members
    <3>4. NobodyElse(memoria, Members(stacks) \cup {c})
      <4> SUFFICES ASSUME NEW r \in memoria, r.space # 1
                   PROVE  r.next # HeadOf(c)
        BY <2>2 DEF NobodyElse
      <4> QED
        BY <3>1
    <3>5. PICK U : U = trusted'
      OBVIOUS
    <3>6. U \subseteq trusted \cup {c} /\ 1 \in U
      BY <3>2, <3>5, <2>2
    <3>7. c \in U => \A r \in Home(memoria) : r.next # HeadOf(c)
      <4>1. c \notin trusted
        BY <2>2, <1>5
      <4> QED
        BY <4>1, <3>2, <3>5 DEF Home
    <3>8. \A r \in Home(memoria) : r.task # c
      BY <1>5 DEF Home
    <3>9. InOrder(memoria, [head EXCEPT ![c] = HeadOf(c)], Members(stacks) \cup {c}, U)
      <4>1. c \notin Members(stacks)
        BY <2>2, <1>5
      <4> HIDE DEF left
      <4> QED
        BY <4>1, <3>6, <3>7, <3>8, <2>2, <1>5, JoinedInOrder
    <3> QED
      BY <3>3, <3>4, <3>5, <3>6, <3>9, <2>2, <1>4 DEF FirstOK
  <2> QED
    BY <2>4, <2>5
<1>9. trusted' # {} => trusted # {}
  BY <1>4 DEF still_trusted
<1> QED
  BY <1>4, <1>6, <1>8, <1>9 DEF ListsOK, Unharmed

\* terminate_thread.
LEMMA EndLists ==
  ASSUME MemOK, Running, ListsOK, NEW k \in stacks, terminate_thread(k)
  PROVE  ListsOK'
<1>1. /\ memoria \subseteq Node(spaces) /\ head \in [Slot -> Int]
      /\ SlotsApart(stacks, spaces) /\ Owned(memoria, stacks, spaces)
      /\ k.slot \in Slot
  BY Fitting DEF ListsOK
<1>2. PICK c : c = k.slot /\ c \in Slot
  BY <1>1
<1>3. PICK R : /\ R = memoria \ nodes_in(k.space, k.page, k.num) /\ memoria' = Abandoned(R, c)
               /\ stacks' = stacks \ {k} /\ spaces' = spaces /\ trusted' = trusted \ {c}
               /\ head' = [head EXCEPT ![c] = HeadOf(c)] /\ clobbered' = clobbered
  <2>1. memoria' = Abandoned(memoria \ nodes_in(k.space, k.page, k.num), c)
    BY <1>2 DEF terminate_thread, Abandoned
  <2>2. /\ stacks' = stacks \ {k} /\ spaces' = spaces /\ trusted' = trusted \ {c}
        /\ head' = [head EXCEPT ![c] = HeadOf(c)] /\ clobbered' = clobbered
    BY <1>2 DEF terminate_thread, INIT_LIST_HEAD, harm
  <2> QED
    BY <2>1, <2>2
<1>9. R \subseteq memoria /\ R \subseteq Node(spaces)
  BY <1>1, <1>3
<1>4. c \notin spaces /\ \A l \in stacks : l.slot = c => l = k
  BY <1>1, <1>2 DEF SlotsApart
<1>5. \A y \in memoria' : \E r \in R :
        /\ r \in memoria /\ y.space = r.space /\ y.next = r.next
        /\ y.task = IF r.task = c THEN Gone ELSE r.task
  BY <1>3, <1>9, OwnerGoneKeeps
<1>6. Owned(memoria', stacks', spaces')
  <2> SUFFICES ASSUME NEW y \in memoria'
               PROVE  OwnerIn(y, stacks', spaces')
    BY DEF Owned
  <2>1. PICK r \in memoria : /\ y.space = r.space
                             /\ y.task = IF r.task = c THEN Gone ELSE r.task
    BY <1>5
  <2>2. OwnerIn(r, stacks, spaces)
    BY <1>1 DEF Owned
  <2> QED
    BY <2>1, <2>2, <1>2, <1>3 DEF OwnerIn
<1>7. SlotsApart(stacks', spaces')
  BY <1>1, <1>3 DEF SlotsApart
<1>8. ASSUME trusted' # {}
      PROVE  FirstOK(memoria', head', stacks', spaces', trusted')
  <2>0. FirstOK(R, head, stacks, spaces, trusted)
    <3>1. trusted # {} /\ FirstOK(memoria, head, stacks, spaces, trusted)
      BY <1>3, <1>8 DEF ListsOK
    <3>2. ASSUME NEW x \in nodes_in(k.space, k.page, k.num) PROVE x.space # 1
      <4>1. SUFFICES ASSUME x.space = 1 PROVE FALSE
        OBVIOUS
      <4>2. x \in memoria /\ k.space = 1 /\ x.page \in k.page .. k.page + k.num - 1
        BY <4>1, <3>2 DEF nodes_in
      <4>3. k.page \in Int /\ k.num \in Int
        BY Pages DEF MemOK, StacksFit
      <4> QED
        BY <4>1, <4>2, <4>3, <3>1, NodeApart
    <3>3. Home(R) = Home(memoria)
      BY <3>2, <1>3 DEF Home
    <3> QED
      BY <3>1, <3>3, <1>1, <1>9, NodesGone
  <2>1. /\ 1 \in spaces /\ 1 \in trusted /\ NobodyElse(R, Members(stacks))
        /\ InOrder(R, head, Members(stacks), trusted)
        /\ trusted \subseteq Members(stacks)
    BY <2>0, TrustedMembers DEF FirstOK
  <2>2. c # 1
    BY <2>1, <1>4
  <2>3. PICK T2, U2, H2, M : /\ T2 = Members(stacks') /\ U2 = trusted'
                             /\ H2 = head' /\ M = memoria'
    OBVIOUS
  <2>4. T2 \subseteq Members(stacks) /\ c \notin T2
    BY <2>2, <2>3, <1>2, <1>3, <1>4 DEF Members
  <2>5. U2 \subseteq trusted /\ c \notin U2 /\ U2 \subseteq T2
    BY <2>1, <2>3, <1>2, <1>3 DEF Members
  <2>6. H2 \in [Slot -> Int] /\ \A u \in T2 : H2[u] = head[u]
    <3>1. HeadOf(c) \in Int
      BY <1>2, HeadsDiffer
    <3>2. T2 \subseteq Slot
      BY <2>4, MembersAreSlots
    <3> QED
      BY <3>1, <3>2, <2>3, <2>4, <1>1, <1>3
  <2>7. InOrder(M, H2, T2, U2)
    <3>1. PICK P, nx, pv, tk :
            /\ Shape(Home(R), P, nx, pv, tk)
            /\ Lists(P, nx, pv, tk, head, Members(stacks), trusted)
      BY <2>1 DEF InOrder
    <3>2. Shape(Home(M), P, nx, pv, OwnerGone(P, tk, c))
      BY <3>1, <2>3, <1>3, <1>9, OwnerWritten
    <3>3. \A p \in P, u \in U2 : OwnerGone(P, tk, c)[p] = u <=> tk[p] = u
      <4>1. \A u \in U2 : u # c /\ u # Gone
        BY <2>4, <2>5, MembersAreSlots, HeadsDiffer
      <4> QED
        BY <4>1 DEF OwnerGone
    <3>4. Lists(P, nx, pv, OwnerGone(P, tk, c), H2, T2, U2)
      BY <3>1, <3>3, <2>4, <2>5, <2>6, ListsLeft
    <3> QED
      BY <3>2, <3>4 DEF InOrder
  <2>8. NobodyElse(M, T2)
    <3> SUFFICES ASSUME NEW y \in M, y.space # 1, NEW u \in T2
                 PROVE  y.next # HeadOf(u)
      BY DEF NobodyElse
    <3>1. PICK r \in R : y.space = r.space /\ y.next = r.next
      BY <2>3, <1>5
    <3> QED
      BY <3>1, <2>1, <2>4 DEF NobodyElse
  <2> QED
    BY <2>1, <2>2, <2>3, <2>7, <2>8, <1>3 DEF FirstOK
<1> QED
  BY <1>3, <1>6, <1>7, <1>8 DEF ListsOK, Unharmed

\* sys_exit of a process: the first one has no threads then.
LEMMA ExitLists ==
  ASSUME MemOK, Running, ListsOK, cr3 \in spaces, exit(cr3)
  PROVE  ListsOK'
<1>1. /\ memoria \subseteq Node(spaces) /\ head \in [Slot -> Int]
      /\ spaces \subseteq Slot \ {0} /\ Members(stacks) \subseteq Slot
      /\ SlotsApart(stacks, spaces) /\ Owned(memoria, stacks, spaces)
      /\ \A k \in stacks : k.space \in has_threads
  BY Fitting, MembersAreSlots DEF ListsOK
<1>2. PICK s \in spaces : s = cr3 /\ s \in Slot
  BY <1>1
<1>3. /\ s \notin has_threads /\ stacks' = stacks /\ spaces' = spaces \ {s}
      /\ memoria' = {r \in memoria : r.space # s}
      /\ head' = [head EXCEPT ![s] = HeadOf(s)] /\ trusted' = trusted \ {s}
      /\ clobbered' = clobbered \ {s}
  BY <1>2 DEF exit, INIT_LIST_HEAD
<1>4. SlotsApart(stacks', spaces')
  BY <1>1, <1>3 DEF SlotsApart
<1>5. Owned(memoria', stacks', spaces')
  BY <1>1, <1>3 DEF Owned, OwnerIn
<1>6. ASSUME trusted' # {}
      PROVE  FirstOK(memoria', head', stacks', spaces', trusted')
  <2>1. /\ 1 \in spaces /\ 1 \in trusted /\ NobodyElse(memoria, Members(stacks))
        /\ InOrder(memoria, head, Members(stacks), trusted)
        /\ trusted \subseteq Members(stacks)
    BY <1>3, <1>6, TrustedMembers DEF ListsOK, FirstOK
  <2>2. s # 1
    <3>1. ASSUME s = 1
          PROVE  Members(stacks) = {1}
      BY <3>1, <1>1, <1>3 DEF Members
    <3> QED
      BY <3>1, <2>1, <1>3, <1>6
  <2>3. s \notin Members(stacks)
    BY <2>1, <2>2, <1>1, MemberSpace
  <2>4. PICK M, H : M = memoria' /\ H = head'
    OBVIOUS
  <2>5. trusted' = trusted
    BY <2>1, <2>3, <1>3
  <2>6. Home(M) = Home(memoria)
    BY <2>2, <2>4, <1>3 DEF Home
  <2>7. H \in [Slot -> Int] /\ \A u \in Members(stacks) : H[u] = head[u]
    <3>1. HeadOf(s) \in Int
      BY <1>2, HeadsDiffer
    <3> QED
      BY <3>1, <2>3, <2>4, <1>1, <1>3
  <2>8. InOrder(M, H, Members(stacks), trusted)
    BY <2>1, <2>6, <2>7, OrderKept
  <2>9. NobodyElse(M, Members(stacks))
    BY <2>1, <2>4, <1>3 DEF NobodyElse
  <2> QED
    BY <2>1, <2>2, <2>4, <2>5, <2>8, <2>9, <1>3 DEF FirstOK
<1> QED
  BY <1>3, <1>4, <1>5, <1>6 DEF ListsOK, Unharmed

\* sys_fork: the list of the child is not one of the first process.
LEMMA ForkLists ==
  ASSUME MemOK, Running, ListsOK, NEW t \in Tasks, NEW c \in FreeSlots,
         fork(t, c) \/ fork_clobbers(t, c)
  PROVE  ListsOK'
<1>1. /\ memoria \subseteq Node(spaces) /\ head \in [Slot -> Int]
      /\ spaces \subseteq Slot \ {0} /\ Members(stacks) \subseteq Slot
      /\ SlotsApart(stacks, spaces) /\ Owned(memoria, stacks, spaces)
  BY Fitting, MembersAreSlots DEF ListsOK
<1>2. t \in Slot
  BY TaskSpace DEF MemOK, Tables, Typed
<1>3. /\ c \in Slot /\ c \notin spaces /\ (\A l \in stacks : l.slot # c)
      /\ (1 \in spaces => c \notin Members(stacks))
  BY <1>1, FreeSlot
<1>4. spaces' = spaces \cup {c} /\ head' = [head EXCEPT ![c] = head[t]] /\ stacks' = stacks
  BY DEF fork, fork_clobbers, fork_task
<1>5. PICK s : s = space_of(t)
  OBVIOUS
<1>6. \/ memoria' = memoria /\ trusted' = trusted /\ clobbered' = clobbered
      \/ /\ clobbered' = clobbered \cup {s}
         /\ trusted' = {u \in trusted : space_of(u) # s}
         /\ \E p, n : memoria' = memoria \ nodes_in(s, p, n)
  BY <1>5, Zenon DEF fork, fork_clobbers, harm
<1>7. memoria' \subseteq memoria
  BY <1>6
<1>8. SlotsApart(stacks', spaces') /\ Owned(memoria', stacks', spaces')
  BY <1>1, <1>3, <1>4, <1>7 DEF SlotsApart, Owned, OwnerIn
<1>9. ASSUME trusted' # {}
      PROVE  FirstOK(memoria', head', stacks', spaces', trusted') /\ 1 \notin clobbered'
  <2>1. trusted # {} /\ 1 \notin clobbered /\ FirstOK(memoria, head, stacks, spaces, trusted)
    BY <1>6, <1>9 DEF ListsOK, Unharmed
  <2>2. \A u \in trusted : space_of(u) = 1
    BY <2>1, <1>1, MemberSpace, TrustedMembers DEF FirstOK
  <2>3. trusted' = trusted /\ 1 \notin clobbered' /\ Home(memoria') = Home(memoria)
    BY <2>1, <2>2, <1>6, <1>9 DEF Home, nodes_in
  <2>4. PICK H, M : H = head' /\ M = memoria'
    OBVIOUS
  <2>5. FirstOK(M, head, stacks, spaces, trusted)
    BY <2>1, <2>3, <2>4, <1>1, <1>7, NodesGone
  <2>6. /\ 1 \in spaces /\ 1 \in trusted /\ NobodyElse(M, Members(stacks))
        /\ InOrder(M, head, Members(stacks), trusted)
        /\ trusted \subseteq Members(stacks)
    BY <2>5, TrustedMembers DEF FirstOK
  <2>7. H \in [Slot -> Int] /\ \A u \in Members(stacks) : H[u] = head[u]
    BY <2>4, <2>6, <1>1, <1>2, <1>3, <1>4
  <2>8. InOrder(M, H, Members(stacks), trusted)
    BY <2>6, <2>7, OrderKept
  <2> QED
    BY <2>3, <2>4, <2>6, <2>8, <1>4 DEF FirstOK
<1> QED
  BY <1>8, <1>9 DEF ListsOK, Unharmed

\* A call that fails, and switch.
LEMMA UnchangedLists ==
  ASSUME ListsOK, UNCHANGED <<spaces, stacks, lists, harm>>
  PROVE  ListsOK'
  BY DEF ListsOK, Unharmed, lists, harm

LEMMA CallLists ==
  ASSUME MemOK, Running, ListsOK, Running', NEW t \in Tasks, Call(t)
  PROVE  ListsOK'
<1>1. CASE \E n \in RegionSizes : memRegGet(t, n)
  BY <1>1, GetLists
<1>2. CASE \E n \in RegionSizes : memRegGet_fails(t, n)
  BY <1>2, UnchangedLists DEF memRegGet_fails, map_and_undo
<1>3. CASE memRegGet_wrapped(t)
  BY <1>3, WrappedLists
<1>4. ASSUME NEW c \in FreeSlots, NEW N \in StackSizes, threadCreate(t, c, N)
      PROVE  ListsOK'
  BY <1>4, CreateLists
<1>5. ASSUME NEW c \in FreeSlots, fork(t, c)
      PROVE  ListsOK'
  BY <1>5, ForkLists
<1>6. ASSUME NEW c \in FreeSlots, fork_clobbers(t, c)
      PROVE  ListsOK'
  BY <1>6, ForkLists
<1>10. ASSUME NEW c \in FreeSlots, fork_faults(t, c)
       PROVE  FALSE
  BY <1>10 DEF fork_faults, Running
<1>7. ASSUME NEW c \in FreeSlots, fork_no_frames(c)
      PROVE  ListsOK'
  BY <1>7, UnchangedLists DEF fork_no_frames
<1>8. ASSUME NEW c \in FreeSlots, fork_no_gap(space_of(t), c)
      PROVE  FALSE
  BY <1>8 DEF fork_no_gap, Running
<1>9. CASE \E N \in StackSizes : threadCreate_fails(t, N)
  BY <1>9, UnchangedLists DEF threadCreate_fails, map_and_undo
<1> QED
  BY <1>1, <1>2, <1>3, <1>4, <1>5, <1>6, <1>7, <1>8, <1>9, <1>10, Zenon DEF Call

LEMMA ListsStep ==
  ASSUME MemInv, ListsInv, [Next]_vars
  PROVE  ListsInv'
<1> SUFFICES ASSUME Running' PROVE ListsOK'
  BY DEF ListsInv
<1>1. CASE UNCHANGED vars
  <2>1. Running /\ UNCHANGED <<spaces, stacks, lists, harm>>
    BY <1>1 DEF vars, Running
  <2> QED
    BY <2>1, UnchangedLists DEF ListsInv
<1>2. CASE Running /\ Next
  <2>1. MemOK /\ ListsOK
    BY <1>2 DEF MemInv, ListsInv
  <2>2. CASE \E t \in Tasks : space_of(t) = cr3 /\ Call(t)
    BY <1>2, <2>1, <2>2, CallLists
  <2>3. CASE cr3 \in spaces /\ exit(cr3)
    BY <1>2, <2>1, <2>3, ExitLists
  <2>4. CASE \E r \in memoria : memRegDel(r)
    BY <1>2, <2>1, <2>4, DelLists
  <2>5. CASE \E k \in stacks : terminate_thread(k)
    BY <1>2, <2>1, <2>5, EndLists
  <2>6. CASE \E s \in spaces : switch(s)
    BY <2>1, <2>6, UnchangedLists DEF switch
  <2>7. CASE Stopped
    BY <2>7, <1>1 DEF Stopped
  <2> QED
    BY <1>2, <2>2, <2>3, <2>4, <2>5, <2>6, <2>7 DEF Next
<1>3. CASE Next /\ ~ Running
  BY <1>1, <1>3 DEF Next, Stopped
<1> QED
  BY <1>1, <1>2, <1>3

LEMMA InitLists ==
  ASSUME init_mm
  PROVE  ListsOK
<1>1. /\ spaces = {1} /\ stacks = {} /\ memoria = {} /\ trusted = {1}
      /\ head = [t \in Slot |-> HeadOf(t)] /\ clobbered = {}
  BY DEF init_mm, INIT_LIST_HEAD
<1>2. SlotsApart(stacks, spaces) /\ Owned(memoria, stacks, spaces)
  BY <1>1 DEF SlotsApart, Owned
<1>3. 1 \in Slot /\ head \in [Slot -> Int]
  BY <1>1, MemoryAssumption, HeadsDiffer DEF Slot
<1>4. InOrder({}, head, {}, {})
  <2> DEFINE f == [q \in {} |-> 0]
  <2>1. f \in [{} -> Int]
    OBVIOUS
  <2>2. Shape(Home({}), {}, f, f, f)
    BY <2>1 DEF Shape, Home
  <2>3. Lists({}, f, f, f, head, {}, {})
    BY <1>3 DEF Lists, Paired, Closed, Ends, OwnEnds
  <2> QED
    BY <2>2, <2>3 DEF InOrder
<1>5. InOrder({}, [head EXCEPT ![1] = HeadOf(1)], {} \cup {1}, {1})
  BY <1>3, <1>4, JoinedInOrder DEF Home
<1>6. [head EXCEPT ![1] = HeadOf(1)] = head
  BY <1>1, <1>3
<1>7. Members(stacks) = {} \cup {1}
  BY <1>1 DEF Members
<1>8. InOrder(memoria, head, Members(stacks), trusted)
  BY <1>1, <1>5, <1>6, <1>7
<1>9. FirstOK(memoria, head, stacks, spaces, trusted)
  BY <1>1, <1>8 DEF FirstOK, NobodyElse
<1> QED
  BY <1>1, <1>2, <1>9 DEF ListsOK, Unharmed

(* Whatever the calls of the tasks, a node belongs to the task that linked it,
   and the lists of the first process are in order as long as one of its tasks
   trusts its own. *)
THEOREM ListsStayInOrder == Spec => []ListsInv
<1>1. init_mm => ListsInv
  BY InitLists DEF ListsInv
<1>2. MemInv /\ ListsInv /\ [Next]_vars => ListsInv'
  BY ListsStep
<1> QED
  BY <1>1, <1>2, TablesStayInOrder, PTL DEF Spec

\* The regions of a task that the invariant trusts.
LEMMA TrustedIsListed ==
  ASSUME MemOK, ListsOK, NEW t \in trusted
  PROVE  ListedBackwards(t)
<1>1. /\ SlotsApart(stacks, spaces) /\ Owned(memoria, stacks, spaces)
      /\ Members(stacks) \subseteq Slot
  BY MembersAreSlots DEF ListsOK
<1>2. /\ 1 \in spaces /\ InOrder(memoria, head, Members(stacks), trusted)
      /\ trusted \subseteq Members(stacks)
  BY TrustedMembers DEF ListsOK, FirstOK
<1>3. t \in Members(stacks) /\ t \in Slot /\ t # Gone
  BY <1>1, <1>2, HeadsDiffer
<1> DEFINE mine == {r \in memoria : r.task = t}
<1>4. mine \subseteq Home(memoria)
  <2> SUFFICES ASSUME NEW r \in memoria, r.task = t
               PROVE  r.space = 1
    BY DEF Home
  <2>1. t \in spaces => t = 1
    BY <1>1, <1>2, <1>3, MemberSpace
  <2>2. OwnerIn(r, stacks, spaces)
    BY <1>1 DEF Owned
  <2>3. ASSUME NEW k \in stacks, r.task = k.slot, r.space = k.space
        PROVE  r.space = 1
    <3>1. k.slot \notin spaces /\ k.slot # 1
      BY <1>1, <1>2 DEF SlotsApart
    <3>2. PICK l \in stacks : l.slot = t /\ l.space = 1
      BY <3>1, <2>3, <1>3 DEF Members
    <3>3. l = k
      BY <3>2, <2>3, <1>1 DEF SlotsApart
    <3> QED
      BY <3>2, <3>3, <2>3
  <2> QED
    BY <2>1, <2>2, <2>3, <1>3 DEF OwnerIn
<1>5. PICK P, nx, pv, tk : /\ Shape(Home(memoria), P, nx, pv, tk)
                           /\ Lists(P, nx, pv, tk, head, Members(stacks), trusted)
  BY <1>2 DEF InOrder
<1>6. PICK n, g : IsChain(g, n, P, nx, pv, tk, head[t], t)
  BY <1>5 DEF Lists, Chain
<1>7. /\ n \in Nat /\ g \in [1 .. n -> P]
      /\ \A i, j \in 1 .. n : g[i] = g[j] => i = j
      /\ \A i \in 1 .. n : tk[g[i]] = t
      /\ \A p \in P : tk[p] = t => \E i \in 1 .. n : g[i] = p
      /\ \A i \in 1 .. n : pv[g[i]] = Before(g, i, t)
      /\ head[t] = IF n = 0 THEN HeadOf(t) ELSE g[n]
  BY <1>6 DEF IsChain
<1>8. /\ P = {r.page : r \in Home(memoria)}
      /\ \A r \in Home(memoria) : pv[r.page] = r.prev /\ tk[r.page] = r.task
      /\ \A x, y \in Home(memoria) : x.page = y.page => x = y
  BY <1>5 DEF Shape
<1> DEFINE f == [i \in 1 .. n |-> CHOOSE r \in Home(memoria) : r.page = g[i]]
<1>9. \A i \in 1 .. n : f[i] \in Home(memoria) /\ f[i].page = g[i]
  <2> TAKE i \in 1 .. n
  <2>1. \E r \in Home(memoria) : r.page = g[i]
    BY <1>7, <1>8
  <2> QED
    BY <2>1
<1>10. f \in [1 .. n -> mine]
  <2>1. \A i \in 1 .. n : f[i] \in mine
    BY <1>7, <1>8, <1>9 DEF Home
  <2> QED
    BY <2>1
<1> HIDE DEF f
<1>11. \A r \in mine : \E i \in 1 .. n : f[i] = r
  <2> SUFFICES ASSUME NEW r \in mine
               PROVE  \E i \in 1 .. n : f[i] = r
    OBVIOUS
  <2>1. r \in Home(memoria) /\ r.page \in P /\ tk[r.page] = t
    BY <1>4, <1>8
  <2>2. PICK i \in 1 .. n : g[i] = r.page
    BY <2>1, <1>7
  <2>3. f[i] = r
    BY <2>1, <2>2, <1>8, <1>9
  <2> QED
    BY <2>3
<1>12. \A i, j \in 1 .. n : f[i] = f[j] => i = j
  BY <1>7, <1>9
<1>13. Cardinality(mine) = n
  <2>1. PICK X : X = mine
    OBVIOUS
  <2>2. f \in Bijection(1 .. n, X)
    BY <2>1, <1>10, <1>11, <1>12 DEF Bijection, Injection, Surjection, IsInjective
  <2>3. ExistsBijection(1 .. n, X)
    BY <2>2 DEF ExistsBijection
  <2>4. Cardinality(X) = n
    BY <2>3, <1>7, FS_CountingElements
  <2> QED
    BY <2>1, <2>4
<1>14. head[t] = IF n = 0 THEN HeadOf(t) ELSE f[n].page
  BY <1>7, <1>9
<1>15. \A i \in 1 .. n : f[i].prev = IF i = 1 THEN HeadOf(t) ELSE f[i - 1].page
  <2> TAKE i \in 1 .. n
  <2>1. f[i].prev = Before(g, i, t)
    BY <1>7, <1>8, <1>9
  <2>2. i # 1 => i - 1 \in 1 .. n
    BY <1>7
  <2> QED
    BY <2>1, <2>2, <1>9 DEF Before
<1> QED
  BY <1>10, <1>11, <1>13, <1>14, <1>15 DEF ListedBackwards

(* sys_memRegGet, sys_memRegDel, sys_threadCreateWithStack and the exits keep
   the memoria lists of the first process apart: the list of each task that
   nothing else reaches has exactly the regions it asked for, in order. *)
THEOREM OwnRegionsStayListed == Spec => []OwnRegionsListed
<1>1. MemInv /\ ListsInv => OwnRegionsListed
  BY TrustedIsListed DEF MemInv, ListsInv, OwnRegionsListed
<1> QED
  BY <1>1, TablesStayInOrder, ListsStayInOrder, PTL
=============================================================================
