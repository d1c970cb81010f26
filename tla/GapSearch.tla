----------------------------- MODULE GapSearch ------------------------------
(***************************************************************************)
(* The search for consecutive free logical pages that sys_fork,            *)
(* sys_threadCreateWithStack and sys_memRegGet (sys.c) each contain: the   *)
(* while loop, its for loop, and the inner loop that skips mapped pages.   *)
(***************************************************************************)
EXTENDS Integers

CONSTANTS
  TOTAL_PAGES,   \* entries of a page table (1024 in the source)
  FirstPage,     \* NUM_PAG_KERNEL + NUM_PAG_CODE + NUM_PAG_DATA
  Sizes          \* the sizes that are asked for; a caller may ask for N <= 0

ASSUME GapAssumption ==
  /\ TOTAL_PAGES \in Nat /\ FirstPage \in 0 .. TOTAL_PAGES - 1
  /\ Sizes \subseteq Int

Page == 0 .. TOTAL_PAGES - 1

VARIABLES
  present,          \* the present bit of every entry of the page table
  N,                \* how many pages are asked for
  next_start_pos,
  pag,
  temp_pag,
  pc                \* "scan", "skip", "found" or "error"

vars == <<present, N, next_start_pos, pag, temp_pag, pc>>

Init ==
  /\ present \in [Page -> BOOLEAN]
  /\ N \in Sizes
  /\ next_start_pos = FirstPage
  /\ pag = FirstPage
  /\ temp_pag = FirstPage
  /\ pc = "scan"

InGap == pag < TOTAL_PAGES /\ pag < next_start_pos + N

\* The for loop meets a free page.
NextPage ==
  /\ pc = "scan" /\ InGap /\ ~ present[pag]
  /\ pag' = pag + 1
  /\ UNCHANGED <<present, N, next_start_pos, temp_pag, pc>>

\* The for loop meets a mapped page.
Hit ==
  /\ pc = "scan" /\ InGap /\ present[pag]
  /\ temp_pag' = pag
  /\ pc' = "skip"
  /\ UNCHANGED <<present, N, next_start_pos, pag>>

\* One turn of the loop that looks for the end of the mapped run.
Skip ==
  /\ pc = "skip" /\ temp_pag < TOTAL_PAGES /\ present[temp_pag]
  /\ temp_pag' = temp_pag + 1
  /\ UNCHANGED <<present, N, next_start_pos, pag, pc>>

\* Mutant: the search goes on one page after the first free one.
RestartAfterFree ==
  /\ pc = "skip" /\ temp_pag < TOTAL_PAGES /\ ~ present[temp_pag]
  /\ next_start_pos' = temp_pag + 1
  /\ pag' = temp_pag + 1
  /\ pc' = "scan"
  /\ UNCHANGED <<present, N, temp_pag>>

\* Mutant: next_start_pos is not moved past the mapped run.
RestartSamePlace ==
  /\ pc = "skip" /\ temp_pag < TOTAL_PAGES /\ ~ present[temp_pag]
  /\ pag' = next_start_pos
  /\ pc' = "scan"
  /\ UNCHANGED <<present, N, next_start_pos, temp_pag>>

\* next_start_pos = temp_pag, break, and pag = next_start_pos again.
Restart ==
  /\ pc = "skip" /\ temp_pag < TOTAL_PAGES /\ ~ present[temp_pag]
  /\ next_start_pos' = temp_pag
  /\ pag' = temp_pag
  /\ pc' = "scan"
  /\ UNCHANGED <<present, N, temp_pag>>

\* inner_error: every page up to the end of the table is mapped.
InnerError ==
  /\ pc = "skip" /\ temp_pag >= TOTAL_PAGES
  /\ pc' = "error"
  /\ UNCHANGED <<present, N, next_start_pos, pag, temp_pag>>

\* The for loop has ended by its condition.
Finish ==
  /\ pc = "scan" /\ ~ InGap
  /\ pc' = IF pag >= TOTAL_PAGES THEN "error" ELSE "found"
  /\ UNCHANGED <<present, N, next_start_pos, pag, temp_pag>>

\* The result is used; the table does not change during the search.
Returned == pc \in {"found", "error"} /\ UNCHANGED vars

Next == NextPage \/ Hit \/ Skip \/ Restart \/ InnerError \/ Finish \/ Returned

Spec == Init /\ [][Next]_vars

\* The search runs with interrupts disabled: nothing stops it.
FairSpec == Spec /\ WF_vars(Next)
-----------------------------------------------------------------------------
TypeOK ==
  /\ present \in [Page -> BOOLEAN]
  /\ N \in Sizes
  /\ next_start_pos \in FirstPage .. TOTAL_PAGES - 1
  /\ pag \in FirstPage .. TOTAL_PAGES
  /\ temp_pag \in FirstPage .. TOTAL_PAGES
  /\ pc \in {"scan", "skip", "found", "error"}

\* N free pages start at s and end before the last page of the table.
IsGap(s) == /\ s + N < TOTAL_PAGES
            /\ \A p \in Page : s <= p /\ p < s + N => ~ present[p]

\* No gap starts before s.
NoGapBefore(s) == \A r \in FirstPage .. TOTAL_PAGES : r < s => ~ IsGap(r)

(* First fit: whatever is mapped, the three nested loops find the lowest gap
   that ends before the last page, and fail only if there is none. *)
FirstFit ==
  /\ pc = "found" => IsGap(next_start_pos) /\ NoGapBefore(next_start_pos)
  /\ pc = "error" => NoGapBefore(TOTAL_PAGES + 1)

\* The search returns: restarting never brings it back to an earlier page.
Terminates == <>(pc \in {"found", "error"})

-----------------------------------------------------------------------------
(* The loop invariant.  The pages from next_start_pos to pag are free, and
   while mapped pages are skipped those from pag to temp_pag are mapped. *)
LoopInv ==
  /\ TypeOK
  /\ next_start_pos <= pag
  /\ pag <= next_start_pos + N \/ pag = next_start_pos
  /\ \A p \in Page : next_start_pos <= p /\ p < pag => ~ present[p]
  /\ NoGapBefore(next_start_pos)
  /\ pc = "skip" =>
       /\ InGap /\ present[pag] /\ pag <= temp_pag
       /\ \A p \in Page : pag <= p /\ p < temp_pag => present[p]
  /\ FirstFit
=============================================================================
