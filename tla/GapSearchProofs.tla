-------------------------- MODULE GapSearchProofs ---------------------------
(***************************************************************************)
(* First fit, proved for page tables of every size: LoopInv is inductive.  *)
(***************************************************************************)
EXTENDS GapSearch, TLAPS

\* The search starts with nothing scanned, so LoopInv holds at first.
LEMMA LoopInit == Init => LoopInv
  BY GapAssumption DEF Init, LoopInv, TypeOK, NoGapBefore, FirstFit, Page

(* A gap that starts between next_start_pos and the page where the mapped run
   ends would contain a mapped page. *)
LEMMA NoGapSkipped ==
  ASSUME LoopInv, pc = "skip"
  PROVE  NoGapBefore(temp_pag)
<1> SUFFICES ASSUME NEW r \in FirstPage .. TOTAL_PAGES, r < temp_pag, IsGap(r)
             PROVE  FALSE
  BY DEF NoGapBefore
<1>1. r >= next_start_pos
  BY GapAssumption DEF LoopInv, TypeOK, NoGapBefore
<1>2. CASE r <= pag
  BY <1>1, <1>2, GapAssumption DEF LoopInv, TypeOK, InGap, IsGap, Page
<1>3. CASE r > pag
  <2>1. r \in Page /\ N >= 1
    BY <1>3, GapAssumption DEF LoopInv, TypeOK, InGap, Page
  <2> QED
    BY <1>3, <2>1, GapAssumption DEF LoopInv, TypeOK, IsGap, Page
<1> QED
  BY <1>2, <1>3, GapAssumption DEF LoopInv, TypeOK

\* Every step of the three loops preserves LoopInv.
LEMMA LoopStep == LoopInv /\ [Next]_vars => LoopInv'
<1> SUFFICES ASSUME LoopInv, [Next]_vars PROVE LoopInv'
  OBVIOUS
<1> USE GapAssumption
<1>1. CASE NextPage
  BY <1>1 DEF NextPage, LoopInv, TypeOK, InGap, IsGap, NoGapBefore, FirstFit, Page
<1>2. CASE Hit
  BY <1>2 DEF Hit, LoopInv, TypeOK, InGap, IsGap, NoGapBefore, FirstFit, Page
<1>3. CASE Skip
  BY <1>3 DEF Skip, LoopInv, TypeOK, InGap, IsGap, NoGapBefore, FirstFit, Page
<1>4. CASE Restart
  <2>1. NoGapBefore(temp_pag)
    BY <1>4, NoGapSkipped DEF Restart
  <2> QED
    BY <1>4, <2>1 DEF Restart, LoopInv, TypeOK, InGap, IsGap, NoGapBefore, FirstFit, Page
<1>5. CASE InnerError
  <2>1. NoGapBefore(temp_pag) /\ temp_pag = TOTAL_PAGES /\ N >= 1
    BY <1>5, NoGapSkipped DEF InnerError, LoopInv, TypeOK, InGap
  <2>2. ~ IsGap(TOTAL_PAGES)
    BY <2>1 DEF LoopInv, TypeOK, IsGap
  <2>3. NoGapBefore(TOTAL_PAGES + 1)
    BY <2>1, <2>2 DEF NoGapBefore
  <2>4. NoGapBefore(TOTAL_PAGES + 1)' /\ NoGapBefore(next_start_pos)'
    BY <1>5, <2>3 DEF InnerError, LoopInv, NoGapBefore, IsGap
  <2>5. TypeOK' /\ FirstFit'
    BY <1>5, <2>4 DEF InnerError, LoopInv, TypeOK, FirstFit
  <2> QED
    BY <1>5, <2>4, <2>5 DEF InnerError, LoopInv, TypeOK
<1>6. CASE Finish
  <2>1. CASE pag >= TOTAL_PAGES
    <3>1. next_start_pos + N >= TOTAL_PAGES
      BY <2>1 DEF LoopInv, TypeOK
    <3>2. NoGapBefore(TOTAL_PAGES + 1)
      BY <3>1 DEF LoopInv, TypeOK, NoGapBefore, IsGap
    <3>3. NoGapBefore(TOTAL_PAGES + 1)' /\ NoGapBefore(next_start_pos)'
      BY <1>6, <3>2 DEF Finish, LoopInv, NoGapBefore, IsGap
    <3>4. TypeOK' /\ FirstFit'
      BY <1>6, <2>1, <3>3 DEF Finish, LoopInv, TypeOK, FirstFit
    <3> QED
      BY <1>6, <2>1, <3>3, <3>4 DEF Finish, LoopInv, TypeOK
  <2>2. CASE pag < TOTAL_PAGES
    BY <1>6, <2>2 DEF Finish, LoopInv, TypeOK, InGap, IsGap, NoGapBefore, FirstFit, Page
  <2> QED
    BY <2>1, <2>2 DEF LoopInv, TypeOK
<1>7. CASE Returned \/ UNCHANGED vars
  BY <1>7 DEF Returned, vars, LoopInv, TypeOK, InGap, IsGap, NoGapBefore, FirstFit, Page
<1> QED
  BY <1>1, <1>2, <1>3, <1>4, <1>5, <1>6, <1>7 DEF Next

(* For every page table and every size, the search of sys_fork,
   sys_threadCreateWithStack and sys_memRegGet is first fit, and it stays
   within the page table. *)
THEOREM SearchIsFirstFit == Spec => [](TypeOK /\ FirstFit)
<1>1. LoopInv => TypeOK /\ FirstFit
  BY DEF LoopInv
<1> QED
  BY LoopInit, LoopStep, <1>1, PTL DEF Spec
=============================================================================
