------------------------------- MODULE MCList --------------------------------
(***************************************************************************)
(* The lists of list.c for TLC; the heads, entries and slots are given in  *)
(* list.cfg.  The two kinds of list share nothing but the links, so that   *)
(* one bound is set on both together: how often a slot has been            *)
(* overwritten and how many tasks are on lists come to at most Budget.     *)
(***************************************************************************)
EXTENDS List, FiniteSets

CONSTANT Budget

VARIABLE made    \* how often a slot has been overwritten

Bound == made + Cardinality({e \in Entry : owner[e] # NULL}) <= Budget

MCInit == Init /\ made = 0

MCNext ==
  /\ \/ CreateStep /\ made' = made + 1
     \/ (TaskStep \/ ExitStep) /\ UNCHANGED made
  /\ Bound'

MCSpec ==
  MCInit /\ [][MCNext]_<<vars, made>> /\ WF_vars(SweepTurn \/ SweepEnd)
=============================================================================
