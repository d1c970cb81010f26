---------------------------- MODULE MCGapSearch ------------------------------
(* Every page table of ten pages, every size that can be asked for. *)
EXTENDS GapSearch

AskedSizes == -1 .. 9
=============================================================================
