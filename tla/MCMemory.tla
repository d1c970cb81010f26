------------------------------ MODULE MCMemory -------------------------------
(* Page tables of about ten pages, with a handful of frames to run out of. *)
EXTENDS Memory

\* A stack that would begin below the first free page, and one of two pages.
Stacks == {-1, 2}
=============================================================================
