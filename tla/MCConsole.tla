----------------------------- MODULE MCConsole -------------------------------
(***************************************************************************)
(* A screen of two rows of two cells, and an address space of 16 pages of  *)
(* four bytes: page 0 is the kernel's, 1 code, 2 to 5 data.                *)
(***************************************************************************)
EXTENDS Console

\* A size that sys_write rejects, none, part of a chunk, several chunks, and
\* the largest int.
SomeLengths == {-1, 0, 2, 3, 7, 31}

\* Messages with and without a new line, one that fills a row.
SomeMessages == {<<Text, Newline>>, <<Text, Text>>}
=============================================================================
