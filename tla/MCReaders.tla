------------------------------ MODULE MCReaders ------------------------------
(* Readers with and without time to wait. *)
EXTENDS Readers
=============================================================================
