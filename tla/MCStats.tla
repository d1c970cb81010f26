------------------------------- MODULE MCStats -------------------------------
(* The whole kernel with its accounting, on a small instance. *)
EXTENDS Stats
=============================================================================
