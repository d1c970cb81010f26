---------------------------- MODULE BoundedFifo -----------------------------
(***************************************************************************)
(* What the keyboard buffer promises its users: a first-in first-out queue *)
(* of bounded length whose operations report success or failure.           *)
(***************************************************************************)
EXTENDS Integers, Sequences

CONSTANTS Capacity, Char

VARIABLES
  fifo,   \* the characters not popped yet, oldest first
  ret     \* what the last operation returned

vars == <<fifo, ret>>

Init == fifo = <<>> /\ ret = 0

\* A push into a full queue fails with -1 and keeps the queue as it is.
Push(c) ==
  \/ Len(fifo) < Capacity /\ fifo' = Append(fifo, c) /\ ret' = 0
  \/ Len(fifo) = Capacity /\ ret' = -1 /\ UNCHANGED fifo

\* A pop takes the oldest character, or fails with -1.
Pop ==
  \/ fifo # <<>> /\ ret' = Head(fifo) /\ fifo' = Tail(fifo)
  \/ fifo = <<>> /\ ret' = -1 /\ UNCHANGED fifo

Next == Pop \/ \E c \in Char : Push(c)

Spec == Init /\ [][Next]_vars
=============================================================================
