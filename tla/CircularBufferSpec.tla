------------------------- MODULE CircularBufferSpec -------------------------
(***************************************************************************)
(* The circular buffer as a machine that pushes and pops in any order, and *)
(* the mapping under which it implements a bounded FIFO.                   *)
(***************************************************************************)
EXTENDS CircularBuffer, Sequences

VARIABLES
  buff,   \* the struct circular_buffer
  ret     \* what the last call returned

vars == <<buff, ret>>

Init == buff = INIT_CIRCULAR_BUFFER /\ ret = 0

Push(c) ==
  /\ buff' = circular_buffer_push(buff, c)
  /\ ret' = IF circular_buffer_full(buff) THEN -1 ELSE 0

Pop ==
  /\ buff' = circular_buffer_pop(buff)
  /\ ret' = circular_buffer_popped(buff)

Next == Pop \/ \E c \in Char : Push(c)

Spec == Init /\ [][Next]_vars
-----------------------------------------------------------------------------
TypeOK == buff \in Buffer /\ ret \in Char \cup {0, -1}

\* Index i counted on the ring of BUFFER_SIZE slots (0 <= i < 2 * BUFFER_SIZE).
Wrap(i) == IF i >= BUFFER_SIZE THEN i - BUFFER_SIZE ELSE i

(* The three cursors agree: the slot the next push writes is num_elem slots
   after the head.  tail starts at -1, outside the array, so this is the
   relation that head, tail and num_elem keep although each is updated by
   a separate branch of push and pop. *)
CursorsAgree == Wrap(buff.tail + 1) = Wrap(buff.head + buff.num_elem)

\* The queue that the slots represent.
Contents == [i \in 1 .. buff.num_elem |-> buff.buffer[Wrap(buff.head + i - 1)]]

Fifo == INSTANCE BoundedFifo WITH Capacity <- BUFFER_SIZE, fifo <- Contents

(* Whatever order pushes and pops come in, and however often the cursors
   wrap, circular_buffer.c delivers the accepted characters first in first
   out, loses none, and reports full and empty exactly. *)
ImplementsFifo == Fifo!Spec
=============================================================================
