--------------------------- MODULE CircularBuffer ---------------------------
(***************************************************************************)
(* struct circular_buffer (include/circular_buffer.h) and the operations   *)
(* of circular_buffer.c on it, as operators from buffers to buffers.       *)
(***************************************************************************)
EXTENDS Integers

CONSTANTS
  BUFFER_SIZE,   \* number of slots (3 in the source)
  Char,          \* the characters a scan code is mapped to
  Nul            \* '\0', what the static array holds at boot

ASSUME BufferSizeAssumption == BUFFER_SIZE \in Nat \ {0}
ASSUME CharAssumption == Nul \in Char /\ -1 \notin Char

Slot == 0 .. BUFFER_SIZE - 1

Buffer == [head : Slot, tail : -1 .. BUFFER_SIZE - 1,
           num_elem : 0 .. BUFFER_SIZE, buffer : [Slot -> Char]]

INIT_CIRCULAR_BUFFER ==
  [head |-> 0, tail |-> -1, num_elem |-> 0, buffer |-> [i \in Slot |-> Nul]]

circular_buffer_full(b) == b.num_elem >= BUFFER_SIZE

circular_buffer_empty(b) == b.num_elem = 0

\* Mutant: the write position is not wrapped back to slot 0 until one slot later.
PushKeepsTail(b, c) ==
  IF circular_buffer_full(b) THEN b
  ELSE LET pos == IF b.tail < BUFFER_SIZE - 1 THEN b.tail + 1 ELSE b.tail
       IN  [b EXCEPT !.buffer[pos] = c, !.tail = pos, !.num_elem = @ + 1]

\* The buffer after circular_buffer_push(b, c).
circular_buffer_push(b, c) ==
  IF circular_buffer_full(b) THEN b
  ELSE LET pos == IF b.tail < BUFFER_SIZE - 1 THEN b.tail + 1 ELSE 0
       IN  [b EXCEPT !.buffer[pos] = c, !.tail = pos, !.num_elem = @ + 1]

\* Mutant: the newest character is returned.
PoppedNewest(b) == IF circular_buffer_empty(b) THEN -1 ELSE b.buffer[b.tail]

\* The value circular_buffer_pop(b) returns: the oldest character or -1.
circular_buffer_popped(b) ==
  IF circular_buffer_empty(b) THEN -1 ELSE b.buffer[b.head]

\* The buffer after circular_buffer_pop(b).
circular_buffer_pop(b) ==
  IF circular_buffer_empty(b) THEN b
  ELSE [b EXCEPT !.head = IF @ < BUFFER_SIZE - 1 THEN @ + 1 ELSE 0,
                 !.num_elem = @ - 1]
=============================================================================
