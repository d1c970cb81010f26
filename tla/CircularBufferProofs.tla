------------------------ MODULE CircularBufferProofs -------------------------
(***************************************************************************)
(* For every BUFFER_SIZE and every set of characters, the three cursors    *)
(* of the circular buffer agree and the buffer implements a bounded FIFO.  *)
(***************************************************************************)
EXTENDS CircularBufferSpec, SequenceTheorems, TLAPS

Inv == TypeOK /\ CursorsAgree

\* The cursors start in agreement although tail starts outside the array.
LEMMA InvInit == Init => Inv
  BY BufferSizeAssumption, CharAssumption
  DEF Init, Inv, TypeOK, CursorsAgree, Buffer, Slot, Wrap, INIT_CIRCULAR_BUFFER

\* The fields of the buffer after an accepted push.
LEMMA PushFields ==
  ASSUME Inv, NEW c \in Char, ~ circular_buffer_full(buff),
         buff' = circular_buffer_push(buff, c)
  PROVE  /\ Wrap(buff.tail + 1) \in Slot
         /\ buff' = [head |-> buff.head, tail |-> Wrap(buff.tail + 1),
                     num_elem |-> buff.num_elem + 1,
                     buffer |-> [buff.buffer EXCEPT ![Wrap(buff.tail + 1)] = c]]
<1> DEFINE pos == IF buff.tail < BUFFER_SIZE - 1 THEN buff.tail + 1 ELSE 0
<1>1. pos = Wrap(buff.tail + 1) /\ pos \in Slot
  BY BufferSizeAssumption DEF Inv, TypeOK, Buffer, Slot, Wrap
<1>2. buff' = [buff EXCEPT !.buffer[pos] = c, !.tail = pos, !.num_elem = @ + 1]
  BY DEF circular_buffer_push
<1> HIDE DEF pos
<1>3. buff' = [head |-> buff.head, tail |-> pos, num_elem |-> buff.num_elem + 1,
               buffer |-> [buff.buffer EXCEPT ![pos] = c]]
  BY <1>2 DEF Inv, TypeOK, Buffer
<1> QED
  BY <1>1, <1>3

\* The fields of the buffer after a pop that finds a character.
LEMMA PopFields ==
  ASSUME Inv, ~ circular_buffer_empty(buff), buff' = circular_buffer_pop(buff)
  PROVE  /\ Wrap(buff.head + 1) \in Slot
         /\ buff' = [head |-> Wrap(buff.head + 1), tail |-> buff.tail,
                     num_elem |-> buff.num_elem - 1, buffer |-> buff.buffer]
<1> DEFINE pos == IF buff.head < BUFFER_SIZE - 1 THEN buff.head + 1 ELSE 0
<1>1. pos = Wrap(buff.head + 1) /\ pos \in Slot
  BY BufferSizeAssumption DEF Inv, TypeOK, Buffer, Slot, Wrap
<1>2. buff' = [buff EXCEPT !.head = pos, !.num_elem = @ - 1]
  BY DEF circular_buffer_pop
<1> HIDE DEF pos
<1>3. buff' = [head |-> pos, tail |-> buff.tail, num_elem |-> buff.num_elem - 1,
               buffer |-> buff.buffer]
  BY <1>2 DEF Inv, TypeOK, Buffer
<1> QED
  BY <1>1, <1>3

\* A push and a pop keep the cursors in range and in agreement.
LEMMA InvStep == Inv /\ [Next]_vars => Inv'
<1> SUFFICES ASSUME Inv, [Next]_vars PROVE Inv'
  OBVIOUS
<1> USE BufferSizeAssumption
<1>1. ASSUME NEW c \in Char, Push(c) PROVE Inv'
  <2>1. CASE circular_buffer_full(buff)
    BY <1>1, <2>1 DEF Push, circular_buffer_push, Inv, TypeOK, CursorsAgree, Wrap
  <2>2. CASE ~ circular_buffer_full(buff)
    <3>0. /\ Wrap(buff.tail + 1) \in Slot
          /\ buff'.head = buff.head /\ buff'.tail = Wrap(buff.tail + 1)
          /\ buff'.num_elem = buff.num_elem + 1
      BY <1>1, <2>2, PushFields DEF Push
    <3>1. buff' \in Buffer /\ ret' = 0
      <4>1. [buff.buffer EXCEPT ![Wrap(buff.tail + 1)] = c] \in [Slot -> Char]
        BY <3>0, <1>1 DEF Inv, TypeOK, Buffer
      <4>2. buff.num_elem + 1 \in 0 .. BUFFER_SIZE
        BY <2>2 DEF circular_buffer_full, Inv, TypeOK, Buffer
      <4> QED
        BY <1>1, <2>2, <3>0, <4>1, <4>2, PushFields, SMTT(30) DEF Push, Inv, TypeOK, Buffer, Slot
    <3>2. CursorsAgree'
      BY <2>2, <3>0
      DEF circular_buffer_full, Inv, TypeOK, CursorsAgree, Buffer, Slot, Wrap
    <3> QED
      BY <3>1, <3>2 DEF Inv, TypeOK
  <2> QED
    BY <2>1, <2>2
<1>2. CASE Pop
  <2>1. CASE circular_buffer_empty(buff)
    BY <1>2, <2>1
    DEF Pop, circular_buffer_pop, circular_buffer_popped, Inv, TypeOK, CursorsAgree, Wrap
  <2>2. CASE ~ circular_buffer_empty(buff)
    <3>0. /\ buff'.head = Wrap(buff.head + 1) /\ buff'.tail = buff.tail
          /\ buff'.num_elem = buff.num_elem - 1
      BY <1>2, <2>2, PopFields DEF Pop
    <3>1. buff' \in Buffer /\ ret' \in Char
      BY <1>2, <2>2, PopFields, SMTT(30)
      DEF Pop, circular_buffer_popped, circular_buffer_empty, Inv, TypeOK, Buffer, Slot, Wrap
    <3>2. CursorsAgree'
      <4>1. Wrap(Wrap(buff.head + 1) + (buff.num_elem - 1)) = Wrap(buff.head + buff.num_elem)
        BY <2>2 DEF circular_buffer_empty, Inv, TypeOK, Buffer, Slot, Wrap
      <4>2. CursorsAgree' <=> Wrap(buff.tail + 1)
                                = Wrap(Wrap(buff.head + 1) + (buff.num_elem - 1))
        BY <3>0 DEF CursorsAgree, Wrap
      <4> QED
        BY <4>1, <4>2 DEF Inv, CursorsAgree
    <3> QED
      BY <3>1, <3>2 DEF Inv, TypeOK
  <2> QED
    BY <2>1, <2>2
<1>3. CASE UNCHANGED vars
  BY <1>3 DEF vars, Inv, TypeOK, CursorsAgree, Wrap
<1> QED
  BY <1>1, <1>2, <1>3 DEF Next

\* The invariant holds in every reachable state.
LEMMA InvHolds == Spec => []Inv
  BY InvInit, InvStep, PTL DEF Spec

(* In every state of the circular buffer head, tail and num_elem are in
   range and the slot a push writes is num_elem slots after head. *)
THEOREM CursorsAlwaysAgree == Spec => [](TypeOK /\ CursorsAgree)
<1>1. Inv => TypeOK /\ CursorsAgree
  BY DEF Inv
<1> QED
  BY <1>1, InvHolds, PTL
-----------------------------------------------------------------------------
\* The represented queue is a sequence of num_elem characters.
LEMMA ContentsSeq ==
  ASSUME Inv
  PROVE  Contents \in Seq(Char) /\ Len(Contents) = buff.num_elem
<1>1. \A i \in 1 .. buff.num_elem : Wrap(buff.head + i - 1) \in Slot
  BY BufferSizeAssumption DEF Inv, TypeOK, Buffer, Slot, Wrap
<1> QED
  BY <1>1 DEF Inv, TypeOK, Buffer, Contents

\* An accepted push appends to the represented queue.
LEMMA PushAppends ==
  ASSUME Inv, NEW c \in Char, Push(c), ~ circular_buffer_full(buff)
  PROVE  Contents' = Append(Contents, c)
<1> DEFINE n == buff.num_elem
           at(i) == Wrap(buff.head + i - 1)
           last == Wrap(buff.tail + 1)
<1>0. n \in Nat
  BY DEF Inv, TypeOK, Buffer
<1>1. at(n + 1) = last /\ last \in Slot
  BY BufferSizeAssumption
  DEF circular_buffer_full, CursorsAgree, Inv, TypeOK, Buffer, Slot, Wrap
<1>2. \A i \in 1 .. n : at(i) \in Slot /\ at(i) # last
  BY <1>1, BufferSizeAssumption, SMTT(30)
  DEF circular_buffer_full, Inv, TypeOK, Buffer, Slot, Wrap
<1>3. /\ buff'.head = buff.head /\ buff'.num_elem = n + 1
      /\ buff'.buffer = [buff.buffer EXCEPT ![last] = c]
  BY PushFields DEF Push
<1>4. Contents' = [i \in 1 .. n + 1 |-> buff'.buffer[at(i)]]
  BY <1>3 DEF Contents, Wrap
<1>5. Append(Contents, c) =
        [i \in 1 .. n + 1 |-> IF i = n + 1 THEN c ELSE Contents[i]]
  <2>1. Contents \in Seq(Char) /\ Len(Contents) = n
    BY ContentsSeq
  <2>0. n \in Nat
    BY <1>0
  <2> HIDE DEF n
  <2>2. /\ Append(Contents, c) \in Seq(Char) /\ Len(Append(Contents, c)) = n + 1
        /\ \A i \in 1 .. n : Append(Contents, c)[i] = Contents[i]
        /\ Append(Contents, c)[n + 1] = c
    BY <2>1, AppendProperties
  <2>3. Append(Contents, c) \in [1 .. n + 1 -> Char]
    BY <2>2, LenProperties
  <2>4. \A i \in 1 .. n + 1 :
          Append(Contents, c)[i] = IF i = n + 1 THEN c ELSE Contents[i]
    BY <2>0, <2>2
  <2> QED
    BY <2>3, <2>4
<1>6. \A i \in 1 .. n : Contents[i] = buff.buffer[at(i)]
  BY DEF Contents
<1>7. buff.buffer \in [Slot -> Char]
  BY DEF Inv, TypeOK, Buffer
<1> HIDE DEF n, at, last
<1>8. \A i \in 1 .. n + 1 : buff'.buffer[at(i)] = IF i = n + 1 THEN c ELSE Contents[i]
  BY <1>0, <1>1, <1>2, <1>3, <1>6, <1>7
<1> QED
  BY <1>4, <1>5, <1>8

\* A pop takes the represented queue's head.
LEMMA PopTakesHead ==
  ASSUME Inv, Pop, ~ circular_buffer_empty(buff)
  PROVE  /\ Contents # <<>>
         /\ ret' = Head(Contents)
         /\ Contents' = Tail(Contents)
<1> DEFINE n == buff.num_elem
           at(i) == Wrap(buff.head + i - 1)
<1>1. Contents \in Seq(Char) /\ Len(Contents) = n /\ n \in Nat /\ n >= 1
  BY ContentsSeq DEF circular_buffer_empty, Inv, TypeOK, Buffer
<1>2. Contents # <<>> /\ Head(Contents) = Contents[1]
  BY <1>1
<1>3. \A i \in 1 .. n : Contents[i] = buff.buffer[at(i)]
  BY DEF Contents
<1>4. at(1) = buff.head
  BY BufferSizeAssumption DEF Inv, TypeOK, Buffer, Slot, Wrap
<1>5. ret' = Head(Contents)
  BY <1>1, <1>2, <1>3, <1>4 DEF Pop, circular_buffer_popped
<1>6. /\ buff'.head = Wrap(buff.head + 1) /\ buff'.num_elem = n - 1
      /\ buff'.buffer = buff.buffer
  BY PopFields DEF Pop
<1>7. Contents' = [i \in 1 .. n - 1 |-> buff.buffer[Wrap(Wrap(buff.head + 1) + i - 1)]]
  BY <1>6 DEF Contents, Wrap
<1>8. \A i \in 1 .. n - 1 : Wrap(Wrap(buff.head + 1) + i - 1) = at(i + 1)
  BY BufferSizeAssumption DEF Inv, TypeOK, Buffer, Slot, Wrap
<1> HIDE DEF n, at
<1>9. Tail(Contents) = [i \in 1 .. n - 1 |-> Contents[i + 1]]
  <2>1. /\ Tail(Contents) \in Seq(Char) /\ Len(Tail(Contents)) = n - 1
        /\ \A i \in 1 .. n - 1 : Tail(Contents)[i] = Contents[i + 1]
    BY <1>1, <1>2, HeadTailProperties
  <2>2. Tail(Contents) \in [1 .. n - 1 -> Char]
    BY <2>1, LenProperties
  <2> QED
    BY <2>1, <2>2
<1>10. \A i \in 1 .. n - 1 :
         buff.buffer[Wrap(Wrap(buff.head + 1) + i - 1)] = Contents[i + 1]
  BY <1>1, <1>3, <1>8
<1> QED
  BY <1>2, <1>5, <1>7, <1>9, <1>10

\* Every step of the buffer is a step of the FIFO.
LEMMA StepRefines ==
  Inv /\ Inv' /\ [Next]_vars => [Fifo!Next]_(Fifo!vars)
<1> SUFFICES ASSUME Inv, Inv', [Next]_vars PROVE [Fifo!Next]_(Fifo!vars)
  OBVIOUS
<1>1. ASSUME NEW c \in Char, Push(c) PROVE Fifo!Next
  <2>1. CASE circular_buffer_full(buff)
    <3>1. UNCHANGED Contents /\ ret' = -1
      BY <1>1, <2>1 DEF Push, circular_buffer_push, Contents, Wrap
    <3>2. Len(Contents) = BUFFER_SIZE
      BY <2>1, ContentsSeq, BufferSizeAssumption
      DEF circular_buffer_full, Inv, TypeOK, Buffer
    <3> QED
      BY <3>1, <3>2 DEF Fifo!Next, Fifo!Push
  <2>2. CASE ~ circular_buffer_full(buff)
    <3>1. Contents' = Append(Contents, c) /\ ret' = 0
      BY <1>1, <2>2, PushAppends DEF Push
    <3>2. Len(Contents) < BUFFER_SIZE
      BY <2>2, ContentsSeq, BufferSizeAssumption
      DEF circular_buffer_full, Inv, TypeOK, Buffer
    <3> QED
      BY <3>1, <3>2 DEF Fifo!Next, Fifo!Push
  <2> QED
    BY <2>1, <2>2
<1>2. CASE Pop
  <2>1. CASE circular_buffer_empty(buff)
    <3>1. UNCHANGED Contents /\ ret' = -1
      BY <1>2, <2>1
      DEF Pop, circular_buffer_pop, circular_buffer_popped, Contents, Wrap
    <3>2. Contents = <<>>
      BY <2>1, ContentsSeq DEF circular_buffer_empty
    <3> QED
      BY <3>1, <3>2 DEF Fifo!Next, Fifo!Pop
  <2>2. CASE ~ circular_buffer_empty(buff)
    BY <1>2, <2>2, PopTakesHead DEF Fifo!Next, Fifo!Pop
  <2> QED
    BY <2>1, <2>2
<1>3. CASE UNCHANGED vars
  BY <1>3 DEF vars, Fifo!vars, Contents, Wrap
<1> QED
  BY <1>1, <1>2, <1>3 DEF Next

(* circular_buffer.c implements a bounded first-in first-out queue for every
   BUFFER_SIZE, not only the 3 slots of the source. *)
THEOREM BufferImplementsFifo == Spec => ImplementsFifo
<1>1. Init => Fifo!Init
  BY DEF Init, Fifo!Init, Contents, INIT_CIRCULAR_BUFFER
<1> QED
  BY <1>1, InvHolds, StepRefines, PTL DEF Spec, Fifo!Spec, ImplementsFifo
=============================================================================
