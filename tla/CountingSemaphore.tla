------------------------- MODULE CountingSemaphore ---------------------------
(***************************************************************************)
(* What the semaphores promise: a value that is never negative, and tasks  *)
(* that wait in line while it is 0.  A signal hands its unit to the first  *)
(* in line, or adds it to the value when nobody waits.                     *)
(***************************************************************************)
EXTENDS Naturals, Sequences

CONSTANTS Sem, Tasks, Initial

VARIABLES created, value, line

Waits(t) == \E s \in Sem : \E i \in DOMAIN line[s] : line[s][i] = t

Init == /\ created = {}
        /\ value = [s \in Sem |-> 0]
        /\ line = [s \in Sem |-> <<>>]

Create(s) == /\ created' = created \cup {s}
             /\ \E v \in Initial : value' = [value EXCEPT ![s] = v]
             /\ UNCHANGED line

Wait(t, s) ==
  /\ ~ Waits(t)
  /\ \/ /\ value[s] > 0
        /\ value' = [value EXCEPT ![s] = @ - 1]
        /\ UNCHANGED line
     \/ /\ value[s] = 0
        /\ line' = [line EXCEPT ![s] = Append(@, t)]
        /\ UNCHANGED value

Signal(s) ==
  \/ /\ line[s] = <<>>
     /\ value' = [value EXCEPT ![s] = @ + 1]
     /\ UNCHANGED line
  \/ /\ line[s] # <<>>
     /\ line' = [line EXCEPT ![s] = Tail(@)]
     /\ UNCHANGED value

Next == \/ \E s \in Sem \ created : Create(s)
        \/ \E s \in created : Signal(s) /\ UNCHANGED created
        \/ \E s \in created, t \in Tasks : Wait(t, s) /\ UNCHANGED created

Spec == Init /\ [][Next]_<<created, value, line>>
=============================================================================
