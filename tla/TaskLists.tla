------------------------------ MODULE TaskLists ------------------------------
(***************************************************************************)
(* What list.c promises the rest of the kernel: sequences of entries, in   *)
(* which an entry is at most once.                                         *)
(***************************************************************************)
EXTENDS Naturals, SequencesExt

CONSTANTS ListHead, Entry

VARIABLE lists    \* the entries of each list, first to last

IsAt(e, h, i) == i \in DOMAIN lists[h] /\ lists[h][i] = e

Linked(e) == \E h \in ListHead : \E i \in DOMAIN lists[h] : IsAt(e, h, i)

\* The lists without what stands at the ith place of h.
Without(h, i) == [lists EXCEPT ![h] = RemoveAt(@, i)]

Init == lists = [h \in ListHead |-> <<>>]

AddLast(e, h) == ~Linked(e) /\ lists' = [lists EXCEPT ![h] = Append(@, e)]

Del(e) == \E h \in ListHead : \E i \in DOMAIN lists[h] :
            IsAt(e, h, i) /\ lists' = Without(h, i)

\* e goes from the list it is on to the end of g.
Move(e, g) == \E h \in ListHead : \E i \in DOMAIN lists[h] :
                IsAt(e, h, i) /\ lists' = [Without(h, i) EXCEPT ![g] = Append(@, e)]

Next == \E e \in Entry :
          \/ Del(e)
          \/ \E h \in ListHead : AddLast(e, h) \/ Move(e, h)

Spec == Init /\ [][Next]_lists
=============================================================================
