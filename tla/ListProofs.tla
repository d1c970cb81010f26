----------------------------- MODULE ListProofs ------------------------------
(***************************************************************************)
(* For any heads, entries and slots: next and prev agree on every list of  *)
(* tasks and on every list of threads that is not broken, the lists of     *)
(* tasks followed from their heads are sequences on which list.c does what *)
(* TaskLists says, and the timeout sweep visits every waiter once.         *)
(***************************************************************************)
EXTENDS List, WellFoundedInduction, FiniteSetTheorems, SequenceTheorems, TLAPS

\* Heads and anchors, of tasks and of threads, are different nodes.
LEMMA NodesDiffer ==
  /\ HeadNode \cap Anchor = {} /\ NULL \notin HeadNode /\ NULL \notin Anchor
  /\ ListHead \subseteq HeadNode /\ ThreadHead \subseteq HeadNode
  /\ ListHead \cap ThreadHead = {} /\ Entry \subseteq Anchor
  /\ readyqueue \in HeadNode /\ getKey_blocked \in HeadNode
  /\ readyqueue # getKey_blocked /\ IsFiniteSet(Anchor)
  /\ Node = ListHead \cup Entry \cup ThreadNode
  /\ (ListHead \cup Entry) \cap ThreadNode = {} /\ ThreadHead \subseteq ThreadNode
  /\ HeadNode = ListHead \cup ThreadHead /\ Anchor \ Entry = ThreadNode \ ThreadHead
<1> DEFINE A == {thread_child_anchor(s) : s \in Slot}
           f == [s \in Slot |-> thread_child_anchor(s)]
<1>1. f \in Surjection(Slot, A)
  BY DEF Surjection
<1>2. IsFiniteSet(A)
  <2> HIDE DEF f, A
  <2> QED BY <1>1, FS_Surjection, ListAssumption
<1>3. IsFiniteSet(Anchor)
  BY <1>2, FS_Union, ListAssumption DEF Anchor
<1>4. \A s, t \in Slot : thread_child_list(s) # thread_child_anchor(t)
  BY DEF thread_child_list, thread_child_anchor
<1>5. ThreadHead \cap A = {} /\ ThreadNode = ThreadHead \cup A
  BY <1>4 DEF ThreadHead, ThreadNode
<1> HIDE DEF A
<1>6. Anchor = Entry \cup A /\ HeadNode = ListHead \cup ThreadHead
  BY DEF Anchor, HeadNode, A
<1> QED BY <1>3, <1>5, <1>6, ListAssumption DEF Node

Links == [next : [Node -> Node \cup {NULL}], prev : [Node -> Node \cup {NULL}]]

Owners == [Anchor -> HeadNode \cup {NULL}]

InList(o, x) == x \in HeadNode \/ o[x] # NULL

HeadOf(o, x) == IF x \in HeadNode THEN x ELSE o[x]

Ring(l, o, x) ==
  /\ l.next[x] \in Node /\ l.prev[l.next[x]] = x
  /\ l.prev[x] \in Node /\ l.next[l.prev[x]] = x
  /\ InList(o, l.next[x]) /\ HeadOf(o, l.next[x]) = HeadOf(o, x)
  /\ InList(o, l.prev[x]) /\ HeadOf(o, l.prev[x]) = HeadOf(o, x)

\* x is on a list whose head is not among the broken heads b.
Intact(o, b, x) == InList(o, x) /\ HeadOf(o, x) \notin b

Good(l, o, b) == \A x \in Node : Intact(o, b, x) => Ring(l, o, x)

\* The kth node met from the head h of the list s, which is circular.
At(s, h, k) == IF k \in 1 .. Len(s) THEN s[k] ELSE h

\* Followed along next from h, the list is s.
Follows(l, h, s) == \A k \in 0 .. Len(s) : l.next[At(s, h, k)] = At(s, h, k + 1)

\* s holds what is on h's list, each anchor once and in the order of next.
Chain(l, o, h, s) ==
  /\ s \in Seq(Anchor) /\ IsInjective(s) /\ Follows(l, h, s)
  /\ \A e \in Anchor : o[e] = h <=> \E i \in 1 .. Len(s) : s[i] = e

(* Both halves are needed: Good gives the predecessor that list_del and
   list_add_tail read, the sequences exclude a ring without a head. *)
Sound(l, o, b) ==
  /\ l \in Links /\ o \in Owners /\ b \subseteq ThreadHead /\ Good(l, o, b)
  /\ \A h \in HeadNode \ b : Chain(l, o, h, Contents(l, h))

\* A nonempty set of numbers has a least one.
LEMMA Least ==
  ASSUME NEW T \in SUBSET Nat, T # {}
  PROVE  \E x \in T : \A y \in T : x <= y
<1> DEFINE R == {p \in Nat \X Nat : p[1] < p[2]}
<1>1. IsWellFoundedOn(R, Nat)
  BY NatLessThanWellFounded, Zenon DEF OpToRel
<1> HIDE DEF R
<1>2. \E x \in T : \A y \in T : <<y, x>> \notin R
  BY <1>1, WFMin
<1>3. \A x, y \in Nat : y < x => <<y, x>> \in R
  BY DEF R
<1>4. PICK x \in T : \A y \in T : <<y, x>> \notin R
  BY <1>2
<1>5. \A y \in T : ~(y < x)
  BY <1>3, <1>4
<1>6. \A y \in T : x <= y
  BY <1>5
<1> QED BY <1>6

\* A list without repetition is no longer than there are entries.
LEMMA NotTooLong ==
  ASSUME NEW s \in Seq(Anchor), IsInjective(s)
  PROVE  Len(s) <= Cardinality(Anchor) /\ Cardinality(Anchor) \in Nat
<1>1. s \in Injection(1 .. Len(s), Anchor)
  BY DEF Injection, IsInjective
<1>2. IsFiniteSet(Anchor)
  BY NodesDiffer
<1>3. Cardinality(1 .. Len(s)) <= Cardinality(Anchor)
  BY <1>1, <1>2, FS_Injection
<1>4. Len(s) \in Nat /\ Cardinality(1 .. Len(s)) = IF 1 > Len(s) THEN 0 ELSE Len(s) - 1 + 1
  BY FS_Interval
<1> QED BY <1>2, <1>3, <1>4, FS_CardinalityType

\* What Contents computes by following next is the list, whatever its length.
LEMMA ContentsIs ==
  ASSUME NEW l \in Links, NEW h \in HeadNode, NEW s \in Seq(Anchor),
         IsInjective(s), Follows(l, h, s)
  PROVE  Contents(l, h) = s
<1> DEFINE N == Cardinality(Anchor)
           D == 1 .. N + 1
           R(f) == [k \in D |-> IF k = 1 THEN l.next[h]
                                ELSE IF f[k - 1] = h THEN h ELSE l.next[f[k - 1]]]
           g == [k \in D |-> At(s, h, k)]
           at == Reached(l, h)
<1>1. Len(s) <= N /\ N \in Nat /\ Len(s) \in Nat
  BY NotTooLong
<1>2. \A k \in 1 .. Len(s) : s[k] \in Anchor /\ s[k] # h
  BY NodesDiffer
<1>3. l.next[h] = At(s, h, 1)
  BY <1>1 DEF Follows, At
<1>4. \A k \in 1 .. Len(s) : l.next[s[k]] = At(s, h, k + 1)
  BY <1>1 DEF Follows, At
<1>5. ASSUME NEW k \in D, k # 1
      PROVE  At(s, h, k) = IF At(s, h, k - 1) = h THEN h ELSE l.next[At(s, h, k - 1)]
  <2>1. CASE k - 1 \in 1 .. Len(s)
    BY <1>1, <1>2, <1>4, <2>1 DEF At
  <2>2. CASE k - 1 \notin 1 .. Len(s)
    BY <1>1, <1>5, <2>2 DEF At
  <2> QED BY <2>1, <2>2
<1>6. g = R(g)
  <2>1. \A k \in D : k # 1 => g[k - 1] = At(s, h, k - 1)
    BY <1>1
  <2>2. \A k \in D : g[k] = R(g)[k]
    BY <1>3, <1>5, <2>1
  <2> QED BY <2>2
<1>7. at = R(at)
  <2>1. at = CHOOSE f : f = R(f)
    BY DEF Reached
  <2> HIDE DEF R, g, at
  <2> QED BY <2>1, <1>6
<1>8. \A k \in D : at[k] = At(s, h, k)
  <2> DEFINE T == {k \in D : at[k] # At(s, h, k)}
  <2> SUFFICES ASSUME T # {} PROVE FALSE
    OBVIOUS
  <2>1. T \in SUBSET Nat
    BY <1>1
  <2>2. PICK x \in T : \A y \in T : x <= y
    BY <2>1, Least
  <2>3. x \in D /\ at[x] # At(s, h, x)
    OBVIOUS
  <2>4. at[x] = IF x = 1 THEN l.next[h] ELSE IF at[x - 1] = h THEN h ELSE l.next[at[x - 1]]
    <3> HIDE DEF at
    <3> QED BY <1>7, <2>3
  <2> HIDE DEF at
  <2>5. x # 1
    BY <1>3, <2>3, <2>4
  <2>6. at[x - 1] = At(s, h, x - 1)
    <3>1. x - 1 \in D /\ x - 1 < x
      BY <1>1, <2>3, <2>5
    <3>2. x - 1 \notin T
      BY <2>2, <2>1, <3>1
    <3> QED BY <3>1, <3>2
  <2> QED BY <2>3, <2>4, <2>5, <2>6, <1>5
<1>9. ASSUME NEW k \in 0 .. N
      PROVE  at[k + 1] = h /\ (\A j \in 1 .. k : at[j] # h) <=> k = Len(s)
  <2> HIDE DEF at
  <2>1. at[k + 1] = h <=> k >= Len(s)
    BY <1>1, <1>2, <1>8 DEF At
  <2>2. (\A j \in 1 .. k : at[j] # h) <=> k <= Len(s)
    <3>1. k <= Len(s) => \A j \in 1 .. k : at[j] # h
      BY <1>1, <1>2, <1>8 DEF At
    <3>2. k > Len(s) => at[k] = h /\ k \in 1 .. k
      BY <1>1, <1>8 DEF At
    <3> QED BY <3>1, <3>2, <1>1
  <2> QED BY <2>1, <2>2, <1>1
<1>10. (CHOOSE k \in 0 .. N : at[k + 1] = h /\ \A j \in 1 .. k : at[j] # h) = Len(s)
  <2> HIDE DEF at
  <2> QED BY <1>9, <1>1
<1>11. Contents(l, h) = [k \in 1 .. Len(s) |-> at[k]]
  BY <1>10 DEF Contents
<1> HIDE DEF at
<1>12. \A k \in 1 .. Len(s) : at[k] = s[k]
  BY <1>1, <1>8 DEF At
<1> QED BY <1>11, <1>12
\* The sequence s with e after its ith place, and without its ith place.
PutAfter(s, i, e) == [k \in 1 .. Len(s) + 1 |-> IF k <= i THEN s[k]
                                              ELSE IF k = i + 1 THEN e ELSE s[k - 1]]

TakeAt(s, i) == [k \in 1 .. Len(s) - 1 |-> IF k < i THEN s[k] ELSE s[k + 1]]

\* __list_add between two neighbours of a list puts the entry between them.
LEMMA AddChain ==
  ASSUME NEW l \in Links, NEW o \in Owners, NEW e \in Anchor, o[e] = NULL,
         NEW h \in HeadNode, NEW s, Chain(l, o, h, s), NEW i \in 0 .. Len(s)
  PROVE  Chain(list_add_between(l, e, At(s, h, i), At(s, h, i + 1)),
               [o EXCEPT ![e] = h], h, PutAfter(s, i, e))
<1> DEFINE p == At(s, h, i)
           q == At(s, h, i + 1)
           m == list_add_between(l, e, p, q)
           t == PutAfter(s, i, e)
<1>1. /\ s \in Seq(Anchor) /\ Len(s) \in Nat /\ i \in Nat /\ i <= Len(s)
      /\ \A k \in 1 .. Len(s) : s[k] \in Anchor /\ s[k] # h /\ s[k] # e /\ o[s[k]] = h
      /\ \A j, k \in 1 .. Len(s) : s[j] = s[k] => j = k
      /\ \A x \in Anchor : o[x] = h => \E k \in 1 .. Len(s) : s[k] = x
  BY NodesDiffer DEF Chain, IsInjective
<1>2. e # h /\ h # NULL /\ e \in Node /\ h \in Node /\ p \in Node
  BY <1>1, NodesDiffer DEF At, Node
<1>3. \A x \in Node : m.next[x] = IF x = p THEN e ELSE IF x = e THEN q ELSE l.next[x]
  BY <1>2, <1>1 DEF Links, list_add_between, At
<1>4. /\ t \in Seq(Anchor) /\ Len(t) = Len(s) + 1
      /\ \A k \in 1 .. Len(s) + 1 : t[k] = IF k <= i THEN s[k]
                                           ELSE IF k = i + 1 THEN e ELSE s[k - 1]
  <2>1. t \in [1 .. Len(s) + 1 -> Anchor]
    BY <1>1 DEF PutAfter
  <2> QED BY <1>1, <2>1 DEF PutAfter
<1>5. \A k \in 0 .. Len(s) + 2 : At(t, h, k) = IF k <= i THEN At(s, h, k)
                                               ELSE IF k = i + 1 THEN e ELSE At(s, h, k - 1)
  BY <1>1, <1>4 DEF At
<1>6. \A j, k \in 0 .. Len(s) : At(s, h, j) = At(s, h, k) => j = k
  BY <1>1 DEF At
<1>7. \A k \in 0 .. Len(s) + 1 : At(s, h, k) \in Node /\ At(s, h, k) # e
  BY <1>1, <1>2 DEF At, Node
<1>8. \A k \in 0 .. Len(s) : l.next[At(s, h, k)] = At(s, h, k + 1)
  BY DEF Chain, Follows
<1> HIDE DEF m, t
<1>9. ASSUME NEW k \in 0 .. Len(t) PROVE m.next[At(t, h, k)] = At(t, h, k + 1)
  <2>1. k \in 0 .. Len(s) + 1 /\ k \in 0 .. Len(s) + 2 /\ k + 1 \in 0 .. Len(s) + 2
    BY <1>1, <1>4
  <2>2. CASE k < i
    <3>1. k \in 0 .. Len(s) /\ i \in 0 .. Len(s) /\ k # i /\ k + 1 <= i
      BY <2>1, <2>2, <1>1
    <3>2. At(t, h, k) = At(s, h, k) /\ At(t, h, k + 1) = At(s, h, k + 1)
      BY <2>1, <2>2, <3>1, <1>5
    <3>3. At(s, h, k) # p /\ At(s, h, k) # e /\ At(s, h, k) \in Node
      BY <2>1, <3>1, <1>6, <1>7
    <3> QED BY <3>1, <3>2, <3>3, <1>3, <1>8
  <2>3. CASE k = i
    <3>1. At(t, h, k) = p /\ At(t, h, k + 1) = e
      BY <2>1, <2>3, <1>1, <1>5
    <3> QED BY <3>1, <1>2, <1>3
  <2>4. CASE k = i + 1
    <3>1. At(t, h, k) = e /\ At(t, h, k + 1) = q
      BY <2>1, <2>4, <1>1, <1>5
    <3>2. p # e
      BY <1>1, <1>7
    <3> QED BY <3>1, <3>2, <1>2, <1>3
  <2>5. CASE k > i + 1
    <3>1. k - 1 \in 0 .. Len(s) /\ k - 1 # i /\ i \in 0 .. Len(s)
      BY <2>1, <2>5, <1>1
    <3>2. At(t, h, k) = At(s, h, k - 1) /\ At(t, h, k + 1) = At(s, h, k)
      BY <2>1, <2>5, <1>1, <1>5
    <3>3. l.next[At(s, h, k - 1)] = At(s, h, k)
      <4>1. k - 1 + 1 = k
        BY <2>1
      <4> QED BY <3>1, <4>1, <1>8
    <3>4. At(s, h, k - 1) # p /\ At(s, h, k - 1) # e /\ At(s, h, k - 1) \in Node
      <4>1. k - 1 \in 0 .. Len(s) + 1
        BY <3>1, <1>1
      <4> QED BY <3>1, <4>1, <1>6, <1>7
    <3> QED BY <3>2, <3>3, <3>4, <1>3
  <2> QED BY <2>1, <2>2, <2>3, <2>4, <2>5, <1>1
<1>10. ASSUME NEW j \in 1 .. Len(t), NEW k \in 1 .. Len(t), t[j] = t[k] PROVE j = k
  <2> DEFINE f(x) == IF x <= i THEN x ELSE x - 1
  <2>1. \A x \in 1 .. Len(t) : x # i + 1 => f(x) \in 1 .. Len(s) /\ t[x] = s[f(x)]
    BY <1>1, <1>4
  <2>2. t[i + 1] = e
    BY <1>1, <1>4
  <2>3. \A x \in 1 .. Len(t) : x # i + 1 => t[x] # e
    BY <2>1, <1>1
  <2>4. CASE j # i + 1 /\ k # i + 1
    <3>1. f(j) = f(k)
      <4> HIDE DEF f
      <4> QED BY <2>1, <2>4, <1>10, <1>1
    <3> QED BY <2>4, <3>1, <1>1
  <2> QED BY <2>2, <2>3, <2>4, <1>10
<1>11. ASSUME NEW x \in Anchor
       PROVE  [o EXCEPT ![e] = h][x] = h <=> \E k \in 1 .. Len(t) : t[k] = x
  <2>1. CASE x = e
    <3>1. t[i + 1] = e /\ i + 1 \in 1 .. Len(t)
      BY <1>1, <1>4
    <3> QED BY <2>1, <3>1 DEF Owners
  <2>2. CASE x # e
    <3>1. \A k \in 1 .. Len(s) : \E j \in 1 .. Len(t) : t[j] = s[k]
      <4> TAKE k \in 1 .. Len(s)
      <4>1. CASE k <= i
        BY <4>1, <1>1, <1>4
      <4>2. CASE k > i
        <5>1. k + 1 \in 1 .. Len(t) /\ t[k + 1] = s[k]
          BY <4>2, <1>1, <1>4
        <5> QED BY <5>1
      <4> QED BY <4>1, <4>2, <1>1
    <3>2. \A k \in 1 .. Len(t) : t[k] # e => o[t[k]] = h
      <4> TAKE k \in 1 .. Len(t)
      <4>1. CASE k <= i
        BY <4>1, <1>1, <1>4
      <4>2. CASE k = i + 1
        BY <4>2, <1>1, <1>4
      <4>3. CASE k > i + 1
        <5>1. k - 1 \in 1 .. Len(s) /\ t[k] = s[k - 1]
          BY <4>3, <1>1, <1>4
        <5> QED BY <5>1, <1>1
      <4> QED BY <4>1, <4>2, <4>3, <1>1
    <3> QED BY <2>2, <3>1, <3>2, <1>1 DEF Owners
  <2> QED BY <2>1, <2>2
<1> QED BY <1>4, <1>9, <1>10, <1>11 DEF Chain, Follows, IsInjective, m, t

\* The predecessor that list_del reads is the entry before, or the head.
LEMMA PrevIs ==
  ASSUME NEW l \in Links, NEW o \in Owners, NEW b, Good(l, o, b), NEW h \in HeadNode \ b,
         NEW s, Chain(l, o, h, s), NEW k \in 0 .. Len(s)
  PROVE  l.prev[At(s, h, k + 1)] = At(s, h, k)
<1> DEFINE x == At(s, h, k)
<1>1. x \in Node /\ Intact(o, b, x)
  BY NodesDiffer DEF Chain, At, Node, InList, HeadOf, Intact
<1>2. l.next[x] = At(s, h, k + 1)
  BY DEF Chain, Follows
<1>3. l.prev[l.next[x]] = x
  <2> HIDE DEF x
  <2> QED BY <1>1 DEF Good, Ring
<1> QED BY <1>2, <1>3

\* list_del takes one entry out of its list.
LEMMA DelChain ==
  ASSUME NEW l \in Links, NEW o \in Owners, NEW b, Good(l, o, b),
         NEW h \in HeadNode \ b, NEW s, Chain(l, o, h, s), NEW i \in 1 .. Len(s)
  PROVE  Chain(list_del(l, s[i]), [o EXCEPT ![s[i]] = NULL], h, TakeAt(s, i))
<1> DEFINE e == s[i]
           p == At(s, h, i - 1)
           q == At(s, h, i + 1)
           m == list_del(l, e)
           t == TakeAt(s, i)
<1>1. /\ s \in Seq(Anchor) /\ Len(s) \in Nat /\ i \in Nat /\ 1 <= i /\ i <= Len(s)
      /\ \A k \in 1 .. Len(s) : s[k] \in Anchor /\ s[k] # h /\ o[s[k]] = h
      /\ \A j, k \in 1 .. Len(s) : s[j] = s[k] => j = k
      /\ \A x \in Anchor : o[x] = h => \E k \in 1 .. Len(s) : s[k] = x
  BY NodesDiffer DEF Chain, IsInjective
<1>2. \A k \in 0 .. Len(s) : l.next[At(s, h, k)] = At(s, h, k + 1)
  BY DEF Chain, Follows
<1>3. At(s, h, i) = e /\ e \in Anchor /\ e \in Node /\ h \in Node /\ p \in Node /\ h # NULL
  BY <1>1, NodesDiffer DEF At, Node
<1>4. l.next[e] = q /\ l.prev[e] = p
  <2>1. i - 1 \in 0 .. Len(s) /\ i - 1 + 1 = i /\ i \in 0 .. Len(s)
    BY <1>1
  <2>2. l.prev[At(s, h, i - 1 + 1)] = p
    BY <2>1, PrevIs
  <2> QED BY <2>1, <2>2, <1>2, <1>3
<1>5. \A x \in Node : m.next[x] = IF x = e THEN NULL ELSE IF x = p THEN q ELSE l.next[x]
  BY <1>3, <1>4 DEF Links, list_del
<1>6. /\ t \in Seq(Anchor) /\ Len(t) = Len(s) - 1
      /\ \A k \in 1 .. Len(s) - 1 : t[k] = IF k < i THEN s[k] ELSE s[k + 1]
  <2>1. Len(s) - 1 \in Nat /\ t \in [1 .. Len(s) - 1 -> Anchor]
    BY <1>1 DEF TakeAt
  <2> QED BY <1>1, <2>1 DEF TakeAt
<1>7. \A k \in 0 .. Len(s) : At(t, h, k) = IF k < i THEN At(s, h, k) ELSE At(s, h, k + 1)
  BY <1>1, <1>6 DEF At
<1>8. \A j, k \in 0 .. Len(s) : At(s, h, j) = At(s, h, k) => j = k
  BY <1>1 DEF At
<1>9. \A k \in 0 .. Len(s) : At(s, h, k) \in Node
  BY <1>1, <1>3 DEF At, Node
<1> HIDE DEF m, t, e, p, q
<1>10. ASSUME NEW k \in 0 .. Len(t) PROVE m.next[At(t, h, k)] = At(t, h, k + 1)
  <2>1. k \in 0 .. Len(s) /\ k + 1 \in 0 .. Len(s) /\ k + 1 + 1 = k + 2
    BY <1>1, <1>6
  <2>2. CASE k < i - 1
    <3>1. At(t, h, k) = At(s, h, k) /\ At(t, h, k + 1) = At(s, h, k + 1)
      <4>1. k < i /\ k + 1 < i
        BY <2>1, <2>2, <1>1
      <4> QED BY <2>1, <4>1, <1>7
    <3>2. At(s, h, k) # e /\ At(s, h, k) # p
      <4>1. i \in 0 .. Len(s) /\ i - 1 \in 0 .. Len(s) /\ k # i /\ k # i - 1
        BY <2>1, <2>2, <1>1
      <4> QED BY <2>1, <4>1, <1>3, <1>8 DEF p
    <3> QED BY <2>1, <3>1, <3>2, <1>2, <1>5, <1>9
  <2>3. CASE k = i - 1
    <3>1. At(t, h, k) = p /\ At(t, h, k + 1) = q
      BY <2>1, <2>3, <1>1, <1>7 DEF p, q
    <3>2. p # e
      BY <2>1, <2>3, <1>1, <1>3, <1>8 DEF p
    <3> QED BY <3>1, <3>2, <1>3, <1>5
  <2>4. CASE k > i - 1
    <3>1. At(t, h, k) = At(s, h, k + 1) /\ At(t, h, k + 1) = At(s, h, k + 2)
      BY <2>1, <2>4, <1>1, <1>7
    <3>2. At(s, h, k + 1) # e /\ At(s, h, k + 1) # p
      <4>1. i \in 0 .. Len(s) /\ i - 1 \in 0 .. Len(s) /\ k + 1 # i /\ k + 1 # i - 1
        BY <2>1, <2>4, <1>1
      <4> QED BY <2>1, <4>1, <1>3, <1>8 DEF p
    <3> QED BY <2>1, <3>1, <3>2, <1>2, <1>5, <1>9
  <2> QED BY <2>1, <2>2, <2>3, <2>4, <1>1
<1>11. ASSUME NEW j \in 1 .. Len(t), NEW k \in 1 .. Len(t), t[j] = t[k] PROVE j = k
  <2> DEFINE f(x) == IF x < i THEN x ELSE x + 1
  <2>1. \A x \in 1 .. Len(t) : f(x) \in 1 .. Len(s) /\ t[x] = s[f(x)]
    BY <1>1, <1>6
  <2>2. f(j) = f(k)
    <3> HIDE DEF f
    <3> QED BY <2>1, <1>11, <1>1
  <2> QED BY <2>2, <1>1
<1>12. ASSUME NEW x \in Anchor
       PROVE  [o EXCEPT ![e] = NULL][x] = h <=> \E k \in 1 .. Len(t) : t[k] = x
  <2>1. \A k \in 1 .. Len(t) : t[k] # e /\ o[t[k]] = h
    <3> TAKE k \in 1 .. Len(t)
    <3>1. CASE k < i
      BY <3>1, <1>1, <1>6 DEF e
    <3>2. CASE k >= i
      <4>1. k + 1 \in 1 .. Len(s) /\ k + 1 # i /\ t[k] = s[k + 1]
        BY <3>2, <1>1, <1>6
      <4> QED BY <4>1, <1>1 DEF e
    <3> QED BY <3>1, <3>2, <1>1
  <2>2. \A k \in 1 .. Len(s) : k # i => \E j \in 1 .. Len(t) : t[j] = s[k]
    <3> TAKE k \in 1 .. Len(s)
    <3>1. CASE k < i
      <4>1. k \in 1 .. Len(t) /\ t[k] = s[k]
        BY <3>1, <1>1, <1>6
      <4> QED BY <4>1
    <3>2. CASE k > i
      <4>1. k - 1 \in 1 .. Len(t) /\ t[k - 1] = s[k]
        BY <3>2, <1>1, <1>6
      <4> QED BY <4>1
    <3> QED BY <3>1, <3>2, <1>1
  <2>3. CASE x = e
    BY <2>1, <2>3, <1>3 DEF Owners
  <2>4. CASE x # e
    <3>1. [o EXCEPT ![e] = NULL][x] = o[x]
      BY <2>4 DEF Owners
    <3>2. o[x] = h => \E k \in 1 .. Len(s) : k # i /\ s[k] = x
      BY <2>4, <1>1 DEF e
    <3> QED BY <2>1, <2>2, <3>1, <3>2
  <2> QED BY <2>3, <2>4
<1>13. Follows(m, h, t) /\ IsInjective(t)
  <2>1. DOMAIN t = 1 .. Len(t)
    BY <1>6
  <2> QED BY <1>10, <1>11, <2>1 DEF Follows, IsInjective
<1>14. Chain(m, [o EXCEPT ![e] = NULL], h, t)
  BY <1>6, <1>12, <1>13 DEF Chain
<1> QED BY <1>14 DEF m, t, e

\* __list_add between two neighbours of h's list keeps the lists well linked.
LEMMA AddKeeps ==
  ASSUME NEW l \in Links, NEW o \in Owners, NEW b, Good(l, o, b), NEW e \in Anchor,
         o[e] = NULL, NEW h \in HeadNode \ b,
         NEW p \in Node, NEW q \in Node, InList(o, p), HeadOf(o, p) = h,
         l.next[p] = q
  PROVE  /\ list_add_between(l, e, p, q) \in Links
         /\ [o EXCEPT ![e] = h] \in Owners
         /\ Good(list_add_between(l, e, p, q), [o EXCEPT ![e] = h], b)
<1> DEFINE m == list_add_between(l, e, p, q)
           o2 == [o EXCEPT ![e] = h]
<1>1. m \in Links /\ o2 \in Owners
  BY NodesDiffer DEF Links, Owners, list_add_between, Node
<1>2. e # p /\ e # q /\ InList(o, q) /\ HeadOf(o, q) = h /\ l.prev[q] = p
  <2>1. Ring(l, o, p)
    BY DEF Good, Intact
  <2> QED BY <2>1, NodesDiffer DEF Ring, InList, HeadOf, Node
<1>3. /\ m.next = [l.next EXCEPT ![e] = q, ![p] = e]
      /\ m.prev = [l.prev EXCEPT ![q] = e, ![e] = p]
  BY DEF list_add_between
<1>4. \A x \in Node : /\ m.next[x] = IF x = p THEN e ELSE IF x = e THEN q ELSE l.next[x]
                      /\ m.prev[x] = IF x = e THEN p ELSE IF x = q THEN e ELSE l.prev[x]
  BY <1>2, <1>3 DEF Links, Node
<1>5. \A x \in Node : /\ x # e => (InList(o2, x) <=> InList(o, x)) /\ HeadOf(o2, x) = HeadOf(o, x)
                      /\ InList(o2, e) /\ HeadOf(o2, e) = h
  BY NodesDiffer DEF Owners, InList, HeadOf, Node
<1>6. ASSUME NEW x \in Node, Intact(o2, b, x) PROVE Ring(m, o2, x)
  <2> HIDE DEF m, o2
  <2>1. e \in Node
    BY DEF Node
  <2>2. CASE x = e
    BY <2>1, <2>2, <1>2, <1>4, <1>5 DEF Ring
  <2>3. CASE x # e
    <3>1. Ring(l, o, x)
      BY <2>3, <1>5, <1>6 DEF Good, Intact
    <3>2. l.next[x] # e /\ l.prev[x] # e
      BY <3>1, NodesDiffer DEF Ring, InList, Node
    <3>3. (l.next[x] = q => x = p) /\ (l.prev[x] = p => x = q)
      BY <3>1, <1>2 DEF Ring
    <3>4. Ring(m, o2, x)
      BY <2>1, <2>3, <3>1, <3>2, <3>3, <1>2, <1>4, <1>5 DEF Ring
    <3> QED BY <3>4
  <2> QED BY <2>2, <2>3
<1> QED BY <1>1, <1>6 DEF Good

\* list_del of an entry of an intact list keeps the lists well linked.
LEMMA DelKeeps ==
  ASSUME NEW l \in Links, NEW o \in Owners, NEW b, Good(l, o, b), NEW e \in Anchor,
         o[e] # NULL, o[e] \notin b
  PROVE  /\ list_del(l, e) \in Links
         /\ [o EXCEPT ![e] = NULL] \in Owners
         /\ Good(list_del(l, e), [o EXCEPT ![e] = NULL], b)
<1> DEFINE m == list_del(l, e)
           o2 == [o EXCEPT ![e] = NULL]
           p == l.prev[e]
           q == l.next[e]
<1>1. e \in Node /\ InList(o, e) /\ Ring(l, o, e)
  BY NodesDiffer DEF Node, InList, HeadOf, Intact, Good
<1>2. /\ p \in Node /\ q \in Node /\ l.next[p] = e /\ l.prev[q] = e
      /\ InList(o, p) /\ InList(o, q) /\ HeadOf(o, p) = HeadOf(o, q)
  BY <1>1 DEF Ring
<1>3. m \in Links /\ o2 \in Owners
  BY <1>1, <1>2 DEF Links, Owners, list_del
<1>4. /\ m.next = [l.next EXCEPT ![p] = q, ![e] = NULL]
      /\ m.prev = [l.prev EXCEPT ![q] = p, ![e] = NULL]
  BY DEF list_del
<1>5. \A x \in Node : /\ m.next[x] = IF x = e THEN NULL ELSE IF x = p THEN q ELSE l.next[x]
                      /\ m.prev[x] = IF x = e THEN NULL ELSE IF x = q THEN p ELSE l.prev[x]
  BY <1>1, <1>2, <1>4 DEF Links
<1>6. \A x \in Node : /\ x # e => (InList(o2, x) <=> InList(o, x)) /\ HeadOf(o2, x) = HeadOf(o, x)
                      /\ ~InList(o2, e)
  BY NodesDiffer DEF Owners, InList, HeadOf, Node
<1>7. ASSUME NEW x \in Node, Intact(o2, b, x) PROVE Ring(m, o2, x)
  <2> HIDE DEF m, o2, p, q
  <2>1. x # e /\ Ring(l, o, x)
    BY <1>6, <1>7 DEF Good, Intact
  <2>2. (l.next[x] = e => x = p) /\ (l.prev[x] = e => x = q)
    BY <2>1, <1>1 DEF Ring, p, q
  <2>3. (x = p => q # e) /\ (x = q => p # e)
    BY <2>1, <1>1, <1>2 DEF Ring, p, q
  <2>4. (l.next[x] = q => x = e) /\ (l.prev[x] = p => x = e)
    BY <2>1, <1>1, <1>2 DEF Ring
  <2> QED BY <2>1, <2>2, <2>3, <2>4, <1>1, <1>2, <1>5, <1>6 DEF Ring
<1> QED BY <1>3, <1>7 DEF Good

\* TakeAt is RemoveAt of the community modules.
LEMMA RemoveIs ==
  ASSUME NEW s \in Seq(Anchor), NEW i \in 1 .. Len(s)
  PROVE  TakeAt(s, i) = RemoveAt(s, i)
<1> DEFINE a == SubSeq(s, 1, i - 1)
           b == SubSeq(s, i + 1, Len(s))
<1>1. a \in Seq(Anchor) /\ Len(a) = i - 1 /\ \A k \in 1 .. i - 1 : a[k] = s[k]
  OBVIOUS
<1>2. b \in Seq(Anchor) /\ Len(b) = Len(s) - i /\ \A k \in 1 .. Len(s) - i : b[k] = s[k + i]
  OBVIOUS
<1> HIDE DEF a, b
<1>3. /\ a \o b \in Seq(Anchor) /\ Len(a \o b) = Len(s) - 1
      /\ \A k \in 1 .. Len(s) - 1 : (a \o b)[k] = IF k < i THEN s[k] ELSE s[k + 1]
  <2>1. a \o b \in Seq(Anchor) /\ Len(a \o b) = Len(s) - 1
    <3>1. a \o b \in Seq(Anchor) /\ Len(a \o b) = Len(a) + Len(b)
      BY <1>1, <1>2, ConcatProperties
    <3>2. Len(s) \in Nat /\ i \in Nat
      OBVIOUS
    <3> QED BY <3>1, <3>2, <1>1, <1>2
  <2> SUFFICES ASSUME NEW k \in 1 .. Len(s) - 1
               PROVE  (a \o b)[k] = IF k < i THEN s[k] ELSE s[k + 1]
    BY <2>1
  <2>2. CASE k < i
    BY <1>1, <1>2, <2>2
  <2>3. CASE k >= i
    <3>1. (a \o b)[k] = b[k - (i - 1)]
      BY <1>1, <1>2, <2>3
    <3>2. k - (i - 1) \in 1 .. Len(s) - i /\ k - (i - 1) + i = k + 1
      BY <2>3
    <3> QED BY <3>1, <3>2, <1>2, <2>3
  <2>4. k < i \/ k >= i
    OBVIOUS
  <2> QED BY <2>2, <2>3, <2>4, Zenon
<1>4. a \o b = TakeAt(s, i)
  <2> DEFINE t == a \o b
             u == TakeAt(s, i)
  <2>1. /\ u \in Seq(Anchor) /\ Len(u) = Len(s) - 1
        /\ \A k \in 1 .. Len(s) - 1 : u[k] = IF k < i THEN s[k] ELSE s[k + 1]
    <3>1. Len(s) - 1 \in Nat /\ u \in [1 .. Len(s) - 1 -> Anchor]
      BY DEF TakeAt
    <3> QED BY <3>1 DEF TakeAt
  <2>2. t \in Seq(Anchor) /\ Len(t) = Len(u) /\ \A k \in 1 .. Len(t) : t[k] = u[k]
    BY <1>3, <2>1
  <2> HIDE DEF t, u
  <2>3. t = u
    BY <2>1, <2>2, SeqEqual
  <2> QED BY <2>3 DEF t, u
<1> QED BY <1>4 DEF RemoveAt, a, b

\* An entry put at the two ends.
LEMMA InsertIs ==
  ASSUME NEW s \in Seq(Anchor), NEW e \in Anchor
  PROVE  PutAfter(s, 0, e) = <<e>> \o s /\ PutAfter(s, Len(s), e) = Append(s, e)
<1>1. PutAfter(s, 0, e) = <<e>> \o s
  <2>1. /\ <<e>> \o s \in Seq(Anchor) /\ Len(<<e>> \o s) = Len(s) + 1
        /\ \A k \in 1 .. Len(s) + 1 : (<<e>> \o s)[k] = IF k = 1 THEN e ELSE s[k - 1]
    OBVIOUS
  <2> DEFINE t == <<e>> \o s
  <2>2. t = [k \in 1 .. Len(s) + 1 |-> IF k = 1 THEN e ELSE s[k - 1]]
    <3> HIDE DEF t
    <3> QED BY <2>1 DEF t
  <2>3. \A k \in 1 .. Len(s) + 1 : PutAfter(s, 0, e)[k] = IF k = 1 THEN e ELSE s[k - 1]
    BY DEF PutAfter
  <2> QED BY <2>2, <2>3 DEF PutAfter
<1>2. PutAfter(s, Len(s), e) = Append(s, e)
  <2> DEFINE t == Append(s, e)
             u == PutAfter(s, Len(s), e)
  <2>1. /\ u \in Seq(Anchor) /\ Len(u) = Len(s) + 1
        /\ \A k \in 1 .. Len(s) + 1 : u[k] = IF k <= Len(s) THEN s[k] ELSE e
    <3>1. Len(s) + 1 \in Nat /\ u \in [1 .. Len(s) + 1 -> Anchor]
      BY DEF PutAfter
    <3> QED BY <3>1 DEF PutAfter
  <2>2. t \in Seq(Anchor) /\ Len(t) = Len(u) /\ \A k \in 1 .. Len(t) : t[k] = u[k]
    BY <2>1
  <2> HIDE DEF t, u
  <2>3. t = u
    BY <2>1, <2>2, SeqEqual
  <2> QED BY <2>3 DEF t, u
<1> QED BY <1>1, <1>2

\* What is known of one intact list of a sound state.
LEMMA SoundGives ==
  ASSUME NEW l, NEW o, NEW b, Sound(l, o, b), NEW h \in HeadNode \ b
  PROVE  /\ Chain(l, o, h, Contents(l, h)) /\ Contents(l, h) \in Seq(Anchor)
         /\ Len(Contents(l, h)) \in Nat /\ h \in Node /\ h # NULL
BY NodesDiffer DEF Sound, Chain, Node

\* From l and o to m and o2 nothing is done to g, to what is on its list, or
\* to what its list consists of.
Spared(l, o, m, o2, g) ==
  /\ m.next[g] = l.next[g]
  /\ \A x \in Anchor : o[x] = g => m.next[x] = l.next[x]
  /\ \A x \in Anchor : o2[x] = g <=> o[x] = g

\* Nothing happens to a list when nodes that are not on it change.
LEMMA OthersKept ==
  ASSUME NEW l, NEW o, NEW m, NEW o2, NEW g \in HeadNode, NEW s,
         Chain(l, o, g, s), Spared(l, o, m, o2, g)
  PROVE  Chain(m, o2, g, s)
<1>1. s \in Seq(Anchor) /\ \A i \in 1 .. Len(s) : s[i] \in Anchor /\ o[s[i]] = g
  BY DEF Chain
<1>2. \A k \in 0 .. Len(s) : m.next[At(s, g, k)] = l.next[At(s, g, k)]
  BY <1>1 DEF At, Spared
<1> QED BY <1>2 DEF Chain, Follows, Spared

\* From l to m the list of h becomes s, and no other intact list changes.
Becomes(l, m, b, h, s) ==
  /\ Contents(m, h) = s
  /\ \A g \in HeadNode \ b : g # h => Contents(m, g) = Contents(l, g)

\* m is l with e added to the list of h, which becomes s.
Adds(l, o, b, e, h, m, s) ==
  Sound(m, [o EXCEPT ![e] = h], b) /\ Becomes(l, m, b, h, s)

\* Links with chains for all intact heads are sound.
LEMMA ChainsSound ==
  ASSUME NEW m \in Links, NEW o \in Owners, NEW b \in SUBSET ThreadHead, Good(m, o, b),
         NEW S, \A h \in HeadNode \ b : Chain(m, o, h, S[h])
  PROVE  Sound(m, o, b) /\ \A h \in HeadNode \ b : Contents(m, h) = S[h]
<1>1. ASSUME NEW h \in HeadNode \ b PROVE Contents(m, h) = S[h]
  <2>1. PICK s : s = S[h]
    OBVIOUS
  <2>2. Chain(m, o, h, s) /\ h \in HeadNode
    BY <2>1
  <2>3. s \in Seq(Anchor) /\ IsInjective(s) /\ Follows(m, h, s)
    BY <2>2 DEF Chain
  <2>4. Contents(m, h) = s
    BY <2>2, <2>3, ContentsIs
  <2> QED BY <2>1, <2>4
<1> QED BY <1>1 DEF Sound

\* Every operation that adds an anchor to an intact list, on the sequences.
LEMMA AddSound ==
  ASSUME NEW l, NEW o, NEW b, Sound(l, o, b), NEW e \in Anchor, o[e] = NULL,
         NEW h \in HeadNode \ b, NEW s, s = Contents(l, h), NEW i \in 0 .. Len(s)
  PROVE  Adds(l, o, b, e, h,
              list_add_between(l, e, At(s, h, i), At(s, h, i + 1)), PutAfter(s, i, e))
<1> DEFINE p == At(s, h, i)
           q == At(s, h, i + 1)
           m == list_add_between(l, e, p, q)
           o2 == [o EXCEPT ![e] = h]
           S == [g \in HeadNode \ b |-> IF g = h THEN PutAfter(s, i, e) ELSE Contents(l, g)]
<1>1. l \in Links /\ o \in Owners /\ b \in SUBSET ThreadHead /\ Good(l, o, b)
  BY DEF Sound
<1>2. Chain(l, o, h, s) /\ s \in Seq(Anchor) /\ Len(s) \in Nat /\ h \in Node
  BY SoundGives
<1>3. p = h \/ (p \in Anchor /\ o[p] = h)
  BY <1>2 DEF Chain, At
<1>4. l.next[p] = q /\ q \in Node /\ e \in Node /\ p \in Node
  BY <1>2 DEF Chain, Follows, At, Node
<1> HIDE DEF p, q
<1>5. InList(o, p) /\ HeadOf(o, p) = h
  BY <1>2, <1>3, NodesDiffer DEF InList, HeadOf
<1>6. m \in Links /\ o2 \in Owners /\ Good(m, o2, b)
  BY <1>1, <1>4, <1>5, AddKeeps
<1>7. Chain(m, o2, h, PutAfter(s, i, e))
  BY <1>1, <1>2, AddChain DEF p, q
<1>8. ASSUME NEW g \in HeadNode \ b, g # h PROVE Chain(m, o2, g, Contents(l, g))
  <2>1. \A x \in Node : x # p /\ x # e => m.next[x] = l.next[x]
    BY <1>1 DEF list_add_between, Links
  <2>2. \A x \in Anchor : o2[x] = g <=> o[x] = g
    BY <1>1, <1>8, NodesDiffer DEF Owners
  <2> HIDE DEF m, o2
  <2>3. m.next[g] = l.next[g]
    BY <1>3, <1>8, <2>1, NodesDiffer DEF Node
  <2>4. \A x \in Anchor : o[x] = g => m.next[x] = l.next[x]
    BY <1>3, <1>8, <2>1, NodesDiffer DEF Node
  <2>5. PICK t : t = Contents(l, g)
    OBVIOUS
  <2>6. Chain(l, o, g, t) /\ g \in HeadNode
    BY <2>5 DEF Sound
  <2>7. Spared(l, o, m, o2, g)
    BY <2>2, <2>3, <2>4 DEF Spared
  <2>8. Chain(m, o2, g, t)
    BY <2>6, <2>7, OthersKept
  <2> QED BY <2>5, <2>8
<1>9. S[h] = PutAfter(s, i, e) /\ \A g \in HeadNode \ b : g # h => S[g] = Contents(l, g)
  OBVIOUS
<1> HIDE DEF S, m, o2
<1>10. \A g \in HeadNode \ b : Chain(m, o2, g, S[g])
  BY <1>7, <1>8, <1>9
<1>11. Sound(m, o2, b) /\ \A g \in HeadNode \ b : Contents(m, g) = S[g]
  BY <1>1, <1>6, <1>10, ChainsSound
<1>12. Becomes(l, m, b, h, PutAfter(s, i, e))
  BY <1>9, <1>11 DEF Becomes
<1> QED BY <1>11, <1>12 DEF Adds, m, o2, p, q

\* list_del of an entry of an intact list, on the sequences.
LEMMA DelSound ==
  ASSUME NEW l, NEW o, NEW b, Sound(l, o, b), NEW h \in HeadNode \ b,
         NEW s, s = Contents(l, h), NEW i \in 1 .. Len(s)
  PROVE  /\ s[i] \in Anchor /\ o[s[i]] = h
         /\ Sound(list_del(l, s[i]), [o EXCEPT ![s[i]] = NULL], b)
         /\ Becomes(l, list_del(l, s[i]), b, h, RemoveAt(s, i))
<1> DEFINE p == At(s, h, i - 1)
           e == s[i]
           m == list_del(l, e)
           o2 == [o EXCEPT ![e] = NULL]
           S == [g \in HeadNode \ b |-> IF g = h THEN TakeAt(s, i) ELSE Contents(l, g)]
<1>1. l \in Links /\ o \in Owners /\ b \in SUBSET ThreadHead /\ Good(l, o, b)
  BY DEF Sound
<1>2. /\ Chain(l, o, h, s) /\ s \in Seq(Anchor) /\ Len(s) \in Nat /\ h \in Node
      /\ h # NULL
  BY SoundGives
<1>3. e \in Anchor /\ o[e] = h /\ e \in Node
  BY <1>2 DEF Chain, Node
<1>4. m \in Links /\ o2 \in Owners /\ Good(m, o2, b)
  BY <1>1, <1>2, <1>3, DelKeeps
<1>5. Chain(m, o2, h, TakeAt(s, i))
  BY <1>1, <1>2, DelChain
<1>6. p = h \/ (p \in Anchor /\ o[p] = h)
  BY <1>2 DEF Chain, At
<1>7. l.prev[e] = p
  <2>1. i - 1 \in 0 .. Len(s) /\ i - 1 + 1 = i /\ At(s, h, i) = e
    BY <1>2 DEF At
  <2>2. l.prev[At(s, h, i - 1 + 1)] = At(s, h, i - 1)
    BY <1>1, <1>2, <2>1, PrevIs
  <2> QED BY <2>1, <2>2
<1> HIDE DEF p, e
<1>8. ASSUME NEW g \in HeadNode \ b, g # h PROVE Chain(m, o2, g, Contents(l, g))
  <2>1. \A x \in Node : x # p /\ x # e => m.next[x] = l.next[x]
    BY <1>1, <1>7 DEF list_del, Links
  <2>2. \A x \in Anchor : o2[x] = g <=> o[x] = g
    BY <1>1, <1>3, <1>8, NodesDiffer DEF Owners
  <2> HIDE DEF m, o2
  <2>3. m.next[g] = l.next[g]
    BY <1>3, <1>6, <1>8, <2>1, NodesDiffer DEF Node
  <2>4. \A x \in Anchor : o[x] = g => m.next[x] = l.next[x]
    BY <1>3, <1>6, <1>8, <2>1, NodesDiffer DEF Node
  <2>5. PICK t : t = Contents(l, g)
    OBVIOUS
  <2>6. Chain(l, o, g, t) /\ g \in HeadNode
    BY <2>5 DEF Sound
  <2>7. Spared(l, o, m, o2, g)
    BY <2>2, <2>3, <2>4 DEF Spared
  <2>8. Chain(m, o2, g, t)
    BY <2>6, <2>7, OthersKept
  <2> QED BY <2>5, <2>8
<1>9. S[h] = TakeAt(s, i) /\ \A g \in HeadNode \ b : g # h => S[g] = Contents(l, g)
  OBVIOUS
<1> HIDE DEF S, m, o2
<1>10. \A g \in HeadNode \ b : Chain(m, o2, g, S[g])
  BY <1>5, <1>8, <1>9
<1>11. Sound(m, o2, b) /\ \A g \in HeadNode \ b : Contents(m, g) = S[g]
  BY <1>1, <1>4, <1>10, ChainsSound
<1>12. TakeAt(s, i) = RemoveAt(s, i)
  BY <1>2, RemoveIs
<1>13. Becomes(l, m, b, h, RemoveAt(s, i))
  BY <1>9, <1>11, <1>12 DEF Becomes
<1> QED BY <1>3, <1>11, <1>13 DEF m, o2, e

\* list_add and list_add_tail put the anchor at the two ends of the sequence.
LEMMA EndsSound ==
  ASSUME NEW l, NEW o, NEW b, Sound(l, o, b), NEW e \in Anchor, o[e] = NULL,
         NEW h \in HeadNode \ b
  PROVE  /\ Adds(l, o, b, e, h, list_add(l, e, h), <<e>> \o Contents(l, h))
         /\ Adds(l, o, b, e, h, list_add_tail(l, e, h), Append(Contents(l, h), e))
<1>0. PICK s : s = Contents(l, h)
  OBVIOUS
<1>1. Chain(l, o, h, s) /\ s \in Seq(Anchor) /\ Len(s) \in Nat
  BY <1>0, SoundGives
<1>2. 0 \in 0 .. Len(s) /\ Len(s) \in 0 .. Len(s)
  BY <1>1
<1>3. At(s, h, 0) = h /\ At(s, h, Len(s) + 1) = h
  BY <1>1 DEF At
<1>4. l.next[h] = At(s, h, 0 + 1)
  BY <1>1, <1>2, <1>3 DEF Chain, Follows
<1>5. l.prev[h] = At(s, h, Len(s))
  <2>1. l \in Links /\ o \in Owners /\ Good(l, o, b)
    BY DEF Sound
  <2>2. l.prev[At(s, h, Len(s) + 1)] = At(s, h, Len(s))
    BY <2>1, <1>1, <1>2, PrevIs
  <2> QED BY <2>2, <1>3
<1>6. PutAfter(s, 0, e) = <<e>> \o s /\ PutAfter(s, Len(s), e) = Append(s, e)
  BY <1>1, InsertIs
<1>7. list_add(l, e, h) = list_add_between(l, e, At(s, h, 0), At(s, h, 0 + 1))
  BY <1>3, <1>4 DEF list_add
<1>8. list_add_tail(l, e, h) = list_add_between(l, e, At(s, h, Len(s)), At(s, h, Len(s) + 1))
  BY <1>3, <1>5 DEF list_add_tail
<1>9. \A i \in 0 .. Len(s) :
        Adds(l, o, b, e, h, list_add_between(l, e, At(s, h, i), At(s, h, i + 1)), PutAfter(s, i, e))
  BY <1>0, AddSound
<1>10. Adds(l, o, b, e, h, list_add(l, e, h), <<e>> \o s)
  BY <1>2, <1>6, <1>7, <1>9
<1>11. Adds(l, o, b, e, h, list_add_tail(l, e, h), Append(s, e))
  BY <1>2, <1>6, <1>8, <1>9
<1> QED BY <1>0, <1>10, <1>11

\* An anchor on an intact list stands somewhere in its sequence.
LEMMA Place ==
  ASSUME NEW l, NEW o, NEW b, Sound(l, o, b), NEW e \in Anchor, NEW h \in HeadNode \ b
  PROVE  o[e] = h <=> \E i \in 1 .. Len(Contents(l, h)) : Contents(l, h)[i] = e
BY DEF Sound, Chain

\* The node after a head is the first anchor of its list, or the head.
LEMMA FirstIs ==
  ASSUME NEW l, NEW o, NEW b, Sound(l, o, b), NEW h \in HeadNode \ b
  PROVE  /\ l.next[h] = At(Contents(l, h), h, 1)
         /\ l.next[h] # h => l.next[h] \in Anchor /\ o[l.next[h]] = h
<1>0. PICK s : s = Contents(l, h)
  OBVIOUS
<1>1. Chain(l, o, h, s) /\ Len(s) \in Nat
  BY <1>0, SoundGives
<1>2. 0 \in 0 .. Len(s) /\ At(s, h, 0) = h
  BY <1>1 DEF At
<1>3. l.next[h] = At(s, h, 1)
  BY <1>1, <1>2 DEF Chain, Follows
<1>4. \A k \in 1 .. Len(s) : s[k] \in Anchor /\ o[s[k]] = h
  BY <1>1 DEF Chain
<1> QED BY <1>0, <1>3, <1>4 DEF At

(* From l and o to m and o2 nothing is done to the heads that are not in b, or
   to what is on their lists. *)
Keeps(l, o, m, o2, b) ==
  \A g \in HeadNode \ b :
    /\ Spared(l, o, m, o2, g) /\ m.prev[g] = l.prev[g]
    /\ \A x \in Anchor : o[x] = g => m.prev[x] = l.prev[x]

SameContents(l, m, b) == \A g \in HeadNode \ b : Contents(m, g) = Contents(l, g)

\* Whatever is done to other nodes, the lists left alone stay sound.
LEMMA KeepSound ==
  ASSUME NEW l, NEW o, NEW b, Sound(l, o, b), NEW m \in Links, NEW o2 \in Owners,
         NEW b2 \in SUBSET ThreadHead, b \subseteq b2, Keeps(l, o, m, o2, b2)
  PROVE  Sound(m, o2, b2) /\ SameContents(l, m, b2)
<1>1. Good(l, o, b) /\ l \in Links /\ o \in Owners
  BY DEF Sound
<1>2. ASSUME NEW x \in Node, InList(o, x) \/ InList(o2, x), NEW g \in HeadNode \ b2,
             HeadOf(o, x) = g \/ HeadOf(o2, x) = g
      PROVE  /\ InList(o, x) /\ HeadOf(o, x) = g /\ InList(o2, x) /\ HeadOf(o2, x) = g
             /\ m.next[x] = l.next[x] /\ m.prev[x] = l.prev[x]
  <2>1. g # NULL
    BY NodesDiffer
  <2>2. CASE x \in HeadNode
    BY <1>2, <2>2 DEF Keeps, Spared, InList, HeadOf
  <2>3. CASE x \notin HeadNode
    <3>1. x \in Anchor
      BY <2>3 DEF Node
    <3> QED BY <1>2, <2>1, <2>3, <3>1 DEF Keeps, Spared, InList, HeadOf
  <2> QED BY <2>2, <2>3
<1>3. ASSUME NEW x \in Node, Intact(o2, b2, x) PROVE Ring(m, o2, x)
  <2>1. PICK g \in HeadNode \ b2 : g = HeadOf(o2, x)
    <3>1. HeadOf(o2, x) \in HeadNode
      BY <1>3 DEF Intact, InList, HeadOf, Owners, Node
    <3> QED BY <3>1, <1>3 DEF Intact
  <2>2. /\ InList(o, x) /\ HeadOf(o, x) = g
        /\ m.next[x] = l.next[x] /\ m.prev[x] = l.prev[x]
    BY <1>2, <1>3, <2>1 DEF Intact
  <2>3. Ring(l, o, x)
    BY <1>1, <2>2 DEF Good, Intact
  <2>4. PICK y, z : y = l.next[x] /\ z = l.prev[x]
    OBVIOUS
  <2>5. /\ y \in Node /\ InList(o, y) /\ HeadOf(o, y) = g /\ l.prev[y] = x
        /\ z \in Node /\ InList(o, z) /\ HeadOf(o, z) = g /\ l.next[z] = x
    BY <2>2, <2>3, <2>4 DEF Ring
  <2>6. InList(o2, y) /\ HeadOf(o2, y) = g /\ m.prev[y] = x
    BY <1>2, <2>5
  <2>7. InList(o2, z) /\ HeadOf(o2, z) = g /\ m.next[z] = x
    BY <1>2, <2>5
  <2> QED BY <2>1, <2>2, <2>4, <2>5, <2>6, <2>7 DEF Ring
<1>4. Good(m, o2, b2)
  BY <1>3 DEF Good
<1> DEFINE S == [g \in HeadNode \ b2 |-> Contents(l, g)]
<1>5. ASSUME NEW g \in HeadNode \ b2 PROVE Chain(m, o2, g, S[g])
  <2>1. PICK t : t = Contents(l, g)
    OBVIOUS
  <2>2. Chain(l, o, g, t) /\ g \in HeadNode
    BY <2>1 DEF Sound
  <2>3. Spared(l, o, m, o2, g)
    BY DEF Keeps
  <2>4. Chain(m, o2, g, t)
    BY <2>2, <2>3, OthersKept
  <2> QED BY <2>1, <2>4
<1>6. \A g \in HeadNode \ b2 : S[g] = Contents(l, g)
  OBVIOUS
<1> HIDE DEF S
<1>7. Sound(m, o2, b2) /\ \A g \in HeadNode \ b2 : Contents(m, g) = S[g]
  BY <1>4, <1>5, ChainsSound
<1> QED BY <1>6, <1>7 DEF SameContents

\* INIT_LIST_HEAD makes a list of threads empty and intact.
LEMMA InitSound ==
  ASSUME NEW l, NEW o, NEW b, Sound(l, o, b), NEW h \in ThreadHead
  PROVE  /\ Sound(INIT_LIST_HEAD(l, h), left_behind(o, h), b \ {h})
         /\ SameContents(l, INIT_LIST_HEAD(l, h), b \cup {h})
<1> DEFINE m == INIT_LIST_HEAD(l, h)
           o2 == left_behind(o, h)
           b1 == b \cup {h}
           b2 == b \ {h}
           S == [g \in HeadNode \ b2 |-> IF g = h THEN <<>> ELSE Contents(m, g)]
<1>1. l \in Links /\ o \in Owners /\ b \in SUBSET ThreadHead
  BY DEF Sound
<1>2. h \in HeadNode /\ h \in Node /\ h \notin Anchor /\ h # NULL
  BY NodesDiffer DEF Node
<1>3. /\ m \in Links
      /\ \A x \in Node : /\ m.next[x] = IF x = h THEN h ELSE l.next[x]
                         /\ m.prev[x] = IF x = h THEN h ELSE l.prev[x]
  BY <1>1, <1>2 DEF INIT_LIST_HEAD, Links
<1>4. o2 \in Owners /\ \A x \in Anchor : o2[x] = IF o[x] = h THEN NULL ELSE o[x]
  BY <1>1 DEF left_behind, Owners
<1> HIDE DEF m, o2
<1>5. Keeps(l, o, m, o2, b1)
  BY <1>2, <1>3, <1>4, NodesDiffer DEF Keeps, Spared, Node
<1>6. Sound(m, o2, b1) /\ SameContents(l, m, b1)
  <2> HIDE DEF b1
  <2>1. b1 \in SUBSET ThreadHead /\ b \subseteq b1
    BY <1>1 DEF b1
  <2> QED BY <1>3, <1>4, <1>5, <2>1, KeepSound
<1>7. \A x \in Anchor : o2[x] # h
  BY <1>2, <1>4
<1>8. Good(m, o2, b2)
  <2> SUFFICES ASSUME NEW x \in Node, Intact(o2, b2, x) PROVE Ring(m, o2, x)
    BY DEF Good
  <2>1. CASE x = h
    BY <2>1, <1>2, <1>3 DEF Ring, InList, HeadOf
  <2>2. CASE x # h
    <3>1. Intact(o2, b1, x)
      BY <2>2, <1>7 DEF Intact, HeadOf, Node
    <3> QED BY <3>1, <1>6 DEF Sound, Good
  <2> QED BY <2>1, <2>2
<1>9. ASSUME NEW g \in HeadNode \ b2 PROVE Chain(m, o2, g, S[g])
  <2>1. CASE g = h
    <3>1. <<>> \in Seq(Anchor) /\ Len(<<>>) = 0 /\ \A k : At(<<>>, h, k) = h
      BY DEF At
    <3>2. m.next[h] = h
      BY <1>2, <1>3
    <3>3. Follows(m, h, <<>>)
      BY <3>1, <3>2 DEF Follows
    <3>4. IsInjective(<<>>)
      BY DEF IsInjective
    <3>5. Chain(m, o2, h, <<>>)
      BY <3>1, <3>3, <3>4, <1>7 DEF Chain
    <3> QED BY <2>1, <3>5
  <2>2. CASE g # h
    <3>1. g \in HeadNode \ b1 /\ S[g] = Contents(m, g)
      BY <2>2
    <3> QED BY <3>1, <1>6 DEF Sound
  <2> QED BY <2>1, <2>2
<1> HIDE DEF S
<1>10. b2 \in SUBSET ThreadHead
  BY <1>1
<1> HIDE DEF b2
<1>11. Sound(m, o2, b2)
  BY <1>3, <1>4, <1>8, <1>9, <1>10, ChainsSound
<1> QED BY <1>6, <1>11 DEF m, o2, b1, b2

(* What separates tasks from threads: an anchor is only ever on a list of its
   own kind, the links of threads lead nowhere else, and a task on no list has
   no links. *)
Kinds(o) ==
  \A x \in Anchor : o[x] \in (IF x \in Entry THEN ListHead ELSE ThreadHead) \cup {NULL}

Confined(l) ==
  \A x \in ThreadNode :
    l.next[x] \in ThreadNode \cup {NULL} /\ l.prev[x] \in ThreadNode \cup {NULL}

Loose(l, o) == \A e \in Entry : o[e] = NULL => l.next[e] = NULL /\ l.prev[e] = NULL

Apart(l, o) == Kinds(o) /\ Confined(l) /\ Loose(l, o)

Tasks == [Slot -> {NULL} \cup [master : Slot, thread : BOOLEAN, has_threads : BOOLEAN]]

(* The list a task may add to has been initialised once, or overwritten with
   one that had: list_add never follows a null pointer. *)
Known(l, T) ==
  /\ T \in Tasks
  /\ \A c \in Slot : T[c] # NULL =>
       /\ T[c].master \in Slot /\ l.next[thread_child_list(c)] # NULL
       /\ l.next[thread_child_list(T[c].master)] # NULL

LEMMA SlotNodes ==
  ASSUME NEW s \in Slot
  PROVE  /\ thread_child_list(s) \in ThreadHead /\ thread_child_list(s) \in Node
         /\ thread_child_list(s) \in HeadNode /\ thread_child_list(s) \in ThreadNode
         /\ thread_child_anchor(s) \in Anchor /\ thread_child_anchor(s) \in Node
         /\ thread_child_anchor(s) \in ThreadNode /\ thread_child_anchor(s) \notin Entry
         /\ thread_child_anchor(s) \notin HeadNode
         /\ \A t \in Slot : thread_child_list(s) = thread_child_list(t) => s = t
<1>1. thread_child_list(s) \in ThreadHead /\ thread_child_anchor(s) \in ThreadNode
  BY DEF ThreadHead, ThreadNode
<1>2. thread_child_anchor(s) \notin ThreadHead
  BY DEF ThreadHead, thread_child_list, thread_child_anchor
<1>3. \A t \in Slot : thread_child_list(s) = thread_child_list(t) => s = t
  BY DEF thread_child_list
<1> QED BY <1>1, <1>2, <1>3, NodesDiffer

\* A field of the nodes that is changed at two of them.
LEMMA ChangedTwice ==
  ASSUME NEW f \in [Node -> Node \cup {NULL}], NEW x \in Node, NEW y \in Node, x # y,
         NEW u \in Node \cup {NULL}, NEW v \in Node \cup {NULL},
         NEW g, g = [f EXCEPT ![x] = u, ![y] = v]
  PROVE  /\ g \in [Node -> Node \cup {NULL}] /\ g[x] = u /\ g[y] = v
         /\ \A z \in Node : z # x /\ z # y => g[z] = f[z]
OBVIOUS

\* copy_data writes two nodes of the slot and reads two of the creator.
LEMMA CopiedIs ==
  ASSUME NEW l \in Links, NEW c \in Slot, NEW s \in Slot
  PROVE  /\ copied(l, c, s) \in Links
         /\ \A x \in Node :
              x # thread_child_list(s) /\ x # thread_child_anchor(s) =>
                /\ copied(l, c, s).next[x] = l.next[x]
                /\ copied(l, c, s).prev[x] = l.prev[x]
         /\ copied(l, c, s).next[thread_child_list(s)] = l.next[thread_child_list(c)]
         /\ copied(l, c, s).prev[thread_child_list(s)] = l.prev[thread_child_list(c)]
         /\ copied(l, c, s).next[thread_child_anchor(s)] = l.next[thread_child_anchor(c)]
         /\ copied(l, c, s).prev[thread_child_anchor(s)] = l.prev[thread_child_anchor(c)]
<1>1. PICK hs, as, hc, ac : hs = thread_child_list(s) /\ as = thread_child_anchor(s)
                         /\ hc = thread_child_list(c) /\ ac = thread_child_anchor(c)
  OBVIOUS
<1>2. {hs, as, hc, ac} \subseteq Node /\ hs # as
  BY <1>1, SlotNodes
<1>3. copied(l, c, s) = [next |-> [l.next EXCEPT ![hs] = l.next[hc], ![as] = l.next[ac]],
                         prev |-> [l.prev EXCEPT ![hs] = l.prev[hc], ![as] = l.prev[ac]]]
  BY <1>1 DEF copied
<1>4. PICK m : m = copied(l, c, s)
  OBVIOUS
<1>5. /\ l.next \in [Node -> Node \cup {NULL}] /\ l.prev \in [Node -> Node \cup {NULL}]
      /\ l.next[hc] \in Node \cup {NULL} /\ l.next[ac] \in Node \cup {NULL}
      /\ l.prev[hc] \in Node \cup {NULL} /\ l.prev[ac] \in Node \cup {NULL}
  BY <1>2 DEF Links
<1>6. /\ m \in Links
      /\ \A x \in Node : x # hs /\ x # as => m.next[x] = l.next[x] /\ m.prev[x] = l.prev[x]
      /\ m.next[hs] = l.next[hc] /\ m.prev[hs] = l.prev[hc]
      /\ m.next[as] = l.next[ac] /\ m.prev[as] = l.prev[ac]
  <2>1. PICK u, v, w, z : u = l.next[hc] /\ v = l.next[ac] /\ w = l.prev[hc] /\ z = l.prev[ac]
    OBVIOUS
  <2>2. /\ u \in Node \cup {NULL} /\ v \in Node \cup {NULL}
        /\ w \in Node \cup {NULL} /\ z \in Node \cup {NULL}
    BY <1>5, <2>1
  <2>3. PICK f, g, f2, g2 : f = l.next /\ g = l.prev /\ f2 = m.next /\ g2 = m.prev
    OBVIOUS
  <2>4. f2 = [f EXCEPT ![hs] = u, ![as] = v]
    BY <1>3, <1>4, <2>1, <2>3
  <2>5. g2 = [g EXCEPT ![hs] = w, ![as] = z]
    BY <1>3, <1>4, <2>1, <2>3
  <2>6. f \in [Node -> Node \cup {NULL}] /\ g \in [Node -> Node \cup {NULL}]
    BY <1>5, <2>3
  <2>7. /\ f2 \in [Node -> Node \cup {NULL}] /\ f2[hs] = u /\ f2[as] = v
        /\ \A x \in Node : x # hs /\ x # as => f2[x] = f[x]
    BY <1>2, <2>2, <2>4, <2>6, ChangedTwice
  <2>8. /\ g2 \in [Node -> Node \cup {NULL}] /\ g2[hs] = w /\ g2[as] = z
        /\ \A x \in Node : x # hs /\ x # as => g2[x] = g[x]
    BY <1>2, <2>2, <2>5, <2>6, ChangedTwice
  <2>9. m = [next |-> m.next, prev |-> m.prev]
    BY <1>3, <1>4
  <2> QED BY <2>1, <2>3, <2>7, <2>8, <2>9 DEF Links
<1> QED BY <1>1, <1>4, <1>6

(* copy_data over a slot: what its anchor was on is broken, and its own list;
   all else stays as it was. *)
LEMMA CopySound ==
  ASSUME Sound(link, owner, broken), Apart(link, owner), NEW c \in Slot, NEW s \in Slot
  PROVE  /\ Sound(copied(link, c, s), overwritten(s), copy_breaks(s))
         /\ Apart(copied(link, c, s), overwritten(s))
         /\ SameContents(link, copied(link, c, s), copy_breaks(s))
         /\ overwritten(s)[thread_child_anchor(s)] = NULL
<1>1. PICK m, hs, as : m = copied(link, c, s) /\ hs = thread_child_list(s)
                    /\ as = thread_child_anchor(s)
  OBVIOUS
<1>2. /\ hs \in ThreadHead /\ hs \in HeadNode /\ hs \in ThreadNode
      /\ as \in Anchor /\ as \notin Entry /\ as \in ThreadNode /\ as \notin HeadNode
  BY <1>1, SlotNodes
<1>3. link \in Links /\ owner \in Owners /\ broken \in SUBSET ThreadHead
  BY DEF Sound
<1>4. /\ m \in Links
      /\ \A x \in Node : x # hs /\ x # as =>
           m.next[x] = link.next[x] /\ m.prev[x] = link.prev[x]
  BY <1>1, <1>3, CopiedIs
<1>5. /\ overwritten(s) \in Owners
      /\ \A x \in Anchor : overwritten(s)[x] = IF x = as THEN NULL ELSE owner[x]
  BY <1>1, <1>2, <1>3 DEF overwritten, Owners
<1>6. /\ copy_breaks(s) \in SUBSET ThreadHead /\ broken \subseteq copy_breaks(s)
      /\ hs \in copy_breaks(s) /\ (owner[as] # NULL => owner[as] \in copy_breaks(s))
  BY <1>1, <1>2, <1>3, NodesDiffer DEF copy_breaks, NonNull, Apart, Kinds
<1>7. PICK o2, b2 : o2 = overwritten(s) /\ b2 = copy_breaks(s)
  OBVIOUS
<1>8. Keeps(link, owner, m, o2, b2)
  <2> SUFFICES ASSUME NEW g \in HeadNode \ b2
               PROVE  /\ Spared(link, owner, m, o2, g) /\ m.prev[g] = link.prev[g]
                      /\ \A x \in Anchor : owner[x] = g => m.prev[x] = link.prev[x]
    BY DEF Keeps
  <2>1. g \in Node /\ g # hs /\ g # as /\ g # NULL /\ owner[as] # g
    BY <1>2, <1>6, <1>7, NodesDiffer DEF Node
  <2>2. \A x \in Anchor : owner[x] = g => x \in Node /\ x # hs /\ x # as
    BY <1>2, <2>1, NodesDiffer DEF Node
  <2>3. \A x \in Anchor : o2[x] = g <=> owner[x] = g
    BY <1>5, <1>7, <2>1
  <2> QED BY <1>4, <2>1, <2>2, <2>3 DEF Spared
<1>9. Sound(m, o2, b2) /\ SameContents(link, m, b2)
  BY <1>4, <1>5, <1>6, <1>7, <1>8, KeepSound
<1>10. Confined(m)
  <2>1. \A x \in ThreadNode : x # hs /\ x # as =>
          m.next[x] = link.next[x] /\ m.prev[x] = link.prev[x]
    BY <1>4, NodesDiffer
  <2>2. PICK hc, ac : hc = thread_child_list(c) /\ ac = thread_child_anchor(c)
    OBVIOUS
  <2>3. /\ hc \in ThreadNode /\ ac \in ThreadNode
        /\ m.next[hs] = link.next[hc] /\ m.prev[hs] = link.prev[hc]
        /\ m.next[as] = link.next[ac] /\ m.prev[as] = link.prev[ac]
    BY <1>1, <1>3, <2>2, CopiedIs, SlotNodes
  <2> QED BY <2>1, <2>3 DEF Confined, Apart
<1>11. Kinds(o2)
  BY <1>5, <1>7 DEF Kinds, Apart
<1>12. Loose(m, o2)
  <2>1. \A e \in Entry : /\ o2[e] = owner[e]
                         /\ m.next[e] = link.next[e] /\ m.prev[e] = link.prev[e]
    BY <1>2, <1>4, <1>5, <1>7, NodesDiffer DEF Node
  <2> QED BY <2>1 DEF Loose, Apart
<1> QED BY <1>1, <1>2, <1>5, <1>7, <1>9, <1>10, <1>11, <1>12 DEF Apart

(* list_add to a broken list writes to whatever its head leads to: that node's
   list is broken too, and no other. *)
LEMMA BrokenAdd ==
  ASSUME NEW l, NEW o, NEW b, Sound(l, o, b), Apart(l, o),
         NEW a \in Anchor, a \notin Entry, o[a] = NULL, NEW h \in b,
         l.next[h] # NULL, NEW b2 \in SUBSET ThreadHead, b \subseteq b2,
         HeadOf(o, l.next[h]) # NULL => HeadOf(o, l.next[h]) \in b2
  PROVE  /\ Sound(list_add(l, a, h), [o EXCEPT ![a] = h], b2)
         /\ SameContents(l, list_add(l, a, h), b2)
<1>1. PICK m, o2, x : m = list_add(l, a, h) /\ o2 = [o EXCEPT ![a] = h] /\ x = l.next[h]
  OBVIOUS
<1>2. l \in Links /\ o \in Owners /\ b \in SUBSET ThreadHead
  BY DEF Sound
<1>3. h \in ThreadNode /\ h \in HeadNode /\ h \in Node /\ a \in Node /\ h # a
  BY <1>2, NodesDiffer DEF Node
<1>4. x \in ThreadNode /\ x \in Node
  BY <1>1, <1>3, NodesDiffer DEF Apart, Confined
<1>5. m = [next |-> [l.next EXCEPT ![a] = x, ![h] = a], prev |-> [l.prev EXCEPT ![x] = a, ![a] = h]]
  BY <1>1 DEF list_add, list_add_between
<1>6. m \in Links /\ o2 \in Owners
  BY <1>1, <1>2, <1>3, <1>4, <1>5 DEF Links, Owners
<1>7. \A y \in Node : /\ y # a /\ y # h => m.next[y] = l.next[y]
                      /\ y # a /\ y # x => m.prev[y] = l.prev[y]
  BY <1>2, <1>3, <1>4, <1>5 DEF Links
<1>8. \A y \in Anchor : o2[y] = IF y = a THEN h ELSE o[y]
  BY <1>1, <1>2 DEF Owners
<1>9. Keeps(l, o, m, o2, b2)
  <2> SUFFICES ASSUME NEW g \in HeadNode \ b2
               PROVE  /\ Spared(l, o, m, o2, g) /\ m.prev[g] = l.prev[g]
                      /\ \A y \in Anchor : o[y] = g => m.prev[y] = l.prev[y]
    BY DEF Keeps
  <2>1. g # h /\ g # a /\ g # NULL /\ g \in Node
    BY NodesDiffer DEF Node
  <2>2. g # x /\ \A y \in Anchor : o[y] = g => y # x
    BY <1>1, <2>1, NodesDiffer DEF HeadOf
  <2>3. \A y \in Anchor : o[y] = g => y # a /\ y # h /\ y \in Node
    BY <2>1, NodesDiffer DEF Node
  <2> QED BY <1>7, <1>8, <2>1, <2>2, <2>3 DEF Spared
<1>10. Sound(m, o2, b2) /\ SameContents(l, m, b2)
  BY <1>6, <1>9, KeepSound
<1> QED BY <1>1, <1>10

\* __list_add among nodes of one kind.
LEMMA AddApart ==
  ASSUME NEW l \in Links, NEW o \in Owners, Apart(l, o), NEW e \in Anchor,
         NEW h \in HeadNode, NEW p \in Node, NEW q \in Node,
         e \in Entry => {h, p, q} \cap ThreadNode = {},
         e \notin Entry => {h, p, q} \subseteq ThreadNode,
         p \in Entry => o[p] # NULL, q \in Entry => o[q] # NULL
  PROVE  Apart(list_add_between(l, e, p, q), [o EXCEPT ![e] = h])
<1>1. PICK m, o2 : m = list_add_between(l, e, p, q) /\ o2 = [o EXCEPT ![e] = h]
  OBVIOUS
<1>2. e \in Node /\ (e \in Entry <=> e \notin ThreadNode)
  BY NodesDiffer DEF Node
<1>3. m = [next |-> [l.next EXCEPT ![e] = q, ![p] = e], prev |-> [l.prev EXCEPT ![q] = e, ![e] = p]]
  BY <1>1 DEF list_add_between
<1>4. \A x \in Node :
        /\ m.next[x] = IF x = p THEN e ELSE IF x = e THEN q ELSE l.next[x]
        /\ m.prev[x] = IF x = e THEN p ELSE IF x = q THEN e ELSE l.prev[x]
  BY <1>2, <1>3 DEF Links
<1>5. \A x \in Anchor : o2[x] = IF x = e THEN h ELSE o[x]
  BY <1>1 DEF Owners
<1>6. Kinds(o2)
  BY <1>2, <1>5, NodesDiffer DEF Kinds, Apart
<1>7. Confined(m)
  <2> SUFFICES ASSUME NEW x \in ThreadNode
               PROVE  /\ m.next[x] \in ThreadNode \cup {NULL}
                      /\ m.prev[x] \in ThreadNode \cup {NULL}
    BY DEF Confined
  <2>1. x \in Node /\ l.next[x] \in ThreadNode \cup {NULL} /\ l.prev[x] \in ThreadNode \cup {NULL}
    BY NodesDiffer DEF Confined, Apart
  <2>2. CASE e \in Entry
    BY <1>2, <1>4, <2>1, <2>2
  <2>3. CASE e \notin Entry
    BY <1>2, <1>4, <2>1, <2>3
  <2> QED BY <2>2, <2>3
<1>8. Loose(m, o2)
  <2> SUFFICES ASSUME NEW x \in Entry, o2[x] = NULL PROVE m.next[x] = NULL /\ m.prev[x] = NULL
    BY DEF Loose
  <2>1. x \in Anchor /\ x \in Node /\ x # e /\ o[x] = NULL
    BY <1>5, NodesDiffer DEF Node
  <2>2. x # p /\ x # q
    BY <2>1
  <2>3. l.next[x] = NULL /\ l.prev[x] = NULL
    BY <2>1 DEF Loose, Apart
  <2> QED BY <1>4, <2>1, <2>2, <2>3
<1> QED BY <1>1, <1>6, <1>7, <1>8 DEF Apart

SameThreads(l, m) ==
  \A x \in ThreadNode : m.next[x] = l.next[x] /\ m.prev[x] = l.prev[x]

\* list_add_tail of a task.
LEMMA TaskAdd ==
  ASSUME NEW l, NEW o, NEW b, Sound(l, o, b), Apart(l, o),
         NEW e \in Entry, o[e] = NULL, NEW h \in ListHead
  PROVE  /\ Adds(l, o, b, e, h, list_add_tail(l, e, h), Append(Contents(l, h), e))
         /\ Apart(list_add_tail(l, e, h), [o EXCEPT ![e] = h])
         /\ SameThreads(l, list_add_tail(l, e, h))
<1>1. l \in Links /\ o \in Owners /\ b \in SUBSET ThreadHead /\ Good(l, o, b)
  BY DEF Sound
<1>2. /\ h \in HeadNode \ b /\ h \in Node /\ h \notin ThreadNode
      /\ e \in Anchor /\ e \in Node /\ e \notin ThreadNode
  BY <1>1, NodesDiffer DEF Node
<1>3. Adds(l, o, b, e, h, list_add_tail(l, e, h), Append(Contents(l, h), e))
  BY <1>2, EndsSound
<1>4. PICK p : p = l.prev[h]
  OBVIOUS
<1>5. p \in Node /\ InList(o, p) /\ HeadOf(o, p) = h
  <2>1. Ring(l, o, h) /\ HeadOf(o, h) = h
    BY <1>1, <1>2 DEF Good, Intact, InList, HeadOf
  <2> QED BY <1>4, <2>1 DEF Ring
<1>6. p \notin ThreadNode /\ (p \in Entry => o[p] # NULL)
  <2>1. CASE p \in HeadNode
    BY <1>2, <1>5, <2>1, NodesDiffer DEF HeadOf
  <2>2. CASE p \notin HeadNode
    <3>1. p \in Anchor /\ o[p] = h
      BY <1>5, <2>2 DEF HeadOf, Node
    <3>2. p \in Entry
      BY <3>1, <1>2, NodesDiffer DEF Apart, Kinds
    <3> QED BY <1>2, <3>1, <3>2, NodesDiffer
  <2> QED BY <2>1, <2>2
<1>7. list_add_tail(l, e, h) = list_add_between(l, e, p, h)
  BY <1>4 DEF list_add_tail
<1>8. Apart(list_add_between(l, e, p, h), [o EXCEPT ![e] = h])
  <2>1. {h, p} \cap ThreadNode = {} /\ h \notin Entry
    BY <1>2, <1>6, NodesDiffer
  <2> QED BY <1>1, <1>2, <1>5, <1>6, <2>1, AddApart
<1>9. SameThreads(l, list_add_between(l, e, p, h))
  BY <1>1, <1>2, <1>5, <1>6, NodesDiffer DEF SameThreads, list_add_between, Links
<1> QED BY <1>3, <1>7, <1>8, <1>9

\* list_del of a task.
LEMMA TaskDel ==
  ASSUME NEW l, NEW o, NEW b, Sound(l, o, b), Apart(l, o),
         NEW e \in Entry, NEW h \in ListHead, o[e] = h
  PROVE  /\ \E i \in 1 .. Len(Contents(l, h)) :
              /\ Contents(l, h)[i] = e
              /\ Becomes(l, list_del(l, e), b, h, RemoveAt(Contents(l, h), i))
         /\ Sound(list_del(l, e), [o EXCEPT ![e] = NULL], b)
         /\ Apart(list_del(l, e), [o EXCEPT ![e] = NULL])
         /\ SameThreads(l, list_del(l, e))
<1>1. l \in Links /\ o \in Owners /\ b \in SUBSET ThreadHead /\ Good(l, o, b)
  BY DEF Sound
<1>2. /\ h \in HeadNode \ b /\ h \in Node /\ h \notin ThreadNode
      /\ e \in Anchor /\ e \in Node /\ e \notin ThreadNode /\ e \notin HeadNode
  BY <1>1, NodesDiffer DEF Node
<1>3. PICK s : s = Contents(l, h)
  OBVIOUS
<1>4. PICK i \in 1 .. Len(s) : s[i] = e
  BY <1>2, <1>3, Place
<1>5. Sound(list_del(l, e), [o EXCEPT ![e] = NULL], b) /\ Becomes(l, list_del(l, e), b, h, RemoveAt(s, i))
  BY <1>2, <1>3, <1>4, DelSound
<1>6. PICK p, q : p = l.prev[e] /\ q = l.next[e]
  OBVIOUS
<1>7. /\ p \in Node /\ InList(o, p) /\ HeadOf(o, p) = h
      /\ q \in Node /\ InList(o, q) /\ HeadOf(o, q) = h
  <2>1. Ring(l, o, e) /\ HeadOf(o, e) = h
    BY <1>1, <1>2, NodesDiffer DEF Good, Intact, InList, HeadOf
  <2> QED BY <1>6, <2>1 DEF Ring
<1>8. ASSUME NEW x \in Node, InList(o, x), HeadOf(o, x) = h
      PROVE  x \notin ThreadNode /\ (x \in Entry => o[x] # NULL)
  <2>1. CASE x \in HeadNode
    BY <1>2, <1>8, <2>1, NodesDiffer DEF HeadOf
  <2>2. CASE x \notin HeadNode
    <3>1. x \in Anchor /\ o[x] = h
      BY <1>8, <2>2 DEF HeadOf, Node
    <3>2. x \in Entry
      BY <3>1, <1>2, NodesDiffer DEF Apart, Kinds
    <3> QED BY <1>2, <3>1, <3>2, NodesDiffer
  <2> QED BY <2>1, <2>2
<1>9. /\ p \notin ThreadNode /\ (p \in Entry => o[p] # NULL)
      /\ q \notin ThreadNode /\ (q \in Entry => o[q] # NULL)
  BY <1>7, <1>8
<1>10. PICK m, o2 : m = list_del(l, e) /\ o2 = [o EXCEPT ![e] = NULL]
  OBVIOUS
<1>11. m = [next |-> [l.next EXCEPT ![p] = q, ![e] = NULL], prev |-> [l.prev EXCEPT ![q] = p, ![e] = NULL]]
  BY <1>6, <1>10 DEF list_del
<1>12. \A x \in Node : /\ m.next[x] = IF x = e THEN NULL ELSE IF x = p THEN q ELSE l.next[x]
                       /\ m.prev[x] = IF x = e THEN NULL ELSE IF x = q THEN p ELSE l.prev[x]
  BY <1>1, <1>2, <1>7, <1>11 DEF Links
<1>13. \A x \in Anchor : o2[x] = IF x = e THEN NULL ELSE o[x]
  BY <1>1, <1>10 DEF Owners
<1>14. SameThreads(l, m)
  BY <1>2, <1>9, <1>12, NodesDiffer DEF SameThreads
<1>15. Kinds(o2)
  BY <1>13 DEF Kinds, Apart
<1>16. Confined(m)
  BY <1>14 DEF Confined, Apart, SameThreads
<1>17. Loose(m, o2)
  <2> SUFFICES ASSUME NEW x \in Entry, o2[x] = NULL PROVE m.next[x] = NULL /\ m.prev[x] = NULL
    BY DEF Loose
  <2>1. x \in Node /\ x \in Anchor
    BY NodesDiffer DEF Node
  <2>2. CASE x = e
    BY <1>12, <2>1, <2>2
  <2>3. CASE x # e
    <3>1. o[x] = NULL /\ x # p /\ x # q
      BY <1>9, <1>13, <2>1, <2>3
    <3>2. l.next[x] = NULL /\ l.prev[x] = NULL
      BY <3>1 DEF Loose, Apart
    <3> QED BY <1>12, <2>1, <2>3, <3>1, <3>2
  <2> QED BY <2>2, <2>3
<1>18. Apart(m, o2)
  BY <1>15, <1>16, <1>17 DEF Apart
<1> QED BY <1>3, <1>4, <1>5, <1>10, <1>14, <1>18

\* The sequences that ImplementsLists compares with TaskLists.
Seqs(l) == [h \in ListHead |-> Contents(l, h)]

LEMMA BecomesSeqs ==
  ASSUME NEW l, NEW m, NEW b \in SUBSET ThreadHead, NEW h \in ListHead, NEW s,
         Becomes(l, m, b, h, s)
  PROVE  Seqs(m) = [Seqs(l) EXCEPT ![h] = s]
BY NodesDiffer DEF Becomes, Seqs

LEMMA SameSeqs ==
  ASSUME NEW l, NEW m, NEW b \in SUBSET ThreadHead, SameContents(l, m, b)
  PROVE  Seqs(m) = Seqs(l)
BY NodesDiffer DEF SameContents, Seqs

\* update_process_state_rr moves a task to the end of the ready queue.
LEMMA MoveSound ==
  ASSUME Sound(link, owner, broken), Apart(link, owner), NEW e \in Entry,
         NEW h \in ListHead, owner[e] = h, make_ready(e)
  PROVE  /\ Sound(link', owner', broken) /\ Apart(link', owner') /\ SameThreads(link, link')
         /\ \E i \in 1 .. Len(Contents(link, h)) :
              /\ Contents(link, h)[i] = e
              /\ Seqs(link') = [[Seqs(link) EXCEPT ![h] = RemoveAt(@, i)]
                                  EXCEPT ![readyqueue] = Append(@, e)]
<1>1. PICK l, o : l = list_del(link, e) /\ o = [owner EXCEPT ![e] = NULL]
  OBVIOUS
<1>2. /\ Sound(l, o, broken) /\ Apart(l, o) /\ SameThreads(link, l)
      /\ \E i \in 1 .. Len(Contents(link, h)) :
           /\ Contents(link, h)[i] = e
           /\ Becomes(link, l, broken, h, RemoveAt(Contents(link, h), i))
  BY <1>1, TaskDel
<1>3. PICK i \in 1 .. Len(Contents(link, h)) :
        /\ Contents(link, h)[i] = e
        /\ Becomes(link, l, broken, h, RemoveAt(Contents(link, h), i))
  BY <1>2
<1>4. readyqueue \in ListHead /\ broken \in SUBSET ThreadHead /\ owner \in Owners /\ e \in Anchor
  BY ListAssumption, NodesDiffer DEF Sound
<1>5. o[e] = NULL /\ [o EXCEPT ![e] = readyqueue] = [owner EXCEPT ![e] = readyqueue]
  BY <1>1, <1>4 DEF Owners
<1>6. link' = list_add_tail(l, e, readyqueue) /\ owner' = [o EXCEPT ![e] = readyqueue]
  BY <1>1, <1>5 DEF make_ready
<1>7. /\ Adds(l, o, broken, e, readyqueue, link', Append(Contents(l, readyqueue), e))
      /\ Apart(link', owner') /\ SameThreads(l, link')
  BY <1>2, <1>4, <1>5, <1>6, TaskAdd
<1>8. Sound(link', owner', broken)
  BY <1>6, <1>7 DEF Adds
<1>9. SameThreads(link, link')
  BY <1>2, <1>7 DEF SameThreads
<1>10. Seqs(link') = [Seqs(l) EXCEPT ![readyqueue] = Append(Contents(l, readyqueue), e)]
  <2>1. PICK m, s : m = link' /\ s = Append(Contents(l, readyqueue), e)
    OBVIOUS
  <2>2. Becomes(l, m, broken, readyqueue, s)
    BY <1>7, <2>1 DEF Adds
  <2>3. Seqs(m) = [Seqs(l) EXCEPT ![readyqueue] = s]
    BY <1>4, <2>2, BecomesSeqs
  <2>4. Seqs(m) = Seqs(link')
    BY <2>1
  <2> QED BY <2>1, <2>3, <2>4
<1>11. Seqs(l) = [Seqs(link) EXCEPT ![h] = RemoveAt(Contents(link, h), i)]
  BY <1>3, <1>4, BecomesSeqs
<1>12. Seqs(link') = [[Seqs(link) EXCEPT ![h] = RemoveAt(@, i)] EXCEPT ![readyqueue] = Append(@, e)]
  BY <1>4, <1>10, <1>11 DEF Seqs
<1> QED BY <1>3, <1>7, <1>8, <1>9, <1>12

\* INIT_LIST_HEAD keeps threads and tasks apart.
LEMMA InitApart ==
  ASSUME NEW l \in Links, NEW o \in Owners, Apart(l, o), NEW h \in ThreadHead
  PROVE  /\ Apart(INIT_LIST_HEAD(l, h), left_behind(o, h))
         /\ INIT_LIST_HEAD(l, h).next[h] = h
         /\ \A x \in Node : x # h => INIT_LIST_HEAD(l, h).next[x] = l.next[x]
<1>1. PICK m, o2 : m = INIT_LIST_HEAD(l, h) /\ o2 = left_behind(o, h)
  OBVIOUS
<1>2. h \in Node /\ h \in ThreadNode /\ h \notin Entry /\ h \notin ListHead
  BY NodesDiffer DEF Node
<1>3. \A x \in Node : /\ m.next[x] = IF x = h THEN h ELSE l.next[x]
                      /\ m.prev[x] = IF x = h THEN h ELSE l.prev[x]
  BY <1>1, <1>2 DEF INIT_LIST_HEAD, Links
<1>4. \A x \in Anchor : o2[x] = IF o[x] = h THEN NULL ELSE o[x]
  BY <1>1 DEF left_behind
<1>5. Kinds(o2)
  BY <1>4 DEF Kinds, Apart
<1>6. Confined(m)
  BY <1>2, <1>3, NodesDiffer DEF Confined, Apart
<1>7. Loose(m, o2)
  <2> SUFFICES ASSUME NEW e \in Entry, o2[e] = NULL PROVE m.next[e] = NULL /\ m.prev[e] = NULL
    BY DEF Loose
  <2>1. e \in Anchor /\ e \in Node /\ e # h
    BY <1>2, NodesDiffer
  <2>2. o[e] # h
    BY <1>2, <2>1, NodesDiffer DEF Kinds, Apart
  <2>3. l.next[e] = NULL /\ l.prev[e] = NULL
    BY <1>4, <2>1, <2>2 DEF Loose, Apart
  <2> QED BY <1>3, <2>1, <2>3
<1> QED BY <1>1, <1>2, <1>3, <1>5, <1>6, <1>7 DEF Apart

\* A head that is not null stays so when a slot is overwritten.
LEMMA CopyKnown ==
  ASSUME NEW l \in Links, NEW T, Known(l, T), NEW c \in Slot, T[c] # NULL, NEW s \in Slot,
         NEW t \in Slot, t = s \/ l.next[thread_child_list(t)] # NULL
  PROVE  copied(l, c, s).next[thread_child_list(t)] # NULL
<1>1. l.next[thread_child_list(c)] # NULL
  BY DEF Known
<1>2. CASE t = s
  BY <1>1, <1>2, CopiedIs
<1>3. CASE t # s
  <2>1. PICK x : x = thread_child_list(t)
    OBVIOUS
  <2>2. x \in Node /\ x # thread_child_list(s) /\ x # thread_child_anchor(s)
    BY <1>3, <2>1, SlotNodes
  <2>3. copied(l, c, s).next[x] = l.next[x]
    BY <2>2, CopiedIs
  <2> QED BY <1>3, <2>1, <2>3
<1> QED BY <1>2, <1>3

(* What every step keeps, apart from the sweep: the lists are sound, tasks and
   threads do not mix, and heads in use are not null. *)
Whole(l, o, b, T) == Sound(l, o, b) /\ Apart(l, o) /\ Known(l, T)

LEMMA CreationFails ==
  ASSUME Whole(link, owner, broken, task), NEW c \in Slot, NEW s \in Slot, creation_fails(c, s)
  PROVE  Whole(link', owner', broken', task') /\ Seqs(link') = Seqs(link)
<1>1. /\ link' = copied(link, c, s) /\ owner' = overwritten(s) /\ broken' = copy_breaks(s)
      /\ task' = task /\ task[c] # NULL
  BY DEF creation_fails, Copies
<1>2. Sound(link, owner, broken) /\ Apart(link, owner) /\ Known(link, task) /\ link \in Links
  BY DEF Whole, Sound
<1>3. Sound(link', owner', broken') /\ Apart(link', owner') /\ SameContents(link, link', broken')
  BY <1>1, <1>2, CopySound
<1>4. Known(link', task')
  <2> SUFFICES ASSUME NEW t \in Slot, task[t] # NULL
               PROVE  /\ task[t].master \in Slot /\ link'.next[thread_child_list(t)] # NULL
                      /\ link'.next[thread_child_list(task[t].master)] # NULL
    BY <1>1, <1>2 DEF Known
  <2>1. /\ task[t].master \in Slot /\ link.next[thread_child_list(t)] # NULL
        /\ link.next[thread_child_list(task[t].master)] # NULL
    BY <1>2 DEF Known
  <2> QED BY <1>1, <1>2, <2>1, CopyKnown
<1>5. Seqs(link') = Seqs(link)
  <2>1. PICK m, b : m = link' /\ b = broken'
    OBVIOUS
  <2>2. b \in SUBSET ThreadHead /\ SameContents(link, m, b)
    BY <1>3, <2>1 DEF Sound
  <2>3. Seqs(m) = Seqs(link)
    BY <2>2, SameSeqs
  <2>4. Seqs(m) = Seqs(link')
    BY <2>1
  <2> QED BY <2>3, <2>4
<1> QED BY <1>3, <1>4, <1>5 DEF Whole

LEMMA Forks ==
  ASSUME Whole(link, owner, broken, task), NEW c \in Slot, NEW s \in Slot, sys_fork(c, s)
  PROVE  Whole(link', owner', broken', task') /\ Seqs(link') = Seqs(link)
<1>1. PICK l, o, b, h : /\ l = copied(link, c, s) /\ o = overwritten(s) /\ b = copy_breaks(s)
                        /\ h = thread_child_list(s)
  OBVIOUS
<1>2. /\ link' = INIT_LIST_HEAD(l, h) /\ owner' = left_behind(o, h) /\ broken' = b \ {h}
      /\ task' = [task EXCEPT ![s] = [master |-> s, thread |-> FALSE, has_threads |-> FALSE]]
      /\ task[c] # NULL
  BY <1>1 DEF sys_fork, Copies
<1>3. Sound(link, owner, broken) /\ Apart(link, owner) /\ Known(link, task) /\ link \in Links
  BY DEF Whole, Sound
<1>4. Sound(l, o, b) /\ Apart(l, o) /\ SameContents(link, l, b)
  BY <1>1, <1>3, CopySound
<1>5. h \in ThreadHead /\ l \in Links /\ o \in Owners /\ b \in SUBSET ThreadHead
  BY <1>1, <1>4, SlotNodes DEF Sound
<1>6. PICK m, o2 : m = INIT_LIST_HEAD(l, h) /\ o2 = left_behind(o, h)
  OBVIOUS
<1>7. Sound(m, o2, b \ {h}) /\ SameContents(l, m, b \cup {h})
  BY <1>4, <1>5, <1>6, InitSound
<1>8. Apart(m, o2) /\ m.next[h] = h /\ \A x \in Node : x # h => m.next[x] = l.next[x]
  BY <1>4, <1>5, <1>6, InitApart
<1>9. Known(m, task')
  <2>1. task' \in Tasks /\ \A t \in Slot : t # s => task'[t] = task[t]
    BY <1>2, <1>3 DEF Known, Tasks
  <2>2. task'[s].master = s
    BY <1>2, <1>3 DEF Known, Tasks
  <2>3. ASSUME NEW t \in Slot, t = s \/ link.next[thread_child_list(t)] # NULL
        PROVE  m.next[thread_child_list(t)] # NULL
    <3>1. CASE t = s
      BY <1>1, <1>5, <1>8, <3>1, NodesDiffer
    <3>2. CASE t # s
      <4>1. l.next[thread_child_list(t)] # NULL
        BY <1>1, <1>2, <1>3, <2>3, CopyKnown
      <4>2. thread_child_list(t) \in Node /\ thread_child_list(t) # h
        BY <1>1, <3>2, SlotNodes
      <4> QED BY <1>8, <4>1, <4>2
    <3> QED BY <3>1, <3>2
  <2>4. ASSUME NEW t \in Slot, task'[t] # NULL
        PROVE  /\ task'[t].master \in Slot /\ m.next[thread_child_list(t)] # NULL
               /\ m.next[thread_child_list(task'[t].master)] # NULL
    <3>1. CASE t = s
      BY <2>2, <2>3, <3>1
    <3>2. CASE t # s
      BY <1>3, <2>1, <2>3, <2>4, <3>2 DEF Known
    <3> QED BY <3>1, <3>2
  <2> QED BY <2>1, <2>4 DEF Known
<1>10. Seqs(m) = Seqs(link)
  <2>1. b \cup {h} \in SUBSET ThreadHead
    BY <1>5
  <2> QED BY <1>4, <1>5, <1>7, <2>1, SameSeqs
<1> QED BY <1>2, <1>6, <1>7, <1>8, <1>9, <1>10 DEF Whole

LEMMA ProcessExits ==
  ASSUME Whole(link, owner, broken, task), NEW c \in Slot, exit_process(c)
  PROVE  Whole(link', owner', broken', task') /\ Seqs(link') = Seqs(link)
<1>1. PICK h : h = thread_child_list(c)
  OBVIOUS
<1>2. /\ link' = INIT_LIST_HEAD(link, h) /\ owner' = left_behind(owner, h)
      /\ broken' = broken \ {h} /\ task' = [task EXCEPT ![c] = NULL]
  BY <1>1 DEF exit_process
<1>3. /\ Sound(link, owner, broken) /\ Apart(link, owner) /\ Known(link, task)
      /\ link \in Links /\ owner \in Owners /\ broken \in SUBSET ThreadHead
  BY DEF Whole, Sound
<1>4. h \in ThreadHead
  BY <1>1, SlotNodes
<1>5. PICK m, o2 : m = INIT_LIST_HEAD(link, h) /\ o2 = left_behind(owner, h)
  OBVIOUS
<1>6. Sound(m, o2, broken \ {h}) /\ SameContents(link, m, broken \cup {h})
  BY <1>3, <1>4, <1>5, InitSound
<1>7. Apart(m, o2) /\ m.next[h] = h /\ \A x \in Node : x # h => m.next[x] = link.next[x]
  BY <1>3, <1>4, <1>5, InitApart
<1>8. Known(m, task')
  <2>1. task' \in Tasks /\ \A t \in Slot : task'[t] # NULL => task'[t] = task[t] /\ task[t] # NULL
    BY <1>2, <1>3 DEF Known, Tasks
  <2>2. ASSUME NEW t \in Slot, link.next[thread_child_list(t)] # NULL
        PROVE  m.next[thread_child_list(t)] # NULL
    <3>1. thread_child_list(t) \in Node /\ h # NULL
      BY <1>4, SlotNodes, NodesDiffer
    <3> QED BY <1>7, <2>2, <3>1
  <2>3. ASSUME NEW t \in Slot, task'[t] # NULL
        PROVE  /\ task'[t].master \in Slot /\ m.next[thread_child_list(t)] # NULL
               /\ m.next[thread_child_list(task'[t].master)] # NULL
    BY <1>3, <2>1, <2>2, <2>3 DEF Known
  <2> QED BY <2>1, <2>3 DEF Known
<1>9. Seqs(m) = Seqs(link)
  <2>1. broken \cup {h} \in SUBSET ThreadHead
    BY <1>3, <1>4
  <2> QED BY <1>6, <2>1, SameSeqs
<1> QED BY <1>2, <1>5, <1>6, <1>7, <1>8, <1>9 DEF Whole

\* list_add, unguarded: to an intact list it is an addition, to a broken one it
\* breaks at most one more.
LEMMA ThreadAdds ==
  ASSUME Whole(link, owner, broken, task), NEW c \in Slot, NEW s \in Slot, threadCreate(c, s)
  PROVE  Whole(link', owner', broken', task') /\ Seqs(link') = Seqs(link)
<1>1. PICK l, o, b, h, a : /\ l = copied(link, c, s) /\ o = overwritten(s) /\ b = copy_breaks(s)
                           /\ h = thread_child_list(task[c].master)
                           /\ a = thread_child_anchor(s)
  OBVIOUS
<1>2. /\ link' = list_add(l, a, h)
      /\ task' = [task EXCEPT ![s] = [master |-> task[c].master, thread |-> TRUE,
                                      has_threads |-> FALSE],
                              ![c].has_threads = @ \/ ~task[c].thread]
      /\ owner' = [owner EXCEPT ![a] = h]
      /\ broken' = (IF h \in b THEN b \cup NonNull({ListOf(l.next[h])}) ELSE b)
      /\ task[c] # NULL /\ task[s] = NULL
  BY <1>1 DEF threadCreate, Copies
<1>3. /\ Sound(link, owner, broken) /\ Apart(link, owner) /\ Known(link, task)
      /\ link \in Links /\ owner \in Owners
  BY DEF Whole, Sound
<1>4. task[c].master \in Slot /\ link.next[thread_child_list(task[c].master)] # NULL
  BY <1>2, <1>3 DEF Known
<1>5. /\ a \in Anchor /\ a \notin Entry /\ a \in Node /\ a \in ThreadNode /\ a \notin HeadNode
      /\ h \in ThreadHead /\ h \in Node /\ h \in HeadNode /\ h \in ThreadNode
  BY <1>1, <1>4, SlotNodes
<1>6. Sound(l, o, b) /\ Apart(l, o) /\ SameContents(link, l, b) /\ o[a] = NULL
  BY <1>1, <1>3, CopySound
<1>7. l \in Links /\ o \in Owners /\ b \in SUBSET ThreadHead
  BY <1>6 DEF Sound
<1>8. l.next[h] # NULL
  BY <1>1, <1>2, <1>3, <1>4, CopyKnown
<1>9. PICK x : x = l.next[h]
  OBVIOUS
<1>10. x \in ThreadNode /\ x \in Node
  BY <1>5, <1>6, <1>8, <1>9, NodesDiffer DEF Apart, Confined
<1>11. owner' = [o EXCEPT ![a] = h]
  BY <1>1, <1>2, <1>3, <1>5 DEF overwritten, Owners
<1>12. PICK m, o2, b2 : m = list_add(l, a, h) /\ o2 = [o EXCEPT ![a] = h] /\ b2 = broken'
  OBVIOUS
<1>13. Apart(m, o2)
  <2>1. m = list_add_between(l, a, h, x)
    BY <1>9, <1>12 DEF list_add
  <2>2. {h, x} \subseteq ThreadNode /\ h \notin Entry /\ x \notin Entry
    BY <1>5, <1>10, NodesDiffer
  <2>3. Apart(list_add_between(l, a, h, x), [o EXCEPT ![a] = h])
    BY <1>5, <1>6, <1>7, <1>10, <2>2, AddApart, SMTT(30)
  <2> QED BY <1>12, <2>1, <2>3
<1>14. Sound(m, o2, b2) /\ Seqs(m) = Seqs(link)
  <2>1. CASE h \in b
    <3>1. b2 = b \cup NonNull({ListOf(x)})
      BY <1>2, <1>9, <1>12, <2>1
    <3>2. ListOf(x) # NULL => ListOf(x) \in ThreadHead
      <4>1. CASE x \in HeadNode
        BY <1>10, <4>1, NodesDiffer DEF ListOf
      <4>2. CASE x \notin HeadNode
        <5>1. x \in Anchor /\ x \notin Entry /\ ListOf(x) = owner[x]
          BY <1>10, <4>2, NodesDiffer DEF ListOf, Node
        <5> QED BY <5>1, <1>3 DEF Apart, Kinds
      <4> QED BY <4>1, <4>2
    <3>3. b2 \in SUBSET ThreadHead /\ b \subseteq b2
      BY <1>7, <3>1, <3>2 DEF NonNull
    <3>4. HeadOf(o, x) # NULL => HeadOf(o, x) \in b2
      <4>1. CASE x \in HeadNode
        BY <3>1, <4>1, NodesDiffer DEF ListOf, HeadOf, NonNull
      <4>2. CASE x \notin HeadNode
        <5>1. x \in Anchor /\ ListOf(x) = owner[x] /\ HeadOf(o, x) = o[x]
          BY <1>10, <4>2 DEF ListOf, HeadOf, Node
        <5>2. o[x] # NULL => o[x] = owner[x]
          BY <1>1, <1>3, <1>5, <5>1 DEF overwritten, Owners
        <5> QED BY <3>1, <5>1, <5>2 DEF NonNull
      <4> QED BY <4>1, <4>2
    <3>5. Sound(m, o2, b2) /\ SameContents(l, m, b2)
      BY <1>5, <1>6, <1>8, <1>9, <1>12, <2>1, <3>3, <3>4, BrokenAdd
    <3> QED BY <1>6, <1>7, <3>3, <3>5, SameSeqs
  <2>2. CASE h \notin b
    <3>1. b2 = b
      BY <1>2, <1>12, <2>2
    <3>2. Adds(l, o, b, a, h, m, <<a>> \o Contents(l, h))
      BY <1>5, <1>6, <1>12, <2>2, EndsSound
    <3>3. Sound(m, o2, b) /\ \A g \in HeadNode \ b : g # h => Contents(m, g) = Contents(l, g)
      BY <1>12, <3>2 DEF Adds, Becomes
    <3>4. Seqs(m) = Seqs(l)
      BY <1>5, <1>7, <3>3, NodesDiffer DEF Seqs
    <3> QED BY <1>6, <1>7, <3>1, <3>3, <3>4, SameSeqs
  <2> QED BY <2>1, <2>2
<1>15. \A y \in Node : m.next[y] = IF y = h THEN a ELSE IF y = a THEN x ELSE l.next[y]
  <2>1. m.next = [l.next EXCEPT ![a] = x, ![h] = a]
    BY <1>9, <1>12 DEF list_add, list_add_between
  <2>2. l.next \in [Node -> Node \cup {NULL}]
    BY <1>7 DEF Links
  <2> QED BY <1>5, <1>10, <2>1, <2>2
<1>16. Known(m, task')
  <2>1. PICK r : r = task[c].master
    OBVIOUS
  <2>2. c # s /\ task \in Tasks /\ r \in Slot /\ h = thread_child_list(r)
    BY <1>1, <1>2, <1>3, <1>4, <2>1 DEF Known
  <2>3. task[c] \in [master : Slot, thread : BOOLEAN, has_threads : BOOLEAN]
    BY <1>2, <2>2 DEF Tasks
  <2>4. PICK T : T = task'
    OBVIOUS
  <2>5. /\ T[s] = [master |-> r, thread |-> TRUE, has_threads |-> FALSE]
        /\ T[c] = [task[c] EXCEPT !.has_threads = @ \/ ~task[c].thread]
        /\ \A t \in Slot : t # s /\ t # c => T[t] = task[t]
        /\ T = [t \in Slot |-> T[t]]
    BY <1>2, <2>1, <2>2, <2>4 DEF Tasks
  <2>6. T[c] \in [master : Slot, thread : BOOLEAN, has_threads : BOOLEAN] /\ T[c].master = r
    BY <2>1, <2>3, <2>5
  <2>7. T[s] \in [master : Slot, thread : BOOLEAN, has_threads : BOOLEAN] /\ T[s].master = r
    BY <2>2, <2>5
  <2>8. \A t \in Slot : t # s /\ t # c =>
          T[t] \in {NULL} \cup [master : Slot, thread : BOOLEAN, has_threads : BOOLEAN]
    BY <2>2, <2>5 DEF Tasks
  <2>9. T \in Tasks
    BY <2>5, <2>6, <2>7, <2>8 DEF Tasks
  <2>10. ASSUME NEW t \in Slot, t = s \/ link.next[thread_child_list(t)] # NULL
         PROVE  m.next[thread_child_list(t)] # NULL
    <3>1. PICK y : y = thread_child_list(t)
      OBVIOUS
    <3>2. l.next[y] # NULL
      BY <1>1, <1>2, <1>3, <2>10, <3>1, CopyKnown
    <3>3. y \in Node /\ y # a /\ a # NULL
      BY <1>5, <3>1, SlotNodes, NodesDiffer
    <3> QED BY <1>15, <3>1, <3>2, <3>3
  <2>11. ASSUME NEW t \in Slot, T[t] # NULL
         PROVE  /\ T[t].master \in Slot /\ m.next[thread_child_list(t)] # NULL
                /\ m.next[thread_child_list(T[t].master)] # NULL
    <3>1. link.next[thread_child_list(c)] # NULL /\ link.next[thread_child_list(r)] # NULL
      BY <1>2, <1>3, <2>1 DEF Known
    <3>2. CASE t = s
      BY <2>2, <2>7, <2>10, <3>1, <3>2
    <3>3. CASE t = c
      BY <2>2, <2>6, <2>10, <3>1, <3>3
    <3>4. CASE t # s /\ t # c
      <4>1. T[t] = task[t]
        BY <2>5, <3>4
      <4>2. /\ task[t].master \in Slot /\ link.next[thread_child_list(t)] # NULL
            /\ link.next[thread_child_list(task[t].master)] # NULL
        BY <1>3, <2>11, <4>1 DEF Known
      <4> QED BY <2>10, <4>1, <4>2
    <3> QED BY <3>2, <3>3, <3>4
  <2>12. Known(m, T)
    BY <2>9, <2>11 DEF Known
  <2> QED BY <2>4, <2>12
<1> QED BY <1>2, <1>11, <1>12, <1>13, <1>14, <1>16 DEF Whole

(* What is left of a sweep: the waiters not yet visited are still on
   getKey_blocked's list, still linked in the order they had when the sweep
   began, and the two cursors stand on the next two of them.  n is read before
   the body moves pos, which is why its value must be known here. *)
SweepInv ==
  /\ pos = NULL => seen = <<>> /\ due = <<>>
  /\ pos # NULL =>
       /\ due \in Seq(Anchor) /\ IsInjective(due) /\ seen \in Seq(Anchor)
       /\ Len(seen) <= Len(due) /\ \A j \in 1 .. Len(seen) : seen[j] = due[j]
       /\ \A j \in Len(seen) + 1 .. Len(due) :
            /\ owner[due[j]] = getKey_blocked
            /\ link.next[due[j]] = At(due, getKey_blocked, j + 1)
       /\ pos = At(due, getKey_blocked, Len(seen) + 1)
       /\ Len(seen) < Len(due) => n = At(due, getKey_blocked, Len(seen) + 2)

Inv == Whole(link, owner, broken, task) /\ SweepInv

\* The entry that the body of the sweep may move is a waiter not yet visited.
LEMMA PosWaits ==
  ASSUME SweepInv, pos \notin {NULL, getKey_blocked}
  PROVE  /\ Len(seen) < Len(due) /\ pos = due[Len(seen) + 1]
         /\ pos \in Anchor /\ owner[pos] = getKey_blocked
<1>1. /\ due \in Seq(Anchor) /\ seen \in Seq(Anchor) /\ Len(seen) <= Len(due)
      /\ \A j \in Len(seen) + 1 .. Len(due) : owner[due[j]] = getKey_blocked
      /\ pos = At(due, getKey_blocked, Len(seen) + 1)
  BY DEF SweepInv
<1>2. Len(seen) + 1 \in 1 .. Len(due) /\ pos = due[Len(seen) + 1]
  BY <1>1 DEF At
<1>3. Len(seen) \in Nat /\ Len(due) \in Nat
  BY <1>1
<1>4. Len(seen) + 1 \in Len(seen) + 1 .. Len(due)
  BY <1>2, <1>3
<1> QED BY <1>1, <1>2, <1>3, <1>4

\* The lists of TaskLists without one entry, which Del and Move are made of.
LEMMA WithoutIs ==
  ASSUME NEW h \in ListHead, NEW i
  PROVE  Lists!Without(h, i) = [Seqs(link) EXCEPT ![h] = RemoveAt(@, i)]
BY DEF Lists!Without, Seqs, RemoveAt, Lists!RemoveAt

\* Moving a task on the links is Move of TaskLists on the sequences.
LEMMA Moves ==
  ASSUME Whole(link, owner, broken, task), NEW e \in Entry, NEW h \in ListHead,
         owner[e] = h, make_ready(e), UNCHANGED <<task, broken>>
  PROVE  Whole(link', owner', broken', task') /\ Lists!Move(e, readyqueue)
<1>1. Sound(link, owner, broken) /\ Apart(link, owner) /\ Known(link, task)
  BY DEF Whole
<1>2. /\ Sound(link', owner', broken) /\ Apart(link', owner') /\ SameThreads(link, link')
      /\ \E i \in 1 .. Len(Contents(link, h)) :
           /\ Contents(link, h)[i] = e
           /\ Seqs(link') = [[Seqs(link) EXCEPT ![h] = RemoveAt(@, i)]
                               EXCEPT ![readyqueue] = Append(@, e)]
  BY <1>1, MoveSound
<1>3. PICK i \in 1 .. Len(Contents(link, h)) :
        /\ Contents(link, h)[i] = e
        /\ Seqs(link') = [[Seqs(link) EXCEPT ![h] = RemoveAt(@, i)]
                            EXCEPT ![readyqueue] = Append(@, e)]
  BY <1>2
<1>4. i \in DOMAIN Contents(link, h)
  <2>1. h \in HeadNode \ broken
    BY <1>1, NodesDiffer DEF Sound
  <2> QED BY <1>1, <2>1, SoundGives
<1>5. Lists!IsAt(e, h, i) /\ i \in DOMAIN [g \in ListHead |-> Contents(link, g)][h]
  BY <1>3, <1>4 DEF Lists!IsAt
<1>6. [g \in ListHead |-> Contents(link', g)]
        = [Lists!Without(h, i) EXCEPT ![readyqueue] = Append(@, e)]
  <2>1. Seqs(link') = [Lists!Without(h, i) EXCEPT ![readyqueue] = Append(@, e)]
    BY <1>3, WithoutIs
  <2> QED BY <2>1 DEF Seqs
<1>7. Lists!Move(e, readyqueue)
  BY <1>5, <1>6, Zenon DEF Lists!Move
<1>8. Known(link', task)
  BY <1>1, <1>2, SlotNodes DEF Known, SameThreads
<1> QED BY <1>1, <1>2, <1>7, <1>8 DEF Whole

\* Every step keeps the lists whole and is a step of TaskLists or none.
LEMMA StepSound ==
  Inv /\ [Next]_vars =>
    /\ Whole(link, owner, broken, task)'
    /\ Lists!Next \/ UNCHANGED Seqs(link)
<1> SUFFICES ASSUME Inv, [Next]_vars
             PROVE  /\ Whole(link', owner', broken', task')
                    /\ Lists!Next \/ Seqs(link') = Seqs(link)
  OBVIOUS
<1>1. /\ Whole(link, owner, broken, task) /\ SweepInv
      /\ Sound(link, owner, broken) /\ Apart(link, owner) /\ Known(link, task)
      /\ owner \in Owners /\ broken \in SUBSET ThreadHead
  BY DEF Inv, Whole, Sound
<1>2. \A h \in ListHead : h \in HeadNode \ broken /\ h # NULL
  BY <1>1, NodesDiffer
<1>3. ASSUME NEW e \in Entry
      PROVE  e \in Anchor /\ owner[e] \in ListHead \cup {NULL} /\ (Lists!Linked(e) <=> owner[e] # NULL)
  <2>1. e \in Anchor /\ owner[e] \in ListHead \cup {NULL} /\ NULL \notin ListHead
    BY <1>1, <1>2, NodesDiffer DEF Apart, Kinds
  <2>2. \A h \in ListHead : owner[e] = h <=>
          \E i \in 1 .. Len(Contents(link, h)) : Contents(link, h)[i] = e
    BY <1>1, <1>2, <2>1, Place
  <2>3. \A h \in ListHead : DOMAIN Contents(link, h) = 1 .. Len(Contents(link, h))
    BY <1>1, <1>2, SoundGives
  <2>4. Lists!Linked(e) <=> \E h \in ListHead : \E i \in DOMAIN Contents(link, h) : Contents(link, h)[i] = e
    BY DEF Lists!Linked, Lists!IsAt
  <2>5. Lists!Linked(e) <=> \E h \in ListHead : owner[e] = h
    BY <2>2, <2>3, <2>4
  <2> QED BY <2>1, <2>5
<1>4. ASSUME NEW e \in Entry, NEW h \in ListHead, AddTail(e, h)
      PROVE  Whole(link', owner', broken', task') /\ Lists!Next
  <2>1. /\ owner[e] = NULL /\ link' = list_add_tail(link, e, h)
        /\ owner' = [owner EXCEPT ![e] = h] /\ broken' = broken /\ task' = task
    BY <1>4 DEF AddTail, threads
  <2>2. /\ Adds(link, owner, broken, e, h, link', Append(Contents(link, h), e))
        /\ Apart(link', owner') /\ SameThreads(link, link')
    BY <1>1, <2>1, TaskAdd
  <2>3. Sound(link', owner', broken) /\ Known(link', task)
    BY <1>1, <2>1, <2>2, SlotNodes DEF Adds, Known, SameThreads
  <2>4. PICK m, s : m = link' /\ s = Append(Contents(link, h), e)
    OBVIOUS
  <2>5. Becomes(link, m, broken, h, s) /\ broken \in SUBSET ThreadHead
    BY <1>1, <2>2, <2>4 DEF Adds
  <2>6. Seqs(m) = [Seqs(link) EXCEPT ![h] = s]
    BY <2>5, BecomesSeqs
  <2>7. Seqs(link') = [Seqs(link) EXCEPT ![h] = Append(@, e)]
    BY <2>4, <2>6 DEF Seqs
  <2>8. Lists!AddLast(e, h)
    BY <1>3, <2>1, <2>7 DEF Lists!AddLast, Seqs
  <2> QED BY <2>1, <2>2, <2>3, <2>8 DEF Lists!Next, Whole
<1>5. ASSUME NEW e \in Entry, Del(e) PROVE Whole(link', owner', broken', task') /\ Lists!Next
  <2>1. /\ owner[e] # NULL /\ link' = list_del(link, e)
        /\ owner' = [owner EXCEPT ![e] = NULL] /\ broken' = broken /\ task' = task
    BY <1>5 DEF Del, threads
  <2>2. PICK h \in ListHead : owner[e] = h
    BY <1>3, <2>1
  <2>3. /\ \E i \in 1 .. Len(Contents(link, h)) :
             /\ Contents(link, h)[i] = e
             /\ Becomes(link, link', broken, h, RemoveAt(Contents(link, h), i))
        /\ Sound(link', owner', broken) /\ Apart(link', owner') /\ SameThreads(link, link')
    BY <1>1, <2>1, <2>2, TaskDel
  <2>4. PICK i \in 1 .. Len(Contents(link, h)) :
          /\ Contents(link, h)[i] = e
          /\ Becomes(link, link', broken, h, RemoveAt(Contents(link, h), i))
    BY <2>3
  <2>5. i \in DOMAIN Contents(link, h)
    BY <1>1, <1>2, SoundGives
  <2>6. PICK m, s : m = link' /\ s = RemoveAt(Contents(link, h), i)
    OBVIOUS
  <2>7. Seqs(m) = [Seqs(link) EXCEPT ![h] = s]
    BY <1>1, <2>4, <2>6, BecomesSeqs
  <2>8. Seqs(link') = [Seqs(link) EXCEPT ![h] = RemoveAt(@, i)]
    BY <2>6, <2>7 DEF Seqs
  <2>9. Lists!Del(e)
    <3>1. Lists!IsAt(e, h, i) /\ i \in DOMAIN [g \in ListHead |-> Contents(link, g)][h]
      BY <2>4, <2>5 DEF Lists!IsAt
    <3>2. [g \in ListHead |-> Contents(link', g)] = Lists!Without(h, i)
      BY <2>8, WithoutIs DEF Seqs
    <3> QED BY <3>1, <3>2, Zenon DEF Lists!Del
  <2>10. Known(link', task)
    BY <1>1, <2>3, SlotNodes DEF Known, SameThreads
  <2> QED BY <2>1, <2>3, <2>9, <2>10 DEF Lists!Next, Whole
<1>6. ASSUME NEW e \in Entry, NEW h \in ListHead, owner[e] = h, make_ready(e),
             UNCHANGED <<task, broken>>
      PROVE  Whole(link', owner', broken', task') /\ Lists!Next
  <2>1. Whole(link', owner', broken', task') /\ Lists!Move(e, readyqueue)
    BY <1>1, <1>6, Moves
  <2> QED BY <2>1, ListAssumption DEF Lists!Next
<1>7. CASE WakeFirst
  <2>1. PICK e : e = link.next[getKey_blocked]
    OBVIOUS
  <2>2. e # getKey_blocked /\ make_ready(e) /\ UNCHANGED <<task, broken>>
    BY <1>7, <2>1 DEF WakeFirst, list_first, list_empty, threads
  <2>3. getKey_blocked \in ListHead
    BY ListAssumption
  <2>4. e \in Anchor /\ owner[e] = getKey_blocked
    BY <1>1, <1>2, <2>1, <2>2, <2>3, FirstIs
  <2>5. e \in Entry
    BY <1>1, <2>3, <2>4, NodesDiffer DEF Apart, Kinds
  <2> QED BY <1>6, <2>2, <2>3, <2>4, <2>5
<1>8. CASE SweepTurn
  <2>1. UNCHANGED <<task, broken>>
    BY <1>8 DEF SweepTurn, threads
  <2>2. CASE UNCHANGED <<link, owner>>
    BY <1>1, <2>1, <2>2
  <2>3. CASE make_ready(pos)
    <3>1. pos \in Anchor /\ owner[pos] = getKey_blocked /\ getKey_blocked \in ListHead
      BY <1>1, <1>8, PosWaits, ListAssumption DEF SweepTurn
    <3>2. pos \in Entry
      BY <1>1, <3>1, NodesDiffer DEF Apart, Kinds
    <3> QED BY <1>6, <2>1, <2>3, <3>1, <3>2
  <2> QED BY <1>8, <2>2, <2>3 DEF SweepTurn
<1>9. CASE SweepStart \/ SweepEnd \/ UNCHANGED vars
  BY <1>1, <1>9 DEF SweepStart, SweepEnd, vars, threads
<1>10. ASSUME NEW c \in Slot, NEW s \in Slot,
              creation_fails(c, s) \/ sys_fork(c, s) \/ threadCreate(c, s)
       PROVE  Whole(link', owner', broken', task') /\ Seqs(link') = Seqs(link)
  BY <1>1, <1>10, CreationFails, Forks, ThreadAdds
<1>11. ASSUME NEW c \in Slot, exit_thread(c)
       PROVE  Whole(link', owner', broken', task') /\ Seqs(link') = Seqs(link)
  <2>1. link' = link /\ owner' = owner /\ broken' = broken /\ task' = [task EXCEPT ![c] = NULL]
    BY <1>11 DEF exit_thread
  <2>2. task' \in Tasks /\ \A t \in Slot : task'[t] # NULL => task'[t] = task[t] /\ task[t] # NULL
    BY <1>1, <2>1 DEF Known, Tasks
  <2>3. Known(link, task')
    BY <1>1, <2>2 DEF Known
  <2> QED BY <1>1, <2>1, <2>3 DEF Whole
<1>12. ASSUME NEW c \in Slot, exit_process(c)
       PROVE  Whole(link', owner', broken', task') /\ Seqs(link') = Seqs(link)
  BY <1>1, <1>12, ProcessExits
<1>13. CASE TaskStep
  BY <1>4, <1>5, <1>7, <1>8, <1>9, <1>13 DEF TaskStep
<1>14. CASE CreateStep \/ ExitStep
  BY <1>10, <1>11, <1>12, <1>14 DEF CreateStep, ExitStep
<1> QED BY <1>9, <1>13, <1>14 DEF Next

\* Moving one waiter leaves the links of those behind it alone.
LEMMA MoveKeepsNext ==
  ASSUME Sound(link, owner, broken), NEW e \in Anchor, owner[e] = getKey_blocked, make_ready(e),
         NEW x \in Anchor, owner[x] = getKey_blocked, x # e, link.next[x] # e
  PROVE  link'.next[x] = link.next[x] /\ owner'[x] = getKey_blocked
<1>1. PICK l, o : l = list_del(link, e) /\ o = [owner EXCEPT ![e] = NULL]
  OBVIOUS
<1>2. /\ link \in Links /\ owner \in Owners /\ Good(link, owner, broken) /\ broken \in SUBSET ThreadHead
      /\ e \in Node /\ x \in Node /\ readyqueue \in Node
      /\ readyqueue \in ListHead /\ getKey_blocked \in ListHead
  BY ListAssumption, NodesDiffer DEF Sound, Node
<1>3. owner[e] # NULL /\ owner[e] \notin broken
  BY <1>2, NodesDiffer
<1>4. l \in Links /\ o \in Owners /\ Good(l, o, broken)
  BY <1>1, <1>2, <1>3, DelKeeps
<1>5. link.prev[e] \in Node /\ link.next[link.prev[e]] = e
  <2>1. Ring(link, owner, e)
    BY <1>2, <1>3, NodesDiffer DEF Good, Intact, InList, HeadOf
  <2> QED BY <2>1 DEF Ring
<1>6. l.next[x] = link.next[x]
  BY <1>1, <1>2, <1>5 DEF list_del, Links
<1>7. o[x] = getKey_blocked /\ owner' = [owner EXCEPT ![e] = readyqueue]
  BY <1>1, <1>2 DEF make_ready, Owners
<1>8. link' = list_add_tail(l, e, readyqueue)
  BY <1>1 DEF make_ready
<1>9. /\ l.prev[readyqueue] \in Node /\ HeadOf(o, l.prev[readyqueue]) = readyqueue
  <2>1. Intact(o, broken, readyqueue) /\ HeadOf(o, readyqueue) = readyqueue
    BY <1>2, NodesDiffer DEF Intact, InList, HeadOf
  <2> QED BY <1>2, <1>4, <2>1 DEF Good, Ring
<1>10. HeadOf(o, x) = getKey_blocked
  BY <1>7, NodesDiffer DEF HeadOf
<1>11. x # l.prev[readyqueue]
  BY <1>9, <1>10, NodesDiffer
<1>12. link'.next[x] = l.next[x]
  BY <1>2, <1>4, <1>8, <1>11 DEF list_add_tail, list_add_between, Links
<1> QED BY <1>2, <1>6, <1>7, <1>12 DEF Owners

\* The turns of the sweep keep the saved cursor on the next waiter.
LEMMA StepSweep == Inv /\ [Next]_vars => SweepInv'
<1> SUFFICES ASSUME Inv, [Next]_vars PROVE SweepInv'
  OBVIOUS
<1> DEFINE gk == getKey_blocked
<1>1. /\ Sound(link, owner, broken) /\ broken \in SUBSET ThreadHead /\ SweepInv
      /\ gk \in HeadNode \ broken /\ gk # NULL
  BY ListAssumption, NodesDiffer DEF Inv, Whole, Sound
<1>2. CASE pos = NULL /\ UNCHANGED <<pos, seen, due>>
  BY <1>1, <1>2 DEF SweepInv
<1>3. CASE SweepStart
  <2> DEFINE s == Contents(link, gk)
  <2>1. Chain(link, owner, gk, s) /\ Len(s) \in Nat /\ s \in Seq(Anchor)
    BY <1>1, SoundGives
  <2>2. link.next[gk] = At(s, gk, 1)
    BY <1>1, FirstIs
  <2>3. /\ pos' = At(s, gk, 1) /\ n' = link.next[At(s, gk, 1)] /\ seen' = <<>> /\ due' = s
        /\ link' = link /\ owner' = owner
    BY <1>1, <1>3, <2>2 DEF SweepStart, list_first
  <2> HIDE DEF s
  <2>4. /\ \A k \in 0 .. Len(s) : link.next[At(s, gk, k)] = At(s, gk, k + 1)
        /\ \A k \in 1 .. Len(s) : s[k] \in Anchor /\ owner[s[k]] = gk /\ At(s, gk, k) = s[k]
    BY <2>1 DEF Chain, Follows, At
  <2>5. \A j \in 1 .. Len(s) : owner[s[j]] = gk /\ link.next[s[j]] = At(s, gk, j + 1)
    BY <2>1, <2>4
  <2>6. 0 < Len(s) => n' = At(s, gk, 2)
    <3>1. ASSUME 0 < Len(s) PROVE 1 \in 0 .. Len(s) /\ 1 + 1 = 2
      BY <3>1, <2>1
    <3> QED BY <3>1, <2>3, <2>4
  <2>7. pos' # NULL
    BY <2>1, <2>3, <2>4, <1>1, NodesDiffer DEF At
  <2>8. seen' \in Seq(Anchor) /\ Len(seen') = 0 /\ 0 + 1 = 1 /\ 0 + 2 = 2
    BY <2>3
  <2>9. IsInjective(s) /\ Len(seen') <= Len(s) /\ \A j \in 1 .. Len(seen') : seen'[j] = s[j]
    BY <2>1, <2>8 DEF Chain
  <2>10. \A j \in Len(seen') + 1 .. Len(s) : owner[s[j]] = gk /\ link.next[s[j]] = At(s, gk, j + 1)
    BY <2>5, <2>8
  <2>11. pos' = At(s, gk, Len(seen') + 1) /\ (Len(seen') < Len(s) => n' = At(s, gk, Len(seen') + 2))
    BY <2>3, <2>6, <2>8
  <2> HIDE DEF gk
  <2> QED BY <2>1, <2>3, <2>7, <2>8, <2>9, <2>10, <2>11 DEF SweepInv, gk
<1>4. CASE SweepTurn
  <2> DEFINE c == Len(seen)
  <2>1. pos \notin {NULL, gk}
    BY <1>4 DEF SweepTurn
  <2>2. c < Len(due) /\ pos = due[c + 1] /\ pos \in Anchor /\ owner[pos] = gk
    BY <1>1, <2>1, PosWaits
  <2>3. /\ due \in Seq(Anchor) /\ IsInjective(due) /\ seen \in Seq(Anchor)
        /\ \A j \in 1 .. c : seen[j] = due[j]
        /\ \A j \in c + 1 .. Len(due) :
             owner[due[j]] = gk /\ link.next[due[j]] = At(due, gk, j + 1)
        /\ n = At(due, gk, c + 2)
    BY <1>1, <2>1, <2>2 DEF SweepInv
  <2>4. c \in Nat /\ Len(due) \in Nat /\ \A j \in 1 .. Len(due) : due[j] \in Anchor /\ due[j] # gk
    BY <1>1, <2>3, NodesDiffer
  <2>5. \A j, k \in 1 .. Len(due) : due[j] = due[k] => j = k
    BY <2>3 DEF IsInjective
  <2>6. ASSUME NEW j \in c + 2 .. Len(due)
        PROVE  owner'[due[j]] = gk /\ link'.next[due[j]] = At(due, gk, j + 1)
    <3>1. /\ j \in c + 1 .. Len(due) /\ j \in 1 .. Len(due) /\ j # c + 1
          /\ c + 1 \in 1 .. Len(due) /\ j + 1 # c + 1
      BY <2>2, <2>4
    <3>2. owner[due[j]] = gk /\ link.next[due[j]] = At(due, gk, j + 1) /\ due[j] \in Anchor
      BY <2>3, <2>4, <3>1
    <3>3. due[j] # pos
      BY <2>2, <2>5, <3>1
    <3>4. At(due, gk, j + 1) # pos
      BY <2>1, <2>2, <2>5, <3>1 DEF At
    <3>5. CASE UNCHANGED <<link, owner>>
      BY <3>2, <3>5
    <3>6. CASE make_ready(pos)
      <4>1. link'.next[due[j]] = link.next[due[j]] /\ owner'[due[j]] = gk
        BY <1>1, <2>2, <3>2, <3>3, <3>4, <3>6, MoveKeepsNext
      <4> QED BY <3>2, <4>1
    <3> QED BY <1>4, <3>5, <3>6 DEF SweepTurn
  <2>7. pos' = n /\ n' = link'.next[n] /\ due' = due /\ seen' = Append(seen, pos)
    BY <1>4, <2>2, <2>4 DEF SweepTurn, Advance
  <2>8. seen' \in Seq(Anchor) /\ Len(seen') = c + 1 /\ \A j \in 1 .. c + 1 : seen'[j] = due[j]
    <3>1. /\ seen' \in Seq(Anchor) /\ Len(seen') = c + 1 /\ seen'[c + 1] = pos
          /\ \A j \in 1 .. c : seen'[j] = seen[j]
      BY <2>2, <2>3, <2>7
    <3>2. \A j \in 1 .. c + 1 : j = c + 1 \/ j \in 1 .. c
      BY <2>4
    <3> QED BY <2>2, <2>3, <3>1, <3>2
  <2>9. c + 1 < Len(due) => n' = At(due, gk, c + 3)
    <3>1. SUFFICES ASSUME c + 1 < Len(due) PROVE n' = At(due, gk, c + 3)
      OBVIOUS
    <3>2. c + 2 \in c + 2 .. Len(due) /\ c + 2 \in 1 .. Len(due) /\ c + 2 + 1 = c + 3
      BY <3>1, <2>4
    <3>3. n = due[c + 2]
      BY <2>3, <3>2 DEF At
    <3> QED BY <2>6, <2>7, <3>2, <3>3
  <2>10. n # NULL
    BY <2>3, <2>4, <1>1, NodesDiffer DEF At
  <2>11. c + 1 + 1 = c + 2 /\ c + 1 + 2 = c + 3 /\ c + 1 <= Len(due)
    BY <2>2, <2>4
  <2> HIDE DEF c, gk
  <2> QED BY <2>3, <2>6, <2>7, <2>8, <2>9, <2>10, <2>11 DEF SweepInv, gk
<1>5. CASE SweepEnd
  BY <1>5 DEF SweepEnd, SweepInv
<1>6. CASE UNCHANGED vars
  BY <1>1, <1>6 DEF vars, SweepInv
<1>7. CASE \E e \in Entry : Del(e) \/ \E h \in ListHead : AddTail(e, h)
  BY <1>2, <1>7 DEF AddTail, Del, Quiet, sweep
<1>8. CASE WakeFirst
  BY <1>2, <1>8 DEF WakeFirst, Quiet, sweep
<1>9. CASE CreateStep
  BY <1>2, <1>9 DEF CreateStep, creation_fails, sys_fork, threadCreate, Copies, Quiet, sweep
<1>10. CASE ExitStep
  BY <1>2, <1>10 DEF ExitStep, exit_thread, exit_process, Quiet, sweep
<1>11. CASE TaskStep
  BY <1>3, <1>4, <1>5, <1>7, <1>8, <1>11 DEF TaskStep
<1> QED BY <1>6, <1>9, <1>10, <1>11 DEF Next

\* The heads that the kernel has initialised are empty lists.
LEMMA InitInv == Init => Inv /\ Seqs(link) = [h \in ListHead |-> <<>>]
<1> SUFFICES ASSUME Init PROVE Inv /\ Seqs(link) = [h \in ListHead |-> <<>>]
  OBVIOUS
<1> DEFINE H == ListHead \cup {thread_child_list(task1)}
           L == [h \in HeadNode |-> <<>>]
<1>1. /\ task1 \in Slot /\ thread_child_list(task1) \in ThreadHead
      /\ thread_child_list(task1) \in ThreadNode
      /\ H \subseteq HeadNode /\ H \subseteq Node /\ H \cap Anchor = {}
  BY SlotNodes, ListAssumption, NodesDiffer DEF Node
<1>2. /\ \A x \in Node : /\ link.next[x] = IF x \in H THEN x ELSE NULL
                         /\ link.prev[x] = IF x \in H THEN x ELSE NULL
      /\ link \in Links
  BY <1>1 DEF Init, Links
<1>3. /\ owner \in Owners /\ \A x \in Anchor : owner[x] = NULL
      /\ broken = ThreadHead \ {thread_child_list(task1)} /\ broken \in SUBSET ThreadHead
  BY DEF Init, Owners
<1>4. HeadNode \ broken = H
  BY <1>1, <1>3, NodesDiffer
<1> HIDE DEF H
<1>5. Good(link, owner, broken)
  <2> SUFFICES ASSUME NEW x \in Node, Intact(owner, broken, x) PROVE Ring(link, owner, x)
    BY DEF Good
  <2>1. x \in H
    <3>1. x \in HeadNode
      BY <1>3 DEF Intact, InList, Node
    <3> QED BY <1>4, <3>1 DEF Intact, HeadOf
  <2> QED BY <1>1, <1>2, <2>1 DEF Ring, InList, HeadOf
<1>6. ASSUME NEW h \in HeadNode \ broken PROVE Chain(link, owner, h, L[h])
  <2>1. link.next[h] = h /\ \A x \in Anchor : owner[x] # h
    BY <1>1, <1>2, <1>3, <1>4, NodesDiffer
  <2>2. <<>> \in Seq(Anchor) /\ Len(<<>>) = 0 /\ \A k : At(<<>>, h, k) = h
    BY DEF At
  <2>3. Follows(link, h, <<>>)
    BY <2>1, <2>2 DEF Follows
  <2>4. IsInjective(<<>>)
    BY DEF IsInjective
  <2>5. Chain(link, owner, h, <<>>)
    BY <2>1, <2>2, <2>3, <2>4 DEF Chain
  <2> QED BY <2>5
<1> HIDE DEF L
<1>7. Sound(link, owner, broken) /\ \A h \in HeadNode \ broken : Contents(link, h) = L[h]
  BY <1>2, <1>3, <1>5, <1>6, ChainsSound
<1>8. Seqs(link) = [h \in ListHead |-> <<>>]
  <2>1. \A h \in ListHead : h \in HeadNode \ broken /\ L[h] = <<>>
    BY <1>3, NodesDiffer DEF L
  <2> QED BY <1>7, <2>1 DEF Seqs
<1>9. Apart(link, owner)
  <2>1. Kinds(owner)
    BY <1>3 DEF Kinds
  <2>2. ThreadNode \subseteq Node /\ Entry \subseteq Node /\ Entry \cap H = {}
    BY <1>1, NodesDiffer
  <2>3. Confined(link)
    BY <1>2, <2>2 DEF Confined
  <2>4. Loose(link, owner)
    BY <1>2, <2>2 DEF Loose
  <2> QED BY <2>1, <2>3, <2>4 DEF Apart
<1>10. Known(link, task)
  <2>1. /\ task \in Tasks /\ task[task1] = [master |-> task1, thread |-> FALSE, has_threads |-> FALSE]
        /\ \A s \in Slot : s # task1 => task[s] = NULL
    BY <1>1 DEF Init, Tasks
  <2>2. link.next[thread_child_list(task1)] # NULL
    <3>1. thread_child_list(task1) \in H /\ NULL \notin HeadNode
      BY NodesDiffer DEF H
    <3> QED BY <1>1, <1>2, <3>1
  <2>3. ASSUME NEW s \in Slot, task[s] # NULL PROVE s = task1 /\ task[s].master = task1
    BY <2>1, <2>3
  <2> QED BY <1>1, <2>1, <2>2, <2>3 DEF Known
<1>11. SweepInv
  BY DEF Init, SweepInv
<1> QED BY <1>7, <1>8, <1>9, <1>10, <1>11 DEF Inv, Whole

\* Every use of list.c, every call and every turn of the sweep keeps Inv.
LEMMA StepInv == Inv /\ [Next]_vars => Inv'
BY StepSound, StepSweep DEF Inv

(* Whatever tasks the kernel adds, deletes and moves, and however it moves them
   while a timeout sweep is under way, next and prev of list.c agree on every
   list of tasks, all of it is found from its head, and a task on no list has
   no links.  For a list of threads, to which list_add adds anchors without
   asking whether they are on one, the same is true until copy_data overwrites
   its head or an anchor on it, or an addition to such a list writes to it. *)
THEOREM LinksAlwaysAgree == Spec => []WellLinked
<1>1. Inv => WellLinked
  <2> SUFFICES ASSUME Inv PROVE WellLinked
    OBVIOUS
  <2>1. /\ Sound(link, owner, broken) /\ Apart(link, owner)
        /\ Good(link, owner, broken) /\ owner \in Owners
    BY DEF Inv, Whole, Sound
  <2>2. \A x : (IsLinked(x) <=> InList(owner, x)) /\ ListOf(x) = HeadOf(owner, x)
    BY DEF IsLinked, InList, ListOf, HeadOf
  <2>3. ASSUME NEW x \in Node, IsLinked(x) /\ ListOf(x) \notin broken
        PROVE  /\ link.next[x] \in Node /\ link.prev[link.next[x]] = x
               /\ link.prev[x] \in Node /\ link.next[link.prev[x]] = x
               /\ IsLinked(link.next[x]) /\ ListOf(link.next[x]) = ListOf(x)
               /\ IsLinked(link.prev[x]) /\ ListOf(link.prev[x]) = ListOf(x)
    BY <2>1, <2>2, <2>3 DEF Good, Intact, Ring
  <2>4. ASSUME NEW x \in Anchor, IsLinked(x) /\ ListOf(x) \notin broken
        PROVE  IsAmong(x, Contents(link, owner[x]))
    <3>1. owner[x] \in HeadNode \ broken
      BY <2>1, <2>4, NodesDiffer DEF IsLinked, ListOf, Owners
    <3>2. PICK s : s = Contents(link, owner[x])
      OBVIOUS
    <3>3. s \in Seq(Anchor) /\ \E i \in 1 .. Len(s) : s[i] = x
      BY <2>1, <3>1, <3>2, SoundGives DEF Chain
    <3>4. IsAmong(x, s)
      BY <3>3 DEF IsAmong
    <3> QED BY <3>2, <3>4
  <2>5. \A e \in Entry : owner[e] = NULL => link.next[e] = NULL /\ link.prev[e] = NULL
    BY <2>1 DEF Apart, Loose
  <2> QED BY <2>3, <2>4, <2>5 DEF WellLinked
<1> QED BY <1>1, InitInv, StepInv, PTL DEF Spec

(* list.c does to its rings of tasks exactly what TaskLists says of sequences:
   one entry put at the end, one taken out of wherever it stands, one moved to
   the end of another list; nothing else happens to any of them, and nothing at
   all when threads and processes are created and end. *)
THEOREM RingsAreSequences == Spec => ImplementsLists
<1>1. Init => Lists!Init
  BY InitInv DEF Lists!Init, Seqs
<1>2. Inv /\ [Next]_vars => [Lists!Next]_([h \in ListHead |-> Contents(link, h)])
  BY StepSound DEF Seqs
<1> QED BY <1>1, <1>2, InitInv, StepInv, PTL DEF Spec, ImplementsLists, Lists!Spec

(* The sweep of list_for_each_safe visits every waiter once and in order,
   although its body moves the one it stands on to the ready queue: the saved
   cursor n is never the entry that is moved. *)
THEOREM SweepVisitsEveryWaiter == Spec => []SweepVisitsAll
<1>1. Inv => SweepVisitsAll
  <2> SUFFICES ASSUME SweepInv PROVE SweepVisitsAll
    BY DEF Inv
  <2>1. CASE pos = NULL
    <3>1. seen = <<>> /\ due = <<>>
      BY <2>1 DEF SweepInv
    <3> QED BY <2>1, <3>1, NodesDiffer DEF SweepVisitsAll
  <2>2. CASE pos # NULL
    <3>1. /\ due \in Seq(Anchor) /\ seen \in Seq(Anchor) /\ Len(seen) <= Len(due)
          /\ \A j \in 1 .. Len(seen) : seen[j] = due[j]
          /\ pos = At(due, getKey_blocked, Len(seen) + 1)
      BY <2>2 DEF SweepInv
    <3>2. pos = getKey_blocked => Len(seen) = Len(due)
      <4>1. \A j \in 1 .. Len(due) : due[j] # getKey_blocked
        BY <3>1, NodesDiffer
      <4> QED BY <3>1, <4>1 DEF At
    <3>3. seen = SubSeq(due, 1, Len(seen))
      <4>1. /\ SubSeq(due, 1, Len(seen)) \in Seq(Anchor)
            /\ Len(SubSeq(due, 1, Len(seen))) = Len(seen)
            /\ \A j \in 1 .. Len(seen) : SubSeq(due, 1, Len(seen))[j] = due[j]
        BY <3>1
      <4>2. PICK u : u = SubSeq(due, 1, Len(seen))
        OBVIOUS
      <4>3. u \in Seq(Anchor) /\ Len(u) = Len(seen) /\ \A j \in 1 .. Len(seen) : seen[j] = u[j]
        BY <3>1, <4>1, <4>2
      <4>4. seen = u
        BY <3>1, <4>3, SeqEqual
      <4> QED BY <4>2, <4>4
    <3>4. pos = getKey_blocked => seen = due
      BY <3>1, <3>2, SeqEqual
    <3> QED BY <3>1, <3>3, <3>4 DEF SweepVisitsAll
  <2> QED BY <2>1, <2>2
<1> QED BY <1>1, InitInv, StepInv, PTL DEF Spec

=============================================================================
