--------------------------- MODULE ListHeadProofs ---------------------------
(***************************************************************************)
(* The lists of list.h, for any number of heads and of nodes: what the     *)
(* pointers say is a sequence of nodes for every head.  The invariant is   *)
(* about Walks, the sequences a list_for_each yields: their places, Spot,  *)
(* are the ring that the pointers next and prev go round.  One insertion   *)
(* or removal moves the places behind it by one; the operations of list.h  *)
(* are made of these.  While task_create inserts a node, the memory is the *)
(* one before, with a node that is on no list, until the third store, and  *)
(* from then on the one after, but for its last store.                     *)
(***************************************************************************)
EXTENDS ListHead, QueuesTheorems, SequenceTheorems

---------------------------------------------------------------------------
(* Sequences with an element more or less.                                 *)

\* The sequence s with e behind its first i elements, and without element i.
Inserted(s, i, e) ==
    [k \in 1..Len(s)+1 |-> IF k <= i THEN s[k] ELSE IF k = i + 1 THEN e ELSE s[k-1]]
Deleted(s, i) == [k \in 1..Len(s)-1 |-> IF k < i THEN s[k] ELSE s[k+1]]

HasInserted(T, q, s, i, e) ==
    /\ q \in Seq(T) /\ Len(q) = Len(s) + 1 /\ DOMAIN q = 1..Len(s)+1
    /\ \A k \in 1..i : q[k] = s[k]
    /\ q[i + 1] = e
    /\ \A k \in i+2..Len(s)+1 : q[k] = s[k-1]

LEMMA InsertedIs ==
    ASSUME NEW T, NEW s \in Seq(T), NEW i \in 0..Len(s), NEW e \in T
    PROVE  HasInserted(T, Inserted(s, i, e), s, i, e)
<1>1. Len(s) \in Nat /\ \A k \in 1..Len(s) : s[k] \in T
    OBVIOUS
<1>2. Inserted(s, i, e) \in [1..Len(s)+1 -> T]
    BY <1>1 DEF Inserted
<1> QED
    BY <1>1, <1>2 DEF Inserted, HasInserted

LEMMA InsertedBehind ==
    ASSUME NEW T, NEW s \in Seq(T), NEW i \in 0..Len(s), NEW e \in T
    PROVE  \A k \in i+1..Len(s) : Inserted(s, i, e)[k+1] = s[k]
BY DEF Inserted

LEMMA InsertedRange ==
    ASSUME NEW T, NEW s \in Seq(T), NEW i \in 0..Len(s), NEW e \in T
    PROVE  Range(Inserted(s, i, e)) = Range(s) \cup {e}
<1> DEFINE q == Inserted(s, i, e)
<1>1. /\ DOMAIN q = 1..Len(s)+1 /\ q[i + 1] = e
      /\ \A k \in 1..i : q[k] = s[k]
      /\ \A k \in i+2..Len(s)+1 : q[k] = s[k-1]
    <2>1. HasInserted(T, q, s, i, e)
        BY InsertedIs
    <2> QED
        BY <2>1 DEF HasInserted
<1>2. Len(s) \in Nat /\ DOMAIN s = 1..Len(s)
    OBVIOUS
<1> HIDE DEF q
<1>3. ASSUME NEW k \in 1..Len(s)+1
      PROVE  q[k] = e \/ \E j \in 1..Len(s) : q[k] = s[j]
    <2>1. CASE k \in 1..i
        BY <1>1, <1>2, <2>1
    <2>2. CASE k \in i+2..Len(s)+1
        BY <1>1, <1>2, <2>2
    <2> QED
        BY <1>1, <1>2, <2>1, <2>2
<1>4. ASSUME NEW j \in 1..Len(s)
      PROVE  \E k \in 1..Len(s)+1 : q[k] = s[j]
    <2>1. CASE j <= i
        <3>1. j \in 1..i /\ j \in 1..Len(s)+1
            BY <1>2, <2>1
        <3> QED
            BY <1>1, <3>1
    <2>2. CASE j > i
        <3>1. j + 1 \in i+2..Len(s)+1 /\ j + 1 \in 1..Len(s)+1 /\ j + 1 - 1 = j
            BY <1>2, <2>2
        <3>2. q[j + 1] = s[j]
            BY <1>1, <3>1
        <3> QED
            BY <3>1, <3>2
    <2> QED
        BY <2>1, <2>2
<1>5. i + 1 \in 1..Len(s)+1
    BY <1>2
<1>6. q[i + 1] \in Range(q) /\ \A k \in 1..Len(s)+1 : q[k] \in Range(q)
    BY <1>1, <1>5 DEF Range
<1>7. Range(s) \subseteq Range(q)
    BY <1>2, <1>4, <1>6 DEF Range
<1>8. Range(q) \subseteq Range(s) \cup {e}
    BY <1>1, <1>2, <1>3 DEF Range
<1>9. Range(q) = Range(s) \cup {e}
    BY <1>1, <1>6, <1>7, <1>8
<1> QED
    BY <1>9 DEF q

LEMMA InsertedOnce ==
    ASSUME NEW T, NEW s \in Seq(T), IsInjective(s), NEW i \in 0..Len(s),
           NEW e \in T, e \notin Range(s)
    PROVE  IsInjective(Inserted(s, i, e))
<1> DEFINE q == Inserted(s, i, e)
           n == Len(s)
<1>1. /\ DOMAIN q = 1..n+1 /\ q[i + 1] = e
      /\ \A k \in 1..i : q[k] = s[k]
      /\ \A k \in i+2..n+1 : q[k] = s[k-1]
    <2>1. HasInserted(T, q, s, i, e)
        BY InsertedIs
    <2> QED
        BY <2>1 DEF HasInserted
<1>2. n \in Nat /\ DOMAIN s = 1..n /\ \A k \in 1..n : s[k] # e
    BY DEF Range
<1>3. \A k, l \in 1..n : s[k] = s[l] => k = l
    BY <1>2 DEF IsInjective
<1> HIDE DEF q
<1> SUFFICES ASSUME NEW k \in 1..n+1, NEW l \in 1..n+1, q[k] = q[l] PROVE k = l
    BY <1>1 DEF IsInjective, q
<1> DEFINE Old(j) == IF j <= i THEN j ELSE j - 1
<1>4. \A j \in 1..n+1 : j # i + 1 => Old(j) \in 1..n /\ q[j] = s[Old(j)]
    BY <1>1, <1>2
<1>5. CASE k = i + 1 \/ l = i + 1
    BY <1>1, <1>2, <1>4, <1>5
<1>6. CASE k # i + 1 /\ l # i + 1
    <2>1. Old(k) = Old(l)
        BY <1>3, <1>4, <1>6
    <2> QED
        BY <1>2, <1>6, <2>1
<1> QED
    BY <1>5, <1>6

\* list_add and list_add_tail put the node at the two ends.
LEMMA InsertedLast ==
    ASSUME NEW T, NEW s \in Seq(T), NEW e \in T, NEW i \in 0..Len(s)
    PROVE  i = Len(s) => Append(s, e) = Inserted(s, i, e)
<1> DEFINE q == Inserted(s, i, e)
           a == Append(s, e)
<1>1. /\ q \in Seq(T) /\ Len(q) = Len(s) + 1 /\ q[i + 1] = e
      /\ \A k \in 1..i : q[k] = s[k]
    <2>1. HasInserted(T, q, s, i, e)
        BY InsertedIs
    <2> QED
        BY <2>1 DEF HasInserted
<1>2. /\ a \in Seq(T) /\ Len(a) = Len(s) + 1 /\ a[Len(s) + 1] = e
      /\ \A k \in 1..Len(s) : a[k] = s[k]
    BY AppendProperties
<1> SUFFICES ASSUME i = Len(s) PROVE a = q
    OBVIOUS
<1> HIDE DEF q, a
<1>3. \A k \in 1..Len(q) : q[k] = a[k]
    BY <1>1, <1>2
<1>4. q = a
    BY <1>1, <1>2, <1>3, SeqEqual
<1> QED
    BY <1>4

LEMMA InsertedFirst ==
    ASSUME NEW T, NEW s \in Seq(T), NEW e \in T, NEW i \in 0..Len(s)
    PROVE  i = 0 => <<e>> \o s = Inserted(s, i, e)
<1> DEFINE q == Inserted(s, i, e)
           one == <<e>>
           a == one \o s
<1>1. /\ q \in Seq(T) /\ Len(q) = Len(s) + 1 /\ q[i + 1] = e
      /\ \A k \in i+2..Len(s)+1 : q[k] = s[k-1]
    <2>1. HasInserted(T, q, s, i, e)
        BY InsertedIs
    <2> QED
        BY <2>1 DEF HasInserted
<1> SUFFICES ASSUME i = 0 PROVE a = q
    OBVIOUS
<1>2. one \in Seq(T) /\ Len(one) = 1 /\ one[1] = e /\ Len(s) \in Nat
    OBVIOUS
<1> HIDE DEF q, one
<1>3. /\ a \in Seq(T) /\ Len(a) = Len(one) + Len(s)
      /\ \A k \in 1..Len(one)+Len(s) :
            a[k] = IF k <= Len(one) THEN one[k] ELSE s[k - Len(one)]
    BY <1>2, ConcatProperties
<1> HIDE DEF a
<1>4. ASSUME NEW k \in 1..Len(q)
      PROVE  q[k] = a[k]
    <2>1. CASE k = 1
        BY <1>1, <1>2, <1>3, <2>1
    <2>2. CASE k \in 2..Len(s)+1
        <3>1. k \in i+2..Len(s)+1 /\ k \in 1..Len(one)+Len(s) /\ ~(k <= Len(one))
            BY <1>2, <2>2
        <3>2. q[k] = s[k-1] /\ a[k] = s[k - Len(one)]
            BY <1>1, <1>3, <3>1
        <3> QED
            BY <1>2, <3>2
    <2> QED
        BY <1>1, <1>2, <2>1, <2>2
<1>5. q = a
    BY <1>1, <1>2, <1>3, <1>4, SeqEqual, SMTT(40)
<1> QED
    BY <1>5

LEMMA DeletedIs ==
    ASSUME NEW T, NEW s \in Seq(T), NEW i \in 1..Len(s)
    PROVE  /\ Deleted(s, i) \in Seq(T) /\ Len(Deleted(s, i)) = Len(s) - 1
           /\ DOMAIN Deleted(s, i) = 1..Len(s)-1
           /\ \A k \in 1..i-1 : Deleted(s, i)[k] = s[k]
           /\ \A k \in i..Len(s)-1 : Deleted(s, i)[k] = s[k+1]
<1>1. Len(s) \in Nat /\ \A k \in 1..Len(s) : s[k] \in T
    OBVIOUS
<1>2. Deleted(s, i) \in [1..Len(s)-1 -> T]
    BY <1>1 DEF Deleted
<1> QED
    BY <1>1, <1>2 DEF Deleted

\* The place of an element of a queue in which no element is twice.
LEMMA PlaceOnce ==
    ASSUME NEW T, NEW s \in Seq(T), IsInjective(s), NEW k \in 1..Len(s)
    PROVE  s[k] \in Range(s) /\ Place(s)[s[k]] = k
<1>1. DOMAIN s = 1..Len(s)
    OBVIOUS
<1>2. s[k] \in Range(s)
    BY <1>1 DEF Range
<1>3. Place(s)[s[k]] \in 1..Len(s) /\ s[Place(s)[s[k]]] = s[k]
    BY <1>2, PlaceIsIndex
<1> QED
    BY <1>1, <1>2, <1>3 DEF IsInjective

\* How many of the first p numbers are left without i.
LEMMA CountWithout ==
    ASSUME NEW p \in Nat, NEW i \in Nat \ {0}
    PROVE  /\ IsFiniteSet((1..p) \ {i})
           /\ Cardinality((1..p) \ {i}) = IF i <= p THEN p - 1 ELSE p
<1>1. IsFiniteSet(1..p) /\ Cardinality(1..p) = p
    BY FS_Interval
<1>2. IsFiniteSet((1..p) \ {i})
    BY <1>1, FS_RemoveElement
<1>3. CASE i <= p
    <2>1. i \in 1..p
        BY <1>3
    <2>2. Cardinality((1..p) \ {i}) = Cardinality(1..p) - 1
        BY <1>1, <2>1, FS_RemoveElement
    <2> QED
        BY <1>1, <1>2, <1>3, <2>2
<1>4. CASE ~(i <= p)
    <2>1. (1..p) \ {i} = 1..p
        BY <1>4
    <2> QED
        BY <1>1, <1>2, <1>4, <2>1
<1> QED
    BY <1>3, <1>4

\* list_del takes the node out of the sequence, which closes up.
LEMMA WithoutIsDeleted ==
    ASSUME NEW T, NEW s \in Seq(T), IsInjective(s), NEW i \in 1..Len(s)
    PROVE  Without(s, s[i]) = Deleted(s, i)
<1> DEFINE n == Len(s)
           S == Range(s) \ {s[i]}
           key == [t \in Range(s) |-> <<0, Place(s)[t]>>]
           A == Arrange(S, key)
           d == Deleted(s, i)
<1>1. n \in Nat /\ DOMAIN s = 1..n /\ \A k, l \in 1..n : s[k] = s[l] => k = l
    BY DEF IsInjective
<1>2. \A k \in 1..n : s[k] \in Range(s) /\ Place(s)[s[k]] = k /\ key[s[k]] = <<0, k>>
    BY PlaceOnce
<1>3. \A t \in Range(s) : \E k \in 1..n : t = s[k]
    BY <1>1 DEF Range
<1>4. Without(s, s[i]) = A
    <2>1. s[i] \in Range(s) /\ Range(s) \cap S = S
        BY <1>2
    <2> HIDE DEF S
    <2> QED
        BY <2>1 DEF Without, Keep, S
<1>5. IsFiniteSet(Range(s)) /\ Cardinality(Range(s)) = n
    <2>1. s \in Surjection(1..n, Range(s))
        BY <1>1 DEF Surjection, Range
    <2>2. s \in Injection(1..n, Range(s))
        BY <1>1, <2>1 DEF Injection, Surjection
    <2>3. IsFiniteSet(1..n) /\ Cardinality(1..n) = n
        BY <1>1, FS_Interval, SMTT(40)
    <2> QED
        BY <2>1, <2>2, <2>3, FS_Surjection
<1>6. IsFiniteSet(S) /\ Cardinality(S) = n - 1
    BY <1>2, <1>5, FS_RemoveElement
<1>7. Orders(key, S)
    <2>1. \A t \in Range(s) : Place(s)[t] \in Int /\ s[Place(s)[t]] = t
        BY PlaceIsIndex
    <2> QED
        BY <2>1 DEF Orders
<1> HIDE DEF key
<1>8. ASSUME NEW p \in 1..n, p # i
      PROVE  Rank(S, key, s[p]) = IF i <= p THEN p - 1 ELSE p
    <2> DEFINE C == (1..p) \ {i}
               U == {u \in S : UpTo(key[u], key[s[p]])}
               f == [k \in C |-> s[k]]
    <2>1. ASSUME NEW k \in 1..n
          PROVE  UpTo(key[s[k]], key[s[p]]) <=> k <= p
        <3>1. key[s[k]] = <<0, k>> /\ key[s[p]] = <<0, p>>
            BY <1>2
        <3>2. UpTo(<<0, k>>, <<0, p>>) <=> k <= p
            BY DEF UpTo
        <3> QED
            BY <3>1, <3>2
    <2>2. \A k \in C : k \in 1..n /\ s[k] \in U
        BY <1>1, <1>2, <2>1
    <2>3. \A u \in U : \E k \in C : u = s[k]
        BY <1>1, <1>3, <2>1
    <2> HIDE DEF U, C
    <2>4. f \in Surjection(C, U)
        BY <2>2, <2>3 DEF Surjection
    <2>5. f \in Injection(C, U)
        BY <1>1, <2>2 DEF Injection, IsInjective
    <2>6. IsFiniteSet(C) /\ Cardinality(C) = IF i <= p THEN p - 1 ELSE p
        BY <1>1, CountWithout DEF C
    <2>7. Cardinality(U) = Cardinality(C)
        BY <2>4, <2>5, <2>6, FS_Surjection
    <2> QED
        BY <2>6, <2>7 DEF Rank, U
<1>9. A \in Seq(S) /\ Len(A) = n - 1 /\ \A k \in 1..n-1 : A[k] \in S /\ Rank(S, key, A[k]) = k
    BY <1>6, <1>7, ArrangeEnumerates
<1>10. /\ d \in Seq(T) /\ Len(d) = n - 1
       /\ \A k \in 1..i-1 : d[k] = s[k]
       /\ \A k \in i..n-1 : d[k] = s[k+1]
    BY DeletedIs
<1> HIDE DEF A, d
<1>11. ASSUME NEW k \in 1..n-1
       PROVE  d[k] \in S /\ Rank(S, key, d[k]) = k
    <2>1. CASE k < i
        <3>1. d[k] = s[k] /\ k \in 1..n /\ k # i /\ ~(i <= k)
            BY <1>1, <1>10, <2>1
        <3> QED
            BY <1>1, <1>2, <1>8, <3>1
    <2>2. CASE ~(k < i)
        <3>1. d[k] = s[k+1] /\ k + 1 \in 1..n /\ k + 1 # i /\ i <= k + 1 /\ k + 1 - 1 = k
            BY <1>1, <1>10, <2>2
        <3>2. Rank(S, key, s[k+1]) = k
            <4>1. PICK p \in 1..n : p = k + 1 /\ p # i /\ i <= p
                BY <3>1
            <4>2. Rank(S, key, s[p]) = p - 1
                BY <1>8, <4>1
            <4> QED
                BY <1>1, <4>1, <4>2
        <3>3. s[k+1] \in Range(s) /\ s[k+1] # s[i]
            BY <1>1, <1>2, <3>1
        <3> QED
            BY <3>1, <3>2, <3>3
    <2> QED
        BY <2>1, <2>2
<1>12. \A t, u \in S : Rank(S, key, t) = Rank(S, key, u) => t = u
    BY <1>6, <1>7, RankNumbers
<1>13. ASSUME NEW k \in 1..n-1
       PROVE  A[k] = d[k]
    <2>1. A[k] \in S /\ Rank(S, key, A[k]) = k
        BY <1>9
    <2> HIDE DEF S
    <2>2. d[k] \in S /\ Rank(S, key, d[k]) = k
        BY <1>11
    <2> QED
        BY <1>12, <2>1, <2>2
<1>14. A \in Seq(T) /\ d \in Seq(T)
    <2>1. S \subseteq T
        BY RangeOfQueue
    <2> QED
        BY <1>9, <1>10, <2>1
<1>15. A = d
    BY <1>9, <1>10, <1>13, <1>14, SeqEqual
<1> QED
    BY <1>4, <1>15 DEF d

---------------------------------------------------------------------------
(* A list in memory and the sequence of its nodes.                         *)

Node == Heads \cup Entry
Mem == [Node -> [prev : Node, next : Node]]

\* Place k of the ring of list head h and the nodes s: the head is before
\* the first node and behind the last.
Spot(h, s, k) == IF k \in 1..Len(s) THEN s[k] ELSE h

\* The pointers of the memory m make that ring, one way and the other.
Forward(m, h, s) == \A k \in 0..Len(s) : m[Spot(h, s, k)].next = Spot(h, s, k + 1)
Backward(m, h, s) == \A k \in 0..Len(s) : m[Spot(h, s, k + 1)].prev = Spot(h, s, k)

OfEntries(s) == s \in Seq(Entry) /\ IsInjective(s)

LEMMA SpotsDiffer ==
    ASSUME NEW h \in Heads, NEW s, OfEntries(s)
    PROVE  /\ Len(s) \in Nat /\ DOMAIN s = 1..Len(s)
           /\ \A k \in 1..Len(s) : s[k] \in Entry /\ s[k] # h /\ Spot(h, s, k) = s[k]
           /\ Spot(h, s, 0) = h /\ Spot(h, s, Len(s) + 1) = h
           /\ \A k, l \in 1..Len(s) : s[k] = s[l] => k = l
           /\ \A k \in 0..Len(s)+1 : Spot(h, s, k) \in Node
           /\ \A k, l \in 0..Len(s) : Spot(h, s, k) = Spot(h, s, l) => k = l
           /\ \A k, l \in 1..Len(s)+1 : Spot(h, s, k) = Spot(h, s, l) => k = l
<1>1. Len(s) \in Nat /\ DOMAIN s = 1..Len(s) /\ \A k \in 1..Len(s) : s[k] \in Entry
    BY DEF OfEntries
<1>2. \A k \in 1..Len(s) : s[k] # h
    BY <1>1, ListAssumption
<1>3. \A k, l \in 1..Len(s) : s[k] = s[l] => k = l
    BY <1>1 DEF OfEntries, IsInjective
<1>4. \A k \in 1..Len(s) : Spot(h, s, k) = s[k]
    BY DEF Spot
<1>5. \A k : k \notin 1..Len(s) => Spot(h, s, k) = h
    BY DEF Spot
<1>6. Spot(h, s, 0) = h /\ Spot(h, s, Len(s) + 1) = h
    BY <1>1, <1>5
<1>7. \A k \in 0..Len(s)+1 : Spot(h, s, k) \in Node
    BY <1>1, <1>4, <1>5 DEF Node
<1>8. \A k, l \in 0..Len(s) : Spot(h, s, k) = Spot(h, s, l) => k = l
    BY <1>1, <1>2, <1>3, <1>4, <1>6
<1>9. \A k, l \in 1..Len(s)+1 : Spot(h, s, k) = Spot(h, s, l) => k = l
    BY <1>1, <1>2, <1>3, <1>4, <1>6
<1> QED
    BY <1>1, <1>2, <1>3, <1>4, <1>6, <1>7, <1>8, <1>9

\* The function that After(m, head, n) takes its value of.
Steps(m, head, n) ==
    CHOOSE f : f = [k \in 0..n |->
                      IF k = 0 THEN head
                      ELSE IF f[k-1] \in DOMAIN m THEN m[f[k-1]].next ELSE f[k-1]]

LEMMA AfterIsStep ==
    ASSUME NEW m, NEW head, NEW n
    PROVE  After(m, head, n) = Steps(m, head, n)[n]
BY Zenon DEF After, Steps

\* A walk goes round the ring.
LEMMA AfterIsSpot ==
    ASSUME NEW m \in Mem, NEW h \in Heads, NEW s, OfEntries(s), Forward(m, h, s),
           NEW n \in 0..Len(s)+1
    PROVE  After(m, h, n) = Spot(h, s, n)
<1> DEFINE Body(f) == [k \in 0..n |->
                         IF k = 0 THEN h
                         ELSE IF f[k-1] \in DOMAIN m THEN m[f[k-1]].next ELSE f[k-1]]
           at == Steps(m, h, n)
           ring == [k \in 0..n |-> Spot(h, s, k)]
<1>1. Len(s) \in Nat /\ Spot(h, s, 0) = h /\ \A k \in 0..Len(s)+1 : Spot(h, s, k) \in Node
    BY SpotsDiffer
<1>2. ASSUME NEW k \in 1..n
      PROVE  /\ k - 1 \in 0..n /\ Spot(h, s, k - 1) \in DOMAIN m
             /\ m[Spot(h, s, k - 1)].next = Spot(h, s, k)
    <2>1. k - 1 \in 0..Len(s) /\ k - 1 \in 0..n /\ k - 1 + 1 = k
        BY <1>1
    <2>2. Spot(h, s, k - 1) \in DOMAIN m
        BY <1>1, <2>1 DEF Mem
    <2>3. m[Spot(h, s, k - 1)].next = Spot(h, s, k - 1 + 1)
        BY <2>1 DEF Forward
    <2> QED
        BY <2>1, <2>2, <2>3
<1>3. ring = Body(ring)
    <2>1. ASSUME NEW k \in 0..n
          PROVE  ring[k] = Body(ring)[k]
        <3>1. CASE k = 0
            BY <1>1, <3>1
        <3>2. CASE k # 0
            <4>1. k \in 1..n /\ k - 1 \in 0..n
                BY <1>1, <3>2
            <4>2. ring[k - 1] = Spot(h, s, k - 1)
                BY <4>1
            <4> QED
                BY <1>2, <3>2, <4>1, <4>2
        <3> QED
            BY <3>1, <3>2
    <2> QED
        BY <2>1
<1>4. at = Body(at)
    BY <1>3, Zenon DEF Steps
<1>5. \A k \in 0..n : at[k] = Body(at)[k]
    BY <1>4, Zenon
<1> HIDE DEF at
<1> DEFINE Right == {k \in 0..n : at[k] = Spot(h, s, k)}
<1>6. 0 \in Right
    BY <1>1, <1>5
<1>7. ASSUME NEW k \in 0..n-1, k \in Right
      PROVE  k + 1 \in Right
    <2>1. k + 1 \in 1..n /\ k + 1 \in 0..n /\ k + 1 - 1 = k /\ k + 1 # 0
        BY <1>1
    <2>2. Spot(h, s, k) \in DOMAIN m /\ m[Spot(h, s, k)].next = Spot(h, s, k + 1)
        <3>1. /\ Spot(h, s, k + 1 - 1) \in DOMAIN m
              /\ m[Spot(h, s, k + 1 - 1)].next = Spot(h, s, k + 1)
            BY <1>2, <2>1
        <3> QED
            BY <2>1, <3>1
    <2>3. at[k] = Spot(h, s, k)
        BY <1>7
    <2>4. at[k + 1] = IF at[k + 1 - 1] \in DOMAIN m THEN m[at[k + 1 - 1]].next ELSE at[k + 1 - 1]
        BY <1>5, <2>1
    <2> QED
        BY <2>1, <2>2, <2>3, <2>4
<1>8. n \in Right
    <2> HIDE DEF Right
    <2>1. 0..n \subseteq Right
        BY <1>1, <1>6, <1>7, CountUp
    <2> QED
        BY <1>1, <2>1
<1>9. at[n] = Spot(h, s, n)
    BY <1>8
<1> QED
    BY <1>9, AfterIsStep DEF at

\* A ring has no more places than the memory has nodes.
LEMMA RingIsShort ==
    ASSUME NEW m \in Mem, NEW h \in Heads, NEW s, OfEntries(s)
    PROVE  Len(s) + 1 \in 1..Cardinality(DOMAIN m)
<1> DEFINE n == Len(s)
           ring == [k \in 1..n+1 |-> Spot(h, s, k)]
<1>1. /\ n \in Nat /\ \A k \in 0..n+1 : Spot(h, s, k) \in Node
      /\ \A k, l \in 1..n+1 : Spot(h, s, k) = Spot(h, s, l) => k = l
    BY SpotsDiffer
<1>2. ring \in Injection(1..n+1, Node)
    <2>1. ring \in [1..n+1 -> Node]
        BY <1>1
    <2>2. \A k, l \in 1..n+1 : ring[k] = ring[l] => k = l
        BY <1>1
    <2> HIDE DEF ring
    <2> QED
        BY <2>1, <2>2 DEF Injection, IsInjective
<1>3. DOMAIN m = Node /\ IsFiniteSet(Node)
    BY ListAssumption DEF Mem, Node
<1>4. Cardinality(1..n+1) <= Cardinality(Node)
    BY <1>2, <1>3, FS_Injection
<1>5. Cardinality(1..n+1) = n + 1
    BY <1>1, FS_Interval
<1>6. Cardinality(Node) \in Nat
    BY <1>3, FS_CardinalityType
<1> QED
    BY <1>1, <1>3, <1>4, <1>5, <1>6

LEMMA WalkIs ==
    ASSUME NEW m \in Mem, NEW h \in Heads, NEW s, OfEntries(s), Forward(m, h, s)
    PROVE  Circular(m, h) /\ Walk(m, h) = s
<1> DEFINE n == Len(s)
           C == 1..Cardinality(DOMAIN m)
           back(j) == After(m, h, j) = h /\ \A k \in 1..j-1 : After(m, h, k) # h
<1>1. n \in Nat /\ DOMAIN s = 1..n /\ n + 1 \in C
    BY SpotsDiffer, RingIsShort
<1>2. \A j \in 0..n+1 : After(m, h, j) = Spot(h, s, j)
    BY AfterIsSpot
<1>3. \A j \in 1..n : After(m, h, j) = s[j] /\ s[j] # h
    BY <1>1, <1>2, SpotsDiffer
<1>4. After(m, h, n + 1) = h
    BY <1>1, <1>2, SpotsDiffer
<1>5. back(n + 1)
    BY <1>1, <1>3, <1>4
<1>6. ASSUME NEW j \in C, back(j)
      PROVE  j = n + 1
    <2>1. CASE j \in 1..n
        BY <1>3, <1>6, <2>1
    <2>2. CASE j > n + 1
        <3>1. n + 1 \in 1..j-1
            BY <1>1, <2>2
        <3> QED
            BY <1>4, <1>6, <3>1
    <2> QED
        BY <1>1, <2>1, <2>2
<1> HIDE DEF C, back
<1>7. (CHOOSE j \in C : back(j)) = n + 1
    BY <1>1, <1>5, <1>6
<1>8. Walk(m, h) = [k \in 1..n |-> After(m, h, k)]
    <2> DEFINE first == CHOOSE j \in C : back(j)
    <2>1. Walk(m, h) = [k \in 1..first-1 |-> After(m, h, k)]
        BY DEF Walk, C, back
    <2>2. first = n + 1
        BY <1>7, Zenon
    <2> HIDE DEF first
    <2>3. first - 1 = n
        BY <1>1, <2>2
    <2> QED
        BY <2>1, <2>3
<1>9. [k \in 1..n |-> After(m, h, k)] = s
    <2>1. \A k \in 1..n : After(m, h, k) = s[k]
        BY <1>3
    <2>2. s = [k \in 1..n |-> s[k]]
        BY DEF OfEntries
    <2> QED
        BY <2>1, <2>2
<1>10. Circular(m, h)
    BY <1>1, <1>4 DEF Circular, C
<1> QED
    BY <1>8, <1>9, <1>10

---------------------------------------------------------------------------
(* All lists of the memory.                                                *)

Walks(m) == [h \in Heads |-> Walk(m, h)]

Unlisted(q, e) == \A h \in Heads : e \notin Range(q[h])

\* Every list consists of nodes of its own.
Apart(q) ==
    /\ q = [h \in Heads |-> q[h]] /\ \A h \in Heads : OfEntries(q[h])
    /\ \A g, h \in Heads : g # h => Range(q[g]) \cap Range(q[h]) = {}

\* The memory m holds, by its forward pointers, the lists of q.
Rings(m, q) == m \in Mem /\ Apart(q) /\ \A h \in Heads : Forward(m, h, q[h])

Backs(m, q) == \A h \in Heads : Backward(m, h, q[h])

\* A node that is on no list points to itself, but for those of New.
Loose(m, q, New) == \A e \in Entry \ New : Unlisted(q, e) => m[e].next = e

Whole(m, q, New) == Rings(m, q) /\ Backs(m, q) /\ Loose(m, q, New)

\* The insertion has read head->prev and has not linked the node yet.
Unlinked ==
    /\ ins.new \in Entry /\ ins.head \in Heads
    /\ Whole(mem, Walks(mem), {ins.new})
    /\ Unlisted(Walks(mem), ins.new)
    /\ ins.prev = mem[ins.head].prev
    /\ ins.step # 1 => mem[ins.new].next = ins.head
    /\ ins.step = 3 => mem[ins.new].prev = ins.prev

\* It has linked the node: the memory lacks its last store, and would be whole
\* with it, whatever the handlers do that spare the prev of the head.
LastStore == [mem EXCEPT ![ins.head].prev = ins.new]
LinkedForward ==
    /\ ins.new \in Entry /\ ins.head \in Heads
    /\ Rings(mem, Walks(mem)) /\ Whole(LastStore, Walks(mem), {})

ListInv ==
    /\ ins \in [step : 0..4, new : Entry \cup {None}, prev : Node \cup {None},
                head : Heads \cup {None}]
    /\ ins.step = 0 => Whole(mem, Walks(mem), {})
    /\ ins.step \in 1..3 => Unlinked
    /\ ins.step = 4 => LinkedForward

---------------------------------------------------------------------------
(* What a change of a ring does to its pointers.                           *)

\* Every place of a ring is the head or a node of the list.
LEMMA SpotsAre ==
    ASSUME NEW h \in Heads, NEW s, OfEntries(s), NEW k \in 0..Len(s)+1
    PROVE  Spot(h, s, k) \in {h} \cup Range(s)
BY SpotsDiffer DEF Spot, Range

LEMMA RingSame ==
    ASSUME NEW m \in Mem, NEW m2 \in Mem, NEW h \in Heads, NEW s, OfEntries(s)
    PROVE  /\ /\ Forward(m, h, s)
              /\ \A n \in {h} \cup Range(s) : m2[n].next = m[n].next
              => Forward(m2, h, s)
           /\ /\ Backward(m, h, s)
              /\ \A n \in {h} \cup Range(s) : m2[n].prev = m[n].prev
              => Backward(m2, h, s)
<1>1. Len(s) \in Nat
    BY SpotsDiffer
<1>2. \A k \in 0..Len(s) : k \in 0..Len(s)+1 /\ k + 1 \in 0..Len(s)+1
    BY <1>1
<1>3. \A k \in 0..Len(s)+1 : Spot(h, s, k) \in {h} \cup Range(s)
    BY SpotsAre
<1> QED
    BY <1>2, <1>3, Zenon DEF Forward, Backward

LEMMA InsertedSpots ==
    ASSUME NEW h \in Heads, NEW s, OfEntries(s), NEW i \in 0..Len(s),
           NEW e \in Entry, e \notin Range(s)
    PROVE  /\ OfEntries(Inserted(s, i, e)) /\ Len(Inserted(s, i, e)) = Len(s) + 1
           /\ \A k \in 0..i : Spot(h, Inserted(s, i, e), k) = Spot(h, s, k)
           /\ Spot(h, Inserted(s, i, e), i + 1) = e
           /\ \A k \in i+1..Len(s)+1 : Spot(h, Inserted(s, i, e), k + 1) = Spot(h, s, k)
<1> DEFINE q == Inserted(s, i, e)
           n == Len(s)
<1>1. s \in Seq(Entry) /\ IsInjective(s) /\ n \in Nat
    BY SpotsDiffer DEF OfEntries
<1>2. /\ q \in Seq(Entry) /\ Len(q) = n + 1
      /\ \A k \in 1..i : q[k] = s[k]
      /\ q[i + 1] = e
      /\ \A k \in i+1..n : q[k+1] = s[k]
    <2>1. s \in Seq(Entry)
        BY <1>1
    <2>2. \A k \in i+1..n : q[k+1] = s[k]
        BY <2>1, InsertedBehind
    <2>3. HasInserted(Entry, q, s, i, e)
        BY <2>1, InsertedIs
    <2> QED
        BY <2>2, <2>3 DEF HasInserted
<1>3. IsInjective(q)
    BY <1>1, InsertedOnce
<1> HIDE DEF q
<1>4. OfEntries(q)
    BY <1>2, <1>3 DEF OfEntries
<1>5. /\ \A k : k \in 1..n => Spot(h, s, k) = s[k]
      /\ \A k : k \notin 1..n => Spot(h, s, k) = h
      /\ \A k : k \in 1..n+1 => Spot(h, q, k) = q[k]
      /\ \A k : k \notin 1..n+1 => Spot(h, q, k) = h
    BY <1>2 DEF Spot
<1>6. ASSUME NEW k \in 0..i
      PROVE  Spot(h, q, k) = Spot(h, s, k)
    <2>1. CASE k = 0
        BY <1>1, <1>5, <2>1
    <2>2. CASE k \in 1..i
        <3>1. k \in 1..n /\ k \in 1..n+1
            BY <1>1, <2>2
        <3> QED
            BY <1>2, <1>5, <2>2, <3>1
    <2> QED
        BY <1>1, <2>1, <2>2
<1>7. Spot(h, q, i + 1) = e
    BY <1>1, <1>2, <1>5
<1>8. ASSUME NEW k \in i+1..n+1
      PROVE  Spot(h, q, k + 1) = Spot(h, s, k)
    <2>1. CASE k = n + 1
        BY <1>1, <1>5, <2>1
    <2>2. CASE k \in i+1..n
        <3>1. k \in 1..n /\ k + 1 \in 1..n+1
            BY <1>1, <2>2
        <3>2. q[k + 1] = s[k]
            BY <1>2, <2>2
        <3> QED
            BY <1>5, <3>1, <3>2
    <2> QED
        BY <1>1, <2>1, <2>2
<1> QED
    BY <1>2, <1>4, <1>6, <1>7, <1>8 DEF q

LEMMA DeletedSpots ==
    ASSUME NEW h \in Heads, NEW s, OfEntries(s), NEW i \in 1..Len(s)
    PROVE  /\ OfEntries(Deleted(s, i)) /\ Len(Deleted(s, i)) = Len(s) - 1
           /\ \A k \in 0..i-1 : Spot(h, Deleted(s, i), k) = Spot(h, s, k)
           /\ \A k \in i..Len(s) : Spot(h, Deleted(s, i), k) = Spot(h, s, k + 1)
<1> DEFINE q == Deleted(s, i)
           n == Len(s)
<1>1. s \in Seq(Entry) /\ IsInjective(s) /\ n \in Nat
    BY SpotsDiffer DEF OfEntries
<1>2. /\ q \in Seq(Entry) /\ Len(q) = n - 1
      /\ \A k \in 1..i-1 : q[k] = s[k]
      /\ \A k \in i..n-1 : q[k] = s[k+1]
    BY <1>1, DeletedIs
<1> HIDE DEF q
<1>3. IsInjective(q)
    <2> DEFINE Old(k) == IF k < i THEN k ELSE k + 1
    <2>1. \A k \in 1..n-1 : Old(k) \in 1..n /\ q[k] = s[Old(k)]
        BY <1>1, <1>2
    <2>2. \A k, l \in 1..n : s[k] = s[l] => k = l
        BY SpotsDiffer
    <2>3. ASSUME NEW k \in 1..n-1, NEW l \in 1..n-1, q[k] = q[l]
          PROVE  k = l
        <3>1. Old(k) = Old(l)
            <4> HIDE DEF Old
            <4> QED
                BY <2>1, <2>2, <2>3, SMTT(40)
        <3> QED
            BY <1>1, <3>1
    <2>4. DOMAIN q = 1..n-1
        BY <1>1, <1>2
    <2> QED
        BY <2>3, <2>4 DEF IsInjective
<1>4. OfEntries(q)
    BY <1>2, <1>3 DEF OfEntries
<1>5. /\ \A k : k \in 1..n => Spot(h, s, k) = s[k]
      /\ \A k : k \notin 1..n => Spot(h, s, k) = h
      /\ \A k : k \in 1..n-1 => Spot(h, q, k) = q[k]
      /\ \A k : k \notin 1..n-1 => Spot(h, q, k) = h
    BY <1>2 DEF Spot
<1>6. ASSUME NEW k \in 0..i-1
      PROVE  Spot(h, q, k) = Spot(h, s, k)
    <2>1. CASE k = 0
        BY <1>1, <1>5, <2>1
    <2>2. CASE k \in 1..i-1
        <3>1. k \in 1..n /\ k \in 1..n-1
            BY <1>1, <2>2
        <3> QED
            BY <1>2, <1>5, <2>2, <3>1
    <2> QED
        BY <1>1, <2>1, <2>2
<1>7. ASSUME NEW k \in i..n
      PROVE  Spot(h, q, k) = Spot(h, s, k + 1)
    <2>1. CASE k = n
        <3>1. k \notin 1..n-1 /\ k + 1 \notin 1..n
            BY <1>1, <2>1
        <3> QED
            BY <1>5, <3>1
    <2>2. CASE k \in i..n-1
        <3>1. k + 1 \in 1..n /\ k \in 1..n-1
            BY <1>1, <2>2
        <3> QED
            BY <1>2, <1>5, <2>2, <3>1
    <2> QED
        BY <1>1, <2>1, <2>2
<1> QED
    BY <1>2, <1>4, <1>6, <1>7 DEF q

\* The stores of __list_add link a node between two places of a ring.
LEMMA InsertIntoRing ==
    ASSUME NEW m \in Mem, NEW m2 \in Mem, NEW h \in Heads, NEW s, OfEntries(s),
           NEW i \in 0..Len(s), NEW e \in Entry, e \notin Range(s)
    PROVE  /\ /\ Forward(m, h, s)
              /\ m2[Spot(h, s, i)].next = e /\ m2[e].next = Spot(h, s, i + 1)
              /\ \A n \in Node \ {e, Spot(h, s, i)} : m2[n].next = m[n].next
              => Forward(m2, h, Inserted(s, i, e))
           /\ /\ Backward(m, h, s)
              /\ m2[e].prev = Spot(h, s, i) /\ m2[Spot(h, s, i + 1)].prev = e
              /\ \A n \in Node \ {e, Spot(h, s, i + 1)} : m2[n].prev = m[n].prev
              => Backward(m2, h, Inserted(s, i, e))
<1> DEFINE q == Inserted(s, i, e)
           n == Len(s)
           a == Spot(h, s, i)
           b == Spot(h, s, i + 1)
<1>1. /\ Len(q) = n + 1
      /\ \A k \in 0..i : Spot(h, q, k) = Spot(h, s, k)
      /\ Spot(h, q, i + 1) = e
      /\ \A k \in i+1..n+1 : Spot(h, q, k + 1) = Spot(h, s, k)
    BY InsertedSpots
<1>2. /\ n \in Nat /\ \A k \in 0..n+1 : Spot(h, s, k) \in Node
      /\ \A k, l \in 0..n : Spot(h, s, k) = Spot(h, s, l) => k = l
      /\ \A k, l \in 1..n+1 : Spot(h, s, k) = Spot(h, s, l) => k = l
    BY SpotsDiffer
<1>3. ASSUME NEW k \in 0..n+1
      PROVE  Spot(h, s, k) # e
    <2>1. Spot(h, s, k) \in {h} \cup Range(s)
        BY SpotsAre
    <2> QED
        BY <2>1, ListAssumption
<1>4. ASSUME Forward(m, h, s), m2[a].next = e, m2[e].next = b,
             \A x \in Node \ {e, a} : m2[x].next = m[x].next
      PROVE  Forward(m2, h, q)
    <2>1. \A k \in 0..n : m[Spot(h, s, k)].next = Spot(h, s, k + 1)
        BY <1>4 DEF Forward
    <2>2. ASSUME NEW k \in 0..n, k # i
          PROVE  m2[Spot(h, s, k)].next = Spot(h, s, k + 1)
        <3>1. Spot(h, s, k) \in Node \ {e, a}
            BY <1>2, <1>3, <2>2
        <3> HIDE DEF a
        <3> QED
            BY <1>4, <2>1, <3>1
    <2> HIDE DEF a, b, q
    <2> SUFFICES ASSUME NEW k \in 0..n+1
                 PROVE  m2[Spot(h, q, k)].next = Spot(h, q, k + 1)
        BY <1>1 DEF Forward
    <2>3. CASE k < i
        <3>1. k \in 0..i /\ k + 1 \in 0..i /\ k \in 0..n /\ k # i
            BY <1>2, <2>3
        <3> QED
            BY <1>1, <2>2, <3>1
    <2>4. CASE k = i
        <3>1. k \in 0..i
            BY <1>2, <2>4
        <3> QED
            BY <1>1, <1>4, <2>4, <3>1 DEF a
    <2>5. CASE k = i + 1
        <3>1. k \in i+1..n+1
            BY <1>2, <2>5
        <3> QED
            BY <1>1, <1>4, <2>5, <3>1 DEF b
    <2>6. CASE k > i + 1
        <3>1. PICK l \in 0..n : k = l + 1
            <4>1. k - 1 \in 0..n /\ k = k - 1 + 1
                BY <1>2, <2>6
            <4> QED
                BY <4>1
        <3>2. l \in i+1..n+1 /\ l + 1 \in i+1..n+1 /\ l # i
            BY <1>2, <2>6, <3>1
        <3>3. Spot(h, q, l + 1) = Spot(h, s, l) /\ Spot(h, q, l + 1 + 1) = Spot(h, s, l + 1)
            BY <1>1, <3>2
        <3> QED
            BY <2>2, <3>1, <3>2, <3>3
    <2> QED
        BY <1>2, <2>3, <2>4, <2>5, <2>6
<1>5. ASSUME Backward(m, h, s), m2[e].prev = a, m2[b].prev = e,
             \A x \in Node \ {e, b} : m2[x].prev = m[x].prev
      PROVE  Backward(m2, h, q)
    <2>1. \A k \in 0..n : m[Spot(h, s, k + 1)].prev = Spot(h, s, k)
        BY <1>5 DEF Backward
    <2>2. ASSUME NEW k \in 0..n, k # i
          PROVE  m2[Spot(h, s, k + 1)].prev = Spot(h, s, k)
        <3>1. k + 1 \in 1..n+1 /\ k + 1 \in 0..n+1 /\ i + 1 \in 1..n+1 /\ k + 1 # i + 1
            BY <1>2, <2>2
        <3>2. Spot(h, s, k + 1) \in Node \ {e, b}
            BY <1>2, <1>3, <3>1
        <3> HIDE DEF b
        <3> QED
            BY <1>5, <2>1, <3>2
    <2> HIDE DEF a, b, q
    <2> SUFFICES ASSUME NEW k \in 0..n+1
                 PROVE  m2[Spot(h, q, k + 1)].prev = Spot(h, q, k)
        BY <1>1 DEF Backward
    <2>3. CASE k < i
        <3>1. k \in 0..i /\ k + 1 \in 0..i /\ k \in 0..n /\ k # i
            BY <1>2, <2>3
        <3> QED
            BY <1>1, <2>2, <3>1
    <2>4. CASE k = i
        <3>1. k \in 0..i
            BY <1>2, <2>4
        <3> QED
            BY <1>1, <1>5, <2>4, <3>1 DEF a
    <2>5. CASE k = i + 1
        <3>1. k \in i+1..n+1
            BY <1>2, <2>5
        <3> QED
            BY <1>1, <1>5, <2>5, <3>1 DEF b
    <2>6. CASE k > i + 1
        <3>1. PICK l \in 0..n : k = l + 1
            <4>1. k - 1 \in 0..n /\ k = k - 1 + 1
                BY <1>2, <2>6
            <4> QED
                BY <4>1
        <3>2. l \in i+1..n+1 /\ l + 1 \in i+1..n+1 /\ l # i
            BY <1>2, <2>6, <3>1
        <3>3. Spot(h, q, l + 1) = Spot(h, s, l) /\ Spot(h, q, l + 1 + 1) = Spot(h, s, l + 1)
            BY <1>1, <3>2
        <3> QED
            BY <2>2, <3>1, <3>2, <3>3
    <2> QED
        BY <1>2, <2>3, <2>4, <2>5, <2>6
<1> HIDE DEF q, a, b
<1> QED
    BY <1>4, <1>5 DEF q, a, b

\* The stores of __list_del close a ring behind the node at place i, whose
\* own pointers do not matter any more.
LEMMA DeleteFromRing ==
    ASSUME NEW m \in Mem, NEW m2 \in Mem, NEW h \in Heads, NEW s, OfEntries(s),
           NEW i \in 1..Len(s)
    PROVE  /\ /\ Forward(m, h, s) /\ m2[Spot(h, s, i - 1)].next = Spot(h, s, i + 1)
              /\ \A n \in Node \ {s[i], Spot(h, s, i - 1)} : m2[n].next = m[n].next
              => Forward(m2, h, Deleted(s, i))
           /\ /\ Backward(m, h, s) /\ m2[Spot(h, s, i + 1)].prev = Spot(h, s, i - 1)
              /\ \A n \in Node \ {s[i], Spot(h, s, i + 1)} : m2[n].prev = m[n].prev
              => Backward(m2, h, Deleted(s, i))
<1> DEFINE q == Deleted(s, i)
           n == Len(s)
           a == Spot(h, s, i - 1)
           b == Spot(h, s, i + 1)
           e == s[i]
<1>1. /\ Len(q) = n - 1
      /\ \A k \in 0..i-1 : Spot(h, q, k) = Spot(h, s, k)
      /\ \A k \in i..n : Spot(h, q, k) = Spot(h, s, k + 1)
    BY DeletedSpots
<1>2. /\ n \in Nat /\ \A k \in 0..n+1 : Spot(h, s, k) \in Node
      /\ \A k, l \in 0..n : Spot(h, s, k) = Spot(h, s, l) => k = l
      /\ \A k, l \in 1..n+1 : Spot(h, s, k) = Spot(h, s, l) => k = l
      /\ Spot(h, s, i) = e
    BY SpotsDiffer
<1>3. ASSUME Forward(m, h, s), m2[a].next = b,
             \A x \in Node \ {e, a} : m2[x].next = m[x].next
      PROVE  Forward(m2, h, q)
    <2>1. \A k \in 0..n : m[Spot(h, s, k)].next = Spot(h, s, k + 1)
        BY <1>3 DEF Forward
    <2>2. ASSUME NEW k \in 0..n, k # i, k # i - 1
          PROVE  m2[Spot(h, s, k)].next = Spot(h, s, k + 1)
        <3>1. i \in 0..n /\ i - 1 \in 0..n /\ k \in 0..n+1
            BY <1>2
        <3>2. Spot(h, s, k) \in Node \ {e, a}
            BY <1>2, <2>2, <3>1
        <3> HIDE DEF a, e
        <3> QED
            BY <1>3, <2>1, <3>2
    <2> HIDE DEF a, b, e, q
    <2> SUFFICES ASSUME NEW k \in 0..n-1
                 PROVE  m2[Spot(h, q, k)].next = Spot(h, q, k + 1)
        BY <1>1 DEF Forward
    <2>3. CASE k < i - 1
        <3>1. k \in 0..i-1 /\ k + 1 \in 0..i-1 /\ k \in 0..n /\ k # i /\ k # i - 1
            BY <1>2, <2>3
        <3> QED
            BY <1>1, <2>2, <3>1
    <2>4. CASE k = i - 1
        <3>1. k \in 0..i-1 /\ i \in i..n /\ k + 1 = i
            BY <1>2, <2>4
        <3>2. Spot(h, q, k) = a /\ Spot(h, q, i) = b
            BY <1>1, <2>4, <3>1 DEF a, b
        <3> QED
            BY <1>3, <3>1, <3>2
    <2>5. CASE k >= i
        <3>1. PICK l \in 0..n : l = k + 1
            BY <1>2
        <3>2. k \in i..n /\ l \in i..n /\ l # i /\ l # i - 1
            BY <1>2, <2>5, <3>1
        <3>3. Spot(h, q, k) = Spot(h, s, l) /\ Spot(h, q, l) = Spot(h, s, l + 1)
            BY <1>1, <3>1, <3>2
        <3> QED
            BY <2>2, <3>1, <3>2, <3>3
    <2> QED
        BY <1>2, <2>3, <2>4, <2>5
<1>4. ASSUME Backward(m, h, s), m2[b].prev = a,
             \A x \in Node \ {e, b} : m2[x].prev = m[x].prev
      PROVE  Backward(m2, h, q)
    <2>1. \A k \in 0..n : m[Spot(h, s, k + 1)].prev = Spot(h, s, k)
        BY <1>4 DEF Backward
    <2>2. ASSUME NEW k \in 0..n, k # i, k # i - 1
          PROVE  m2[Spot(h, s, k + 1)].prev = Spot(h, s, k)
        <3>1. i \in 1..n+1 /\ i + 1 \in 1..n+1 /\ k + 1 \in 1..n+1 /\ k + 1 \in 0..n+1
            BY <1>2
        <3>2. k + 1 # i + 1 /\ k + 1 # i
            BY <1>2, <2>2
        <3>3. Spot(h, s, k + 1) \in Node \ {e, b}
            BY <1>2, <3>1, <3>2
        <3> HIDE DEF b, e
        <3> QED
            BY <1>4, <2>1, <3>3
    <2> HIDE DEF a, b, e, q
    <2> SUFFICES ASSUME NEW k \in 0..n-1
                 PROVE  m2[Spot(h, q, k + 1)].prev = Spot(h, q, k)
        BY <1>1 DEF Backward
    <2>3. CASE k < i - 1
        <3>1. k \in 0..i-1 /\ k + 1 \in 0..i-1 /\ k \in 0..n /\ k # i /\ k # i - 1
            BY <1>2, <2>3
        <3> QED
            BY <1>1, <2>2, <3>1
    <2>4. CASE k = i - 1
        <3>1. k \in 0..i-1 /\ i \in i..n /\ k + 1 = i
            BY <1>2, <2>4
        <3>2. Spot(h, q, k) = a /\ Spot(h, q, i) = b
            BY <1>1, <2>4, <3>1 DEF a, b
        <3> QED
            BY <1>4, <3>1, <3>2
    <2>5. CASE k >= i
        <3>1. PICK l \in 0..n : l = k + 1
            BY <1>2
        <3>2. k \in i..n /\ l \in i..n /\ l # i /\ l # i - 1
            BY <1>2, <2>5, <3>1
        <3>3. Spot(h, q, k) = Spot(h, s, l) /\ Spot(h, q, l) = Spot(h, s, l + 1)
            BY <1>1, <3>1, <3>2
        <3> QED
            BY <2>2, <3>1, <3>2, <3>3
    <2> QED
        BY <1>2, <2>3, <2>4, <2>5
<1> HIDE DEF q, a, b, e
<1> QED
    BY <1>3, <1>4 DEF q, a, b, e

---------------------------------------------------------------------------
(* The operations of list.h on all lists of the memory.                    *)

LEMMA WalksAre ==
    ASSUME NEW m, NEW q, Rings(m, q)
    PROVE  q = Walks(m) /\ \A h \in Heads : Circular(m, h) /\ Walk(m, h) = q[h]
<1>1. \A h \in Heads : Circular(m, h) /\ Walk(m, h) = q[h]
    BY WalkIs DEF Rings, Apart
<1>2. q = [h \in Heads |-> q[h]]
    BY DEF Rings, Apart
<1>3. [h \in Heads |-> q[h]] = [h \in Heads |-> Walk(m, h)]
    BY <1>1
<1> QED
    BY <1>1, <1>2, <1>3 DEF Walks

\* Where a node of a list is, and what its pointers are.
LEMMA ListedNode ==
    ASSUME NEW m, NEW q, Rings(m, q), Backs(m, q), NEW e \in Entry, ~Unlisted(q, e)
    PROVE  \E h \in Heads : \E i \in 1..Len(q[h]) :
              /\ q[h][i] = e
              /\ m[e].prev = Spot(h, q[h], i - 1)
              /\ m[e].next = Spot(h, q[h], i + 1)
              /\ m[e].next # e
<1>1. PICK h \in Heads : e \in Range(q[h])
    BY DEF Unlisted
<1>2. OfEntries(q[h]) /\ Forward(m, h, q[h]) /\ Backward(m, h, q[h])
    BY DEF Rings, Apart, Backs
<1> DEFINE s == q[h]
           n == Len(s)
<1>3. /\ n \in Nat /\ DOMAIN s = 1..n
      /\ \A k \in 1..n : Spot(h, s, k) = s[k]
      /\ Spot(h, s, 0) = h /\ Spot(h, s, n + 1) = h
      /\ \A k \in 1..n : s[k] # h
      /\ \A k, l \in 1..n : s[k] = s[l] => k = l
    BY <1>2, SpotsDiffer
<1>4. PICK i \in 1..n : s[i] = e
    BY <1>1, <1>3 DEF Range
<1>5. /\ i \in 0..n /\ i - 1 \in 0..n /\ i - 1 + 1 = i
      /\ Spot(h, s, i) = e
    BY <1>3, <1>4
<1>6. m[e].next = Spot(h, s, i + 1)
    BY <1>2, <1>5 DEF Forward
<1>7. m[e].prev = Spot(h, s, i - 1)
    <2>1. m[Spot(h, s, i - 1 + 1)].prev = Spot(h, s, i - 1)
        BY <1>2, <1>5 DEF Backward
    <2> QED
        BY <1>5, <2>1
<1>8. Spot(h, s, i + 1) # e
    <2>1. CASE i = n
        BY <1>3, <1>4, <2>1
    <2>2. CASE i # n
        <3>1. i + 1 \in 1..n /\ i + 1 # i
            BY <1>3, <2>2
        <3>2. Spot(h, s, i + 1) = s[i + 1]
            BY <1>3, <3>1
        <3> QED
            BY <1>3, <1>4, <3>1, <3>2
    <2> QED
        BY <2>1, <2>2
<1> QED
    BY <1>4, <1>6, <1>7, <1>8

\* A place of a ring is no node that is on no list.
LEMMA SpotIsListed ==
    ASSUME NEW m, NEW q, Rings(m, q), NEW h \in Heads, NEW k \in 0..Len(q[h])+1
    PROVE  /\ Spot(h, q[h], k) \in Node
           /\ \A e \in Entry : Unlisted(q, e) => Spot(h, q[h], k) # e
           /\ \A g \in Heads : g # h => Spot(h, q[h], k) \notin {g} \cup Range(q[g])
<1>1. OfEntries(q[h]) /\ Spot(h, q[h], k) \in {h} \cup Range(q[h])
    BY SpotsAre DEF Rings, Apart
<1>2. Spot(h, q[h], k) \in Node
    BY <1>1, SpotsDiffer
<1>3. \A e \in Entry : e # h
    BY ListAssumption
<1>4. \A e \in Entry : Unlisted(q, e) => Spot(h, q[h], k) # e
    BY <1>1, <1>3 DEF Unlisted
<1>5. ASSUME NEW g \in Heads, g # h
      PROVE  Spot(h, q[h], k) \notin {g} \cup Range(q[g])
    <2>1. Range(q[g]) \cap Range(q[h]) = {}
        BY <1>5 DEF Rings, Apart
    <2>2. Range(q[g]) \subseteq Entry /\ Range(q[h]) \subseteq Entry
        BY RangeOfQueue DEF Rings, Apart, OfEntries
    <2>3. h \notin Entry /\ g \notin Entry
        BY ListAssumption
    <2> QED
        BY <1>1, <1>5, <2>1, <2>2, <2>3
<1> QED
    BY <1>2, <1>4, <1>5

\* What the stores of an insertion of e between a and b do to the forward and
\* to the backward pointers, and what those of a removal do; where the node
\* itself points after its removal is left open.
NextInto(m, m2, a, e, b) ==
    /\ m2 \in Mem /\ m2[a].next = e /\ m2[e].next = b
    /\ \A n \in Node \ {e, a} : m2[n].next = m[n].next
PrevInto(m, m2, a, e, b) ==
    /\ m2 \in Mem /\ m2[e].prev = a /\ m2[b].prev = e
    /\ \A n \in Node \ {e, b} : m2[n].prev = m[n].prev
NextOut(m, m2, a, e, b) ==
    /\ m2 \in Mem /\ m2[a].next = b
    /\ \A n \in Node \ {e, a} : m2[n].next = m[n].next
PrevOut(m, m2, a, e, b) ==
    /\ m2 \in Mem /\ m2[b].prev = a
    /\ \A n \in Node \ {e, b} : m2[n].prev = m[n].prev

\* The lists q after these.
Put(q, h, i, e) == [q EXCEPT ![h] = Inserted(q[h], i, e)]
Taken(q, e) == [h \in Heads |-> Without(q[h], e)]

LEMMA PutIs ==
    ASSUME NEW q, Apart(q), NEW h \in Heads, NEW i \in 0..Len(q[h]), NEW e \in Entry, Unlisted(q, e)
    PROVE  /\ Put(q, h, i, e) = [g \in Heads |-> Put(q, h, i, e)[g]]
           /\ Put(q, h, i, e)[h] = Inserted(q[h], i, e)
           /\ \A g \in Heads : g # h => Put(q, h, i, e)[g] = q[g]
           /\ Range(Put(q, h, i, e)[h]) = Range(q[h]) \cup {e}
           /\ OfEntries(Put(q, h, i, e)[h])
<1>1. DOMAIN q = Heads
    BY DEF Apart
<1>2. q[h] \in Seq(Entry) /\ OfEntries(q[h]) /\ e \notin Range(q[h])
    BY DEF Apart, OfEntries, Unlisted
<1>3. OfEntries(Inserted(q[h], i, e))
    BY <1>2, InsertedSpots
<1>4. Range(Inserted(q[h], i, e)) = Range(q[h]) \cup {e}
    BY <1>2, InsertedRange
<1> QED
    BY <1>1, <1>3, <1>4 DEF Put

LEMMA InsertKeepsRings ==
    ASSUME NEW m, NEW q, Rings(m, q), NEW h \in Heads, NEW i \in 0..Len(q[h]),
           NEW e \in Entry, Unlisted(q, e), NEW m2,
           NextInto(m, m2, Spot(h, q[h], i), e, Spot(h, q[h], i + 1))
    PROVE  /\ Rings(m2, Put(q, h, i, e))
           /\ \A New : Loose(m, q, New \cup {e}) => Loose(m2, Put(q, h, i, e), New)
<1> DEFINE p == Put(q, h, i, e)
           a == Spot(h, q[h], i)
           b == Spot(h, q[h], i + 1)
<1>1. /\ p = [g \in Heads |-> p[g]] /\ p[h] = Inserted(q[h], i, e)
      /\ \A g \in Heads : g # h => p[g] = q[g]
      /\ Range(p[h]) = Range(q[h]) \cup {e} /\ OfEntries(p[h])
    BY PutIs, SMTT(40) DEF Rings
<1>2. /\ m \in Mem /\ \A g \in Heads : OfEntries(q[g]) /\ Forward(m, g, q[g])
      /\ \A f, g \in Heads : f # g => Range(q[f]) \cap Range(q[g]) = {}
    BY DEF Rings, Apart
<1>3. /\ m2 \in Mem /\ m2[a].next = e /\ m2[e].next = b
      /\ \A n \in Node \ {e, a} : m2[n].next = m[n].next
    BY DEF NextInto
<1>4. /\ a \in Node /\ \A g \in Heads : g # h => a \notin {g} \cup Range(q[g])
      /\ \A n \in Entry : Unlisted(q, n) => a # n
    <2>1. i \in 0..Len(q[h])+1
        BY <1>2, SpotsDiffer
    <2> QED
        BY <2>1, SpotIsListed
<1>5. \A g \in Heads : e \notin Range(q[g]) /\ e # g
    BY ListAssumption DEF Unlisted
<1> HIDE DEF p, a, b
<1>6. Forward(m2, h, p[h])
    <2>1. e \notin Range(q[h]) /\ Forward(m, h, q[h]) /\ OfEntries(q[h])
        BY <1>2, <1>5
    <2>2. Forward(m2, h, Inserted(q[h], i, e))
        BY <1>2, <1>3, <2>1, InsertIntoRing DEF a, b
    <2> QED
        BY <1>1, <2>2
<1>7. ASSUME NEW g \in Heads, g # h
      PROVE  Forward(m2, g, p[g])
    <2>1. Range(q[g]) \subseteq Entry
        BY <1>2, RangeOfQueue DEF OfEntries
    <2>2. \A n \in {g} \cup Range(q[g]) : n \in Node \ {e, a}
        BY <1>4, <1>5, <1>7, <2>1 DEF Node
    <2>3. Forward(m2, g, q[g])
        BY <1>2, <1>3, <2>2, RingSame
    <2> QED
        BY <1>1, <1>7, <2>3
<1>8. \A f, g \in Heads : f # g => Range(p[f]) \cap Range(p[g]) = {}
    <2>1. \A g \in Heads : Range(p[g]) = IF g = h THEN Range(q[g]) \cup {e} ELSE Range(q[g])
        BY <1>1
    <2> SUFFICES ASSUME NEW f \in Heads, NEW g \in Heads, f # g, NEW x,
                        x \in Range(p[f]), x \in Range(p[g])
                 PROVE  FALSE
        BY ZenonT(20)
    <2>2. x \notin Range(q[f]) \/ x \notin Range(q[g])
        BY <1>2
    <2>3. CASE f = h
        <3>1. x \in Range(q[g]) /\ (x \in Range(q[f]) \/ x = e)
            BY <2>1, <2>3
        <3> QED
            BY <1>5, <2>2, <3>1
    <2>4. CASE f # h
        <3>1. x \in Range(q[f]) /\ (x \in Range(q[g]) \/ x = e)
            BY <2>1, <2>4
        <3> QED
            BY <1>5, <2>2, <3>1
    <2> QED
        BY <2>3, <2>4
<1>9. Rings(m2, p)
    BY <1>1, <1>2, <1>3, <1>6, <1>7, <1>8 DEF Rings, Apart
<1>10. ASSUME NEW New, Loose(m, q, New \cup {e})
       PROVE  Loose(m2, p, New)
    <2> SUFFICES ASSUME NEW n \in Entry \ New, Unlisted(p, n) PROVE m2[n].next = n
        BY DEF Loose
    <2>1. Unlisted(q, n) /\ n # e
        BY <1>1 DEF Unlisted
    <2>2. n # a
        BY <1>4, <2>1
    <2>3. m[n].next = n
        BY <1>10, <2>1 DEF Loose
    <2> QED
        BY <1>3, <2>1, <2>2, <2>3 DEF Node
<1> QED
    BY <1>9, <1>10 DEF p

LEMMA InsertKeepsBacks ==
    ASSUME NEW m, NEW q, Rings(m, q), Backs(m, q), NEW h \in Heads,
           NEW i \in 0..Len(q[h]), NEW e \in Entry, Unlisted(q, e), NEW m2,
           PrevInto(m, m2, Spot(h, q[h], i), e, Spot(h, q[h], i + 1))
    PROVE  Backs(m2, Put(q, h, i, e))
<1> DEFINE p == Put(q, h, i, e)
           a == Spot(h, q[h], i)
           b == Spot(h, q[h], i + 1)
<1>1. p[h] = Inserted(q[h], i, e) /\ \A g \in Heads : g # h => p[g] = q[g]
    BY PutIs DEF Rings
<1>2. m \in Mem /\ \A g \in Heads : OfEntries(q[g]) /\ Backward(m, g, q[g])
    BY DEF Rings, Apart, Backs
<1>3. /\ m2 \in Mem /\ m2[e].prev = a /\ m2[b].prev = e
      /\ \A n \in Node \ {e, b} : m2[n].prev = m[n].prev
    BY DEF PrevInto
<1>4. b \in Node /\ \A g \in Heads : g # h => b \notin {g} \cup Range(q[g])
    <2>1. i + 1 \in 0..Len(q[h])+1
        BY <1>2, SpotsDiffer
    <2> QED
        BY <2>1, SpotIsListed
<1>5. \A g \in Heads : e \notin Range(q[g]) /\ e # g
    BY ListAssumption DEF Unlisted
<1> HIDE DEF p, a, b
<1>6. Backward(m2, h, p[h])
    <2>1. e \notin Range(q[h]) /\ Backward(m, h, q[h]) /\ OfEntries(q[h])
        BY <1>2, <1>5
    <2>2. Backward(m2, h, Inserted(q[h], i, e))
        BY <1>2, <1>3, <2>1, InsertIntoRing DEF a, b
    <2> QED
        BY <1>1, <2>2
<1>7. ASSUME NEW g \in Heads, g # h
      PROVE  Backward(m2, g, p[g])
    <2>1. Range(q[g]) \subseteq Entry
        BY <1>2, RangeOfQueue DEF OfEntries
    <2>2. \A n \in {g} \cup Range(q[g]) : n \in Node \ {e, b}
        BY <1>4, <1>5, <1>7, <2>1 DEF Node
    <2>3. Backward(m2, g, q[g])
        BY <1>2, <1>3, <2>2, RingSame
    <2> QED
        BY <1>1, <1>7, <2>3
<1> QED
    BY <1>6, <1>7 DEF Backs, p

\* The lists p are those of q without the node e of the list of h.
TakenOut(q, h, i, e, p) ==
    /\ e \in Entry /\ e \in Range(q[h]) /\ p[h] = Deleted(q[h], i)
    /\ \A g \in Heads : g # h => p[g] = q[g]
    /\ \A g \in Heads : OfEntries(p[g])
    /\ \A g \in Heads : Range(p[g]) = Range(q[g]) \ {e}

LEMMA TakenIs ==
    ASSUME NEW q, Apart(q), NEW h \in Heads, NEW i \in 1..Len(q[h])
    PROVE  TakenOut(q, h, i, q[h][i], Taken(q, q[h][i]))
<1> DEFINE e == q[h][i]
           p == Taken(q, e)
<1>1. \A g \in Heads : q[g] \in Seq(Entry) /\ IsInjective(q[g])
    BY DEF Apart, OfEntries
<1>2. e \in Entry /\ e \in Range(q[h])
    BY <1>1, PlaceOnce
<1>3. p[h] = Deleted(q[h], i)
    BY <1>1, WithoutIsDeleted DEF Taken
<1> HIDE DEF e
<1>4. ASSUME NEW g \in Heads
      PROVE  p[g] = Without(q[g], e) /\ OfEntries(p[g]) /\ Range(p[g]) = Range(q[g]) \ {e}
    BY <1>1, WithoutQueue, WithoutOnce DEF OfEntries, Taken
<1>5. ASSUME NEW g \in Heads, g # h
      PROVE  p[g] = q[g]
    <2>1. e \notin Range(q[g])
        BY <1>2, <1>5 DEF Apart
    <2> QED
        BY <1>1, <1>4, <2>1, WithoutQueue
<1> QED
    BY <1>2, <1>3, <1>4, <1>5 DEF e, TakenOut

LEMMA DeleteKeepsLists ==
    ASSUME NEW m, NEW q, Rings(m, q), Backs(m, q), NEW h \in Heads,
           NEW i \in 1..Len(q[h]), NEW m2,
           NextOut(m, m2, Spot(h, q[h], i - 1), q[h][i], Spot(h, q[h], i + 1)),
           PrevOut(m, m2, Spot(h, q[h], i - 1), q[h][i], Spot(h, q[h], i + 1))
    PROVE  /\ Rings(m2, Taken(q, q[h][i])) /\ Backs(m2, Taken(q, q[h][i]))
           /\ Unlisted(Taken(q, q[h][i]), q[h][i])
           /\ \A New : Loose(m, q, New) => Loose(m2, Taken(q, q[h][i]), New \cup {q[h][i]})
<1> DEFINE e == q[h][i]
           p == Taken(q, e)
           a == Spot(h, q[h], i - 1)
           b == Spot(h, q[h], i + 1)
<1>1. /\ e \in Entry /\ e \in Range(q[h]) /\ p[h] = Deleted(q[h], i)
      /\ \A g \in Heads : g # h => p[g] = q[g]
      /\ \A g \in Heads : OfEntries(p[g])
      /\ \A g \in Heads : Range(p[g]) = Range(q[g]) \ {e}
    <2>1. TakenOut(q, h, i, e, p)
        BY TakenIs DEF Rings
    <2> QED
        BY <2>1 DEF TakenOut
<1>2. /\ m \in Mem
      /\ \A g \in Heads : OfEntries(q[g]) /\ Forward(m, g, q[g]) /\ Backward(m, g, q[g])
      /\ \A f, g \in Heads : f # g => Range(q[f]) \cap Range(q[g]) = {}
    BY DEF Rings, Apart, Backs
<1>3. /\ m2 \in Mem /\ m2[a].next = b /\ m2[b].prev = a
      /\ \A n \in Node \ {e, a} : m2[n].next = m[n].next
      /\ \A n \in Node \ {e, b} : m2[n].prev = m[n].prev
    BY DEF NextOut, PrevOut
<1>4. /\ a \in Node /\ \A g \in Heads : g # h => a \notin {g} \cup Range(q[g])
      /\ b \in Node /\ \A g \in Heads : g # h => b \notin {g} \cup Range(q[g])
      /\ \A n \in Entry : Unlisted(q, n) => a # n
    <2>1. i - 1 \in 0..Len(q[h])+1 /\ i + 1 \in 0..Len(q[h])+1
        BY <1>2, SpotsDiffer
    <2> QED
        BY <2>1, SpotIsListed
<1> HIDE DEF e, p, a, b
<1>5. Forward(m2, h, p[h]) /\ Backward(m2, h, p[h])
    <2>1. OfEntries(q[h]) /\ Forward(m, h, q[h]) /\ Backward(m, h, q[h])
        BY <1>2
    <2>2. Forward(m2, h, Deleted(q[h], i)) /\ Backward(m2, h, Deleted(q[h], i))
        BY <1>2, <1>3, <2>1, DeleteFromRing DEF a, b, e
    <2> QED
        BY <1>1, <2>2
<1>6. ASSUME NEW g \in Heads, g # h
      PROVE  Forward(m2, g, p[g]) /\ Backward(m2, g, p[g])
    <2>1. Range(q[g]) \subseteq Entry
        BY <1>2, RangeOfQueue DEF OfEntries
    <2>2. e \notin {g} \cup Range(q[g])
        BY <1>1, <1>2, <1>6, ListAssumption
    <2>3. /\ \A n \in {g} \cup Range(q[g]) : n \in Node \ {e, a}
          /\ \A n \in {g} \cup Range(q[g]) : n \in Node \ {e, b}
        BY <1>4, <1>6, <2>1, <2>2 DEF Node
    <2>4. Forward(m2, g, q[g]) /\ Backward(m2, g, q[g])
        BY <1>2, <1>3, <2>3, RingSame
    <2> QED
        BY <1>1, <1>6, <2>4
<1>7. Rings(m2, p)
    <2>1. p = [g \in Heads |-> p[g]]
        BY DEF p, Taken
    <2>2. \A f, g \in Heads : f # g => Range(p[f]) \cap Range(p[g]) = {}
        BY <1>1, <1>2
    <2> QED
        BY <1>1, <1>3, <1>5, <1>6, <2>1, <2>2 DEF Rings, Apart
<1>8. Backs(m2, p)
    BY <1>5, <1>6 DEF Backs
<1>9. Unlisted(p, e)
    BY <1>1 DEF Unlisted
<1>10. ASSUME NEW New, Loose(m, q, New)
       PROVE  Loose(m2, p, New \cup {e})
    <2> SUFFICES ASSUME NEW n \in Entry \ New, n # e, Unlisted(p, n) PROVE m2[n].next = n
        BY DEF Loose
    <2>1. Unlisted(q, n)
        BY <1>1 DEF Unlisted
    <2>2. n # a
        BY <1>4, <2>1
    <2>3. m[n].next = n
        BY <1>10, <2>1 DEF Loose
    <2> QED
        BY <1>3, <2>2, <2>3 DEF Node
<1> QED
    BY <1>7, <1>8, <1>9, <1>10 DEF p, e

\* One store to a pointer.
NextStored(m, m2, a, v) ==
    /\ m2 \in Mem /\ m2[a].next = v /\ \A n \in Node \ {a} : m2[n].next = m[n].next
    /\ \A n \in Node : m2[n].prev = m[n].prev
PrevStored(m, m2, a, v) ==
    /\ m2 \in Mem /\ m2[a].prev = v /\ \A n \in Node \ {a} : m2[n].prev = m[n].prev
    /\ \A n \in Node : m2[n].next = m[n].next

LEMMA NextStoreIs ==
    ASSUME NEW m \in Mem, NEW a \in Node, NEW v \in Node
    PROVE  NextStored(m, [m EXCEPT ![a].next = v], a, v)
BY DEF Mem, NextStored

LEMMA PrevStoreIs ==
    ASSUME NEW m \in Mem, NEW a \in Node, NEW v \in Node
    PROVE  PrevStored(m, [m EXCEPT ![a].prev = v], a, v)
BY DEF Mem, PrevStored

\* __list_add between two nodes, __list_del, and the resets behind it.
LEMMA InsertIs ==
    ASSUME NEW m \in Mem, NEW e \in Entry, NEW a \in Node \ {e}, NEW b \in Node \ {e}
    PROVE  /\ NextInto(m, Insert(m, e, a, b), a, e, b)
           /\ PrevInto(m, Insert(m, e, a, b), a, e, b)
<1> DEFINE m1 == [m EXCEPT ![e].next = b]
           m2 == [m1 EXCEPT ![e].prev = a]
           m3 == [m2 EXCEPT ![a].next = e]
           m4 == [m3 EXCEPT ![b].prev = e]
<1>1. e \in Node
    BY DEF Node
<1>2. m4 = Insert(m, e, a, b)
    BY DEF Insert
<1>3. NextStored(m, m1, e, b) /\ m1 \in Mem
    <2>1. NextStored(m, m1, e, b)
        BY <1>1, NextStoreIs
    <2> QED
        BY <2>1 DEF NextStored
<1> HIDE DEF m1
<1>4. PrevStored(m1, m2, e, a) /\ m2 \in Mem
    <2>1. PrevStored(m1, m2, e, a)
        BY <1>1, <1>3, PrevStoreIs
    <2> QED
        BY <2>1 DEF PrevStored
<1> HIDE DEF m2
<1>5. NextStored(m2, m3, a, e) /\ m3 \in Mem
    <2>1. NextStored(m2, m3, a, e)
        BY <1>1, <1>4, NextStoreIs
    <2> QED
        BY <2>1 DEF NextStored
<1> HIDE DEF m3
<1>6. PrevStored(m3, m4, b, e)
    BY <1>1, <1>5, PrevStoreIs
<1> HIDE DEF m4
<1>7. NextInto(m, m4, a, e, b)
    BY <1>1, <1>3, <1>4, <1>5, <1>6 DEF NextInto, NextStored, PrevStored
<1>8. PrevInto(m, m4, a, e, b)
    BY <1>1, <1>3, <1>4, <1>5, <1>6 DEF PrevInto, NextStored, PrevStored
<1> QED
    BY <1>2, <1>7, <1>8

LEMMA UnlinkIs ==
    ASSUME NEW m \in Mem, NEW e \in Entry, NEW a \in Node, NEW b \in Node
    PROVE  /\ NextOut(m, Unlink(m, a, b), a, e, b)
           /\ PrevOut(m, Unlink(m, a, b), a, e, b)
<1> DEFINE m1 == [m EXCEPT ![a].next = b]
           m2 == [m1 EXCEPT ![b].prev = a]
<1>1. m2 = Unlink(m, a, b)
    BY DEF Unlink
<1>2. NextStored(m, m1, a, b) /\ m1 \in Mem
    <2>1. NextStored(m, m1, a, b)
        BY NextStoreIs
    <2> QED
        BY <2>1 DEF NextStored
<1> HIDE DEF m1
<1>3. PrevStored(m1, m2, b, a)
    BY <1>2, PrevStoreIs
<1> HIDE DEF m2
<1> QED
    BY <1>1, <1>2, <1>3 DEF NextOut, PrevOut, NextStored, PrevStored

LEMMA ResetIs ==
    ASSUME NEW m \in Mem, NEW e \in Entry, NEW a \in Node \ {e}, NEW b \in Node \ {e},
           a = m[e].prev, b = m[e].next,
           NEW m2, m2 \in {Remove(m, e), ListDelInit(m, e)}
    PROVE  NextOut(m, m2, a, e, b) /\ PrevOut(m, m2, a, e, b) /\ m2[e].next = e
<1> DEFINE u == Unlink(m, a, b)
           self == [prev |-> e, next |-> e]
           poisoned == [prev |-> Poison, next |-> Poison]
           r == [u EXCEPT ![e] = self]
<1>1. NextOut(m, u, a, e, b) /\ PrevOut(m, u, a, e, b)
    BY UnlinkIs
<1>2. e \in Node /\ self \in [prev : Node, next : Node]
    BY DEF Node
<1>3. u \in Mem
    BY <1>1 DEF NextOut
<1> HIDE DEF u
<1>4. ListDelInit(m, e) = r
    BY DEF ListDelInit, InitListHead, u
<1>5. Remove(m, e) = r
    <2>1. ListDel(m, e) = [u EXCEPT ![e] = poisoned]
        BY DEF ListDel, u
    <2>2. DOMAIN u = Node
        BY <1>3 DEF Mem
    <2> HIDE DEF poisoned, self
    <2>3. [[u EXCEPT ![e] = poisoned] EXCEPT ![e] = self] = r
        BY <2>2
    <2> QED
        BY <2>1, <2>3 DEF Remove, InitListHead, self
<1>6. r \in Mem /\ r[e] = self /\ \A n \in Node \ {e} : r[n] = u[n]
    <2> HIDE DEF self
    <2> QED
        BY <1>2, <1>3 DEF Mem
<1>7. m2 = r
    BY <1>4, <1>5
<1> HIDE DEF r
<1>8. NextOut(m, r, a, e, b)
    BY <1>1, <1>6 DEF NextOut
<1>9. PrevOut(m, r, a, e, b)
    BY <1>1, <1>6 DEF PrevOut
<1> QED
    BY <1>6, <1>7, <1>8, <1>9

\* The nodes on no list, but for e, keep their pointers and stay on none.
Spared(m, m2, q, p, e) ==
    \A x \in Entry \ {e} :
        Unlisted(q, x) => /\ m2[x].next = m[x].next /\ m2[x].prev = m[x].prev
                          /\ Unlisted(p, x)

\* list_add and list_add_tail of a node that is on no list, list_del of one
\* that is on a list.
LEMMA AddsToList ==
    ASSUME NEW m, NEW q, NEW New, NEW e \in Entry \ New, Whole(m, q, New \cup {e}),
           Unlisted(q, e), NEW h \in Heads
    PROVE  /\ Whole(ListAdd(m, e, h), Put(q, h, 0, e), New)
           /\ Whole(ListAddTail(m, e, h), Put(q, h, Len(q[h]), e), New)
           /\ Spared(m, ListAdd(m, e, h), q, Put(q, h, 0, e), e)
           /\ Spared(m, ListAddTail(m, e, h), q, Put(q, h, Len(q[h]), e), e)
<1>1. Rings(m, q) /\ Backs(m, q) /\ Loose(m, q, New \cup {e})
    BY DEF Whole
<1>2. m \in Mem /\ OfEntries(q[h]) /\ Forward(m, h, q[h]) /\ Backward(m, h, q[h])
    BY <1>1 DEF Rings, Apart, Backs
<1> DEFINE n == Len(q[h])
<1>3. n \in Nat /\ Spot(h, q[h], 0) = h /\ Spot(h, q[h], n + 1) = h
    BY <1>2, SpotsDiffer
<1>4. ASSUME NEW i \in 0..n
      PROVE  LET a == Spot(h, q[h], i)
                 b == Spot(h, q[h], i + 1)
             IN  /\ Whole(Insert(m, e, a, b), Put(q, h, i, e), New)
                 /\ Spared(m, Insert(m, e, a, b), q, Put(q, h, i, e), e)
    <2> DEFINE a == Spot(h, q[h], i)
               b == Spot(h, q[h], i + 1)
               m2 == Insert(m, e, a, b)
    <2>1. /\ a \in Node \ {e} /\ b \in Node \ {e}
          /\ \A x \in Entry : Unlisted(q, x) => x \notin {a, b}
        <3>1. i \in 0..n+1 /\ i + 1 \in 0..n+1
            BY <1>3
        <3> QED
            BY <1>1, <3>1, SpotIsListed
    <2>2. NextInto(m, m2, a, e, b) /\ PrevInto(m, m2, a, e, b)
        <3> HIDE DEF a, b
        <3> QED
            BY <1>2, <2>1, InsertIs
    <2> HIDE DEF m2
    <2>3. Rings(m2, Put(q, h, i, e)) /\ Loose(m2, Put(q, h, i, e), New)
        BY <1>1, <2>2, InsertKeepsRings
    <2>4. Backs(m2, Put(q, h, i, e))
        BY <1>1, <2>2, InsertKeepsBacks
    <2>5. \A x \in Entry \ {e} : Unlisted(q, x) => Unlisted(Put(q, h, i, e), x)
        <3>1. /\ Range(Put(q, h, i, e)[h]) = Range(q[h]) \cup {e}
              /\ \A g \in Heads : g # h => Put(q, h, i, e)[g] = q[g]
            <4>1. Apart(q) /\ i \in 0..Len(q[h]) /\ e \in Entry
                BY <1>1 DEF Rings
            <4>2. Range(Put(q, h, i, e)[h]) = Range(q[h]) \cup {e}
                BY <4>1, PutIs, SMTT(40)
            <4>3. \A g \in Heads : g # h => Put(q, h, i, e)[g] = q[g]
                BY <4>1, PutIs
            <4> QED
                BY <4>2, <4>3
        <3> QED
            BY <3>1 DEF Unlisted
    <2> HIDE DEF a, b
    <2>6. Spared(m, m2, q, Put(q, h, i, e), e)
        BY <2>1, <2>2, <2>5 DEF Spared, NextInto, PrevInto, Node
    <2> QED
        BY <2>3, <2>4, <2>6 DEF Whole, m2, a, b
<1>5. ListAdd(m, e, h) = Insert(m, e, Spot(h, q[h], 0), Spot(h, q[h], 0 + 1))
    <2>1. m[Spot(h, q[h], 0)].next = Spot(h, q[h], 0 + 1)
        BY <1>2, <1>3 DEF Forward
    <2> QED
        BY <1>3, <2>1 DEF ListAdd
<1>6. ListAddTail(m, e, h) = Insert(m, e, Spot(h, q[h], n), Spot(h, q[h], n + 1))
    <2>1. m[Spot(h, q[h], n + 1)].prev = Spot(h, q[h], n)
        BY <1>2, <1>3 DEF Backward
    <2> QED
        BY <1>3, <2>1 DEF ListAddTail
<1>7. /\ Whole(ListAdd(m, e, h), Put(q, h, 0, e), New)
      /\ Spared(m, ListAdd(m, e, h), q, Put(q, h, 0, e), e)
    <2>1. 0 \in 0..n
        BY <1>3
    <2> QED
        BY <1>4, <1>5, <2>1
<1>8. /\ Whole(ListAddTail(m, e, h), Put(q, h, n, e), New)
      /\ Spared(m, ListAddTail(m, e, h), q, Put(q, h, n, e), e)
    <2>1. n \in 0..n
        BY <1>3
    <2> QED
        BY <1>4, <1>6, <2>1
<1> QED
    BY <1>7, <1>8

LEMMA TakesFromList ==
    ASSUME NEW m, NEW q, NEW New, NEW e \in Entry \ New, Whole(m, q, New), ~Unlisted(q, e)
    PROVE  LET u == Unlink(m, m[e].prev, m[e].next)
               t == Taken(q, e)
           IN  /\ Whole(u, t, New \cup {e}) /\ Unlisted(t, e) /\ Spared(m, u, q, t, e)
               /\ Whole(Remove(m, e), t, New) /\ Spared(m, Remove(m, e), q, t, e)
               /\ Whole(ListDelInit(m, e), t, New) /\ Spared(m, ListDelInit(m, e), q, t, e)
<1>1. Rings(m, q) /\ Backs(m, q) /\ Loose(m, q, New)
    BY DEF Whole
<1>2. PICK h \in Heads : \E i \in 1..Len(q[h]) :
              /\ q[h][i] = e
              /\ m[e].prev = Spot(h, q[h], i - 1)
              /\ m[e].next = Spot(h, q[h], i + 1)
              /\ m[e].next # e
    BY <1>1, ListedNode
<1>3. PICK i \in 1..Len(q[h]) :
              /\ q[h][i] = e
              /\ m[e].prev = Spot(h, q[h], i - 1)
              /\ m[e].next = Spot(h, q[h], i + 1)
              /\ m[e].next # e
    BY <1>2
<1> DEFINE a == Spot(h, q[h], i - 1)
           b == Spot(h, q[h], i + 1)
<1>4. m \in Mem /\ OfEntries(q[h])
    BY <1>1 DEF Rings, Apart
<1>5. a \in Node /\ b \in Node /\ a # e
    <2>1. /\ Len(q[h]) \in Nat
          /\ \A k \in 0..Len(q[h])+1 : Spot(h, q[h], k) \in Node
          /\ \A k, l \in 0..Len(q[h]) : Spot(h, q[h], k) = Spot(h, q[h], l) => k = l
          /\ Spot(h, q[h], i) = q[h][i]
        BY <1>4, SpotsDiffer
    <2>2. i - 1 \in 0..Len(q[h]) /\ i \in 0..Len(q[h]) /\ i - 1 # i
          /\ i - 1 \in 0..Len(q[h])+1 /\ i + 1 \in 0..Len(q[h])+1
        BY <2>1
    <2>3. a # Spot(h, q[h], i)
        BY <2>1, <2>2
    <2> QED
        BY <1>3, <2>1, <2>2, <2>3
<1>6. \A x : NextOut(m, x, a, e, b) /\ PrevOut(m, x, a, e, b) =>
          /\ Rings(x, Taken(q, e)) /\ Backs(x, Taken(q, e))
          /\ Unlisted(Taken(q, e), e) /\ Loose(x, Taken(q, e), New \cup {e})
    BY <1>1, <1>3, DeleteKeepsLists
<1>11. \A x \in Entry : Unlisted(q, x) => x \notin {a, b}
    <2>1. i - 1 \in 0..Len(q[h])+1 /\ i + 1 \in 0..Len(q[h])+1
        BY <1>4, SpotsDiffer
    <2> QED
        BY <1>1, <2>1, SpotIsListed
<1>12. \A x \in Entry \ {e} : Unlisted(q, x) => Unlisted(Taken(q, e), x)
    <2>1. \A g \in Heads : Range(Taken(q, e)[g]) = Range(q[g]) \ {e}
        <3>1. TakenOut(q, h, i, e, Taken(q, e))
            BY <1>1, <1>3, TakenIs DEF Rings
        <3> QED
            BY <3>1 DEF TakenOut
    <2> QED
        BY <2>1 DEF Unlisted
<1> HIDE DEF a, b
<1>7. /\ NextOut(m, Unlink(m, a, b), a, e, b)
      /\ PrevOut(m, Unlink(m, a, b), a, e, b)
    BY <1>4, <1>5, UnlinkIs
<1>8. a = m[e].prev /\ b = m[e].next /\ b # e
    BY <1>3 DEF a, b
<1>9. Whole(Unlink(m, a, b), Taken(q, e), New \cup {e}) /\ Unlisted(Taken(q, e), e)
    BY <1>6, <1>7 DEF Whole
<1>13. \A x : NextOut(m, x, a, e, b) /\ PrevOut(m, x, a, e, b) => Spared(m, x, q, Taken(q, e), e)
    BY <1>11, <1>12 DEF Spared, NextOut, PrevOut, Node
<1>14. ASSUME NEW m2, m2 \in {Remove(m, e), ListDelInit(m, e)}
       PROVE  Whole(m2, Taken(q, e), New) /\ Spared(m, m2, q, Taken(q, e), e)
    <2>1. NextOut(m, m2, a, e, b) /\ PrevOut(m, m2, a, e, b) /\ m2[e].next = e
        BY <1>4, <1>5, <1>8, <1>14, ResetIs
    <2>2. Rings(m2, Taken(q, e)) /\ Backs(m2, Taken(q, e)) /\ Loose(m2, Taken(q, e), New \cup {e})
        BY <1>6, <2>1
    <2>3. Loose(m2, Taken(q, e), New)
        BY <2>1, <2>2 DEF Loose
    <2> QED
        BY <1>13, <2>1, <2>2, <2>3 DEF Whole
<1>15. Spared(m, Unlink(m, a, b), q, Taken(q, e), e)
    BY <1>7, <1>13
<1> QED
    BY <1>8, <1>9, <1>14, <1>15

---------------------------------------------------------------------------
(* The operations as ListSpec has them.                                    *)

AddedFirst(q, p, e, h) == p = [q EXCEPT ![h] = <<e>> \o @]
AddedLast(q, p, e, h) == p = [q EXCEPT ![h] = Append(@, e)]

LEMMA PutAtEnds ==
    ASSUME NEW q, Apart(q), NEW e \in Entry, NEW h \in Heads
    PROVE  AddedFirst(q, Put(q, h, 0, e), e, h) /\ AddedLast(q, Put(q, h, Len(q[h]), e), e, h)
<1>1. q[h] \in Seq(Entry)
    BY DEF Apart, OfEntries
<1>2. Len(q[h]) \in 0..Len(q[h]) /\ 0 \in 0..Len(q[h])
    BY <1>1
<1>3. Append(q[h], e) = Inserted(q[h], Len(q[h]), e)
    <2>1. \A i \in 0..Len(q[h]) : i = Len(q[h]) => Append(q[h], e) = Inserted(q[h], i, e)
        BY <1>1, InsertedLast
    <2> QED
        BY <1>2, <2>1
<1>4. <<e>> \o q[h] = Inserted(q[h], 0, e)
    <2>1. \A i \in 0..Len(q[h]) : i = 0 => <<e>> \o q[h] = Inserted(q[h], i, e)
        BY <1>1, InsertedFirst
    <2> QED
        BY <1>2, <2>1
<1> QED
    BY <1>3, <1>4, Zenon DEF Put, AddedFirst, AddedLast

LEMMA MovedToEnds ==
    ASSUME NEW q, NEW e \in Entry, Apart(Taken(q, e)), NEW h \in Heads
    PROVE  /\ Put(Taken(q, e), h, 0, e) =
                [g \in Heads |-> IF g = h THEN <<e>> \o Without(q[g], e)
                                 ELSE Without(q[g], e)]
           /\ Put(Taken(q, e), h, Len(Taken(q, e)[h]), e) =
                [g \in Heads |-> IF g = h THEN Append(Without(q[g], e), e)
                                 ELSE Without(q[g], e)]
<1> DEFINE p == Taken(q, e)
           W(g) == Without(q[g], e)
<1>1. p = [g \in Heads |-> W(g)]
    BY DEF Taken
<1> HIDE DEF p, W
<1>2. AddedFirst(p, Put(p, h, 0, e), e, h) /\ AddedLast(p, Put(p, h, Len(p[h]), e), e, h)
    BY PutAtEnds DEF p
<1>3. [p EXCEPT ![h] = <<e>> \o @] = [g \in Heads |-> IF g = h THEN <<e>> \o W(g) ELSE W(g)]
    BY <1>1
<1>4. [p EXCEPT ![h] = Append(@, e)] = [g \in Heads |-> IF g = h THEN Append(W(g), e) ELSE W(g)]
    BY <1>1
<1> QED
    BY <1>2, <1>3, <1>4 DEF p, W, AddedFirst, AddedLast

AddedTo(q, p, e, h) == AddedFirst(q, p, e, h) \/ AddedLast(q, p, e, h)
MovedTo(q, p, e, h) ==
    \/ p = [g \in Heads |-> IF g = h THEN <<e>> \o Without(q[g], e) ELSE Without(q[g], e)]
    \/ p = [g \in Heads |-> IF g = h THEN Append(Without(q[g], e), e) ELSE Without(q[g], e)]

LEMMA PutIsAdded ==
    ASSUME NEW q, Apart(q), NEW e \in Entry, NEW h \in Heads,
           NEW p \in {Put(q, h, 0, e), Put(q, h, Len(q[h]), e)}
    PROVE  AddedTo(q, p, e, h)
BY PutAtEnds DEF AddedTo

LEMMA PutIsMoved ==
    ASSUME NEW q, NEW e \in Entry, Apart(Taken(q, e)), NEW h \in Heads,
           NEW p \in {Put(Taken(q, e), h, 0, e),
                      Put(Taken(q, e), h, Len(Taken(q, e)[h]), e)}
    PROVE  MovedTo(q, p, e, h)
<1>1. /\ Put(Taken(q, e), h, 0, e) =
            [g \in Heads |-> IF g = h THEN <<e>> \o Without(q[g], e)
                             ELSE Without(q[g], e)]
      /\ Put(Taken(q, e), h, Len(Taken(q, e)[h]), e) =
            [g \in Heads |-> IF g = h THEN Append(Without(q[g], e), e)
                             ELSE Without(q[g], e)]
    BY MovedToEnds
<1> QED
    BY <1>1, Zenon DEF MovedTo

LEMMA SameWithout ==
    ASSUME NEW s, NEW t
    PROVE  Lists!Without(s, t) = Without(s, t) /\ Lists!Range(s) = Range(s)
<1>1. Lists!Range(s) = Range(s)
    BY Zenon DEF Range, Lists!Range
<1>3. ASSUME NEW S, NEW key
      PROVE  Lists!Arrange(S, key) = Arrange(S, key)
    BY Zenon DEF Arrange, Lists!Arrange, Rank, UpTo, Lists!Rank, Lists!UpTo,
                 Cardinality, Lists!Cardinality
<1>4. Lists!Place(s) = Place(s)
    BY <1>1 DEF Place, Lists!Place
<1>5. ASSUME NEW S
      PROVE  Lists!Keep(s, S) = Keep(s, S)
    BY <1>1, <1>3, <1>4 DEF Keep, Lists!Keep
<1> QED
    BY <1>1, <1>5 DEF Without, Lists!Without

\* One list operation of ListSpec, from the lists q to the lists p.
Change(q, p) ==
    \E e \in Entry :
        \/ ~Unlisted(q, e) /\ p = Taken(q, e)
        \/ /\ Unlisted(q, e)
           /\ \E h \in Heads : p \in {Put(q, h, 0, e), Put(q, h, Len(q[h]), e)}
        \/ /\ ~Unlisted(q, e) /\ Apart(Taken(q, e))
           /\ \E h \in Heads : p \in {Put(Taken(q, e), h, 0, e),
                                      Put(Taken(q, e), h, Len(Taken(q, e)[h]), e)}

LEMMA ChangeIsListStep ==
    ASSUME NEW q, NEW p, Apart(q), Change(q, p), Walks(mem) = q, Walks(mem)' = p
    PROVE  Lists!Next
<1> DEFINE W == [h \in Heads |-> Walk(mem, h)]
           V == [h \in Heads |-> Walk(mem', h)]
<1>1. W = q /\ V = p
    BY DEF Walks
<1>2. PICK e \in Entry :
        \/ ~Unlisted(q, e) /\ p = Taken(q, e)
        \/ /\ Unlisted(q, e)
           /\ \E h \in Heads : p \in {Put(q, h, 0, e), Put(q, h, Len(q[h]), e)}
        \/ /\ ~Unlisted(q, e) /\ Apart(Taken(q, e))
           /\ \E h \in Heads : p \in {Put(Taken(q, e), h, 0, e),
                                      Put(Taken(q, e), h, Len(Taken(q, e)[h]), e)}
    BY DEF Change
<1>3. Lists!Free(e) <=> Unlisted(q, e)
    <2>1. Lists!Free(e) <=> \A h \in Heads : e \notin Lists!Range(W[h])
        BY DEF Lists!Free
    <2> HIDE DEF W
    <2>2. \A h \in Heads : Lists!Range(W[h]) = Range(q[h])
        BY <1>1, SameWithout
    <2> QED
        BY <2>1, <2>2 DEF Unlisted
<1>4. \A s : Lists!Without(s, e) = Without(s, e)
    BY SameWithout
<1>5. CASE ~Unlisted(q, e) /\ p = Taken(q, e)
    <2>1. V = [h \in Heads |-> Lists!Without(W[h], e)]
        <3> HIDE DEF W, V
        <3> QED
            BY <1>1, <1>4, <1>5 DEF Taken
    <2>2. Lists!Delete(e)
        BY <1>3, <1>5, <2>1 DEF Lists!Delete
    <2> QED
        BY <2>2 DEF Lists!Next
<1>6. ASSUME NEW h \in Heads, Unlisted(q, e),
             p \in {Put(q, h, 0, e), Put(q, h, Len(q[h]), e)}
      PROVE  Lists!Next
    <2>1. \/ V = [W EXCEPT ![h] = <<e>> \o @]
          \/ V = [W EXCEPT ![h] = Append(@, e)]
        <3>1. AddedTo(q, p, e, h)
            BY <1>6, PutIsAdded
        <3> HIDE DEF W, V
        <3>2. AddedTo(W, V, e, h)
            BY <1>1, <3>1
        <3> QED
            BY <3>2 DEF AddedTo, AddedFirst, AddedLast
    <2>2. Lists!AddFirst(e, h) \/ Lists!AddLast(e, h)
        BY <1>3, <1>6, <2>1 DEF Lists!AddFirst, Lists!AddLast
    <2> QED
        BY <2>2 DEF Lists!Next
<1>7. ASSUME NEW h \in Heads, ~Unlisted(q, e), Apart(Taken(q, e)),
             p \in {Put(Taken(q, e), h, 0, e),
                    Put(Taken(q, e), h, Len(Taken(q, e)[h]), e)}
      PROVE  Lists!Next
    <2>1. \/ V = [g \in Heads |-> IF g = h THEN <<e>> \o Lists!Without(W[g], e)
                                  ELSE Lists!Without(W[g], e)]
          \/ V = [g \in Heads |-> IF g = h THEN Append(Lists!Without(W[g], e), e)
                                  ELSE Lists!Without(W[g], e)]
        <3>1. MovedTo(q, p, e, h)
            BY <1>7, PutIsMoved
        <3> HIDE DEF W, V
        <3>2. MovedTo(W, V, e, h)
            BY <1>1, <3>1
        <3> QED
            BY <1>4, <3>2 DEF MovedTo
    <2>2. Lists!MoveFirst(e, h) \/ Lists!MoveLast(e, h)
        BY <1>3, <1>7, <2>1 DEF Lists!MoveFirst, Lists!MoveLast
    <2> QED
        BY <2>2 DEF Lists!Next
<1> QED
    BY <1>2, <1>5, <1>6, <1>7

---------------------------------------------------------------------------
(* The operations of a handler.                                            *)

LEMMA AloneIsUnlisted ==
    ASSUME NEW m, NEW q, NEW New, Whole(m, q, New), NEW e \in Entry \ New
    PROVE  m[e].next = e <=> Unlisted(q, e)
<1>1. Rings(m, q) /\ Backs(m, q) /\ Loose(m, q, New)
    BY DEF Whole
<1>2. Unlisted(q, e) => m[e].next = e
    BY <1>1 DEF Loose
<1>3. ~Unlisted(q, e) => m[e].next # e
    <2>1. \A n \in Entry : ~Unlisted(q, n) => m[n].next # n
        BY <1>1, ListedNode
    <2> QED
        BY <2>1
<1> QED
    BY <1>2, <1>3

\* An operation of a handler on the node e, from the memory m to m2, and one
\* that spares the prev of the head g.
Operates(m, m2, e) ==
    \/ m[e].next = e /\ \E h \in Heads : m2 \in {ListAdd(m, e, h), ListAddTail(m, e, h)}
    \/ m[e].next # e /\ m2 \in {Remove(m, e), ListDelInit(m, e)}
    \/ m[e].next # e /\ \E h \in Heads : m2 \in {ListMove(m, e, h), ListMoveTail(m, e, h)}

AddsSparing(m, m2, e, g) ==
    \E h \in Heads : \/ (m2 = ListAdd(m, e, h) /\ ~(h = g /\ m[h].next = h))
                    \/ (m2 = ListAddTail(m, e, h) /\ h # g)
MovesSparing(m, m2, e, g) ==
    \E h \in Heads : \/ (m2 = ListMove(m, e, h) /\ ~(h = g /\ m[h].next = h))
                    \/ (m2 = ListMoveTail(m, e, h) /\ h # g)
Spares(m, m2, e, g) ==
    \/ m[e].next = e /\ AddsSparing(m, m2, e, g)
    \/ m[e].next \notin {e, g} /\ m2 \in {Remove(m, e), ListDelInit(m, e)}
    \/ m[e].next \notin {e, g} /\ MovesSparing(m, m2, e, g)

LEMMA HandlerOperates ==
    ASSUME Handler
    PROVE  \E e \in Entry \ Private :
                /\ Operates(mem, mem', e)
                /\ raced' \/ (~raced /\ Spares(mem, mem', e, ins.head))
<1>1. PICK e \in Entry \ Private :
        \/ Alone(e) /\ \E h \in Heads : mem' = ListAdd(mem, e, h) /\ Races(AddsFirst(h))
        \/ Alone(e) /\ \E h \in Heads : mem' = ListAddTail(mem, e, h) /\ Races(AddsLast(h))
        \/ ~Alone(e) /\ mem' \in {Remove(mem, e), ListDelInit(mem, e)} /\ Races(TakesLast(e))
        \/ /\ ~Alone(e)
           /\ \E h \in Heads :
                mem' = ListMove(mem, e, h) /\ Races(TakesLast(e) \/ AddsFirst(h))
        \/ /\ ~Alone(e)
           /\ \E h \in Heads :
                mem' = ListMoveTail(mem, e, h) /\ Races(TakesLast(e) \/ AddsLast(h))
    BY DEF Handler
<1>2. Operates(mem, mem', e)
    BY <1>1, Zenon DEF Operates, Alone
<1>3. ASSUME ~raced'
      PROVE  ~raced /\ Spares(mem, mem', e, ins.head)
    <2>1. \A stores : Races(stores) => ~raced /\ ~stores
        BY <1>3 DEF Races
    <2>2. ASSUME NEW h \in Heads, Alone(e), mem' = ListAdd(mem, e, h), Races(AddsFirst(h))
          PROVE  ~raced /\ Spares(mem, mem', e, ins.head)
        <3>1. ~raced /\ ~AddsFirst(h)
            BY <2>1, <2>2
        <3>2. AddsSparing(mem, mem', e, ins.head)
            BY <2>2, <3>1, Zenon DEF AddsSparing, AddsFirst, ListEmpty
        <3> QED
            BY <2>2, <3>1, <3>2, Zenon DEF Spares, Alone
    <2>3. ASSUME NEW h \in Heads, Alone(e), mem' = ListAddTail(mem, e, h), Races(AddsLast(h))
          PROVE  ~raced /\ Spares(mem, mem', e, ins.head)
        <3>1. ~raced /\ ~AddsLast(h)
            BY <2>1, <2>3
        <3>2. AddsSparing(mem, mem', e, ins.head)
            BY <2>3, <3>1, Zenon DEF AddsSparing, AddsLast
        <3> QED
            BY <2>3, <3>1, <3>2, Zenon DEF Spares, Alone
    <2>4. ASSUME ~Alone(e), mem' \in {Remove(mem, e), ListDelInit(mem, e)}, Races(TakesLast(e))
          PROVE  ~raced /\ Spares(mem, mem', e, ins.head)
        <3>1. ~raced /\ ~TakesLast(e)
            BY <2>1, <2>4
        <3> QED
            BY <2>4, <3>1, Zenon DEF Spares, Alone, TakesLast
    <2>5. ASSUME NEW h \in Heads, ~Alone(e), mem' = ListMove(mem, e, h),
                 Races(TakesLast(e) \/ AddsFirst(h))
          PROVE  ~raced /\ Spares(mem, mem', e, ins.head)
        <3>1. ~raced /\ ~(TakesLast(e) \/ AddsFirst(h))
            BY <2>1, <2>5
        <3>2. MovesSparing(mem, mem', e, ins.head)
            BY <2>5, <3>1, Zenon DEF MovesSparing, AddsFirst, ListEmpty
        <3> QED
            BY <2>5, <3>1, <3>2, Zenon DEF Spares, Alone, TakesLast
    <2>6. ASSUME NEW h \in Heads, ~Alone(e), mem' = ListMoveTail(mem, e, h),
                 Races(TakesLast(e) \/ AddsLast(h))
          PROVE  ~raced /\ Spares(mem, mem', e, ins.head)
        <3>1. ~raced /\ ~(TakesLast(e) \/ AddsLast(h))
            BY <2>1, <2>6
        <3>2. MovesSparing(mem, mem', e, ins.head)
            BY <2>6, <3>1, Zenon DEF MovesSparing, AddsLast
        <3> QED
            BY <2>6, <3>1, <3>2, Zenon DEF Spares, Alone, TakesLast
    <2> QED
        BY <1>1, <2>2, <2>3, <2>4, <2>5, <2>6, Zenon
<1> QED
    BY <1>2, <1>3

\* The lists after an operation; new nodes are spared.
LEMMA OperationChanges ==
    ASSUME NEW m, NEW q, NEW New, Whole(m, q, New), NEW e \in Entry \ New,
           NEW m2, Operates(m, m2, e)
    PROVE  \E p : Whole(m2, p, New) /\ Change(q, p) /\ Spared(m, m2, q, p, e)
<1>2. m[e].next = e <=> Unlisted(q, e)
    BY AloneIsUnlisted
<1>3. Whole(m, q, New \cup {e})
    BY DEF Whole, Loose
<1>4. ASSUME NEW h \in Heads, m[e].next = e,
             m2 \in {ListAdd(m, e, h), ListAddTail(m, e, h)}
      PROVE  \E p : Whole(m2, p, New) /\ Change(q, p) /\ Spared(m, m2, q, p, e)
    <2>1. /\ Whole(ListAdd(m, e, h), Put(q, h, 0, e), New)
          /\ Whole(ListAddTail(m, e, h), Put(q, h, Len(q[h]), e), New)
          /\ Spared(m, ListAdd(m, e, h), q, Put(q, h, 0, e), e)
          /\ Spared(m, ListAddTail(m, e, h), q, Put(q, h, Len(q[h]), e), e)
        BY <1>2, <1>3, <1>4, AddsToList
    <2>2. Change(q, Put(q, h, 0, e)) /\ Change(q, Put(q, h, Len(q[h]), e))
        BY <1>2, <1>4 DEF Change
    <2> QED
        BY <1>4, <2>1, <2>2
<1>5. CASE m[e].next # e /\ m2 \in {Remove(m, e), ListDelInit(m, e)}
    <2>1. Whole(m2, Taken(q, e), New) /\ Spared(m, m2, q, Taken(q, e), e)
        <3>1. ~Unlisted(q, e)
            BY <1>2, <1>5
        <3>2. /\ Whole(Remove(m, e), Taken(q, e), New)
              /\ Spared(m, Remove(m, e), q, Taken(q, e), e)
              /\ Whole(ListDelInit(m, e), Taken(q, e), New)
              /\ Spared(m, ListDelInit(m, e), q, Taken(q, e), e)
            BY <3>1, TakesFromList
        <3> QED
            BY <1>5, <3>2
    <2>2. Change(q, Taken(q, e))
        BY <1>2, <1>5 DEF Change
    <2> QED
        BY <2>1, <2>2
<1>6. ASSUME NEW h \in Heads, m[e].next # e,
             m2 \in {ListMove(m, e, h), ListMoveTail(m, e, h)}
      PROVE  \E p : Whole(m2, p, New) /\ Change(q, p) /\ Spared(m, m2, q, p, e)
    <2> DEFINE u == Unlink(m, m[e].prev, m[e].next)
               t == Taken(q, e)
    <2>1. Whole(u, t, New \cup {e}) /\ Unlisted(t, e) /\ Spared(m, u, q, t, e)
        <3>1. ~Unlisted(q, e)
            BY <1>2, <1>6
        <3> QED
            BY <3>1, TakesFromList
    <2>2. m2 \in {ListAdd(u, e, h), ListAddTail(u, e, h)}
        BY <1>6 DEF ListMove, ListMoveTail
    <2>3. Apart(t)
        BY <2>1 DEF Whole, Rings
    <2>4. Change(q, Put(t, h, 0, e)) /\ Change(q, Put(t, h, Len(t[h]), e))
        BY <1>2, <1>6, <2>3 DEF Change
    <2> HIDE DEF u, t
    <2>5. /\ Whole(ListAdd(u, e, h), Put(t, h, 0, e), New)
          /\ Whole(ListAddTail(u, e, h), Put(t, h, Len(t[h]), e), New)
          /\ Spared(u, ListAdd(u, e, h), t, Put(t, h, 0, e), e)
          /\ Spared(u, ListAddTail(u, e, h), t, Put(t, h, Len(t[h]), e), e)
        BY <2>1, AddsToList
    <2>6. \A x, p : Spared(u, x, t, p, e) => Spared(m, x, q, p, e)
        BY <2>1 DEF Spared
    <2> QED
        BY <2>2, <2>4, <2>5, <2>6
<1> QED
    BY <1>4, <1>5, <1>6 DEF Operates

---------------------------------------------------------------------------
(* The store that is still to come, and the operations that spare it.      *)

\* The memory m with v in the prev of the head g.
HeadPrev(m, g, v) == [m EXCEPT ![g].prev = v]

LEMMA HeadPrevIs ==
    ASSUME NEW m \in Mem, NEW g \in Heads, NEW v \in Node
    PROVE  /\ PrevStored(m, HeadPrev(m, g, v), g, v)
           /\ \A e \in Entry : HeadPrev(m, g, v)[e] = m[e]
           /\ v = m[g].prev => HeadPrev(m, g, v) = m
<1>1. g \in Node /\ \A e \in Entry : e # g /\ e \in Node
    BY ListAssumption DEF Node
<1>2. PrevStored(m, HeadPrev(m, g, v), g, v)
    BY <1>1, PrevStoreIs DEF HeadPrev
<1> QED
    BY <1>1, <1>2 DEF HeadPrev, Mem

\* It makes no difference whether it is made before or after another store.
StoreNext(m, a, w) == [m EXCEPT ![a].next = w]
StorePrev(m, a, w) == [m EXCEPT ![a].prev = w]

LEMMA StoresCommute ==
    ASSUME NEW m \in Mem, NEW g \in Heads, NEW v \in Node, NEW a \in Node, NEW w \in Node
    PROVE  /\ StoreNext(m, a, w) \in Mem
           /\ StorePrev(m, a, w) \in Mem
           /\ StoreNext(HeadPrev(m, g, v), a, w) = HeadPrev(StoreNext(m, a, w), g, v)
           /\ a # g => StorePrev(HeadPrev(m, g, v), a, w) = HeadPrev(StorePrev(m, a, w), g, v)
<1>1. DOMAIN m = Node /\ g \in Node /\ \A n \in Node : m[n] \in [prev : Node, next : Node]
    BY DEF Mem, Node
<1>2. StoreNext(m, a, w) \in Mem
    BY DEF Mem, StoreNext
<1>3. StorePrev(m, a, w) \in Mem
    BY DEF Mem, StorePrev
<1>4. StoreNext(HeadPrev(m, g, v), a, w) = HeadPrev(StoreNext(m, a, w), g, v)
    <2>1. CASE a = g
        <3>1. [[m[a] EXCEPT !.prev = v] EXCEPT !.next = w] = [[m[a] EXCEPT !.next = w] EXCEPT !.prev = v]
            BY <1>1
        <3> QED
            BY <1>1, <2>1, <3>1 DEF HeadPrev, StoreNext
    <2>2. CASE a # g
        BY <1>1, <2>2 DEF HeadPrev, StoreNext
    <2> QED
        BY <2>1, <2>2
<1>5. ASSUME a # g
      PROVE  StorePrev(HeadPrev(m, g, v), a, w) = HeadPrev(StorePrev(m, a, w), g, v)
    BY <1>1, <1>5 DEF HeadPrev, StorePrev
<1> QED
    BY <1>2, <1>3, <1>4, <1>5

LEMMA InsertCommutes ==
    ASSUME NEW m \in Mem, NEW g \in Heads, NEW v \in Node, NEW e \in Entry,
           NEW a \in Node, NEW b \in Node
    PROVE  /\ Insert(m, e, a, b) \in Mem
           /\ b # g => Insert(HeadPrev(m, g, v), e, a, b) = HeadPrev(Insert(m, e, a, b), g, v)
<1> DEFINE l == HeadPrev(m, g, v)
           m1 == StoreNext(m, e, b)
           m2 == StorePrev(m1, e, a)
           m3 == StoreNext(m2, a, e)
           l1 == StoreNext(l, e, b)
           l2 == StorePrev(l1, e, a)
           l3 == StoreNext(l2, a, e)
<1>1. e \in Node /\ e # g
    BY ListAssumption DEF Node
<1>2. StorePrev(m3, b, e) = Insert(m, e, a, b) /\ StorePrev(l3, b, e) = Insert(l, e, a, b)
    BY DEF Insert, StoreNext, StorePrev
<1>3. m1 \in Mem /\ l1 = HeadPrev(m1, g, v)
    BY <1>1, StoresCommute
<1> HIDE DEF m1, l1
<1>4. m2 \in Mem /\ l2 = HeadPrev(m2, g, v)
    BY <1>1, <1>3, StoresCommute
<1> HIDE DEF m2, l2
<1>5. m3 \in Mem /\ l3 = HeadPrev(m3, g, v)
    BY <1>1, <1>4, StoresCommute
<1> HIDE DEF m3, l3
<1>6. /\ StorePrev(m3, b, e) \in Mem
      /\ b # g => StorePrev(l3, b, e) = HeadPrev(StorePrev(m3, b, e), g, v)
    BY <1>1, <1>5, StoresCommute
<1> QED
    BY <1>2, <1>6, Zenon

LEMMA UnlinkCommutes ==
    ASSUME NEW m \in Mem, NEW g \in Heads, NEW v \in Node, NEW a \in Node, NEW b \in Node
    PROVE  /\ Unlink(m, a, b) \in Mem
           /\ b # g => Unlink(HeadPrev(m, g, v), a, b) = HeadPrev(Unlink(m, a, b), g, v)
<1> DEFINE l == HeadPrev(m, g, v)
           m1 == StoreNext(m, a, b)
           l1 == StoreNext(l, a, b)
<1>1. StorePrev(m1, b, a) = Unlink(m, a, b) /\ StorePrev(l1, b, a) = Unlink(l, a, b)
    BY DEF Unlink, StoreNext, StorePrev
<1>2. m1 \in Mem /\ l1 = HeadPrev(m1, g, v)
    BY StoresCommute
<1> HIDE DEF m1, l1
<1>3. /\ StorePrev(m1, b, a) \in Mem
      /\ b # g => StorePrev(l1, b, a) = HeadPrev(StorePrev(m1, b, a), g, v)
    BY <1>2, StoresCommute
<1> QED
    BY <1>1, <1>3, Zenon

\* list_del with INIT_LIST_HEAD is list_del_init.
LEMMA ResetCommutes ==
    ASSUME NEW m \in Mem, NEW g \in Heads, NEW v \in Node, NEW e \in Entry, m[e].next # g,
           NEW l, l = HeadPrev(m, g, v)
    PROVE  /\ Remove(m, e) = ListDelInit(m, e) /\ Remove(l, e) = ListDelInit(l, e)
           /\ ListDelInit(m, e) \in Mem
           /\ ListDelInit(l, e) = HeadPrev(ListDelInit(m, e), g, v)
<1> DEFINE u == Unlink(m, m[e].prev, m[e].next)
           k == Unlink(l, l[e].prev, l[e].next)
           self == [prev |-> e, next |-> e]
           poisoned == [prev |-> Poison, next |-> Poison]
<1>1. e \in Node /\ e # g /\ m[e].prev \in Node /\ m[e].next \in Node
    BY ListAssumption DEF Node, Mem
<1>2. l[e] = m[e]
    BY HeadPrevIs
<1>3. u \in Mem /\ k = HeadPrev(u, g, v)
    BY <1>1, <1>2, UnlinkCommutes
<1>4. self \in [prev : Node, next : Node]
    BY <1>1
<1>5. /\ Remove(m, e) = [[u EXCEPT ![e] = poisoned] EXCEPT ![e] = self]
      /\ Remove(l, e) = [[k EXCEPT ![e] = poisoned] EXCEPT ![e] = self]
      /\ ListDelInit(m, e) = [u EXCEPT ![e] = self]
      /\ ListDelInit(l, e) = [k EXCEPT ![e] = self]
    BY DEF Remove, ListDel, ListDelInit, InitListHead
<1> HIDE DEF u, k, self, poisoned
<1>6. DOMAIN u = Node /\ DOMAIN k = Node
    BY <1>3 DEF Mem, HeadPrev
<1>7. \A x : DOMAIN x = Node => [[x EXCEPT ![e] = poisoned] EXCEPT ![e] = self] = [x EXCEPT ![e] = self]
    OBVIOUS
<1>8. [u EXCEPT ![e] = self] \in Mem
    BY <1>3, <1>4 DEF Mem
<1>9. [k EXCEPT ![e] = self] = HeadPrev([u EXCEPT ![e] = self], g, v)
    BY <1>1, <1>3, <1>4 DEF Mem, HeadPrev
<1> QED
    BY <1>5, <1>6, <1>7, <1>8, <1>9

\* An operation that spares the prev of a head does the same to the memory
\* that has another value there, and leaves the value.
LEMMA OperationCommutes ==
    ASSUME NEW m, NEW q, Rings(m, q), NEW e \in Entry, NEW g \in Heads, NEW v \in Node,
           NEW m2, Spares(m, m2, e, g)
    PROVE  /\ m2 \in Mem /\ Operates(HeadPrev(m, g, v), HeadPrev(m2, g, v), e)
           /\ v = m[g].prev => m2[g].prev = v
<1> DEFINE l == HeadPrev(m, g, v)
<1>1. m \in Mem /\ g \in Node /\ e \in Node
    BY DEF Rings, Node
<1>2. /\ l[e] = m[e] /\ \A n \in Node : l[n].next = m[n].next
      /\ \A n \in Node \ {g} : l[n].prev = m[n].prev
    BY <1>1, HeadPrevIs DEF PrevStored
<1>3. \A n \in Node : m[n].next \in Node /\ m[n].prev \in Node
    BY <1>1 DEF Mem
<1>8. v = m[g].prev => l = m
    BY <1>1, HeadPrevIs
<1>9. m2 \in Mem /\ HeadPrev(m2, g, v) = m2 => m2[g].prev = v
    BY <1>1, HeadPrevIs DEF PrevStored
<1>4. \A h \in Heads : h \in Node /\ (m[h].next = g => h = g)
    <2> SUFFICES ASSUME NEW h \in Heads, m[h].next = g PROVE h = g
        BY DEF Node
    <2>1. OfEntries(q[h]) /\ Forward(m, h, q[h])
        BY DEF Rings, Apart
    <2>2. Len(q[h]) \in Nat /\ Spot(h, q[h], 0) = h
        BY <2>1, SpotsDiffer
    <2>3. m[h].next = Spot(h, q[h], 1)
        <3>1. 0 \in 0..Len(q[h]) /\ 0 + 1 = 1
            BY <2>2
        <3> QED
            BY <2>1, <2>2, <3>1 DEF Forward
    <2>4. Spot(h, q[h], 1) \in {h} \cup Range(q[h])
        <3>1. 1 \in 0..Len(q[h])+1
            BY <2>2
        <3> QED
            BY <2>1, <3>1, SpotsAre
    <2>5. Range(q[h]) \subseteq Entry
        BY <2>1, RangeOfQueue DEF OfEntries
    <2> QED
        BY <2>3, <2>4, <2>5, ListAssumption
<1> HIDE DEF l
<1>5. CASE m[e].next = e /\ AddsSparing(m, m2, e, g)
    <2>1. PICK h \in Heads : \/ (m2 = ListAdd(m, e, h) /\ ~(h = g /\ m[h].next = h))
                            \/ (m2 = ListAddTail(m, e, h) /\ h # g)
        BY <1>5, Zenon DEF AddsSparing
    <2>2. h \in Node
        BY <1>4
    <2>3. CASE m2 = ListAdd(m, e, h) /\ ~(h = g /\ m[h].next = h)
        <3>1. m[h].next # g
            BY <1>4, <2>3
        <3>2. ListAdd(l, e, h) = Insert(l, e, h, m[h].next)
            BY <1>2, <2>2 DEF ListAdd
        <3>3. m2 \in Mem /\ HeadPrev(m2, g, v) = ListAdd(l, e, h)
            BY <1>1, <1>3, <2>2, <2>3, <3>1, <3>2, InsertCommutes DEF ListAdd, l
        <3> QED
            BY <1>2, <1>5, <3>3, <2>3, <1>8, <1>9 DEF Operates, l
    <2>4. CASE m2 = ListAddTail(m, e, h) /\ h # g
        <3>1. ListAddTail(l, e, h) = Insert(l, e, m[h].prev, h)
            BY <1>2, <2>2, <2>4 DEF ListAddTail
        <3>2. m2 \in Mem /\ HeadPrev(m2, g, v) = ListAddTail(l, e, h)
            BY <1>1, <1>3, <2>2, <2>4, <3>1, InsertCommutes DEF ListAddTail, l
        <3> QED
            BY <1>2, <1>5, <3>2, <2>4, <1>8, <1>9 DEF Operates, l
    <2> QED
        BY <2>1, <2>3, <2>4
<1>6. CASE m[e].next \notin {e, g} /\ m2 \in {Remove(m, e), ListDelInit(m, e)}
    <2>1. /\ Remove(m, e) = ListDelInit(m, e) /\ ListDelInit(m, e) \in Mem
          /\ ListDelInit(l, e) = HeadPrev(ListDelInit(m, e), g, v)
        BY <1>1, <1>6, ResetCommutes DEF l
    <2> QED
        BY <1>2, <1>6, <2>1, <1>8, <1>9 DEF Operates, l
<1>7. CASE m[e].next \notin {e, g} /\ MovesSparing(m, m2, e, g)
    <2> DEFINE u == Unlink(m, m[e].prev, m[e].next)
               k == Unlink(l, l[e].prev, l[e].next)
    <2>1. PICK h \in Heads : \/ (m2 = ListMove(m, e, h) /\ ~(h = g /\ m[h].next = h))
                            \/ (m2 = ListMoveTail(m, e, h) /\ h # g)
        BY <1>7, Zenon DEF MovesSparing
    <2>2. h \in Node /\ m[e].next \in Node /\ m[e].prev \in Node
        BY <1>1, <1>3, <1>4
    <2>3. u \in Mem /\ k = HeadPrev(u, g, v)
        BY <1>1, <1>2, <1>7, <2>2, UnlinkCommutes DEF l
    <2>4. u[h].next = IF h = m[e].prev THEN m[e].next ELSE m[h].next
        <3>1. [m EXCEPT ![m[e].prev].next = m[e].next] \in Mem
            BY <1>1, <2>2, StoresCommute, Zenon DEF StoreNext
        <3> QED
            BY <1>1, <2>2, <3>1 DEF Unlink, Mem
    <2>5. /\ ListMove(m, e, h) = ListAdd(u, e, h) /\ ListMove(l, e, h) = ListAdd(k, e, h)
          /\ ListMoveTail(m, e, h) = ListAddTail(u, e, h)
          /\ ListMoveTail(l, e, h) = ListAddTail(k, e, h)
        BY DEF ListMove, ListMoveTail
    <2> HIDE DEF u, k
    <2>6. /\ \A n \in Node : k[n].next = u[n].next
          /\ \A n \in Node \ {g} : k[n].prev = u[n].prev
        <3>1. PrevStored(u, k, g, v)
            BY <2>3, HeadPrevIs
        <3> QED
            BY <3>1 DEF PrevStored
    <2>7. \A n \in Node : u[n].next \in Node /\ u[n].prev \in Node
        BY <2>3 DEF Mem
    <2>8. CASE m2 = ListMove(m, e, h) /\ ~(h = g /\ m[h].next = h)
        <3>1. u[h].next # g
            BY <1>4, <1>7, <2>4, <2>8
        <3>2. ListAdd(k, e, h) = Insert(k, e, h, u[h].next)
            BY <2>2, <2>6 DEF ListAdd
        <3>3. m2 \in Mem /\ HeadPrev(m2, g, v) = ListMove(l, e, h)
            BY <2>2, <2>3, <2>5, <2>7, <2>8, <3>1, <3>2, InsertCommutes DEF ListAdd
        <3> QED
            BY <1>2, <1>7, <3>3, <2>8, <1>8, <1>9 DEF Operates, l
    <2>9. CASE m2 = ListMoveTail(m, e, h) /\ h # g
        <3>1. ListAddTail(k, e, h) = Insert(k, e, u[h].prev, h)
            BY <2>2, <2>6, <2>9 DEF ListAddTail
        <3>2. m2 \in Mem /\ HeadPrev(m2, g, v) = ListMoveTail(l, e, h)
            BY <2>2, <2>3, <2>5, <2>7, <2>9, <3>1, InsertCommutes DEF ListAddTail
        <3> QED
            BY <1>2, <1>7, <3>2, <2>9, <1>8, <1>9 DEF Operates, l
    <2> QED
        BY <2>1, <2>8, <2>9
<1> QED
    BY <1>5, <1>6, <1>7 DEF Spares

---------------------------------------------------------------------------
(* The steps.                                                              *)

LEMMA InitLists ==
    ASSUME Init
    PROVE  ListInv /\ Lists!Init
<1> DEFINE q == [h \in Heads |-> <<>>]
<1>1. mem = [n \in Node |-> [prev |-> n, next |-> n]]
    BY DEF Init, Node
<1>2. mem \in Mem /\ \A n \in Node : mem[n].prev = n /\ mem[n].next = n
    BY <1>1 DEF Mem
<1>3. OfEntries(<<>>) /\ Range(<<>>) = {}
    <2>1. IsInjective(<<>>) /\ Range(<<>>) = {}
        BY DEF IsInjective, Range
    <2> QED
        BY <2>1 DEF OfEntries
<1>4. Apart(q)
    BY <1>3 DEF Apart
<1>5. ASSUME NEW h \in Heads
      PROVE  Forward(mem, h, <<>>) /\ Backward(mem, h, <<>>)
    <2>1. \A k : Spot(h, <<>>, k) = h
        BY DEF Spot
    <2> QED
        BY <1>2, <2>1 DEF Forward, Backward, Node
<1>6. Whole(mem, q, {})
    BY <1>2, <1>4, <1>5 DEF Whole, Rings, Backs, Loose, Node
<1>7. q = Walks(mem)
    BY <1>6, WalksAre DEF Whole
<1> HIDE DEF q
<1>8. ListInv
    BY <1>6, <1>7 DEF Init, ListInv
<1>9. Lists!Init
    <2>1. Walks(mem) \in [Heads -> {<<>>}]
        BY <1>7 DEF q
    <2> QED
        BY <2>1 DEF Lists!Init, Walks
<1> QED
    BY <1>8, <1>9

\* A store into a node that is on no list.
LEMMA StoreUnlisted ==
    ASSUME NEW m, NEW q, NEW e \in Entry, Whole(m, q, {e}), Unlisted(q, e),
           NEW m2 \in Mem,
           \A n \in Node \ {e} : m2[n].next = m[n].next /\ m2[n].prev = m[n].prev
    PROVE  Whole(m2, q, {e})
<1>1. Rings(m, q) /\ Backs(m, q) /\ Loose(m, q, {e}) /\ m \in Mem
    BY DEF Whole, Rings
<1>2. ASSUME NEW h \in Heads
      PROVE  Forward(m2, h, q[h]) /\ Backward(m2, h, q[h])
    <2>1. OfEntries(q[h]) /\ Forward(m, h, q[h]) /\ Backward(m, h, q[h])
        BY <1>1 DEF Rings, Apart, Backs
    <2>2. Range(q[h]) \subseteq Entry
        BY <2>1, RangeOfQueue DEF OfEntries
    <2>3. \A n \in {h} \cup Range(q[h]) : n \in Node \ {e}
        BY <2>2, ListAssumption DEF Unlisted, Node
    <2> QED
        BY <1>1, <2>1, <2>3, RingSame
<1>3. Loose(m2, q, {e})
    BY <1>1 DEF Loose, Node
<1> QED
    BY <1>1, <1>2, <1>3 DEF Whole, Rings, Backs

\* Before the third store the handlers do not meet the new node.
LEMMA HandlerSparesNew ==
    ASSUME ListInv, ins.step \in 1..3, ins' = ins, NEW e \in Entry \ {ins.new},
           Operates(mem, mem', e), Spares(mem, mem', e, ins.head)
    PROVE  Unlinked' /\ Lists!Next
<1> DEFINE q == Walks(mem)
           g == ins.head
           x == ins.new
           v == mem[g].prev
<1>1. /\ x \in Entry /\ g \in Heads /\ Whole(mem, q, {x}) /\ Unlisted(q, x) /\ ins.prev = v
      /\ (ins.step # 1 => mem[x].next = g) /\ (ins.step = 3 => mem[x].prev = ins.prev)
    BY DEF ListInv, Unlinked
<1>2. Rings(mem, q) /\ Apart(q) /\ mem \in Mem
    BY <1>1 DEF Whole, Rings
<1>3. v \in Node
    BY <1>1, <1>2 DEF Mem, Node
<1>4. PICK p : Whole(mem', p, {x}) /\ Change(q, p) /\ Spared(mem, mem', q, p, e)
    BY <1>1, OperationChanges
<1>5. p = Walks(mem')
    BY <1>4, WalksAre DEF Whole
<1>6. Lists!Next
    BY <1>2, <1>4, <1>5, ChangeIsListStep
<1>7. mem'[x].next = mem[x].next /\ mem'[x].prev = mem[x].prev /\ Unlisted(p, x)
    BY <1>1, <1>4 DEF Spared
<1>8. mem'[g].prev = v
    BY <1>1, <1>2, <1>3, OperationCommutes
<1>9. ins'.new = x /\ ins'.head = g /\ ins'.prev = ins.prev /\ ins'.step = ins.step
    OBVIOUS
<1> HIDE DEF q, g, x, v
<1>10. Unlinked'
    BY <1>1, <1>4, <1>5, <1>7, <1>8, <1>9 DEF Unlinked
<1> QED
    BY <1>6, <1>10

\* From then on it makes no difference to them that a store is to come.
LEMMA HandlerSparesStore ==
    ASSUME ListInv, ins.step = 4, ins' = ins, NEW e \in Entry,
           Spares(mem, mem', e, ins.head)
    PROVE  LinkedForward' /\ Lists!Next
<1> DEFINE q == Walks(mem)
           g == ins.head
           v == ins.new
           l == HeadPrev(mem, g, v)
           k == HeadPrev(mem', g, v)
<1>1. v \in Entry /\ g \in Heads /\ Rings(mem, q) /\ LastStore = l /\ Whole(l, q, {})
    BY DEF ListInv, LinkedForward, LastStore, HeadPrev
<1>2. v \in Node /\ g \in Node /\ Apart(q) /\ LastStore' = k /\ ins'.new = v /\ ins'.head = g
    BY <1>1 DEF LastStore, HeadPrev, Node, Rings
<1> HIDE DEF q, g, v, l
<1>3. mem' \in Mem /\ Operates(l, k, e)
    BY <1>1, <1>2, OperationCommutes DEF l, g
<1> HIDE DEF k
<1>4. PICK p : Whole(k, p, {}) /\ Change(q, p)
    BY <1>1, <1>3, OperationChanges
<1>5. Rings(mem', p)
    <2>1. Rings(k, p)
        BY <1>4 DEF Whole
    <2>2. k \in Mem /\ \A n \in Node : k[n].next = mem'[n].next
        BY <1>1, <1>2, <1>3, HeadPrevIs DEF k, PrevStored
    <2>3. ASSUME NEW h \in Heads
          PROVE  Forward(mem', h, p[h])
        <3>1. OfEntries(p[h]) /\ Forward(k, h, p[h])
            BY <2>1 DEF Rings, Apart
        <3>2. \A n \in {h} \cup Range(p[h]) : n \in Node
            <4>1. Range(p[h]) \subseteq Entry
                BY <3>1, RangeOfQueue DEF OfEntries
            <4> QED
                BY <4>1 DEF Node
        <3> QED
            BY <1>3, <2>2, <3>1, <3>2, RingSame
    <2> QED
        BY <1>3, <2>1, <2>3 DEF Rings
<1>6. p = Walks(mem')
    BY <1>5, WalksAre
<1>7. Lists!Next
    BY <1>2, <1>4, <1>6, ChangeIsListStep DEF q
<1>8. LinkedForward'
    BY <1>1, <1>2, <1>4, <1>5, <1>6 DEF LinkedForward
<1> QED
    BY <1>7, <1>8

LEMMA HandlerKeeps ==
    ASSUME ListInv, Handler, ~raced'
    PROVE  ListInv' /\ Lists!Next
<1> DEFINE q == Walks(mem)
<1>1. ins' = ins /\ ins.step \in 0..4
    BY DEF Handler, ListInv
<1>2. PICK e \in Entry \ Private :
            Operates(mem, mem', e) /\ Spares(mem, mem', e, ins.head)
    BY HandlerOperates
<1>3. CASE ins.step = 0
    <2>1. Whole(mem, q, {}) /\ Apart(q)
        BY <1>3 DEF ListInv, Whole, Rings
    <2> HIDE DEF q
    <2>2. PICK p : Whole(mem', p, {}) /\ Change(q, p)
        BY <1>2, <2>1, OperationChanges
    <2>3. p = Walks(mem')
        BY <2>2, WalksAre DEF Whole
    <2>4. ListInv'
        BY <1>1, <1>3, <2>2, <2>3 DEF ListInv
    <2>5. Lists!Next
        BY <2>1, <2>2, <2>3, ChangeIsListStep DEF q
    <2> QED
        BY <2>4, <2>5
<1>4. CASE ins.step \in 1..3
    <2>1. e # ins.new
        BY <1>4 DEF Private
    <2>2. Unlinked' /\ Lists!Next
        BY <1>1, <1>2, <1>4, <2>1, HandlerSparesNew
    <2> QED
        BY <1>1, <1>4, <2>2 DEF ListInv
<1>5. CASE ins.step = 4
    <2>1. LinkedForward' /\ Lists!Next
        BY <1>1, <1>2, <1>5, HandlerSparesStore
    <2> QED
        BY <1>1, <1>5, <2>1 DEF ListInv
<1> QED
    BY <1>1, <1>3, <1>4, <1>5

LEMMA InsertBeginsKeeps ==
    ASSUME ListInv, InsertBegins
    PROVE  ListInv' /\ Walks(mem)' = Walks(mem)
<1> DEFINE q == Walks(mem)
<1>1. PICK e \in Entry, h \in Heads :
        /\ Alone(e)
        /\ ins' = [step |-> 1, new |-> e, prev |-> mem[h].prev, head |-> h]
    BY DEF InsertBegins
<1>2. ins.step = 0 /\ mem' = mem
    BY DEF InsertBegins
<1>3. Whole(mem, q, {}) /\ mem \in Mem
    BY <1>2 DEF ListInv, Whole, Rings
<1>4. Unlisted(q, e)
    <2>1. mem[e].next = e
        BY <1>1 DEF Alone
    <2>2. e \in Entry \ {}
        OBVIOUS
    <2> HIDE DEF q
    <2> QED
        BY <1>3, <2>1, <2>2, AloneIsUnlisted
<1>5. Whole(mem, q, {e})
    BY <1>3 DEF Whole, Loose
<1>6. mem[h].prev \in Node
    BY <1>3 DEF Mem, Node
<1>7. Walks(mem)' = q
    BY <1>2
<1> HIDE DEF q
<1>8. Unlinked'
    BY <1>1, <1>2, <1>4, <1>5, <1>7 DEF Unlinked
<1>9. ListInv'
    BY <1>1, <1>6, <1>8 DEF ListInv
<1> QED
    BY <1>7, <1>9 DEF q

\* What is known while the node is not linked yet.
LEMMA UnlinkedFacts ==
    ASSUME ListInv, ins.step \in 1..3
    PROVE  /\ ins.new \in Entry /\ ins.head \in Heads /\ ins.new # ins.head
           /\ ins.new \in Node /\ ins.head \in Node /\ mem \in Mem
           /\ ins.prev \in Node /\ ins.prev # ins.new
           /\ ins.prev = Spot(ins.head, Walks(mem)[ins.head], Len(Walks(mem)[ins.head]))
           /\ Len(Walks(mem)[ins.head]) \in Nat
<1> DEFINE q == Walks(mem)
           h == ins.head
           n == Len(q[h])
<1>1. Unlinked
    BY DEF ListInv
<1>2. ins.new \in Entry /\ ins.head \in Heads /\ Rings(mem, q) /\ Backs(mem, q)
      /\ Unlisted(q, ins.new) /\ ins.prev = mem[h].prev
    BY <1>1 DEF Unlinked, Whole
<1>3. mem \in Mem /\ OfEntries(q[h]) /\ Backward(mem, h, q[h])
    BY <1>2 DEF Rings, Apart, Backs
<1>4. n \in Nat /\ Spot(h, q[h], n + 1) = h
    BY <1>2, <1>3, SpotsDiffer
<1>5. ins.prev = Spot(h, q[h], n)
    BY <1>2, <1>3, <1>4 DEF Backward
<1>6. Spot(h, q[h], n) \in Node /\ Spot(h, q[h], n) # ins.new
    <2>1. n \in 0..n+1
        BY <1>4
    <2> HIDE DEF q, h
    <2> QED
        BY <1>2, <2>1, SpotIsListed DEF h
<1> QED
    BY <1>2, <1>3, <1>4, <1>5, <1>6, ListAssumption DEF Node

LEMMA StoreNewNextKeeps ==
    ASSUME ListInv, StoreNewNext
    PROVE  ListInv' /\ Walks(mem)' = Walks(mem)
<1> DEFINE q == Walks(mem)
           e == ins.new
           h == ins.head
<1>1. ins.step = 1 /\ ins' = [ins EXCEPT !.step = 2] /\ mem' = [mem EXCEPT ![e].next = h]
    BY DEF StoreNewNext, InsertStores
<1>2. Unlinked /\ ins \in [step : 0..4, new : Entry \cup {None}, prev : Node \cup {None},
                           head : Heads \cup {None}]
    BY <1>1 DEF ListInv
<1>3. e \in Entry /\ h \in Heads /\ e # h /\ e \in Node /\ h \in Node /\ mem \in Mem
    BY <1>1, UnlinkedFacts
<1>4. Whole(mem, q, {e}) /\ Unlisted(q, e) /\ ins.prev = mem[h].prev
    BY <1>2 DEF Unlinked
<1>5. NextStored(mem, mem', e, h)
    BY <1>1, <1>3, NextStoreIs
<1>6. Whole(mem', q, {e})
    BY <1>3, <1>4, <1>5, StoreUnlisted DEF NextStored
<1>7. q = Walks(mem')
    BY <1>6, WalksAre DEF Whole
<1>8. /\ ins'.step = 2 /\ ins'.new = e /\ ins'.head = h /\ ins'.prev = ins.prev
      /\ ins' \in [step : 0..4, new : Entry \cup {None}, prev : Node \cup {None},
                   head : Heads \cup {None}]
    BY <1>1, <1>2
<1>9. mem'[e].next = h /\ mem'[h].prev = ins.prev
    BY <1>3, <1>4, <1>5 DEF NextStored
<1> HIDE DEF q, e, h
<1>10. Unlinked'
    BY <1>3, <1>4, <1>6, <1>7, <1>8, <1>9 DEF Unlinked
<1>11. ListInv'
    BY <1>8, <1>10 DEF ListInv
<1> QED
    BY <1>7, <1>11 DEF q

LEMMA StoreNewPrevKeeps ==
    ASSUME ListInv, StoreNewPrev
    PROVE  ListInv' /\ Walks(mem)' = Walks(mem)
<1> DEFINE q == Walks(mem)
           e == ins.new
           h == ins.head
           a == ins.prev
<1>1. ins.step = 2 /\ ins' = [ins EXCEPT !.step = 3] /\ mem' = [mem EXCEPT ![e].prev = a]
    BY DEF StoreNewPrev, InsertStores
<1>2. Unlinked /\ ins \in [step : 0..4, new : Entry \cup {None}, prev : Node \cup {None},
                           head : Heads \cup {None}]
    BY <1>1 DEF ListInv
<1>3. /\ e \in Entry /\ h \in Heads /\ e # h /\ e \in Node /\ h \in Node /\ mem \in Mem
      /\ a \in Node
    BY <1>1, UnlinkedFacts
<1>4. /\ Whole(mem, q, {e}) /\ Unlisted(q, e) /\ a = mem[h].prev
      /\ mem[e].next = h
    BY <1>1, <1>2 DEF Unlinked
<1>5. PrevStored(mem, mem', e, a)
    BY <1>1, <1>3, PrevStoreIs
<1>6. Whole(mem', q, {e})
    BY <1>3, <1>4, <1>5, StoreUnlisted DEF PrevStored
<1>7. q = Walks(mem')
    BY <1>6, WalksAre DEF Whole
<1>8. /\ ins'.step = 3 /\ ins'.new = e /\ ins'.head = h /\ ins'.prev = a
      /\ ins' \in [step : 0..4, new : Entry \cup {None}, prev : Node \cup {None},
                   head : Heads \cup {None}]
    BY <1>1, <1>2
<1>9. mem'[e].next = h /\ mem'[h].prev = a /\ mem'[e].prev = a
    BY <1>3, <1>4, <1>5 DEF PrevStored
<1> HIDE DEF q, e, h, a
<1>10. Unlinked'
    BY <1>3, <1>4, <1>6, <1>7, <1>8, <1>9 DEF Unlinked
<1>11. ListInv'
    BY <1>8, <1>10 DEF ListInv
<1> QED
    BY <1>7, <1>11 DEF q

\* The stores that make the node the last one of a list.
LEMMA AppendsToList ==
    ASSUME NEW m, NEW q, Rings(m, q), NEW h \in Heads, NEW e \in Entry, Unlisted(q, e),
           NEW m2, NextInto(m, m2, Spot(h, q[h], Len(q[h])), e, h)
    PROVE  /\ Rings(m2, Put(q, h, Len(q[h]), e))
           /\ e \in Range(Put(q, h, Len(q[h]), e)[h])
           /\ Loose(m, q, {e}) => Loose(m2, Put(q, h, Len(q[h]), e), {})
           /\ /\ Backs(m, q) /\ PrevInto(m, m2, Spot(h, q[h], Len(q[h])), e, h)
              => Backs(m2, Put(q, h, Len(q[h]), e))
<1>1. OfEntries(q[h])
    BY DEF Rings, Apart
<1>2. Len(q[h]) \in 0..Len(q[h]) /\ Spot(h, q[h], Len(q[h]) + 1) = h
    BY <1>1, SpotsDiffer
<1>3. PICK i \in 0..Len(q[h]) : i = Len(q[h])
    BY <1>2
<1>4. NextInto(m, m2, Spot(h, q[h], i), e, Spot(h, q[h], i + 1))
    BY <1>2, <1>3
<1>5. Rings(m2, Put(q, h, i, e)) /\ (Loose(m, q, {e}) => Loose(m2, Put(q, h, i, e), {}))
    <2>1. \A k \in 0..Len(q[h]) : NextInto(m, m2, Spot(h, q[h], k), e, Spot(h, q[h], k + 1))
            => /\ Rings(m2, Put(q, h, k, e))
               /\ \A New : Loose(m, q, New \cup {e}) => Loose(m2, Put(q, h, k, e), New)
        BY InsertKeepsRings
    <2>2. Loose(m, q, {} \cup {e}) => Loose(m2, Put(q, h, i, e), {})
        BY <1>4, <2>1, Zenon
    <2>3. {} \cup {e} = {e}
        OBVIOUS
    <2> QED
        BY <1>4, <2>1, <2>2, <2>3, Zenon
<1>6. ASSUME Backs(m, q), PrevInto(m, m2, Spot(h, q[h], Len(q[h])), e, h)
      PROVE  Backs(m2, Put(q, h, i, e))
    <2>1. PrevInto(m, m2, Spot(h, q[h], i), e, Spot(h, q[h], i + 1))
        BY <1>2, <1>3, <1>6
    <2>2. \A k \in 0..Len(q[h]) : PrevInto(m, m2, Spot(h, q[h], k), e, Spot(h, q[h], k + 1))
            => Backs(m2, Put(q, h, k, e))
        BY <1>6, InsertKeepsBacks
    <2> QED
        BY <2>1, <2>2, Zenon
<1>7. e \in Range(Put(q, h, i, e)[h])
    <2>1. Put(q, h, i, e)[h] = Inserted(q[h], i, e)
        BY DEF Rings, Apart, Put
    <2>2. Range(Inserted(q[h], i, e)) = Range(q[h]) \cup {e}
        BY <1>1, InsertedRange DEF OfEntries
    <2> QED
        BY <2>1, <2>2
<1> QED
    BY <1>3, <1>5, <1>6, <1>7, Zenon

\* The third store links the node: the list grows by it, and the memory that
\* lacks the last store has the forward pointers of that list.
LEMMA StorePrevNextKeeps ==
    ASSUME ListInv, StorePrevNext
    PROVE  ListInv' /\ Lists!Next
<1> DEFINE q == Walks(mem)
           e == ins.new
           h == ins.head
           a == ins.prev
           n == Len(q[h])
           p == Put(q, h, n, e)
           l == [mem' EXCEPT ![h].prev = e]
<1>1. ins.step = 3 /\ ins' = [ins EXCEPT !.step = 4] /\ mem' = [mem EXCEPT ![a].next = e]
    BY DEF StorePrevNext, InsertStores
<1>2. Unlinked /\ ins \in [step : 0..4, new : Entry \cup {None}, prev : Node \cup {None},
                           head : Heads \cup {None}]
    BY <1>1 DEF ListInv
<1>3. /\ e \in Entry /\ h \in Heads /\ e # h /\ e \in Node /\ h \in Node /\ mem \in Mem
      /\ a \in Node /\ a # e /\ a = Spot(h, q[h], n) /\ n \in Nat
    BY <1>1, UnlinkedFacts
<1>4. /\ Rings(mem, q) /\ Backs(mem, q) /\ Loose(mem, q, {e}) /\ Unlisted(q, e)
      /\ mem[e].next = h /\ mem[e].prev = a
    BY <1>1, <1>2 DEF Unlinked, Whole
<1>5. Spot(h, q[h], n + 1) = h /\ n \in 0..n
    BY <1>3, <1>4, SpotsDiffer DEF Rings, Apart
<1>6. NextStored(mem, mem', a, e)
    BY <1>1, <1>3, NextStoreIs
<1>7. mem' \in Mem
    BY <1>6 DEF NextStored
<1>8. PrevStored(mem', l, h, e)
    BY <1>3, <1>7, PrevStoreIs
<1>9. NextInto(mem, mem', a, e, h)
    BY <1>3, <1>4, <1>6 DEF NextInto, NextStored
<1>10. NextInto(mem, l, a, e, h)
    <2> HIDE DEF l
    <2> QED
        BY <1>3, <1>4, <1>6, <1>8 DEF NextInto, NextStored, PrevStored
<1>11. PrevInto(mem, l, a, e, h)
    <2> HIDE DEF l
    <2> QED
        BY <1>3, <1>4, <1>6, <1>8 DEF PrevInto, NextStored, PrevStored
<1>12. ins'.step = 4 /\ ins'.new = e /\ ins'.head = h
       /\ ins' \in [step : 0..4, new : Entry \cup {None}, prev : Node \cup {None},
                    head : Heads \cup {None}]
    BY <1>1, <1>2
<1>13. LastStore' = l
    BY <1>12 DEF LastStore
<1> HIDE DEF l, q, e, h, a
<1>14. Rings(mem', p) /\ e \in Range(p[h])
    <2>1. NextInto(mem, mem', Spot(h, q[h], Len(q[h])), e, h)
        BY <1>3, <1>9
    <2> QED
        BY <1>3, <1>4, <2>1, AppendsToList
<1>15. Whole(l, p, {})
    <2>1. /\ NextInto(mem, l, Spot(h, q[h], Len(q[h])), e, h)
          /\ PrevInto(mem, l, Spot(h, q[h], Len(q[h])), e, h)
        BY <1>3, <1>10, <1>11
    <2>2. Rings(l, p) /\ Loose(l, p, {}) /\ Backs(l, p)
        BY <1>3, <1>4, <2>1, AppendsToList
    <2> QED
        BY <2>2 DEF Whole
<1>16. p = Walks(mem')
    BY <1>14, WalksAre
<1>17. Change(q, p)
    BY <1>3, <1>4 DEF Change
<1> HIDE DEF p, n
<1>18. Lists!Next
    <2>1. Apart(q)
        BY <1>4 DEF Rings
    <2> QED
        BY <1>16, <1>17, <2>1, ChangeIsListStep DEF q
<1>19. LinkedForward'
    BY <1>3, <1>12, <1>13, <1>14, <1>15, <1>16 DEF LinkedForward
<1>20. ListInv'
    BY <1>12, <1>19 DEF ListInv
<1> QED
    BY <1>18, <1>20

LEMMA StoreHeadPrevKeeps ==
    ASSUME ListInv, StoreHeadPrev
    PROVE  ListInv' /\ Walks(mem)' = Walks(mem)
<1> DEFINE q == Walks(mem)
<1>1. /\ ins.step = 4 /\ mem' = LastStore
      /\ ins' = [step |-> 0, new |-> None, prev |-> None, head |-> None]
    BY DEF StoreHeadPrev, LastStore
<1>2. Whole(mem', q, {})
    BY <1>1 DEF ListInv, LinkedForward
<1>3. q = Walks(mem')
    BY <1>2, WalksAre DEF Whole
<1> HIDE DEF q
<1>4. ListInv'
    BY <1>1, <1>2, <1>3 DEF ListInv
<1> QED
    BY <1>3, <1>4 DEF q

LEMMA NextKeepsLists ==
    ASSUME ListInv, [Next]_vars, ~raced'
    PROVE  ListInv' /\ (Lists!Next \/ Walks(mem)' = Walks(mem))
<1>1. CASE Handler
    BY <1>1, HandlerKeeps
<1>2. CASE InsertBegins
    BY <1>2, InsertBeginsKeeps
<1>3. CASE StoreNewNext
    BY <1>3, StoreNewNextKeeps
<1>4. CASE StoreNewPrev
    BY <1>4, StoreNewPrevKeeps
<1>5. CASE StorePrevNext
    BY <1>5, StorePrevNextKeeps
<1>6. CASE StoreHeadPrev
    BY <1>6, StoreHeadPrevKeeps
<1>7. CASE UNCHANGED vars
    <2>1. mem' = mem /\ ins' = ins
        BY <1>7 DEF vars
    <2>2. Walks(mem)' = Walks(mem)
        BY <2>1
    <2>3. Unlinked' = Unlinked /\ LinkedForward' = LinkedForward
        BY <2>1 DEF Unlinked, LinkedForward, LastStore
    <2> QED
        BY <2>1, <2>2, <2>3 DEF ListInv
<1> QED
    BY <1>1, <1>2, <1>3, <1>4, <1>5, <1>6, <1>7 DEF Next

\* A lost race is never forgotten.
LEMMA RacedStays == [Next]_vars /\ ~raced' => ~raced
<1> SUFFICES ASSUME [Next]_vars, ~raced' PROVE ~raced
    OBVIOUS
<1>1. CASE Handler
    BY <1>1, HandlerOperates
<1>2. CASE raced' = raced
    BY <1>2
<1> QED
    BY <1>1, <1>2, Zenon DEF Next, vars, InsertBegins, StoreNewNext, StoreNewPrev,
                             StorePrevNext, StoreHeadPrev, InsertStores

LEMMA ListInvHolds == Spec => [](~raced => ListInv)
<1>1. Init => (~raced => ListInv)
    BY InitLists
<1>2. (~raced => ListInv) /\ [Next]_vars => (~raced => ListInv)'
    BY NextKeepsLists, RacedStays
<1> QED
    BY <1>1, <1>2, PTL DEF Spec

LEMMA ListInvRings ==
    ASSUME ListInv
    PROVE  Rings(mem, Walks(mem))
<1>1. ins.step \in 0..4
    BY DEF ListInv
<1> QED
    BY <1>1 DEF ListInv, Unlinked, LinkedForward, Whole

\* Until an insertion loses a race, the doubly linked lists of the kernel are
\* intact between two insertions, whatever the operations, whatever of them
\* comes between the stores of task_create, and for any number of lists and of
\* nodes: the forward pointers from a head lead back to it, and every node is
\* where the pointers of its neighbours say, so that list_del and list_move,
\* which look at nothing else, take the node off its list and disturb no other.
THEOREM ListsWellFormed == Spec => []WellFormed
<1>1. (~raced => ListInv) => WellFormed
    <2> SUFFICES ASSUME ListInv, ins.step = 0, NEW h \in Heads
                 PROVE  Circular(mem, h) /\ Linked(mem, h)
        BY DEF WellFormed
    <2> DEFINE s == Walks(mem)[h]
    <2>1. Rings(mem, Walks(mem)) /\ Backs(mem, Walks(mem))
        BY DEF ListInv, Whole
    <2>2. Circular(mem, h) /\ Walk(mem, h) = s
        BY <2>1, WalksAre
    <2>3. OfEntries(s) /\ Forward(mem, h, s) /\ Backward(mem, h, s)
        BY <2>1 DEF Rings, Apart, Backs
    <2> HIDE DEF s
    <2>4. /\ Len(s) \in Nat /\ Spot(h, s, 0) = h
          /\ \A k \in 1..Len(s) : Spot(h, s, k) = s[k]
        BY <2>3, SpotsDiffer
    <2>5. \A k \in 0..Len(s) : mem[mem[Spot(h, s, k)].next].prev = Spot(h, s, k)
        BY <2>3 DEF Forward, Backward
    <2>6. \A e \in {h} \cup {s[k] : k \in 1..Len(s)} :
            \E k \in 0..Len(s) : e = Spot(h, s, k)
        BY <2>4
    <2>7. ASSUME NEW e \in {h} \cup {s[k] : k \in 1..Len(s)}
          PROVE  mem[mem[e].next].prev = e
        <3>1. PICK k \in 0..Len(s) : e = Spot(h, s, k)
            BY <2>6
        <3>2. mem[mem[Spot(h, s, k)].next].prev = Spot(h, s, k)
            BY <2>5
        <3> QED
            BY <3>1, <3>2, Zenon
    <2>8. Linked(mem, h)
        BY <2>2, <2>7, Zenon DEF Linked
    <2> QED
        BY <2>2, <2>8
<1> QED
    BY <1>1, ListInvHolds, PTL

\* Nor does a list_for_each run astray while task_create has made only some
\* of the stores that put the new task on a list: it reaches the head again
\* within as many steps as there are nodes, after whatever handlers came
\* between the stores, as long as they spared the prev of the list's head.
THEOREM ListsAlwaysWalkable == Spec => []AlwaysWalkable
<1>1. (~raced => ListInv) => AlwaysWalkable
    <2> SUFFICES ASSUME ListInv, NEW h \in Heads PROVE Circular(mem, h)
        BY DEF AlwaysWalkable
    <2>1. Rings(mem, Walks(mem))
        BY ListInvRings
    <2> QED
        BY <2>1, WalksAre
<1> QED
    BY <1>1, ListInvHolds, PTL

\* The pointers implement the sequences that the scheduler's model uses for
\* its lists: every operation of list.h changes them as ListSpec says, also
\* one that comes between two stores of an insertion and spares the prev of
\* its head, and of the four stores the third makes the change.
THEOREM ListsImplemented == Spec => ImplementsLists
<1>1. Init => Lists!Init
    BY InitLists
<1>2. (~raced => ListInv) /\ [Next]_vars => [raced' \/ Lists!Next]_[h \in Heads |-> Walk(mem, h)]
    BY NextKeepsLists, RacedStays DEF Walks
<1> QED
    BY <1>1, <1>2, ListInvHolds, PTL DEF Spec, ImplementsLists
=============================================================================
