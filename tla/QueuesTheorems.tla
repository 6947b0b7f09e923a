--------------------------- MODULE QueuesTheorems ---------------------------
(***************************************************************************)
(* What the operators of Queues.tla return, for queues of any length.      *)
(***************************************************************************)
EXTENDS Queues, FiniteSetTheorems, TLAPS

\* key orders the elements of S: distinct elements have distinct keys.
Orders(key, S) ==
    /\ \A t \in S : key[t] \in Int \X Int
    /\ \A t, u \in S : key[t] = key[u] => t = u

\* Ranks number the elements of a finite set from 1 to its size, no two of
\* them alike, and in the order of the keys.
LEMMA RankNumbers ==
    ASSUME NEW S, IsFiniteSet(S), NEW key, Orders(key, S)
    PROVE  /\ Cardinality(S) \in Nat
           /\ \A t \in S : Rank(S, key, t) \in 1..Cardinality(S)
           /\ \A t, u \in S :
                t # u => (UpTo(key[t], key[u])
                            <=> Rank(S, key, t) < Rank(S, key, u))
           /\ \A t, u \in S : Rank(S, key, t) = Rank(S, key, u) => t = u
           /\ \A k \in 1..Cardinality(S) :
                \E t \in S : Rank(S, key, t) = k
<1> DEFINE below(t) == {u \in S : UpTo(key[u], key[t])}
<1>1. /\ Cardinality(S) \in Nat
      /\ \A t \in S : /\ IsFiniteSet(below(t))
                      /\ Cardinality(below(t)) \in Nat
                      /\ Cardinality(below(t)) <= Cardinality(S)
    BY FS_Subset, FS_CardinalityType
<1>2. \A t \in S : t \in below(t)
    BY DEF UpTo, Orders
<1>3. \A t \in S : Rank(S, key, t) \in 1..Cardinality(S)
    <2> SUFFICES ASSUME NEW t \in S PROVE Rank(S, key, t) \in 1..Cardinality(S)
        OBVIOUS
    <2>1. below(t) # {}
        BY <1>2
    <2>2. Cardinality(below(t)) # 0
        BY <2>1, <1>1, FS_EmptySet
    <2>3. Rank(S, key, t) = Cardinality(below(t))
        BY DEF Rank
    <2> QED
        BY <2>2, <2>3, <1>1
<1>4. ASSUME NEW t \in S, NEW u \in S, t # u, UpTo(key[t], key[u])
      PROVE  Rank(S, key, t) < Rank(S, key, u)
    <2>1. ~UpTo(key[u], key[t])
        BY <1>4 DEF UpTo, Orders
    <2>2. below(t) \in SUBSET below(u)
        BY <1>4 DEF UpTo, Orders
    <2>3. u \in below(u) /\ u \notin below(t)
        BY <1>2, <2>1
    <2>4. /\ Cardinality(below(t)) <= Cardinality(below(u))
          /\ Cardinality(below(t)) # Cardinality(below(u))
        BY <1>1, <2>2, <2>3, FS_Subset
    <2> QED
        BY <1>1, <2>4 DEF Rank
<1>5. \A t, u \in S : UpTo(key[t], key[u]) \/ UpTo(key[u], key[t])
    BY DEF UpTo, Orders
<1>6. \A t, u \in S :
         t # u => (UpTo(key[t], key[u]) <=> Rank(S, key, t) < Rank(S, key, u))
    BY <1>3, <1>4, <1>5
<1>7. \A t, u \in S : Rank(S, key, t) = Rank(S, key, u) => t = u
    BY <1>3, <1>4, <1>5
<1>8. \A k \in 1..Cardinality(S) : \E t \in S : Rank(S, key, t) = k
    <2> DEFINE f == [t \in S |-> Rank(S, key, t)]
    <2>1. f \in Injection(S, 1..Cardinality(S))
        BY <1>3, <1>7 DEF Injection, IsInjective
    <2>2. /\ IsFiniteSet(1..Cardinality(S))
          /\ Cardinality(1..Cardinality(S)) = Cardinality(S)
        BY <1>1, FS_Interval
    <2>3. f \in Surjection(S, 1..Cardinality(S))
        BY <2>1, <2>2, FS_Injection
    <2> QED
        BY <2>3 DEF Surjection
<1> QED
    BY <1>1, <1>3, <1>6, <1>7, <1>8

\* Arrange enumerates a finite set without repetition, in the order of key.
LEMMA ArrangeEnumerates ==
    ASSUME NEW S, IsFiniteSet(S), NEW key, Orders(key, S)
    PROVE  LET A == Arrange(S, key)
           IN  /\ A \in Seq(S)
               /\ Len(A) = Cardinality(S)
               /\ DOMAIN A = 1..Cardinality(S)
               /\ Range(A) = S
               /\ IsInjective(A)
               /\ \A k \in 1..Cardinality(S) :
                    A[k] \in S /\ Rank(S, key, A[k]) = k
<1> DEFINE A == Arrange(S, key)
           n == Cardinality(S)
<1>1. n \in Nat
    BY RankNumbers
<1>2. \A k \in 1..n : A[k] \in S /\ Rank(S, key, A[k]) = k
    <2> SUFFICES ASSUME NEW k \in 1..n
                 PROVE  A[k] \in S /\ Rank(S, key, A[k]) = k
        OBVIOUS
    <2>1. \E t \in S : Rank(S, key, t) = k
        BY RankNumbers
    <2>2. A[k] = CHOOSE t \in S : Rank(S, key, t) = k
        BY DEF Arrange
    <2> QED
        BY <2>1, <2>2
<1>3. A = [k \in 1..n |-> A[k]]
    BY DEF Arrange
<1>4. A \in [1..n -> S]
    BY <1>2, <1>3
<1>5. A \in Seq(S) /\ Len(A) = n /\ DOMAIN A = 1..n
    BY <1>1, <1>4
<1>6. IsInjective(A)
    BY <1>2, <1>5 DEF IsInjective
<1>7. \A t \in S : t \in Range(A)
    <2> SUFFICES ASSUME NEW t \in S PROVE t \in Range(A)
        OBVIOUS
    <2>1. Rank(S, key, t) \in 1..n
        BY RankNumbers
    <2>2. A[Rank(S, key, t)] = t
        BY <1>2, <2>1, RankNumbers
    <2> QED
        BY <2>1, <2>2, <1>5 DEF Range
<1>8. Range(A) = S
    BY <1>2, <1>5, <1>7 DEF Range
<1> QED
    BY <1>2, <1>5, <1>6, <1>8

---------------------------------------------------------------------------

\* The place of an element of a queue is an index at which it stands.
LEMMA PlaceIsIndex ==
    ASSUME NEW T, NEW q \in Seq(T), NEW t \in Range(q)
    PROVE  Place(q)[t] \in 1..Len(q) /\ q[Place(q)[t]] = t
<1>1. \E i \in DOMAIN q : q[i] = t
    BY DEF Range
<1>2. Place(q)[t] = CHOOSE i \in DOMAIN q : q[i] = t
    BY DEF Place
<1> QED
    BY <1>1, <1>2

\* The elements of a queue are finitely many members of its type.
LEMMA RangeOfQueue ==
    ASSUME NEW T, NEW q \in Seq(T)
    PROVE  Range(q) \subseteq T /\ IsFiniteSet(Range(q))
<1>1. Range(q) \subseteq T
    BY DEF Range
<1>2. IsFiniteSet(1..Len(q)) /\ Len(q) \in Nat
    BY FS_Interval
<1>3. q \in Surjection(1..Len(q), Range(q))
    BY DEF Surjection, Range
<1> QED
    BY <1>1, <1>2, <1>3, FS_Surjection

\* Keep yields a queue, without repetition, of the elements that are kept.
LEMMA KeepQueue ==
    ASSUME NEW T, NEW q \in Seq(T), NEW S
    PROVE  /\ Keep(q, S) \in Seq(T)
           /\ Range(Keep(q, S)) = Range(q) \cap S
           /\ IsInjective(Keep(q, S))
           /\ Len(Keep(q, S)) = Cardinality(Range(q) \cap S)
<1> DEFINE key == [t \in Range(q) |-> <<0, Place(q)[t]>>]
           K == Range(q) \cap S
<1>1. \A t \in Range(q) : Place(q)[t] \in Int /\ q[Place(q)[t]] = t
    BY PlaceIsIndex
<1>2. Orders(key, K)
    BY <1>1 DEF Orders
<1>3. IsFiniteSet(K) /\ K \subseteq T
    BY RangeOfQueue, FS_Subset
<1>4. Arrange(K, key) = Keep(q, S)
    BY DEF Keep
<1> HIDE DEF key, K
<1>5. /\ Keep(q, S) \in Seq(K)
      /\ Range(Keep(q, S)) = K
      /\ IsInjective(Keep(q, S))
      /\ Len(Keep(q, S)) = Cardinality(K)
    BY <1>2, <1>3, <1>4, ArrangeEnumerates
<1>6. Keep(q, S) \in Seq(T)
    BY <1>3, <1>5
<1> QED
    BY <1>5, <1>6 DEF K

\* list_del takes exactly one element away.
LEMMA WithoutQueue ==
    ASSUME NEW T, NEW q \in Seq(T), NEW t
    PROVE  /\ Without(q, t) \in Seq(T)
           /\ Range(Without(q, t)) = Range(q) \ {t}
           /\ t \notin Range(q) => Without(q, t) = q
<1> DEFINE S == Range(q) \ {t}
<1>1. Range(q) \cap S = S
    OBVIOUS
<1>2. Keep(q, S) \in Seq(T) /\ Range(Keep(q, S)) = Range(q) \cap S
    <2> HIDE DEF S
    <2> QED
        BY KeepQueue
<1> QED
    BY <1>1, <1>2 DEF Without

\* list_add_tail adds exactly one element.
LEMMA AppendQueue ==
    ASSUME NEW T, NEW q \in Seq(T), NEW t \in T
    PROVE  /\ Append(q, t) \in Seq(T)
           /\ Range(Append(q, t)) = Range(q) \cup {t}
<1>1. /\ Append(q, t) \in Seq(T)
      /\ Len(Append(q, t)) = Len(q) + 1
      /\ Append(q, t)[Len(q) + 1] = t
      /\ \A i \in 1..Len(q) : Append(q, t)[i] = q[i]
    OBVIOUS
<1>2. DOMAIN Append(q, t) = 1..Len(q) + 1 /\ DOMAIN q = 1..Len(q)
    BY <1>1
<1>3. \A u \in Range(Append(q, t)) : u \in Range(q) \cup {t}
    BY <1>1, <1>2 DEF Range
<1>4. \A u \in Range(q) \cup {t} : u \in Range(Append(q, t))
    BY <1>1, <1>2 DEF Range
<1> QED
    BY <1>1, <1>3, <1>4

\* The head of a queue that is not empty is one of its elements.
LEMMA HeadOfQueue ==
    ASSUME NEW T, NEW q \in Seq(T), q # <<>>
    PROVE  Head(q) \in Range(q)
<1>1. Len(q) \in Nat /\ Len(q) # 0 /\ Head(q) = q[1] /\ DOMAIN q = 1..Len(q)
    OBVIOUS
<1> QED
    BY <1>1 DEF Range

\* A search returns an element that matches, `none' exactly if there is no
\* such element (and none is not one).
LEMMA FirstInQueue ==
    ASSUME NEW T, NEW q \in Seq(T), NEW S, NEW none
    PROVE  /\ Range(q) \cap S = {} => FirstIn(q, S, none) = none
           /\ Range(q) \cap S # {} => FirstIn(q, S, none) \in Range(q) \cap S
<1>1. CASE Range(q) \cap S = {}
    BY <1>1 DEF FirstIn
<1>2. CASE Range(q) \cap S # {}
    <2>1. Keep(q, S) \in Seq(T) /\ Range(Keep(q, S)) = Range(q) \cap S
        BY KeepQueue
    <2>2. Keep(q, S) # <<>>
        BY <2>1, <1>2 DEF Range
    <2>3. Head(Keep(q, S)) \in Range(q) \cap S
        BY <2>1, <2>2, HeadOfQueue
    <2> QED
        BY <1>2, <2>3 DEF FirstIn
<1> QED
    BY <1>1, <1>2

\* A queue without repetition of one element.
LEMMA QueueOfOne ==
    ASSUME NEW T, NEW q \in Seq(T), NEW t, Range(q) = {t}, Len(q) = 1
    PROVE  q = <<t>>
<1>1. q[1] = t
    BY DEF Range
<1> QED
    BY <1>1

\* A second element behind the first.
LEMMA QueueOfTwo ==
    ASSUME NEW T, NEW a \in T, NEW b \in T
    PROVE  Append(<<a>>, b) = <<a, b>>
<1> DEFINE one == <<a>>
           q == Append(one, b)
           p == <<a, b>>
<1>1. one \in Seq(T) /\ Len(one) = 1 /\ one[1] = a
    OBVIOUS
<1> HIDE DEF one
<1>2. q \in Seq(T) /\ Len(q) = 2 /\ q[1] = a /\ q[2] = b
    <2>1. /\ q \in Seq(T) /\ Len(q) = Len(one) + 1
          /\ q[Len(one) + 1] = b
          /\ \A i \in 1..Len(one) : q[i] = one[i]
        BY <1>1
    <2> HIDE DEF q
    <2> QED
        BY <1>1, <2>1
<1> HIDE DEF q
<1>3. p \in Seq(T) /\ Len(p) = 2 /\ p[1] = a /\ p[2] = b
    OBVIOUS
<1> HIDE DEF p
<1>4. \A i \in 1..2 : q[i] = p[i]
    BY <1>2, <1>3
<1>5. q = p
    BY <1>2, <1>3, <1>4
<1> QED
    BY <1>5 DEF p, q, one

---------------------------------------------------------------------------

\* A finite set that is not empty has a first and a last element.
LEMMA FirstAndLast ==
    ASSUME NEW S, IsFiniteSet(S), S # {}, NEW key, Orders(key, S)
    PROVE  /\ \E i \in S : \A j \in S : UpTo(key[i], key[j])
           /\ \E i \in S : \A j \in S : UpTo(key[j], key[i])
<1> DEFINE n == Cardinality(S)
<1>1. n \in Nat /\ n # 0
    BY FS_CardinalityType, FS_EmptySet
<1>2. /\ \A i \in S : Rank(S, key, i) \in 1..n
      /\ \A i, j \in S :
            i # j => (UpTo(key[i], key[j])
                        <=> Rank(S, key, i) < Rank(S, key, j))
      /\ \A i, j \in S : Rank(S, key, i) = Rank(S, key, j) => i = j
      /\ \A k \in 1..n : \E i \in S : Rank(S, key, i) = k
    BY RankNumbers
<1> HIDE DEF n
<1>3. \A i \in S : UpTo(key[i], key[i])
    BY DEF Orders, UpTo
<1>4. PICK first \in S : Rank(S, key, first) = 1
    BY <1>1, <1>2
<1>5. PICK last \in S : Rank(S, key, last) = n
    BY <1>1, <1>2
<1>6. \A j \in S : j # first => 1 < Rank(S, key, j)
    BY <1>1, <1>2, <1>4
<1>7. \A j \in S : j # last => Rank(S, key, j) < n
    BY <1>1, <1>2, <1>5
<1> QED
    BY <1>2, <1>3, <1>4, <1>5, <1>6, <1>7

\* A finite set of integers that is not empty has a least and a greatest
\* element.
LEMMA LeastAndGreatest ==
    ASSUME NEW S \in SUBSET Int, IsFiniteSet(S), S # {}
    PROVE  /\ \E i \in S : \A j \in S : i <= j
           /\ \E i \in S : \A j \in S : j <= i
<1> DEFINE key == [i \in S |-> <<0, i>>]
<1>1. Orders(key, S)
    BY DEF Orders
<1>2. \A i, j \in S : UpTo(key[i], key[j]) => i <= j
    BY DEF UpTo
<1> HIDE DEF key
<1>3. /\ \E i \in S : \A j \in S : UpTo(key[i], key[j])
      /\ \E i \in S : \A j \in S : UpTo(key[j], key[i])
    BY <1>1, FirstAndLast, Zenon
<1> QED
    BY <1>2, <1>3

---------------------------------------------------------------------------
(* Queues without repetition.                                              *)

\* list_add_tail of an element that is not on the queue.
LEMMA AppendOnce ==
    ASSUME NEW T, NEW q \in Seq(T), IsInjective(q), NEW t \in T, t \notin Range(q)
    PROVE  IsInjective(Append(q, t))
<1> DEFINE A == Append(q, t)
<1>1. /\ A \in Seq(T) /\ Len(A) = Len(q) + 1 /\ A[Len(q) + 1] = t
      /\ \A i \in 1..Len(q) : A[i] = q[i]
    OBVIOUS
<1>2. /\ DOMAIN A = 1..Len(q) + 1 /\ DOMAIN q = 1..Len(q)
      /\ \A i \in 1..Len(q) : q[i] # t
    BY <1>1 DEF Range
<1> HIDE DEF A
<1> SUFFICES ASSUME NEW i \in DOMAIN A, NEW j \in DOMAIN A, A[i] = A[j]
             PROVE  i = j
    BY DEF IsInjective, A
<1>3. CASE i \in 1..Len(q) /\ j \in 1..Len(q)
    BY <1>1, <1>2, <1>3 DEF IsInjective
<1>4. CASE i = Len(q) + 1 \/ j = Len(q) + 1
    BY <1>1, <1>2, <1>4
<1> QED
    BY <1>2, <1>3, <1>4

\* list_del leaves the rest without repetition.
LEMMA WithoutOnce ==
    ASSUME NEW T, NEW q \in Seq(T), IsInjective(q), NEW t
    PROVE  IsInjective(Without(q, t))
BY KeepQueue DEF Without

\* A queue of no, of one or of two elements.
LEMMA ShortQueues ==
    ASSUME NEW a, NEW b, a # b
    PROVE  /\ IsInjective(<<>>) /\ Range(<<>>) = {}
           /\ IsInjective(<<a>>) /\ Range(<<a>>) = {a}
           /\ IsInjective(<<a, b>>) /\ Range(<<a, b>>) = {a, b}
BY DEF IsInjective, Range

---------------------------------------------------------------------------
(* Counting up, and functions defined by it.                               *)

LEMMA CountUp ==
    ASSUME NEW S, NEW n \in Nat, 0 \in S, \A k \in 0..n-1 : k \in S => k + 1 \in S
    PROVE  0..n \subseteq S
<1> DEFINE Missed == (0..n) \ S
<1> SUFFICES ASSUME Missed # {} PROVE FALSE
    OBVIOUS
<1>1. IsFiniteSet(0..n)
    BY FS_Interval
<1>2. Missed \in SUBSET Int /\ IsFiniteSet(Missed)
    BY <1>1, FS_Subset
<1>3. PICK m \in Missed : \A k \in Missed : m <= k
    BY <1>2, LeastAndGreatest
<1>4. m # 0 /\ m \in 0..n /\ m - 1 \in 0..n-1 /\ m - 1 \notin Missed
    BY <1>3
<1>5. m - 1 \in S /\ m - 1 + 1 = m
    BY <1>4
<1> QED
    BY <1>3, <1>4, <1>5

\* The values of f are those of n repetitions of a step that begins at a.
Iterates(S, a, step, n, f) ==
    f \in [0..n -> S] /\ f[0] = a /\ \A k \in 1..n : f[k] = step[f[k-1]]

\* A step can be repeated from any start.
LEMMA Iteration ==
    ASSUME NEW S, NEW a \in S, NEW step \in [S -> S], NEW n \in Nat
    PROVE  \E f : Iterates(S, a, step, n, f)
<1> DEFINE Good == {m \in 0..n : \E f : Iterates(S, a, step, m, f)}
<1>1. 0 \in Good
    <2> DEFINE f == [k \in 0..0 |-> a]
    <2>1. Iterates(S, a, step, 0, f)
        BY DEF Iterates
    <2> HIDE DEF f
    <2> QED
        BY <2>1
<1>2. ASSUME NEW m \in 0..n-1, m \in Good
      PROVE  m + 1 \in Good
    <2>1. PICK f : Iterates(S, a, step, m, f)
        BY <1>2
    <2> DEFINE g == [k \in 0..m+1 |-> IF k <= m THEN f[k] ELSE step[f[m]]]
    <2>2. /\ DOMAIN g = 0..m+1 /\ g[m+1] = step[f[m]]
          /\ \A k \in 0..m : g[k] = f[k]
        OBVIOUS
    <2>3. step[f[m]] \in S /\ \A k \in 0..m : f[k] \in S
        BY <2>1 DEF Iterates
    <2>4. g \in [0..m+1 -> S]
        BY <2>3
    <2> HIDE DEF g
    <2>5. \A k \in 1..m+1 : g[k] = step[g[k-1]]
        <3> SUFFICES ASSUME NEW k \in 1..m+1 PROVE g[k] = step[g[k-1]]
            OBVIOUS
        <3>1. CASE k = m + 1
            <4>1. g[k-1] = f[m]
                BY <2>2, <3>1
            <4> QED
                BY <2>2, <3>1, <4>1
        <3>2. CASE k # m + 1
            <4>1. k \in 1..m /\ k \in 0..m /\ k - 1 \in 0..m
                BY <3>2
            <4>2. f[k] = step[f[k-1]]
                BY <2>1, <4>1 DEF Iterates
            <4> QED
                BY <2>2, <4>1, <4>2
        <3> QED
            BY <3>1, <3>2
    <2>6. Iterates(S, a, step, m + 1, g)
        BY <2>1, <2>2, <2>4, <2>5 DEF Iterates
    <2> QED
        BY <2>6
<1>3. 0..n \subseteq Good
    BY <1>1, <1>2, CountUp
<1>4. n \in Good
    BY <1>3
<1> QED
    BY <1>4
=============================================================================
