------------------------------- MODULE Queues -------------------------------
(***************************************************************************)
(* Queues of task_structs.  The kernel keeps its tasks on circular doubly  *)
(* linked lists (include/zjunix/list.h): a list head and the nodes added   *)
(* at its tail.  A list is modelled by the sequence of its nodes in `next' *)
(* order; no node is on a list twice.  list_add_tail is Append, list_del   *)
(* is Without.                                                             *)
(*                                                                         *)
(* The operators are given without recursion: the order of a queue is the  *)
(* rank of its elements under a key, a pair of integers.                   *)
(***************************************************************************)
EXTENDS Integers, Sequences, FiniteSets, Functions

\* The order of the keys.
UpTo(a, b) == a[1] < b[1] \/ (a[1] = b[1] /\ a[2] <= b[2])

\* The number of elements of S up to t in the order of key.
Rank(S, key, t) == Cardinality({u \in S : UpTo(key[u], key[t])})

\* The sequence that enumerates the finite set S in increasing order of key,
\* a function that is injective on S.
Arrange(S, key) ==
    [k \in 1..Cardinality(S) |-> CHOOSE t \in S : Rank(S, key, t) = k]

\* The position of every element of the queue q.
Place(q) == [t \in Range(q) |-> CHOOSE i \in DOMAIN q : q[i] = t]

\* The queue that remains when only the elements of S are kept.
Keep(q, S) ==
    Arrange(Range(q) \cap S, [t \in Range(q) |-> <<0, Place(q)[t]>>])

\* list_del: t leaves the queue it is on; any other queue is left alone.
Without(q, t) == IF t \in Range(q) THEN Keep(q, Range(q) \ {t}) ELSE q

\* The first element of q that is in S, `none' when there is none: a
\* list_for_each that stops at the first match.
FirstIn(q, S, none) ==
    IF Range(q) \cap S = {} THEN none ELSE Head(Keep(q, S))
=============================================================================
