------------------------------ MODULE ListOps -------------------------------
(***************************************************************************)
(* include/zjunix/list.h on a memory: a function m from the addresses of   *)
(* struct list_head (list heads and the nodes inside task_structs alike)   *)
(* to records with the pointers prev and next.  The stores are made in the *)
(* order of the code, each on the memory the one before it left.           *)
(***************************************************************************)
EXTENDS Integers, Sequences, FiniteSets

CONSTANT Poison     \* LIST_POISON1 and LIST_POISON2

\* INIT_LIST_HEAD.
InitListHead(m, l) == [m EXCEPT ![l] = [prev |-> l, next |-> l]]

\* Mutant: an __list_add that forgets the back pointer of the next node.
InsertForwardOnly(m, new, prev, next) ==
    [m EXCEPT ![new].next = next, ![new].prev = prev, ![prev].next = new]

\* __list_add.
Insert(m, new, prev, next) ==
    [m EXCEPT ![new].next = next, ![new].prev = prev,
              ![prev].next = new, ![next].prev = new]

\* list_add and list_add_tail.
ListAdd(m, new, head) == Insert(m, new, head, m[head].next)
ListAddTail(m, new, head) == Insert(m, new, m[head].prev, head)

\* Mutant: an __list_del that leaves the back pointer.
UnlinkForwardOnly(m, prev, next) == [m EXCEPT ![prev].next = next]

\* __list_del.
Unlink(m, prev, next) == [m EXCEPT ![prev].next = next, ![next].prev = prev]

\* list_del poisons the node, list_del_init makes it an empty list.
ListDel(m, e) ==
    [Unlink(m, m[e].prev, m[e].next) EXCEPT
        ![e] = [prev |-> Poison, next |-> Poison]]
ListDelInit(m, e) == InitListHead(Unlink(m, m[e].prev, m[e].next), e)

\* remove_sched, remove_tasks, remove_terminal: list_del, then INIT_LIST_HEAD.
Remove(m, e) == InitListHead(ListDel(m, e), e)

\* list_move and list_move_tail.
ListMove(m, e, head) == ListAdd(Unlink(m, m[e].prev, m[e].next), e, head)
ListMoveTail(m, e, head) ==
    ListAddTail(Unlink(m, m[e].prev, m[e].next), e, head)

\* list_empty.
ListEmpty(m, head) == m[head].next = head

\* The address list_for_each is at after n steps from the head; it stays on
\* an address that is no list_head.
After(m, head, n) ==
    LET at[k \in 0..n] ==
            IF k = 0 THEN head
            ELSE IF at[k-1] \in DOMAIN m THEN m[at[k-1]].next ELSE at[k-1]
    IN  at[n]

\* The list_for_each from the head comes back to it.
Circular(m, head) ==
    \E n \in 1..Cardinality(DOMAIN m) : After(m, head, n) = head

\* The nodes that list_for_each visits, in its order.
Walk(m, head) ==
    LET n == CHOOSE n \in 1..Cardinality(DOMAIN m) :
                /\ After(m, head, n) = head
                /\ \A k \in 1..n-1 : After(m, head, k) # head
    IN  [k \in 1..n-1 |-> After(m, head, k)]

\* The pointers prev and next of every node on the list fit together.
Linked(m, head) ==
    \A e \in {head} \cup {Walk(m, head)[k] : k \in 1..Len(Walk(m, head))} :
        m[m[e].next].prev = e
=============================================================================
