------------------------------ MODULE ListSpec ------------------------------
(***************************************************************************)
(* What the users of list.h rely on: every list is a sequence of nodes,    *)
(* and every operation changes just the sequences of the lists it names.   *)
(***************************************************************************)
EXTENDS Queues

CONSTANTS Heads, Entry

VARIABLE q      \* list head -> the nodes on its list

Free(e) == \A h \in Heads : e \notin Range(q[h])

Init == q \in [Heads -> {<<>>}]

AddFirst(e, h) == Free(e) /\ q' = [q EXCEPT ![h] = <<e>> \o @]
AddLast(e, h) == Free(e) /\ q' = [q EXCEPT ![h] = Append(@, e)]
Delete(e) == ~Free(e) /\ q' = [h \in Heads |-> Without(q[h], e)]

MoveFirst(e, h) ==
    /\ ~Free(e)
    /\ q' = [g \in Heads |-> IF g = h THEN <<e>> \o Without(q[g], e)
                            ELSE Without(q[g], e)]
MoveLast(e, h) ==
    /\ ~Free(e)
    /\ q' = [g \in Heads |-> IF g = h THEN Append(Without(q[g], e), e)
                            ELSE Without(q[g], e)]

Next ==
    \E e \in Entry :
        \/ Delete(e)
        \/ \E h \in Heads : \/ AddFirst(e, h) \/ AddLast(e, h)
                           \/ MoveFirst(e, h) \/ MoveLast(e, h)

Spec == Init /\ [][Next]_q
=============================================================================
