----------------------------- MODULE BlockStore -----------------------------
(***************************************************************************)
(* What the file system relies on: blocks that keep what was last written, *)
(* and requests that either do what they are asked or fail and change      *)
(* nothing.                                                                *)
(***************************************************************************)
CONSTANTS Block, Sectors, Byte, Done, Error

VARIABLES
    store,      \* block -> its contents, sector by sector
    result      \* whether the last request succeeded

Contents == [Sectors -> Byte]

Init == store \in [Block -> Contents] /\ result = Done

\* A read leaves the store alone; what it copies out is store[b].
Read(b) == result' = Done /\ UNCHANGED store

Write(b, s, v) == store' = [store EXCEPT ![b][s] = v] /\ result' = Done

Flush == result' = Done /\ UNCHANGED store

Fail == result' = Error /\ UNCHANGED store

Next ==
    \/ \E b \in Block : Read(b) \/ \E s \in Sectors, v \in Byte : Write(b, s, v)
    \/ Flush
    \/ Fail

Spec == Init /\ [][Next]_<<store, result>>
=============================================================================
