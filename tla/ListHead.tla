------------------------------ MODULE ListHead ------------------------------
(***************************************************************************)
(* The lists of the kernel in memory, under the two kinds of code that     *)
(* change them: code that runs with interrupts off (the tick, task_exit,   *)
(* pc_kill, wait_pid), one action per list operation, and task_create,     *)
(* whose list_add_tail of the new task runs with interrupts on             *)
(* (pc.c:236-238), one action per store: the tick, and the tasks it        *)
(* switches to, may change the lists between any two of them.              *)
(***************************************************************************)
EXTENDS ListOps

CONSTANTS
    Heads,      \* addresses of the list heads
    Entry,      \* addresses of the nodes
    None

ASSUME ListAssumption == Heads \cap Entry = {} /\ IsFiniteSet(Heads \cup Entry)

VARIABLES
    mem,        \* the memory
    ins,        \* the insertion in progress: its next step and its operands
    raced       \* history: an insertion lost its race (see Races)

vars == <<mem, ins, raced>>

Init ==
    /\ mem = [n \in Heads \cup Entry |-> [prev |-> n, next |-> n]]
    /\ ins = [step |-> 0, new |-> None, prev |-> None, head |-> None]
    /\ raced = FALSE

\* A node that is on no list.
Alone(e) == mem[e].next = e

\* A new task is found on its list, and may be moved, from the third store on.
Private == IF ins.step = 4 THEN {} ELSE {ins.new}

\* task_create has read head->prev and will store it: it loses the race to a
\* handler that stores it in between.  That is one that takes the last node of
\* the list or adds one at its end.
Races(stores) == raced' = (raced \/ stores)
TakesLast(e) == mem[e].next = ins.head
AddsFirst(h) == h = ins.head /\ ListEmpty(mem, h)
AddsLast(h) == h = ins.head

\* Code with interrupts off, which may run between two stores of the insertion.
Handler ==
    /\ \E e \in Entry \ Private :
        \/ Alone(e) /\ \E h \in Heads : mem' = ListAdd(mem, e, h) /\ Races(AddsFirst(h))
        \/ Alone(e) /\ \E h \in Heads : mem' = ListAddTail(mem, e, h) /\ Races(AddsLast(h))
        \/ ~Alone(e) /\ mem' \in {Remove(mem, e), ListDelInit(mem, e)} /\ Races(TakesLast(e))
        \/ /\ ~Alone(e)
           /\ \E h \in Heads :
                mem' = ListMove(mem, e, h) /\ Races(TakesLast(e) \/ AddsFirst(h))
        \/ /\ ~Alone(e)
           /\ \E h \in Heads :
                mem' = ListMoveTail(mem, e, h) /\ Races(TakesLast(e) \/ AddsLast(h))
    /\ UNCHANGED ins

\* list_add_tail(new, head) of task_create: head->prev is read, then the four
\* stores of __list_add follow.
InsertBegins ==
    /\ ins.step = 0
    /\ \E e \in Entry, h \in Heads :
        /\ Alone(e)
        /\ ins' = [step |-> 1, new |-> e, prev |-> mem[h].prev, head |-> h]
    /\ UNCHANGED <<mem, raced>>

InsertStores(step, new) ==
    /\ ins.step = step
    /\ mem' = new
    /\ ins' = [ins EXCEPT !.step = step + 1]
    /\ UNCHANGED raced

\* Mutant: a first store that links the node before it is filled in.
StoreTooEarly ==
    InsertStores(1, [mem EXCEPT ![ins.prev].next = ins.new])

StoreNewNext == InsertStores(1, [mem EXCEPT ![ins.new].next = ins.head])
StoreNewPrev == InsertStores(2, [mem EXCEPT ![ins.new].prev = ins.prev])
StorePrevNext == InsertStores(3, [mem EXCEPT ![ins.prev].next = ins.new])

StoreHeadPrev ==
    /\ ins.step = 4
    /\ mem' = [mem EXCEPT ![ins.head].prev = ins.new]
    /\ ins' = [step |-> 0, new |-> None, prev |-> None, head |-> None]
    /\ UNCHANGED raced

Next ==
    \/ Handler \/ InsertBegins
    \/ StoreNewNext \/ StoreNewPrev \/ StorePrevNext \/ StoreHeadPrev

Spec == Init /\ [][Next]_vars

---------------------------------------------------------------------------

\* As long as no insertion has lost a race, and whenever none is in progress,
\* every list closes and its backward pointers mirror its forward ones: list_del
\* of any node unlinks just it.  Between the stores of an insertion the handlers
\* may have changed all the rest, the node before the new one among it.
WellFormed ==
    ~raced /\ ins.step = 0 => \A h \in Heads : Circular(mem, h) /\ Linked(mem, h)

\* A list_for_each never runs astray, not even between two stores of an
\* insertion and after handlers that changed the lists there.
AlwaysWalkable == ~raced => \A h \in Heads : Circular(mem, h)

\* The task that task_create puts on a list (pc.c:236) is on it when the
\* insertion ends.
OnList(m, h, e) == \E n \in 1..Cardinality(DOMAIN m) : After(m, h, n) = e
InsertionLasts ==
    [][ins.step = 4 /\ ins'.step = 0 => OnList(mem', ins.head, ins.new)]_vars

\* The lists in memory implement the sequences of ListSpec until a race is
\* lost: an insertion takes effect at its third store.
Lists == INSTANCE ListSpec WITH q <- [h \in Heads |-> Walk(mem, h)]

ImplementsLists ==
    Lists!Init /\ [][raced' \/ Lists!Next]_[h \in Heads |-> Walk(mem, h)]
=============================================================================
