-------------------------------- MODULE Buddy -------------------------------
(***************************************************************************)
(* kernel/mm/buddy.c: the buddy allocator, as operators on its state: a    *)
(* record with the flag and bplevel of every struct page and the free      *)
(* lists with their counts, the head of a list first.                      *)
(*                                                                         *)
(* Whether a buddy is free is read off its flag and bplevel only.  Its     *)
(* callers do not preempt one another in here, so the lock, which does not *)
(* make anyone wait, changes nothing and is left out.                      *)
(***************************************************************************)
EXTENDS Integers, Sequences, Queues

CONSTANT MAX_BUDDY_ORDER

ASSUME OrderAssumption == MAX_BUDDY_ORDER \in Nat

Order == 0..MAX_BUDDY_ORDER

RESERVED == "reserved"      \* the values of flag; SLAB is compared with and
ALLOCED == "alloced"        \* never stored
CLEAR == "clear"
SLAB == "slab"

\* 1 << k.
Pow2[k \in Nat] == IF k = 0 THEN 1 ELSE 2 * Pow2[k - 1]

\* The first page of the block of 2^k pages that holds p, counted from the
\* first page of the allocator, and that of the block it merges with.
BlockOf(m, p, k) == m.start + ((p - m.start) \div Pow2[k]) * Pow2[k]
BuddyOf(m, p, k) ==
    LET h == BlockOf(m, p, k)
    IN  IF ((h - m.start) \div Pow2[k]) % 2 = 0 THEN h + Pow2[k] ELSE h - Pow2[k]

\* Mutant: the levels are not compared.
MergeableAnyLevel(m, p, k) == m.flag[BuddyOf(m, p, k)] = CLEAR

\* The test of the loop of __free_pages at level k.
Mergeable(m, p, k) ==
    /\ m.flag[BuddyOf(m, p, k)] = CLEAR
    /\ m.bplevel[BuddyOf(m, p, k)] = k

\* The level at which a block of level k that is freed at p ends up.
MergedLevel(m, p, k) ==
    CHOOSE t \in k..MAX_BUDDY_ORDER :
        /\ t = MAX_BUDDY_ORDER \/ ~Mergeable(m, p, t)
        /\ \A j \in k..t-1 : Mergeable(m, p, j)

\* The blocks it takes in on the way, by their levels.
TakenIn(m, p, k) == [j \in k..MergedLevel(m, p, k)-1 |-> BuddyOf(m, p, j)]

\* The taken blocks leave their lists, and the block h of level top enters.
Entered(m, taken, h, top) ==
    [m EXCEPT
        !.bplevel = [q \in DOMAIN @ |->
            IF q = h THEN top
            ELSE IF \E j \in DOMAIN taken : taken[j] = q THEN -1 ELSE @[q]],
        !.free = [j \in Order |->
            IF j \in DOMAIN taken THEN Without(@[j], taken[j])
            ELSE IF j = top THEN <<h>> \o @[j] ELSE @[j]],
        !.nr_free = [j \in Order |->
            IF j \in DOMAIN taken THEN @[j] - 1
            ELSE IF j = top THEN @[j] + 1 ELSE @[j]]]

\* Mutant: the merged block is entered under the page that was freed.
FreePagesNoCombine(m, p, k) ==
    Entered(m, TakenIn(m, p, k), p, MergedLevel(m, p, k))

\* __free_pages of the block of level k at page p.  The flag is left as it is.
FreePages(m, p, k) ==
    LET top == MergedLevel(m, p, k)
    IN  Entered(m, TakenIn(m, p, k), BlockOf(m, p, top), top)

\* Mutant: the top list is not searched.
ServingBelowTop(m, k) == {j \in k..MAX_BUDDY_ORDER-1 : m.free[j] # <<>>}

\* The levels of the free lists that can serve a request of level k.
Serving(m, k) == {j \in k..MAX_BUDDY_ORDER : m.free[j] # <<>>}

\* The block p leaves the list from and is cut down to level to: the second
\* halves become free, with the flag of an allocated page; p gets level.
Cut(m, p, from, to, level) ==
    LET half(q) == {j \in to..from-1 : q = p + Pow2[j]}
    IN  [m EXCEPT
            !.flag = [q \in DOMAIN @ |->
                IF q = p \/ half(q) # {} THEN ALLOCED ELSE @[q]],
            !.bplevel = [q \in DOMAIN @ |->
                IF q = p THEN level
                ELSE IF half(q) # {} THEN CHOOSE j \in half(q) : TRUE ELSE @[q]],
            !.free = [j \in Order |->
                IF j \in to..from-1 THEN <<p + Pow2[j]>> \o @[j]
                ELSE IF j = from THEN Tail(@[j]) ELSE @[j]],
            !.nr_free = [j \in Order |->
                IF j \in to..from-1 THEN @[j] + 1
                ELSE IF j = from THEN @[j] - 1 ELSE @[j]]]

LeastServing(m, k) == CHOOSE j \in Serving(m, k) : \A i \in Serving(m, k) : j <= i

\* Mutant: the block keeps the level of the list it comes from.
AllocPagesOldLevel(m, k) ==
    LET from == LeastServing(m, k)
        p == Head(m.free[from])
    IN  [page |-> p, m |-> Cut(m, p, from, k, from)]

\* __alloc_pages of level k, when some list can serve it: the page taken and
\* the state.
AllocPages(m, k) ==
    LET from == LeastServing(m, k)
        p == Head(m.free[from])
    IN  [page |-> p, m |-> Cut(m, p, from, k, k)]

\* The level alloc_pages asks for n pages: the least that holds them.
LevelFor(n) == CHOOSE k \in 0..n : Pow2[k] >= n /\ \A j \in 0..k-1 : Pow2[j] < n
=============================================================================
