------------------------------- MODULE Bootmm -------------------------------
(***************************************************************************)
(* kernel/mm/bootmm.c: the memory handed out before the buddy allocator    *)
(* takes over.  Two records say which pages are used: a map with a byte    *)
(* for each page, and a short array of ranges with their types, from which *)
(* init_buddy learns where the free memory begins.                         *)
(*                                                                         *)
(* Addresses are page numbers, and the inclusive end of a range is its     *)
(* last page.  bootmm_free_pages has no caller and is left out.            *)
(***************************************************************************)
EXTENDS Integers, Sequences, SequencesExt

CONSTANTS
    max_pfn,        \* number of pages of the machine
    KernelPages,    \* pages below the end of the kernel: the first 16 MB
    MAX_INFO        \* size of the array of ranges

ASSUME BootAssumption ==
    /\ max_pfn \in Nat /\ KernelPages \in 1..max_pfn-1 /\ MAX_INFO \in Nat \ {0}

MM_KERNEL == "kernel"

Allign(x, y) == ((x + y - 1) \div y) * y

Smallest(S) == CHOOSE k \in S : \A j \in S : k <= j

RangePages(r) == r.start..r.end

\* init_bootmm: the map, the ranges and the last page allocated.
Booted ==
    [s_map |-> 0..KernelPages-1,
     info |-> <<[start |-> 0, end |-> KernelPages - 1, type |-> MM_KERNEL]>>,
     last_alloc_end |-> KernelPages - 1]

\* Mutant: a range that takes the place of the one it extends.
InsertReplaces(info, r) ==
    IF \E i \in DOMAIN info : info[i].end = r.start - 1
    THEN [i \in DOMAIN info |-> IF info[i].end = r.start - 1 THEN r ELSE info[i]]
    ELSE Append(info, r)

\* insert_mminfo of range r.  The search for a range to extend ends at the
\* first that lies behind r; a range that extends none is added at the end,
\* or forgotten when the array is full.
InsertMminfo(info, r) ==
    LET behind == {i \in DOMAIN info : info[i].start > r.start}
        brk == IF behind = {} THEN Len(info) + 1 ELSE Smallest(behind)
        same(i) == i \in DOMAIN info /\ info[i].type = r.type
        before == {i \in 1..brk-1 : same(i) /\ info[i].end = r.start - 1}
        follows(i) == same(i) /\ info[i].start = r.end + 1
        f == Smallest(before)
    IN  IF before # {}
        THEN IF follows(f + 1)
             THEN RemoveAt([info EXCEPT ![f].end = info[f + 1].end], f + 1)
             ELSE [info EXCEPT ![f].end = r.end]
        ELSE IF brk > MAX_INFO THEN info
        ELSE IF follows(brk) THEN [info EXCEPT ![brk].start = r.start]
        ELSE Append(info, r)

\* find_pages of cnt pages from s on and below e: the first free page, and
\* those after it, which are not looked at.
FindPages(b, cnt, s, e) ==
    LET index == Smallest((s..e-1) \ b.s_map)
    IN  IF (s..e-1) \subseteq b.s_map \/ index + cnt > e
        THEN [b |-> b, found |-> FALSE, pfn |-> 0]
        ELSE [b |-> [b EXCEPT !.s_map = @ \cup (index..index+cnt-1),
                              !.last_alloc_end = index + cnt - 1],
              found |-> TRUE, pfn |-> index]

\* bootmm_alloc_pages of cnt pages, on a boundary of align pages: first after
\* the last allocation, then from the bottom.
BootmmAllocPages(b, cnt, type, align) ==
    LET upper == FindPages(b, cnt, Allign(b.last_alloc_end + 1, align), max_pfn)
        lower == FindPages(b, cnt, 0, b.last_alloc_end)
        got == IF upper.found THEN upper ELSE lower
        range == [start |-> got.pfn, end |-> got.pfn + cnt - 1, type |-> type]
    IN  IF got.found
        THEN [got EXCEPT !.b.info = InsertMminfo(@, range)]
        ELSE got

\* Mutant: only the first range, the kernel, counts.
KernelEndOfFirst(b) == b.info[1].end

\* kernel_end_pfn as init_buddy computes it: the largest end of a range.
KernelEndPfn(b) ==
    LET ends == {b.info[i].end : i \in DOMAIN b.info}
    IN  CHOOSE e \in ends : \A x \in ends : x <= e
=============================================================================
