--------------------------------- MODULE Vm ---------------------------------
(***************************************************************************)
(* The address space of a task: its areas (kernel/vm/vm.c) and its page    *)
(* table, filled by the TLB exception (arch/mips32/exc.c).                 *)
(*                                                                         *)
(* Areas, tables and frames are pages of kmalloc, which may return any     *)
(* free one.  A freed area keeps its contents until its page is taken      *)
(* again: mmap_cache may point there.  Addresses are words: sums wrap.     *)
(***************************************************************************)
EXTENDS Integers, Sequences, FiniteSets, Functions

CONSTANTS
    Page,           \* the pages kmalloc has left after mm_create
    NULL,
    WORD,           \* number of addresses: 2^32
    PAGE_SIZE,
    KERNEL_ENTRY,   \* end of the addresses of a task
    Addr, Length    \* arguments of the calls

ASSUME VmAssumption ==
    /\ NULL \notin Page /\ IsFiniteSet(Page)
    /\ WORD \in Nat /\ PAGE_SIZE \in 1..WORD /\ WORD % PAGE_SIZE = 0
    /\ KERNEL_ENTRY \in 1..WORD-1 /\ Addr \subseteq 0..WORD-1 /\ Length \subseteq Nat

VARIABLES
    phase,      \* "run" or "halted", the endless loops
    owner,      \* page -> "free", "area", "table" or "frame"
    area,       \* page -> the struct vm_area_struct last stored there
    mm,         \* the struct mm_struct: mmap, mmap_cache, map_count
    table,      \* the page of entry 0 of the page directory
    pte,        \* its entries 0 and 1
    tlb         \* the pair of frames last written to the TLB

vars == <<phase, owner, area, mm, table, pte, tlb>>

Free == {p \in Page : owner[p] = "free"}
Allign(x) == (((x + PAGE_SIZE - 1) % WORD) \div PAGE_SIZE) * PAGE_SIZE
Minus1 == WORD - 1

NoArea == [vm_start |-> 0, vm_end |-> 0, vm_next |-> NULL]

\* What mm_create leaves: no area and an empty page directory.
Init ==
    /\ phase = "run"
    /\ owner = [p \in Page |-> "free"]
    /\ area = [p \in Page |-> NoArea]
    /\ mm = [mmap |-> NULL, mmap_cache |-> NULL, map_count |-> 0]
    /\ table = NULL /\ pte = [i \in {0, 1} |-> NULL]
    /\ tlb = <<NULL, NULL>>

---------------------------------------------------------------------------
\* The areas that n rounds of a loop over the list come to.
Met[n \in 0..Cardinality(Page)] ==
    IF n = 0 THEN <<>>
    ELSE LET s == Met[n - 1]
             vma == IF s = <<>> THEN mm.mmap ELSE area[s[Len(s)]].vm_next
         IN  IF vma = NULL THEN s ELSE Append(s, vma)

Areas == Met[Cardinality(Page)]
Listed == Range(Areas)

\* The place in the list of the first area that ends behind addr, one more
\* than the length when there is none.
FirstBehind(addr) ==
    LET list == Areas
        behind == {i \in DOMAIN list : area[list[i]].vm_end > addr}
    IN  IF behind = {} THEN Len(list) + 1
        ELSE CHOOSE i \in behind : \A j \in behind : i <= j

AreaAt(i) == IF i \in DOMAIN Areas THEN Areas[i] ELSE NULL

Contains(p, addr) == area[p].vm_start <= addr /\ addr < area[p].vm_end

\* find_vma: the cache first, whatever it points to.
FindVma(addr) ==
    IF mm.mmap_cache # NULL /\ Contains(mm.mmap_cache, addr) THEN mm.mmap_cache
    ELSE AreaAt(FirstBehind(addr))

\* What find_vma leaves in mmap_cache.
CacheAfter(addr) ==
    IF FindVma(addr) = NULL THEN mm.mmap_cache ELSE FindVma(addr)

\* get_unmapped_area.  Its loop over the areas that are in the way does not
\* move addr: the address asked for, rounded up, is always the one returned.
GetUnmappedArea(addr, len) ==
    LET a == Allign(addr)
    IN  IF (a + len) % WORD > KERNEL_ENTRY THEN [addr |-> Minus1, cache |-> mm.mmap_cache]
        ELSE IF a = 0 THEN [addr |-> 0, cache |-> mm.mmap_cache]
        ELSE [addr |-> a, cache |-> CacheAfter(a)]

\* The place of the area that insert_vma_struct goes behind: 0 for none.
PlaceFor(start) ==
    LET later == {i \in DOMAIN Areas : start < area[Areas[i]].vm_start}
    IN  IF later = {} THEN Len(Areas)
        ELSE (CHOOSE i \in later : \A j \in later : i <= j) - 1

\* Mutant: an area goes to the end of the list.
InsertAtEnd(p, a, cache) ==
    LET prev == AreaAt(Len(Areas))
        new == [a EXCEPT !.vm_next = NULL]
    IN  /\ area' = [area EXCEPT ![p] = new, ![IF prev = NULL THEN p ELSE prev].vm_next =
                        IF prev = NULL THEN NULL ELSE p]
        /\ mm' = [mm EXCEPT !.mmap = IF prev = NULL THEN p ELSE @,
                            !.mmap_cache = cache, !.map_count = @ + 1]

\* insert_vma_struct of area a at page p.  An area that goes before the first
\* is made the whole list.
InsertVmaStruct(p, a, cache) ==
    LET i == PlaceFor(a.vm_start)
        prev == AreaAt(i)
    IN  /\ area' = IF i = 0 THEN [area EXCEPT ![p] = a]
                   ELSE [area EXCEPT ![p] = [a EXCEPT !.vm_next = area[prev].vm_next],
                                     ![prev].vm_next = p]
        /\ mm' = [mm EXCEPT !.mmap = IF i = 0 THEN p ELSE @,
                            !.mmap_cache = cache, !.map_count = @ + 1]

\* do_mmap; the result of get_unmapped_area is not looked at.
DoMmap(addr, len) ==
    LET got == GetUnmappedArea(addr, len)
        end == Allign((got.addr + len) % WORD)
    IN  /\ phase = "run" /\ len # 0
        /\ \/ /\ Free = {}
              /\ phase' = "halted" /\ mm' = [mm EXCEPT !.mmap_cache = got.cache]
              /\ UNCHANGED <<owner, area>>
           \/ \E p \in Free :
              /\ owner' = [owner EXCEPT ![p] = "area"]
              /\ InsertVmaStruct(p, [vm_start |-> got.addr, vm_end |-> end,
                                     vm_next |-> NULL], got.cache)
              /\ UNCHANGED phase
        /\ UNCHANGED <<table, pte, tlb>>

\* Mutant: the count is only taken down for the first area.
UnmapCountsFirst(i) ==
    /\ owner' = [owner EXCEPT ![Areas[i]] = "free"]
    /\ area' = IF i = 1 THEN area
               ELSE [area EXCEPT ![Areas[i-1]].vm_next = area[Areas[i]].vm_next]
    /\ mm' = [mm EXCEPT !.mmap_cache = Areas[i],
                        !.mmap = IF i = 1 THEN area[Areas[i]].vm_next ELSE @,
                        !.map_count = IF i = 1 THEN @ - 1 ELSE @]

\* Mutant: the head of the list is not moved.
UnmapKeepsFirst(i) ==
    /\ owner' = [owner EXCEPT ![Areas[i]] = "free"]
    /\ area' = IF i = 1 THEN area
               ELSE [area EXCEPT ![Areas[i-1]].vm_next = area[Areas[i]].vm_next]
    /\ mm' = [mm EXCEPT !.mmap_cache = Areas[i], !.map_count = @ - 1]

\* The removal of the area at place i; mmap_cache still points to it.
Unmap(i) ==
    /\ owner' = [owner EXCEPT ![Areas[i]] = "free"]
    /\ area' = IF i = 1 THEN area
               ELSE [area EXCEPT ![Areas[i-1]].vm_next = area[Areas[i]].vm_next]
    /\ mm' = [mm EXCEPT !.mmap_cache = Areas[i],
                        !.mmap = IF i = 1 THEN area[Areas[i]].vm_next ELSE @,
                        !.map_count = @ - 1]

\* do_unmap: the first area that ends behind addr goes as a whole, when it
\* begins before the end and does not end before it.
DoUnmap(addr, len) ==
    LET end == (addr + len) % WORD
        i == FirstBehind(addr)
        p == AreaAt(i)
    IN  /\ phase = "run"
        /\ addr <= KERNEL_ENTRY /\ end <= KERNEL_ENTRY /\ p # NULL
        /\ IF area[p].vm_start < end /\ area[p].vm_end >= end THEN Unmap(i)
           ELSE mm' = [mm EXCEPT !.mmap_cache = p] /\ UNCHANGED <<owner, area>>
        /\ UNCHANGED <<phase, table, pte, tlb>>

\* What is_in_vma answers.
InVma(addr) == FindVma(addr) # NULL /\ area[FindVma(addr)].vm_start <= addr

\* is_in_vma: the cache moves.
IsInVma(addr) ==
    /\ phase = "run"
    /\ mm' = [mm EXCEPT !.mmap_cache = CacheAfter(addr)]
    /\ UNCHANGED <<phase, owner, area, table, pte, tlb>>

---------------------------------------------------------------------------
TABLE == 2

\* The pages that tlb_refill takes for an address whose bit of PAGE_SIZE is i:
\* of the address only that bit is kept, so that the entry of the directory
\* is always the first.
Needed(i) ==
    (IF table = NULL THEN <<TABLE>> ELSE <<>>)
    \o (IF pte[i] = NULL THEN <<i>> ELSE <<>>)
    \o (IF pte[1-i] = NULL THEN <<1-i>> ELSE <<>>)

\* tlb_refill: the missing pages are taken in that order and cleared, until
\* kmalloc finds none; the frame of the other entry goes to EntryLo0, whatever
\* i is.
TlbRefill(i) ==
    LET need == Needed(i)
        some == Len(need) > Cardinality(Free)
        n == IF some THEN Cardinality(Free) ELSE Len(need)
    IN  /\ phase = "run"
        /\ \E f \in {g \in [1..n -> Free] : IsInjective(g)} :
            LET taken(e) == {f[j] : j \in {k \in 1..n : need[k] = e}}
                got(e, old) == IF taken(e) = {} THEN old ELSE CHOOSE p \in taken(e) : TRUE
            IN  /\ table' = got(TABLE, table)
                /\ pte' = [e \in {0, 1} |-> got(e, pte[e])]
                /\ owner' = [p \in Page |->
                     IF p \in taken(TABLE) THEN "table"
                     ELSE IF p \in Range(f) THEN "frame" ELSE owner[p]]
                /\ area' = [p \in Page |-> IF p \in Range(f) THEN NoArea ELSE area[p]]
        /\ IF some THEN phase' = "halted" /\ UNCHANGED tlb
           ELSE tlb' = <<pte'[1-i], pte'[i]>> /\ UNCHANGED phase
        /\ UNCHANGED mm

\* mm_delete.  pgd_delete frees the frames and the table of the entries that
\* are in use, and does not get past an empty one: the areas stay.
MmDelete ==
    /\ phase = "run" /\ phase' = "halted"
    /\ owner' = [p \in Page |->
                  IF owner[p] \in {"table", "frame"} THEN "free" ELSE owner[p]]
    /\ UNCHANGED <<area, mm, table, pte, tlb>>

Next ==
    \/ \E a \in Addr, l \in Length : DoMmap(a, l)
    \/ \E a \in Addr, l \in Length : DoUnmap(a, l)
    \/ \E a \in Addr : IsInVma(a)
    \/ \E i \in {0, 1} : TlbRefill(i)
    \/ MmDelete

Spec == Init /\ [][Next]_vars

---------------------------------------------------------------------------
\* As long as mmap_cache points to an area of the list, is_in_vma answers for
\* every address what the whole list says, though areas may overlap and
\* find_vma stops at the first that ends behind the address.
IsInVmaExact ==
    mm.mmap_cache \in Listed \cup {NULL} =>
        \A a \in 0..WORD-1 : InVma(a) <=> \E p \in Listed : Contains(p, a)

\* map_count, by which exit_map tells whether it has freed every area, is the
\* number of areas that are allocated, those that dropped out of the list too.
CountExact == mm.map_count = Cardinality({p \in Page : owner[p] = "area"})

\* The list ends, and only holds areas that are allocated.
ListIsLive ==
    /\ Listed \subseteq {p \in Page : owner[p] = "area"}
    /\ Cardinality(Listed) = Len(Areas)

\* is_in_vma finds no area where the list has none (the comment of find_vma,
\* vm.c:139).
InVmaIsMapped == \A a \in 0..WORD-1 : InVma(a) => \E p \in Listed : Contains(p, a)
=============================================================================
