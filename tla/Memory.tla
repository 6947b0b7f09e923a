------------------------------- MODULE Memory -------------------------------
(***************************************************************************)
(* kernel/mm: from the boot allocator through init_buddy to kmalloc and    *)
(* kfree (slab.c).  The slab allocator takes a new page for every object:  *)
(* the free list of a page (slabp) is never filled and no page is ever put *)
(* on partial.  kfree, which finds no page with the flag of the slab,      *)
(* gives the whole page back.  The two agree as long as that stays so.     *)
(***************************************************************************)
EXTENDS Bootmm, Buddy, FiniteSets

CONSTANTS
    BootRequests,   \* page counts asked of bootmm_alloc_pages
    BootTypes,      \* types of the ranges
    Requests,       \* sizes asked of kmalloc, in bytes
    MaxHeld,        \* bound on the allocations held at a time
    MergesInUse     \* whether kfree may come to merge a page that is in use

ASSUME MemoryAssumption ==
    /\ BootRequests \subseteq Nat \ {0}
    /\ Requests \subseteq Nat \ {0} /\ MaxHeld \in Nat /\ MergesInUse \in BOOLEAN

VARIABLES
    phase,      \* "boot", "run" or "halted", the endless loops
    bmm,        \* the boot allocator
    buddy,      \* the buddy allocator and the struct pages
    cpu,        \* cache -> the page it last took, 0 at first
    held        \* first page -> number of pages, of what the callers hold

vars == <<phase, bmm, buddy, cpu, held>>

PAGE_SIZE == 4096
PageNumber == 0..max_pfn-1
Pages(n) == (n + PAGE_SIZE - 1) \div PAGE_SIZE

\* size_kmem_cache.
CacheSize == <<96, 192, 8, 16, 32, 64, 128, 256, 512, 1024, 1536, 2048>>
Cache == DOMAIN CacheSize

\* init_pages.
NoBuddy ==
    [start |-> 0, end |-> 0,
     flag |-> [p \in PageNumber |-> RESERVED],
     bplevel |-> [p \in PageNumber |-> -1],
     free |-> [k \in Order |-> <<>>], nr_free |-> [k \in Order |-> 0]]

Init ==
    /\ phase = "boot"
    /\ bmm = Booted
    /\ buddy = NoBuddy
    /\ cpu = [c \in Cache |-> 0]
    /\ held = <<>>

---------------------------------------------------------------------------
\* bootmm_alloc_pages.
BootAlloc(n, t) ==
    /\ phase = "boot"
    /\ bmm' = BootmmAllocPages(bmm, n, t, 1).b
    /\ UNCHANGED <<phase, buddy, cpu, held>>

\* The loop of init_buddy: freed[i] is the state when it comes to page i.
FreeEachPage(m) ==
    LET freed[i \in 0..m.end] ==
            IF i <= m.start THEN m ELSE FreePages(freed[i - 1], i - 1, 0)
    IN  freed[m.end]

\* init_buddy: the struct pages take n pages; the rest, from a multiple of the
\* largest block on, is freed page by page.
InitBuddy(n) ==
    LET got == BootmmAllocPages(bmm, n, MM_KERNEL, 1)
        unit == Pow2[MAX_BUDDY_ORDER]
        start == Allign(KernelEndPfn(got.b), unit)
        end == (max_pfn \div unit) * unit
        none == [NoBuddy EXCEPT !.start = start, !.end = end]
    IN  /\ phase = "boot"
        /\ bmm' = got.b
        /\ IF got.found
           THEN /\ phase' = "run"
                /\ buddy' = FreeEachPage(none)
           ELSE phase' = "halted" /\ UNCHANGED buddy
        /\ UNCHANGED <<cpu, held>>

---------------------------------------------------------------------------
\* The pages of the buddy allocator, and the blocks it is divided into.
Managed == buddy.start..buddy.end-1
Extent(b) == b[1]..(b[1] + Pow2[b[2]] - 1)
FreeBlocks == UNION {{<<buddy.free[k][i], k>> : i \in DOMAIN buddy.free[k]} : k \in Order}
HeldBlocks == {<<p, buddy.bplevel[p]>> : p \in DOMAIN held}

\* get_slab: the caches for a size, and the best; 2048 is never among them.
Fitting(size) == {c \in Cache : CacheSize[c] >= size /\ CacheSize[c] < PAGE_SIZE \div 2}
GetSlab(size) ==
    CHOOSE c \in Fitting(size) : \A d \in Fitting(size) : CacheSize[c] <= CacheSize[d]

\* What the callers hold once they have got n pages from p on.
Holding(p, n) == [q \in DOMAIN held \cup {p} |-> IF q = p THEN n ELSE held[q]]

\* slab_alloc: a new page for the object, whose flag format_slabpage clears.
SlabAlloc(c) ==
    IF Serving(buddy, 0) = {}
    THEN phase' = "halted" /\ UNCHANGED <<buddy, cpu, held>>
    ELSE LET got == AllocPages(buddy, 0)
         IN  /\ buddy' = [got.m EXCEPT !.flag[got.page] = CLEAR]
             /\ cpu' = [cpu EXCEPT ![c] = got.page]
             /\ held' = Holding(got.page, 1)
             /\ UNCHANGED phase

\* alloc_pages of n pages, NULL when no block is large enough.
AllocBlock(n) ==
    /\ IF Serving(buddy, LevelFor(n)) = {} THEN UNCHANGED <<buddy, held>>
       ELSE LET got == AllocPages(buddy, LevelFor(n))
            IN  buddy' = got.m /\ held' = Holding(got.page, n)
    /\ UNCHANGED <<phase, cpu>>

\* kmalloc.  A size between the largest usable cache and 2048 finds none.
Kmalloc(size) ==
    /\ phase = "run" /\ (Cardinality(DOMAIN held) < MaxHeld \/ FreeBlocks = {})
    /\ IF size > CacheSize[Len(CacheSize)] THEN AllocBlock(Pages(size))
       ELSE IF Fitting(size) = {}
       THEN phase' = "halted" /\ UNCHANGED <<buddy, cpu, held>>
       ELSE SlabAlloc(GetSlab(size))
    /\ UNCHANGED bmm

\* kfree of what begins at page p: never the slab's own slab_free.  A page with
\* level -1 is not given back: one in use comes to it only after a merge of
\* pages in use (MergesInUse), and what __free_pages then does to its lists is
\* left out.
Kfree(p) ==
    /\ phase = "run"
    /\ p \in DOMAIN held /\ buddy.flag[p] # SLAB /\ buddy.bplevel[p] \in Order
    /\ MergesInUse \/ \A q \in DOMAIN held :
            \A j \in DOMAIN TakenIn(buddy, p, buddy.bplevel[p]) :
                q # TakenIn(buddy, p, buddy.bplevel[p])[j]
    /\ buddy' = FreePages(buddy, p, buddy.bplevel[p])
    /\ held' = [q \in DOMAIN held \ {p} |-> held[q]]
    /\ UNCHANGED <<phase, bmm, cpu>>

Next ==
    \/ \E n \in BootRequests, t \in BootTypes : BootAlloc(n, t)
    \/ \E n \in BootRequests : InitBuddy(n)
    \/ \E size \in Requests : Kmalloc(size)
    \/ \E p \in PageNumber : Kfree(p)

Spec == Init /\ [][Next]_vars

---------------------------------------------------------------------------
\* The two records of the boot allocator (s_map and info of bootmm.c) agree:
\* the ranges are disjoint and are the pages that are marked as used.
BootRangesExact ==
    /\ bmm.s_map = UNION {RangePages(bmm.info[i]) : i \in DOMAIN bmm.info}
    /\ \A i, j \in DOMAIN bmm.info :
        i # j => RangePages(bmm.info[i]) \cap RangePages(bmm.info[j]) = {}

\* init_buddy (buddy.c:63-70) never takes over a page the boot allocator gave.
BuddyBeyondBoot == Managed \cap bmm.s_map = {}

\* Every page of the buddy allocator is in exactly one block, free or held,
\* through every split of __alloc_pages and merge of __free_pages: no page is
\* given twice, none is lost.
Conserved ==
    \A q \in Managed : Cardinality({b \in FreeBlocks \cup HeldBlocks : q \in Extent(b)}) = 1

\* The lists say what the struct pages say: a block is on the list of its
\* bplevel, once, at a multiple of its size, and nr_free counts it.
FreeListsExact ==
    \A k \in Order :
        /\ buddy.nr_free[k] = Len(buddy.free[k])
        /\ IsInjective(buddy.free[k])
        /\ \A i \in DOMAIN buddy.free[k] :
            LET p == buddy.free[k][i]
            IN  buddy.bplevel[p] = k /\ BlockOf(buddy, p, k) = p

\* What kfree gives back is what kmalloc gave: the level found in the struct
\* page (slab.c:261) is still the least that holds the request.
LevelKept ==
    \A p \in DOMAIN held :
        /\ Pow2[buddy.bplevel[p]] >= held[p]
        /\ \A k \in 0..buddy.bplevel[p]-1 : Pow2[k] < held[p]

\* The kernel stops for want of memory (slab.c:107) only when all of it is
\* held.
HaltsOnlyWhenFull ==
    phase = "halted" => Managed \subseteq UNION {Extent(b) : b \in HeldBlocks}

\* A page that is in use is not free: what the comment of buddy.c:104 takes
\* the flag for.
HeldNotFree ==
    \A b \in FreeBlocks, p \in DOMAIN held : p \notin Extent(b)
=============================================================================
