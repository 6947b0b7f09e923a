------------------------------ MODULE MfsCache ------------------------------
(***************************************************************************)
(* kernel/mfs/fat32cache.c: the caches of directory entries and of pages   *)
(* (clusters), as operators on a record                                    *)
(*    card    the clusters as the SD card has them                         *)
(*    pages   the page cache, [clu, data, dirty], most recently used first *)
(*    dents   the entry cache, [dir, off, data, spinned, root]             *)
(* The hash lists and the LRU list of a cache hold the same elements.  A   *)
(* directory cluster is the sequence of its entries, offset 0 first; as    *)
(* get_dentry takes the offset in the sector for the one in the cluster,   *)
(* only the first sector of a directory is ever seen, and modelled.        *)
(***************************************************************************)
EXTENDS Integers, Sequences, SequencesExt

CONSTANT Capacity       \* C_CAPACITY: 16

ASSUME CapacityAssumption == Capacity \in Nat \ {0, 1}

\* Places of a page and of an entry in the caches: sets of at most one.
PageAt(c, n) == {i \in DOMAIN c.pages : c.pages[i].clu = n}
DentryAt(c, d, j) == {i \in DOMAIN c.dents : c.dents[i].dir = d /\ c.dents[i].off = j}
Sole(S) == CHOOSE i \in S : TRUE

\* What n steps make of base, the k-th of them Step(_, k).
Repeat(Step(_, _), base, n) ==
    LET after[k \in 0..n] == IF k = 0 THEN base ELSE Step(after[k - 1], k)
    IN  after[n]

ToHead(s, i) == <<s[i]>> \o RemoveAt(s, i)

\* Mutant: a dirty page is dropped without being written.
DropPageUnwritten(c) ==
    IF c.pages = <<>> THEN c ELSE [c EXCEPT !.pages = Front(@)]

\* pcache_drop: the page used longest ago goes, to the card if it is dirty.  Its
\* write is taken to succeed: pcache_drop asks for no result of write_page and
\* frees the page, so a write that failed would lose the change.
DropPage(c) ==
    IF c.pages = <<>> THEN c
    ELSE LET victim == Last(c.pages)
         IN  [c EXCEPT !.pages = Front(@),
                       !.card[victim.clu] = IF victim.dirty THEN victim.data ELSE @]

\* get_page, with pcache_lookup and pcache_add: the page comes to the head.
GetPage(c, n) ==
    IF PageAt(c, n) # {} THEN [c EXCEPT !.pages = ToHead(@, Sole(PageAt(c, n)))]
    ELSE LET room == IF Len(c.pages) = Capacity THEN DropPage(c) ELSE c
         IN  [room EXCEPT !.pages = <<[clu |-> n, data |-> c.card[n], dirty |-> FALSE]>> \o @]

\* The page n of the cache is changed and marked.
SetPage(c, n, data) ==
    LET i == Sole(PageAt(c, n))
    IN  [c EXCEPT !.pages[i].data = data, !.pages[i].dirty = TRUE]

\* Mutant: a spinned entry is not spared.
DropDentrySpinned(c) ==
    IF Len(c.dents) <= 1 THEN c ELSE [c EXCEPT !.dents = Front(@)]

\* dcache_drop: the entry used longest ago goes, or the one before it when
\* that is spinned; the last one stays.
DropDentry(c) ==
    IF Len(c.dents) <= 1 THEN c
    ELSE LET last == Len(c.dents)
         IN  [c EXCEPT !.dents =
                RemoveAt(@, IF c.dents[last].spinned THEN last - 1 ELSE last)]

\* get_dentry, with dcache_lookup and dcache_add: the entry comes to the head.
GetDentry(c, d, j) ==
    IF DentryAt(c, d, j) # {} THEN [c EXCEPT !.dents = ToHead(@, Sole(DentryAt(c, d, j)))]
    ELSE LET read == GetPage(c, d)
             room == IF Len(c.dents) = Capacity THEN DropDentry(read) ELSE read
             data == read.pages[1].data[j + 1]
         IN  [room EXCEPT !.dents =
                <<[dir |-> d, off |-> j, data |-> data, spinned |-> FALSE, root |-> FALSE]>> \o @]

\* Mutant: the flush leaves the last page to the next one.
FflushAllButOne(c) ==
    [Repeat(LAMBDA x, k : DropPage(x), c, Len(c.pages) - 1)
        EXCEPT !.dents = Repeat(LAMBDA x, k : DropDentry(x), c, Len(c.dents)).dents]

\* fat32_fflush: as many drops as there are entries and pages.  The count of
\* the table cache is never raised, so that no table is dropped or written.
Fflush(c) ==
    Repeat(LAMBDA x, k : DropPage(x),
           Repeat(LAMBDA x, k : DropDentry(x), c, Len(c.dents)), Len(c.pages))
=============================================================================
