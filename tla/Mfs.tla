-------------------------------- MODULE Mfs --------------------------------
(***************************************************************************)
(* kernel/mfs: the cached FAT32 file system under cat, ls, cd and the      *)
(* editor.  One task, the shell, uses it: an action is a whole command.    *)
(* Clusters are numbered as in the table (the root is 2), their pages from *)
(* the start of the data (the root is 0).  The sectors of the table, once  *)
(* read, stay in memory (tcache_add never raises crt_size, so no table is  *)
(* dropped or written): fat is the table in memory, Fat0 the one on card.  *)
(*                                                                         *)
(* A path is a record: abs, and the names between the slashes.  An entry   *)
(* is [name, kind, start, size], kind one of "label" (and long names),     *)
(* "dir", "file", "end".  A directory is its first sector, the only one    *)
(* get_dentry reaches.  The first byte of the root entry, which nothing    *)
(* sets (fat32.c:89-95), is taken not to be 0, the mark of the end.        *)
(***************************************************************************)
EXTENDS MfsCache, FiniteSetsExt

CONSTANTS
    Dirs,       \* the clusters of directories
    Card0,      \* the clusters of the card, -2 (no cluster) among them
    Fat0,       \* the table: cluster -> the next one, End, or 0 (free)
    Hint,       \* next_free_cluster of the FSInfo sector
    Unit,       \* CLUSTER_SIZE
    Text,       \* the texts saved
    Path        \* the paths given

VARIABLES
    cache,
    fat,
    pwd,        \* the key of pwd_dentry
    out         \* what cat or the editor last showed

vars == <<cache, fat, pwd, out>>

End == -1               \* 0x0FFFFFFF
Nowhere == <<-1, -1>>   \* disk_dentry_sector_num of no entry
RootKey == <<0, 0>>

ASSUME MfsAssumption ==
    /\ Unit \in Nat \ {0} /\ <<>> \notin Text /\ Hint \in DOMAIN Fat0
    /\ DOMAIN Fat0 \subseteq 0..127     \* get_next_clu_num finds no more in the sector it reads
    /\ DOMAIN Card0 = {n - 2 : n \in DOMAIN Fat0 \ {1}} /\ Card0[0][1].kind = "label"

\* root_dentry: it takes the key of the first entry of the root directory.
RootDentry ==
    [dir |-> 0, off |-> 0, spinned |-> TRUE, root |-> TRUE,
     data |-> [name |-> "", kind |-> "dir", start |-> 2, size |-> 0]]

\* init_fat32: init_cache and load_root_dentries.
Init ==
    /\ cache = [GetPage([card |-> Card0, pages |-> <<>>, dents |-> <<>>], 0)
                    EXCEPT !.dents = <<RootDentry>>]
    /\ fat = Fat0
    /\ pwd = RootKey
    /\ out = <<>>
-----------------------------------------------------------------------------
\* The entry of a directory looked at next, unless the walk is over.
Examine(s, name, d, j) ==
    IF s.over THEN s
    ELSE LET c == GetDentry(s.c, d, j)
             e == c.dents[1].data
             hit == e.kind \notin {"label", "end"} /\ e.name = name
         IN  [c |-> c, over |-> hit \/ e.kind = "end",
              dir |-> e, at |-> IF hit THEN <<d, j>> ELSE Nowhere]

\* The walk over a directory, its first sector, for a name.
Walk(c, start, name) ==
    Repeat(LAMBDA s, j : Examine(s, name, start - 2, j - 1),
           [c |-> c, over |-> FALSE, dir |-> RootDentry.data, at |-> Nowhere],
           Len(c.card[start - 2]))

\* One name of a path: what is no directory holds nothing.
Descend(s, name) ==
    IF s.at = Nowhere \/ s.dir.kind # "dir" THEN [s EXCEPT !.at = Nowhere]
    ELSE Walk(s.c, s.dir.start, name)

\* fat32_find: one name of the path after the other, from a directory.
Find(c, p) ==
    LET from == IF p.abs THEN RootKey ELSE pwd
        first == c.dents[Sole(DentryAt(c, from[1], from[2]))].data
    IN  Repeat(LAMBDA s, i : Descend(s, p.names[i]),
               [c |-> c, over |-> FALSE, dir |-> first, at |-> from], Len(p.names))

\* One cluster of a file read by way of the page cache, the i-th.
ReadCluster(s, size, i) ==
    IF s.clu = End THEN s
    ELSE LET got == GetPage(s.c, s.clu - 2)
             end == IF i > size \div Unit THEN size % Unit ELSE Unit
         IN  [c |-> got, clu |-> fat[s.clu], buf |-> s.buf \o SubSeq(got.pages[1].data, 1, end)]

\* fat32_read from the start of a file to its end.
Read(c, f) ==
    LET opened == GetDentry(c, f[1], f[2])
        e == opened.dents[1].data
    IN  Repeat(LAMBDA s, i : ReadCluster(s, e.size, i),
               [c |-> opened, clu |-> e.start, buf |-> <<>>], e.size \div Unit + 1)
-----------------------------------------------------------------------------
\* get_free_clu: the first free cluster from the hint on, or before it.
Free(t) == {n \in DOMAIN t : n >= 2 /\ t[n] = 0}
FreeClu(t) ==
    IF \E n \in Free(t) : n >= Hint THEN Min({n \in Free(t) : n >= Hint}) ELSE Min(Free(t))

\* update_FAT, of both copies.
UpdateFAT(t, n, next) == [t EXCEPT ![n] = next]

\* update_dentry of the start of a file: the entry in the cache gets it; the
\* entry in the page does not, as the pointer goes offset * 32 entries on
\* (fat32cache.h:18).  What that store hits instead is left out: no entry that
\* is ever looked at, as it is behind the first sector or behind the page.
UpdateStart(c, f, n) ==
    LET got == GetPage(GetDentry(c, f[1], f[2]), f[1])
    IN  [got EXCEPT !.dents[1].data.start = n, !.pages[1].dirty = TRUE]

\* Mutant: the size is set in the page alone.
UpdateSizeInPage(c, f, size) ==
    LET got == GetPage(GetDentry(c, f[1], f[2]), f[1])
    IN  [got EXCEPT !.pages[1].dirty = TRUE, !.pages[1].data[f[2] + 1].size = size]

\* The size of a file is set in the entry and in the page; new_size is a u16.
UpdateSize(c, f, size) ==
    LET got == GetPage(GetDentry(c, f[1], f[2]), f[1])
    IN  [got EXCEPT !.dents[1].data.size = size % 65536, !.pages[1].dirty = TRUE,
                    !.pages[1].data[f[2] + 1].size = size % 65536]

\* A cluster behind the end of the file is cleared first.
Cleared(c, clu, size, i) ==
    IF i > size \div Unit
    THEN SetPage(GetPage(c, clu - 2), clu - 2, [k \in 1..Unit |-> 0]) ELSE c

\* The i-th cluster of the text copied to the page of clu.
Copied(c, clu, text, i) ==
    LET got == GetPage(c, clu - 2)
        part == SubSeq(text, i * Unit + 1,
                       IF i = Len(text) \div Unit THEN Len(text) ELSE (i + 1) * Unit)
        data == got.pages[1].data
    IN  SetPage(got, clu - 2, part \o SubSeq(data, Len(part) + 1, Unit))

\* One turn of the loop of fat32_write: it looks up the next cluster and
\* appends one at the end, but goes on with the first (crt_clus).
WriteCluster(s, clu, size, text, i) ==
    LET put == Copied(Cleared(s.c, clu, size, i), clu, text, i)
        more == s.fat[clu] = End /\ i < Len(text) \div Unit
    IN  IF ~s.ok THEN s
        ELSE IF more /\ Free(s.fat) # {}
        THEN LET n == FreeClu(s.fat)
             IN  [s EXCEPT !.c = put, !.fat = UpdateFAT(UpdateFAT(@, clu, n), n, End)]
        ELSE [s EXCEPT !.c = put, !.ok = ~more]

\* fat32_write of the text at the start of a file.
Write(c, t, f, text) ==
    LET opened == GetDentry(c, f[1], f[2])
        e == opened.dents[1].data
        clu == IF e.start = 0 THEN FreeClu(t) ELSE e.start
        begun == IF e.start = 0
                 THEN [c |-> UpdateStart(opened, f, clu), fat |-> UpdateFAT(t, clu, End), ok |-> TRUE]
                 ELSE [c |-> opened, fat |-> t, ok |-> TRUE]
        done == Repeat(LAMBDA s, k : WriteCluster(s, clu, e.size, text, k - 1),
                       begun, Len(text) \div Unit + 1)
    IN  IF e.start = 0 /\ Free(t) = {} THEN [c |-> opened, fat |-> t]
        ELSE IF done.ok /\ Len(text) > e.size
        THEN [done EXCEPT !.c = UpdateSize(@, f, Len(text))] ELSE done
-----------------------------------------------------------------------------
\* What a path leads to is defined as long as root_dentry, which an absolute
\* path starts from, still points to an entry of the cache.
RootCached(c) == \E i \in DOMAIN c.dents : c.dents[i].root
Defined(c, p) == p.abs => RootCached(c)

\* fat32_cat: open, read, close.  A path to nothing leaves the caches as the
\* search left them.  (The size of the root entry itself is never set.)
Cat(p) ==
    /\ Defined(cache, p)
    /\ LET found == Find(cache, p)
           read == Read(found.c, found.at)
       IN  IF found.at = Nowhere THEN cache' = found.c /\ out' = out
           ELSE found.at # RootKey /\ cache' = Fflush(read.c) /\ out' = read.buf
    /\ UNCHANGED <<fat, pwd>>

\* myvi: load_file opens, reads and closes the file; save_file opens it, writes
\* the text from the start on and closes it.
Save(p, text) ==
    /\ Defined(cache, p)
    /\ LET found == Find(cache, p)
           loaded == Fflush(Read(found.c, found.at).c)
           again == Find(loaded, p)
           written == Write(again.c, fat, again.at, text)
       IN  /\ found.at # Nowhere /\ found.dir.kind = "file" /\ Defined(loaded, p)
           /\ cache' = Fflush(written.c)
           /\ fat' = written.fat
    /\ out' = text
    /\ pwd' = pwd

\* readdir compares no names: it gets entry after entry up to the end mark.
ListEntry(s, d, j) ==
    IF s.over THEN s
    ELSE LET c == GetDentry(s.c, d, j) IN [c |-> c, over |-> c.dents[1].data.kind = "end"]

\* ls: opendir and readdir of the root directory.
Ls ==
    /\ cache' = Repeat(LAMBDA s, j : ListEntry(s, 0, j - 1),
                       [c |-> cache, over |-> FALSE], Len(cache.card[0])).c
    /\ UNCHANGED <<fat, pwd, out>>

\* The first entry is spinned, the old one no longer (unless it is the same).
Spinned(dents, old) ==
    [i \in DOMAIN dents |->
        [dents[i] EXCEPT !.spinned = IF i = 1 THEN TRUE ELSE @ /\ i # old]]

\* fat32_cd: the entry found is spinned in place of the old one.
Cd(p) ==
    /\ Defined(cache, p)
    /\ LET found == Find(cache, p)
           c == GetDentry(found.c, found.at[1], found.at[2])
           old == Sole(DentryAt(c, pwd[1], pwd[2]))
       IN  IF found.at = Nowhere THEN cache' = found.c /\ pwd' = pwd
           ELSE /\ cache' = [c EXCEPT !.dents = Spinned(@, old)]
                /\ pwd' = found.at
    /\ UNCHANGED <<fat, out>>

Next ==
    \/ \E p \in Path : Cat(p)
    \/ \E p \in Path, text \in Text : Save(p, text)
    \/ Ls
    \/ \E p \in Path : Cd(p)

Spec == Init /\ [][Next]_vars
-----------------------------------------------------------------------------
\* Where the caches can be relied on: a directory that a path names is one of
\* Dirs, no file has the cluster of a directory, and the table has none free.
Elements(s) == {s[k] : k \in DOMAIN s}

LedTo(e) ==
    /\ e.kind = "dir" => e.start - 2 \in Dirs
    /\ e.kind = "file" => e.start - 2 \notin Dirs

Layout ==
    /\ 0 \in Dirs /\ Dirs \subseteq DOMAIN Card0 /\ Card0[0] # <<>>
    /\ \A d \in Dirs :
        /\ Fat0[d + 2] # 0 /\ Card0[d] \in Seq(Elements(Card0[d]))
        /\ \A e \in Elements(Card0[d]) :
                DOMAIN e = {"name", "kind", "start", "size"} /\ e.size \in Nat
    /\ \A p \in Path :
        /\ p.names \in Seq(Elements(p.names)) /\ "" \notin Elements(p.names)
        /\ \A d \in Dirs : \A e \in Elements(Card0[d]) : e.name \in Elements(p.names) => LedTo(e)
    /\ Text \subseteq Seq(Int)

\* The files and directories of the card that have a cluster.
File == UNION {{<<d, j - 1>> : j \in {k \in DOMAIN Card0[d] :
                    /\ Card0[d][k].kind \in {"file", "dir"} /\ Card0[d][k].name \notin {".", ".."}
                    /\ Card0[d][k].start # 0}}
               : d \in Dirs}

\* The bytes the card alone gives a file: those of its clusters up to its size.
OnCard(f) ==
    LET e == cache.card[f[1]][f[2] + 1]
        WithCluster(s, i) ==
            IF s.clu = End THEN s
            ELSE [clu |-> Fat0[s.clu],
                  buf |-> s.buf \o SubSeq(cache.card[s.clu - 2], 1,
                                         IF i > e.size \div Unit THEN e.size % Unit ELSE Unit)]
    IN  Repeat(WithCluster, [clu |-> e.start, buf |-> <<>>], e.size \div Unit + 1).buf
Contents == [f \in File |-> OnCard(f)]

Files == INSTANCE FileStore WITH files <- Contents

\* A command on a file that had no cluster, which a save takes for it.
OnEmptyFile ==
    \E p \in Path :
        /\ Cat(p) \/ \E text \in Text : Save(p, text)
        /\ Find(cache, p).at \notin File \cup {Nowhere}

\* cat shows what the card holds, a save reaches the card before the command
\* ends and changes that file only, and ls and cd change none: whatever pages
\* and entries the caches dropped in between (fat32cache.c).  A save to a file
\* that had no cluster, too, changes none of the others.
ImplementsFiles ==
    Files!Init /\ [][Files!Next \/ (OnEmptyFile /\ UNCHANGED Contents)]_<<Contents, out>>

\* What the page of a cached entry says it is, or the card when the page is gone.
InPage(e) ==
    LET page == PageAt(cache, e.dir)
    IN  (IF page = {} THEN cache.card[e.dir] ELSE cache.pages[Sole(page)].data)[e.off + 1]

\* A cached entry says what its page says, but for the first cluster of a file
\* that had none: no command goes by the size or the start a file had before.
DentriesFresh ==
    \A i \in DOMAIN cache.dents :
        LET e == cache.dents[i]
        IN  ~e.root => \/ e.data = InPage(e)
                       \/ /\ InPage(e).start = 0 /\ InPage(e).kind = "file"
                          /\ e.data = [InPage(e) EXCEPT !.start = e.data.start]

\* The first cluster of a file is in its page, too ("Update FAT and dentry",
\* fat32.c:303).
StartsAgree ==
    \A i \in DOMAIN cache.dents :
        ~cache.dents[i].root => cache.dents[i].data.start = InPage(cache.dents[i]).start

\* The entry of the working directory stays in the cache, as the only one that
\* is spinned, within the bound and without a second copy of any (dcache_drop).
PwdPinned ==
    /\ \A i \in DOMAIN cache.dents :
            cache.dents[i].spinned <=> <<cache.dents[i].dir, cache.dents[i].off>> = pwd
    /\ Cardinality(DentryAt(cache, pwd[1], pwd[2])) = 1
    /\ Len(cache.dents) <= Capacity /\ Len(cache.pages) <= Capacity

\* dcache_drop: "If no cache or just root cache, return": the entry of the root,
\* to which root_dentry points, is never dropped.
RootKept == RootCached(cache)
=============================================================================
