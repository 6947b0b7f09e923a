------------------------------ MODULE FsCache -------------------------------
(***************************************************************************)
(* kernel/fs/fscache/fscache.c: the buffers between the FAT file system    *)
(* and the SD card, with second-chance replacement and write-back.  The    *)
(* variants of 512 bytes and of a cluster are the same code: Sectors is    *)
(* {1} for the first and 1..sectors_per_cluster for the second.            *)
(*                                                                         *)
(* The requests are those of fat.c on the buffers of an open file: read a  *)
(* cluster (fs_read), read and change it (fs_write), enter a new cluster   *)
(* (fs_write), write everything back (fs_close).  Only the init task makes *)
(* requests.  The card (driver/sd.c) may fail to transfer any sector.      *)
(***************************************************************************)
EXTENDS Integers, FiniteSets

CONSTANTS
    Block,      \* first sectors of the clusters, relative to the partition
    Fresh,      \* those of them that fs_alloc may find free
    Sectors,    \* the sectors of a buffer: 1..n
    Byte,       \* contents of a sector
    Zero,       \* the contents of an erased one
    Size,       \* number of buffers
    base_addr,  \* first sector of the partition
    Fails,      \* the transfers that may fail: a subset of {"read", "write"}
    None,       \* 0xffffffff: no block
    Done, Error \* the answers

ASSUME CacheAssumption ==
    /\ Fresh \subseteq Block /\ Block \subseteq Nat /\ base_addr \in Nat
    /\ Sectors = 1..Cardinality(Sectors) /\ Sectors # {}
    /\ Zero \in Byte /\ Size \in Nat \ {0}
    /\ None \notin Nat /\ Done # Error
    /\ Fails \subseteq {"read", "write"}

VARIABLES
    disk,       \* absolute first sector -> contents of the cluster
    buf,        \* the buffers
    clock_head, \* where the search for a victim starts
    flushing,   \* the next buffer that fs_close writes, 0 when it has not begun
    result      \* the answer to the last request

vars == <<disk, buf, clock_head, flushing, result>>

Index == 0..Size-1
Contents == [Sectors -> Byte]
Address == Block \cup {b + base_addr : b \in Block}
Erased == [s \in Sectors |-> Zero]

\* The card before, and no buffer in use.
Init ==
    /\ disk \in [Address -> {Erased}]
    /\ buf = [i \in Index |->
                [data |-> Erased, cur |-> None, ref |-> FALSE, dirty |-> FALSE]]
    /\ clock_head = 0
    /\ flushing = 0
    /\ result = Done

---------------------------------------------------------------------------
(* The replacement: fs_victim_4k and fs_victim_512.                        *)

Least(S) == CHOOSE k \in S : \A j \in S : k <= j

\* The buffer k places after the hand.
AfterHand(k) == (clock_head + k) % Size

\* The buffers, by their distance from the hand, that the first sweep takes
\* for a victim, and those that the second one does.
Unused == {k \in Index : ~buf[AfterHand(k)].ref /\ ~buf[AfterHand(k)].dirty}
Clean == {k \in Index : ~buf[AfterHand(k)].dirty}

\* Mutant: a search that stops at the hand when its first sweep fails.
VictimOneSweep == IF Unused # {} THEN Least(Unused) ELSE 0

\* How far from the hand the victim is; when all are dirty it is at the hand.
Victim ==
    IF Unused # {} THEN Least(Unused) ELSE IF Clean # {} THEN Least(Clean) ELSE 0

\* The buffers after the search: the first sweep clears the reference bits
\* on its way to the victim, on its whole round if it does not find one.
Swept ==
    LET passed == IF Unused # {} THEN {AfterHand(k) : k \in 0..Least(Unused)}
                  ELSE Index
    IN  [i \in Index |->
            IF i \in passed THEN [buf[i] EXCEPT !.ref = FALSE] ELSE buf[i]]

\* The hand moves past the victim.
HandAfter == AfterHand(Victim + 1)

---------------------------------------------------------------------------
(* The transfers.  sd_read_block and sd_write_block of several sectors     *)
(* stop at the first failure and return 1; of a single sector they return  *)
(* the code of the card, which is never 1, so that the caller takes a      *)
(* failure for success.                                                    *)

Detected == Cardinality(Sectors) # 1

\* The contents of `to' after a transfer of `from' that stopped after m
\* sectors.
Torn(to, from, m) == [s \in Sectors |-> IF s <= m THEN from[s] ELSE to[s]]

\* Mutant: the victim is not written back.
WriteBackForgotten(bs, i) == {[buf |-> bs, disk |-> disk, ok |-> TRUE]}

\* fs_write_4k and fs_write_512 of buffer i of the buffers bs: the outcomes.
WriteBack(bs, i) ==
    LET f == bs[i]
        clean == [bs EXCEPT ![i].dirty = FALSE]
        to == disk[f.cur]
    IN  IF f.cur = None \/ ~f.dirty THEN {[buf |-> bs, disk |-> disk, ok |-> TRUE]}
        ELSE {[buf |-> clean, disk |-> [disk EXCEPT ![f.cur] = f.data], ok |-> TRUE]}
             \cup {[buf |-> IF Detected THEN bs ELSE clean,
                    disk |-> [disk EXCEPT ![f.cur] = Torn(to, f.data, m)],
                    ok |-> ~Detected] :
                    m \in IF "write" \in Fails THEN {0} \cup Sectors ELSE {}}

\* read_block of the cluster at address a into buffer i of the buffers bs.
\* A failed transfer leaves the sectors already read in a buffer that still
\* bears the number of its old block.
Load(bs, d, i, a) ==
    LET got(m) == Torn(bs[i].data, d[a], m)
        entered(data) == [bs EXCEPT ![i] =
                            [data |-> data, cur |-> a, ref |-> TRUE, dirty |-> FALSE]]
    IN  {[buf |-> entered(d[a]), disk |-> d, ok |-> TRUE]}
        \cup {[buf |-> IF Detected THEN [bs EXCEPT ![i].data = got(m)]
                       ELSE entered(got(m)),
               disk |-> d, ok |-> ~Detected] :
               m \in IF "read" \in Fails
                     THEN {0} \cup (Sectors \ {Cardinality(Sectors)}) ELSE {}}

Holding(a) == {i \in Index : buf[i].cur = a}

\* Mutant: the blocks of the buffers are compared without the base address.
FsReadNoBase(b) ==
    LET i == AfterHand(Victim)
    IN  IF Holding(b) # {}
        THEN {[buf |-> buf, disk |-> disk, hand |-> clock_head,
               index |-> Least(Holding(b))]}
        ELSE UNION {{[buf |-> r.buf, disk |-> r.disk, hand |-> HandAfter,
                      index |-> i] : r \in Load(w.buf, w.disk, i, b + base_addr)} :
                        w \in WriteBack(Swept, i)}

\* fs_read_4k and fs_read_512 of block b: the buffers, the card, the hand
\* and the buffer that holds the block, None on failure.
FsRead(b) ==
    LET a == b + base_addr
        hit == Least(Holding(a))
        i == AfterHand(Victim)
        written == WriteBack(Swept, i)
    IN  IF Holding(a) # {}
        THEN {[buf |-> [buf EXCEPT ![hit].ref = TRUE], disk |-> disk,
               hand |-> clock_head, index |-> hit]}
        ELSE UNION {IF ~w.ok
                    THEN {[buf |-> w.buf, disk |-> w.disk, hand |-> HandAfter,
                           index |-> None]}
                    ELSE {[buf |-> r.buf, disk |-> r.disk, hand |-> HandAfter,
                           index |-> IF r.ok THEN i ELSE None] :
                           r \in Load(w.buf, w.disk, i, a)} : w \in written}

---------------------------------------------------------------------------
(* The requests.                                                           *)

\* fs_read of fat.c: a cluster is brought in; what is copied out is then its
\* Content.
Read(b) ==
    /\ flushing = 0
    /\ \E o \in FsRead(b) :
        /\ buf' = o.buf /\ disk' = o.disk /\ clock_head' = o.hand
        /\ result' = IF o.index = None THEN Error ELSE Done
    /\ UNCHANGED flushing

\* Mutant: a fs_write that only sets the reference bit.
WriteUnmarked(b, s, v) ==
    /\ flushing = 0
    /\ \E o \in FsRead(b) :
        /\ disk' = o.disk /\ clock_head' = o.hand
        /\ IF o.index = None THEN buf' = o.buf /\ result' = Error
           ELSE /\ buf' = [o.buf EXCEPT ![o.index].ref = TRUE,
                                        ![o.index].data[s] = v]
                /\ result' = Done
    /\ UNCHANGED flushing

\* fs_write of fat.c: a cluster is brought in, marked and changed.
Write(b, s, v) ==
    /\ flushing = 0
    /\ \E o \in FsRead(b) :
        /\ disk' = o.disk /\ clock_head' = o.hand
        /\ IF o.index = None THEN buf' = o.buf /\ result' = Error
           ELSE /\ buf' = [o.buf EXCEPT ![o.index].ref = TRUE,
                                        ![o.index].dirty = TRUE,
                                        ![o.index].data[s] = v]
                /\ result' = Done
    /\ UNCHANGED flushing

\* fs_clr_4k: a buffer of zeros for a cluster that fs_alloc just found, which
\* is in no buffer.  It is entered under its number in the partition.  The
\* erasure of that cluster on the card, a request of fs_alloc itself (fat.c:533)
\* that no buffer sees, is left out.
Clear(b) ==
    /\ flushing = 0
    /\ b \in Fresh
    /\ Holding(b + base_addr) \cup Holding(b) = {}
    /\ \E w \in WriteBack(Swept, AfterHand(Victim)) :
        /\ disk' = w.disk /\ clock_head' = HandAfter
        /\ IF ~w.ok THEN buf' = w.buf /\ result' = Error
           ELSE /\ buf' = [w.buf EXCEPT ![AfterHand(Victim)] =
                    [data |-> Erased, cur |-> b, ref |-> FALSE, dirty |-> FALSE]]
                /\ result' = Done
    /\ UNCHANGED flushing

\* Mutant: a failed transfer is skipped.
FlushSkips ==
    /\ \E w \in WriteBack(buf, flushing) : buf' = w.buf /\ disk' = w.disk
    /\ flushing' = (flushing + 1) % Size
    /\ result' = Done
    /\ UNCHANGED clock_head

\* fs_close of fat.c writes the buffers of the file in their order, one at a
\* step, and stops at a failure.
Flush ==
    /\ \E w \in WriteBack(buf, flushing) :
        /\ buf' = w.buf /\ disk' = w.disk
        /\ flushing' = IF w.ok THEN (flushing + 1) % Size ELSE 0
        /\ result' = IF w.ok THEN Done ELSE Error
    /\ UNCHANGED clock_head

Next ==
    \/ \E b \in Block :
        \/ Read(b) \/ Clear(b)
        \/ \E s \in Sectors, v \in Byte : Write(b, s, v)
    \/ Flush

Spec == Init /\ [][Next]_vars

---------------------------------------------------------------------------

\* The buffers hold contents of addresses or nothing, and only a buffer in
\* use is dirty; the hand and the flush stay inside the array.
TypeOK ==
    /\ disk \in [Address -> Contents]
    /\ buf \in [Index -> [data : Contents, cur : Address \cup {None},
                          ref : BOOLEAN, dirty : BOOLEAN]]
    /\ \A i \in Index : buf[i].dirty => buf[i].cur # None
    /\ clock_head \in Index /\ flushing \in Index
    /\ result \in {Done, Error}

\* What the file system reads as block b: its buffer, else the card.
Content(b) ==
    LET a == b + base_addr
    IN  IF Holding(a) # {} THEN buf[Least(Holding(a))].data ELSE disk[a]

\* No block is in two buffers: a change of one copy is never hidden by the
\* other.
NoAliases == \A b \in Block : Cardinality(Holding(b + base_addr)) <= 1

\* A buffer that the replacement drops without writing it back is what the
\* card has, whichever sector a failed write stopped at before.
CleanIsOnDisk ==
    \A b \in Block : \A i \in Holding(b + base_addr) :
        ~buf[i].dirty => buf[i].data = disk[b + base_addr]

\* When fs_close succeeds everything is on the card ("write all buf in memory
\* to SD", fat.c:365).
ClosedIsOnDisk ==
    [][Flush /\ flushing' = 0 /\ result' = Done =>
        \A b \in Block : disk'[b + base_addr] = Content(b)']_vars

\* A buffer with changes is given up only when every buffer has some.
DirtyEvictedLast ==
    [][\A i \in Index : buf[i].dirty /\ buf'[i].cur # buf[i].cur =>
        \A j \in Index : buf[j].dirty]_vars

\* fs_clr_4k is "used to avoid reading a new erased block from sd"
\* (fscache.c:94): the block it was called for is in a buffer then.
ClearedIsHeld ==
    [][\A b \in Block : Clear(b) /\ result' = Done =>
        \E i \in Index : buf'[i].cur = b + base_addr]_vars

\* The buffers and the card together are the store of BlockStore: a block
\* changes only by a write to it that succeeds, wherever its contents move
\* and whichever transfers fail.
Store == INSTANCE BlockStore WITH store <- [b \in Block |-> Content(b)]

ImplementsStore == Store!Spec
=============================================================================
