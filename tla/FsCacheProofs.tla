---------------------------- MODULE FsCacheProofs ----------------------------
(***************************************************************************)
(* The block cache of FsCache.tla for any number of buffers, blocks and    *)
(* sectors.  No block is ever in two buffers and changes are given up      *)
(* last, whatever transfers fail.  A buffer without changes is what the    *)
(* card has, a close that succeeds has written everything, and buffers     *)
(* and card are one store of blocks, provided that only writes fail, that  *)
(* failures are reported and that fs_clr_4k's number in the partition is   *)
(* no other block's address on the card.                                   *)
(***************************************************************************)
EXTENDS FsCache, QueuesTheorems

Buffer == [data : Contents, cur : Address \cup {None}, ref : BOOLEAN, dirty : BOOLEAN]

\* The buffers bs and the card d are well formed and no address is in two of
\* the buffers.
Sound(bs, d) ==
    /\ bs \in [Index -> Buffer] /\ d \in [Address -> Contents]
    /\ \A i \in Index : bs[i].dirty => bs[i].cur # None
    /\ \A i, j \in Index : bs[i].cur # None /\ bs[i].cur = bs[j].cur => i = j

\* CleanIsOnDisk of the buffers bs and the card d.
Synced(bs, d) ==
    \A b \in Block : \A i \in Index :
        bs[i].cur = b + base_addr /\ ~bs[i].dirty => bs[i].data = d[b + base_addr]

\* The card on which CleanIsOnDisk holds.
Reliable ==
    /\ Fails \subseteq {"write"} /\ Detected
    /\ \A b \in Fresh, c \in Block : b # c + base_addr

Inv ==
    /\ Sound(buf, disk)
    /\ clock_head \in Index /\ flushing \in Index /\ result \in {Done, Error}

---------------------------------------------------------------------------
(* The replacement.                                                        *)

LEMMA AddressNotNone ==
    ASSUME NEW b \in Block
    PROVE  /\ b \in Address /\ b + base_addr \in Address
           /\ b # None /\ b + base_addr # None
BY CacheAssumption DEF Address

LEMMA LeastIsIn ==
    ASSUME NEW S \in SUBSET Index, S # {}
    PROVE  Least(S) \in S
<1>1. IsFiniteSet(0..Size-1) /\ 0..Size-1 \subseteq Int
    BY CacheAssumption, FS_Interval
<1>2. S \in SUBSET Int /\ IsFiniteSet(S)
    BY <1>1, FS_Subset DEF Index
<1>3. \E k \in S : \A j \in S : k <= j
    BY <1>2, LeastAndGreatest
<1> QED
    BY <1>3 DEF Least

LEMMA VictimIsIndex ==
    ASSUME clock_head \in Index
    PROVE  AfterHand(Victim) \in Index /\ HandAfter \in Index
<1>1. Victim \in Index
    <2>1. Unused \in SUBSET Index /\ Clean \in SUBSET Index /\ 0 \in Index
        BY CacheAssumption DEF Unused, Clean, Index
    <2> QED
        BY <2>1, LeastIsIn DEF Victim
<1>2. ASSUME NEW k \in Nat PROVE AfterHand(k) \in Index
    BY CacheAssumption DEF AfterHand, Index
<1>3. Victim + 1 \in Nat /\ Victim \in Nat
    BY <1>1, CacheAssumption DEF Index
<1> QED
    BY <1>2, <1>3 DEF HandAfter

LEMMA SweptKeeps ==
    ASSUME Sound(buf, disk)
    PROVE  /\ Sound(Swept, disk)
           /\ \A i \in Index : /\ Swept[i].cur = buf[i].cur
                               /\ Swept[i].data = buf[i].data
                               /\ Swept[i].dirty = buf[i].dirty
<1>1. buf \in [Index -> Buffer]
    BY DEF Sound
<1>2. Swept \in [Index -> Buffer]
    BY <1>1 DEF Swept, Buffer
<1>3. \A i \in Index : /\ Swept[i].cur = buf[i].cur
                       /\ Swept[i].data = buf[i].data
                       /\ Swept[i].dirty = buf[i].dirty
    BY <1>1 DEF Swept, Buffer
<1> QED
    BY <1>2, <1>3 DEF Sound

---------------------------------------------------------------------------
(* The transfers.                                                          *)

LEMMA TornIsContents ==
    ASSUME NEW to \in Contents, NEW from \in Contents, NEW m
    PROVE  Torn(to, from, m) \in Contents
BY DEF Torn, Contents

\* The outcomes of a write-back of buffer i: nothing to do, done, or failed.
LEMMA WriteBackOutcomes ==
    ASSUME NEW bs, NEW i, NEW w \in WriteBack(bs, i)
    PROVE  \/ /\ bs[i].cur = None \/ ~bs[i].dirty
              /\ w = [buf |-> bs, disk |-> disk, ok |-> TRUE]
           \/ /\ bs[i].cur # None /\ bs[i].dirty
              /\ w = [buf |-> [bs EXCEPT ![i].dirty = FALSE],
                     disk |-> [disk EXCEPT ![bs[i].cur] = bs[i].data], ok |-> TRUE]
           \/ /\ bs[i].cur # None /\ bs[i].dirty
              /\ \E m : w = [buf |-> IF Detected THEN bs ELSE [bs EXCEPT ![i].dirty = FALSE],
                             disk |-> [disk EXCEPT ![bs[i].cur] =
                                         Torn(disk[bs[i].cur], bs[i].data, m)],
                             ok |-> ~Detected]
BY Zenon DEF WriteBack

\* A write-back, whether it fails or not, changes neither which blocks are in
\* the buffers nor any data in them.
LEMMA WriteBackKeeps ==
    ASSUME NEW bs, NEW i \in Index, Sound(bs, disk), NEW w \in WriteBack(bs, i)
    PROVE  /\ Sound(w.buf, w.disk)
           /\ \A j \in Index : w.buf[j].cur = bs[j].cur /\ w.buf[j].data = bs[j].data
           /\ \A j \in Index : w.buf[j].dirty => bs[j].dirty
<1> DEFINE clean == [bs EXCEPT ![i].dirty = FALSE]
<1>1. bs \in [Index -> Buffer] /\ disk \in [Address -> Contents]
    BY DEF Sound
<1>2. /\ clean \in [Index -> Buffer]
      /\ \A j \in Index : clean[j].cur = bs[j].cur /\ clean[j].data = bs[j].data
      /\ \A j \in Index : clean[j].dirty => bs[j].dirty
    BY <1>1 DEF Buffer
<1>3. w.buf \in {bs, clean}
    BY WriteBackOutcomes
<1>4. w.disk \in [Address -> Contents]
    <2>1. CASE bs[i].cur = None \/ ~bs[i].dirty
        BY <1>1, <2>1, WriteBackOutcomes
    <2>2. CASE ~(bs[i].cur = None \/ ~bs[i].dirty)
        <3>1. bs[i].cur \in Address /\ bs[i].data \in Contents /\ disk[bs[i].cur] \in Contents
            BY <1>1, <2>2 DEF Buffer
        <3>2. \/ w.disk = [disk EXCEPT ![bs[i].cur] = bs[i].data]
              \/ \E m : w.disk = [disk EXCEPT ![bs[i].cur] =
                                    Torn(disk[bs[i].cur], bs[i].data, m)]
            BY <2>2, WriteBackOutcomes
        <3>3. \A m : Torn(disk[bs[i].cur], bs[i].data, m) \in Contents
            BY <3>1, TornIsContents
        <3>4. \E c \in Contents : w.disk = [disk EXCEPT ![bs[i].cur] = c]
            BY <3>1, <3>2, <3>3, Zenon
        <3> QED
            BY <1>1, <3>1, <3>4
    <2> QED
        BY <2>1, <2>2
<1> HIDE DEF clean
<1> QED
    BY <1>1, <1>2, <1>3, <1>4 DEF Sound

\* On a reliable card a buffer is marked as clean only when the card has it.
LEMMA WriteBackSyncs ==
    ASSUME NEW bs, NEW i \in Index, Sound(bs, disk), NEW w \in WriteBack(bs, i),
           Synced(bs, disk), Detected
    PROVE  Synced(w.buf, w.disk)
<1>1. bs \in [Index -> Buffer] /\ disk \in [Address -> Contents]
    BY DEF Sound
<1>2. CASE bs[i].cur = None \/ ~bs[i].dirty
    BY <1>2, WriteBackOutcomes
<1>3. CASE ~(bs[i].cur = None \/ ~bs[i].dirty)
    <2> SUFFICES ASSUME NEW b \in Block, NEW j \in Index,
                        w.buf[j].cur = b + base_addr, ~w.buf[j].dirty
                 PROVE  w.buf[j].data = w.disk[b + base_addr]
        BY DEF Synced
    <2>1. bs[j].cur = b + base_addr /\ w.buf[j].data = bs[j].data
        BY WriteBackKeeps
    <2>2. b + base_addr \in Address /\ b + base_addr # None
        BY AddressNotNone
    <2>3. \A x \in Address : x # bs[i].cur => w.disk[x] = disk[x]
        BY <1>1, <1>3, WriteBackOutcomes
    <2>4. CASE j = i
        <3>1. w.buf # bs
            BY <1>3, <2>4
        <3>2. w.disk = [disk EXCEPT ![bs[i].cur] = bs[i].data]
            BY <1>3, <3>1, WriteBackOutcomes
        <3> QED
            BY <1>1, <2>1, <2>2, <2>4, <3>2
    <2>5. CASE j # i
        <3>1. b + base_addr # bs[i].cur
            BY <2>1, <2>2, <2>5 DEF Sound
        <3>2. w.buf[j] = bs[j]
            BY <1>1, <1>3, <2>5, WriteBackOutcomes
        <3> QED
            BY <2>1, <2>2, <2>3, <3>1, <3>2 DEF Synced
    <2> QED
        BY <2>4, <2>5
<1> QED
    BY <1>2, <1>3

\* The outcomes of a read of the block at a into buffer i: done, or failed.
LEMMA LoadOutcomes ==
    ASSUME NEW bs, NEW d, NEW i, NEW a, NEW r \in Load(bs, d, i, a)
    PROVE  \/ r = [buf |-> [bs EXCEPT ![i] = [data |-> d[a], cur |-> a,
                                            ref |-> TRUE, dirty |-> FALSE]],
                  disk |-> d, ok |-> TRUE]
           \/ /\ "read" \in Fails
              /\ \E m : r = [buf |-> IF Detected
                                     THEN [bs EXCEPT ![i].data = Torn(bs[i].data, d[a], m)]
                                     ELSE [bs EXCEPT ![i] =
                                            [data |-> Torn(bs[i].data, d[a], m), cur |-> a,
                                             ref |-> TRUE, dirty |-> FALSE]],
                             disk |-> d, ok |-> ~Detected]
BY Zenon DEF Load

\* A block that was in no buffer comes into one, or into none when the read
\* fails.
LEMMA LoadKeeps ==
    ASSUME NEW bs, NEW d, NEW i \in Index, NEW a \in Address, Sound(bs, d),
           a # None, \A j \in Index : bs[j].cur # a,
           NEW r \in Load(bs, d, i, a)
    PROVE  Sound(r.buf, r.disk)
<1>1. bs \in [Index -> Buffer] /\ d \in [Address -> Contents]
    BY DEF Sound
<1>2. bs[i].data \in Contents /\ d[a] \in Contents
    BY <1>1 DEF Buffer
<1>3. \A m : Torn(bs[i].data, d[a], m) \in Contents
    BY <1>2, TornIsContents
<1>4. \E c \in Contents :
        /\ r.disk = d
        /\ \/ r.buf = [bs EXCEPT ![i] = [data |-> c, cur |-> a, ref |-> TRUE, dirty |-> FALSE]]
           \/ r.buf = [bs EXCEPT ![i].data = c]
    <2>1. CASE r # [buf |-> [bs EXCEPT ![i] = [data |-> d[a], cur |-> a,
                                             ref |-> TRUE, dirty |-> FALSE]],
                    disk |-> d, ok |-> TRUE]
        <3>1. PICK m :
                r = [buf |-> IF Detected THEN [bs EXCEPT ![i].data = Torn(bs[i].data, d[a], m)]
                             ELSE [bs EXCEPT ![i] =
                                    [data |-> Torn(bs[i].data, d[a], m), cur |-> a,
                                     ref |-> TRUE, dirty |-> FALSE]],
                     disk |-> d, ok |-> ~Detected]
            BY <2>1, Zenon DEF Load
        <3>2. /\ r.disk = d
              /\ r.buf = IF Detected THEN [bs EXCEPT ![i].data = Torn(bs[i].data, d[a], m)]
                         ELSE [bs EXCEPT ![i] =
                                [data |-> Torn(bs[i].data, d[a], m), cur |-> a,
                                 ref |-> TRUE, dirty |-> FALSE]]
            BY <3>1
        <3> QED
            BY <1>3, <3>2, Zenon
    <2>2. CASE r = [buf |-> [bs EXCEPT ![i] = [data |-> d[a], cur |-> a,
                                             ref |-> TRUE, dirty |-> FALSE]],
                    disk |-> d, ok |-> TRUE]
        BY <1>2, <2>2
    <2> QED
        BY <2>1, <2>2
<1>5. PICK c \in Contents :
        /\ r.disk = d
        /\ \/ r.buf = [bs EXCEPT ![i] = [data |-> c, cur |-> a, ref |-> TRUE, dirty |-> FALSE]]
           \/ r.buf = [bs EXCEPT ![i].data = c]
    BY <1>4
<1>6. CASE r.buf = [bs EXCEPT ![i] = [data |-> c, cur |-> a, ref |-> TRUE, dirty |-> FALSE]]
    <2>1. r.buf \in [Index -> Buffer]
        BY <1>1, <1>6 DEF Buffer
    <2>2. \A j \in Index : IF j = i THEN r.buf[j].cur = a /\ ~r.buf[j].dirty
                           ELSE r.buf[j] = bs[j]
        BY <1>1, <1>6
    <2> QED
        BY <1>1, <1>5, <2>1, <2>2 DEF Sound
<1>7. CASE r.buf = [bs EXCEPT ![i].data = c]
    <2>1. r.buf \in [Index -> Buffer]
        BY <1>1, <1>7 DEF Buffer
    <2>2. \A j \in Index : r.buf[j].cur = bs[j].cur /\ (r.buf[j].dirty => bs[j].dirty)
        BY <1>1, <1>7 DEF Buffer
    <2> QED
        BY <1>1, <1>5, <2>1, <2>2 DEF Sound
<1> QED
    BY <1>5, <1>6, <1>7

\* Whether it succeeds or not it changes no other buffer.
LEMMA LoadTouches ==
    ASSUME NEW bs, NEW d, NEW i \in Index, NEW a, Sound(bs, d),
           NEW r \in Load(bs, d, i, a)
    PROVE  \A j \in Index : j # i => r.buf[j] = bs[j]
<1>1. bs \in [Index -> Buffer]
    BY DEF Sound
<1>2. \E x : r.buf = [bs EXCEPT ![i] = x]
    <2>1. CASE r = [buf |-> [bs EXCEPT ![i] = [data |-> d[a], cur |-> a,
                                             ref |-> TRUE, dirty |-> FALSE]],
                    disk |-> d, ok |-> TRUE]
        BY <2>1
    <2>2. CASE r # [buf |-> [bs EXCEPT ![i] = [data |-> d[a], cur |-> a,
                                             ref |-> TRUE, dirty |-> FALSE]],
                    disk |-> d, ok |-> TRUE]
        <3>1. PICK m :
                r = [buf |-> IF Detected THEN [bs EXCEPT ![i].data = Torn(bs[i].data, d[a], m)]
                             ELSE [bs EXCEPT ![i] =
                                    [data |-> Torn(bs[i].data, d[a], m), cur |-> a,
                                     ref |-> TRUE, dirty |-> FALSE]],
                     disk |-> d, ok |-> ~Detected]
            BY <2>2, Zenon DEF Load
        <3>2. r.buf = IF Detected
                      THEN [bs EXCEPT ![i] = [bs[i] EXCEPT !.data = Torn(bs[i].data, d[a], m)]]
                      ELSE [bs EXCEPT ![i] =
                             [data |-> Torn(bs[i].data, d[a], m), cur |-> a,
                              ref |-> TRUE, dirty |-> FALSE]]
            BY <3>1
        <3> QED
            BY <3>2, Zenon
    <2> QED
        BY <2>1, <2>2
<1> QED
    BY <1>1, <1>2

\* A read that succeeds, or seems to, leaves the block in its buffer.
LEMMA LoadEnters ==
    ASSUME NEW bs, NEW d, NEW i \in Index, NEW a \in Address, Sound(bs, d),
           NEW r \in Load(bs, d, i, a), r.ok
    PROVE  r.buf[i].cur = a
<1>1. bs \in [Index -> Buffer]
    BY DEF Sound
<1>2. CASE r = [buf |-> [bs EXCEPT ![i] = [data |-> d[a], cur |-> a,
                                         ref |-> TRUE, dirty |-> FALSE]],
                disk |-> d, ok |-> TRUE]
    BY <1>1, <1>2
<1>3. CASE r # [buf |-> [bs EXCEPT ![i] = [data |-> d[a], cur |-> a,
                                         ref |-> TRUE, dirty |-> FALSE]],
                disk |-> d, ok |-> TRUE]
    <2>1. PICK m :
            r = [buf |-> IF Detected THEN [bs EXCEPT ![i].data = Torn(bs[i].data, d[a], m)]
                         ELSE [bs EXCEPT ![i] =
                                [data |-> Torn(bs[i].data, d[a], m), cur |-> a,
                                 ref |-> TRUE, dirty |-> FALSE]],
                 disk |-> d, ok |-> ~Detected]
        BY <1>3, Zenon DEF Load
    <2>2. r.ok = ~Detected
        BY <2>1, Zenon
    <2>3. r.buf = IF Detected THEN [bs EXCEPT ![i].data = Torn(bs[i].data, d[a], m)]
                  ELSE [bs EXCEPT ![i] =
                         [data |-> Torn(bs[i].data, d[a], m), cur |-> a,
                          ref |-> TRUE, dirty |-> FALSE]]
        BY <2>1
    <2>4. ~Detected
        BY <2>2, Zenon
    <2> QED
        BY <1>1, <2>3, <2>4
<1> QED
    BY <1>2, <1>3

\* When no read fails the buffer is what the card has.
LEMMA LoadSyncs ==
    ASSUME NEW bs, NEW d, NEW i \in Index, NEW a \in Address, Sound(bs, d),
           Synced(bs, d), "read" \notin Fails, NEW r \in Load(bs, d, i, a)
    PROVE  Synced(r.buf, r.disk)
<1>1. bs \in [Index -> Buffer]
    BY DEF Sound
<1>2. /\ r.buf = [bs EXCEPT ![i] = [data |-> d[a], cur |-> a, ref |-> TRUE, dirty |-> FALSE]]
      /\ r.disk = d
    <2>1. r = [buf |-> [bs EXCEPT ![i] = [data |-> d[a], cur |-> a,
                                        ref |-> TRUE, dirty |-> FALSE]],
               disk |-> d, ok |-> TRUE]
        BY LoadOutcomes, Zenon
    <2> QED
        BY <2>1
<1>3. \A j \in Index : IF j = i THEN r.buf[j].cur = a /\ r.buf[j].data = d[a]
                       ELSE r.buf[j] = bs[j]
    BY <1>1, <1>2
<1> QED
    BY <1>2, <1>3 DEF Synced

---------------------------------------------------------------------------
(* fs_read_4k.                                                             *)

\* What it leaves behind, whether it succeeds or not.
LEMMA FsReadOutcomes ==
    ASSUME NEW b \in Block, NEW o \in FsRead(b)
    PROVE  \/ /\ Holding(b + base_addr) # {}
              /\ o = [buf |-> [buf EXCEPT ![Least(Holding(b + base_addr))].ref = TRUE],
                     disk |-> disk, hand |-> clock_head,
                     index |-> Least(Holding(b + base_addr))]
           \/ /\ Holding(b + base_addr) = {}
              /\ \E w \in WriteBack(Swept, AfterHand(Victim)) :
                 \/ /\ ~w.ok
                    /\ o = [buf |-> w.buf, disk |-> w.disk, hand |-> HandAfter, index |-> None]
                 \/ /\ w.ok
                    /\ \E r \in Load(w.buf, w.disk, AfterHand(Victim), b + base_addr) :
                        o = [buf |-> r.buf, disk |-> r.disk, hand |-> HandAfter,
                             index |-> IF r.ok THEN AfterHand(Victim) ELSE None]
BY Zenon DEF FsRead

LEMMA HitKeeps ==
    ASSUME Sound(buf, disk), NEW i \in Index
    PROVE  /\ Sound([buf EXCEPT ![i].ref = TRUE], disk)
           /\ Synced(buf, disk) => Synced([buf EXCEPT ![i].ref = TRUE], disk)
<1> DEFINE bs == [buf EXCEPT ![i].ref = TRUE]
<1>1. buf \in [Index -> Buffer]
    BY DEF Sound
<1>2. bs \in [Index -> Buffer]
    BY <1>1 DEF Buffer
<1>3. \A j \in Index : /\ bs[j].cur = buf[j].cur /\ bs[j].data = buf[j].data
                       /\ bs[j].dirty <=> buf[j].dirty
    BY <1>1 DEF Buffer
<1> HIDE DEF bs
<1>4. Sound(bs, disk)
    BY <1>2, <1>3 DEF Sound
<1>5. Synced(buf, disk) => Synced(bs, disk)
    BY <1>3 DEF Synced
<1> QED
    BY <1>4, <1>5 DEF bs

LEMMA FsReadKeeps ==
    ASSUME NEW b \in Block, NEW o \in FsRead(b), Sound(buf, disk), clock_head \in Index
    PROVE  /\ Sound(o.buf, o.disk) /\ o.hand \in Index
           /\ o.index \in Index \cup {None}
           /\ o.index # None => o.buf[o.index].cur = b + base_addr
           /\ Reliable /\ Synced(buf, disk) => Synced(o.buf, o.disk)
<1> DEFINE a == b + base_addr
           i == AfterHand(Victim)
<1>1. i \in Index /\ HandAfter \in Index
    BY VictimIsIndex
<1>2. a \in Address /\ a # None
    BY AddressNotNone
<1>3. Holding(a) \in SUBSET Index
    BY DEF Holding
<1>4. CASE Holding(a) # {}
    <2>1. Least(Holding(a)) \in Index /\ buf[Least(Holding(a))].cur = a
        BY <1>3, <1>4, LeastIsIn DEF Holding
    <2>2. o = [buf |-> [buf EXCEPT ![Least(Holding(a))].ref = TRUE],
               disk |-> disk, hand |-> clock_head, index |-> Least(Holding(a))]
        BY <1>4, FsReadOutcomes
    <2>3. /\ Sound(o.buf, o.disk) /\ o.hand \in Index
          /\ Reliable /\ Synced(buf, disk) => Synced(o.buf, o.disk)
        BY <2>1, <2>2, HitKeeps
    <2>4. buf \in [Index -> Buffer]
        BY DEF Sound
    <2>5. o.buf[o.index].cur = a
        BY <2>1, <2>2, <2>4 DEF Buffer
    <2> QED
        BY <2>1, <2>2, <2>3, <2>5
<1>5. CASE Holding(a) = {}
    <2>1. PICK w \in WriteBack(Swept, i) :
             \/ o = [buf |-> w.buf, disk |-> w.disk, hand |-> HandAfter, index |-> None]
             \/ \E r \in Load(w.buf, w.disk, i, a) :
                   o = [buf |-> r.buf, disk |-> r.disk, hand |-> HandAfter,
                        index |-> IF r.ok THEN i ELSE None]
        BY <1>5, FsReadOutcomes, Zenon
    <2>2. Sound(Swept, disk) /\ \A j \in Index : Swept[j].cur = buf[j].cur
        BY SweptKeeps
    <2>3. /\ Sound(w.buf, w.disk)
          /\ \A j \in Index : w.buf[j].cur = Swept[j].cur
        BY <1>1, <2>2, WriteBackKeeps
    <2>4. \A j \in Index : w.buf[j].cur # a
        BY <1>5, <2>2, <2>3 DEF Holding
    <2>5. Synced(buf, disk) => Synced(Swept, disk)
        BY SweptKeeps DEF Synced
    <2>6. Reliable /\ Synced(buf, disk) => Synced(w.buf, w.disk)
        BY <1>1, <2>2, <2>5, WriteBackSyncs DEF Reliable
    <2>7. CASE o = [buf |-> w.buf, disk |-> w.disk, hand |-> HandAfter, index |-> None]
        BY <1>1, <2>3, <2>6, <2>7
    <2>8. ASSUME NEW r \in Load(w.buf, w.disk, i, a),
                 o = [buf |-> r.buf, disk |-> r.disk, hand |-> HandAfter,
                      index |-> IF r.ok THEN i ELSE None]
          PROVE  /\ Sound(o.buf, o.disk) /\ o.hand \in Index
                 /\ o.index \in Index \cup {None}
                 /\ o.index # None => o.buf[o.index].cur = a
                 /\ Reliable /\ Synced(buf, disk) => Synced(o.buf, o.disk)
        <3>1. Sound(r.buf, r.disk)
            BY <1>1, <1>2, <2>3, <2>4, LoadKeeps
        <3>2. Reliable /\ Synced(buf, disk) => Synced(r.buf, r.disk)
            BY <1>1, <1>2, <2>3, <2>6, LoadSyncs DEF Reliable
        <3>3. o.index # None => o.index = i /\ r.ok
            BY <2>8
        <3>4. r.ok => r.buf[i].cur = a
            BY <1>1, <1>2, <2>3, LoadEnters
        <3> QED
            BY <1>1, <2>8, <3>1, <3>2, <3>3, <3>4
    <2> QED
        BY <2>1, <2>7, <2>8
<1> QED
    BY <1>4, <1>5

---------------------------------------------------------------------------
(* The requests.                                                           *)

LEMMA InitInv == Init => Inv /\ Synced(buf, disk)
<1> SUFFICES ASSUME Init PROVE Inv /\ Synced(buf, disk)
    OBVIOUS
<1>1. Erased \in Contents
    BY CacheAssumption DEF Erased, Contents
<1>2. buf = [i \in Index |-> [data |-> Erased, cur |-> None, ref |-> FALSE, dirty |-> FALSE]]
    BY DEF Init
<1>3. buf \in [Index -> Buffer]
    BY <1>1, <1>2 DEF Buffer
<1>4. \A i \in Index : buf[i].cur = None /\ ~buf[i].dirty
    BY <1>2
<1>5. disk \in [Address -> Contents]
    BY <1>1 DEF Init
<1>6. Sound(buf, disk)
    BY <1>3, <1>4, <1>5 DEF Sound
<1>7. Synced(buf, disk)
    BY <1>4, AddressNotNone DEF Synced
<1> QED
    BY <1>6, <1>7, CacheAssumption DEF Inv, Init, Index

LEMMA ReadKeepsInv ==
    ASSUME Inv, NEW b \in Block, Read(b)
    PROVE  Inv' /\ (Reliable /\ Synced(buf, disk) => Synced(buf, disk)')
<1>1. PICK o \in FsRead(b) :
        /\ buf' = o.buf /\ disk' = o.disk /\ clock_head' = o.hand
        /\ result' = IF o.index = None THEN Error ELSE Done
    BY DEF Read
<1>2. /\ Sound(o.buf, o.disk) /\ o.hand \in Index
      /\ Reliable /\ Synced(buf, disk) => Synced(o.buf, o.disk)
    BY FsReadKeeps DEF Inv
<1> QED
    BY <1>1, <1>2 DEF Inv, Read, Sound, Synced

LEMMA DataKeepsType ==
    ASSUME NEW bs \in [Index -> Buffer], NEW i \in Index, NEW c \in Contents
    PROVE  [bs EXCEPT ![i].data = c] \in [Index -> Buffer]
BY DEF Buffer

\* A buffer that is marked may hold anything.
LEMMA MarkKeeps ==
    ASSUME NEW bs, NEW d, NEW i \in Index, NEW s \in Sectors, NEW v \in Byte,
           Sound(bs, d), bs[i].cur # None,
           NEW new, new = [bs EXCEPT ![i].ref = TRUE, ![i].dirty = TRUE, ![i].data[s] = v]
    PROVE  Sound(new, d) /\ (Synced(bs, d) => Synced(new, d))
<1>1. bs \in [Index -> Buffer]
    BY DEF Sound
<1> DEFINE ref == [bs EXCEPT ![i].ref = TRUE]
           marked == [ref EXCEPT ![i].dirty = TRUE]
<1>2. ref \in [Index -> Buffer] /\ marked \in [Index -> Buffer]
    <2>1. ref \in [Index -> Buffer]
        BY <1>1 DEF Buffer
    <2> HIDE DEF ref
    <2> QED
        BY <2>1 DEF Buffer
<1>3. new = [marked EXCEPT ![i].data[s] = v]
    BY Zenon
<1>4. new \in [Index -> Buffer]
    <2> DEFINE data == [marked[i].data EXCEPT ![s] = v]
    <2> HIDE DEF marked
    <2>1. data \in Contents
        BY <1>2 DEF Buffer, Contents
    <2>2. new = [marked EXCEPT ![i].data = data]
        BY <1>3
    <2> HIDE DEF data
    <2>3. [marked EXCEPT ![i].data = data] \in [Index -> Buffer]
        BY <1>2, <2>1, DataKeepsType, Zenon
    <2> QED
        BY <2>2, <2>3, Zenon
<1>5. \A j \in Index : IF j = i THEN new[j].cur = bs[i].cur /\ new[j].dirty
                       ELSE new[j] = bs[j]
    BY <1>1, <1>3 DEF Buffer
<1>6. Sound(new, d)
    BY <1>4, <1>5 DEF Sound
<1>7. Synced(bs, d) => Synced(new, d)
    BY <1>5, ZenonT(60) DEF Synced
<1> QED
    BY <1>6, <1>7

LEMMA WriteKeepsInv ==
    ASSUME Inv, NEW b \in Block, NEW s \in Sectors, NEW v \in Byte, Write(b, s, v)
    PROVE  Inv' /\ (Reliable /\ Synced(buf, disk) => Synced(buf, disk)')
<1>1. PICK o \in FsRead(b) :
        /\ disk' = o.disk /\ clock_head' = o.hand
        /\ IF o.index = None THEN buf' = o.buf /\ result' = Error
           ELSE /\ buf' = [o.buf EXCEPT ![o.index].ref = TRUE, ![o.index].dirty = TRUE,
                                        ![o.index].data[s] = v]
                /\ result' = Done
    BY ZenonT(60) DEF Write
<1>2. /\ Sound(o.buf, o.disk) /\ o.hand \in Index /\ o.index \in Index \cup {None}
      /\ o.index # None => o.buf[o.index].cur = b + base_addr
      /\ Reliable /\ Synced(buf, disk) => Synced(o.buf, o.disk)
    BY FsReadKeeps DEF Inv
<1>3. Sound(buf', disk') /\ (Synced(o.buf, o.disk) => Synced(buf', disk'))
    <2>1. CASE o.index = None
        BY <1>1, <1>2, <2>1
    <2>2. CASE o.index # None
        <3>1. o.index \in Index /\ o.buf[o.index].cur # None
            BY <1>2, <2>2, AddressNotNone
        <3> QED
            BY <1>1, <1>2, <2>2, <3>1, MarkKeeps, ZenonT(60)
    <2> QED
        BY <2>1, <2>2
<1> QED
    BY <1>1, <1>2, <1>3, ZenonT(60) DEF Inv, Write, Sound, Synced

LEMMA ClearKeepsInv ==
    ASSUME Inv, NEW b \in Block, Clear(b)
    PROVE  Inv' /\ (Reliable /\ Synced(buf, disk) => Synced(buf, disk)')
<1> DEFINE i == AfterHand(Victim)
<1>1. PICK w \in WriteBack(Swept, i) :
        /\ disk' = w.disk /\ clock_head' = HandAfter /\ result' \in {Done, Error}
        /\ \/ buf' = w.buf
           \/ buf' = [w.buf EXCEPT ![i] =
                        [data |-> Erased, cur |-> b, ref |-> FALSE, dirty |-> FALSE]]
    BY DEF Clear
<1>2. i \in Index /\ HandAfter \in Index
    BY VictimIsIndex DEF Inv
<1>3. Sound(Swept, disk) /\ \A j \in Index : Swept[j].cur = buf[j].cur
    BY SweptKeeps DEF Inv
<1>4. Sound(w.buf, w.disk) /\ \A j \in Index : w.buf[j].cur = Swept[j].cur
    BY <1>2, <1>3, WriteBackKeeps
<1>5. Synced(buf, disk) => Synced(Swept, disk)
    BY SweptKeeps DEF Inv, Synced
<1>6. Reliable /\ Synced(buf, disk) => Synced(w.buf, w.disk)
    BY <1>2, <1>3, <1>5, WriteBackSyncs DEF Reliable
<1>7. \A j \in Index : w.buf[j].cur # b
    BY <1>3, <1>4 DEF Clear, Holding
<1>8. CASE buf' = [w.buf EXCEPT ![i] =
                    [data |-> Erased, cur |-> b, ref |-> FALSE, dirty |-> FALSE]]
    <2>1. b \in Address /\ b # None /\ Erased \in Contents
        BY AddressNotNone, CacheAssumption DEF Erased, Contents
    <2>2. w.buf \in [Index -> Buffer]
        BY <1>4 DEF Sound
    <2>3. buf' \in [Index -> Buffer]
        BY <1>8, <2>1, <2>2 DEF Buffer
    <2>4. \A j \in Index : IF j = i THEN buf'[j].cur = b /\ ~buf'[j].dirty
                           ELSE buf'[j] = w.buf[j]
        BY <1>8, <2>2
    <2>5. Sound(buf', w.disk)
        BY <1>4, <1>7, <2>1, <2>3, <2>4 DEF Sound
    <2>6. Reliable => \A c \in Block : b # c + base_addr
        BY DEF Reliable, Clear
    <2>7. Reliable /\ Synced(buf, disk) => Synced(buf', w.disk)
        BY <1>6, <2>4, <2>6 DEF Synced
    <2> QED
        BY <1>1, <1>2, <2>5, <2>7 DEF Inv, Clear, Sound, Synced
<1>9. CASE buf' = w.buf
    BY <1>1, <1>2, <1>4, <1>6, <1>9 DEF Inv, Clear, Sound, Synced
<1> QED
    BY <1>1, <1>8, <1>9

LEMMA FlushKeepsInv ==
    ASSUME Inv, Flush
    PROVE  Inv' /\ (Reliable /\ Synced(buf, disk) => Synced(buf, disk)')
<1>1. PICK w \in WriteBack(buf, flushing) :
        /\ buf' = w.buf /\ disk' = w.disk
        /\ flushing' = IF w.ok THEN (flushing + 1) % Size ELSE 0
        /\ result' = IF w.ok THEN Done ELSE Error
    BY DEF Flush
<1>2. Sound(w.buf, w.disk)
    BY WriteBackKeeps DEF Inv
<1>3. Reliable /\ Synced(buf, disk) => Synced(w.buf, w.disk)
    BY WriteBackSyncs DEF Inv, Reliable
<1>4. (flushing + 1) % Size \in Index /\ 0 \in Index
    BY CacheAssumption DEF Inv, Index
<1>5. flushing' \in Index /\ result' \in {Done, Error}
    BY <1>1, <1>4
<1> QED
    BY <1>1, <1>2, <1>3, <1>5 DEF Inv, Flush, Sound, Synced

LEMMA NextKeepsInv ==
    Inv /\ [Next]_vars => Inv' /\ (Reliable /\ Synced(buf, disk) => Synced(buf, disk)')
<1> SUFFICES ASSUME Inv, [Next]_vars
             PROVE  Inv' /\ (Reliable /\ Synced(buf, disk) => Synced(buf, disk)')
    OBVIOUS
<1>1. CASE UNCHANGED vars
    BY <1>1 DEF vars, Inv, Sound, Synced
<1>2. ASSUME NEW b \in Block, Read(b)
      PROVE  Inv' /\ (Reliable /\ Synced(buf, disk) => Synced(buf, disk)')
    BY <1>2, ReadKeepsInv
<1>3. ASSUME NEW b \in Block, Clear(b)
      PROVE  Inv' /\ (Reliable /\ Synced(buf, disk) => Synced(buf, disk)')
    BY <1>3, ClearKeepsInv
<1>4. ASSUME NEW b \in Block, NEW s \in Sectors, NEW v \in Byte, Write(b, s, v)
      PROVE  Inv' /\ (Reliable /\ Synced(buf, disk) => Synced(buf, disk)')
    BY <1>4, WriteKeepsInv
<1>5. CASE Flush
    BY <1>5, FlushKeepsInv
<1> QED
    BY <1>1, <1>2, <1>3, <1>4, <1>5 DEF Next

---------------------------------------------------------------------------
(* The theorems.                                                           *)

\* The buffers stay well formed: hand and flush stay inside the array, the
\* contents of a buffer are those of an address, and only a buffer in use has
\* changes, whatever transfers fail.
THEOREM CacheTypeCorrect == Spec => []TypeOK
<1>1. Init => Inv
    BY InitInv
<1>2. Inv /\ [Next]_vars => Inv'
    BY NextKeepsInv
<1>3. Inv => TypeOK
    BY DEF Inv, Sound, TypeOK, Buffer
<1> QED
    BY <1>1, <1>2, <1>3, PTL DEF Spec

\* fs_read_4k and fs_clr_4k never bring a block into a second buffer, whatever
\* the replacement drops and whatever transfers fail: a change is never hidden
\* by another copy.
THEOREM OneBufferPerBlock == Spec => []NoAliases
<1>1. Init => Inv
    BY InitInv
<1>2. Inv /\ [Next]_vars => Inv'
    BY NextKeepsInv
<1>3. Inv => NoAliases
    <2> SUFFICES ASSUME Inv, NEW b \in Block
                 PROVE  Cardinality(Holding(b + base_addr)) <= 1
        BY DEF NoAliases
    <2>1. \A i, j \in Holding(b + base_addr) : i = j
        BY AddressNotNone DEF Inv, Sound, Holding
    <2>2. Holding(b + base_addr) = {} \/ \E i : Holding(b + base_addr) = {i}
        BY <2>1
    <2>3. Cardinality({}) = 0 /\ \A i : Cardinality({i}) = 1
        BY FS_EmptySet, FS_Singleton
    <2>4. Cardinality(Holding(b + base_addr)) \in {0, 1}
        BY <2>2, <2>3, Zenon
    <2> QED
        BY <2>4
<1> QED
    BY <1>1, <1>2, <1>3, PTL DEF Spec

\* On a card that reports every failed write and never fails to read, a buffer
\* that the replacement drops without writing it back is what the card has.
THEOREM CleanMatchesCard ==
    ASSUME Reliable
    PROVE  Spec => []CleanIsOnDisk
<1> DEFINE SyncInv == Inv /\ Synced(buf, disk)
<1>1. Init => SyncInv
    BY InitInv
<1>2. SyncInv /\ [Next]_vars => SyncInv'
    BY NextKeepsInv
<1>3. SyncInv => CleanIsOnDisk
    BY DEF Synced, CleanIsOnDisk, Holding
<1> QED
    BY <1>1, <1>2, <1>3, PTL DEF Spec

---------------------------------------------------------------------------
(* The cache implements the store.                                         *)

\* Content of the buffers bs and the card d.
ContentOf(bs, d, b) ==
    LET held == {i \in Index : bs[i].cur = b + base_addr}
    IN  IF held # {} THEN bs[Least(held)].data ELSE d[b + base_addr]

SameContent(bs, d, bs2, d2) ==
    \A b \in Block : ContentOf(bs2, d2, b) = ContentOf(bs, d, b)

LEMMA ContentIs ==
    ASSUME NEW bs, NEW d, Sound(bs, d), NEW b \in Block
    PROVE  /\ \A i \in Index : bs[i].cur = b + base_addr => ContentOf(bs, d, b) = bs[i].data
           /\ (\A i \in Index : bs[i].cur # b + base_addr)
                => ContentOf(bs, d, b) = d[b + base_addr]
           /\ ContentOf(bs, d, b) \in Contents
<1> DEFINE held == {i \in Index : bs[i].cur = b + base_addr}
<1>1. b + base_addr \in Address /\ b + base_addr # None
    BY AddressNotNone
<1>2. held \in SUBSET Index
    OBVIOUS
<1>3. ASSUME held # {}
      PROVE  Least(held) \in held
    BY <1>2, <1>3, LeastIsIn
<1>4. \A i \in Index : bs[i].cur = b + base_addr => ContentOf(bs, d, b) = bs[i].data
    <2> SUFFICES ASSUME NEW i \in Index, bs[i].cur = b + base_addr
                 PROVE  ContentOf(bs, d, b) = bs[i].data
        OBVIOUS
    <2>1. held # {}
        OBVIOUS
    <2>2. Least(held) = i
        BY <1>1, <1>3, <2>1 DEF Sound
    <2> QED
        BY <2>1, <2>2 DEF ContentOf
<1>5. (\A i \in Index : bs[i].cur # b + base_addr)
        => ContentOf(bs, d, b) = d[b + base_addr]
    BY DEF ContentOf
<1>6. \A i \in Index : bs[i].data \in Contents
    BY DEF Sound, Buffer
<1>7. d[b + base_addr] \in Contents
    BY <1>1 DEF Sound
<1> QED
    BY <1>4, <1>5, <1>6, <1>7

\* Buffers that hold what they held, over a card that is changed only where a
\* buffer holds the block.
LEMMA KeptContent ==
    ASSUME NEW bs, NEW d, NEW bs2, NEW d2, Sound(bs, d), Sound(bs2, d2),
           \A j \in Index : bs2[j].cur = bs[j].cur /\ bs2[j].data = bs[j].data,
           \A b \in Block : (\A j \in Index : bs[j].cur # b + base_addr)
                               => d2[b + base_addr] = d[b + base_addr]
    PROVE  SameContent(bs, d, bs2, d2)
<1> SUFFICES ASSUME NEW b \in Block
             PROVE  ContentOf(bs2, d2, b) = ContentOf(bs, d, b)
    BY DEF SameContent
<1>1. CASE \A j \in Index : bs[j].cur # b + base_addr
    <2>1. \A j \in Index : bs2[j].cur # b + base_addr
        BY <1>1
    <2> QED
        BY <1>1, <2>1, ContentIs
<1>2. ASSUME NEW j \in Index, bs[j].cur = b + base_addr
      PROVE  ContentOf(bs2, d2, b) = ContentOf(bs, d, b)
    BY <1>2, ContentIs
<1> QED
    BY <1>1, <1>2

LEMMA WriteBackContent ==
    ASSUME NEW bs, NEW i \in Index, Sound(bs, disk), NEW w \in WriteBack(bs, i)
    PROVE  SameContent(bs, disk, w.buf, w.disk)
<1>1. /\ Sound(w.buf, w.disk)
      /\ \A j \in Index : w.buf[j].cur = bs[j].cur /\ w.buf[j].data = bs[j].data
    BY WriteBackKeeps
<1>2. \A x \in Address : x # bs[i].cur => w.disk[x] = disk[x]
    <2>1. disk \in [Address -> Contents]
        BY DEF Sound
    <2>2. CASE bs[i].cur = None \/ ~bs[i].dirty
        BY <2>2, WriteBackOutcomes
    <2>3. CASE ~(bs[i].cur = None \/ ~bs[i].dirty)
        BY <2>1, <2>3, WriteBackOutcomes
    <2> QED
        BY <2>2, <2>3
<1>3. \A b \in Block : (\A j \in Index : bs[j].cur # b + base_addr)
                           => w.disk[b + base_addr] = disk[b + base_addr]
    BY <1>2, AddressNotNone
<1> QED
    BY <1>1, <1>3, KeptContent

\* A write-back that succeeds leaves nothing in the buffer that the card does
\* not have.
LEMMA WriteBackCleans ==
    ASSUME NEW bs, NEW i \in Index, Sound(bs, disk), NEW w \in WriteBack(bs, i),
           Detected, w.ok
    PROVE  w.buf[i].cur = None \/ ~w.buf[i].dirty
<1>1. bs \in [Index -> Buffer]
    BY DEF Sound
<1>2. CASE bs[i].cur = None \/ ~bs[i].dirty
    BY <1>2, WriteBackOutcomes
<1>3. CASE ~(bs[i].cur = None \/ ~bs[i].dirty)
    <2>1. CASE w = [buf |-> [bs EXCEPT ![i].dirty = FALSE],
                    disk |-> [disk EXCEPT ![bs[i].cur] = bs[i].data], ok |-> TRUE]
        BY <1>1, <2>1 DEF Buffer
    <2>2. CASE w # [buf |-> [bs EXCEPT ![i].dirty = FALSE],
                    disk |-> [disk EXCEPT ![bs[i].cur] = bs[i].data], ok |-> TRUE]
        <3>1. PICK m : w = [buf |-> IF Detected THEN bs ELSE [bs EXCEPT ![i].dirty = FALSE],
                            disk |-> [disk EXCEPT ![bs[i].cur] =
                                        Torn(disk[bs[i].cur], bs[i].data, m)],
                            ok |-> ~Detected]
            BY <1>3, <2>2, Zenon DEF WriteBack
        <3>2. w.ok = ~Detected
            BY <3>1, Zenon
        <3> QED
            BY <3>2, Zenon
    <2> QED
        BY <2>1, <2>2
<1> QED
    BY <1>2, <1>3

\* A buffer that has nothing the card does not have can be given up for the
\* entry e, when e is of no block or has what the card has.
LEMMA EnteredContent ==
    ASSUME NEW bs, NEW d, NEW bs2, NEW i \in Index, NEW e,
           Sound(bs, d), Synced(bs, d), bs[i].cur = None \/ ~bs[i].dirty,
           Sound(bs2, d), \A j \in Index : bs2[j] = IF j = i THEN e ELSE bs[j],
           \A j \in Index : bs[j].cur # e.cur,
           \A b \in Block : e.cur = b + base_addr => e.data = d[b + base_addr]
    PROVE  SameContent(bs, d, bs2, d)
<1> SUFFICES ASSUME NEW b \in Block
             PROVE  ContentOf(bs2, d, b) = ContentOf(bs, d, b)
    BY DEF SameContent
<1> DEFINE a == b + base_addr
           Free(x) == \A j \in Index : x[j].cur # a
<1>1. a # None
    BY AddressNotNone
<1>2. /\ \A j \in Index : bs[j].cur = a => ContentOf(bs, d, b) = bs[j].data
      /\ Free(bs) => ContentOf(bs, d, b) = d[a]
    BY ContentIs
<1>3. /\ \A j \in Index : bs2[j].cur = a => ContentOf(bs2, d, b) = bs2[j].data
      /\ Free(bs2) => ContentOf(bs2, d, b) = d[a]
    BY ContentIs
<1>4. \A j \in Index : bs[j].cur = a /\ bs[i].cur = a => j = i
    BY <1>1 DEF Sound
<1>5. bs[i].cur = a => bs[i].data = d[a]
    BY <1>1 DEF Synced
<1>6. bs2[i] = e /\ \A j \in Index : j # i => bs2[j] = bs[j]
    OBVIOUS
<1>7. CASE e.cur = a
    <2>1. ContentOf(bs2, d, b) = e.data
        BY <1>3, <1>6, <1>7
    <2>2. Free(bs)
        BY <1>7
    <2> QED
        BY <1>2, <1>7, <2>1, <2>2
<1>8. CASE e.cur # a /\ bs[i].cur = a
    <2>1. Free(bs2)
        BY <1>4, <1>6, <1>8
    <2> QED
        BY <1>2, <1>3, <1>5, <1>8, <2>1
<1>9. CASE e.cur # a /\ bs[i].cur # a
    <2>1. CASE Free(bs)
        BY <1>2, <1>3, <1>6, <1>9, <2>1
    <2>2. ASSUME NEW j \in Index, bs[j].cur = a
          PROVE  ContentOf(bs2, d, b) = ContentOf(bs, d, b)
        BY <1>2, <1>3, <1>6, <1>9, <2>2
    <2> QED
        BY <2>1, <2>2
<1> QED
    BY <1>7, <1>8, <1>9

\* Making room for a block changes no content.
LEMMA RoomContent ==
    ASSUME Sound(buf, disk), clock_head \in Index,
           NEW w \in WriteBack(Swept, AfterHand(Victim))
    PROVE  SameContent(buf, disk, w.buf, w.disk)
<1>1. AfterHand(Victim) \in Index
    BY VictimIsIndex
<1>2. /\ Sound(Swept, disk)
      /\ \A j \in Index : Swept[j].cur = buf[j].cur /\ Swept[j].data = buf[j].data
    BY SweptKeeps
<1>3. SameContent(buf, disk, Swept, disk)
    BY <1>2, KeptContent
<1>4. SameContent(Swept, disk, w.buf, w.disk)
    BY <1>1, <1>2, WriteBackContent
<1> QED
    BY <1>3, <1>4 DEF SameContent

LEMMA FsReadContent ==
    ASSUME Reliable, Sound(buf, disk), Synced(buf, disk), clock_head \in Index,
           NEW b \in Block, NEW o \in FsRead(b)
    PROVE  SameContent(buf, disk, o.buf, o.disk)
<1> DEFINE a == b + base_addr
           i == AfterHand(Victim)
<1>1. i \in Index /\ HandAfter \in Index
    BY VictimIsIndex
<1>2. a \in Address /\ a # None
    BY AddressNotNone
<1>3. buf \in [Index -> Buffer]
    BY DEF Sound
<1>4. CASE Holding(a) # {}
    <2> DEFINE hit == Least(Holding(a))
    <2>1. hit \in Index
        <3>1. Holding(a) \in SUBSET Index
            BY DEF Holding
        <3> QED
            BY <1>4, <3>1, LeastIsIn
    <2>2. o = [buf |-> [buf EXCEPT ![hit].ref = TRUE], disk |-> disk, hand |-> clock_head,
               index |-> hit]
        BY <1>4, FsReadOutcomes
    <2> HIDE DEF hit
    <2>3. /\ o.disk = disk
          /\ \A j \in Index : o.buf[j].cur = buf[j].cur /\ o.buf[j].data = buf[j].data
        BY <1>3, <2>1, <2>2 DEF Buffer
    <2>4. Sound(o.buf, disk)
        BY <2>1, <2>2, HitKeeps
    <2> QED
        BY <2>3, <2>4, KeptContent
<1>5. CASE Holding(a) = {}
    <2>1. PICK w \in WriteBack(Swept, i) :
             \/ o = [buf |-> w.buf, disk |-> w.disk, hand |-> HandAfter, index |-> None]
             \/ /\ w.ok
                /\ \E r \in Load(w.buf, w.disk, i, a) :
                   o = [buf |-> r.buf, disk |-> r.disk, hand |-> HandAfter,
                        index |-> IF r.ok THEN i ELSE None]
        BY <1>5, FsReadOutcomes, ZenonT(60)
    <2>2. SameContent(buf, disk, w.buf, w.disk)
        BY RoomContent
    <2>3. /\ Sound(Swept, disk) /\ Synced(Swept, disk)
          /\ \A j \in Index : Swept[j].cur = buf[j].cur
        BY SweptKeeps DEF Synced
    <2>4. /\ Sound(w.buf, w.disk) /\ Synced(w.buf, w.disk)
          /\ \A j \in Index : w.buf[j].cur = Swept[j].cur
        BY <1>1, <2>3, WriteBackKeeps, WriteBackSyncs DEF Reliable
    <2>5. CASE o = [buf |-> w.buf, disk |-> w.disk, hand |-> HandAfter, index |-> None]
        BY <2>2, <2>5
    <2>6. ASSUME w.ok, NEW r \in Load(w.buf, w.disk, i, a),
                 o = [buf |-> r.buf, disk |-> r.disk, hand |-> HandAfter,
                      index |-> IF r.ok THEN i ELSE None]
          PROVE  SameContent(buf, disk, o.buf, o.disk)
        <3> DEFINE e == [data |-> w.disk[a], cur |-> a, ref |-> TRUE, dirty |-> FALSE]
        <3>1. r = [buf |-> [w.buf EXCEPT ![i] = e], disk |-> w.disk, ok |-> TRUE]
            BY LoadOutcomes, Zenon DEF Reliable
        <3>2. r.disk = w.disk /\ \A j \in Index : r.buf[j] = IF j = i THEN e ELSE w.buf[j]
            BY <2>4, <3>1 DEF Sound
        <3>3. w.buf[i].cur = None \/ ~w.buf[i].dirty
            BY <1>1, <2>3, <2>6, WriteBackCleans DEF Reliable
        <3>4. \A j \in Index : w.buf[j].cur # a
            BY <1>5, <2>3, <2>4 DEF Holding
        <3>5. Sound(r.buf, w.disk)
            BY <1>1, <1>2, <2>4, <2>6, <3>2, <3>4, LoadKeeps
        <3>6. e.cur = a /\ e.data = w.disk[a]
            OBVIOUS
        <3> HIDE DEF e
        <3>7. SameContent(w.buf, w.disk, r.buf, w.disk)
            <4>1. \A j \in Index : w.buf[j].cur # e.cur
                BY <3>4, <3>6
            <4>2. \A c \in Block : e.cur = c + base_addr => e.data = w.disk[c + base_addr]
                BY <3>6
            <4>3. \A j \in Index : r.buf[j] = IF j = i THEN e ELSE w.buf[j]
                BY <3>2
            <4>4. i \in Index /\ Sound(w.buf, w.disk) /\ Synced(w.buf, w.disk)
                BY <1>1, <2>4
            <4> HIDE DEF i
            <4> QED
                BY <3>3, <3>5, <4>1, <4>2, <4>3, <4>4, EnteredContent, ZenonT(60)
        <3>8. SameContent(buf, disk, r.buf, w.disk)
            BY <2>2, <3>7 DEF SameContent
        <3> QED
            BY <2>6, <3>2, <3>8
    <2> QED
        BY <2>1, <2>5, <2>6
<1> QED
    BY <1>4, <1>5

\* The buffers bs2 are bs but for what buffer i holds of its block.
Changed(bs, bs2, i, data) ==
    /\ bs2[i].cur = bs[i].cur /\ bs2[i].data = data
    /\ \A j \in Index : j # i => bs2[j] = bs[j]

\* The change of a buffer that holds block b changes the content of b alone.
LEMMA MarkedContent ==
    ASSUME NEW bs, NEW d, NEW i \in Index, NEW b \in Block, NEW data, NEW bs2,
           Sound(bs, d), bs[i].cur = b + base_addr, Sound(bs2, d),
           Changed(bs, bs2, i, data)
    PROVE  /\ ContentOf(bs2, d, b) = data
           /\ \A c \in Block : c # b => ContentOf(bs2, d, c) = ContentOf(bs, d, c)
<1> SUFFICES ASSUME NEW c \in Block
             PROVE  /\ c = b => ContentOf(bs2, d, c) = data
                    /\ c # b => ContentOf(bs2, d, c) = ContentOf(bs, d, c)
    OBVIOUS
<1>0. /\ bs2[i].cur = bs[i].cur /\ bs2[i].data = data
      /\ \A j \in Index : j # i => bs2[j] = bs[j]
    BY DEF Changed
<1> DEFINE a == c + base_addr
           Free(x) == \A j \in Index : x[j].cur # a
<1>1. /\ \A j \in Index : bs[j].cur = a => ContentOf(bs, d, c) = bs[j].data
      /\ Free(bs) => ContentOf(bs, d, c) = d[a]
    BY ContentIs
<1>2. /\ \A j \in Index : bs2[j].cur = a => ContentOf(bs2, d, c) = bs2[j].data
      /\ Free(bs2) => ContentOf(bs2, d, c) = d[a]
    BY ContentIs
<1>3. CASE c = b
    BY <1>0, <1>2, <1>3
<1>4. CASE c # b
    <2>1. bs[i].cur # a /\ bs2[i].cur # a
        <3>1. b \in Nat /\ c \in Nat /\ base_addr \in Nat
            BY CacheAssumption
        <3>2. b + base_addr # a
            BY <1>4, <3>1
        <3> QED
            BY <1>0, <3>2
    <2>2. CASE Free(bs)
        <3>1. Free(bs2)
            BY <1>0, <2>1, <2>2
        <3> QED
            BY <1>1, <1>2, <1>4, <2>2, <3>1
    <2>3. ASSUME NEW j \in Index, bs[j].cur = a
          PROVE  ContentOf(bs2, d, c) = ContentOf(bs, d, c)
        <3>1. bs2[j] = bs[j]
            BY <1>0, <2>1, <2>3
        <3> QED
            BY <1>1, <1>2, <2>3, <3>1
    <2> QED
        BY <1>4, <2>2, <2>3
<1> QED
    BY <1>3, <1>4

LEMMA ContentsOf ==
    /\ \A b \in Block : Content(b) = ContentOf(buf, disk, b)
    /\ \A b \in Block : Content(b)' = ContentOf(buf', disk', b)
BY DEF Content, ContentOf, Holding

\* A step that keeps every content leaves the store alone.
LEMMA KeepsStore ==
    ASSUME SameContent(buf, disk, buf', disk')
    PROVE  [b \in Block |-> Content(b)]' = [b \in Block |-> Content(b)]
<1>1. \A b \in Block : Content(b)' = Content(b)
    BY ContentsOf DEF SameContent
<1> QED
    BY <1>1

LEMMA ReadImplements ==
    ASSUME Reliable, Inv, Synced(buf, disk), NEW b \in Block, Read(b)
    PROVE  Store!Read(b) \/ Store!Fail
<1>1. PICK o \in FsRead(b) :
        /\ buf' = o.buf /\ disk' = o.disk
        /\ result' = IF o.index = None THEN Error ELSE Done
    BY DEF Read
<1>2. SameContent(buf, disk, buf', disk')
    BY <1>1, FsReadContent DEF Inv
<1> QED
    BY <1>1, <1>2, KeepsStore DEF Store!Read, Store!Fail

LEMMA WriteImplements ==
    ASSUME Reliable, Inv, Synced(buf, disk), NEW b \in Block, NEW s \in Sectors,
           NEW v \in Byte, Write(b, s, v)
    PROVE  Store!Write(b, s, v) \/ Store!Fail
<1>1. PICK o \in FsRead(b) :
        /\ disk' = o.disk
        /\ IF o.index = None THEN buf' = o.buf /\ result' = Error
           ELSE /\ buf' = [o.buf EXCEPT ![o.index].ref = TRUE, ![o.index].dirty = TRUE,
                                        ![o.index].data[s] = v]
                /\ result' = Done
    BY ZenonT(60) DEF Write
<1>2. SameContent(buf, disk, o.buf, o.disk)
    BY FsReadContent DEF Inv
<1>3. /\ Sound(o.buf, o.disk) /\ o.index \in Index \cup {None}
      /\ o.index # None => o.buf[o.index].cur = b + base_addr
    BY FsReadKeeps DEF Inv
<1>4. CASE o.index = None
    BY <1>1, <1>2, <1>4, KeepsStore DEF Store!Fail
<1>5. CASE o.index # None
    <2> DEFINE i == o.index
               data == [o.buf[i].data EXCEPT ![s] = v]
    <2>1. i \in Index /\ o.buf[i].cur = b + base_addr /\ o.buf[i].cur # None
        BY <1>3, <1>5, AddressNotNone
    <2>2. buf' = [o.buf EXCEPT ![i].ref = TRUE, ![i].dirty = TRUE, ![i].data[s] = v]
        BY <1>1, <1>5
    <2>3. Sound(buf', o.disk)
        BY <1>3, <2>1, <2>2, MarkKeeps, ZenonT(60)
    <2>4. o.buf \in [Index -> Buffer]
        BY <1>3 DEF Sound
    <2>5. /\ buf'[i].cur = o.buf[i].cur /\ buf'[i].data = data
          /\ \A j \in Index : j # i => buf'[j] = o.buf[j]
        BY <2>1, <2>2, <2>4 DEF Buffer
    <2> HIDE DEF i, data
    <2>6. /\ ContentOf(buf', o.disk, b) = data
          /\ \A c \in Block : c # b => ContentOf(buf', o.disk, c) = ContentOf(o.buf, o.disk, c)
        <3>1. Changed(o.buf, buf', i, data)
            BY <2>5 DEF Changed
        <3>2. Sound(o.buf, o.disk)
            BY <1>3
        <3>3. i \in Index
            BY <2>1
        <3>4. o.buf[i].cur = b + base_addr
            BY <2>1
        <3> QED
            BY <2>3, <3>1, <3>2, <3>3, <3>4, MarkedContent
    <2>7. ContentOf(o.buf, o.disk, b) = o.buf[i].data
        BY <1>3, <2>1, ContentIs
    <2>8. data = [Content(b) EXCEPT ![s] = v]
        BY <1>2, <2>7, ContentsOf DEF SameContent, data, i
    <2>9. \A c \in Block : Content(c)' = IF c = b THEN [Content(b) EXCEPT ![s] = v]
                                          ELSE Content(c)
        <3> SUFFICES ASSUME NEW c \in Block
                     PROVE  Content(c)' = IF c = b THEN [Content(b) EXCEPT ![s] = v]
                                          ELSE Content(c)
            OBVIOUS
        <3>1. disk' = o.disk
            BY <1>1
        <3>2. Content(c)' = ContentOf(buf', o.disk, c)
            BY <3>1, ContentsOf
        <3>3. ContentOf(o.buf, o.disk, c) = Content(c)
            BY <1>2, ContentsOf DEF SameContent
        <3> QED
            BY <2>6, <2>8, <3>2, <3>3
    <2>10. [c \in Block |-> Content(c)]' = [[c \in Block |-> Content(c)] EXCEPT ![b][s] = v]
        BY <2>9
    <2> QED
        BY <1>1, <1>5, <2>10 DEF Store!Write
<1> QED
    BY <1>4, <1>5

\* The buffer of zeros is of no block: it changes no content, of the block it
\* was meant for either.
LEMMA ClearImplements ==
    ASSUME Reliable, Inv, Synced(buf, disk), NEW b \in Block, Clear(b)
    PROVE  Store!Flush \/ Store!Fail
<1> DEFINE i == AfterHand(Victim)
           e == [data |-> Erased, cur |-> b, ref |-> FALSE, dirty |-> FALSE]
<1>1. PICK w \in WriteBack(Swept, i) :
        /\ disk' = w.disk
        /\ IF ~w.ok THEN buf' = w.buf /\ result' = Error
           ELSE buf' = [w.buf EXCEPT ![i] = e] /\ result' = Done
    BY DEF Clear
<1>2. i \in Index
    BY VictimIsIndex DEF Inv
<1>3. SameContent(buf, disk, w.buf, w.disk)
    BY RoomContent DEF Inv
<1>4. CASE ~w.ok
    BY <1>1, <1>3, <1>4, KeepsStore DEF Store!Fail
<1>5. CASE w.ok
    <2>1. /\ Sound(Swept, disk) /\ Synced(Swept, disk)
          /\ \A j \in Index : Swept[j].cur = buf[j].cur
        BY SweptKeeps DEF Inv, Synced
    <2>2. /\ Sound(w.buf, w.disk) /\ Synced(w.buf, w.disk)
          /\ \A j \in Index : w.buf[j].cur = Swept[j].cur
        BY <1>2, <2>1, WriteBackKeeps, WriteBackSyncs DEF Reliable
    <2>3. w.buf[i].cur = None \/ ~w.buf[i].dirty
        BY <1>2, <1>5, <2>1, WriteBackCleans DEF Reliable
    <2>4. \A j \in Index : w.buf[j].cur # e.cur
        BY <2>1, <2>2 DEF Clear, Holding
    <2>5. \A c \in Block : e.cur = c + base_addr => e.data = w.disk[c + base_addr]
        BY DEF Reliable, Clear
    <2>6. Sound(buf', disk')
        BY ClearKeepsInv DEF Inv
    <2>7. buf' = [w.buf EXCEPT ![i] = e] /\ w.buf \in [Index -> Buffer]
        BY <1>1, <1>5, <2>2 DEF Sound
    <2>8. \A j \in Index : buf'[j] = IF j = i THEN e ELSE w.buf[j]
        BY <2>7
    <2>9. Sound(buf', w.disk)
        BY <1>1, <2>6
    <2>10. i \in Index /\ Sound(w.buf, w.disk) /\ Synced(w.buf, w.disk)
        BY <1>2, <2>2
    <2> HIDE DEF i, e
    <2>11. SameContent(w.buf, w.disk, buf', w.disk)
        BY <2>3, <2>4, <2>5, <2>8, <2>9, <2>10, EnteredContent, ZenonT(60)
    <2>12. SameContent(buf, disk, buf', disk')
        BY <1>1, <1>3, <2>11 DEF SameContent
    <2> QED
        BY <1>1, <1>5, <2>12, KeepsStore DEF Store!Flush
<1> QED
    BY <1>4, <1>5

LEMMA FlushImplements ==
    ASSUME Inv, Flush
    PROVE  Store!Flush \/ Store!Fail
<1>1. PICK w \in WriteBack(buf, flushing) :
        buf' = w.buf /\ disk' = w.disk /\ result' = IF w.ok THEN Done ELSE Error
    BY DEF Flush
<1>2. SameContent(buf, disk, buf', disk')
    BY <1>1, WriteBackContent DEF Inv
<1> QED
    BY <1>1, <1>2, KeepsStore DEF Store!Flush, Store!Fail

\* The cache and the card that Reliable describes are one store of blocks: a
\* read returns what was last written, a request that fails changes nothing,
\* and neither the replacement nor a flush is seen.
THEOREM CacheImplementsStore ==
    ASSUME Reliable
    PROVE  Spec => ImplementsStore
<1> DEFINE SyncInv == Inv /\ Synced(buf, disk)
           store == [b \in Block |-> Content(b)]
<1>1. Init => SyncInv
    BY InitInv
<1>2. SyncInv /\ [Next]_vars => SyncInv'
    BY NextKeepsInv
<1>3. Init => Store!Init
    <2> SUFFICES ASSUME Init PROVE Store!Init
        OBVIOUS
    <2>1. \A b \in Block : Content(b) \in Contents
        BY InitInv, ContentIs, ContentsOf DEF Inv
    <2> QED
        BY <2>1 DEF Store!Init, Store!Contents, Contents, Init
<1>4. SyncInv /\ [Next]_vars => [Store!Next]_<<store, result>>
    <2> SUFFICES ASSUME SyncInv, [Next]_vars
                 PROVE  Store!Next \/ UNCHANGED <<store, result>>
        OBVIOUS
    <2>1. CASE UNCHANGED vars
        BY <2>1, ContentsOf DEF vars
    <2>2. ASSUME NEW b \in Block, Read(b)
          PROVE  Store!Next
        BY <2>2, ReadImplements DEF Store!Next
    <2>3. ASSUME NEW b \in Block, Clear(b)
          PROVE  Store!Next
        BY <2>3, ClearImplements DEF Store!Next
    <2>4. ASSUME NEW b \in Block, NEW s \in Sectors, NEW v \in Byte, Write(b, s, v)
          PROVE  Store!Next
        BY <2>4, WriteImplements DEF Store!Next
    <2>5. CASE Flush
        BY <2>5, FlushImplements DEF Store!Next
    <2> QED
        BY <2>1, <2>2, <2>3, <2>4, <2>5 DEF Next
<1> QED
    BY <1>1, <1>2, <1>3, <1>4, PTL DEF Spec, ImplementsStore, Store!Spec

---------------------------------------------------------------------------
(* What the replacement gives up.                                          *)

\* The search goes round all the buffers.
LEMMA SearchIsRound ==
    ASSUME clock_head \in Index, NEW j \in Index
    PROVE  \E k \in Index : AfterHand(k) = j
<1>1. /\ Size \in Nat /\ Size > 0 /\ clock_head \in 0..Size-1 /\ j \in 0..Size-1
    BY CacheAssumption DEF Index
<1>2. CASE clock_head <= j
    <2>1. j - clock_head \in Index
        BY <1>1, <1>2 DEF Index
    <2>2. clock_head + (j - clock_head) = j /\ j % Size = j
        BY <1>1
    <2>3. AfterHand(j - clock_head) = j
        BY <2>2 DEF AfterHand
    <2> QED
        BY <2>1, <2>3
<1>3. CASE ~(clock_head <= j)
    <2>1. j - clock_head + Size \in Index
        BY <1>1, <1>3 DEF Index
    <2>2. clock_head + (j - clock_head + Size) = j + Size /\ (j + Size) % Size = j
        BY <1>1
    <2>3. AfterHand(j - clock_head + Size) = j
        BY <2>2 DEF AfterHand
    <2> QED
        BY <2>1, <2>3
<1> QED
    BY <1>2, <1>3

\* A victim with changes means that every buffer has some.
LEMMA DirtyVictim ==
    ASSUME clock_head \in Index, buf[AfterHand(Victim)].dirty
    PROVE  \A j \in Index : buf[j].dirty
<1>1. Unused \in SUBSET Index /\ Clean \in SUBSET Index
    BY DEF Unused, Clean
<1>2. Unused = {}
    <2> SUFFICES ASSUME Unused # {} PROVE FALSE
        OBVIOUS
    <2>1. Victim \in Unused
        BY <1>1, LeastIsIn DEF Victim
    <2> QED
        BY <2>1 DEF Unused
<1>3. Clean = {}
    <2> SUFFICES ASSUME Clean # {} PROVE FALSE
        OBVIOUS
    <2>1. Victim \in Clean
        BY <1>1, <1>2, LeastIsIn DEF Victim
    <2> QED
        BY <2>1 DEF Clean
<1>4. \A k \in Index : buf[AfterHand(k)].dirty
    BY <1>3 DEF Clean
<1> QED
    BY <1>4, SearchIsRound

\* fs_read_4k changes which block is in a buffer only in the victim.
LEMMA FsReadVictim ==
    ASSUME Sound(buf, disk), clock_head \in Index, NEW b \in Block,
           NEW o \in FsRead(b), NEW j \in Index, o.buf[j].cur # buf[j].cur
    PROVE  j = AfterHand(Victim)
<1> DEFINE a == b + base_addr
           i == AfterHand(Victim)
<1>1. i \in Index
    BY VictimIsIndex
<1>2. Holding(a) = {}
    <2> SUFFICES ASSUME Holding(a) # {} PROVE FALSE
        OBVIOUS
    <2>1. o.buf = [buf EXCEPT ![Least(Holding(a))].ref = TRUE]
        BY FsReadOutcomes
    <2>2. buf \in [Index -> Buffer]
        BY DEF Sound
    <2> QED
        BY <2>1, <2>2 DEF Buffer
<1>3. PICK w \in WriteBack(Swept, i) :
         \/ o = [buf |-> w.buf, disk |-> w.disk, hand |-> HandAfter, index |-> None]
         \/ \E r \in Load(w.buf, w.disk, i, a) :
               o = [buf |-> r.buf, disk |-> r.disk, hand |-> HandAfter,
                    index |-> IF r.ok THEN i ELSE None]
    BY <1>2, FsReadOutcomes, Zenon
<1>4. Sound(Swept, disk) /\ \A k \in Index : Swept[k].cur = buf[k].cur
    BY SweptKeeps
<1>5. Sound(w.buf, w.disk) /\ \A k \in Index : w.buf[k].cur = Swept[k].cur
    BY <1>1, <1>4, WriteBackKeeps
<1>6. CASE o = [buf |-> w.buf, disk |-> w.disk, hand |-> HandAfter, index |-> None]
    <2>1. o.buf = w.buf
        BY <1>6
    <2> QED
        BY <1>4, <1>5, <2>1
<1>7. ASSUME NEW r \in Load(w.buf, w.disk, i, a),
             o = [buf |-> r.buf, disk |-> r.disk, hand |-> HandAfter,
                  index |-> IF r.ok THEN i ELSE None]
      PROVE  j = i
    <2>1. o.buf = r.buf
        BY <1>7
    <2>2. \A k \in Index : k # i => r.buf[k] = w.buf[k]
        BY <1>1, <1>5, LoadTouches
    <2> QED
        BY <1>4, <1>5, <2>1, <2>2
<1> QED
    BY <1>3, <1>6, <1>7

LEMMA ReadEvicts ==
    ASSUME Inv, NEW b \in Block, Read(b), NEW j \in Index, buf'[j].cur # buf[j].cur
    PROVE  j = AfterHand(Victim)
<1>1. PICK o \in FsRead(b) : buf' = o.buf
    BY DEF Read
<1> QED
    BY <1>1, FsReadVictim DEF Inv

LEMMA WriteEvicts ==
    ASSUME Inv, NEW b \in Block, NEW s \in Sectors, NEW v \in Byte, Write(b, s, v),
           NEW j \in Index, buf'[j].cur # buf[j].cur
    PROVE  j = AfterHand(Victim)
<1>1. PICK o \in FsRead(b) :
        IF o.index = None THEN buf' = o.buf
        ELSE buf' = [o.buf EXCEPT ![o.index].ref = TRUE, ![o.index].dirty = TRUE,
                                  ![o.index].data[s] = v]
    BY ZenonT(60) DEF Write
<1>2. o.buf \in [Index -> Buffer]
    BY FsReadKeeps DEF Inv, Sound
<1>3. buf'[j].cur = o.buf[j].cur
    BY <1>1, <1>2 DEF Buffer
<1> QED
    BY <1>3, FsReadVictim DEF Inv

LEMMA ClearEvicts ==
    ASSUME Inv, NEW b \in Block, Clear(b), NEW j \in Index, buf'[j].cur # buf[j].cur
    PROVE  j = AfterHand(Victim)
<1> DEFINE i == AfterHand(Victim)
           e == [data |-> Erased, cur |-> b, ref |-> FALSE, dirty |-> FALSE]
<1>1. PICK w \in WriteBack(Swept, i) : buf' = w.buf \/ buf' = [w.buf EXCEPT ![i] = e]
    BY DEF Clear
<1>2. i \in Index
    BY VictimIsIndex DEF Inv
<1>3. Sound(Swept, disk) /\ \A k \in Index : Swept[k].cur = buf[k].cur
    BY SweptKeeps DEF Inv
<1>4. Sound(w.buf, w.disk) /\ \A k \in Index : w.buf[k].cur = Swept[k].cur
    BY <1>2, <1>3, WriteBackKeeps
<1>5. w.buf \in [Index -> Buffer]
    BY <1>4 DEF Sound
<1> HIDE DEF i, e
<1>6. j # i => buf'[j] = w.buf[j]
    BY <1>1, <1>5
<1>7. j = i
    BY <1>3, <1>4, <1>6
<1> QED
    BY <1>7 DEF i

LEMMA FlushEvicts ==
    ASSUME Inv, Flush
    PROVE  \A j \in Index : buf'[j].cur = buf[j].cur
<1>1. PICK w \in WriteBack(buf, flushing) : buf' = w.buf
    BY DEF Flush
<1> QED
    BY <1>1, WriteBackKeeps DEF Inv

\* fs_victim_4k gives up a buffer with changes only when every buffer has some,
\* wherever the hand is and whatever transfers fail.
THEOREM DirtyGoesLast == Spec => DirtyEvictedLast
<1> DEFINE Evicted == \A i \in Index : buf[i].dirty /\ buf'[i].cur # buf[i].cur =>
                        \A j \in Index : buf[j].dirty
<1>1. Init => Inv
    BY InitInv
<1>2. Inv /\ [Next]_vars => Inv'
    BY NextKeepsInv
<1>3. Inv /\ [Next]_vars => [Evicted]_vars
    <2> SUFFICES ASSUME Inv, Next, NEW i \in Index, buf[i].dirty, buf'[i].cur # buf[i].cur
                 PROVE  \A j \in Index : buf[j].dirty
        BY DEF vars
    <2>1. i = AfterHand(Victim)
        <3>1. ASSUME NEW b \in Block, Read(b) PROVE i = AfterHand(Victim)
            BY <3>1, ReadEvicts
        <3>2. ASSUME NEW b \in Block, Clear(b) PROVE i = AfterHand(Victim)
            BY <3>2, ClearEvicts
        <3>3. ASSUME NEW b \in Block, NEW s \in Sectors, NEW v \in Byte, Write(b, s, v)
              PROVE  i = AfterHand(Victim)
            BY <3>3, WriteEvicts
        <3>4. CASE Flush
            BY <3>4, FlushEvicts
        <3> QED
            BY <3>1, <3>2, <3>3, <3>4 DEF Next
    <2> QED
        BY <2>1, DirtyVictim DEF Inv
<1> QED
    BY <1>1, <1>2, <1>3, PTL DEF Spec, DirtyEvictedLast

---------------------------------------------------------------------------
(* fs_close.                                                               *)

\* The buffers that fs_close has passed have no changes.
PassedClean == \A j \in Index : j < flushing => ~buf[j].dirty

\* A flush that goes on or ends well has left its buffer without changes.
LEMMA FlushPasses ==
    ASSUME Inv, PassedClean, Detected, Flush, result' = Done
    PROVE  /\ flushing' = (flushing + 1) % Size
           /\ \A j \in Index : j <= flushing => ~buf'[j].dirty
<1>1. PICK w \in WriteBack(buf, flushing) :
        /\ buf' = w.buf
        /\ flushing' = IF w.ok THEN (flushing + 1) % Size ELSE 0
        /\ result' = IF w.ok THEN Done ELSE Error
    BY DEF Flush
<1>2. w.ok
    BY <1>1, CacheAssumption
<1>3. flushing \in Index /\ Sound(buf, disk)
    BY DEF Inv
<1>4. Sound(w.buf, w.disk) /\ \A j \in Index : w.buf[j].dirty => buf[j].dirty
    BY <1>3, WriteBackKeeps
<1>5. ~w.buf[flushing].dirty
    BY <1>2, <1>3, <1>4, WriteBackCleans DEF Sound
<1>6. \A j \in Index : j <= flushing => j < flushing \/ j = flushing
    BY <1>3 DEF Index
<1> QED
    BY <1>1, <1>2, <1>4, <1>5, <1>6 DEF PassedClean

LEMMA NextKeepsPassed ==
    ASSUME Inv, PassedClean, Detected, [Next]_vars
    PROVE  PassedClean'
<1>1. CASE UNCHANGED vars
    BY <1>1 DEF vars, PassedClean
<1>2. CASE flushing' = 0
    BY <1>2 DEF PassedClean, Index
<1>3. CASE Flush /\ flushing' # 0
    <2>1. result' = Done
        BY <1>3 DEF Flush
    <2>2. /\ flushing' = (flushing + 1) % Size
          /\ \A j \in Index : j <= flushing => ~buf'[j].dirty
        BY <1>3, <2>1, FlushPasses
    <2>3. flushing' <= flushing + 1 /\ flushing' \in Int /\ flushing \in Int
        BY <2>2, CacheAssumption DEF Inv, Index
    <2>4. \A j \in Index : j < flushing' => j <= flushing
        BY <2>3 DEF Index
    <2> QED
        BY <2>2, <2>4 DEF PassedClean
<1>4. ASSUME flushing = 0, flushing' = flushing
      PROVE  PassedClean'
    BY <1>2, <1>4
<1> QED
    BY <1>1, <1>2, <1>3, <1>4, ZenonT(60) DEF Next, Read, Write, Clear

\* When fs_close has written its last buffer and reports success everything is
\* on the card, whatever writes failed before, on the card that Reliable
\* describes.
THEOREM CloseWritesAll ==
    ASSUME Reliable
    PROVE  Spec => ClosedIsOnDisk
<1> DEFINE FlushInv == Inv /\ Synced(buf, disk) /\ PassedClean
           Closed == Flush /\ flushing' = 0 /\ result' = Done =>
                        \A b \in Block : disk'[b + base_addr] = Content(b)'
<1>1. Init => FlushInv
    BY InitInv DEF Init, PassedClean, Index
<1>2. FlushInv /\ [Next]_vars => FlushInv'
    BY NextKeepsInv, NextKeepsPassed DEF Reliable
<1>3. FlushInv /\ [Next]_vars => [Closed]_vars
    <2> SUFFICES ASSUME FlushInv, Flush, flushing' = 0, result' = Done, NEW b \in Block
                 PROVE  disk'[b + base_addr] = Content(b)'
        BY DEF vars
    <2>1. /\ flushing' = (flushing + 1) % Size
          /\ \A j \in Index : j <= flushing => ~buf'[j].dirty
        BY FlushPasses DEF Reliable
    <2>2. \A j \in Index : j <= flushing
        <3>1. flushing \in 0..Size-1 /\ Size \in Nat \ {0} /\ (flushing + 1) % Size = 0
            BY <2>1, CacheAssumption DEF Inv, Index
        <3>2. flushing + 1 < Size => (flushing + 1) % Size = flushing + 1
            BY <3>1
        <3>3. flushing = Size - 1
            BY <3>1, <3>2
        <3> QED
            BY <3>1, <3>3 DEF Index
    <2>3. \A j \in Index : ~buf'[j].dirty
        BY <2>1, <2>2
    <2>4. Sound(buf', disk') /\ Synced(buf', disk')
        BY FlushKeepsInv DEF Inv, Sound, Synced
    <2>5. ContentOf(buf', disk', b) = disk'[b + base_addr]
        <3>1. CASE \A j \in Index : buf'[j].cur # b + base_addr
            BY <2>4, <3>1, ContentIs
        <3>2. ASSUME NEW j \in Index, buf'[j].cur = b + base_addr
              PROVE  ContentOf(buf', disk', b) = disk'[b + base_addr]
            <4>1. ContentOf(buf', disk', b) = buf'[j].data
                BY <2>4, <3>2, ContentIs
            <4> QED
                BY <2>3, <2>4, <3>2, <4>1 DEF Synced
        <3> QED
            BY <3>1, <3>2
    <2> QED
        BY <2>5, ContentsOf
<1> QED
    BY <1>1, <1>2, <1>3, PTL DEF Spec, ClosedIsOnDisk
=============================================================================
