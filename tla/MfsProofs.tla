------------------------------ MODULE MfsProofs ------------------------------
(***************************************************************************)
(* The caches of the file system, for caches of any size, any card, any    *)
(* paths and texts.                                                        *)
(*                                                                         *)
(* The properties speak of the entries, the commands work through pages.   *)
(* What lies between is CacheOk: the pages of the directories say what the *)
(* card says (PagesOk), the directories are those the system was started   *)
(* with but for the sizes of files (ContentsOk), and each entry is the     *)
(* root's or agrees with its page but for the first cluster of a file that *)
(* had none (Fresh), with that of the working directory the only one       *)
(* spinned (DentsOk).  Every page and entry that a command makes the       *)
(* caches drop leaves the clusters as the commands see them (Kept, Goes),  *)
(* so two searches along a path find the same (FindsAlike), which a save   *)
(* relies on: it looks the path up twice.                                  *)
(*                                                                         *)
(* A save writes only clusters of files: those of the entry, and free ones *)
(* of the table, which has no directory's free (FatOk).                    *)
(***************************************************************************)
EXTENDS Mfs, QueuesTheorems

---------------------------------------------------------------------------
(* Sequences: an element removed, put first, brought to the head.          *)

IsSeq(s) == \E T : s \in Seq(T)

\* h is made of elements of s, each taken from a place of its own.
Picked(h, s, g) ==
    /\ IsSeq(h)
    /\ g \in [DOMAIN h -> DOMAIN s]
    /\ \A k, l \in DOMAIN h : g[k] = g[l] => k = l
    /\ \A k \in DOMAIN h : h[k] = s[g[k]]

\* h is a permutation of s.
Shuffled(h, s) ==
    /\ Len(h) = Len(s) /\ DOMAIN h = DOMAIN s
    /\ \E g : Picked(h, s, g) /\ \A j \in DOMAIN s : \E k \in DOMAIN h : g[k] = j

\* A sequence is a function on 1..Len.
LEMMA SeqDomain ==
    ASSUME NEW s, IsSeq(s)
    PROVE  Len(s) \in Nat /\ DOMAIN s = 1..Len(s)
BY DEF IsSeq

\* An element put before the others.
LEMMA Consed ==
    ASSUME NEW s, IsSeq(s), NEW x
    PROVE  /\ IsSeq(<<x>> \o s) /\ Len(<<x>> \o s) = Len(s) + 1 /\ (<<x>> \o s)[1] = x
           /\ \A k \in 1..Len(s) : (<<x>> \o s)[k + 1] = s[k]
<1>1. PICK T : s \in Seq(T)
    BY DEF IsSeq
<1>2. s \in Seq(T \cup {x}) /\ <<x>> \in Seq(T \cup {x})
    BY <1>1
<1>3. /\ <<x>> \o s \in Seq(T \cup {x}) /\ Len(<<x>> \o s) = Len(s) + 1 /\ (<<x>> \o s)[1] = x
      /\ \A k \in 1..Len(s) : (<<x>> \o s)[k + 1] = s[k]
    BY <1>2
<1> QED
    BY <1>3 DEF IsSeq

\* An element taken out.
LEMMA Removed ==
    ASSUME NEW s, IsSeq(s), NEW i \in 1..Len(s)
    PROVE  /\ IsSeq(RemoveAt(s, i)) /\ Len(RemoveAt(s, i)) = Len(s) - 1
           /\ \A k \in 1..Len(s)-1 : RemoveAt(s, i)[k] = s[IF k < i THEN k ELSE k + 1]
<1>1. PICK T : s \in Seq(T)
    BY DEF IsSeq
<1> DEFINE a == SubSeq(s, 1, i - 1)
           b == SubSeq(s, i + 1, Len(s))
<1>2. a \in Seq(T) /\ Len(a) = i - 1 /\ \A k \in 1..i-1 : a[k] = s[k]
    BY <1>1
<1>3. b \in Seq(T) /\ Len(b) = Len(s) - i /\ \A k \in 1..Len(s)-i : b[k] = s[i + k]
    BY <1>1
<1> HIDE DEF a, b
<1>4. /\ a \o b \in Seq(T) /\ Len(a \o b) = Len(a) + Len(b)
      /\ \A k \in 1..(Len(a) + Len(b)) :
            (a \o b)[k] = IF k <= Len(a) THEN a[k] ELSE b[k - Len(a)]
    <2>1. a \in Seq(T) /\ b \in Seq(T)
        BY <1>2, <1>3
    <2> QED
        BY <2>1
<1>5. RemoveAt(s, i) = a \o b
    BY DEF RemoveAt, a, b
<1>6. Len(a) + Len(b) = Len(s) - 1 /\ Len(s) \in Nat /\ i \in Nat
    BY <1>1, <1>2, <1>3
<1>7. ASSUME NEW k \in 1..Len(s)-1
      PROVE  (a \o b)[k] = s[IF k < i THEN k ELSE k + 1]
    <2>1. CASE k < i
        BY <1>2, <1>4, <1>6, <2>1
    <2>2. CASE ~(k < i)
        <3>1. k - (i - 1) \in 1..Len(s)-i /\ i + (k - (i - 1)) = k + 1 /\ ~(k <= i - 1)
            BY <1>6, <2>2
        <3>2. (a \o b)[k] = b[k - (i - 1)]
            BY <1>2, <1>4, <1>6, <3>1
        <3> QED
            BY <1>3, <2>2, <3>1, <3>2
    <2> QED
        BY <2>1, <2>2
<1> QED
    BY <1>4, <1>5, <1>6, <1>7 DEF IsSeq

\* What is left when one element is taken out.
LEMMA RemovedPicks ==
    ASSUME NEW s, IsSeq(s), NEW i \in 1..Len(s)
    PROVE  \E g : /\ Picked(RemoveAt(s, i), s, g) /\ Len(RemoveAt(s, i)) = Len(s) - 1
                  /\ \A j \in DOMAIN s : j # i => \E k \in DOMAIN RemoveAt(s, i) : g[k] = j
<1> DEFINE r == RemoveAt(s, i)
           g == [k \in 1..Len(s)-1 |-> IF k < i THEN k ELSE k + 1]
<1>1. /\ IsSeq(r) /\ Len(r) = Len(s) - 1
      /\ \A k \in 1..Len(s)-1 : r[k] = s[IF k < i THEN k ELSE k + 1]
    BY Removed
<1>2. Len(s) \in Nat /\ DOMAIN s = 1..Len(s) /\ DOMAIN r = 1..Len(s)-1
    BY <1>1, SeqDomain
<1> HIDE DEF r
<1>3. /\ g \in [1..Len(s)-1 -> 1..Len(s)]
      /\ \A k, l \in 1..Len(s)-1 : g[k] = g[l] => k = l
      /\ \A k \in 1..Len(s)-1 : r[k] = s[g[k]]
    BY <1>1, <1>2
<1>4. ASSUME NEW j \in 1..Len(s), j # i
      PROVE  \E k \in 1..Len(s)-1 : g[k] = j
    <2>1. CASE j < i
        <3>1. j \in 1..Len(s)-1 /\ g[j] = j
            BY <1>2, <2>1
        <3> QED
            BY <3>1
    <2>2. CASE j > i
        <3>1. j - 1 \in 1..Len(s)-1 /\ g[j-1] = j
            BY <1>2, <2>2
        <3> QED
            BY <3>1
    <2> QED
        BY <1>2, <1>4, <2>1, <2>2
<1> HIDE DEF g
<1>5. Picked(r, s, g)
    BY <1>1, <1>2, <1>3 DEF Picked
<1> QED
    BY <1>1, <1>2, <1>4, <1>5, ZenonT(60) DEF r

\* An element brought to the head.
LEMMA HeadedPicks ==
    ASSUME NEW s, IsSeq(s), NEW i \in 1..Len(s)
    PROVE  Shuffled(ToHead(s, i), s) /\ ToHead(s, i)[1] = s[i]
<1> DEFINE r == RemoveAt(s, i)
           h == <<s[i]>> \o r
<1>1. /\ IsSeq(r) /\ Len(r) = Len(s) - 1
      /\ \A k \in 1..Len(s)-1 : r[k] = s[IF k < i THEN k ELSE k + 1]
    BY Removed
<1>2. Len(s) \in Nat /\ DOMAIN s = 1..Len(s) /\ DOMAIN r = 1..Len(s)-1
    BY <1>1, SeqDomain
<1> DEFINE f == [k \in 1..Len(s) |-> IF k = 1 THEN i ELSE IF k - 1 < i THEN k - 1 ELSE k]
<1> HIDE DEF r
<1>3. /\ IsSeq(h) /\ Len(h) = Len(s) /\ h[1] = s[i]
      /\ \A k \in 1..Len(s)-1 : h[k + 1] = r[k]
    BY <1>1, <1>2, Consed
<1>4. DOMAIN h = 1..Len(s)
    BY <1>3, SeqDomain
<1> HIDE DEF h
<1>5. f \in [1..Len(s) -> 1..Len(s)] /\ f[1] = i
    BY <1>2
<1>6. \A k, l \in 1..Len(s) : f[k] = f[l] => k = l
    BY <1>2
<1>7. ASSUME NEW k \in 1..Len(s)
      PROVE  h[k] = s[f[k]]
    <2>1. CASE k = 1
        BY <1>3, <1>5, <2>1
    <2>2. CASE k # 1
        <3>1. k - 1 \in 1..Len(s)-1 /\ k - 1 + 1 = k /\ f[k] = (IF k - 1 < i THEN k - 1 ELSE k)
            BY <1>2, <2>2
        <3>2. r[k-1] = s[IF k - 1 < i THEN k - 1 ELSE k - 1 + 1]
            BY <1>1, <3>1
        <3> QED
            BY <1>3, <3>1, <3>2
    <2> QED
        BY <2>1, <2>2
<1>8. ASSUME NEW j \in 1..Len(s)
      PROVE  \E k \in 1..Len(s) : f[k] = j
    <2>1. CASE j < i
        <3>1. j + 1 \in 1..Len(s) /\ f[j+1] = j
            BY <1>2, <2>1
        <3> QED
            BY <3>1
    <2>2. CASE j > i
        <3>1. f[j] = j
            BY <1>2, <2>2
        <3> QED
            BY <3>1
    <2>3. CASE j = i
        <3>1. 1 \in 1..Len(s)
            BY <1>2
        <3> QED
            BY <1>5, <2>3, <3>1
    <2> QED
        BY <1>2, <2>1, <2>2, <2>3
<1> HIDE DEF f
<1>9. Picked(h, s, f)
    BY <1>2, <1>3, <1>4, <1>5, <1>6, <1>7 DEF Picked
<1>10. ToHead(s, i) = h
    BY DEF ToHead, h, r
<1>11. Shuffled(h, s) /\ h[1] = s[i]
    <2>1. \A j \in DOMAIN s : \E k \in DOMAIN h : f[k] = j
        BY <1>2, <1>4, <1>8
    <2>2. \E g : Picked(h, s, g) /\ \A j \in DOMAIN s : \E k \in DOMAIN h : g[k] = j
        BY <1>9, <2>1
    <2>3. Len(h) = Len(s) /\ DOMAIN h = DOMAIN s
        BY <1>2, <1>3, <1>4
    <2> QED
        BY <1>3, <2>2, <2>3 DEF Shuffled
<1> QED
    BY <1>10, <1>11

---------------------------------------------------------------------------
(* The page cache: what a cluster has, as the commands see it.             *)

CacheFields == {"card", "pages", "dents"}
PageFields == {"clu", "data", "dirty"}

\* The page cache is well formed: no cluster is in two pages, a clean page of
\* a directory has what the card has.
PagesOk(c) ==
    /\ DOMAIN c = CacheFields
    /\ IsSeq(c.pages) /\ Len(c.pages) <= Capacity
    /\ \A i \in DOMAIN c.pages :
            /\ DOMAIN c.pages[i] = PageFields
            /\ c.pages[i].dirty \in BOOLEAN
            /\ (~c.pages[i].dirty /\ c.pages[i].clu \in Dirs
                    => c.pages[i].data = c.card[c.pages[i].clu])
    /\ \A i, j \in DOMAIN c.pages : c.pages[i].clu = c.pages[j].clu => i = j
    /\ Dirs \subseteq DOMAIN c.card

\* What the commands get to see of a cluster.
Content(c, n) ==
    IF PageAt(c, n) = {} THEN c.card[n] ELSE c.pages[Sole(PageAt(c, n))].data

\* x is c with other pages in the cache: no directory has changed.
Kept(c, x) ==
    /\ PagesOk(x)
    /\ x.dents = c.dents
    /\ \A n \in Dirs : Content(x, n) = Content(c, n) /\ x.card[n] \in {c.card[n], Content(c, n)}

\* A cluster in the cache has what its page has, another one what the card has.
LEMMA ContentOfPage ==
    ASSUME NEW c, PagesOk(c), NEW i \in DOMAIN c.pages
    PROVE  Content(c, c.pages[i].clu) = c.pages[i].data
<1> DEFINE S == PageAt(c, c.pages[i].clu)
<1>1. i \in S
    BY DEF PageAt
<1>2. \A j \in S : j = i
    BY DEF PageAt, PagesOk
<1>3. Sole(S) = i
    BY <1>1, <1>2 DEF Sole
<1> QED
    BY <1>1, <1>3 DEF Content

\* ... and with no page of it the card.
LEMMA ContentOfCard ==
    ASSUME NEW c, NEW n, \A i \in DOMAIN c.pages : c.pages[i].clu # n
    PROVE  Content(c, n) = c.card[n]
<1>1. PageAt(c, n) = {}
    BY DEF PageAt
<1> QED
    BY <1>1 DEF Content

\* Nothing done keeps the clusters.
LEMMA PagesKept == \A c : PagesOk(c) => Kept(c, c)
BY DEF Kept

\* Two steps that keep the clusters.
LEMMA KeptTwice ==
    ASSUME NEW c, NEW x, NEW y, Kept(c, x), Kept(x, y)
    PROVE  Kept(c, y)
BY DEF Kept

\* Other places of the same pages, all of them: the page cache is as good.
LEMMA PagesPicked ==
    ASSUME NEW c, PagesOk(c), NEW x, DOMAIN x = CacheFields, x.card = c.card, x.dents = c.dents,
           Shuffled(x.pages, c.pages)
    PROVE  Kept(c, x)
<1>0. PICK g : /\ Picked(x.pages, c.pages, g)
               /\ \A j \in DOMAIN c.pages : \E k \in DOMAIN x.pages : g[k] = j
    BY DEF Shuffled
<1>1. /\ IsSeq(x.pages) /\ Len(x.pages) = Len(c.pages)
      /\ g \in [DOMAIN x.pages -> DOMAIN c.pages]
      /\ \A k, l \in DOMAIN x.pages : g[k] = g[l] => k = l
      /\ \A k \in DOMAIN x.pages : x.pages[k] = c.pages[g[k]]
    BY <1>0 DEF Shuffled, Picked
<1>2. PagesOk(x)
    <2>1. \A k \in DOMAIN x.pages : g[k] \in DOMAIN c.pages
        BY <1>1
    <2>2. ASSUME NEW k \in DOMAIN x.pages
          PROVE  /\ DOMAIN x.pages[k] = PageFields
                 /\ x.pages[k].dirty \in BOOLEAN
                 /\ (~x.pages[k].dirty /\ x.pages[k].clu \in Dirs
                        => x.pages[k].data = x.card[x.pages[k].clu])
        <3>1. g[k] \in DOMAIN c.pages /\ x.pages[k] = c.pages[g[k]]
            BY <1>1, <2>1
        <3> QED
            BY <3>1 DEF PagesOk
    <2>3. ASSUME NEW k \in DOMAIN x.pages, NEW l \in DOMAIN x.pages,
                 x.pages[k].clu = x.pages[l].clu
          PROVE  k = l
        <3>0. /\ g[k] \in DOMAIN c.pages /\ g[l] \in DOMAIN c.pages
              /\ c.pages[g[k]].clu = c.pages[g[l]].clu
            BY <1>1, <2>1, <2>3
        <3>1. g[k] = g[l]
            BY <3>0 DEF PagesOk
        <3> QED
            BY <1>1, <3>1
    <2> QED
        BY <1>1, <2>2, <2>3 DEF PagesOk
<1>3. ASSUME NEW n \in Dirs
      PROVE  Content(x, n) = Content(c, n)
    <2>1. CASE \E k \in DOMAIN x.pages : x.pages[k].clu = n
        <3>1. PICK k \in DOMAIN x.pages : x.pages[k].clu = n
            BY <2>1
        <3>2. g[k] \in DOMAIN c.pages /\ c.pages[g[k]] = x.pages[k]
            BY <1>1
        <3>3. Content(x, n) = x.pages[k].data
            BY <1>2, <3>1, ContentOfPage
        <3>4. Content(c, n) = c.pages[g[k]].data
            BY <3>1, <3>2, ContentOfPage
        <3> QED
            BY <3>2, <3>3, <3>4
    <2>2. CASE ~\E k \in DOMAIN x.pages : x.pages[k].clu = n
        <3>1. \A j \in DOMAIN c.pages : c.pages[j].clu # n
            BY <1>0, <1>1, <2>2, SMTT(40)
        <3>2. Content(x, n) = x.card[n]
            BY <2>2, ContentOfCard
        <3>3. Content(c, n) = c.card[n]
            BY <3>1, ContentOfCard
        <3> QED
            BY <3>2, <3>3
    <2> QED
        BY <2>1, <2>2
<1> QED
    BY <1>2, <1>3 DEF Kept

\* pcache_drop loses nothing: what the page had goes to the card.
LEMMA DropPageKeeps ==
    ASSUME NEW c, PagesOk(c)
    PROVE  /\ Kept(c, DropPage(c))
           /\ (Len(c.pages) > 0 => Len(DropPage(c).pages) = Len(c.pages) - 1)
           /\ \A k \in DOMAIN DropPage(c).pages :
                k \in DOMAIN c.pages /\ DropPage(c).pages[k] = c.pages[k]
<1>1. CASE c.pages = <<>>
    <2>1. DropPage(c) = c
        BY <1>1 DEF DropPage
    <2> QED
        BY <1>1, <2>1, PagesKept
<1>2. CASE c.pages # <<>>
    <2> DEFINE x == DropPage(c)
               L == Len(c.pages)
               victim == c.pages[L]
    <2>1. PICK T : c.pages \in Seq(T)
        BY DEF PagesOk, IsSeq
    <2>2. L \in Nat /\ L > 0 /\ DOMAIN c.pages = 1..L /\ L \in DOMAIN c.pages
        BY <1>2, <2>1
    <2>3. x = [c EXCEPT !.pages = Front(@),
                        !.card[victim.clu] = IF victim.dirty THEN victim.data ELSE @]
        BY <1>2 DEF DropPage, Last
    <2> HIDE DEF x
    <2>4. /\ DOMAIN x = CacheFields /\ x.pages = Front(c.pages) /\ x.dents = c.dents
          /\ x.card = [c.card EXCEPT ![victim.clu] = IF victim.dirty THEN victim.data ELSE @]
        BY <2>3 DEF PagesOk, CacheFields
    <2>5. /\ x.pages \in Seq(T) /\ Len(x.pages) = L - 1
          /\ \A k \in 1..L-1 : x.pages[k] = c.pages[k]
        BY <2>1, <2>2, <2>4 DEF Front
    <2>6. /\ DOMAIN x.pages = 1..L-1 /\ L - 1 <= Capacity
          /\ \A k \in DOMAIN x.pages : k \in DOMAIN c.pages /\ k # L
        BY <2>2, <2>5, CapacityAssumption DEF PagesOk
    <2>7. \A k \in DOMAIN x.pages : x.pages[k] = c.pages[k] /\ x.pages[k].clu # victim.clu
        BY <2>2, <2>5, <2>6, ZenonT(60) DEF PagesOk
    <2>8. \A n \in Dirs : n \in DOMAIN x.card /\ (n # victim.clu => x.card[n] = c.card[n])
        BY <2>4 DEF PagesOk
    <2>9. victim.clu \in Dirs => x.card[victim.clu] = victim.data
        BY <2>2, <2>4 DEF PagesOk
    <2>10. PagesOk(x)
        <3>1. ASSUME NEW k \in DOMAIN x.pages
              PROVE  /\ DOMAIN x.pages[k] = PageFields
                     /\ x.pages[k].dirty \in BOOLEAN
                     /\ (~x.pages[k].dirty /\ x.pages[k].clu \in Dirs
                            => x.pages[k].data = x.card[x.pages[k].clu])
            BY <2>6, <2>7, <2>8 DEF PagesOk
        <3>2. \A i, j \in DOMAIN x.pages : x.pages[i].clu = x.pages[j].clu => i = j
            BY <2>6, <2>7 DEF PagesOk
        <3>3. IsSeq(x.pages) /\ Len(x.pages) <= Capacity
            BY <2>5, <2>6 DEF IsSeq
        <3> QED
            BY <2>4, <2>8, <3>1, <3>2, <3>3 DEF PagesOk
    <2>11. ASSUME NEW n \in Dirs
           PROVE  Content(x, n) = Content(c, n) /\ x.card[n] \in {c.card[n], Content(c, n)}
        <3>1. CASE n = victim.clu
            <4>1. Content(x, n) = x.card[n]
                BY <2>7, <3>1, ContentOfCard
            <4>2. Content(c, n) = victim.data
                BY <2>2, <3>1, ContentOfPage
            <4> QED
                BY <2>9, <3>1, <4>1, <4>2
        <3>2. CASE n # victim.clu /\ \E k \in DOMAIN x.pages : x.pages[k].clu = n
            <4>1. PICK k \in DOMAIN x.pages : x.pages[k].clu = n
                BY <3>2
            <4>2. Content(x, n) = x.pages[k].data
                BY <2>10, <4>1, ContentOfPage
            <4>3. Content(c, n) = c.pages[k].data
                BY <2>6, <2>7, <4>1, ContentOfPage
            <4> QED
                BY <2>7, <2>8, <3>2, <4>2, <4>3
        <3>3. CASE n # victim.clu /\ ~\E k \in DOMAIN x.pages : x.pages[k].clu = n
            <4>1. \A j \in DOMAIN c.pages : c.pages[j].clu # n
                BY <2>2, <2>5, <2>6, <3>3
            <4>2. Content(x, n) = x.card[n] /\ Content(c, n) = c.card[n]
                BY <3>3, <4>1, ContentOfCard
            <4> QED
                BY <2>8, <3>3, <4>2
        <3> QED
            BY <3>1, <3>2, <3>3
    <2>12. Kept(c, x)
        BY <2>4, <2>10, <2>11 DEF Kept
    <2> QED
        BY <2>5, <2>6, <2>7, <2>12 DEF x
<1> QED
    BY <1>1, <1>2

\* get_page loses nothing and leaves the page at the head.
LEMMA GetPageKeeps ==
    ASSUME NEW c, PagesOk(c), NEW n
    PROVE  /\ Kept(c, GetPage(c, n))
           /\ 1 \in DOMAIN GetPage(c, n).pages /\ GetPage(c, n).pages[1].clu = n
<1> DEFINE x == GetPage(c, n)
<1>1. Len(c.pages) \in Nat /\ DOMAIN c.pages = 1..Len(c.pages) /\ IsSeq(c.pages)
    BY SeqDomain DEF PagesOk
<1>2. CASE PageAt(c, n) # {}
    <2> DEFINE i == Sole(PageAt(c, n))
    <2>1. i \in 1..Len(c.pages) /\ c.pages[i].clu = n
        BY <1>1, <1>2 DEF Sole, PageAt
    <2>2. x = [c EXCEPT !.pages = ToHead(@, i)]
        BY <1>2 DEF GetPage
    <2> HIDE DEF x, i
    <2>3. DOMAIN x = CacheFields /\ x.card = c.card /\ x.dents = c.dents /\ x.pages = ToHead(c.pages, i)
        BY <2>2 DEF PagesOk, CacheFields
    <2>4. Shuffled(x.pages, c.pages) /\ x.pages[1] = c.pages[i]
        BY <1>1, <2>1, <2>3, HeadedPicks
    <2>5. Kept(c, x)
        BY <2>3, <2>4, PagesPicked
    <2>6. 1 \in DOMAIN x.pages
        BY <1>1, <2>1, <2>4 DEF Shuffled
    <2> QED
        BY <2>1, <2>4, <2>5, <2>6 DEF x
<1>3. CASE PageAt(c, n) = {}
    <2> DEFINE room == IF Len(c.pages) = Capacity THEN DropPage(c) ELSE c
               new == [clu |-> n, data |-> c.card[n], dirty |-> FALSE]
    <2>1. /\ Kept(c, room) /\ Len(room.pages) < Capacity
          /\ \A k \in DOMAIN room.pages : room.pages[k].clu # n
          /\ n \in Dirs => c.card[n] = room.card[n]
        <3>1. \A k \in DOMAIN c.pages : c.pages[k].clu # n
            BY <1>3 DEF PageAt
        <3>2. CASE Len(c.pages) = Capacity
            <4> DEFINE y == DropPage(c)
            <4>1. /\ Kept(c, y) /\ Len(y.pages) = Len(c.pages) - 1
                  /\ \A k \in DOMAIN y.pages : k \in DOMAIN c.pages /\ y.pages[k] = c.pages[k]
                BY <3>2, DropPageKeeps, CapacityAssumption
            <4>2. room = y
                BY <3>2
            <4> HIDE DEF room, y
            <4>3. \A k \in DOMAIN y.pages : y.pages[k].clu # n
                BY <3>1, <4>1
            <4>4. Content(c, n) = c.card[n]
                BY <3>1, ContentOfCard
            <4>5. n \in Dirs => y.card[n] = c.card[n]
                BY <4>1, <4>4 DEF Kept
            <4> QED
                BY <3>2, <4>1, <4>2, <4>3, <4>5, CapacityAssumption
        <3>3. CASE Len(c.pages) # Capacity
            <4>1. Len(c.pages) < Capacity
                BY <1>1, <3>3, CapacityAssumption DEF PagesOk
            <4>2. room = c
                BY <3>3
            <4> HIDE DEF room
            <4> QED
                BY <3>1, <4>1, <4>2, PagesKept
        <3> QED
            BY <3>2, <3>3
    <2>2. x = [room EXCEPT !.pages = <<new>> \o @]
        BY <1>3 DEF GetPage
    <2>3. PagesOk(room)
        BY <2>1 DEF Kept
    <2>4. /\ DOMAIN new = PageFields /\ new.clu = n /\ new.data = c.card[n] /\ new.dirty = FALSE
        BY DEF PageFields
    <2> HIDE DEF x, room, new
    <2>5. DOMAIN x = CacheFields /\ x.card = room.card /\ x.dents = room.dents
          /\ x.pages = <<new>> \o room.pages
        BY <2>2, <2>3 DEF PagesOk, CacheFields
    <2>6. Len(room.pages) \in Nat /\ DOMAIN room.pages = 1..Len(room.pages) /\ IsSeq(room.pages)
        BY <2>3, SeqDomain DEF PagesOk
    <2>7. /\ IsSeq(x.pages) /\ Len(x.pages) = Len(room.pages) + 1 /\ x.pages[1] = new
          /\ \A k \in 1..Len(room.pages) : x.pages[k + 1] = room.pages[k]
        BY <2>5, <2>6, Consed
    <2>8. DOMAIN x.pages = 1..(Len(room.pages) + 1) /\ Len(x.pages) <= Capacity
        BY <2>1, <2>6, <2>7, SeqDomain, CapacityAssumption
    <2>9. \A k \in DOMAIN x.pages :
            \/ k = 1 /\ x.pages[k] = new
            \/ k - 1 \in DOMAIN room.pages /\ x.pages[k] = room.pages[k - 1]
        <3> SUFFICES ASSUME NEW k \in DOMAIN x.pages, k # 1
                     PROVE  k - 1 \in DOMAIN room.pages /\ x.pages[k] = room.pages[k - 1]
            BY <2>7
        <3>1. k - 1 \in 1..Len(room.pages) /\ k - 1 + 1 = k
            BY <2>6, <2>8
        <3> QED
            BY <2>6, <2>7, <3>1
    <2>10. PagesOk(x)
        <3>1. ASSUME NEW k \in DOMAIN x.pages
              PROVE  /\ DOMAIN x.pages[k] = PageFields
                     /\ x.pages[k].dirty \in BOOLEAN
                     /\ (~x.pages[k].dirty /\ x.pages[k].clu \in Dirs
                            => x.pages[k].data = x.card[x.pages[k].clu])
            <4>1. CASE x.pages[k] = new
                BY <2>1, <2>4, <2>5, <4>1
            <4>2. CASE k - 1 \in DOMAIN room.pages /\ x.pages[k] = room.pages[k - 1]
                BY <2>3, <2>5, <4>2 DEF PagesOk
            <4> QED
                BY <2>9, <4>1, <4>2
        <3>2. ASSUME NEW k \in DOMAIN x.pages, NEW l \in DOMAIN x.pages,
                     x.pages[k].clu = x.pages[l].clu
              PROVE  k = l
            <4>1. k \in Int /\ l \in Int
                BY <2>8
            <4>2. CASE k # 1 /\ l # 1
                <5>1. /\ k - 1 \in DOMAIN room.pages /\ l - 1 \in DOMAIN room.pages
                      /\ room.pages[k-1].clu = room.pages[l-1].clu
                    BY <2>9, <3>2, <4>2
                <5>2. k - 1 = l - 1
                    BY <2>3, <5>1 DEF PagesOk
                <5> QED
                    BY <4>1, <5>2
            <4> QED
                BY <2>1, <2>4, <2>9, <3>2, <4>2
        <3> QED
            BY <2>3, <2>5, <2>7, <2>8, <3>1, <3>2 DEF PagesOk
    <2>11. ASSUME NEW m \in Dirs
           PROVE  Content(x, m) = Content(room, m)
        <3>1. CASE m = n
            <4>1. Content(room, m) = room.card[m]
                BY <2>1, <3>1, ContentOfCard
            <4>2. Content(x, x.pages[1].clu) = x.pages[1].data
                BY <2>6, <2>8, <2>10, ContentOfPage
            <4> QED
                BY <2>1, <2>4, <2>7, <3>1, <4>1, <4>2
        <3>2. CASE m # n /\ \E k \in DOMAIN room.pages : room.pages[k].clu = m
            <4>1. PICK k \in DOMAIN room.pages : room.pages[k].clu = m
                BY <3>2
            <4>2. k + 1 \in DOMAIN x.pages /\ x.pages[k+1] = room.pages[k]
                BY <2>6, <2>7, <2>8
            <4>3. Content(x, m) = x.pages[k+1].data
                BY <2>10, <4>1, <4>2, ContentOfPage
            <4>4. Content(room, m) = room.pages[k].data
                BY <2>3, <4>1, ContentOfPage
            <4> QED
                BY <4>2, <4>3, <4>4
        <3>3. CASE m # n /\ ~\E k \in DOMAIN room.pages : room.pages[k].clu = m
            <4>1. \A j \in DOMAIN x.pages : x.pages[j].clu # m
                BY <2>4, <2>9, <3>3
            <4>2. Content(x, m) = x.card[m] /\ Content(room, m) = room.card[m]
                BY <3>3, <4>1, ContentOfCard
            <4> QED
                BY <2>5, <4>2
        <3> QED
            BY <3>1, <3>2, <3>3
    <2>12. Kept(room, x)
        BY <2>5, <2>10, <2>11 DEF Kept
    <2>13. Kept(c, x)
        BY <2>1, <2>12, KeptTwice
    <2>14. 1 \in DOMAIN x.pages /\ x.pages[1].clu = n
        BY <2>4, <2>6, <2>7, <2>8
    <2> QED
        BY <2>13, <2>14 DEF x
<1> QED
    BY <1>2, <1>3

---------------------------------------------------------------------------
(* The entry cache, with the entry of the working directory in it.         *)

DentryFields == {"dir", "off", "data", "spinned", "root"}
EntryFields == {"name", "kind", "start", "size"}

\* An entry in use: of a directory, at a place it has.
Listed(d, j) == d \in Dirs /\ j \in Nat /\ j + 1 \in DOMAIN Card0[d]

\* e is the entry e0 of the card, but for its size.
Like(e, e0) ==
    /\ DOMAIN e = EntryFields
    /\ e.name = e0.name /\ e.kind = e0.kind /\ e.start = e0.start
    /\ e.size \in Nat

\* start is the first cluster of e0 or, if e0 is an empty file, one it was given.
Begins(start, e0) ==
    \/ start = e0.start
    \/ e0.start = 0 /\ e0.kind = "file" /\ start - 2 \notin Dirs

\* e is the entry e0 in a page, but for the first cluster of an empty file.
Fresh(e, e0) ==
    \/ e = e0
    \/ /\ e0.start = 0 /\ e0.kind = "file" /\ e.start - 2 \notin Dirs
       /\ e = [e0 EXCEPT !.start = e.start]

\* e is the entry e0 of the card, but for its size and such a cluster.
Near(e, e0) ==
    /\ DOMAIN e = EntryFields
    /\ e.name = e0.name /\ e.kind = e0.kind /\ Begins(e.start, e0)
    /\ e.size \in Nat

\* The directories are those of the card, but for the sizes of the files.
ContentsOk(c) ==
    \A d \in Dirs :
        /\ IsSeq(Content(c, d)) /\ Len(Content(c, d)) = Len(Card0[d])
        /\ Len(c.card[d]) = Len(Card0[d])
        /\ \A j \in DOMAIN Card0[d] : Like(Content(c, d)[j], Card0[d][j])

\* A cached entry is the root's or one of a directory as it is.
DentryOk(c, e, w) ==
    /\ DOMAIN e = DentryFields
    /\ e.root \in BOOLEAN /\ e.spinned \in BOOLEAN
    /\ (e.spinned <=> e.dir = w[1] /\ e.off = w[2])
    /\ (e.root => e.dir = 0 /\ e.off = 0 /\ e.data = RootDentry.data)
    /\ (e.spinned /\ e.dir = 0 /\ e.off = 0 => e.root)
    /\ (~e.root => Listed(e.dir, e.off) /\ Fresh(e.data, Content(c, e.dir)[e.off + 1]))

\* The entry cache is well formed, and the entry with the key w is the one
\* that is spinned.
DentsOk(c, w) ==
    /\ IsSeq(c.dents) /\ Len(c.dents) <= Capacity
    /\ \A i \in DOMAIN c.dents : DentryOk(c, c.dents[i], w)
    /\ \A i, j \in DOMAIN c.dents :
            c.dents[i].dir = c.dents[j].dir /\ c.dents[i].off = c.dents[j].off => i = j
    /\ \E i \in DOMAIN c.dents : c.dents[i].dir = w[1] /\ c.dents[i].off = w[2]

CacheOk(c, w) == PagesOk(c) /\ ContentsOk(c) /\ DentsOk(c, w)

\* The directories are in x as they are in c.
SameDirs(c, x) == \A n \in Dirs : Content(x, n) = Content(c, n)

\* The entry of the root is still in x if it was in c.
RootStays(c, x) == RootCached(c) => RootCached(x)

\* An entry as fresh as its page is the one on the card, nearly.
LEMMA FreshIsNear ==
    ASSUME NEW e, NEW p, NEW e0, Fresh(e, p), Like(p, e0)
    PROVE  Near(e, e0)
<1>1. CASE e = p
    BY <1>1 DEF Near, Like, Begins
<1>2. CASE e # p
    <2>1. /\ e0.start = 0 /\ e0.kind = "file" /\ e.start - 2 \notin Dirs
          /\ e = [p EXCEPT !.start = e.start]
        BY <1>2 DEF Fresh, Like
    <2>2. DOMAIN e = EntryFields /\ e.name = p.name /\ e.kind = p.kind /\ e.size = p.size
        BY <2>1 DEF Like, EntryFields
    <2> QED
        BY <2>1, <2>2 DEF Near, Like, Begins
<1> QED
    BY <1>1, <1>2

\* Where the clusters are kept, so are the directories and the entries.
LEMMA ContentsKept ==
    ASSUME NEW c, ContentsOk(c), NEW x, Kept(c, x)
    PROVE  ContentsOk(x) /\ SameDirs(c, x)
BY DEF ContentsOk, Kept, SameDirs

\* Cached entries stay as good while the directories do.
LEMMA DentriesKept ==
    ASSUME NEW c, NEW x, NEW w, DentsOk(c, w), x.dents = c.dents, SameDirs(c, x)
    PROVE  DentsOk(x, w)
<1>1. \A i \in DOMAIN x.dents : DentryOk(x, x.dents[i], w)
    BY DEF DentsOk, DentryOk, SameDirs, Listed
<1> QED
    BY <1>1 DEF DentsOk

\* Other pages with the same contents, and the same entries.
LEMMA CacheKept ==
    ASSUME NEW c, NEW x, NEW w, CacheOk(c, w), Kept(c, x)
    PROVE  CacheOk(x, w) /\ SameDirs(c, x)
<1>1. ContentsOk(x) /\ SameDirs(c, x) /\ PagesOk(x) /\ x.dents = c.dents
    BY ContentsKept DEF CacheOk, Kept
<1>2. DentsOk(c, w)
    BY DEF CacheOk
<1> QED
    BY <1>1, <1>2, DentriesKept DEF CacheOk

\* The entries x are entries of s, that with the key w among them.
Spares(x, s, w) ==
    /\ Len(x) <= Capacity
    /\ \E g : /\ Picked(x, s, g)
              /\ \A i \in DOMAIN s :
                    s[i].dir = w[1] /\ s[i].off = w[2] => \E k \in DOMAIN x : g[k] = i

\* Entries taken out of the cache, that with the key w excepted.
LEMMA DentriesPicked ==
    ASSUME NEW c, NEW w, CacheOk(c, w), NEW x, DOMAIN x = CacheFields, x.card = c.card,
           x.pages = c.pages, Spares(x.dents, c.dents, w)
    PROVE  CacheOk(x, w) /\ SameDirs(c, x)
<1>1. \A n : Content(x, n) = Content(c, n)
    BY DEF Content, PageAt
<1>2. PagesOk(x) /\ ContentsOk(x) /\ SameDirs(c, x)
    BY <1>1 DEF CacheOk, PagesOk, ContentsOk, SameDirs
<1>3. DentsOk(c, w)
    BY DEF CacheOk
<1>10. PICK g : /\ Picked(x.dents, c.dents, g)
               /\ \A i \in DOMAIN c.dents :
                    c.dents[i].dir = w[1] /\ c.dents[i].off = w[2]
                        => \E k \in DOMAIN x.dents : g[k] = i
    BY DEF Spares
<1>4. /\ IsSeq(x.dents) /\ g \in [DOMAIN x.dents -> DOMAIN c.dents]
      /\ \A k, l \in DOMAIN x.dents : g[k] = g[l] => k = l
      /\ \A k \in DOMAIN x.dents : x.dents[k] = c.dents[g[k]]
    BY <1>10 DEF Picked
<1>5. \A k \in DOMAIN x.dents : g[k] \in DOMAIN c.dents
    BY <1>4
<1>6. ASSUME NEW k \in DOMAIN x.dents
      PROVE  DentryOk(x, x.dents[k], w)
    <2>1. DentryOk(c, x.dents[k], w)
        BY <1>3, <1>4, <1>5 DEF DentsOk
    <2> QED
        BY <1>1, <2>1 DEF DentryOk
<1>7. ASSUME NEW k \in DOMAIN x.dents, NEW l \in DOMAIN x.dents,
             x.dents[k].dir = x.dents[l].dir, x.dents[k].off = x.dents[l].off
      PROVE  k = l
    <2>1. /\ g[k] \in DOMAIN c.dents /\ g[l] \in DOMAIN c.dents
          /\ c.dents[g[k]].dir = c.dents[g[l]].dir /\ c.dents[g[k]].off = c.dents[g[l]].off
        BY <1>4, <1>5, <1>7
    <2>2. g[k] = g[l]
        BY <1>3, <2>1 DEF DentsOk
    <2> QED
        BY <1>4, <2>2
<1>8. \E k \in DOMAIN x.dents : x.dents[k].dir = w[1] /\ x.dents[k].off = w[2]
    <2>1. PICK i \in DOMAIN c.dents : c.dents[i].dir = w[1] /\ c.dents[i].off = w[2]
        BY <1>3 DEF DentsOk
    <2>2. PICK k \in DOMAIN x.dents : g[k] = i
        BY <1>10, <2>1
    <2> QED
        BY <1>4, <2>1, <2>2
<1>9. DentsOk(x, w)
    BY <1>4, <1>6, <1>7, <1>8 DEF DentsOk, Spares
<1> QED
    BY <1>2, <1>9 DEF CacheOk

\* dcache_drop takes one entry out, never the one that is spinned.
LEMMA DropDentryKeeps ==
    ASSUME NEW c, NEW w, CacheOk(c, w)
    PROVE  /\ CacheOk(DropDentry(c), w) /\ SameDirs(c, DropDentry(c))
           /\ DropDentry(c).card = c.card /\ DropDentry(c).pages = c.pages
           /\ (Len(c.dents) > 1 => Len(DropDentry(c).dents) = Len(c.dents) - 1)
           /\ \A k \in DOMAIN DropDentry(c).dents :
                \E i \in DOMAIN c.dents : DropDentry(c).dents[k] = c.dents[i]
<1> DEFINE s == c.dents
           L == Len(s)
           i == IF s[L].spinned THEN L - 1 ELSE L
           x == DropDentry(c)
<1>1. IsSeq(s) /\ L \in Nat /\ DOMAIN s = 1..L /\ DentsOk(c, w) /\ DOMAIN c = CacheFields
    BY SeqDomain DEF CacheOk, DentsOk, PagesOk
<1>2. CASE L <= 1
    <2>1. x = c
        BY <1>2 DEF DropDentry
    <2> HIDE DEF x
    <2>2. SameDirs(c, x) /\ CacheOk(x, w)
        BY <2>1 DEF SameDirs
    <2> QED
        BY <1>1, <1>2, <2>1, <2>2 DEF x
<1>3. CASE L > 1
    <2>1. x = [c EXCEPT !.dents = RemoveAt(@, i)]
        BY <1>1, <1>3 DEF DropDentry
    <2> HIDE DEF x
    <2>2. DOMAIN x = CacheFields /\ x.card = c.card /\ x.pages = c.pages /\ x.dents = RemoveAt(s, i)
        BY <1>1, <2>1 DEF CacheFields
    <2>3. i \in 1..L
        BY <1>1, <1>3
    <2> HIDE DEF i
    <2>4. \E g : /\ Picked(RemoveAt(s, i), s, g) /\ Len(RemoveAt(s, i)) = L - 1
                 /\ \A j \in DOMAIN s : j # i => \E k \in DOMAIN RemoveAt(s, i) : g[k] = j
        BY <1>1, <2>3, RemovedPicks
    <2>5. PICK g : /\ Picked(x.dents, s, g) /\ Len(x.dents) = L - 1
                   /\ \A j \in DOMAIN s : j # i => \E k \in DOMAIN x.dents : g[k] = j
        BY <2>2, <2>4
    <2>6. ~s[i].spinned
        <3>1. CASE s[L].spinned
            <4>1. i = L - 1 /\ L - 1 \in DOMAIN s /\ L \in DOMAIN s /\ L # L - 1
                BY <1>1, <1>3, <3>1 DEF i
            <4>2. DentryOk(c, s[L], w) /\ DentryOk(c, s[L - 1], w)
                BY <1>1, <4>1 DEF DentsOk
            <4>3. s[L].dir = w[1] /\ s[L].off = w[2]
                BY <3>1, <4>2 DEF DentryOk
            <4>4. ~(s[L - 1].dir = w[1] /\ s[L - 1].off = w[2])
                BY <1>1, <4>1, <4>3 DEF DentsOk
            <4> QED
                BY <4>1, <4>2, <4>4 DEF DentryOk
        <3> QED
            BY <3>1 DEF i
    <2>7. DentryOk(c, s[i], w)
        BY <1>1, <2>3 DEF DentsOk
    <2>8. \A j \in DOMAIN s : s[j].dir = w[1] /\ s[j].off = w[2] => \E k \in DOMAIN x.dents : g[k] = j
        BY <2>5, <2>6, <2>7 DEF DentryOk
    <2>9. Len(x.dents) <= Capacity
        BY <1>1, <2>5, CapacityAssumption DEF DentsOk
    <2>10. CacheOk(x, w) /\ SameDirs(c, x)
        <3>1. Spares(x.dents, s, w)
            BY <2>5, <2>8, <2>9 DEF Spares
        <3> QED
            BY <2>2, <3>1, DentriesPicked
    <2>11. \A k \in DOMAIN x.dents : \E j \in DOMAIN s : x.dents[k] = s[j]
        BY <2>5 DEF Picked
    <2> QED
        BY <2>2, <2>5, <2>10, <2>11 DEF x
<1> QED
    BY <1>1, <1>2, <1>3

---------------------------------------------------------------------------
(* get_dentry.                                                             *)

\* What get_dentry of the entry j of the directory d makes of c: the entry at
\* the head, the root's when it was there.
Fetched(c, x, w, d, j) ==
    /\ CacheOk(x, w)
    /\ SameDirs(c, x)
    /\ 1 \in DOMAIN x.dents /\ x.dents[1].dir = d /\ x.dents[1].off = j
    /\ (d = 0 /\ j = 0 /\ RootCached(c) => x.dents[1].root)

\* Two steps that leave the directories.
LEMMA SameDirsTwice ==
    ASSUME NEW c, NEW x, NEW y, SameDirs(c, x), SameDirs(x, y)
    PROVE  SameDirs(c, y)
BY DEF SameDirs

\* get_dentry of an entry in the cache brings it to the head.
LEMMA GetCachedDentry ==
    ASSUME NEW c, NEW w, CacheOk(c, w), NEW d, NEW j, DentryAt(c, d, j) # {}
    PROVE  Fetched(c, GetDentry(c, d, j), w, d, j)
<1> DEFINE i == Sole(DentryAt(c, d, j))
           x == GetDentry(c, d, j)
<1>1. /\ IsSeq(c.dents) /\ Len(c.dents) \in Nat /\ DOMAIN c.dents = 1..Len(c.dents)
      /\ DentsOk(c, w) /\ DOMAIN c = CacheFields
    BY SeqDomain DEF CacheOk, DentsOk, PagesOk
<1>2. i \in 1..Len(c.dents) /\ c.dents[i].dir = d /\ c.dents[i].off = j
    BY <1>1 DEF Sole, DentryAt
<1>3. x = [c EXCEPT !.dents = ToHead(@, i)]
    BY DEF GetDentry
<1> HIDE DEF x, i
<1>4. DOMAIN x = CacheFields /\ x.card = c.card /\ x.pages = c.pages /\ x.dents = ToHead(c.dents, i)
    BY <1>1, <1>3 DEF CacheFields
<1>5. Shuffled(x.dents, c.dents) /\ x.dents[1] = c.dents[i]
    BY <1>1, <1>2, <1>4, HeadedPicks
<1>6. Spares(x.dents, c.dents, w)
    BY <1>1, <1>5 DEF Shuffled, Spares, DentsOk
<1>7. CacheOk(x, w) /\ SameDirs(c, x)
    BY <1>4, <1>6, DentriesPicked
<1>8. 1 \in DOMAIN x.dents
    BY <1>1, <1>2, <1>5 DEF Shuffled
<1>9. ASSUME d = 0, j = 0, RootCached(c)
      PROVE  x.dents[1].root
    <2>1. PICK k \in DOMAIN c.dents : c.dents[k].root
        BY <1>9 DEF RootCached
    <2>2. DentryOk(c, c.dents[k], w)
        BY <1>1 DEF DentsOk
    <2>3. c.dents[k].dir = 0 /\ c.dents[k].off = 0
        BY <2>1, <2>2 DEF DentryOk
    <2>4. k = i
        BY <1>1, <1>2, <1>9, <2>3 DEF DentsOk
    <2> QED
        BY <1>5, <2>1, <2>4
<1> QED
    BY <1>2, <1>5, <1>7, <1>8, <1>9 DEF Fetched, x

\* get_dentry of another one takes it from the page, into the room it makes.
LEMMA GetNewDentry ==
    ASSUME NEW c, NEW w, CacheOk(c, w), NEW d, NEW j, Listed(d, j), DentryAt(c, d, j) = {}
    PROVE  Fetched(c, GetDentry(c, d, j), w, d, j)
<1> DEFINE x == GetDentry(c, d, j)
           read == GetPage(c, d)
           room == IF Len(c.dents) = Capacity THEN DropDentry(read) ELSE read
           new == [dir |-> d, off |-> j, data |-> read.pages[1].data[j + 1],
                   spinned |-> FALSE, root |-> FALSE]
<1>1. /\ IsSeq(c.dents) /\ Len(c.dents) \in Nat /\ DOMAIN c.dents = 1..Len(c.dents)
      /\ DentsOk(c, w) /\ DOMAIN c = CacheFields /\ PagesOk(c)
    BY SeqDomain DEF CacheOk, DentsOk, PagesOk
<1>2. \A i \in DOMAIN c.dents : ~(c.dents[i].dir = d /\ c.dents[i].off = j)
    BY DEF DentryAt
<1>3. x = [room EXCEPT !.dents = <<new>> \o @]
    BY DEF GetDentry
<1>4. /\ DOMAIN new = DentryFields /\ new.dir = d /\ new.off = j /\ new.spinned = FALSE
      /\ new.root = FALSE /\ new.data = read.pages[1].data[j + 1]
    BY DEF DentryFields
<1> HIDE DEF x, new
<1>5. Kept(c, read) /\ 1 \in DOMAIN read.pages /\ read.pages[1].clu = d
    BY <1>1, GetPageKeeps
<1> HIDE DEF read
<1>6. CacheOk(read, w) /\ SameDirs(c, read) /\ read.dents = c.dents
    BY <1>5, CacheKept DEF Kept
<1>7. read.pages[1].data = Content(read, d)
    BY <1>5, ContentOfPage DEF Kept
<1>8. /\ CacheOk(room, w) /\ SameDirs(read, room) /\ Len(room.dents) < Capacity
      /\ \A k \in DOMAIN room.dents : ~(room.dents[k].dir = d /\ room.dents[k].off = j)
    <2>1. CASE Len(c.dents) = Capacity
        <3> DEFINE y == DropDentry(read)
        <3>1. Len(read.dents) > 1
            BY <1>6, <2>1, CapacityAssumption
        <3>2. /\ CacheOk(y, w) /\ SameDirs(read, y) /\ Len(y.dents) = Len(read.dents) - 1
              /\ \A k \in DOMAIN y.dents : \E i \in DOMAIN read.dents : y.dents[k] = read.dents[i]
            BY <1>6, <3>1, DropDentryKeeps
        <3>3. room = y
            BY <2>1
        <3> HIDE DEF y, room
        <3>4. \A k \in DOMAIN y.dents : ~(y.dents[k].dir = d /\ y.dents[k].off = j)
            BY <1>2, <1>6, <3>2
        <3> QED
            BY <1>6, <2>1, <3>2, <3>3, <3>4, CapacityAssumption
    <2>2. CASE Len(c.dents) # Capacity
        <3>1. room = read
            BY <2>2
        <3>2. Len(c.dents) < Capacity
            BY <1>1, <2>2, CapacityAssumption DEF DentsOk
        <3> HIDE DEF room
        <3> QED
            BY <1>2, <1>6, <3>1, <3>2 DEF SameDirs
    <2> QED
        BY <2>1, <2>2
<1> HIDE DEF room
<1>9. /\ DentsOk(room, w) /\ DOMAIN room = CacheFields /\ SameDirs(c, room)
    BY <1>6, <1>8, SameDirsTwice DEF CacheOk, PagesOk
<1>10. /\ IsSeq(room.dents) /\ Len(room.dents) \in Nat /\ DOMAIN room.dents = 1..Len(room.dents)
    BY <1>9, SeqDomain DEF DentsOk
<1>11. /\ DOMAIN x = CacheFields /\ x.card = room.card /\ x.pages = room.pages
       /\ x.dents = <<new>> \o room.dents
    BY <1>3, <1>9 DEF CacheFields
<1>12. /\ IsSeq(x.dents) /\ Len(x.dents) = Len(room.dents) + 1 /\ x.dents[1] = new
       /\ \A k \in 1..Len(room.dents) : x.dents[k + 1] = room.dents[k]
    BY <1>10, <1>11, Consed
<1>13. DOMAIN x.dents = 1..(Len(room.dents) + 1) /\ Len(x.dents) <= Capacity
    BY <1>8, <1>10, <1>12, SeqDomain, CapacityAssumption
<1>14. \A k \in DOMAIN x.dents :
            \/ k = 1 /\ x.dents[k] = new
            \/ k - 1 \in DOMAIN room.dents /\ x.dents[k] = room.dents[k - 1]
    <2> SUFFICES ASSUME NEW k \in DOMAIN x.dents, k # 1
                 PROVE  k - 1 \in DOMAIN room.dents /\ x.dents[k] = room.dents[k - 1]
        BY <1>12
    <2>1. k - 1 \in 1..Len(room.dents) /\ k - 1 + 1 = k
        BY <1>10, <1>13
    <2> QED
        BY <1>10, <1>12, <2>1
<1>15. \A n : Content(x, n) = Content(room, n)
    BY <1>11 DEF Content, PageAt
<1>16. PagesOk(x) /\ ContentsOk(x) /\ SameDirs(room, x)
    BY <1>8, <1>11, <1>15 DEF CacheOk, PagesOk, ContentsOk, SameDirs
<1>17. ~(d = w[1] /\ j = w[2])
    BY <1>1, <1>2 DEF DentsOk
<1>18. new.data = Content(x, d)[j + 1]
    BY <1>4, <1>7, <1>8, <1>15 DEF SameDirs, Listed
<1>19. DentryOk(x, new, w)
    BY <1>4, <1>17, <1>18 DEF DentryOk, Fresh
<1>20. ASSUME NEW k \in DOMAIN x.dents
       PROVE  DentryOk(x, x.dents[k], w)
    <2>1. CASE k - 1 \in DOMAIN room.dents /\ x.dents[k] = room.dents[k - 1]
        <3>1. DentryOk(room, x.dents[k], w)
            BY <1>9, <2>1 DEF DentsOk
        <3> QED
            BY <1>15, <3>1 DEF DentryOk
    <2> QED
        BY <1>14, <1>19, <2>1
<1>21. ASSUME NEW k \in DOMAIN x.dents, NEW l \in DOMAIN x.dents,
              x.dents[k].dir = x.dents[l].dir, x.dents[k].off = x.dents[l].off
       PROVE  k = l
    <2>1. k \in Int /\ l \in Int
        BY <1>13
    <2>2. CASE k # 1 /\ l # 1
        <3>1. /\ k - 1 \in DOMAIN room.dents /\ l - 1 \in DOMAIN room.dents
              /\ room.dents[k-1].dir = room.dents[l-1].dir
              /\ room.dents[k-1].off = room.dents[l-1].off
            BY <1>14, <1>21, <2>2
        <3>2. k - 1 = l - 1
            BY <1>9, <3>1 DEF DentsOk
        <3> QED
            BY <2>1, <3>2
    <2> QED
        BY <1>4, <1>8, <1>14, <1>21, <2>2
<1>22. \E k \in DOMAIN x.dents : x.dents[k].dir = w[1] /\ x.dents[k].off = w[2]
    <2>1. PICK i \in DOMAIN room.dents : room.dents[i].dir = w[1] /\ room.dents[i].off = w[2]
        BY <1>9 DEF DentsOk
    <2>2. i + 1 \in DOMAIN x.dents /\ x.dents[i + 1] = room.dents[i]
        BY <1>10, <1>12, <1>13
    <2> QED
        BY <2>1, <2>2
<1>23. CacheOk(x, w) /\ SameDirs(c, x)
    BY <1>9, <1>12, <1>13, <1>16, <1>20, <1>21, <1>22, SameDirsTwice DEF CacheOk, DentsOk
<1>24. ~(d = 0 /\ j = 0 /\ RootCached(c))
    <2> SUFFICES ASSUME NEW k \in DOMAIN c.dents, c.dents[k].root
                 PROVE  c.dents[k].dir = 0 /\ c.dents[k].off = 0
        BY <1>2 DEF RootCached
    <2>1. DentryOk(c, c.dents[k], w)
        BY <1>1 DEF DentsOk
    <2> QED
        BY <2>1 DEF DentryOk
<1>25. 1 \in DOMAIN x.dents
    BY <1>10, <1>13
<1> QED
    BY <1>4, <1>12, <1>23, <1>24, <1>25 DEF Fetched, x

\* get_dentry, whether the entry is in the cache or not.
LEMMA GetDentryKeeps ==
    ASSUME NEW c, NEW w, CacheOk(c, w), NEW d, NEW j, Listed(d, j)
    PROVE  Fetched(c, GetDentry(c, d, j), w, d, j)
BY GetCachedDentry, GetNewDentry

\* The entry at the head is the one of the directory, unless it is the root's.
LEMMA FetchedEntry ==
    ASSUME NEW c, NEW x, NEW w, NEW d, NEW j, Listed(d, j), Fetched(c, x, w, d, j)
    PROVE  \/ x.dents[1].root /\ d = 0 /\ j = 0 /\ x.dents[1].data = RootDentry.data
           \/ ~x.dents[1].root /\ Near(x.dents[1].data, Card0[d][j + 1])
<1>1. DentryOk(x, x.dents[1], w) /\ ContentsOk(x)
    BY DEF Fetched, CacheOk, DentsOk
<1> QED
    BY <1>1, FreshIsNear DEF DentryOk, ContentsOk, Listed, Fetched

---------------------------------------------------------------------------
(* Loops, and the flush.                                                   *)

\* f holds what the steps make of a, one after the other.
Run(Step(_, _), a, n, f) == f = [k \in 0..n |-> IF k = 0 THEN a ELSE Step(f[k - 1], k)]

\* Repeat is the last of them.
Unrolls(Step(_, _), a, n) ==
    \E f : /\ DOMAIN f = 0..n /\ f[0] = a
           /\ \A k \in 1..n : f[k] = Step(f[k - 1], k)
           /\ Repeat(Step, a, n) = f[n]

\* A repetition has its values, and Repeat takes the last of them.
LEMMA RunExists ==
    ASSUME NEW Step(_, _), NEW a, NEW n \in Nat
    PROVE  \E f : Run(Step, a, n, f)
<1> DEFINE Good == {m \in 0..n : \E f : Run(Step, a, m, f)}
<1>1. 0 \in Good
    <2> DEFINE f == [k \in 0..0 |-> a]
    <2>1. Run(Step, a, 0, f)
        BY DEF Run
    <2> QED
        BY <2>1
<1>2. ASSUME NEW m \in 0..n-1, m \in Good
      PROVE  m + 1 \in Good
    <2>1. PICK f : Run(Step, a, m, f)
        BY <1>2
    <2> DEFINE g == [k \in 0..m+1 |-> IF k <= m THEN f[k] ELSE Step(f[m], m + 1)]
    <2>2. \A k \in 0..m : g[k] = f[k]
        OBVIOUS
    <2>3. g[m + 1] = Step(g[m], m + 1)
        BY <2>2
    <2>4. ASSUME NEW k \in 0..m+1
          PROVE  g[k] = IF k = 0 THEN a ELSE Step(g[k - 1], k)
        <3>1. CASE k = m + 1
            <4>1. k - 1 = m /\ k # 0
                BY <3>1
            <4> HIDE DEF g
            <4> QED
                BY <2>3, <3>1, <4>1
        <3>2. CASE k # m + 1
            <4>1. k \in 0..m /\ (k # 0 => k - 1 \in 0..m)
                BY <3>2
            <4> HIDE DEF g
            <4> QED
                BY <2>1, <2>2, <4>1 DEF Run
        <3> QED
            BY <3>1, <3>2
    <2>5. Run(Step, a, m + 1, g)
        BY <2>4 DEF Run
    <2> QED
        BY <2>5
<1>3. 0..n \subseteq Good
    <2> HIDE DEF Good
    <2> QED
        BY <1>1, <1>2, CountUp
<1> QED
    BY <1>3

\* Repeat by its first and its later values.
LEMMA RepeatUnrolls ==
    ASSUME NEW Step(_, _), NEW a, NEW n \in Nat
    PROVE  Unrolls(Step, a, n)
<1> DEFINE f == CHOOSE f : Run(Step, a, n, f)
<1>1. Run(Step, a, n, f)
    BY RunExists, Zenon
<1>2. Repeat(Step, a, n) = f[n]
    BY Zenon DEF Repeat, Run
<1> HIDE DEF f
<1>3. /\ DOMAIN f = 0..n /\ f[0] = a
      /\ \A k \in 1..n : f[k] = Step(f[k - 1], k)
    BY <1>1 DEF Run
<1> QED
    BY <1>2, <1>3, Zenon DEF Unrolls

\* What every step keeps, the repetition keeps.
Invariantly(Step(_, _), P(_), a, n) ==
    P(a) /\ (\A k \in 1..n : \A x : P(x) => P(Step(x, k))) => P(Repeat(Step, a, n))

\* Counted up in 0..n, as no induction rule can be used.
LEMMA RepeatKeeps ==
    ASSUME NEW Step(_, _), NEW P(_), NEW a, NEW n \in Nat
    PROVE  Invariantly(Step, P, a, n)
<1> SUFFICES ASSUME P(a), \A k \in 1..n : \A x : P(x) => P(Step(x, k))
             PROVE  P(Repeat(Step, a, n))
    BY Zenon DEF Invariantly
<1>1. PICK f : /\ DOMAIN f = 0..n /\ f[0] = a
               /\ \A k \in 1..n : f[k] = Step(f[k - 1], k)
               /\ Repeat(Step, a, n) = f[n]
    <2>1. Unrolls(Step, a, n)
        BY RepeatUnrolls, Zenon
    <2> QED
        BY <2>1, Zenon DEF Unrolls
<1>2. f[0] = a /\ \A k \in 1..n : f[k] = Step(f[k - 1], k)
    BY <1>1, Zenon
<1> DEFINE Good == {k \in 0..n : P(f[k])}
<1>3. 0 \in Good
    BY <1>2
<1>4. ASSUME NEW k \in 0..n-1, k \in Good
      PROVE  k + 1 \in Good
    <2>1. k + 1 \in 1..n /\ k + 1 - 1 = k /\ k + 1 \in 0..n
        OBVIOUS
    <2>2. f[k + 1] = Step(f[k], k + 1)
        BY <1>2, <2>1
    <2>3. P(f[k])
        BY <1>4
    <2>4. P(Step(f[k], k + 1))
        BY <2>1, <2>3
    <2>5. P(f[k + 1])
        BY <2>2, <2>4
    <2> QED
        BY <2>1, <2>5
<1>5. 0..n \subseteq Good
    <2> HIDE DEF Good
    <2> QED
        BY <1>3, <1>4, CountUp
<1>6. P(f[n])
    BY <1>5
<1> QED
    BY <1>1, <1>6, Zenon

\* The same of two repetitions side by side.
Alike(Step(_, _), P(_, _), a, b, n) ==
    P(a, b) /\ (\A k \in 1..n : \A x, y : P(x, y) => P(Step(x, k), Step(y, k)))
        => P(Repeat(Step, a, n), Repeat(Step, b, n))

\* What every pair of steps keeps, the two repetitions keep.
LEMMA RepeatAlike ==
    ASSUME NEW Step(_, _), NEW P(_, _), NEW a, NEW b, NEW n \in Nat
    PROVE  Alike(Step, P, a, b, n)
<1> SUFFICES ASSUME P(a, b), \A k \in 1..n : \A x, y : P(x, y) => P(Step(x, k), Step(y, k))
             PROVE  P(Repeat(Step, a, n), Repeat(Step, b, n))
    BY Zenon DEF Alike
<1>1. PICK f : /\ DOMAIN f = 0..n /\ f[0] = a
               /\ \A k \in 1..n : f[k] = Step(f[k - 1], k)
               /\ Repeat(Step, a, n) = f[n]
    <2>1. Unrolls(Step, a, n)
        BY RepeatUnrolls, Zenon
    <2> QED
        BY <2>1, Zenon DEF Unrolls
<1>2. PICK g : /\ DOMAIN g = 0..n /\ g[0] = b
               /\ \A k \in 1..n : g[k] = Step(g[k - 1], k)
               /\ Repeat(Step, b, n) = g[n]
    <2>1. Unrolls(Step, b, n)
        BY RepeatUnrolls, Zenon
    <2> QED
        BY <2>1, Zenon DEF Unrolls
<1>3. /\ f[0] = a /\ \A k \in 1..n : f[k] = Step(f[k - 1], k)
      /\ g[0] = b /\ \A k \in 1..n : g[k] = Step(g[k - 1], k)
    BY <1>1, <1>2, Zenon
<1> DEFINE Good == {k \in 0..n : P(f[k], g[k])}
<1>4. 0 \in Good
    BY <1>3
<1>5. ASSUME NEW k \in 0..n-1, k \in Good
      PROVE  k + 1 \in Good
    <2>1. k + 1 \in 1..n /\ k + 1 - 1 = k /\ k + 1 \in 0..n
        OBVIOUS
    <2>2. f[k + 1] = Step(f[k], k + 1) /\ g[k + 1] = Step(g[k], k + 1)
        BY <1>3, <2>1
    <2>3. P(f[k], g[k])
        BY <1>5
    <2>4. P(Step(f[k], k + 1), Step(g[k], k + 1))
        BY <2>1, <2>3
    <2>5. P(f[k + 1], g[k + 1])
        BY <2>2, <2>4
    <2> QED
        BY <2>1, <2>5
<1>6. 0..n \subseteq Good
    <2> HIDE DEF Good
    <2> QED
        BY <1>4, <1>5, CountUp
<1>7. P(f[n], g[n])
    BY <1>6
<1> QED
    BY <1>1, <1>2, <1>7, Zenon
-----------------------------------------------------------------------------
\* c became x, and the directories are the same.
Goes(c, x, w) == CacheOk(x, w) /\ SameDirs(c, x)

\* Two steps and no step at all.
LEMMA GoesTwice ==
    ASSUME NEW c, NEW x, NEW y, NEW w, Goes(c, x, w), Goes(x, y, w)
    PROVE  Goes(c, y, w)
BY SameDirsTwice DEF Goes

\* No step.
LEMMA GoesNowhere ==
    ASSUME NEW c, NEW w, CacheOk(c, w)
    PROVE  Goes(c, c, w)
BY DEF Goes, SameDirs

\* The loops of fflush drop entries and pages.
LEMMA DropDentriesKeeps ==
    ASSUME NEW c, NEW w, CacheOk(c, w), NEW n \in Nat
    PROVE  Goes(c, Repeat(LAMBDA x, k : DropDentry(x), c, n), w)
<1>1. Goes(c, c, w)
    BY GoesNowhere
<1>2. ASSUME NEW x, Goes(c, x, w)
      PROVE  Goes(c, DropDentry(x), w)
    <2>1. Goes(x, DropDentry(x), w)
        BY <1>2, DropDentryKeeps DEF Goes
    <2> QED
        BY <1>2, <2>1, GoesTwice
<1>3. Invariantly(LAMBDA x, k : DropDentry(x), LAMBDA x : Goes(c, x, w), c, n)
    BY RepeatKeeps, Zenon
<1> QED
    BY <1>1, <1>2, <1>3, Zenon DEF Invariantly

\* The pages dropped.
LEMMA DropPagesKeeps ==
    ASSUME NEW c, NEW w, CacheOk(c, w), NEW n \in Nat
    PROVE  Goes(c, Repeat(LAMBDA x, k : DropPage(x), c, n), w)
<1>1. Goes(c, c, w)
    BY GoesNowhere
<1>2. ASSUME NEW x, Goes(c, x, w)
      PROVE  Goes(c, DropPage(x), w)
    <2>1. Kept(x, DropPage(x)) /\ CacheOk(x, w)
        BY <1>2, DropPageKeeps DEF Goes, CacheOk
    <2>2. Goes(x, DropPage(x), w)
        BY <2>1, CacheKept DEF Goes
    <2> QED
        BY <1>2, <2>2, GoesTwice
<1>3. Invariantly(LAMBDA x, k : DropPage(x), LAMBDA x : Goes(c, x, w), c, n)
    BY RepeatKeeps, Zenon
<1> QED
    BY <1>1, <1>2, <1>3, Zenon DEF Invariantly

\* fat32_fflush changes no directory.
LEMMA FflushKeeps ==
    ASSUME NEW c, NEW w, CacheOk(c, w)
    PROVE  Goes(c, Fflush(c), w)
<1> DEFINE x == Repeat(LAMBDA y, k : DropDentry(y), c, Len(c.dents))
           z == Repeat(LAMBDA y, k : DropPage(y), x, Len(c.pages))
<1>1. Len(c.dents) \in Nat /\ Len(c.pages) \in Nat
    BY SeqDomain DEF CacheOk, DentsOk, PagesOk
<1>2. Goes(c, x, w)
    BY <1>1, DropDentriesKeeps, Zenon
<1>3. Fflush(c) = z
    BY Zenon DEF Fflush
<1> HIDE DEF x
<1>4. Goes(x, z, w)
    BY <1>1, <1>2, DropPagesKeeps, Zenon DEF Goes
<1> HIDE DEF z
<1> QED
    BY <1>2, <1>3, <1>4, GoesTwice

---------------------------------------------------------------------------
(* A walk over a directory.                                                *)

\* A name, unlike that of the root.
Proper(name) == name # ""

\* An entry that a path may name.
Named(e) == \E p \in Path : e.name \in Elements(p.names)

\* What Layout says of the directories and of the paths.
LEMMA DirectoriesLaidOut ==
    ASSUME Layout, NEW d \in Dirs
    PROVE  /\ IsSeq(Card0[d]) /\ Len(Card0[d]) \in Nat /\ DOMAIN Card0[d] = 1..Len(Card0[d])
           /\ \A j \in DOMAIN Card0[d] :
                /\ DOMAIN Card0[d][j] = EntryFields /\ Card0[d][j].size \in Nat
                /\ (Named(Card0[d][j]) => LedTo(Card0[d][j]))
<1>1. Card0[d] \in Seq(Elements(Card0[d]))
    BY DEF Layout
<1>2. \A e \in Elements(Card0[d]) :
        /\ DOMAIN e = EntryFields /\ e.size \in Nat
        /\ (Named(e) => LedTo(e))
    BY DEF Layout, Named, EntryFields
<1>3. \A j \in DOMAIN Card0[d] : Card0[d][j] \in Elements(Card0[d])
    BY DEF Elements
<1> QED
    BY <1>1, <1>2, <1>3, SeqDomain DEF IsSeq

\* No path holds the name of the root.
LEMMA PathsLaidOut ==
    ASSUME Layout, NEW p \in Path
    PROVE  /\ Len(p.names) \in Nat /\ DOMAIN p.names = 1..Len(p.names)
           /\ \A i \in DOMAIN p.names : p.names[i] \in Elements(p.names) /\ Proper(p.names[i])
<1>1. p.names \in Seq(Elements(p.names)) /\ \A name \in Elements(p.names) : Proper(name)
    BY Zenon DEF Layout, Proper
<1>2. IsSeq(p.names)
    BY <1>1 DEF IsSeq
<1>3. \A i \in DOMAIN p.names : p.names[i] \in Elements(p.names)
    BY DEF Elements
<1> QED
    BY <1>1, <1>2, <1>3, SeqDomain

\* A place of an entry is no Nowhere.
LEMMA ListedSomewhere ==
    ASSUME Layout, NEW d, NEW j, Listed(d, j)
    PROVE  <<d, j>> # Nowhere
<1>1. d \in {n - 2 : n \in DOMAIN Fat0 \ {1}} /\ DOMAIN Fat0 \subseteq 0..127
    BY MfsAssumption DEF Layout, Listed
<1>2. d # -1
    BY <1>1
<1> QED
    BY <1>2 DEF Nowhere

\* Whether the entry j of d is the one a walk looks for, or its last.
Matches(d, j, name) ==
    Card0[d][j + 1].kind \notin {"label", "end"} /\ Card0[d][j + 1].name = name
Stops(d, j, name) == Matches(d, j, name) \/ Card0[d][j + 1].kind = "end"

\* What is found is an entry of a directory of the card, with that name.
Found(at, e, name) ==
    \E d, j : /\ at = <<d, j>> /\ Listed(d, j) /\ at # RootKey
              /\ Near(e, Card0[d][j + 1]) /\ e.name = name

WalkFields == {"c", "over", "dir", "at"}

\* The state of a walk that began with c.
WalkOk(c, s, w, name) ==
    /\ DOMAIN s = WalkFields
    /\ Goes(c, s.c, w)
    /\ s.at = Nowhere \/ Found(s.at, s.dir, name)

\* An entry examined: the walk stops where the card says, whatever of the
\* cache the entry comes from.
LEMMA ExamineFinds ==
    ASSUME Layout, NEW s, NEW w, NEW name, Proper(name), NEW d, NEW j, Listed(d, j),
           CacheOk(s.c, w), ~s.over
    PROVE  /\ Examine(s, name, d, j).over \in BOOLEAN
           /\ Examine(s, name, d, j).over <=> Stops(d, j, name)
           /\ Examine(s, name, d, j).at = (IF Matches(d, j, name) THEN <<d, j>> ELSE Nowhere)
           /\ WalkOk(s.c, Examine(s, name, d, j), w, name)
<1> DEFINE c == GetDentry(s.c, d, j)
           e == c.dents[1].data
           hit == e.kind \notin {"label", "end"} /\ e.name = name
           x == Examine(s, name, d, j)
<1>1. x = [c |-> c, over |-> hit \/ e.kind = "end", dir |-> e,
           at |-> IF hit THEN <<d, j>> ELSE Nowhere]
    BY DEF Examine
<1>2. Fetched(s.c, c, w, d, j)
    BY GetDentryKeeps
<1>3. \/ d = 0 /\ j = 0 /\ e = RootDentry.data
      \/ Near(e, Card0[d][j + 1])
    BY <1>2, FetchedEntry
<1> HIDE DEF c
<1>4. (hit <=> Matches(d, j, name)) /\ (hit \/ e.kind = "end" <=> Stops(d, j, name))
    <2>1. CASE d = 0 /\ j = 0
        <3>1. Card0[d][j + 1].kind = "label"
            <4>1. Card0[d] = Card0[0] /\ j + 1 = 1
                BY <2>1
            <4> QED
                BY <4>1, MfsAssumption
        <3>2. ~Matches(d, j, name) /\ ~Stops(d, j, name)
            BY <3>1 DEF Matches, Stops
        <3>3. ~hit /\ e.kind # "end"
            <4>1. CASE e = RootDentry.data
                <5>1. RootDentry.data.kind = "dir"
                    BY Zenon DEF RootDentry
                <5>2. RootDentry.data.name # name
                    BY Zenon DEF RootDentry, Proper
                <5> QED
                    BY <4>1, <5>1, <5>2
            <4>2. CASE Near(e, Card0[d][j + 1])
                BY <3>1, <4>2 DEF Near
            <4> QED
                BY <1>3, <4>1, <4>2
        <3> QED
            BY <3>2, <3>3
    <2>2. CASE ~(d = 0 /\ j = 0)
        BY <1>3, <2>2 DEF Near, Matches, Stops
    <2> QED
        BY <2>1, <2>2
<1>5. hit => <<d, j>> # RootKey /\ Near(e, Card0[d][j + 1])
    <2>1. CASE d = 0 /\ j = 0
        <3>1. ~Matches(d, j, name)
            <4>1. Card0[d] = Card0[0] /\ j + 1 = 1
                BY <2>1
            <4> QED
                BY <4>1, MfsAssumption DEF Matches
        <3> QED
            BY <1>4, <3>1
    <2>2. CASE ~(d = 0 /\ j = 0)
        BY <1>3, <2>2 DEF RootKey
    <2> QED
        BY <2>1, <2>2
<1> HIDE DEF e
<1>6. hit => Found(<<d, j>>, e, name)
    BY <1>5 DEF Found
<1>7. Goes(s.c, c, w)
    BY <1>2 DEF Fetched, Goes
<1> HIDE DEF x, hit
<1>8. DOMAIN x = WalkFields
    BY <1>1 DEF WalkFields
<1>10. x.c = c /\ x.over \in BOOLEAN /\ (x.over <=> hit \/ e.kind = "end") /\ x.dir = e
      /\ x.at = IF hit THEN <<d, j>> ELSE Nowhere
    BY <1>1
<1>9. WalkOk(s.c, x, w, name)
    BY <1>6, <1>7, <1>8, <1>10 DEF WalkOk
<1> QED
    BY <1>4, <1>9, <1>10 DEF x

\* An entry looked at or listed: the caches alone change.
LEMMA ExamineKeeps ==
    ASSUME NEW s, NEW w, NEW name, NEW d, NEW j, Listed(d, j), CacheOk(s.c, w)
    PROVE  /\ Goes(s.c, Examine(s, name, d, j).c, w)
           /\ Goes(s.c, ListEntry(s, d, j).c, w)
<1>1. CASE s.over
    BY <1>1, GoesNowhere DEF Examine, ListEntry
<1>2. CASE ~s.over
    <2> DEFINE c == GetDentry(s.c, d, j)
    <2>1. Examine(s, name, d, j).c = c /\ ListEntry(s, d, j).c = c
        BY <1>2 DEF Examine, ListEntry
    <2>2. Fetched(s.c, c, w, d, j)
        BY GetDentryKeeps
    <2> HIDE DEF c
    <2> QED
        BY <2>1, <2>2 DEF Fetched, Goes
<1> QED
    BY <1>1, <1>2

WalkStart(c) == [c |-> c, over |-> FALSE, dir |-> RootDentry.data, at |-> Nowhere]

WalkIs(c, start, name) ==
    Walk(c, start, name) =
        Repeat(LAMBDA s, j : Examine(s, name, start - 2, j - 1), WalkStart(c),
               Len(Card0[start - 2]))

\* A walk is a repetition of Examine.
LEMMA WalkLoops ==
    ASSUME Layout, NEW c, NEW w, CacheOk(c, w), NEW start, start - 2 \in Dirs, NEW name
    PROVE  /\ WalkIs(c, start, name)
           /\ Len(Card0[start - 2]) \in Nat
           /\ \A j \in 1..Len(Card0[start - 2]) : Listed(start - 2, j - 1)
<1>1. Len(c.card[start - 2]) = Len(Card0[start - 2])
    BY DEF CacheOk, ContentsOk
<1>2. /\ Len(Card0[start - 2]) \in Nat
      /\ DOMAIN Card0[start - 2] = 1..Len(Card0[start - 2])
    BY DirectoriesLaidOut
<1>3. \A j \in 1..Len(Card0[start - 2]) : Listed(start - 2, j - 1)
    BY <1>2 DEF Listed
<1>4. WalkIs(c, start, name)
    BY <1>1, Zenon DEF WalkIs, Walk, WalkStart
<1> QED
    BY <1>2, <1>3, <1>4, Zenon

\* A walk changes no directory, and what it finds is as the card has it.
LEMMA WalkKeeps ==
    ASSUME Layout, NEW c, NEW w, CacheOk(c, w), NEW start, start - 2 \in Dirs, NEW name
    PROVE  Goes(c, Walk(c, start, name).c, w)
<1> DEFINE d == start - 2
           n == Len(Card0[d])
<1>2. WalkIs(c, start, name) /\ n \in Nat /\ \A j \in 1..n : Listed(d, j - 1)
    BY WalkLoops
<1>1. Walk(c, start, name) =
            Repeat(LAMBDA s, j : Examine(s, name, d, j - 1), WalkStart(c), n)
    BY <1>2, Zenon DEF WalkIs
<1> HIDE DEF d, n
<1>3. Goes(c, WalkStart(c).c, w)
    BY GoesNowhere DEF WalkStart
<1>4. ASSUME NEW j \in 1..n, NEW s, Goes(c, s.c, w)
      PROVE  Goes(c, Examine(s, name, d, j - 1).c, w)
    <2>1. Goes(s.c, Examine(s, name, d, j - 1).c, w)
        BY <1>2, <1>4, ExamineKeeps DEF Goes
    <2> QED
        BY <1>4, <2>1, GoesTwice
<1>5. Invariantly(LAMBDA s, j : Examine(s, name, d, j - 1), LAMBDA s : Goes(c, s.c, w),
                  WalkStart(c), n)
    BY <1>2, RepeatKeeps, Zenon
<1> QED
    BY <1>1, <1>3, <1>4, <1>5, Zenon DEF Invariantly

\* Two walks over a directory, through whatever the caches hold, find the same.
WalkAlike(a, b, v, w, name) ==
    /\ DOMAIN a = WalkFields /\ DOMAIN b = WalkFields
    /\ CacheOk(a.c, v) /\ CacheOk(b.c, w)
    /\ a.over \in BOOLEAN /\ a.over = b.over
    /\ a.at = b.at
    /\ (a.at # Nowhere => Found(a.at, a.dir, name) /\ Found(a.at, b.dir, name))

\* Entry by entry, the two walks stop at the same.
LEMMA WalksAlike ==
    ASSUME Layout, NEW a, NEW b, NEW v, NEW w, CacheOk(a, v), CacheOk(b, w),
           NEW start, start - 2 \in Dirs, NEW name, Proper(name)
    PROVE  WalkAlike(Walk(a, start, name), Walk(b, start, name), v, w, name)
<1> DEFINE d == start - 2
           n == Len(Card0[d])
<1>2. /\ WalkIs(a, start, name) /\ WalkIs(b, start, name)
      /\ n \in Nat /\ \A j \in 1..n : Listed(d, j - 1)
    BY WalkLoops
<1>1. /\ Walk(a, start, name) =
            Repeat(LAMBDA s, j : Examine(s, name, d, j - 1), WalkStart(a), n)
      /\ Walk(b, start, name) =
            Repeat(LAMBDA s, j : Examine(s, name, d, j - 1), WalkStart(b), n)
    BY <1>2, Zenon DEF WalkIs
<1> HIDE DEF d, n
<1>3. WalkAlike(WalkStart(a), WalkStart(b), v, w, name)
    BY DEF WalkAlike, WalkStart, WalkFields
<1>4. ASSUME NEW j \in 1..n, NEW s, NEW t, WalkAlike(s, t, v, w, name)
      PROVE  WalkAlike(Examine(s, name, d, j - 1), Examine(t, name, d, j - 1), v, w, name)
    <2> DEFINE i == j - 1
               x == Examine(s, name, d, i)
               y == Examine(t, name, d, i)
    <2>1. Listed(d, i)
        BY <1>2
    <2>2. CASE s.over
        <3>1. x = s /\ y = t
            BY <1>4, <2>2 DEF Examine, WalkAlike
        <3> QED
            BY <1>4, <3>1
    <2>3. CASE ~s.over
        <3>1. /\ x.over \in BOOLEAN /\ (x.over <=> Stops(d, i, name))
              /\ x.at = (IF Matches(d, i, name) THEN <<d, i>> ELSE Nowhere)
              /\ WalkOk(s.c, x, v, name)
            BY <1>4, <2>1, <2>3, ExamineFinds DEF WalkAlike
        <3>2. /\ y.over \in BOOLEAN /\ (y.over <=> Stops(d, i, name))
              /\ y.at = (IF Matches(d, i, name) THEN <<d, i>> ELSE Nowhere)
              /\ WalkOk(t.c, y, w, name)
            BY <1>4, <2>1, <2>3, ExamineFinds DEF WalkAlike
        <3> HIDE DEF x, y
        <3>4. x.over \in BOOLEAN /\ x.over = y.over
            BY <3>1, <3>2
        <3>5. x.at = y.at
            BY <3>1, <3>2
        <3>6. /\ CacheOk(x.c, v) /\ CacheOk(y.c, w)
              /\ DOMAIN x = WalkFields /\ DOMAIN y = WalkFields
            BY <3>1, <3>2 DEF WalkOk, Goes
        <3>7. x.at # Nowhere => Found(x.at, x.dir, name) /\ Found(x.at, y.dir, name)
            BY <3>1, <3>2, <3>5 DEF WalkOk
        <3>8. WalkAlike(x, y, v, w, name)
            BY <3>4, <3>5, <3>6, <3>7 DEF WalkAlike
        <3> QED
            BY <3>8 DEF x, y
    <2> QED
        BY <2>2, <2>3
<1>5. Alike(LAMBDA s, j : Examine(s, name, d, j - 1), LAMBDA s, t : WalkAlike(s, t, v, w, name),
            WalkStart(a), WalkStart(b), n)
    BY <1>2, RepeatAlike, Zenon
<1> QED
    BY <1>1, <1>3, <1>4, <1>5, Zenon DEF Alike

---------------------------------------------------------------------------
(* The descent along a path.                                               *)

\* The entry e is the one with the key at: the root's, or one that is named.
At(at, e) ==
    \/ at = RootKey /\ e = RootDentry.data
    \/ \E d, j : /\ at = <<d, j>> /\ Listed(d, j) /\ at # RootKey
                 /\ Near(e, Card0[d][j + 1]) /\ Named(Card0[d][j + 1])

\* The working directory is the root or what a path has named.
PwdLed ==
    \/ pwd = RootKey
    \/ \E d, j : pwd = <<d, j>> /\ Listed(d, j) /\ pwd # RootKey /\ Named(Card0[d][j + 1])

\* The state of a descent that began with c.
DescentOk(c, s) ==
    /\ DOMAIN s = WalkFields
    /\ Goes(c, s.c, pwd)
    /\ s.at # Nowhere => At(s.at, s.dir)
    /\ s.at = RootKey => RootCached(s.c)

\* root_dentry is a directory and its key is the key of an entry.
LEMMA RootLeads == RootDentry.data.kind = "dir" /\ RootDentry.data.start = 2
BY Zenon DEF RootDentry

\* The root is somewhere.
LEMMA RootSomewhere == RootKey # Nowhere
<1>1. 0 # -1
    OBVIOUS
<1> QED
    BY <1>1 DEF RootKey, Nowhere

\* A key fixes what matters of its entry.
LEMMA AtFixes ==
    ASSUME NEW at, NEW e, NEW f, At(at, e), At(at, f)
    PROVE  e.kind = f.kind /\ (e.kind = "dir" => e.start = f.start)
<1>1. CASE at = RootKey
    BY <1>1 DEF At
<1>2. CASE at # RootKey
    <2>1. PICK d, j : at = <<d, j>> /\ Near(e, Card0[d][j + 1])
        BY <1>2 DEF At
    <2>2. PICK a, b : at = <<a, b>> /\ Near(f, Card0[a][b + 1])
        BY <1>2 DEF At
    <2>3. a = d /\ b = j
        BY <2>1, <2>2
    <2> QED
        BY <2>1, <2>2, <2>3 DEF Near, Begins
<1> QED
    BY <1>1, <1>2

\* A directory found leads to a directory.
LEMMA AtLeads ==
    ASSUME Layout, NEW at, NEW e, At(at, e)
    PROVE  /\ (e.kind = "dir" => e.start - 2 \in Dirs)
           /\ (e.kind = "file" => at # RootKey /\ e.start - 2 \notin Dirs)
<1>1. CASE at = RootKey
    <2>1. e.kind = "dir" /\ e.start = 2
        BY <1>1, RootLeads DEF At
    <2>2. e.start - 2 = 0
        BY <2>1
    <2>3. 0 \in Dirs
        BY DEF Layout
    <2> QED
        BY <2>1, <2>2, <2>3
<1>2. CASE at # RootKey
    <2>1. PICK d, j : /\ at = <<d, j>> /\ Listed(d, j)
                      /\ Near(e, Card0[d][j + 1]) /\ Named(Card0[d][j + 1])
        BY <1>2 DEF At
    <2>2. LedTo(Card0[d][j + 1])
        BY <2>1, DirectoriesLaidOut DEF Listed
    <2> QED
        BY <1>2, <2>1, <2>2 DEF LedTo, Near, Begins
<1> QED
    BY <1>1, <1>2

\* What a walk for a name of a path finds has its key.
LEMMA FoundAt ==
    ASSUME NEW at, NEW e, NEW name, Found(at, e, name), NEW p \in Path, name \in Elements(p.names)
    PROVE  At(at, e) /\ at # RootKey
<1>1. PICK d, j : /\ at = <<d, j>> /\ Listed(d, j) /\ at # RootKey
                  /\ Near(e, Card0[d][j + 1]) /\ e.name = name
    BY DEF Found
<1>2. Named(Card0[d][j + 1])
    BY <1>1 DEF Near, Named
<1> QED
    BY <1>1, <1>2 DEF At

\* Two descents along a path, through whatever the caches hold, find the same.
DescentsAlike(a, b) ==
    /\ DOMAIN a = WalkFields /\ DOMAIN b = WalkFields
    /\ CacheOk(a.c, pwd) /\ CacheOk(b.c, pwd)
    /\ a.at = b.at
    /\ a.at # Nowhere => At(a.at, a.dir) /\ At(a.at, b.dir)

\* One name of a path leads two descents to the same entry, and changes no
\* directory.
LEMMA DescendAlike ==
    ASSUME Layout, NEW a, NEW b, DescentsAlike(a, b), NEW p \in Path, NEW i \in DOMAIN p.names
    PROVE  DescentsAlike(Descend(a, p.names[i]), Descend(b, p.names[i]))
<1> DEFINE name == p.names[i]
           stop == a.at = Nowhere \/ a.dir.kind # "dir"
<1> SUFFICES DescentsAlike(Descend(a, name), Descend(b, name))
    OBVIOUS
<1>1. name \in Elements(p.names) /\ Proper(name)
    BY PathsLaidOut
<1> HIDE DEF name
<1>2. stop <=> b.at = Nowhere \/ b.dir.kind # "dir"
    BY AtFixes DEF DescentsAlike
<1>3. CASE stop
    <2> DEFINE x == [a EXCEPT !.at = Nowhere]
               y == [b EXCEPT !.at = Nowhere]
    <2>1. Descend(a, name) = x /\ Descend(b, name) = y
        BY <1>2, <1>3 DEF Descend
    <2>2. /\ DOMAIN x = WalkFields /\ x.c = a.c /\ x.at = Nowhere
          /\ DOMAIN y = WalkFields /\ y.c = b.c /\ y.at = Nowhere
        BY DEF DescentsAlike, WalkFields
    <2> HIDE DEF x, y
    <2> QED
        BY <2>1, <2>2 DEF DescentsAlike
<1>4. CASE ~stop
    <2> DEFINE x == Walk(a.c, a.dir.start, name)
               y == Walk(b.c, a.dir.start, name)
    <2>1. a.at # Nowhere /\ At(a.at, a.dir) /\ At(a.at, b.dir) /\ a.dir.kind = "dir"
        BY <1>4 DEF DescentsAlike
    <2>2. a.dir.start - 2 \in Dirs /\ b.dir.start = a.dir.start
        BY <2>1, AtLeads, AtFixes
    <2>3. Descend(a, name) = x /\ Descend(b, name) = y
        BY <1>2, <1>4, <2>2 DEF Descend
    <2>4. WalkAlike(x, y, pwd, pwd, name)
        BY <1>1, <2>2, WalksAlike DEF DescentsAlike
    <2> HIDE DEF x, y
    <2>5. x.at # Nowhere => At(x.at, x.dir) /\ At(x.at, y.dir)
        BY <1>1, <2>4, FoundAt DEF WalkAlike
    <2>6. DescentsAlike(x, y)
        BY <2>4, <2>5 DEF WalkAlike, DescentsAlike
    <2> QED
        BY <2>3, <2>6
<1> QED
    BY <1>3, <1>4

\* One name of a path leads on to an entry with its key.
LEMMA DescendKeeps ==
    ASSUME Layout, NEW c, NEW s, DescentOk(c, s), NEW p \in Path, NEW i \in DOMAIN p.names
    PROVE  DescentOk(c, Descend(s, p.names[i]))
<1> DEFINE name == p.names[i]
<1> SUFFICES DescentOk(c, Descend(s, name))
    OBVIOUS
<1>1. name \in Elements(p.names) /\ Proper(name)
    BY PathsLaidOut
<1> HIDE DEF name
<1>2. CacheOk(s.c, pwd)
    BY DEF DescentOk, Goes
<1>3. CASE s.at = Nowhere \/ s.dir.kind # "dir"
    <2> DEFINE x == [s EXCEPT !.at = Nowhere]
    <2>1. Descend(s, name) = x
        BY <1>3 DEF Descend
    <2>2. DOMAIN x = WalkFields /\ x.c = s.c /\ x.at = Nowhere
        BY DEF DescentOk, WalkFields
    <2> HIDE DEF x
    <2> QED
        BY <2>1, <2>2, RootSomewhere DEF DescentOk
<1>4. CASE ~(s.at = Nowhere \/ s.dir.kind # "dir")
    <2> DEFINE x == Walk(s.c, s.dir.start, name)
    <2>1. At(s.at, s.dir) /\ s.dir.start - 2 \in Dirs
        BY <1>4, AtLeads DEF DescentOk
    <2>2. Descend(s, name) = x
        BY <1>4 DEF Descend
    <2>3. WalkAlike(x, x, pwd, pwd, name) /\ Goes(s.c, x.c, pwd)
        BY <1>1, <1>2, <2>1, WalksAlike, WalkKeeps
    <2> HIDE DEF x
    <2>4. x.at # Nowhere => At(x.at, x.dir) /\ x.at # RootKey
        BY <1>1, <2>3, FoundAt DEF WalkAlike
    <2>5. Goes(c, x.c, pwd)
        BY <2>3, GoesTwice DEF DescentOk
    <2>6. DOMAIN x = WalkFields
        BY <2>3 DEF WalkAlike
    <2> QED
        BY <2>2, <2>4, <2>5, <2>6, RootSomewhere DEF DescentOk
<1> QED
    BY <1>3, <1>4

DescentStart(c, p) ==
    LET from == IF p.abs THEN RootKey ELSE pwd
    IN  [c |-> c, over |-> FALSE, at |-> from,
         dir |-> c.dents[Sole(DentryAt(c, from[1], from[2]))].data]

\* Both starts of a path, the root and the working directory, are in the cache.
LEMMA StartOk ==
    ASSUME Layout, NEW c, CacheOk(c, pwd), PwdLed, NEW p, Defined(c, p)
    PROVE  DescentOk(c, DescentStart(c, p)) /\ DescentStart(c, p).at # Nowhere
<1> DEFINE from == IF p.abs THEN RootKey ELSE pwd
           i == Sole(DentryAt(c, from[1], from[2]))
           e == c.dents[i]
           s == DescentStart(c, p)
<1>1. DOMAIN s = WalkFields /\ s.c = c /\ s.at = from /\ s.dir = e.data
    BY DEF DescentStart, WalkFields
<1>2. DentsOk(c, pwd) /\ ContentsOk(c)
    BY DEF CacheOk
<1>3. RootKey[1] = 0 /\ RootKey[2] = 0
    BY DEF RootKey
<1>4. \E k \in DOMAIN c.dents : c.dents[k].dir = from[1] /\ c.dents[k].off = from[2]
    <2>1. CASE p.abs
        <3>1. PICK k \in DOMAIN c.dents : c.dents[k].root
            BY <2>1 DEF Defined, RootCached
        <3>2. DentryOk(c, c.dents[k], pwd)
            BY <1>2 DEF DentsOk
        <3> QED
            BY <1>3, <2>1, <3>1, <3>2 DEF DentryOk
    <2>2. CASE ~p.abs
        BY <1>2, <2>2 DEF DentsOk
    <2> QED
        BY <2>1, <2>2
<1>5. i \in DOMAIN c.dents /\ e.dir = from[1] /\ e.off = from[2]
    BY <1>4 DEF Sole, DentryAt
<1>6. DentryOk(c, e, pwd)
    BY <1>2, <1>5 DEF DentsOk
<1>7. from = RootKey => e.root
    <2>1. CASE p.abs
        <3>1. PICK k \in DOMAIN c.dents : c.dents[k].root
            BY <2>1 DEF Defined, RootCached
        <3>2. DentryOk(c, c.dents[k], pwd)
            BY <1>2 DEF DentsOk
        <3>3. c.dents[k].dir = e.dir /\ c.dents[k].off = e.off
            BY <1>3, <1>5, <2>1, <3>1, <3>2 DEF DentryOk
        <3>4. k = i
            BY <1>2, <1>5, <3>3 DEF DentsOk
        <3> QED
            BY <3>1, <3>4
    <2>2. CASE ~p.abs
        BY <1>3, <1>5, <1>6, <2>2 DEF DentryOk
    <2> QED
        BY <2>1, <2>2
<1> HIDE DEF s, i
<1>8. At(from, e.data) /\ from # Nowhere /\ (from = RootKey => RootCached(c))
    <2>1. CASE from = RootKey
        <3>1. e.data = RootDentry.data /\ RootCached(c)
            BY <1>5, <1>6, <1>7, <2>1 DEF DentryOk, RootCached
        <3> QED
            BY <2>1, <3>1, RootSomewhere DEF At
    <2>2. CASE from # RootKey
        <3>1. PICK d, j : from = <<d, j>> /\ Listed(d, j) /\ Named(Card0[d][j + 1])
            BY <2>2 DEF PwdLed
        <3>2. e.dir = d /\ e.off = j
            BY <1>5, <3>1
        <3>3. ~e.root
            BY <1>6, <2>2, <3>1, <3>2 DEF DentryOk, RootKey
        <3>4. Near(e.data, Card0[d][j + 1])
            BY <1>2, <1>6, <3>1, <3>2, <3>3, FreshIsNear DEF DentryOk, ContentsOk, Listed
        <3> QED
            BY <2>2, <3>1, <3>4, ListedSomewhere DEF At
    <2> QED
        BY <2>1, <2>2
<1> HIDE DEF from, e
<1>9. DescentOk(c, s)
    BY <1>1, <1>8, GoesNowhere DEF DescentOk
<1> QED
    BY <1>1, <1>8, <1>9 DEF s

FindIs(c, p) ==
    Find(c, p) = Repeat(LAMBDA s, i : Descend(s, p.names[i]), DescentStart(c, p), Len(p.names))

\* fat32_find is a repetition of Descend.
LEMMA FindLoops == ASSUME NEW c, NEW p PROVE FindIs(c, p)
BY Zenon DEF FindIs, Find, DescentStart

\* fat32_find changes no directory, and what it finds is as the card has it.
LEMMA FindKeeps ==
    ASSUME Layout, NEW c, CacheOk(c, pwd), PwdLed, NEW p \in Path, Defined(c, p)
    PROVE  DescentOk(c, Find(c, p))
<1> DEFINE n == Len(p.names)
<1>1. n \in Nat /\ DOMAIN p.names = 1..n
    BY PathsLaidOut
<1>2. DescentOk(c, DescentStart(c, p))
    BY StartOk
<1>3. ASSUME NEW i \in 1..n, NEW s, DescentOk(c, s)
      PROVE  DescentOk(c, Descend(s, p.names[i]))
    BY <1>1, <1>3, DescendKeeps
<1>4. Find(c, p) = Repeat(LAMBDA s, i : Descend(s, p.names[i]), DescentStart(c, p), n)
    BY FindLoops, Zenon DEF FindIs
<1>5. Invariantly(LAMBDA s, i : Descend(s, p.names[i]), LAMBDA s : DescentOk(c, s),
                  DescentStart(c, p), n)
    BY <1>1, RepeatKeeps, Zenon
<1> QED
    BY <1>2, <1>3, <1>4, <1>5, Zenon DEF Invariantly

\* A path leads to the same entry again, whatever the caches dropped.
LEMMA FindsAlike ==
    ASSUME Layout, NEW a, NEW b, CacheOk(a, pwd), CacheOk(b, pwd), PwdLed,
           NEW p \in Path, Defined(a, p), Defined(b, p)
    PROVE  DescentsAlike(Find(a, p), Find(b, p))
<1> DEFINE n == Len(p.names)
<1>1. n \in Nat /\ DOMAIN p.names = 1..n
    BY PathsLaidOut
<1>2. DescentsAlike(DescentStart(a, p), DescentStart(b, p))
    <2>1. DescentOk(a, DescentStart(a, p)) /\ DescentOk(b, DescentStart(b, p))
        BY StartOk
    <2>2. DescentStart(a, p).at = DescentStart(b, p).at
        BY DEF DescentStart
    <2> QED
        BY <2>1, <2>2 DEF DescentOk, DescentsAlike, Goes
<1>3. ASSUME NEW i \in 1..n, NEW s, NEW t, DescentsAlike(s, t)
      PROVE  DescentsAlike(Descend(s, p.names[i]), Descend(t, p.names[i]))
    BY <1>1, <1>3, DescendAlike
<1>4. /\ Find(a, p) = Repeat(LAMBDA s, i : Descend(s, p.names[i]), DescentStart(a, p), n)
      /\ Find(b, p) = Repeat(LAMBDA s, i : Descend(s, p.names[i]), DescentStart(b, p), n)
    BY FindLoops, Zenon DEF FindIs
<1>5. Alike(LAMBDA s, i : Descend(s, p.names[i]), LAMBDA s, t : DescentsAlike(s, t),
            DescentStart(a, p), DescentStart(b, p), n)
    BY <1>1, RepeatAlike, Zenon
<1> QED
    BY <1>2, <1>3, <1>4, <1>5, Zenon DEF Alike

---------------------------------------------------------------------------
(* A page written; reading a file.                                         *)

\* An element replaced.
LEMMA Replaced ==
    ASSUME NEW s, IsSeq(s), NEW i \in DOMAIN s, NEW x
    PROVE  /\ IsSeq([s EXCEPT ![i] = x]) /\ Len([s EXCEPT ![i] = x]) = Len(s)
           /\ DOMAIN [s EXCEPT ![i] = x] = DOMAIN s
<1>1. PICK T : s \in Seq(T)
    BY DEF IsSeq
<1>2. s \in Seq(T \cup {x}) /\ i \in 1..Len(s)
    BY <1>1
<1>3. [s EXCEPT ![i] = x] \in Seq(T \cup {x}) /\ Len([s EXCEPT ![i] = x]) = Len(s)
    BY <1>2
<1> QED
    BY <1>3 DEF IsSeq

\* x is c with the page at i written.
Written(c, x, i) ==
    /\ DOMAIN x = CacheFields /\ x.card = c.card
    /\ IsSeq(x.pages) /\ Len(x.pages) = Len(c.pages) /\ DOMAIN x.pages = DOMAIN c.pages
    /\ \A k \in DOMAIN c.pages : k # i => x.pages[k] = c.pages[k]
    /\ DOMAIN x.pages[i] = PageFields /\ x.pages[i].clu = c.pages[i].clu
    /\ x.pages[i].dirty = TRUE

\* Only the cluster written changes.
LEMMA WrittenContent ==
    ASSUME NEW c, PagesOk(c), NEW i \in DOMAIN c.pages, NEW x, Written(c, x, i)
    PROVE  /\ PagesOk(x)
           /\ Content(x, c.pages[i].clu) = x.pages[i].data
           /\ \A n : n # c.pages[i].clu => Content(x, n) = Content(c, n)
<1>1. \A k \in DOMAIN x.pages : k \in DOMAIN c.pages /\ x.pages[k].clu = c.pages[k].clu
    BY DEF Written
<1>2. PagesOk(x)
    <2>1. ASSUME NEW k \in DOMAIN x.pages
          PROVE  /\ DOMAIN x.pages[k] = PageFields
                 /\ x.pages[k].dirty \in BOOLEAN
                 /\ (~x.pages[k].dirty /\ x.pages[k].clu \in Dirs
                        => x.pages[k].data = x.card[x.pages[k].clu])
        <3>1. CASE k = i
            BY <3>1 DEF Written
        <3>2. CASE k # i
            <4>1. x.pages[k] = c.pages[k] /\ x.card = c.card
                BY <1>1, <3>2 DEF Written
            <4> QED
                BY <1>1, <4>1 DEF PagesOk
        <3> QED
            BY <3>1, <3>2
    <2>2. \A k, l \in DOMAIN x.pages : x.pages[k].clu = x.pages[l].clu => k = l
        BY <1>1 DEF PagesOk
    <2> QED
        BY <2>1, <2>2 DEF PagesOk, Written
<1>3. Content(x, c.pages[i].clu) = x.pages[i].data
    <2>1. i \in DOMAIN x.pages /\ x.pages[i].clu = c.pages[i].clu
        BY DEF Written
    <2> QED
        BY <1>2, <2>1, ContentOfPage
<1>4. ASSUME NEW n, n # c.pages[i].clu
      PROVE  Content(x, n) = Content(c, n)
    <2>1. CASE \E k \in DOMAIN c.pages : c.pages[k].clu = n
        <3>1. PICK k \in DOMAIN c.pages : c.pages[k].clu = n
            BY <2>1
        <3>2. k \in DOMAIN x.pages /\ x.pages[k] = c.pages[k]
            BY <1>4, <3>1 DEF Written
        <3>3. Content(x, n) = x.pages[k].data
            BY <1>2, <3>1, <3>2, ContentOfPage
        <3>4. Content(c, n) = c.pages[k].data
            BY <3>1, ContentOfPage
        <3> QED
            BY <3>2, <3>3, <3>4
    <2>2. CASE ~\E k \in DOMAIN c.pages : c.pages[k].clu = n
        <3>1. \A k \in DOMAIN x.pages : x.pages[k].clu # n
            BY <1>1, <2>2
        <3>2. Content(x, n) = x.card[n] /\ Content(c, n) = c.card[n]
            BY <2>2, <3>1, ContentOfCard
        <3> QED
            BY <3>2 DEF Written
    <2> QED
        BY <2>1, <2>2
<1> QED
    BY <1>2, <1>3, <1>4

\* A page of a file written leaves the directories.
LEMMA SetPageKeeps ==
    ASSUME NEW c, NEW w, CacheOk(c, w), NEW n, n \notin Dirs, NEW data
    PROVE  Goes(c, SetPage(GetPage(c, n), n, data), w)
<1> DEFINE x == GetPage(c, n)
           i == Sole(PageAt(x, n))
           p == [x.pages[i] EXCEPT !.data = data, !.dirty = TRUE]
           y == SetPage(x, n, data)
<1>1. Kept(c, x) /\ 1 \in DOMAIN x.pages /\ x.pages[1].clu = n
    BY GetPageKeeps DEF CacheOk
<1>2. Goes(c, x, w)
    BY <1>1, CacheKept DEF Goes
<1>3. i \in DOMAIN x.pages /\ x.pages[i].clu = n
    BY <1>1 DEF Sole, PageAt
<1>4. y = [x EXCEPT !.pages[i].data = data, !.pages[i].dirty = TRUE]
    BY DEF SetPage
<1> HIDE DEF x, i, y
<1>5. PagesOk(x)
    BY <1>1 DEF Kept
<1>6. DOMAIN x = CacheFields /\ IsSeq(x.pages) /\ DOMAIN x.pages[i] = PageFields
    BY <1>3, <1>5 DEF PagesOk
<1>7. /\ DOMAIN y = CacheFields /\ y.card = x.card /\ y.dents = x.dents
      /\ y.pages = [x.pages EXCEPT ![i] = p]
    BY <1>3, <1>4, <1>6 DEF CacheFields
<1>8. DOMAIN p = PageFields /\ p.clu = n /\ p.dirty = TRUE
    BY <1>3, <1>6 DEF PageFields
<1> HIDE DEF p
<1>9. Written(x, y, i)
    BY <1>3, <1>6, <1>7, <1>8, Replaced DEF Written
<1>10. PagesOk(y) /\ \A m : m # n => Content(y, m) = Content(x, m)
    BY <1>3, <1>5, <1>9, WrittenContent
<1>11. Kept(x, y)
    BY <1>7, <1>10 DEF Kept
<1>12. Goes(x, y, w)
    BY <1>2, <1>11, CacheKept DEF Goes
<1> QED
    BY <1>2, <1>12, GoesTwice DEF x, y

\* A length in clusters.
LEMMA Clusters == ASSUME NEW n \in Nat PROVE n \div Unit + 1 \in Nat
BY MfsAssumption

\* The key of an entry that is not the root's.
Entry(f) == f # RootKey /\ \E d, j : f = <<d, j>> /\ Listed(d, j)

\* get_dentry of an entry that is not the root's leaves it at the head.
LEMMA EntryFetched ==
    ASSUME NEW c, CacheOk(c, pwd), NEW f, Entry(f)
    PROVE  LET x == GetDentry(c, f[1], f[2])
           IN  /\ Fetched(c, x, pwd, f[1], f[2]) /\ Goes(c, x, pwd)
               /\ Listed(f[1], f[2]) /\ ~x.dents[1].root
               /\ Near(x.dents[1].data, Card0[f[1]][f[2] + 1])
               /\ Fresh(x.dents[1].data, Content(x, f[1])[f[2] + 1])
<1> DEFINE x == GetDentry(c, f[1], f[2])
<1>1. PICK d, j : f = <<d, j>> /\ Listed(d, j)
    BY DEF Entry
<1>2. f[1] = d /\ f[2] = j
    BY <1>1
<1>3. Fetched(c, x, pwd, d, j)
    BY <1>1, <1>2, GetDentryKeeps
<1> HIDE DEF x
<1>4. ~(d = 0 /\ j = 0)
    BY <1>1 DEF Entry, RootKey
<1>5. ~x.dents[1].root /\ Near(x.dents[1].data, Card0[d][j + 1])
    BY <1>1, <1>3, <1>4, FetchedEntry
<1>6. DentryOk(x, x.dents[1], pwd)
    BY <1>3 DEF Fetched, CacheOk, DentsOk
<1>7. Fresh(x.dents[1].data, Content(x, d)[j + 1])
    BY <1>3, <1>5, <1>6 DEF DentryOk, Fetched
<1>8. Goes(c, x, pwd)
    BY <1>3 DEF Fetched, Goes
<1> QED
    BY <1>1, <1>2, <1>3, <1>5, <1>7, <1>8 DEF x

\* get_dentry of the entry at the head leaves it there.
LEMMA FetchedAgain ==
    ASSUME NEW c, NEW x, NEW w, NEW d, NEW j, Fetched(c, x, w, d, j)
    PROVE  GetDentry(x, d, j).dents[1] = x.dents[1]
<1>1. DentsOk(x, w) /\ 1 \in DOMAIN x.dents /\ x.dents[1].dir = d /\ x.dents[1].off = j
    BY DEF Fetched, CacheOk
<1>2. DentryAt(x, d, j) = {1}
    BY <1>1 DEF DentsOk, DentryAt
<1>3. Sole(DentryAt(x, d, j)) = 1
    BY <1>2 DEF Sole
<1>4. IsSeq(x.dents) /\ 1 \in 1..Len(x.dents)
    BY <1>1, SeqDomain DEF DentsOk
<1>5. GetDentry(x, d, j) = [x EXCEPT !.dents = ToHead(@, 1)]
    BY <1>2, <1>3 DEF GetDentry
<1>6. DOMAIN x = CacheFields
    BY DEF Fetched, CacheOk, PagesOk
<1>7. ToHead(x.dents, 1)[1] = x.dents[1]
    BY <1>4, HeadedPicks
<1>8. GetDentry(x, d, j).dents = ToHead(x.dents, 1)
    BY <1>5, <1>6 DEF CacheFields
<1> QED
    BY <1>7, <1>8

\* fat32_read changes no directory.
LEMMA ReadKeeps ==
    ASSUME NEW c, CacheOk(c, pwd), NEW f, Entry(f)
    PROVE  Goes(c, Read(c, f).c, pwd)
<1> DEFINE x == GetDentry(c, f[1], f[2])
           size == x.dents[1].data.size
           a == [c |-> x, clu |-> x.dents[1].data.start, buf |-> <<>>]
           n == size \div Unit + 1
<1>1. Goes(c, x, pwd) /\ size \in Nat
    BY EntryFetched DEF Near
<1>2. Read(c, f) = Repeat(LAMBDA s, i : ReadCluster(s, size, i), a, n)
    BY Zenon DEF Read
<1>3. a.c = x
    OBVIOUS
<1> HIDE DEF x, size, a
<1>4. n \in Nat
    BY <1>1, Clusters
<1> HIDE DEF n
<1>5. Goes(c, a.c, pwd)
    BY <1>1, <1>3
<1>6. ASSUME NEW i \in 1..n, NEW s, Goes(c, s.c, pwd)
      PROVE  Goes(c, ReadCluster(s, size, i).c, pwd)
    <2>1. CASE s.clu = End
        BY <1>6, <2>1 DEF ReadCluster
    <2>2. CASE s.clu # End
        <3> DEFINE y == GetPage(s.c, s.clu - 2)
        <3>1. ReadCluster(s, size, i).c = y
            BY <2>2 DEF ReadCluster
        <3>2. Kept(s.c, y)
            BY <1>6, GetPageKeeps DEF Goes, CacheOk
        <3> HIDE DEF y
        <3>3. Goes(s.c, y, pwd)
            BY <1>6, <3>2, CacheKept DEF Goes
        <3> QED
            BY <1>6, <3>1, <3>3, GoesTwice
    <2> QED
        BY <2>1, <2>2
<1>7. Invariantly(LAMBDA s, i : ReadCluster(s, size, i), LAMBDA s : Goes(c, s.c, pwd), a, n)
    BY <1>4, RepeatKeeps, Zenon
<1> QED
    BY <1>2, <1>5, <1>6, <1>7, Zenon DEF Invariantly

---------------------------------------------------------------------------
(* Writing a file.                                                         *)

\* The entry and the page at the heads of their caches, and nothing else, are
\* other ones in y: e and p.
HeadsAre(x, y, e, p) ==
    /\ DOMAIN y = CacheFields /\ y.card = x.card
    /\ y.pages = [x.pages EXCEPT ![1] = p]
    /\ y.dents = [x.dents EXCEPT ![1] = e]

\* x has the page of d and the entry j of it at the heads of the caches.
HeadsOf(x, d, j) ==
    /\ CacheOk(x, pwd) /\ Listed(d, j)
    /\ 1 \in DOMAIN x.pages /\ x.pages[1].clu = d
    /\ 1 \in DOMAIN x.dents /\ x.dents[1].dir = d /\ x.dents[1].off = j /\ ~x.dents[1].root

\* The page p of d is that of x but for the entry j, still the card's.
PageFits(x, d, j, p) ==
    /\ DOMAIN p = PageFields /\ p.clu = d /\ p.dirty = TRUE
    /\ IsSeq(p.data) /\ Len(p.data) = Len(Card0[d])
    /\ \A k \in DOMAIN Card0[d] : Like(p.data[k], Card0[d][k])
    /\ \A k \in DOMAIN Card0[d] : k # j + 1 => p.data[k] = x.pages[1].data[k]

\* The entry e is the one at the head with other data, as fresh as p.
EntryFits(x, j, p, e) ==
    /\ DOMAIN e = DentryFields /\ e.dir = x.dents[1].dir /\ e.off = x.dents[1].off
    /\ e.root = x.dents[1].root /\ e.spinned = x.dents[1].spinned
    /\ Fresh(e.data, p.data[j + 1])

\* An entry changed in its cache and in its page leaves the others.
LEMMA HeadsWritten ==
    ASSUME Layout, NEW x, NEW d, NEW j, HeadsOf(x, d, j), NEW p, PageFits(x, d, j, p),
           NEW e, EntryFits(x, j, p, e), NEW y, HeadsAre(x, y, e, p)
    PROVE  CacheOk(y, pwd)
<1>1. /\ PagesOk(x) /\ ContentsOk(x) /\ DentsOk(x, pwd) /\ Listed(d, j)
      /\ 1 \in DOMAIN x.pages /\ x.pages[1].clu = d
      /\ 1 \in DOMAIN x.dents /\ x.dents[1].dir = d /\ x.dents[1].off = j /\ ~x.dents[1].root
    BY DEF HeadsOf, CacheOk
<1>2. DentryOk(x, x.dents[1], pwd)
    BY <1>1 DEF DentsOk
<1>3. x.pages[1].data = Content(x, d)
    BY <1>1, ContentOfPage
<1>4. Written(x, y, 1)
    BY <1>1, Replaced DEF Written, PagesOk, HeadsAre, PageFits
<1>5. /\ PagesOk(y) /\ Content(y, d) = p.data
      /\ \A n : n # d => Content(y, n) = Content(x, n)
    <2>1. y.pages[1] = p
        BY <1>1 DEF HeadsAre
    <2> QED
        BY <1>1, <1>4, <2>1, WrittenContent
<1>6. ContentsOk(y)
    BY <1>1, <1>5 DEF ContentsOk, HeadsAre, PageFits
<1>7. ASSUME NEW k \in DOMAIN x.dents, k # 1
      PROVE  DentryOk(y, x.dents[k], pwd)
    <2> DEFINE z == x.dents[k]
    <2>1. DentryOk(x, z, pwd) /\ ~(z.dir = d /\ z.off = j)
        BY <1>1, <1>7 DEF DentsOk
    <2> HIDE DEF z
    <2>2. ~z.root => Content(y, z.dir)[z.off + 1] = Content(x, z.dir)[z.off + 1]
        <3>1. CASE z.dir = d /\ ~z.root
            <4>1. z.off \in Nat /\ z.off # j /\ j \in Nat /\ z.off + 1 \in DOMAIN Card0[d]
                BY <1>1, <2>1, <3>1 DEF DentryOk, Listed
            <4>2. z.off + 1 # j + 1
                BY <4>1
            <4> QED
                BY <1>3, <1>5, <3>1, <4>1, <4>2 DEF PageFits
        <3>2. CASE z.dir # d
            BY <1>5, <3>2
        <3> QED
            BY <3>1, <3>2
    <2>3. DentryOk(y, z, pwd)
        BY <2>1, <2>2 DEF DentryOk
    <2> QED
        BY <2>3 DEF z
<1>8. DentryOk(y, e, pwd)
    BY <1>1, <1>2, <1>5 DEF DentryOk, EntryFits
<1>9. /\ IsSeq(y.dents) /\ Len(y.dents) = Len(x.dents) /\ DOMAIN y.dents = DOMAIN x.dents
      /\ y.dents[1] = e /\ \A k \in DOMAIN x.dents : k # 1 => y.dents[k] = x.dents[k]
    BY <1>1, Replaced DEF DentsOk, HeadsAre
<1>10. \A k \in DOMAIN y.dents :
            /\ DentryOk(y, y.dents[k], pwd)
            /\ y.dents[k].dir = x.dents[k].dir /\ y.dents[k].off = x.dents[k].off
    BY <1>7, <1>8, <1>9 DEF EntryFits
<1>11. DentsOk(y, pwd)
    <2>1. \A k, l \in DOMAIN y.dents :
            y.dents[k].dir = y.dents[l].dir /\ y.dents[k].off = y.dents[l].off => k = l
        BY <1>1, <1>9, <1>10 DEF DentsOk
    <2>2. \E k \in DOMAIN y.dents : y.dents[k].dir = pwd[1] /\ y.dents[k].off = pwd[2]
        BY <1>1, <1>9, <1>10 DEF DentsOk
    <2> QED
        BY <1>1, <1>9, <1>10, <2>1, <2>2 DEF DentsOk
<1> QED
    BY <1>5, <1>6, <1>11 DEF CacheOk

\* What an update has at the heads before it changes them.
Fetch(c, f) == GetPage(GetDentry(c, f[1], f[2]), f[1])

\* The page of an entry and the entry, fetched to be changed.
LEMMA FetchKeeps ==
    ASSUME Layout, NEW c, CacheOk(c, pwd), NEW f, Entry(f), NEW x, x = Fetch(c, f)
    PROVE  /\ HeadsOf(x, f[1], f[2])
           /\ DOMAIN x = CacheFields /\ DOMAIN x.pages[1] = PageFields
           /\ DOMAIN x.dents[1] = DentryFields
           /\ IsSeq(x.pages[1].data) /\ Len(x.pages[1].data) = Len(Card0[f[1]])
           /\ DOMAIN x.pages[1].data = DOMAIN Card0[f[1]]
           /\ \A k \in DOMAIN Card0[f[1]] : Like(x.pages[1].data[k], Card0[f[1]][k])
           /\ Fresh(x.dents[1].data, x.pages[1].data[f[2] + 1])
           /\ x.dents[1].data = GetDentry(c, f[1], f[2]).dents[1].data
<1> DEFINE g == GetDentry(c, f[1], f[2])
           d == f[1]
           j == f[2]
           D == x.pages[1].data
<1>1. /\ Fetched(c, g, pwd, d, j) /\ Listed(d, j) /\ ~g.dents[1].root
      /\ Fresh(g.dents[1].data, Content(g, d)[j + 1])
    BY EntryFetched
<1>2. x = GetPage(g, d)
    BY DEF Fetch
<1> HIDE DEF g
<1>3. Kept(g, x) /\ 1 \in DOMAIN x.pages /\ x.pages[1].clu = d
    BY <1>1, <1>2, GetPageKeeps DEF Fetched, CacheOk
<1>4. CacheOk(x, pwd) /\ SameDirs(g, x) /\ x.dents = g.dents
    BY <1>1, <1>3, CacheKept DEF Fetched, Kept
<1> HIDE DEF d, j
<1>5. PagesOk(x) /\ ContentsOk(x) /\ DentsOk(x, pwd)
    BY <1>4 DEF CacheOk
<1>6. /\ 1 \in DOMAIN x.dents /\ x.dents[1].dir = d /\ x.dents[1].off = j /\ ~x.dents[1].root
      /\ DentryOk(x, x.dents[1], pwd) /\ Fresh(x.dents[1].data, Content(x, d)[j + 1])
    BY <1>1, <1>4, <1>5 DEF Fetched, DentsOk, SameDirs, Listed
<1>7. D = Content(x, d)
    BY <1>3, <1>5, ContentOfPage
<1>8. /\ IsSeq(D) /\ Len(D) = Len(Card0[d]) /\ \A k \in DOMAIN Card0[d] : Like(D[k], Card0[d][k])
    BY <1>1, <1>5, <1>7 DEF ContentsOk, Listed
<1>9. DOMAIN D = DOMAIN Card0[d]
    BY <1>1, <1>8, SeqDomain, DirectoriesLaidOut DEF Listed
<1>10. DOMAIN x = CacheFields /\ DOMAIN x.pages[1] = PageFields /\ DOMAIN x.dents[1] = DentryFields
    BY <1>3, <1>5, <1>6 DEF PagesOk, DentryOk
<1>11. HeadsOf(x, d, j)
    BY <1>1, <1>3, <1>4, <1>6 DEF HeadsOf
<1> QED
    BY <1>4, <1>6, <1>7, <1>8, <1>9, <1>10, <1>11 DEF d, j, g

\* An entry as fresh as its page stays so when both get the same size.
LEMMA SizedAlike ==
    ASSUME NEW e, NEW p, NEW e0, Fresh(e, p), Like(p, e0), NEW n \in Nat
    PROVE  /\ Fresh([e EXCEPT !.size = n], [p EXCEPT !.size = n])
           /\ Like([p EXCEPT !.size = n], e0)
<1>1. DOMAIN p = EntryFields
    BY DEF Like
<1>2. Like([p EXCEPT !.size = n], e0)
    BY <1>1 DEF Like, EntryFields
<1>3. CASE e = p
    BY <1>2, <1>3 DEF Fresh
<1>4. CASE e # p
    <2>1. /\ p.start = 0 /\ p.kind = "file" /\ e.start - 2 \notin Dirs
          /\ e = [p EXCEPT !.start = e.start]
        BY <1>4 DEF Fresh
    <2> DEFINE a == [e EXCEPT !.size = n]
               b == [p EXCEPT !.size = n]
    <2>2. DOMAIN e = EntryFields /\ e.name = p.name /\ e.kind = p.kind
        BY <1>1, <2>1 DEF EntryFields
    <2>3. a.start = e.start /\ b.start = 0 /\ b.kind = "file"
        BY <1>1, <2>1, <2>2 DEF EntryFields
    <2>4. a = [b EXCEPT !.start = e.start]
        BY <1>1, <2>1, <2>2 DEF EntryFields
    <2> HIDE DEF a, b
    <2>5. Fresh(a, b)
        BY <2>1, <2>3, <2>4 DEF Fresh
    <2> QED
        BY <1>2, <2>5 DEF a, b
<1> QED
    BY <1>2, <1>3, <1>4

\* The size of a file is set alike in its entry and in the page of its directory.
LEMMA UpdateSizeKeeps ==
    ASSUME Layout, NEW c, CacheOk(c, pwd), NEW f, Entry(f), NEW size \in Nat
    PROVE  CacheOk(UpdateSize(c, f, size), pwd)
<1> DEFINE x == Fetch(c, f)
           y == UpdateSize(c, f, size)
           d == f[1]
           j == f[2]
           new == size % 65536
           D == x.pages[1].data
           D2 == [D EXCEPT ![j + 1] = [D[j + 1] EXCEPT !.size = new]]
           p == [x.pages[1] EXCEPT !.dirty = TRUE, !.data = [D EXCEPT ![j + 1].size = new]]
           e == [x.dents[1] EXCEPT !.data.size = new]
<1>1. y = [x EXCEPT !.dents[1].data.size = new, !.pages[1].dirty = TRUE,
                    !.pages[1].data[j + 1].size = new]
    BY DEF UpdateSize, Fetch
<1>2. new \in Nat
    OBVIOUS
<1>3. /\ HeadsOf(x, d, j)
      /\ DOMAIN x = CacheFields /\ DOMAIN x.pages[1] = PageFields /\ DOMAIN x.dents[1] = DentryFields
      /\ IsSeq(D) /\ Len(D) = Len(Card0[d]) /\ DOMAIN D = DOMAIN Card0[d]
      /\ \A k \in DOMAIN Card0[d] : Like(D[k], Card0[d][k])
      /\ Fresh(x.dents[1].data, D[j + 1])
    BY FetchKeeps
<1> HIDE DEF x, y, new, d, j
<1>4. /\ 1 \in DOMAIN x.pages /\ x.pages[1].clu = d /\ 1 \in DOMAIN x.dents
      /\ j + 1 \in DOMAIN D
    BY <1>3 DEF HeadsOf, Listed
<1>5. DOMAIN D[j + 1] = EntryFields /\ DOMAIN x.dents[1].data = EntryFields
    BY <1>3, <1>4, FreshIsNear DEF Like, Near
<1>6. HeadsAre(x, y, e, p)
    BY <1>1, <1>3, <1>4, <1>5 DEF HeadsAre, CacheFields, PageFields, DentryFields
<1>7. DOMAIN p = PageFields /\ p.clu = d /\ p.dirty = TRUE /\ p.data = D2
    BY <1>3, <1>4 DEF PageFields
<1>8. /\ DOMAIN e = DentryFields /\ e.dir = x.dents[1].dir /\ e.off = x.dents[1].off
      /\ e.root = x.dents[1].root /\ e.spinned = x.dents[1].spinned
      /\ e.data = [x.dents[1].data EXCEPT !.size = new]
    BY <1>3 DEF DentryFields
<1>9. /\ IsSeq(D2) /\ Len(D2) = Len(Card0[d])
      /\ \A k \in DOMAIN D : k # j + 1 => D2[k] = D[k]
      /\ D2[j + 1] = [D[j + 1] EXCEPT !.size = new]
    BY <1>3, <1>4, Replaced
<1>10. Fresh(e.data, D2[j + 1]) /\ Like(D2[j + 1], Card0[d][j + 1])
    <2> HIDE DEF D, D2, p, e
    <2>1. Like(D[j + 1], Card0[d][j + 1]) /\ Fresh(x.dents[1].data, D[j + 1])
        BY <1>3, <1>4
    <2>2. /\ Fresh([x.dents[1].data EXCEPT !.size = new], [D[j + 1] EXCEPT !.size = new])
          /\ Like([D[j + 1] EXCEPT !.size = new], Card0[d][j + 1])
        BY <1>2, <2>1, SizedAlike
    <2> QED
        BY <1>8, <1>9, <2>2
<1> HIDE DEF D, D2, p, e
<1>11. PageFits(x, d, j, p)
    BY <1>3, <1>7, <1>9, <1>10 DEF PageFits, D
<1>12. EntryFits(x, j, p, e)
    BY <1>7, <1>8, <1>10 DEF EntryFits
<1> QED
    BY <1>3, <1>6, <1>11, <1>12, HeadsWritten DEF y

\* An empty file gets its first cluster in its entry.
LEMMA UpdateStartKeeps ==
    ASSUME Layout, NEW c, CacheOk(c, pwd), NEW f, Entry(f),
           GetDentry(c, f[1], f[2]).dents[1].data.start = 0,
           Card0[f[1]][f[2] + 1].kind = "file", NEW n, n - 2 \notin Dirs
    PROVE  CacheOk(UpdateStart(c, f, n), pwd)
<1> DEFINE x == Fetch(c, f)
           y == UpdateStart(c, f, n)
           d == f[1]
           j == f[2]
           D == x.pages[1].data
           p == [x.pages[1] EXCEPT !.dirty = TRUE]
           e == [x.dents[1] EXCEPT !.data.start = n]
<1>1. y = [x EXCEPT !.dents[1].data.start = n, !.pages[1].dirty = TRUE]
    BY DEF UpdateStart, Fetch
<1>2. /\ HeadsOf(x, d, j)
      /\ DOMAIN x = CacheFields /\ DOMAIN x.pages[1] = PageFields /\ DOMAIN x.dents[1] = DentryFields
      /\ IsSeq(D) /\ Len(D) = Len(Card0[d]) /\ DOMAIN D = DOMAIN Card0[d]
      /\ \A k \in DOMAIN Card0[d] : Like(D[k], Card0[d][k])
      /\ Fresh(x.dents[1].data, D[j + 1]) /\ x.dents[1].data.start = 0
    BY FetchKeeps
<1>3. Card0[d][j + 1].kind = "file"
    OBVIOUS
<1> HIDE DEF x, y, d, j
<1>4. /\ 1 \in DOMAIN x.pages /\ x.pages[1].clu = d /\ 1 \in DOMAIN x.dents
      /\ j + 1 \in DOMAIN Card0[d]
    BY <1>2 DEF HeadsOf, Listed
<1>5. HeadsAre(x, y, e, p)
    BY <1>1, <1>2, <1>4 DEF HeadsAre, CacheFields, PageFields, DentryFields
<1>6. DOMAIN p = PageFields /\ p.clu = d /\ p.dirty = TRUE /\ p.data = D
    BY <1>2, <1>4 DEF PageFields
<1>7. /\ DOMAIN e = DentryFields /\ e.dir = x.dents[1].dir /\ e.off = x.dents[1].off
      /\ e.root = x.dents[1].root /\ e.spinned = x.dents[1].spinned
      /\ e.data = [x.dents[1].data EXCEPT !.start = n]
    BY <1>2 DEF DentryFields
<1> DEFINE e1 == x.dents[1].data
           p1 == D[j + 1]
<1>8. Like(p1, Card0[d][j + 1]) /\ Near(e1, Card0[d][j + 1]) /\ Fresh(e1, p1) /\ e1.start = 0
    BY <1>2, <1>4, FreshIsNear
<1> HIDE DEF e1, p1
<1>9. /\ DOMAIN e1 = EntryFields /\ DOMAIN p1 = EntryFields /\ p1.start = 0 /\ p1.kind = "file"
    BY <1>3, <1>8 DEF Near, Like, Begins
<1>10. [e1 EXCEPT !.start = n] = [p1 EXCEPT !.start = n] /\ [p1 EXCEPT !.start = n].start = n
    BY <1>8, <1>9 DEF Fresh, EntryFields
<1>11. Fresh([e1 EXCEPT !.start = n], p1)
    BY <1>9, <1>10 DEF Fresh
<1>12. Fresh(e.data, p.data[j + 1])
    BY <1>6, <1>7, <1>11 DEF e1, p1
<1> HIDE DEF D, p, e
<1>13. PageFits(x, d, j, p)
    BY <1>2, <1>6 DEF PageFits, D
<1>14. EntryFits(x, j, p, e)
    BY <1>7, <1>12 DEF EntryFits
<1> QED
    BY <1>2, <1>5, <1>13, <1>14, HeadsWritten DEF y

\* The table has the clusters it had, none of a directory free.
FatOk(t) == DOMAIN t = DOMAIN Fat0 /\ \A d \in Dirs : t[d + 2] # 0

\* A cluster taken for a file and linked to another keeps it so.
LEMMA UpdateFATKeeps ==
    ASSUME Layout, NEW t, FatOk(t), NEW n, NEW next, next # 0
    PROVE  FatOk(UpdateFAT(t, n, next))
<1>1. DOMAIN UpdateFAT(t, n, next) = DOMAIN t
    BY DEF UpdateFAT
<1>2. \A k \in DOMAIN t : UpdateFAT(t, n, next)[k] \in {t[k], next}
    BY DEF UpdateFAT
<1>3. \A d \in Dirs : d + 2 \in DOMAIN t
    <2>1. \A d \in Dirs : \E k \in DOMAIN Fat0 : d = k - 2
        BY MfsAssumption DEF Layout
    <2>2. \A k \in DOMAIN Fat0 : k \in Int /\ k - 2 + 2 = k
        <3>1. \A k \in DOMAIN Fat0 : k \in 0..127
            BY MfsAssumption, Zenon
        <3> QED
            BY <3>1
    <2> QED
        BY <2>1, <2>2 DEF FatOk
<1> QED
    BY <1>1, <1>2, <1>3 DEF FatOk

\* A free cluster, when there is one, is no directory's.
LEMMA FreeCluIsFree ==
    ASSUME NEW t, FatOk(t), Free(t) # {}
    PROVE  FreeClu(t) # 0 /\ FreeClu(t) - 2 \notin Dirs
<1> DEFINE High == {n \in Free(t) : n >= Hint}
<1>1. Free(t) \in SUBSET (0..127) /\ 0..127 \in SUBSET Int /\ IsFiniteSet(0..127)
    <2>1. Free(t) \subseteq DOMAIN Fat0
        BY DEF Free, FatOk
    <2>2. DOMAIN Fat0 \subseteq 0..127
        BY MfsAssumption, Zenon
    <2>3. IsFiniteSet(0..127)
        <3>1. 0 \in Int /\ 127 \in Int
            OBVIOUS
        <3> QED
            BY <3>1, FS_Interval, Zenon
    <2>4. \A n \in 0..127 : n \in Int
        OBVIOUS
    <2> HIDE DEF High
    <2> QED
        BY <2>1, <2>2, <2>3, <2>4, Zenon
<1>2. ASSUME NEW S \in SUBSET Free(t), S # {}
      PROVE  Min(S) \in S
    <2>1. S \in SUBSET Int /\ IsFiniteSet(S)
        BY <1>1, FS_Subset
    <2>2. PICK m \in S : \A k \in S : m <= k
        BY <1>2, <2>1, LeastAndGreatest
    <2> QED
        BY <2>2 DEF Min
<1>3. FreeClu(t) \in Free(t)
    <2>1. CASE High # {}
        <3>1. Min(High) \in High
            BY <1>2, <2>1
        <3>2. FreeClu(t) = Min(High)
            BY <2>1 DEF FreeClu
        <3> QED
            BY <3>1, <3>2
    <2>2. CASE High = {}
        <3>1. FreeClu(t) = Min(Free(t))
            BY <2>2 DEF FreeClu
        <3> QED
            BY <1>2, <3>1
    <2> QED
        BY <2>1, <2>2
<1>4. FreeClu(t) \in Int /\ FreeClu(t) >= 2 /\ t[FreeClu(t)] = 0
    BY <1>1, <1>3 DEF Free
<1> HIDE DEF High
<1> DEFINE n == FreeClu(t)
<1>5. n \in Int /\ n >= 2 /\ t[n] = 0
    BY <1>4
<1> HIDE DEF n
<1>6. n # 0 /\ n - 2 + 2 = n
    BY <1>5
<1>7. n - 2 \notin Dirs
    BY <1>5, <1>6 DEF FatOk
<1> QED
    BY <1>6, <1>7 DEF n

WriteFields == {"c", "fat", "ok"}

\* The state of a write: no directory is damaged.
WriteOk(s) == DOMAIN s = WriteFields /\ CacheOk(s.c, pwd) /\ FatOk(s.fat)

\* A turn of the loop of fat32_write changes no directory.
LEMMA WriteClusterKeeps ==
    ASSUME Layout, NEW s, WriteOk(s), NEW clu, clu - 2 \notin Dirs,
           NEW size, NEW text, NEW i
    PROVE  WriteOk(WriteCluster(s, clu, size, text, i))
<1> DEFINE x == Cleared(s.c, clu, size, i)
           y == Copied(x, clu, text, i)
           new == FreeClu(s.fat)
           fat2 == UpdateFAT(UpdateFAT(s.fat, clu, new), new, End)
<1>1. Goes(s.c, x, pwd)
    BY SetPageKeeps, GoesNowhere DEF Cleared, WriteOk
<1> HIDE DEF x
<1>2. Goes(x, y, pwd)
    <2>1. \E data : y = SetPage(GetPage(x, clu - 2), clu - 2, data)
        BY DEF Copied
    <2> QED
        BY <1>1, <2>1, SetPageKeeps DEF Goes
<1>3. CacheOk(y, pwd)
    BY <1>2 DEF Goes
<1>4. \E ok : \/ WriteCluster(s, clu, size, text, i) \in {s, [s EXCEPT !.c = y, !.ok = ok]}
               \/ /\ Free(s.fat) # {}
                  /\ WriteCluster(s, clu, size, text, i) = [s EXCEPT !.c = y, !.fat = fat2]
    BY Zenon DEF WriteCluster, x
<1>5. Free(s.fat) # {} => FatOk(fat2)
    <2> SUFFICES ASSUME Free(s.fat) # {} PROVE FatOk(fat2)
        OBVIOUS
    <2>1. FatOk(s.fat) /\ new # 0 /\ End # 0
        BY FreeCluIsFree DEF WriteOk, End
    <2> HIDE DEF new
    <2>2. FatOk(UpdateFAT(s.fat, clu, new))
        BY <2>1, UpdateFATKeeps
    <2> QED
        BY <2>1, <2>2, UpdateFATKeeps
<1> HIDE DEF y, fat2
<1>6. PICK ok : \/ WriteCluster(s, clu, size, text, i) \in {s, [s EXCEPT !.c = y, !.ok = ok]}
                \/ /\ Free(s.fat) # {}
                   /\ WriteCluster(s, clu, size, text, i) = [s EXCEPT !.c = y, !.fat = fat2]
    BY <1>4
<1> QED
    BY <1>3, <1>5, <1>6 DEF WriteFields, WriteOk

\* The loop of fat32_write.
WriteLoop(a, clu, size, text, n) ==
    Repeat(LAMBDA s, k : WriteCluster(s, clu, size, text, k - 1), a, n)

\* From a state that has damaged no directory it comes to another.
LEMMA WriteLoopKeeps ==
    ASSUME Layout, NEW a, WriteOk(a), NEW clu, clu - 2 \notin Dirs, NEW size, NEW text, NEW n \in Nat
    PROVE  WriteOk(WriteLoop(a, clu, size, text, n))
<1>1. ASSUME NEW k \in 1..n, NEW s, WriteOk(s)
      PROVE  WriteOk(WriteCluster(s, clu, size, text, k - 1))
    BY <1>1, WriteClusterKeeps
<1>2. Invariantly(LAMBDA s, k : WriteCluster(s, clu, size, text, k - 1), WriteOk, a, n)
    BY RepeatKeeps, Zenon
<1> QED
    BY <1>1, <1>2, Zenon DEF Invariantly, WriteLoop

\* What fat32_write begins with: a file that has no cluster gets one.
LEMMA WriteBegins ==
    ASSUME Layout, NEW c, CacheOk(c, pwd), NEW t, FatOk(t), NEW f, Entry(f),
           Card0[f[1]][f[2] + 1].kind = "file",
           GetDentry(c, f[1], f[2]).dents[1].data.start = 0, Free(t) # {}, NEW x,
           x = UpdateStart(GetDentry(c, f[1], f[2]), f, FreeClu(t))
    PROVE  CacheOk(x, pwd)
<1> DEFINE g == GetDentry(c, f[1], f[2])
           n == FreeClu(t)
<1>1. Fetched(c, g, pwd, f[1], f[2]) /\ CacheOk(g, pwd) /\ g.dents[1].data.start = 0
    BY EntryFetched DEF Goes
<1>2. n - 2 \notin Dirs
    BY FreeCluIsFree
<1>3. GetDentry(g, f[1], f[2]).dents[1].data = g.dents[1].data
    BY <1>1, FetchedAgain
<1> HIDE DEF g, n
<1> QED
    BY <1>1, <1>2, <1>3, UpdateStartKeeps DEF g, n

\* fat32_write: but for the size and the start of the file, the directories
\* stay, and their clusters in the table.
LEMMA WriteKeeps ==
    ASSUME Layout, NEW c, CacheOk(c, pwd), FatOk(fat), NEW f, Entry(f),
           Card0[f[1]][f[2] + 1].kind = "file", Card0[f[1]][f[2] + 1].start - 2 \notin Dirs,
           NEW text \in Text
    PROVE  CacheOk(Write(c, fat, f, text).c, pwd) /\ FatOk(Write(c, fat, f, text).fat)
<1> DEFINE x == GetDentry(c, f[1], f[2])
           e == x.dents[1].data
           clu == IF e.start = 0 THEN FreeClu(fat) ELSE e.start
           a == IF e.start = 0
                THEN [c |-> UpdateStart(x, f, clu), fat |-> UpdateFAT(fat, clu, End), ok |-> TRUE]
                ELSE [c |-> x, fat |-> fat, ok |-> TRUE]
           n == Len(text) \div Unit + 1
           size == e.size
           done == Repeat(LAMBDA s, k : WriteCluster(s, clu, e.size, text, k - 1), a, n)
           end == WriteLoop(a, clu, size, text, n)
<1>1. /\ Goes(c, x, pwd) /\ CacheOk(x, pwd)
      /\ Begins(e.start, Card0[f[1]][f[2] + 1])
    BY EntryFetched DEF Near, Goes
<1>2. CASE e.start = 0 /\ Free(fat) = {}
    <2>1. Write(c, fat, f, text) = [c |-> x, fat |-> fat]
        BY <1>2, Zenon DEF Write
    <2> QED
        BY <1>1, <2>1
<1>3. CASE ~(e.start = 0 /\ Free(fat) = {})
    <2>1. Write(c, fat, f, text) =
            IF done.ok /\ Len(text) > e.size
            THEN [done EXCEPT !.c = UpdateSize(@, f, Len(text))] ELSE done
        BY <1>3, Zenon DEF Write
    <2>2. done = end
        BY Zenon DEF WriteLoop
    <2>3. Len(text) \in Nat
        <3>1. text \in Seq(Int)
            BY Zenon DEF Layout
        <3> QED
            BY <3>1
    <2>4. n \in Nat
        BY <2>3, Clusters
    <2>5. clu - 2 \notin Dirs /\ WriteOk(a)
        <3>1. CASE e.start = 0
            <4> DEFINE new == FreeClu(fat)
                       put == UpdateStart(x, f, new)
                       fat2 == UpdateFAT(fat, new, End)
            <4>1. CacheOk(put, pwd)
                BY <1>3, <3>1, WriteBegins
            <4>2. new - 2 \notin Dirs
                BY <1>3, <3>1, FreeCluIsFree
            <4>3. FatOk(fat2)
                <5>1. End # 0
                    BY DEF End
                <5> QED
                    BY <5>1, UpdateFATKeeps
            <4>4. a = [c |-> put, fat |-> fat2, ok |-> TRUE] /\ clu = new
                BY <3>1
            <4> HIDE DEF a, clu, new, put, fat2
            <4> QED
                BY <4>1, <4>2, <4>3, <4>4 DEF WriteOk, WriteFields
        <3>2. CASE e.start # 0
            <4>1. a = [c |-> x, fat |-> fat, ok |-> TRUE] /\ clu = e.start
                BY <3>2
            <4>2. e.start - 2 \notin Dirs
                BY <1>1 DEF Begins
            <4> HIDE DEF a, clu, e, x
            <4> QED
                BY <1>1, <4>1, <4>2 DEF WriteOk, WriteFields
        <3> QED
            BY <3>1, <3>2
    <2> HIDE DEF x, a, clu, n, size
    <2>6. WriteOk(end)
        BY <2>4, <2>5, WriteLoopKeeps
    <2> HIDE DEF end, done
    <2>7. CacheOk(UpdateSize(end.c, f, Len(text)), pwd)
        BY <2>3, <2>6, UpdateSizeKeeps DEF WriteOk
    <2> DEFINE sized == [end EXCEPT !.c = UpdateSize(@, f, Len(text))]
    <2>8. sized.c = UpdateSize(end.c, f, Len(text)) /\ sized.fat = end.fat
        BY <2>6 DEF WriteFields, WriteOk
    <2>9. Write(c, fat, f, text) = sized \/ Write(c, fat, f, text) = end
        BY <2>1, <2>2, Zenon
    <2> QED
        BY <2>6, <2>7, <2>8, <2>9 DEF WriteOk
<1> QED
    BY <1>2, <1>3

---------------------------------------------------------------------------
(* The commands.                                                           *)

\* The inductive invariant.
MfsInv == CacheOk(cache, pwd) /\ PwdLed /\ FatOk(fat)

\* A cache of one entry.
LEMMA SingleIsSeq ==
    ASSUME NEW x, NEW s, s = <<x>>
    PROVE  IsSeq(s) /\ Len(s) = 1 /\ DOMAIN s = {1} /\ s[1] = x
<1>1. s \in Seq({x}) /\ Len(s) = 1 /\ s[1] = x
    OBVIOUS
<1>2. IsSeq(s)
    BY <1>1, Zenon DEF IsSeq
<1>3. DOMAIN s = 1..1 /\ 1..1 = {1}
    BY <1>1, <1>2, SeqDomain
<1> QED
    BY <1>1, <1>2, <1>3

\* A function on 1..n is a sequence.
LEMMA TableIsSeq ==
    ASSUME NEW n \in Nat, NEW t, t = [i \in 1..n |-> t[i]]
    PROVE  IsSeq(t) /\ Len(t) = n /\ DOMAIN t = 1..n
<1> DEFINE T == {t[i] : i \in 1..n}
<1>1. \A i \in 1..n : t[i] \in T
    OBVIOUS
<1> HIDE DEF T
<1>2. t \in [1..n -> T]
    BY <1>1
<1>3. t \in Seq(T) /\ Len(t) = n
    BY <1>2
<1> QED
    BY <1>2, <1>3 DEF IsSeq

\* init_fat32 leaves the page of the root and its entry in the caches.
LEMMA InitMfsInv ==
    ASSUME Layout, Init
    PROVE  MfsInv
<1> DEFINE a == [card |-> Card0, pages |-> <<>>, dents |-> <<>>]
           b == GetPage(a, 0)
<1>1. cache = [b EXCEPT !.dents = <<RootDentry>>] /\ pwd = RootKey /\ fat = Fat0
    BY Zenon DEF Init
<1>2. DOMAIN a = CacheFields /\ a.card = Card0 /\ a.pages = <<>>
    BY DEF CacheFields
<1> HIDE DEF a
<1>3. Dirs \subseteq DOMAIN Card0
    BY Zenon DEF Layout
<1>4. PagesOk(a)
    <2>1. IsSeq(a.pages) /\ Len(a.pages) = 0 /\ DOMAIN a.pages = {}
        BY <1>2 DEF IsSeq
    <2> QED
        BY <1>2, <1>3, <2>1, CapacityAssumption DEF PagesOk
<1>5. \A n : Content(a, n) = Card0[n]
    BY <1>2, ContentOfCard
<1>6. ContentsOk(a)
    BY <1>2, <1>5, DirectoriesLaidOut DEF ContentsOk, Like
<1>7. Kept(a, b)
    BY <1>4, GetPageKeeps
<1> HIDE DEF b
<1>8. PagesOk(b) /\ ContentsOk(b)
    BY <1>6, <1>7, ContentsKept DEF Kept
<1>9. DOMAIN cache = CacheFields /\ cache.card = b.card /\ cache.pages = b.pages
      /\ cache.dents = <<RootDentry>>
    BY <1>1, <1>8 DEF PagesOk, CacheFields
<1>10. \A n : Content(cache, n) = Content(b, n)
    BY <1>9 DEF Content, PageAt
<1>11. PagesOk(cache) /\ ContentsOk(cache)
    BY <1>8, <1>9, <1>10 DEF PagesOk, ContentsOk
<1>12. /\ DOMAIN RootDentry = DentryFields /\ RootDentry.dir = 0 /\ RootDentry.off = 0
       /\ RootDentry.root = TRUE /\ RootDentry.spinned = TRUE
    BY Zenon DEF RootDentry, DentryFields
<1>13. pwd[1] = 0 /\ pwd[2] = 0
    BY <1>1 DEF RootKey
<1>14. DentryOk(cache, RootDentry, pwd)
    BY <1>12, <1>13 DEF DentryOk
<1>15. /\ IsSeq(cache.dents) /\ Len(cache.dents) = 1 /\ DOMAIN cache.dents = {1}
       /\ cache.dents[1] = RootDentry
    BY <1>9, SingleIsSeq
<1>16. DentsOk(cache, pwd)
    BY <1>12, <1>13, <1>14, <1>15, CapacityAssumption DEF DentsOk
<1>17. FatOk(fat)
    <2>1. \A d \in Dirs : Fat0[d + 2] # 0
        BY DEF Layout
    <2> QED
        BY <1>1, <2>1 DEF FatOk
<1> QED
    BY <1>1, <1>11, <1>16, <1>17 DEF MfsInv, CacheOk, PwdLed

\* What is found and is not the root is an entry.
LEMMA FoundEntry ==
    ASSUME NEW at, NEW e, At(at, e), at # RootKey
    PROVE  Entry(at)
BY DEF At, Entry

\* A file shown: a descent, a read and a flush.
LEMMA CatKeeps ==
    ASSUME Layout, MfsInv, NEW p \in Path, Cat(p)
    PROVE  MfsInv'
<1> DEFINE found == Find(cache, p)
           read == Read(found.c, found.at)
<1>1. /\ Defined(cache, p) /\ pwd' = pwd /\ fat' = fat
      /\ \/ found.at = Nowhere /\ cache' = found.c
         \/ found.at # Nowhere /\ found.at # RootKey /\ cache' = Fflush(read.c)
    BY DEF Cat
<1> HIDE DEF found
<1>2. DescentOk(cache, found)
    BY <1>1, FindKeeps DEF MfsInv, found
<1>3. CacheOk(cache', pwd)
    <2>1. CASE found.at = Nowhere /\ cache' = found.c
        BY <1>2, <2>1 DEF DescentOk, Goes
    <2>2. CASE found.at # Nowhere /\ found.at # RootKey /\ cache' = Fflush(read.c)
        <3>1. Entry(found.at)
            BY <1>2, <2>2, FoundEntry DEF DescentOk
        <3>2. CacheOk(read.c, pwd)
            BY <1>2, <3>1, ReadKeeps DEF DescentOk, Goes
        <3> QED
            BY <2>2, <3>2, FflushKeeps DEF Goes
    <2> QED
        BY <1>1, <2>1, <2>2
<1> QED
    BY <1>1, <1>3 DEF MfsInv, PwdLed

\* A file saved: what was loaded is what is found again, and a file.
LEMMA SaveKeeps ==
    ASSUME Layout, MfsInv, NEW p \in Path, NEW text \in Text, Save(p, text)
    PROVE  MfsInv'
<1> DEFINE found == Find(cache, p)
           read == Read(found.c, found.at)
           loaded == Fflush(read.c)
           again == Find(loaded, p)
           written == Write(again.c, fat, again.at, text)
<1>1. /\ Defined(cache, p) /\ found.at # Nowhere /\ found.dir.kind = "file" /\ Defined(loaded, p)
      /\ cache' = Fflush(written.c) /\ pwd' = pwd /\ fat' = written.fat
    BY DEF Save
<1> HIDE DEF found, again, written
<1>2. DescentOk(cache, found) /\ CacheOk(cache, pwd) /\ PwdLed
    BY <1>1, FindKeeps DEF MfsInv, found
<1>3. At(found.at, found.dir) /\ found.at # RootKey
    BY <1>1, <1>2, AtLeads DEF DescentOk
<1>4. Entry(found.at)
    BY <1>3, FoundEntry
<1>5. CacheOk(read.c, pwd)
    BY <1>2, <1>4, ReadKeeps DEF DescentOk, Goes
<1> HIDE DEF read
<1>6. CacheOk(loaded, pwd)
    BY <1>5, FflushKeeps DEF Goes
<1> HIDE DEF loaded
<1>7. DescentOk(loaded, again) /\ DescentsAlike(found, again)
    BY <1>1, <1>2, <1>6, FindKeeps, FindsAlike DEF found, again
<1>8. again.at = found.at /\ At(again.at, again.dir) /\ again.dir.kind = "file"
    BY <1>1, <1>3, <1>7, AtFixes DEF DescentsAlike
<1>9. /\ Card0[again.at[1]][again.at[2] + 1].kind = "file"
      /\ Card0[again.at[1]][again.at[2] + 1].start - 2 \notin Dirs
    <2>1. PICK d, j : /\ again.at = <<d, j>> /\ Listed(d, j)
                      /\ Near(again.dir, Card0[d][j + 1]) /\ Named(Card0[d][j + 1])
        BY <1>3, <1>8 DEF At
    <2>2. again.at[1] = d /\ again.at[2] = j
        BY <2>1
    <2>3. LedTo(Card0[d][j + 1])
        BY <2>1, DirectoriesLaidOut DEF Listed
    <2> QED
        BY <1>8, <2>1, <2>2, <2>3 DEF Near, LedTo
<1>10. CacheOk(again.c, pwd)
    BY <1>7 DEF DescentOk, Goes
<1>11. Entry(again.at)
    BY <1>4, <1>8
<1>12. CacheOk(written.c, pwd) /\ FatOk(written.fat)
    BY <1>9, <1>10, <1>11, WriteKeeps DEF written, MfsInv
<1>13. CacheOk(cache', pwd)
    BY <1>1, <1>12, FflushKeeps DEF Goes
<1> QED
    BY <1>1, <1>2, <1>12, <1>13 DEF MfsInv, PwdLed

\* The root listed.
LEMMA LsKeeps ==
    ASSUME Layout, MfsInv, Ls
    PROVE  MfsInv'
<1> DEFINE n == Len(Card0[0])
           start == [c |-> cache, over |-> FALSE]
<1>1. 0 \in Dirs /\ pwd' = pwd /\ fat' = fat /\ CacheOk(cache, pwd)
    BY Zenon DEF Layout, Ls, MfsInv
<1>2. n \in Nat /\ \A j \in 1..n : Listed(0, j - 1)
    <2>1. n \in Nat /\ DOMAIN Card0[0] = 1..n
        BY <1>1, DirectoriesLaidOut
    <2> QED
        BY <1>1, <2>1 DEF Listed
<1>3. Len(cache.card[0]) = n
    BY <1>1 DEF CacheOk, ContentsOk
<1> HIDE DEF n
<1>4. cache' = Repeat(LAMBDA s, j : ListEntry(s, 0, j - 1), start, n).c
    BY <1>3, Zenon DEF Ls
<1>5. Goes(cache, start.c, pwd)
    BY <1>1, GoesNowhere
<1> HIDE DEF start
<1>6. ASSUME NEW j \in 1..n, NEW s, Goes(cache, s.c, pwd)
      PROVE  Goes(cache, ListEntry(s, 0, j - 1).c, pwd)
    <2>1. Goes(s.c, ListEntry(s, 0, j - 1).c, pwd)
        BY <1>2, <1>6, ExamineKeeps DEF Goes
    <2> QED
        BY <1>6, <2>1, GoesTwice
<1>7. Invariantly(LAMBDA s, j : ListEntry(s, 0, j - 1), LAMBDA s : Goes(cache, s.c, pwd),
                  start, n)
    BY <1>2, RepeatKeeps, Zenon
<1>8. Goes(cache, cache', pwd)
    BY <1>4, <1>5, <1>6, <1>7, Zenon DEF Invariantly
<1> QED
    BY <1>1, <1>8 DEF MfsInv, Goes, PwdLed

\* The new working directory is spinned and the old one no longer.
LEMMA SpinKeeps ==
    ASSUME NEW c, NEW v, CacheOk(c, v), NEW w, NEW x, NEW old, 1 \in DOMAIN c.dents,
           c.dents[1].dir = w[1], c.dents[1].off = w[2], old \in DOMAIN c.dents,
           c.dents[old].dir = v[1], c.dents[old].off = v[2],
           w[1] = 0 /\ w[2] = 0 => c.dents[1].root,
           x = [c EXCEPT !.dents = Spinned(@, old)]
    PROVE  CacheOk(x, w)
<1> DEFINE s == c.dents
           t == Spinned(s, old)
<1>1. PagesOk(c) /\ ContentsOk(c) /\ DentsOk(c, v) /\ DOMAIN c = CacheFields
    BY DEF CacheOk, PagesOk
<1>2. DOMAIN x = CacheFields /\ x.card = c.card /\ x.pages = c.pages /\ x.dents = t
    BY <1>1 DEF CacheFields
<1>3. \A n : Content(x, n) = Content(c, n)
    BY <1>2 DEF Content, PageAt
<1>4. PagesOk(x) /\ ContentsOk(x)
    BY <1>1, <1>2, <1>3 DEF PagesOk, ContentsOk
<1>5. IsSeq(t) /\ Len(t) = Len(s) /\ DOMAIN t = DOMAIN s
    <2>1. Len(s) \in Nat /\ DOMAIN s = 1..Len(s)
        BY <1>1, SeqDomain DEF DentsOk
    <2>2. t = [i \in 1..Len(s) |-> t[i]]
        BY <2>1 DEF Spinned
    <2> HIDE DEF t
    <2> QED
        BY <2>1, <2>2, TableIsSeq
<1>6. ASSUME NEW i \in DOMAIN s
      PROVE  /\ DOMAIN t[i] = DentryFields /\ t[i].dir = s[i].dir /\ t[i].off = s[i].off
             /\ t[i].data = s[i].data /\ t[i].root = s[i].root
             /\ t[i].spinned \in BOOLEAN /\ (t[i].spinned <=> i = 1)
    <2>1. DentryOk(c, s[i], v) /\ DOMAIN s[i] = DentryFields
        BY <1>1 DEF DentsOk, DentryOk
    <2>2. s[i].spinned \in BOOLEAN /\ (s[i].spinned <=> i = old)
        BY <1>1, <2>1 DEF DentryOk, DentsOk
    <2>3. t[i] = [s[i] EXCEPT !.spinned = IF i = 1 THEN TRUE ELSE @ /\ i # old]
        BY DEF Spinned
    <2> HIDE DEF t
    <2>4. /\ DOMAIN t[i] = DentryFields /\ t[i].dir = s[i].dir /\ t[i].off = s[i].off
          /\ t[i].data = s[i].data /\ t[i].root = s[i].root
        BY <2>1, <2>3 DEF DentryFields
    <2>5. t[i].spinned = IF i = 1 THEN TRUE ELSE s[i].spinned /\ i # old
        BY <2>1, <2>3 DEF DentryFields
    <2> QED
        BY <2>2, <2>4, <2>5
<1> HIDE DEF t
<1>7. ASSUME NEW i \in DOMAIN t
      PROVE  DentryOk(x, t[i], w)
    <2>1. DentryOk(c, s[i], v)
        BY <1>1, <1>5 DEF DentsOk
    <2>2. t[i].dir = w[1] /\ t[i].off = w[2] <=> i = 1
        BY <1>1, <1>5, <1>6 DEF DentsOk
    <2>3. t[i].spinned /\ t[i].dir = 0 /\ t[i].off = 0 => t[i].root
        BY <1>5, <1>6, <2>2
    <2> QED
        BY <1>3, <1>5, <1>6, <2>1, <2>2, <2>3 DEF DentryOk
<1>8. DentsOk(x, w)
    <2>1. \A i, j \in DOMAIN t : t[i].dir = t[j].dir /\ t[i].off = t[j].off => i = j
        BY <1>1, <1>5, <1>6 DEF DentsOk
    <2>2. t[1].dir = w[1] /\ t[1].off = w[2] /\ 1 \in DOMAIN t
        BY <1>5, <1>6
    <2>3. Len(t) <= Capacity
        BY <1>1, <1>5 DEF DentsOk
    <2> QED
        BY <1>2, <1>5, <1>7, <2>1, <2>2, <2>3 DEF DentsOk
<1> QED
    BY <1>4, <1>8 DEF CacheOk

\* The entry found is in the cache when it is spinned.
LEMMA CdKeeps ==
    ASSUME Layout, MfsInv, NEW p \in Path, Cd(p)
    PROVE  MfsInv'
<1> DEFINE found == Find(cache, p)
           c == GetDentry(found.c, found.at[1], found.at[2])
           old == Sole(DentryAt(c, pwd[1], pwd[2]))
           x == [c EXCEPT !.dents = Spinned(@, old)]
<1>1. /\ Defined(cache, p) /\ fat' = fat
      /\ \/ found.at = Nowhere /\ cache' = found.c /\ pwd' = pwd
         \/ found.at # Nowhere /\ cache' = x /\ pwd' = found.at
    BY DEF Cd
<1> HIDE DEF found, x
<1>2. DescentOk(cache, found)
    BY <1>1, FindKeeps DEF MfsInv, found
<1>3. CASE found.at = Nowhere /\ cache' = found.c /\ pwd' = pwd
    BY <1>1, <1>2, <1>3 DEF DescentOk, Goes, MfsInv, PwdLed
<1>4. CASE found.at # Nowhere /\ cache' = x /\ pwd' = found.at
    <2> DEFINE w == found.at
    <2>1. At(w, found.dir) /\ CacheOk(found.c, pwd) /\ (w = RootKey => RootCached(found.c))
        BY <1>2, <1>4 DEF DescentOk, Goes
    <2>2. PwdLed'
        BY <1>4, <2>1 DEF At, PwdLed
    <2>3. Listed(w[1], w[2]) /\ (w[1] = 0 /\ w[2] = 0 => w = RootKey)
        <3>1. CASE w = RootKey
            <4>1. Len(Card0[0]) > 0 /\ 0 \in Dirs
                <5>1. 0 \in Dirs /\ Card0[0] # <<>>
                    BY Zenon DEF Layout
                <5>2. IsSeq(Card0[0])
                    BY <5>1, DirectoriesLaidOut
                <5> QED
                    BY <5>1, <5>2 DEF IsSeq
            <4>2. w[1] = 0 /\ w[2] = 0 /\ 0 + 1 \in DOMAIN Card0[0]
                BY <3>1, <4>1, DirectoriesLaidOut DEF RootKey
            <4> QED
                BY <3>1, <4>1, <4>2 DEF Listed
        <3>2. CASE w # RootKey
            <4>1. PICK d, j : w = <<d, j>> /\ Listed(d, j)
                BY <2>1, <3>2 DEF At
            <4> QED
                BY <4>1, <3>2 DEF RootKey
        <3> QED
            BY <3>1, <3>2
    <2>4. Fetched(found.c, c, pwd, w[1], w[2])
        BY <2>1, <2>3, GetDentryKeeps
    <2> HIDE DEF c, w
    <2>5. /\ CacheOk(c, pwd) /\ 1 \in DOMAIN c.dents
          /\ c.dents[1].dir = w[1] /\ c.dents[1].off = w[2]
          /\ (w[1] = 0 /\ w[2] = 0 => c.dents[1].root)
        BY <2>1, <2>3, <2>4 DEF Fetched
    <2>6. old \in DOMAIN c.dents /\ c.dents[old].dir = pwd[1] /\ c.dents[old].off = pwd[2]
        <3>1. DentryAt(c, pwd[1], pwd[2]) # {}
            BY <2>5 DEF CacheOk, DentsOk, DentryAt
        <3> QED
            BY <3>1 DEF Sole, DentryAt
    <2> HIDE DEF old
    <2>7. CacheOk(x, w)
        BY <2>5, <2>6, SpinKeeps DEF x
    <2> QED
        BY <1>1, <1>4, <2>2, <2>7 DEF MfsInv, w
<1> QED
    BY <1>1, <1>3, <1>4

\* The caches are well formed and agree with the card and with pwd: what no
\* command breaks, whatever it makes the caches drop.
THEOREM MfsInvariant ==
    ASSUME Layout
    PROVE  Spec => []MfsInv
<1>1. Init => MfsInv
    BY InitMfsInv
<1>2. MfsInv /\ [Next]_vars => MfsInv'
    <2> SUFFICES ASSUME MfsInv, [Next]_vars
                 PROVE  MfsInv'
        OBVIOUS
    <2>1. ASSUME NEW p \in Path, Cat(p)
          PROVE  MfsInv'
        BY <2>1, CatKeeps
    <2>2. ASSUME NEW p \in Path, NEW text \in Text, Save(p, text)
          PROVE  MfsInv'
        BY <2>2, SaveKeeps
    <2>3. CASE Ls
        BY <2>3, LsKeeps
    <2>4. ASSUME NEW p \in Path, Cd(p)
          PROVE  MfsInv'
        BY <2>4, CdKeeps
    <2>5. CASE UNCHANGED vars
        BY <2>5 DEF vars, MfsInv, PwdLed
    <2> QED
        BY <2>1, <2>2, <2>3, <2>4, <2>5 DEF Next
<1> QED
    BY <1>1, <1>2, PTL DEF Spec

\* What the runs check follows.
LEMMA DentriesFreshOfInv == ASSUME MfsInv PROVE DentriesFresh
<1>1. ASSUME NEW i \in DOMAIN cache.dents, ~cache.dents[i].root
      PROVE  LET e == cache.dents[i]
             IN  \/ e.data = InPage(e)
                 \/ /\ InPage(e).start = 0 /\ InPage(e).kind = "file"
                    /\ e.data = [InPage(e) EXCEPT !.start = e.data.start]
    <2> DEFINE e == cache.dents[i]
    <2>1. DentryOk(cache, e, pwd)
        BY DEF MfsInv, CacheOk, DentsOk
    <2>2. InPage(e) = Content(cache, e.dir)[e.off + 1]
        BY Zenon DEF InPage, Content
    <2>3. Fresh(e.data, InPage(e))
        BY <1>1, <2>1, <2>2 DEF DentryOk
    <2> HIDE DEF e
    <2> QED
        BY <2>3 DEF Fresh, e
<1> QED
    BY <1>1, Zenon DEF DentriesFresh

LEMMA PwdPinnedOfInv == ASSUME MfsInv PROVE PwdPinned
<1>1. DentsOk(cache, pwd) /\ PagesOk(cache) /\ PwdLed
    BY DEF MfsInv, CacheOk
<1>2. pwd = <<pwd[1], pwd[2]>>
    BY <1>1 DEF PwdLed, RootKey
<1>3. ASSUME NEW i \in DOMAIN cache.dents
      PROVE  cache.dents[i].spinned <=> <<cache.dents[i].dir, cache.dents[i].off>> = pwd
    <2>1. DentryOk(cache, cache.dents[i], pwd)
        BY <1>1 DEF DentsOk
    <2>2. cache.dents[i].spinned <=> cache.dents[i].dir = pwd[1] /\ cache.dents[i].off = pwd[2]
        BY <2>1 DEF DentryOk
    <2> QED
        BY <1>2, <2>2
<1>4. Cardinality(DentryAt(cache, pwd[1], pwd[2])) = 1
    <2>1. PICK i \in DOMAIN cache.dents :
                cache.dents[i].dir = pwd[1] /\ cache.dents[i].off = pwd[2]
        BY <1>1 DEF DentsOk
    <2>2. DentryAt(cache, pwd[1], pwd[2]) = {i}
        BY <1>1, <2>1 DEF DentsOk, DentryAt
    <2> QED
        BY <2>2, FS_Singleton
<1> QED
    BY <1>1, <1>3, <1>4 DEF PwdPinned, DentsOk, PagesOk

\* No command goes by an entry that is older than its page (fat32cache.c), for
\* any size of the caches, any card laid out like that, any paths and texts.
THEOREM DentriesFreshAlways ==
    ASSUME Layout
    PROVE  Spec => []DentriesFresh
BY MfsInvariant, DentriesFreshOfInv, PTL

\* dcache_drop never drops the entry of the working directory, for as many.
THEOREM PwdPinnedAlways ==
    ASSUME Layout
    PROVE  Spec => []PwdPinned
BY MfsInvariant, PwdPinnedOfInv, PTL
=============================================================================
