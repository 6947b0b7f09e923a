------------------------------ MODULE VmProofs ------------------------------
(***************************************************************************)
(* The areas of an address space, Vm.tla, for any number of pages and      *)
(* addresses.  The list that starts at mmap ends, holds each allocated     *)
(* area at most once and is ordered by the starts of its areas; that order *)
(* is what find_vma rests on when it stops at the first area that ends     *)
(* behind an address.                                                      *)
(***************************************************************************)
EXTENDS Vm, QueuesTheorems, SequenceTheorems

---------------------------------------------------------------------------
(* The list in memory and the sequence of its areas.                       *)

Link == Page \cup {NULL}
Most == Cardinality(Page)

AreaRecord == [vm_start : Int, vm_end : Int, vm_next : Link]

\* The pointer that a loop from first, in the memory ar, follows when it has
\* been at the areas s, and what it has been at after that.
Ahead(ar, first, s) == IF s = <<>> THEN first ELSE ar[s[Len(s)]].vm_next
Round(ar, first, s) ==
    IF Ahead(ar, first, s) = NULL THEN s ELSE Append(s, Ahead(ar, first, s))

MetIn(ar, first) ==
    CHOOSE f : f = [n \in 0..Most |->
                      IF n = 0 THEN <<>> ELSE Round(ar, first, f[n - 1])]

LEMMA MostIsNat == Most \in Nat
BY VmAssumption, FS_CardinalityType DEF Most

LEMMA AreasAreMet ==
    /\ Areas = MetIn(area, mm.mmap)[Most]
    /\ Areas' = MetIn(area', mm'.mmap)[Most]
<1>1. Met = MetIn(area, mm.mmap)
    BY Zenon DEF Met, MetIn, Most, Round, Ahead
<1>2. Met' = MetIn(area', mm'.mmap)
    BY Zenon DEF Met, MetIn, Most, Round, Ahead
<1> QED
    BY <1>1, <1>2 DEF Areas, Most

LEMMA RoundIsSeq ==
    ASSUME NEW ar \in [Page -> AreaRecord], NEW first \in Link, NEW s \in Seq(Page)
    PROVE  Round(ar, first, s) \in Seq(Page)
<1>1. Ahead(ar, first, s) \in Link
    BY DEF Ahead, AreaRecord, Link
<1> QED
    BY <1>1 DEF Round, Link

\* The recursion of Met defines a function.
LEMMA MetUnfolds ==
    ASSUME NEW ar \in [Page -> AreaRecord], NEW first \in Link
    PROVE  /\ MetIn(ar, first)[0] = <<>>
           /\ \A n \in 1..Most :
                MetIn(ar, first)[n] = Round(ar, first, MetIn(ar, first)[n - 1])
<1> DEFINE step == [s \in Seq(Page) |-> Round(ar, first, s)]
           Body(f) == [n \in 0..Most |->
                         IF n = 0 THEN <<>> ELSE Round(ar, first, f[n - 1])]
<1>1. step \in [Seq(Page) -> Seq(Page)]
    BY RoundIsSeq
<1>2. <<>> \in Seq(Page)
    OBVIOUS
<1>3. PICK f \in [0..Most -> Seq(Page)] :
        f[0] = <<>> /\ \A n \in 1..Most : f[n] = step[f[n-1]]
    <2> DEFINE S == Seq(Page)
               none == <<>>
    <2>1. step \in [S -> S] /\ none \in S
        BY <1>1, <1>2
    <2> HIDE DEF step, S, none
    <2>2. \E f : Iterates(S, none, step, Most, f)
        BY <2>1, MostIsNat, Iteration
    <2> QED
        BY <2>2, Zenon DEF S, none, Iterates
<1>4. ASSUME NEW n \in 1..Most
      PROVE  f[n] = Round(ar, first, f[n-1])
    <2>1. f[n-1] \in Seq(Page)
        BY <1>3, MostIsNat
    <2> QED
        BY <1>3, <2>1
<1>5. f = Body(f)
    BY <1>3, <1>4, MostIsNat
<1>6. MetIn(ar, first) = Body(MetIn(ar, first))
    BY <1>5, Zenon DEF MetIn
<1>7. \A n \in 0..Most : MetIn(ar, first)[n] = Body(MetIn(ar, first))[n]
    BY <1>6, Zenon
<1> QED
    BY <1>7, MostIsNat

\* The areas s are those of the list that starts at first in the memory ar.
Chain(ar, first, s) ==
    /\ s \in Seq(Page) /\ IsInjective(s)
    /\ \A k \in 0..Len(s) :
        (IF k = 0 THEN first ELSE ar[s[k]].vm_next)
            = IF k < Len(s) THEN s[k + 1] ELSE NULL

LEMMA ChainIsShort ==
    ASSUME NEW s \in Seq(Page), IsInjective(s)
    PROVE  Len(s) <= Most
<1>1. Len(s) \in Nat /\ DOMAIN s = 1..Len(s) /\ s \in [1..Len(s) -> Page]
    OBVIOUS
<1>2. s \in Injection(1..Len(s), Page)
    BY <1>1 DEF Injection
<1>3. IsFiniteSet(Page)
    BY VmAssumption
<1>4. Cardinality(1..Len(s)) <= Cardinality(Page)
    BY <1>2, <1>3, FS_Injection
<1>5. Cardinality(1..Len(s)) = Len(s)
    BY <1>1, FS_Interval
<1> QED
    BY <1>4, <1>5 DEF Most

LEMMA PrefixGrows ==
    ASSUME NEW s \in Seq(Page), NEW k \in 0..Len(s)
    PROVE  /\ SubSeq(s, 1, k) \in Seq(Page) /\ Len(SubSeq(s, 1, k)) = k
           /\ \A i \in 1..k : SubSeq(s, 1, k)[i] = s[i]
           /\ k < Len(s) => Append(SubSeq(s, 1, k), s[k + 1]) = SubSeq(s, 1, k + 1)
<1>1. Len(s) \in Nat /\ \A i \in 1..Len(s) : s[i] \in Page
    OBVIOUS
<1>2. /\ SubSeq(s, 1, k) \in Seq(Page) /\ Len(SubSeq(s, 1, k)) = k
      /\ \A i \in 1..k : SubSeq(s, 1, k)[i] = s[i]
    BY <1>1, SubSeqProperties
<1>3. ASSUME k < Len(s)
      PROVE  Append(SubSeq(s, 1, k), s[k + 1]) = SubSeq(s, 1, k + 1)
    <2> DEFINE a == Append(SubSeq(s, 1, k), s[k + 1])
               b == SubSeq(s, 1, k + 1)
    <2>1. b \in Seq(Page) /\ Len(b) = k + 1 /\ \A i \in 1..k+1 : b[i] = s[i]
        BY <1>1, <1>3, SubSeqProperties
    <2>2. /\ a \in Seq(Page) /\ Len(a) = k + 1 /\ a[k + 1] = s[k + 1]
          /\ \A i \in 1..k : a[i] = s[i]
        BY <1>1, <1>2, <1>3, AppendProperties
    <2> HIDE DEF a, b
    <2>3. \A i \in 1..Len(a) : a[i] = b[i]
        BY <2>1, <2>2
    <2>4. a = b
        BY <2>1, <2>2, <2>3, SeqEqual
    <2> QED
        BY <2>4 DEF a, b
<1> QED
    BY <1>2, <1>3

\* A loop over the list comes to its areas, and to no others.
LEMMA ChainIsMet ==
    ASSUME NEW ar \in [Page -> AreaRecord], NEW first \in Link, NEW s,
           Chain(ar, first, s)
    PROVE  MetIn(ar, first)[Most] = s
<1> DEFINE Got(n) == MetIn(ar, first)[n]
           Upto(n) == SubSeq(s, 1, IF n < Len(s) THEN n ELSE Len(s))
           Right == {n \in 0..Most : Got(n) = Upto(n)}
<1>1. s \in Seq(Page) /\ IsInjective(s) /\ Len(s) \in Nat
    BY DEF Chain
<1>2. 0 \in Right
    <2>1. SubSeq(s, 1, 0) = <<>>
        BY <1>1, SubSeqEmpty
    <2>2. Upto(0) = SubSeq(s, 1, 0)
        BY <1>1
    <2>3. Got(0) = <<>>
        BY MetUnfolds
    <2>4. Got(0) = Upto(0)
        BY <2>1, <2>2, <2>3, Zenon
    <2> HIDE DEF Got, Upto
    <2> QED
        BY <2>4, MostIsNat
<1>3. ASSUME NEW n \in 0..Most-1, n \in Right
      PROVE  n + 1 \in Right
    <2> DEFINE k == IF n < Len(s) THEN n ELSE Len(s)
    <2>1. Got(n + 1) = Round(ar, first, SubSeq(s, 1, k))
        <3>1. n + 1 \in 1..Most /\ n + 1 - 1 = n
            BY MostIsNat
        <3>2. Got(n) = SubSeq(s, 1, k)
            BY <1>3
        <3>3. \A m \in 1..Most : Got(m) = Round(ar, first, Got(m - 1))
            BY MetUnfolds
        <3>4. Got(n + 1) = Round(ar, first, Got(n))
            BY <3>1, <3>3
        <3> QED
            BY <3>2, <3>4
    <2>2. k \in 0..Len(s)
        BY <1>1, MostIsNat
    <2>3. Ahead(ar, first, SubSeq(s, 1, k)) = IF k < Len(s) THEN s[k + 1] ELSE NULL
        <3>1. Ahead(ar, first, SubSeq(s, 1, k)) = IF k = 0 THEN first ELSE ar[s[k]].vm_next
            <4>1. k = 0 => SubSeq(s, 1, k) = <<>>
                BY <1>1, SubSeqEmpty
            <4> HIDE DEF k
            <4>2. ASSUME k # 0
                  PROVE  /\ SubSeq(s, 1, k) # <<>>
                         /\ SubSeq(s, 1, k)[Len(SubSeq(s, 1, k))] = s[k]
                <5>1. Len(SubSeq(s, 1, k)) = k /\ \A i \in 1..k : SubSeq(s, 1, k)[i] = s[i]
                    BY <1>1, <2>2, PrefixGrows
                <5>2. Len(<<>>) = 0 /\ k \in 1..k
                    BY <1>1, <2>2, <4>2
                <5> QED
                    BY <4>2, <5>1, <5>2
            <4> QED
                BY <4>1, <4>2 DEF Ahead
        <3> QED
            BY <2>2, <3>1 DEF Chain
    <2>4. CASE k < Len(s)
        <3>1. s[k + 1] \in Page /\ s[k + 1] # NULL
            BY <1>1, <2>2, <2>4, VmAssumption
        <3>2. Got(n + 1) = SubSeq(s, 1, k + 1)
            BY <1>1, <2>1, <2>2, <2>3, <2>4, <3>1, PrefixGrows DEF Round
        <3> QED
            BY <1>1, <2>4, <3>2, MostIsNat
    <2>5. CASE ~(k < Len(s))
        <3>1. Got(n + 1) = SubSeq(s, 1, k)
            BY <2>1, <2>3, <2>5 DEF Round
        <3> QED
            BY <1>1, <2>5, <3>1, MostIsNat
    <2> QED
        BY <2>4, <2>5
<1>4. Most \in Right
    <2> HIDE DEF Right
    <2>1. 0..Most \subseteq Right
        BY <1>2, <1>3, MostIsNat, CountUp
    <2> QED
        BY <2>1, MostIsNat
<1>5. Upto(Most) = SubSeq(s, 1, Len(s))
    BY <1>1, ChainIsShort, MostIsNat
<1>6. SubSeq(s, 1, Len(s)) = s
    BY <1>1, SubSeqFull
<1> QED
    BY <1>4, <1>5, <1>6

---------------------------------------------------------------------------
(* The inductive invariant.                                                *)

VmType ==
    /\ owner \in [Page -> {"free", "area", "table", "frame"}]
    /\ area \in [Page -> AreaRecord]
    /\ mm \in [mmap : Link, mmap_cache : Link, map_count : Int]

Allocated(ow) == {p \in Page : ow[p] = "area"}

\* The areas s of the list are allocated and in the order of their starts.
Ordered(ar, ow, first, s) ==
    /\ Chain(ar, first, s)
    /\ \A i \in 1..Len(s) : s[i] \in Allocated(ow)
    /\ \A i, j \in 1..Len(s) : i < j => ar[s[i]].vm_start <= ar[s[j]].vm_start

VmInv ==
    /\ VmType
    /\ Ordered(area, owner, mm.mmap, Areas)
    /\ mm.map_count = Cardinality(Allocated(owner))

\* There is no other list than the one that a loop comes to.
LEMMA OrderedAreas ==
    ASSUME area' \in [Page -> AreaRecord], mm'.mmap \in Link, NEW s,
           Ordered(area', owner', mm'.mmap, s)
    PROVE  Ordered(area', owner', mm'.mmap, Areas')
<1>1. MetIn(area', mm'.mmap)[Most] = s
    BY ChainIsMet DEF Ordered
<1> QED
    BY <1>1, AreasAreMet

---------------------------------------------------------------------------
(* insert_vma_struct and do_unmap on the list.                             *)

\* A list of one area.
LEMMA SingleArea ==
    ASSUME NEW ar, NEW ow, NEW p \in Allocated(ow), ar[p].vm_next = NULL
    PROVE  Ordered(ar, ow, p, <<p>>)
<1>1. p \in Page
    BY DEF Allocated
<1>2. /\ <<p>> \in Seq(Page) /\ Len(<<p>>) = 1 /\ <<p>>[1] = p /\ DOMAIN <<p>> = 1..1
    BY <1>1
<1>3. IsInjective(<<p>>)
    BY <1>2 DEF IsInjective
<1>4. ASSUME NEW k \in 0..1
      PROVE  (IF k = 0 THEN p ELSE ar[<<p>>[k]].vm_next) = IF k < 1 THEN <<p>>[k + 1] ELSE NULL
    <2>1. CASE k = 0
        BY <1>2, <2>1
    <2>2. CASE k = 1
        BY <1>2, <2>2
    <2> QED
        BY <2>1, <2>2
<1>5. Chain(ar, p, <<p>>)
    BY <1>2, <1>3, <1>4 DEF Chain
<1> QED
    BY <1>2, <1>5 DEF Ordered

\* An area p that starts at start has gone behind area i of the list s, where
\* it belongs: the memory was ar and is ar2 now.
Inserted(ar, ow, s, p, start, i, ar2, ow2) ==
    /\ p \in Page /\ p \notin Allocated(ow) /\ start \in Int /\ i \in 1..Len(s)
    /\ \A k \in 1..i : ar[s[k]].vm_start <= start
    /\ \A k \in i+1..Len(s) : start <= ar[s[k]].vm_start
    /\ Allocated(ow2) = Allocated(ow) \cup {p}
    /\ ar2[p].vm_start = start /\ ar2[p].vm_next = ar[s[i]].vm_next
    /\ \A q \in Page \ {p} :
          /\ ar2[q].vm_start = ar[q].vm_start
          /\ ar2[q].vm_next = IF q = s[i] THEN p ELSE ar[q].vm_next

\* Area i of the list s has gone.
Removed(ar, ow, s, i, ar2, ow2) ==
    /\ i \in 1..Len(s)
    /\ Allocated(ow2) = Allocated(ow) \ {s[i]}
    /\ \A q \in Page : ar2[q].vm_start = ar[q].vm_start
    /\ \A q \in Page : ar2[q].vm_next = IF i # 1 /\ q = s[i-1] THEN ar[s[i]].vm_next
                                        ELSE ar[q].vm_next

LEMMA InsertOrdered ==
    ASSUME NEW ar, NEW ow, NEW first, NEW s, Ordered(ar, ow, first, s),
           \A q \in Page : ar[q].vm_start \in Int,
           NEW p, NEW start, NEW i, NEW ar2, NEW ow2,
           Inserted(ar, ow, s, p, start, i, ar2, ow2)
    PROVE  \E s2 : Ordered(ar2, ow2, first, s2)
<1> USE DEF Inserted
<1> DEFINE n == Len(s)
           s2 == [k \in 1..n+1 |-> IF k <= i THEN s[k] ELSE IF k = i + 1 THEN p ELSE s[k-1]]
<1>1. /\ s \in Seq(Page) /\ n \in Nat /\ DOMAIN s = 1..n
      /\ \A k \in 1..n : s[k] \in Page /\ s[k] # p
    BY DEF Ordered, Chain, Allocated
<1>2. \A k, l \in 1..n : s[k] = s[l] => k = l
    BY <1>1 DEF Ordered, Chain, IsInjective
<1>3. /\ s2 \in [1..n+1 -> Page] /\ s2 \in Seq(Page) /\ Len(s2) = n + 1 /\ DOMAIN s2 = 1..n+1
    BY <1>1
<1>4. /\ \A k \in 1..i : s2[k] = s[k]
      /\ s2[i + 1] = p
      /\ \A k \in i+2..n+1 : s2[k] = s[k-1]
    BY <1>1
<1> HIDE DEF s2
<1>5. ASSUME NEW k \in 1..n+1
      PROVE  k \in 1..i \/ k = i + 1 \/ (k \in i+2..n+1 /\ k - 1 \in i+1..n)
    BY <1>1
<1>6. IsInjective(s2)
    <2> SUFFICES ASSUME NEW k \in 1..n+1, NEW l \in 1..n+1, s2[k] = s2[l] PROVE k = l
        BY <1>3 DEF IsInjective
    <2>1. CASE k = i + 1 \/ l = i + 1
        BY <1>1, <1>4, <1>5, <2>1
    <2>2. CASE k # i + 1 /\ l # i + 1
        <3>1. CASE k \in 1..i /\ l \in 1..i
            BY <1>1, <1>2, <1>4, <3>1
        <3>2. CASE k \in i+2..n+1 /\ l \in i+2..n+1
            BY <1>1, <1>2, <1>4, <3>2
        <3>3. CASE k \in 1..i /\ l \in i+2..n+1
            BY <1>1, <1>2, <1>4, <3>3
        <3>4. CASE k \in i+2..n+1 /\ l \in 1..i
            BY <1>1, <1>2, <1>4, <3>4
        <3> QED
            BY <1>5, <2>2, <3>1, <3>2, <3>3, <3>4
    <2> QED
        BY <2>1, <2>2
<1>7. \A k \in 0..n : (IF k = 0 THEN first ELSE ar[s[k]].vm_next)
                         = IF k < n THEN s[k + 1] ELSE NULL
    BY DEF Ordered, Chain
<1>8. ASSUME NEW k \in 0..n+1
      PROVE  (IF k = 0 THEN first ELSE ar2[s2[k]].vm_next)
                = IF k < n + 1 THEN s2[k + 1] ELSE NULL
    <2>1. CASE k = 0
        BY <1>1, <1>4, <1>7, <2>1
    <2>2. CASE k \in 1..i-1
        <3>1. s2[k] = s[k] /\ s2[k + 1] = s[k + 1] /\ s[k] # s[i] /\ k \in 1..n /\ k < n
            BY <1>1, <1>2, <1>4, <2>2
        <3>2. ar2[s[k]].vm_next = ar[s[k]].vm_next
            BY <1>1, <3>1
        <3> QED
            BY <1>1, <1>7, <2>2, <3>1, <3>2
    <2>3. CASE k = i
        BY <1>1, <1>4, <2>3
    <2>4. CASE k = i + 1
        <3>1. ar2[s2[k]].vm_next = IF i < n THEN s[i + 1] ELSE NULL
            BY <1>1, <1>4, <1>7, <2>4
        <3>2. i < n => i + 2 \in i+2..n+1 /\ s2[i + 2] = s[i + 1]
            BY <1>1, <1>4
        <3> QED
            BY <1>1, <2>4, <3>1, <3>2
    <2>5. CASE k \in i+2..n+1
        <3>1. s2[k] = s[k-1] /\ k - 1 \in 1..n /\ k - 1 # i
            BY <1>1, <1>4, <2>5
        <3>2. ar2[s[k-1]].vm_next = ar[s[k-1]].vm_next
            BY <1>1, <1>2, <3>1
        <3>3. ar[s[k-1]].vm_next = IF k - 1 < n THEN s[k] ELSE NULL
            BY <1>1, <1>7, <2>5
        <3>4. k - 1 < n => s2[k + 1] = s[k]
            BY <1>1, <1>4, <2>5
        <3> QED
            BY <1>1, <2>5, <3>1, <3>2, <3>3, <3>4
    <2> QED
        BY <1>1, <2>1, <2>2, <2>3, <2>4, <2>5
<1>9. Chain(ar2, first, s2)
    BY <1>3, <1>6, <1>8 DEF Chain
<1>10. \A k \in 1..n+1 : s2[k] \in Allocated(ow2)
    <2>1. \A k \in 1..n : s[k] \in Allocated(ow)
        BY DEF Ordered
    <2> SUFFICES ASSUME NEW k \in 1..n+1 PROVE s2[k] \in Allocated(ow2)
        OBVIOUS
    <2>2. s2[k] = p \/ \E l \in 1..n : s2[k] = s[l]
        BY <1>1, <1>4, <1>5, SMTT(40)
    <2> QED
        BY <2>1, <2>2
<1>11. ASSUME NEW k \in 1..n+1, NEW l \in 1..n+1, k < l
       PROVE  ar2[s2[k]].vm_start <= ar2[s2[l]].vm_start
    <2> DEFINE At(m) == ar[s[m]].vm_start
    <2>1. \A m \in 1..n : ar2[s[m]].vm_start = At(m) /\ At(m) \in Int
        BY <1>1
    <2>2. \A m, o \in 1..n : m < o => At(m) <= At(o)
        BY DEF Ordered
    <2>3. \A m \in 1..i : At(m) <= start
        OBVIOUS
    <2>4. \A m \in i+1..n : start <= At(m)
        OBVIOUS
    <2> HIDE DEF At
    <2>5. CASE k \in 1..i /\ l \in 1..i
        BY <1>1, <1>4, <1>11, <2>1, <2>2, <2>5
    <2>6. CASE k \in 1..i /\ l = i + 1
        BY <1>1, <1>4, <2>1, <2>3, <2>6
    <2>7. CASE k \in 1..i /\ l \in i+2..n+1
        <3>1. l - 1 \in 1..n /\ k \in 1..n /\ k < l - 1
            BY <1>1, <2>7
        <3>2. s2[k] = s[k] /\ s2[l] = s[l-1]
            BY <1>4, <2>7
        <3>3. ar2[s[k]].vm_start = At(k) /\ ar2[s[l-1]].vm_start = At(l-1)
            BY <2>1, <3>1
        <3>4. At(k) <= At(l-1)
            BY <2>2, <3>1
        <3> QED
            BY <3>2, <3>3, <3>4
    <2>8. CASE k = i + 1 /\ l \in i+2..n+1
        BY <1>1, <1>4, <2>1, <2>4, <2>8
    <2>9. CASE k \in i+2..n+1 /\ l \in i+2..n+1
        <3>1. l - 1 \in 1..n /\ k - 1 \in 1..n /\ k - 1 < l - 1
            BY <1>1, <1>11, <2>9
        <3>2. s2[k] = s[k-1] /\ s2[l] = s[l-1]
            BY <1>4, <2>9
        <3>3. ar2[s[k-1]].vm_start = At(k-1) /\ ar2[s[l-1]].vm_start = At(l-1)
            BY <2>1, <3>1
        <3>4. At(k-1) <= At(l-1)
            BY <2>2, <3>1
        <3> QED
            BY <3>2, <3>3, <3>4
    <2> QED
        BY <1>1, <1>5, <1>11, <2>5, <2>6, <2>7, <2>8, <2>9
<1>12. Ordered(ar2, ow2, first, s2)
    BY <1>3, <1>9, <1>10, <1>11 DEF Ordered
<1> QED
    BY <1>12

\* The list without its area i.
LEMMA RemoveOrdered ==
    ASSUME NEW ar, NEW ow, NEW first, NEW s, Ordered(ar, ow, first, s),
           \A q \in Page : ar[q].vm_start \in Int,
           NEW i, NEW ar2, NEW ow2, Removed(ar, ow, s, i, ar2, ow2),
           NEW first2, first2 = IF i = 1 THEN ar[s[i]].vm_next ELSE first
    PROVE  \E s2 : Ordered(ar2, ow2, first2, s2)
<1> USE DEF Removed
<1> DEFINE n == Len(s)
           s2 == [k \in 1..n-1 |-> IF k < i THEN s[k] ELSE s[k+1]]
<1>1. /\ s \in Seq(Page) /\ n \in Nat /\ DOMAIN s = 1..n
      /\ \A k \in 1..n : s[k] \in Page
    BY DEF Ordered, Chain
<1>2. \A k, l \in 1..n : s[k] = s[l] => k = l
    BY <1>1 DEF Ordered, Chain, IsInjective
<1>3. /\ s2 \in [1..n-1 -> Page] /\ s2 \in Seq(Page) /\ Len(s2) = n - 1 /\ DOMAIN s2 = 1..n-1
    BY <1>1
<1>4. /\ \A k \in 1..i-1 : s2[k] = s[k]
      /\ \A k \in i..n-1 : s2[k] = s[k+1]
    BY <1>1
<1> HIDE DEF s2
<1>5. \A k \in 1..n-1 : k \in 1..i-1 \/ (k \in i..n-1 /\ k + 1 \in i+1..n)
    BY <1>1
<1>6. IsInjective(s2)
    <2> SUFFICES ASSUME NEW k \in 1..n-1, NEW l \in 1..n-1, s2[k] = s2[l] PROVE k = l
        BY <1>3 DEF IsInjective
    <2>1. CASE k \in 1..i-1 /\ l \in 1..i-1
        BY <1>1, <1>2, <1>4, <2>1
    <2>2. CASE k \in i..n-1 /\ l \in i..n-1
        BY <1>1, <1>2, <1>4, <2>2
    <2>3. CASE k \in 1..i-1 /\ l \in i..n-1
        BY <1>1, <1>2, <1>4, <2>3
    <2>4. CASE k \in i..n-1 /\ l \in 1..i-1
        BY <1>1, <1>2, <1>4, <2>4
    <2> QED
        BY <1>5, <2>1, <2>2, <2>3, <2>4
<1>7. \A k \in 0..n : (IF k = 0 THEN first ELSE ar[s[k]].vm_next)
                         = IF k < n THEN s[k + 1] ELSE NULL
    BY DEF Ordered, Chain
<1>8. ar[s[i]].vm_next = IF i < n THEN s2[i] ELSE NULL
    <2>1. ar[s[i]].vm_next = IF i < n THEN s[i + 1] ELSE NULL
        BY <1>1, <1>7
    <2>2. i < n => s2[i] = s[i + 1]
        BY <1>1, <1>4
    <2> QED
        BY <2>1, <2>2
<1>9. ASSUME NEW k \in 0..n-1
      PROVE  (IF k = 0 THEN first2 ELSE ar2[s2[k]].vm_next)
                = IF k < n - 1 THEN s2[k + 1] ELSE NULL
    <2>1. CASE k = 0 /\ i = 1
        BY <1>1, <1>8, <2>1
    <2>2. CASE k = 0 /\ i # 1
        <3>1. first2 = s[1] /\ 0 < n - 1 /\ s2[1] = s[1]
            BY <1>1, <1>4, <1>7, <2>2
        <3> QED
            BY <2>2, <3>1
    <2>3. CASE k \in 1..i-2
        <3>1. s2[k] = s[k] /\ s2[k + 1] = s[k + 1] /\ k \in 1..n /\ k < n - 1 /\ k # i - 1
            BY <1>1, <1>4, <2>3
        <3>2. s[k] \in Page /\ s[k] # s[i-1]
            BY <1>1, <1>2, <2>3, <3>1
        <3>3. ar2[s[k]].vm_next = ar[s[k]].vm_next
            BY <3>2
        <3>4. ar[s[k]].vm_next = s[k + 1]
            BY <1>1, <1>7, <2>3, <3>1
        <3> QED
            BY <2>3, <3>1, <3>3, <3>4
    <2>4. CASE k = i - 1 /\ i # 1
        <3>1. s2[k] = s[i-1] /\ s[i-1] \in Page
            BY <1>1, <1>4, <2>4
        <3>2. ar2[s[i-1]].vm_next = ar[s[i]].vm_next
            BY <2>4, <3>1
        <3> QED
            BY <1>1, <1>8, <2>4, <3>1, <3>2
    <2>5. CASE k \in i..n-1 /\ k # 0
        <3>1. s2[k] = s[k+1] /\ k + 1 \in 1..n /\ (i # 1 => k + 1 # i - 1 /\ i - 1 \in 1..n)
            BY <1>1, <1>4, <2>5
        <3>2. s[k+1] \in Page /\ (i # 1 => s[k+1] # s[i-1])
            BY <1>1, <1>2, <3>1
        <3>3. ar2[s[k+1]].vm_next = ar[s[k+1]].vm_next
            BY <3>2
        <3>4. ar[s[k+1]].vm_next = IF k + 1 < n THEN s[k+2] ELSE NULL
            BY <1>1, <1>7, <3>1
        <3>5. ASSUME k + 1 < n
              PROVE  s2[k+1] = s[k+2]
            <4>1. k + 1 \in i..n-1 /\ k + 1 + 1 = k + 2
                BY <1>1, <2>5, <3>5
            <4>2. s2[k+1] = s[k+1+1]
                BY <1>4, <4>1
            <4> QED
                BY <4>1, <4>2
        <3> QED
            BY <1>1, <2>5, <3>1, <3>3, <3>4, <3>5
    <2> QED
        BY <1>1, <2>1, <2>2, <2>3, <2>4, <2>5
<1>10. Chain(ar2, first2, s2)
    BY <1>3, <1>6, <1>9 DEF Chain
<1>11. ASSUME NEW k \in 1..n-1
       PROVE  \E l \in 1..n : l # i /\ s2[k] = s[l]
    BY <1>1, <1>4, <1>5
<1>12. \A k \in 1..n-1 : s2[k] \in Allocated(ow2)
    <2>1. \A k \in 1..n : s[k] \in Allocated(ow)
        BY DEF Ordered
    <2> QED
        BY <1>2, <1>11, <2>1
<1>13. ASSUME NEW k \in 1..n-1, NEW l \in 1..n-1, k < l
       PROVE  ar2[s2[k]].vm_start <= ar2[s2[l]].vm_start
    <2> DEFINE At(m) == ar[s[m]].vm_start
    <2>1. \A m \in 1..n : ar2[s[m]].vm_start = At(m)
        BY <1>1
    <2>2. \A m, o \in 1..n : m < o => At(m) <= At(o)
        BY DEF Ordered
    <2> HIDE DEF At
    <2>3. PICK m \in 1..n : s2[k] = s[m] /\ m = IF k < i THEN k ELSE k + 1
        BY <1>1, <1>4
    <2>4. PICK o \in 1..n : s2[l] = s[o] /\ o = IF l < i THEN l ELSE l + 1
        BY <1>1, <1>4
    <2>5. m < o
        BY <1>13, <2>3, <2>4
    <2> QED
        BY <2>1, <2>2, <2>3, <2>4, <2>5
<1>14. Ordered(ar2, ow2, first2, s2)
    BY <1>3, <1>10, <1>12, <1>13 DEF Ordered
<1> QED
    BY <1>14

---------------------------------------------------------------------------
(* find_vma and the steps.                                                 *)

LEMMA AreasType ==
    ASSUME VmInv
    PROVE  /\ Areas \in Seq(Page) /\ Len(Areas) \in Nat /\ DOMAIN Areas = 1..Len(Areas)
           /\ \A i \in 1..Len(Areas) : Areas[i] \in Page /\ owner[Areas[i]] = "area"
           /\ \A p \in Page : /\ area[p].vm_start \in Int /\ area[p].vm_end \in Int
                              /\ area[p].vm_next \in Link
<1>1. /\ Areas \in Seq(Page) /\ \A i \in 1..Len(Areas) : Areas[i] \in Allocated(owner)
    BY DEF VmInv, Ordered, Chain
<1>2. area \in [Page -> AreaRecord]
    BY DEF VmInv, VmType
<1> QED
    BY <1>1, <1>2 DEF Allocated, AreaRecord

LEMMA LeastPlace ==
    ASSUME NEW n \in Nat, NEW S \in SUBSET (1..n), S # {}
    PROVE  LET i == CHOOSE i \in S : \A j \in S : i <= j
           IN  i \in S /\ \A j \in S : i <= j
<1>1. IsFiniteSet(1..n)
    BY FS_Interval
<1>2. IsFiniteSet(S)
    BY <1>1, FS_Subset, Zenon
<1>3. S \in SUBSET Int
    OBVIOUS
<1>4. \E i \in S : \A j \in S : i <= j
    BY <1>2, <1>3, LeastAndGreatest
<1> QED
    BY <1>4

LEMMA FirstBehindIs ==
    ASSUME VmInv, NEW addr \in Int
    PROVE  LET i == FirstBehind(addr)
           IN  /\ i \in 1..Len(Areas)+1
               /\ i # Len(Areas) + 1 => area[Areas[i]].vm_end > addr
               /\ \A j \in 1..Len(Areas) : j < i => area[Areas[j]].vm_end <= addr
<1> DEFINE behind == {i \in 1..Len(Areas) : area[Areas[i]].vm_end > addr}
           least == CHOOSE i \in behind : \A j \in behind : i <= j
<1>1. DOMAIN Areas = 1..Len(Areas) /\ Len(Areas) \in Nat
    BY AreasType
<1>2. FirstBehind(addr) = IF behind = {} THEN Len(Areas) + 1 ELSE least
    BY <1>1 DEF FirstBehind
<1>3. \A i \in 1..Len(Areas) : i \notin behind => area[Areas[i]].vm_end <= addr
    BY AreasType, SMTT(40)
<1>4. CASE behind = {}
    BY <1>1, <1>2, <1>3, <1>4, SMTT(40)
<1>5. CASE behind # {}
    <2>1. least \in behind /\ \A j \in behind : least <= j
        BY <1>1, <1>5, LeastPlace
    <2>2. FirstBehind(addr) = least
        BY <1>2, <1>5
    <2> HIDE DEF least
    <2>3. \A j \in 1..Len(Areas) : j < least => j \notin behind
        BY <1>1, <2>1
    <2> QED
        BY <1>1, <1>3, <2>1, <2>2, <2>3
<1> QED
    BY <1>4, <1>5

LEMMA FindVmaIsLink ==
    ASSUME VmInv, NEW addr
    PROVE  FindVma(addr) \in Link /\ CacheAfter(addr) \in Link
<1>1. mm.mmap_cache \in Link
    BY DEF VmInv, VmType
<1>2. \A i : AreaAt(i) \in Link
    BY AreasType DEF AreaAt, Link
<1> QED
    BY <1>1, <1>2 DEF FindVma, CacheAfter

LEMMA UnmappedArea ==
    ASSUME VmInv, NEW addr \in Int, NEW len \in Int
    PROVE  LET got == GetUnmappedArea(addr, len)
           IN  got.addr \in Int /\ got.cache \in Link /\ Allign((got.addr + len) % WORD) \in Int
<1>1. ASSUME NEW x \in Int
      PROVE  Allign(x) \in Int /\ x % WORD \in Int
    <2>1. WORD \in Int /\ WORD > 0 /\ PAGE_SIZE \in Int /\ PAGE_SIZE > 0
        BY VmAssumption
    <2>2. (x + PAGE_SIZE - 1) % WORD \in Int /\ x % WORD \in Int
        BY <2>1
    <2>3. ((x + PAGE_SIZE - 1) % WORD) \div PAGE_SIZE \in Int
        BY <2>1, <2>2
    <2> QED
        BY <2>1, <2>2, <2>3 DEF Allign
<1> DEFINE got == GetUnmappedArea(addr, len)
<1>2. mm.mmap_cache \in Link /\ \A a : CacheAfter(a) \in Link
    BY FindVmaIsLink DEF VmInv, VmType
<1>3. Allign(addr) \in Int /\ Minus1 \in Int
    BY <1>1, VmAssumption DEF Minus1
<1>4. got.addr \in Int /\ got.cache \in Link
    BY <1>2, <1>3 DEF GetUnmappedArea
<1> HIDE DEF got
<1>5. Allign((got.addr + len) % WORD) \in Int
    BY <1>1, <1>4
<1> QED
    BY <1>4, <1>5 DEF got

\* An area that is inserted comes behind those that do not start later.
LEMMA PlaceForIs ==
    ASSUME VmInv, NEW start \in Int
    PROVE  LET i == PlaceFor(start)
           IN  /\ i \in 0..Len(Areas)
               /\ \A k \in 1..i : area[Areas[k]].vm_start <= start
               /\ \A k \in i+1..Len(Areas) : start <= area[Areas[k]].vm_start
<1> DEFINE later == {i \in 1..Len(Areas) : start < area[Areas[i]].vm_start}
           least == CHOOSE i \in later : \A j \in later : i <= j
<1>1. DOMAIN Areas = 1..Len(Areas) /\ Len(Areas) \in Nat
    BY AreasType
<1>2. PlaceFor(start) = IF later = {} THEN Len(Areas) ELSE least - 1
    BY <1>1 DEF PlaceFor
<1>3. \A i \in 1..Len(Areas) : i \notin later => area[Areas[i]].vm_start <= start
    BY AreasType
<1>4. CASE later = {}
    BY <1>1, <1>2, <1>3, <1>4
<1>5. CASE later # {}
    <2>1. least \in later /\ \A j \in later : least <= j
        BY <1>1, <1>5, LeastPlace
    <2>2. PlaceFor(start) = least - 1
        BY <1>2, <1>5
    <2> HIDE DEF least
    <2>3. \A j \in 1..Len(Areas) : j < least => j \notin later
        BY <1>1, <2>1
    <2>4. ASSUME NEW k \in least..Len(Areas)
          PROVE  start <= area[Areas[k]].vm_start
        <3> DEFINE At(m) == area[Areas[m]].vm_start
        <3>1. k \in 1..Len(Areas) /\ least \in 1..Len(Areas) /\ least <= k
            BY <1>1, <2>1
        <3>2. At(k) \in Int /\ At(least) \in Int /\ start < At(least)
            BY <2>1, <3>1, AreasType
        <3>3. least < k => At(least) <= At(k)
            BY <3>1 DEF VmInv, Ordered
        <3> HIDE DEF At
        <3>4. start <= At(k)
            BY <3>1, <3>2, <3>3
        <3> QED
            BY <3>4 DEF At
    <2> QED
        BY <1>1, <1>3, <2>1, <2>2, <2>3, <2>4
<1> QED
    BY <1>4, <1>5

LEMMA OrderedStep ==
    ASSUME VmType', NEW s, Ordered(area', owner', mm'.mmap, s),
           mm'.map_count = Cardinality(Allocated(owner'))
    PROVE  VmInv'
<1>1. area' \in [Page -> AreaRecord] /\ mm'.mmap \in Link
    BY DEF VmType
<1>2. Ordered(area', owner', mm'.mmap, Areas')
    BY <1>1, OrderedAreas
<1> QED
    BY <1>2 DEF VmInv

LEMMA AllocatedCount ==
    ASSUME NEW ow, NEW p \in Page
    PROVE  /\ p \notin Allocated(ow) =>
                Cardinality(Allocated(ow) \cup {p}) = Cardinality(Allocated(ow)) + 1
           /\ p \in Allocated(ow) =>
                Cardinality(Allocated(ow) \ {p}) = Cardinality(Allocated(ow)) - 1
<1>1. IsFiniteSet(Page) /\ Allocated(ow) \in SUBSET Page
    BY VmAssumption DEF Allocated
<1>2. IsFiniteSet(Allocated(ow))
    BY <1>1, FS_Subset, Zenon
<1> QED
    BY <1>2, FS_AddElement, FS_RemoveElement

\* A call that only moves mmap_cache.
LEMMA CacheMoves ==
    ASSUME VmInv, NEW cache \in Link, mm' = [mm EXCEPT !.mmap_cache = cache],
           UNCHANGED <<owner, area>>
    PROVE  VmInv'
<1>1. VmType' /\ mm'.mmap = mm.mmap /\ mm'.map_count = mm.map_count
    BY DEF VmInv, VmType
<1>2. Ordered(area', owner', mm'.mmap, Areas)
    BY <1>1 DEF VmInv
<1> QED
    BY <1>1, <1>2, OrderedStep DEF VmInv

\* A new area, on a page that was free.
LEMMA InsertKeeps ==
    ASSUME VmInv, NEW p \in Free, NEW a \in AreaRecord, a.vm_next = NULL,
           NEW cache \in Link, owner' = [owner EXCEPT ![p] = "area"],
           InsertVmaStruct(p, a, cache)
    PROVE  VmInv'
<1> DEFINE i == PlaceFor(a.vm_start)
           prev == AreaAt(i)
           next == IF i = 0 THEN NULL ELSE area[prev].vm_next
<1>1. /\ p \in Page /\ owner[p] = "free" /\ p \notin Allocated(owner)
      /\ a.vm_start \in Int
    BY DEF Free, Allocated, AreaRecord
<1>2. /\ i \in 0..Len(Areas)
      /\ \A k \in 1..i : area[Areas[k]].vm_start <= a.vm_start
      /\ \A k \in i+1..Len(Areas) : a.vm_start <= area[Areas[k]].vm_start
    BY <1>1, PlaceForIs
<1>3. i # 0 => i \in 1..Len(Areas) /\ prev = Areas[i] /\ prev \in Page /\ prev # p
    BY <1>1, <1>2, AreasType DEF AreaAt
<1>4. /\ area' = IF i = 0 THEN [area EXCEPT ![p] = a]
                 ELSE [area EXCEPT ![p] = [a EXCEPT !.vm_next = area[prev].vm_next],
                                   ![prev].vm_next = p]
      /\ mm' = [mm EXCEPT !.mmap = IF i = 0 THEN p ELSE @,
                          !.mmap_cache = cache, !.map_count = @ + 1]
    BY DEF InsertVmaStruct
<1> HIDE DEF i, prev
<1>5. area \in [Page -> AreaRecord] /\ mm \in [mmap : Link, mmap_cache : Link, map_count : Int]
    BY DEF VmInv, VmType
<1>6. next \in Link /\ [a EXCEPT !.vm_next = next] \in AreaRecord
    BY <1>3, <1>5 DEF AreaRecord, Link
<1>7. area' \in [Page -> AreaRecord]
    <2>1. CASE i = 0
        BY <1>1, <1>4, <1>5, <2>1
    <2>2. CASE i # 0
        <3>1. p \in Link
            BY <1>1 DEF Link
        <3> QED
            BY <1>1, <1>3, <1>4, <1>5, <1>6, <2>2, <3>1 DEF AreaRecord
    <2> QED
        BY <2>1, <2>2
<1>8. /\ mm'.mmap = IF i = 0 THEN p ELSE mm.mmap
      /\ mm'.map_count = mm.map_count + 1
      /\ mm' \in [mmap : Link, mmap_cache : Link, map_count : Int]
    <2>1. p \in Link
        BY <1>1 DEF Link
    <2>2. mm' = [mm EXCEPT !.mmap = IF i = 0 THEN p ELSE @,
                          !.mmap_cache = cache, !.map_count = @ + 1]
        BY <1>4
    <2>3. mm'.mmap = IF i = 0 THEN p ELSE mm.mmap
        BY <1>5, <2>2
    <2>4. mm'.map_count = mm.map_count + 1
        BY <1>5, <2>2
    <2>5. mm' \in [mmap : Link, mmap_cache : Link, map_count : Int]
        <3> DEFINE new == IF i = 0 THEN p ELSE mm.mmap
        <3>1. new \in Link /\ mm.map_count + 1 \in Int
            BY <1>5, <2>1
        <3>2. mm' = [mm EXCEPT !.mmap = new, !.mmap_cache = cache,
                               !.map_count = mm.map_count + 1]
            BY <2>2, Zenon
        <3> HIDE DEF new
        <3> QED
            BY <1>5, <3>1, <3>2
    <2> QED
        BY <2>3, <2>4, <2>5
<1>9. VmType'
    <2>1. owner' \in [Page -> {"free", "area", "table", "frame"}]
        BY DEF VmInv, VmType
    <2> QED
        BY <1>7, <1>8, <2>1 DEF VmType
<1>10. Allocated(owner') = Allocated(owner) \cup {p}
    BY <1>1 DEF Allocated, VmInv, VmType
<1>11. mm'.map_count = Cardinality(Allocated(owner'))
    <2>1. Cardinality(Allocated(owner) \cup {p}) = Cardinality(Allocated(owner)) + 1
        BY <1>1, AllocatedCount
    <2> QED
        BY <1>8, <1>10, <2>1 DEF VmInv
<1>12. \E s : Ordered(area', owner', mm'.mmap, s)
    <2>1. CASE i = 0
        <3>1. area'[p].vm_next = NULL
            BY <1>1, <1>4, <1>5, <2>1
        <3>2. Ordered(area', owner', p, <<p>>)
            BY <1>10, <3>1, SingleArea
        <3> QED
            BY <1>8, <2>1, <3>2
    <2>2. CASE i # 0
        <3>1. i \in 1..Len(Areas) /\ prev = Areas[i]
            BY <1>3, <2>2
        <3>2. /\ area'[p].vm_start = a.vm_start
              /\ area'[p].vm_next = area[Areas[i]].vm_next
            BY <1>1, <1>3, <1>4, <1>5, <2>2 DEF AreaRecord
        <3>3. ASSUME NEW q \in Page \ {p}
              PROVE  /\ area'[q].vm_start = area[q].vm_start
                     /\ area'[q].vm_next = IF q = Areas[i] THEN p ELSE area[q].vm_next
            BY <1>1, <1>3, <1>4, <1>5, <2>2 DEF AreaRecord
        <3>4. Ordered(area, owner, mm.mmap, Areas) /\ \A q \in Page : area[q].vm_start \in Int
            BY AreasType DEF VmInv
        <3>5. mm'.mmap = mm.mmap
            BY <1>8, <2>2
        <3>6. Inserted(area, owner, Areas, p, a.vm_start, i, area', owner')
            BY <1>1, <1>2, <1>10, <3>1, <3>2, <3>3 DEF Inserted
        <3>7. \E s : Ordered(area', owner', mm.mmap, s)
            BY <3>4, <3>6, InsertOrdered, Zenon
        <3> QED
            BY <3>5, <3>7
    <2> QED
        BY <2>1, <2>2
<1> QED
    BY <1>9, <1>11, <1>12, OrderedStep

LEMMA DoMmapKeeps ==
    ASSUME VmInv, NEW addr \in Addr, NEW len \in Length, DoMmap(addr, len)
    PROVE  VmInv'
<1> DEFINE got == GetUnmappedArea(addr, len)
           end == Allign((got.addr + len) % WORD)
           a == [vm_start |-> got.addr, vm_end |-> end, vm_next |-> NULL]
<1>1. addr \in Int /\ len \in Int
    BY VmAssumption
<1>2. got.addr \in Int /\ got.cache \in Link /\ end \in Int
    BY <1>1, UnmappedArea
<1>3. \/ mm' = [mm EXCEPT !.mmap_cache = got.cache] /\ UNCHANGED <<owner, area>>
      \/ \E p \in Free : /\ owner' = [owner EXCEPT ![p] = "area"]
                         /\ InsertVmaStruct(p, a, got.cache)
    BY DEF DoMmap
<1> HIDE DEF got, end
<1>4. CASE mm' = [mm EXCEPT !.mmap_cache = got.cache] /\ UNCHANGED <<owner, area>>
    BY <1>2, <1>4, CacheMoves
<1>5. CASE \E p \in Free : /\ owner' = [owner EXCEPT ![p] = "area"]
                           /\ InsertVmaStruct(p, a, got.cache)
    <2>1. a \in AreaRecord /\ a.vm_next = NULL
        BY <1>2 DEF AreaRecord, Link
    <2> HIDE DEF a
    <2> QED
        BY <1>2, <1>5, <2>1, InsertKeeps
<1> QED
    BY <1>3, <1>4, <1>5

LEMMA DoUnmapKeeps ==
    ASSUME VmInv, NEW addr \in Addr, NEW len \in Length, DoUnmap(addr, len)
    PROVE  VmInv'
<1> DEFINE i == FirstBehind(addr)
           p == AreaAt(i)
<1>1. p # NULL /\ (Unmap(i) \/ (mm' = [mm EXCEPT !.mmap_cache = p] /\ UNCHANGED <<owner, area>>))
    BY DEF DoUnmap
<1>2. addr \in Int
    BY VmAssumption
<1>3. i \in 1..Len(Areas) /\ p = Areas[i] /\ p \in Page /\ p \in Link
    <2>1. i \in 1..Len(Areas)+1 /\ Len(Areas) \in Nat /\ DOMAIN Areas = 1..Len(Areas)
        BY <1>2, FirstBehindIs, AreasType
    <2> QED
        BY <1>1, <2>1, AreasType DEF AreaAt, Link
<1> HIDE DEF i, p
<1>4. CASE mm' = [mm EXCEPT !.mmap_cache = p] /\ UNCHANGED <<owner, area>>
    BY <1>3, <1>4, CacheMoves
<1>5. CASE Unmap(i)
    <2> DEFINE next == area[p].vm_next
    <2>1. /\ owner' = [owner EXCEPT ![p] = "free"]
          /\ area' = IF i = 1 THEN area ELSE [area EXCEPT ![Areas[i-1]].vm_next = next]
          /\ mm' = [mm EXCEPT !.mmap_cache = p, !.mmap = IF i = 1 THEN next ELSE @,
                              !.map_count = @ - 1]
        BY <1>3, <1>5 DEF Unmap
    <2>2. next \in Link /\ (i # 1 => Areas[i-1] \in Page)
        BY <1>3, AreasType
    <2>3. area \in [Page -> AreaRecord] /\ mm \in [mmap : Link, mmap_cache : Link, map_count : Int]
        BY DEF VmInv, VmType
    <2>4. /\ mm'.mmap = IF i = 1 THEN next ELSE mm.mmap
          /\ mm'.map_count = mm.map_count - 1
        BY <2>1, <2>3
    <2> HIDE DEF next
    <2>5. VmType'
        <3>1. area' \in [Page -> AreaRecord]
            BY <2>1, <2>2, <2>3 DEF AreaRecord
        <3>2. mm' \in [mmap : Link, mmap_cache : Link, map_count : Int]
            <4> DEFINE new == IF i = 1 THEN next ELSE mm.mmap
            <4>1. new \in Link /\ mm.map_count - 1 \in Int
                BY <2>2, <2>3
            <4>2. mm' = [mm EXCEPT !.mmap_cache = p, !.mmap = new,
                                   !.map_count = mm.map_count - 1]
                BY <2>1, Zenon
            <4> HIDE DEF new
            <4> QED
                BY <1>3, <2>3, <4>1, <4>2
        <3> QED
            BY <2>1, <3>1, <3>2 DEF VmInv, VmType
    <2>6. p \in Allocated(owner) /\ Allocated(owner') = Allocated(owner) \ {p}
        BY <1>3, <2>1, AreasType DEF Allocated, VmInv, VmType
    <2>7. mm'.map_count = Cardinality(Allocated(owner'))
        <3>1. Cardinality(Allocated(owner) \ {p}) = Cardinality(Allocated(owner)) - 1
            BY <1>3, <2>6, AllocatedCount
        <3> QED
            BY <2>4, <2>6, <3>1 DEF VmInv
    <2>8. \E s : Ordered(area', owner', mm'.mmap, s)
        <3>1. Ordered(area, owner, mm.mmap, Areas) /\ \A q \in Page : area[q].vm_start \in Int
            BY AreasType DEF VmInv
        <3>2. ASSUME NEW q \in Page
              PROVE  /\ area'[q].vm_start = area[q].vm_start
                     /\ area'[q].vm_next = IF i # 1 /\ q = Areas[i-1] THEN next ELSE area[q].vm_next
            BY <2>1, <2>2, <2>3 DEF AreaRecord
        <3>3. Removed(area, owner, Areas, i, area', owner')
            BY <1>3, <2>6, <3>2 DEF Removed, next
        <3>4. mm'.mmap = IF i = 1 THEN area[Areas[i]].vm_next ELSE mm.mmap
            BY <1>3, <2>4 DEF next
        <3> QED
            BY <3>1, <3>3, <3>4, RemoveOrdered, ZenonT(60)
    <2> QED
        BY <2>5, <2>7, <2>8, OrderedStep
<1> QED
    BY <1>1, <1>4, <1>5

\* The pages that hold the areas and their contents are left alone by a step
\* that only takes free pages and gives back those of the page table.
LEMMA AreasLeftAlone ==
    ASSUME VmInv, NEW taken \in SUBSET Free,
           owner' \in [Page -> {"free", "area", "table", "frame"}],
           \A p \in Page : (owner'[p] = "area") <=> (owner[p] = "area"),
           area' \in [Page -> AreaRecord],
           \A p \in Page \ taken : area'[p] = area[p],
           UNCHANGED mm
    PROVE  VmInv'
<1>1. VmType'
    BY DEF VmInv, VmType
<1>2. Allocated(owner') = Allocated(owner)
    BY DEF Allocated
<1>3. \A i \in 1..Len(Areas) : area'[Areas[i]] = area[Areas[i]]
    BY AreasType DEF Free
<1>4. Areas \in Seq(Page) /\ IsInjective(Areas)
    BY DEF VmInv, Ordered, Chain
<1>5. \A k \in 0..Len(Areas) :
         (IF k = 0 THEN mm.mmap ELSE area[Areas[k]].vm_next)
             = IF k < Len(Areas) THEN Areas[k + 1] ELSE NULL
    BY DEF VmInv, Ordered, Chain
<1>6. Chain(area', mm'.mmap, Areas)
    <2>1. \A k \in 0..Len(Areas) : k # 0 => k \in 1..Len(Areas)
        BY <1>4
    <2>2. \A k \in 0..Len(Areas) :
         (IF k = 0 THEN mm'.mmap ELSE area'[Areas[k]].vm_next)
             = IF k < Len(Areas) THEN Areas[k + 1] ELSE NULL
        BY <1>3, <1>5, <2>1
    <2> QED
        BY <1>4, <2>2 DEF Chain
<1>7. \A i, j \in 1..Len(Areas) : i < j => area'[Areas[i]].vm_start <= area'[Areas[j]].vm_start
    BY <1>3 DEF VmInv, Ordered
<1>8. Ordered(area', owner', mm'.mmap, Areas)
    BY <1>2, <1>6, <1>7 DEF VmInv, Ordered
<1> QED
    BY <1>1, <1>2, <1>8, OrderedStep DEF VmInv

LEMMA TlbRefillKeeps ==
    ASSUME VmInv, NEW i \in {0, 1}, TlbRefill(i)
    PROVE  VmInv'
<1> DEFINE need == Needed(i)
           n == IF Len(need) > Cardinality(Free) THEN Cardinality(Free) ELSE Len(need)
<1>1. PICK f \in [1..n -> Free] :
         /\ owner' = [p \in Page |->
               IF p \in {f[j] : j \in {k \in 1..n : need[k] = TABLE}} THEN "table"
               ELSE IF p \in Range(f) THEN "frame" ELSE owner[p]]
         /\ area' = [p \in Page |-> IF p \in Range(f) THEN NoArea ELSE area[p]]
    BY DEF TlbRefill
<1>2. UNCHANGED mm
    BY DEF TlbRefill
<1> HIDE DEF need, n
<1>3. Range(f) \in SUBSET Free
    BY DEF Range
<1>4. {f[j] : j \in {k \in 1..n : need[k] = TABLE}} \subseteq Free
    OBVIOUS
<1>5. NoArea \in AreaRecord
    BY DEF NoArea, AreaRecord, Link
<1>6. area' \in [Page -> AreaRecord] /\ \A p \in Page \ Range(f) : area'[p] = area[p]
    BY <1>1, <1>5 DEF VmInv, VmType
<1>7. owner' \in [Page -> {"free", "area", "table", "frame"}]
    BY <1>1 DEF VmInv, VmType
<1>8. \A p \in Page : (owner'[p] = "area") <=> (owner[p] = "area")
    BY <1>1, <1>3, <1>4 DEF Free
<1> QED
    BY <1>2, <1>3, <1>6, <1>7, <1>8, AreasLeftAlone

LEMMA MmDeleteKeeps ==
    ASSUME VmInv, MmDelete
    PROVE  VmInv'
<1>1. /\ owner' \in [Page -> {"free", "area", "table", "frame"}]
      /\ \A p \in Page : (owner'[p] = "area") <=> (owner[p] = "area")
    BY DEF MmDelete, VmInv, VmType
<1>2. UNCHANGED <<area, mm>> /\ area' \in [Page -> AreaRecord]
    BY DEF MmDelete, VmInv, VmType
<1> QED
    BY <1>1, <1>2, AreasLeftAlone

---------------------------------------------------------------------------
(* The invariant and what it gives.                                        *)

LEMMA InitVm == Init => VmInv
<1> SUFFICES ASSUME Init PROVE VmInv
    OBVIOUS
<1>1. VmType
    BY DEF Init, VmType, NoArea, AreaRecord, Link
<1>2. Allocated(owner) = {}
    BY DEF Init, Allocated
<1>3. <<>> \in Seq(Page) /\ Len(<<>>) = 0 /\ DOMAIN <<>> = {}
    OBVIOUS
<1>4. IsInjective(<<>>)
    BY <1>3 DEF IsInjective
<1>5. mm.mmap = NULL
    BY DEF Init
<1>6. Chain(area, mm.mmap, <<>>)
    BY <1>3, <1>4, <1>5 DEF Chain
<1>7. Ordered(area, owner, mm.mmap, <<>>)
    BY <1>3, <1>6 DEF Ordered
<1>8. Areas = <<>>
    <2>1. area \in [Page -> AreaRecord] /\ mm.mmap \in Link
        BY <1>1 DEF VmType
    <2> QED
        BY <1>6, <2>1, ChainIsMet, AreasAreMet
<1>9. mm.map_count = Cardinality(Allocated(owner))
    BY <1>2, FS_EmptySet DEF Init
<1> QED
    BY <1>1, <1>7, <1>8, <1>9 DEF VmInv

LEMMA NextVm == VmInv /\ [Next]_vars => VmInv'
<1> SUFFICES ASSUME VmInv, [Next]_vars PROVE VmInv'
    OBVIOUS
<1>1. CASE \E a \in Addr, l \in Length : DoMmap(a, l)
    BY <1>1, DoMmapKeeps
<1>2. CASE \E a \in Addr, l \in Length : DoUnmap(a, l)
    BY <1>2, DoUnmapKeeps
<1>3. CASE \E a \in Addr : IsInVma(a)
    BY <1>3, CacheMoves, FindVmaIsLink DEF IsInVma
<1>4. CASE \E i \in {0, 1} : TlbRefill(i)
    BY <1>4, TlbRefillKeeps
<1>5. CASE MmDelete
    BY <1>5, MmDeleteKeeps
<1>6. CASE UNCHANGED vars
    <2>1. mm' = [mm EXCEPT !.mmap_cache = mm.mmap_cache] /\ mm.mmap_cache \in Link
        BY <1>6 DEF vars, VmInv, VmType
    <2>2. UNCHANGED <<owner, area>>
        BY <1>6 DEF vars
    <2> QED
        BY <2>1, <2>2, CacheMoves
<1> QED
    BY <1>1, <1>2, <1>3, <1>4, <1>5, <1>6 DEF Next

\* Through every interleaving of do_mmap, do_unmap, is_in_vma, TLB exceptions
\* and mm_delete the areas stay a list that ends, ordered by their starts.
THEOREM AreasOrdered == Spec => []VmInv
BY InitVm, NextVm, PTL DEF Spec

\* No loop over the areas runs into a page that do_unmap gave back, or round
\* in a circle, whatever insert_vma_struct and do_unmap did to the links.
THEOREM ListStaysLive == Spec => []ListIsLive
<1>1. ASSUME VmInv PROVE ListIsLive
    <2>1. Listed \subseteq {p \in Page : owner[p] = "area"}
        BY <1>1, AreasType DEF Listed, Range
    <2>2. Cardinality(Listed) = Len(Areas)
        <3>1. /\ Areas \in [1..Len(Areas) -> Listed] /\ Len(Areas) \in Nat
              /\ IsInjective(Areas)
            BY <1>1, AreasType DEF Listed, Range, VmInv, Ordered, Chain
        <3>2. Areas \in Surjection(1..Len(Areas), Listed)
            BY <1>1, <3>1, AreasType DEF Surjection, Listed, Range
        <3>3. Areas \in Injection(1..Len(Areas), Listed)
            BY <3>1 DEF Injection
        <3>4. Len(Areas) \in Nat
            BY <3>1
        <3>5. \A n \in Nat : IsFiniteSet(1..n) /\ Cardinality(1..n) = n
            BY FS_Interval
        <3>6. IsFiniteSet(1..Len(Areas)) /\ Cardinality(1..Len(Areas)) = Len(Areas)
            BY <3>4, <3>5
        <3>7. Cardinality(1..Len(Areas)) = Cardinality(Listed)
            BY <3>2, <3>3, <3>6, FS_Surjection, Zenon
        <3> QED
            BY <3>6, <3>7
    <2> QED
        BY <2>1, <2>2 DEF ListIsLive
<1> QED
    BY <1>1, AreasOrdered, PTL

\* map_count stays the number of areas that are allocated, though an area
\* that goes before the first takes the others out of the list.
THEOREM CountStaysExact == Spec => []CountExact
<1>1. VmInv => CountExact
    BY DEF VmInv, Allocated, CountExact
<1> QED
    BY <1>1, AreasOrdered, PTL

\* is_in_vma, by the first area that ends behind the address, tells whether
\* any area of the list holds it: the others start no earlier.
THEOREM IsInVmaStaysExact == Spec => []IsInVmaExact
<1>1. ASSUME VmInv PROVE IsInVmaExact
    <2> SUFFICES ASSUME mm.mmap_cache \in Listed \cup {NULL}, NEW a \in 0..WORD-1
                 PROVE  InVma(a) <=> \E p \in Listed : Contains(p, a)
        BY DEF IsInVmaExact
    <2>1. a \in Int
        BY VmAssumption
    <2>2. \A p \in Page : area[p].vm_start \in Int /\ area[p].vm_end \in Int
        BY <1>1, AreasType
    <2>3. /\ \A i \in 1..Len(Areas) : Areas[i] \in Listed /\ Areas[i] \in Page
          /\ \A p \in Listed : \E i \in 1..Len(Areas) : p = Areas[i]
        BY <1>1, AreasType DEF Listed, Range
    <2>4. NULL \notin Page /\ NULL \notin Listed
        BY <2>3, VmAssumption
    <2>5. CASE mm.mmap_cache # NULL /\ Contains(mm.mmap_cache, a)
        <3>1. FindVma(a) = mm.mmap_cache /\ mm.mmap_cache \in Listed
            BY <2>5 DEF FindVma
        <3> QED
            BY <2>5, <3>1 DEF InVma, Contains
    <2>6. CASE ~(mm.mmap_cache # NULL /\ Contains(mm.mmap_cache, a))
        <3> DEFINE i == FirstBehind(a)
                   At(m) == area[Areas[m]].vm_start
        <3>1. FindVma(a) = AreaAt(i)
            BY <2>6 DEF FindVma
        <3>2. /\ i \in 1..Len(Areas)+1
              /\ i # Len(Areas) + 1 => area[Areas[i]].vm_end > a
              /\ \A j \in 1..Len(Areas) : j < i => area[Areas[j]].vm_end <= a
            BY <1>1, <2>1, FirstBehindIs
        <3>3. DOMAIN Areas = 1..Len(Areas) /\ Len(Areas) \in Nat
            BY <1>1, AreasType
        <3> HIDE DEF i, At
        <3>4. ASSUME NEW p \in Listed, Contains(p, a)
              PROVE  InVma(a)
            <4>1. PICK j \in 1..Len(Areas) : p = Areas[j]
                BY <2>3
            <4>2. At(j) <= a /\ area[Areas[j]].vm_end > a /\ At(j) \in Int
                BY <2>1, <2>2, <2>3, <3>4, <4>1 DEF Contains, At
            <4>3. ~(j < i)
                BY <2>1, <2>2, <2>3, <3>2, <4>2
            <4>4. i \in 1..Len(Areas) /\ i <= j
                BY <3>2, <3>3, <4>3
            <4>5. i < j => At(i) <= At(j)
                <5>1. i \in 1..Len(Areas) /\ j \in 1..Len(Areas)
                    BY <4>4
                <5> QED
                    BY <1>1, <5>1 DEF VmInv, Ordered, At
            <4>6. At(i) \in Int
                BY <2>2, <2>3, <4>4 DEF At
            <4>7. At(i) <= a
                BY <2>1, <4>2, <4>4, <4>5, <4>6
            <4>8. FindVma(a) = Areas[i] /\ Areas[i] # NULL
                BY <2>3, <2>4, <3>1, <3>3, <4>4 DEF AreaAt
            <4> QED
                BY <4>7, <4>8 DEF InVma, At
        <3>5. ASSUME InVma(a)
              PROVE  \E p \in Listed : Contains(p, a)
            <4>1. FindVma(a) # NULL /\ area[FindVma(a)].vm_start <= a
                BY <3>5 DEF InVma
            <4>2. i \in 1..Len(Areas) /\ FindVma(a) = Areas[i]
                BY <3>1, <3>3, <4>1 DEF AreaAt
            <4>3. i # Len(Areas) + 1
                BY <3>3, <4>2
            <4>4. Contains(Areas[i], a) /\ Areas[i] \in Listed
                BY <2>1, <2>2, <2>3, <3>2, <4>1, <4>2, <4>3 DEF Contains
            <4> QED
                BY <4>4
        <3> QED
            BY <3>4, <3>5
    <2> QED
        BY <2>5, <2>6
<1> QED
    BY <1>1, AreasOrdered, PTL
=============================================================================
