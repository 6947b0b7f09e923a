---------------------------- MODULE MemoryProofs ----------------------------
(***************************************************************************)
(* The memory of the kernel, for any number of pages, any largest block    *)
(* and any sizes asked for.                                                *)
(*                                                                         *)
(* The properties speak of pages, the code of flags, levels and lists.     *)
(* What lies between is BuddyInv: the blocks that are on a free list or    *)
(* held are aligned, have no page in common and cover the allocator        *)
(* (Tiles); the lists and the struct pages agree on them (ListsExact,      *)
(* HeldApart).  A split and a merge replace blocks by blocks of the same   *)
(* pages.  init_buddy establishes it from struct pages that carry no flag. *)
(*                                                                         *)
(* It is inductive if kfree never merges a page that is in use             *)
(* (InUseSpared): this is so when only whole pages are asked for, as the   *)
(* flag that __free_pages reads is right then (HeldNotFreeAlways), and not *)
(* for the page of a slab object, where it is an assumption.               *)
(* The boot allocator is sound under no such condition (BootInv).          *)
(***************************************************************************)
EXTENDS Memory, QueuesTheorems

---------------------------------------------------------------------------
(* Arithmetic of blocks.                                                   *)

\* The division of C, for a divisor that is not a literal.
LEMMA Division ==
    ASSUME NEW a \in Int, NEW b \in Nat \ {0}
    PROVE  /\ a \div b \in Int
           /\ (a \div b) * b <= a /\ a < (a \div b) * b + b
OBVIOUS

\* A product grows with its factor.
LEMMA Monotone ==
    ASSUME NEW i \in Int, NEW j \in Int, NEW s \in Nat \ {0}, i <= j
    PROVE  i * s <= j * s
OBVIOUS

\* A factor of products can be left out.
LEMMA Cancels ==
    ASSUME NEW i \in Int, NEW j \in Int, NEW s \in Nat \ {0}, i * s < j * s
    PROVE  i < j
OBVIOUS

\* A product is additive in its factor.
LEMMA Distributes ==
    ASSUME NEW i \in Int, NEW j \in Int, NEW s \in Int
    PROVE  /\ (i + j) * s = i * s + j * s
           /\ (i - j) * s = i * s - j * s
           /\ (i + 1) * s = i * s + s
           /\ (i - 1) * s = i * s - s
           /\ i * (j * s) = (i * j) * s
           /\ i * (2 * s) = (2 * i) * s
OBVIOUS

\* The quotient is the only whole number of times that fits.
LEMMA Quotient ==
    ASSUME NEW a \in Int, NEW s \in Nat \ {0}, NEW i \in Int, i * s <= a, a < i * s + s
    PROVE  a \div s = i
<1> DEFINE d == a \div s
<1>1. d \in Int /\ d * s <= a /\ a < d * s + s
    BY Division
<1> HIDE DEF d
<1>2. d * s < (i + 1) * s /\ i * s < (d + 1) * s
    BY <1>1, Distributes
<1>3. d < i + 1
    BY <1>1, <1>2, Cancels
<1>4. i < d + 1
    BY <1>1, <1>2, Cancels
<1> QED
    BY <1>1, <1>3, <1>4 DEF d

---------------------------------------------------------------------------
\* The recursion of Pow2 defines a function.
LEMMA Pow2Unfolds ==
    /\ Pow2[0] = 1
    /\ \A k \in Nat : Pow2[k] \in Nat \ {0} /\ Pow2[k + 1] = 2 * Pow2[k]
<1> DEFINE S == Nat \ {0}
           double == [x \in S |-> 2 * x]
<1>1. double \in [S -> S] /\ 1 \in S
    OBVIOUS
<1>2. ASSUME NEW n \in Nat
      PROVE  \E f : Iterates(S, 1, double, n, f)
    <2> HIDE DEF S, double
    <2> QED
        BY <1>1, Iteration
<1> DEFINE it(n) == CHOOSE f : Iterates(S, 1, double, n, f)
<1>3. ASSUME NEW n \in Nat
      PROVE  Iterates(S, 1, double, n, it(n))
    BY <1>2, Zenon
<1> HIDE DEF it
<1>4. ASSUME NEW n \in Nat
      PROVE  it(n)[0] = 1 /\ it(n)[n] \in S
             /\ \A k \in 1..n : it(n)[k] = 2 * it(n)[k-1] /\ it(n)[k-1] \in S
    <2>1. /\ it(n) \in [0..n -> S] /\ it(n)[0] = 1
          /\ \A k \in 1..n : it(n)[k] = double[it(n)[k-1]]
        BY <1>3, Zenon DEF Iterates
    <2>2. \A k \in 0..n : it(n)[k] \in S
        BY <2>1, Zenon
    <2> HIDE DEF S
    <2>3. n \in 0..n /\ \A k \in 1..n : k - 1 \in 0..n
        OBVIOUS
    <2>4. \A k \in 1..n : double[it(n)[k-1]] = 2 * it(n)[k-1]
        BY <2>2, <2>3
    <2> QED
        BY <2>1, <2>2, <2>3, <2>4, Zenon
<1>5. ASSUME NEW n \in Nat
      PROVE  it(n + 1)[n] = it(n)[n]
    <2> DEFINE Same == {k \in 0..n : it(n + 1)[k] = it(n)[k]}
    <2>1. 0 \in Same
        BY <1>4
    <2>2. ASSUME NEW k \in 0..n-1, k \in Same
          PROVE  k + 1 \in Same
        <3>1. k + 1 \in 1..n /\ k + 1 \in 1..n + 1 /\ k + 1 - 1 = k
            OBVIOUS
        <3>2. it(n)[k + 1] = 2 * it(n)[k] /\ it(n + 1)[k + 1] = 2 * it(n + 1)[k]
            BY <1>4, <3>1
        <3> QED
            BY <2>2, <3>1, <3>2
    <2> HIDE DEF Same
    <2>3. 0..n \subseteq Same
        BY <2>1, <2>2, CountUp
    <2> QED
        BY <2>3 DEF Same
<1> DEFINE g == [n \in Nat |-> it(n)[n]]
<1>6. \A n \in Nat : g[n] = IF n = 0 THEN 1 ELSE 2 * g[n-1]
    <2> SUFFICES ASSUME NEW n \in Nat, n # 0
                 PROVE  it(n)[n] = 2 * it(n - 1)[n - 1]
        BY <1>4
    <2>1. n - 1 \in Nat /\ n - 1 + 1 = n /\ n \in 1..n
        OBVIOUS
    <2>2. it(n)[n] = 2 * it(n)[n - 1]
        BY <1>4, <2>1
    <2> QED
        BY <1>5, <2>1, <2>2
<1>7. g = [n \in Nat |-> IF n = 0 THEN 1 ELSE 2 * g[n-1]]
    BY <1>6
<1>8. Pow2 = [n \in Nat |-> IF n = 0 THEN 1 ELSE 2 * Pow2[n-1]]
    <2> HIDE DEF g
    <2> QED
        BY <1>7, Zenon DEF Pow2
<1> HIDE DEF g
<1>9. Pow2[0] = 1 /\ \A k \in Nat : Pow2[k + 1] = 2 * Pow2[k]
    BY <1>8
<1>10. \A n \in Nat : Pow2[n] \in S
    <2> SUFFICES ASSUME NEW n \in Nat
                 PROVE  Pow2[n] \in S
        OBVIOUS
    <2> DEFINE Good == {k \in 0..n : Pow2[k] \in S}
    <2>1. 0 \in Good
        BY <1>9
    <2>2. ASSUME NEW k \in 0..n-1, k \in Good
          PROVE  k + 1 \in Good
        BY <1>9, <2>2
    <2> HIDE DEF Good
    <2>3. 0..n \subseteq Good
        BY <2>1, <2>2, CountUp
    <2> QED
        BY <2>3 DEF Good
<1> QED
    BY <1>9, <1>10

\* The size of a block divides that of every larger one.
LEMMA Pow2Divides ==
    ASSUME NEW k \in Nat, NEW l \in Nat, k <= l
    PROVE  \E r \in Nat \ {0} : Pow2[l] = r * Pow2[k]
<1> DEFINE Good == {d \in 0..l-k : \E r \in Nat \ {0} : Pow2[k + d] = r * Pow2[k]}
<1>1. 0 \in Good
    <2>1. Pow2[k + 0] = 1 * Pow2[k]
        BY Pow2Unfolds
    <2> QED
        BY <2>1
<1>2. ASSUME NEW d \in 0..(l-k)-1, d \in Good
      PROVE  d + 1 \in Good
    <2>1. PICK r \in Nat \ {0} : Pow2[k + d] = r * Pow2[k]
        BY <1>2
    <2>2. Pow2[k + (d + 1)] = 2 * Pow2[k + d] /\ Pow2[k] \in Nat
        BY Pow2Unfolds
    <2>3. Pow2[k + (d + 1)] = (2 * r) * Pow2[k]
        BY <2>1, <2>2
    <2> QED
        BY <2>3
<1> HIDE DEF Good
<1>3. 0..l-k \subseteq Good
    BY <1>1, <1>2, CountUp
<1>4. l - k \in Good /\ k + (l - k) = l
    BY <1>3
<1> QED
    BY <1>4 DEF Good

---------------------------------------------------------------------------
(* Blocks: aligned to their size, nested or apart.                         *)

Aligned(s, c, k) == \E i \in Nat : c = s + i * Pow2[k]

\* Of two aligned blocks that share a page the larger contains the smaller.
LEMMA Nested ==
    ASSUME NEW s \in Nat, NEW k \in Nat, NEW l \in Nat, k <= l,
           NEW c, NEW d, Aligned(s, c, k), Aligned(s, d, l),
           NEW q \in Int, c <= q, q < c + Pow2[k], d <= q, q < d + Pow2[l]
    PROVE  d <= c /\ c + Pow2[k] <= d + Pow2[l]
<1>1. PICK i \in Nat : c = s + i * Pow2[k]
    BY DEF Aligned
<1>2. PICK j \in Nat : d = s + j * Pow2[l]
    BY DEF Aligned
<1>3. PICK r \in Nat \ {0} : Pow2[l] = r * Pow2[k]
    BY Pow2Divides
<1> DEFINE S == Pow2[k]
           a == j * r
<1>4. S \in Nat \ {0} /\ a \in Int
    BY Pow2Unfolds
<1>5. j * Pow2[l] = a * S
    BY <1>3, <1>4, Distributes
<1>6. (a + r) * S = a * S + r * S /\ (i + 1) * S = i * S + S
    BY <1>4, Distributes
<1> DEFINE iS == i * S
           aS == a * S
           rS == r * S
<1>7. c = s + iS /\ d = s + aS /\ Pow2[l] = rS /\ iS \in Int /\ aS \in Int /\ rS \in Int
    BY <1>1, <1>2, <1>3, <1>4, <1>5
<1>8. aS < (i + 1) * S /\ iS < (a + r) * S
    <2> HIDE DEF aS, iS, rS
    <2>1. aS < iS + S /\ iS < aS + rS
        BY <1>4, <1>7
    <2> QED
        BY <2>1, <1>6 DEF aS, iS, rS
<1>9. a < i + 1
    <2> HIDE DEF a, S
    <2> QED
        BY <1>4, <1>8, Cancels
<1>10. i < a + r
    <2> HIDE DEF a, S
    <2> QED
        BY <1>4, <1>8, Cancels
<1>11. a * S <= i * S
    <2> HIDE DEF S
    <2> QED
        BY <1>4, <1>9, Monotone
<1>12. (i + 1) * S <= (a + r) * S
    <2> HIDE DEF S
    <2> QED
        BY <1>4, <1>10, Monotone
<1>13. aS <= iS /\ iS + S <= aS + rS
    BY <1>6, <1>11, <1>12
<1> HIDE DEF aS, iS, rS
<1> QED
    BY <1>4, <1>7, <1>13

\* BlockOf is the aligned block around a page.
LEMMA BlockAround ==
    ASSUME NEW m, m.start \in Nat, NEW p \in Nat, m.start <= p, NEW k \in Nat
    PROVE  /\ BlockOf(m, p, k) \in Nat
           /\ Aligned(m.start, BlockOf(m, p, k), k)
           /\ BlockOf(m, p, k) <= p /\ p < BlockOf(m, p, k) + Pow2[k]
<1> DEFINE S == Pow2[k]
           d == (p - m.start) \div S
<1>1. S \in Nat \ {0}
    BY Pow2Unfolds
<1>2. d \in Int /\ d * S <= p - m.start /\ p - m.start < d * S + S
    <2> DEFINE a == p - m.start
    <2>1. a \in Int
        OBVIOUS
    <2> HIDE DEF S, a
    <2>2. a \div S \in Int /\ (a \div S) * S <= a /\ a < (a \div S) * S + S
        BY <1>1, <2>1, Division
    <2> QED
        BY <2>2 DEF a
<1>3. BlockOf(m, p, k) = m.start + d * S
    BY DEF BlockOf
<1> HIDE DEF d, S
<1>4. (-1 + 1) * S = 0 * S /\ 0 * S = 0 /\ (d + 1) * S = d * S + S
    BY <1>1, <1>2
<1>5. 0 * S < (d + 1) * S
    BY <1>1, <1>2, <1>4
<1>6. 0 < d + 1
    BY <1>1, <1>2, <1>5, Cancels
<1>7. d \in Nat /\ d * S \in Nat
    <2>1. d \in Nat
        BY <1>2, <1>6
    <2>2. 0 * S <= d * S
        BY <2>1, <1>1, Monotone
    <2> QED
        BY <2>1, <2>2, <1>1, <1>4
<1>8. Aligned(m.start, BlockOf(m, p, k), k)
    BY <1>3, <1>7 DEF Aligned, S
<1>9. /\ BlockOf(m, p, k) \in Nat /\ BlockOf(m, p, k) <= p
      /\ p < BlockOf(m, p, k) + S
    BY <1>1, <1>2, <1>3, <1>7
<1> QED
    BY <1>8, <1>9 DEF S

\* The block of level k that holds p is the aligned one around p.
LEMMA BlockIs ==
    ASSUME NEW m, m.start \in Nat, NEW p \in Int, NEW k \in Nat, NEW c,
           Aligned(m.start, c, k), c <= p, p < c + Pow2[k]
    PROVE  BlockOf(m, p, k) = c
<1>1. PICK i \in Nat : c = m.start + i * Pow2[k]
    BY DEF Aligned
<1> DEFINE S == Pow2[k]
           a == p - m.start
<1>2. S \in Nat \ {0}
    BY Pow2Unfolds
<1>3. i * S <= a /\ a < i * S + S /\ a \in Int
    BY <1>1, <1>2
<1>4. a \div S = i
    <2> HIDE DEF a, S
    <2> QED
        BY <1>2, <1>3, Quotient
<1> QED
    BY <1>1, <1>4 DEF BlockOf

\* A block of the next level is a block and its buddy.
LEMMA Halves ==
    ASSUME NEW m, m.start \in Nat, NEW p \in Nat, m.start <= p, NEW k \in Nat
    PROVE  /\ Aligned(m.start, BuddyOf(m, p, k), k)
           /\ \/ /\ BlockOf(m, p, k) = BlockOf(m, p, k + 1)
                 /\ BuddyOf(m, p, k) = BlockOf(m, p, k + 1) + Pow2[k]
              \/ /\ BuddyOf(m, p, k) = BlockOf(m, p, k + 1)
                 /\ BlockOf(m, p, k) = BlockOf(m, p, k + 1) + Pow2[k]
<1> DEFINE S == Pow2[k]
           h == BlockOf(m, p, k)
<1>1. S \in Nat \ {0} /\ Pow2[k + 1] = 2 * S /\ k + 1 \in Nat
    BY Pow2Unfolds
<1>2. Aligned(m.start, h, k) /\ h <= p /\ p < h + S /\ h \in Nat
    BY BlockAround
<1>3. PICK i \in Nat : h = m.start + i * S
    BY <1>2 DEF Aligned
<1>4. (h - m.start) \div S = i
    <2> DEFINE a == h - m.start
    <2>1. i * S <= a /\ a < i * S + S /\ a \in Int
        BY <1>1, <1>2, <1>3
    <2> HIDE DEF a, S, h
    <2>2. a \div S = i
        BY <1>1, <2>1, Quotient, SMTT(40)
    <2> QED
        BY <2>2 DEF a
<1>5. BuddyOf(m, p, k) = IF i % 2 = 0 THEN h + S ELSE h - S
    BY <1>4 DEF BuddyOf
<1> HIDE DEF h, S
<1>6. CASE i % 2 = 0
    <2>1. PICK e \in Nat : i = 2 * e
        BY <1>6
    <2>2. h = m.start + e * Pow2[k + 1]
        BY <2>1, <1>1, <1>3
    <2>3. Aligned(m.start, h, k + 1)
        BY <2>2 DEF Aligned
    <2>4. BlockOf(m, p, k + 1) = h
        <3>1. p < h + Pow2[k + 1]
            BY <1>1, <1>2
        <3>2. p \in Int /\ k + 1 \in Nat
            OBVIOUS
        <3> QED
            BY <2>3, <3>1, <3>2, <1>2, BlockIs, Zenon
    <2>5. (i + 1) * S = i * S + S /\ i + 1 \in Nat
        BY <1>1, Distributes
    <2>6. h + S = m.start + (i + 1) * S
        BY <2>5, <1>1, <1>2, <1>3
    <2>7. Aligned(m.start, h + S, k)
        BY <2>5, <2>6 DEF Aligned, S
    <2> QED
        BY <2>4, <2>7, <1>5, <1>6 DEF h, S
<1>7. CASE i % 2 # 0
    <2>1. PICK e \in Nat : i = 2 * e + 1
        BY <1>7
    <2>2. (i - 1) * S = i * S - S /\ i - 1 \in Nat /\ i - 1 = 2 * e
        BY <1>1, <2>1, Distributes
    <2>3. h - S = m.start + (i - 1) * S /\ (i - 1) * S \in Int
        BY <2>2, <1>1, <1>2, <1>3
    <2>4. h - S = m.start + e * Pow2[k + 1]
        BY <2>2, <2>3, <1>1, Distributes
    <2>5. Aligned(m.start, h - S, k + 1) /\ Aligned(m.start, h - S, k)
        BY <2>2, <2>3, <2>4 DEF Aligned, S
    <2>6. h - S <= p /\ p < h - S + Pow2[k + 1]
        BY <1>1, <1>2
    <2>7. BlockOf(m, p, k + 1) = h - S
        BY <2>5, <2>6, <1>1, BlockIs
    <2>8. h = h - S + S
        BY <1>1, <1>2
    <2> QED
        BY <2>5, <2>7, <2>8, <1>5, <1>7 DEF h, S
<1> QED
    BY <1>6, <1>7

---------------------------------------------------------------------------
(* The pages of the allocator divided into blocks.                         *)

InBlock(q, b) == b[1] <= q /\ q < b[1] + Pow2[b[2]]

\* A block of the allocator m.
IsBlock(m, b) == Aligned(m.start, b[1], b[2]) /\ b[1] + Pow2[b[2]] <= m.end

Apart(B) == \A b, c \in B, q \in Int : InBlock(q, b) /\ InBlock(q, c) => b = c

Covered(B, q) == \E b \in B : InBlock(q, b)

\* The blocks B are apart and cover the pages of the allocator.
Tiles(m, B) ==
    /\ B \subseteq Nat \X Order
    /\ \A b \in B : IsBlock(m, b)
    /\ Apart(B)
    /\ \A q \in m.start..m.end-1 : Covered(B, q)

\* The allocator has whole blocks of the largest size.
Whole(m) ==
    /\ m.start \in Nat /\ m.end \in Nat
    /\ \E n \in Int : m.end = m.start + n * Pow2[MAX_BUDDY_ORDER]

\* Levels are natural numbers.
LEMMA OrderIsNat == Order \subseteq Nat /\ MAX_BUDDY_ORDER \in Order
BY OrderAssumption DEF Order

\* A block of a higher level is no smaller.
LEMMA Pow2Grows ==
    ASSUME NEW k \in Nat, NEW l \in Nat, k <= l
    PROVE  Pow2[k] <= Pow2[l]
<1>1. PICK r \in Nat \ {0} : Pow2[l] = r * Pow2[k]
    BY Pow2Divides
<1> DEFINE S == Pow2[k]
<1>2. S \in Nat \ {0}
    BY Pow2Unfolds
<1>3. 1 * S <= r * S /\ 1 * S = S
    <2> HIDE DEF S
    <2> QED
        BY <1>2, Monotone
<1> QED
    BY <1>1, <1>3

\* What is aligned for a level is aligned for every lower one.
LEMMA AlignedBelow ==
    ASSUME NEW s \in Nat, NEW k \in Nat, NEW l \in Nat, k <= l, NEW c, Aligned(s, c, l)
    PROVE  c \in Nat /\ Aligned(s, c, k)
<1>1. PICK i \in Nat : c = s + i * Pow2[l]
    BY DEF Aligned
<1>2. PICK r \in Nat \ {0} : Pow2[l] = r * Pow2[k]
    BY Pow2Divides
<1>3. Pow2[k] \in Nat \ {0} /\ Pow2[l] \in Nat \ {0}
    BY Pow2Unfolds
<1>4. i * Pow2[l] = (i * r) * Pow2[k] /\ i * r \in Nat /\ i * Pow2[l] \in Nat
    <2> DEFINE S == Pow2[k]
    <2>1. S \in Int /\ i \in Int /\ r \in Int
        BY <1>3
    <2> HIDE DEF S
    <2>2. i * (r * S) = (i * r) * S
        BY <2>1, Distributes
    <2>3. i * r \in Nat /\ i * Pow2[l] \in Nat
        BY <1>3
    <2> QED
        BY <2>2, <2>3, <1>2 DEF S
<1> QED
    BY <1>1, <1>4 DEF Aligned

\* The blocks Old give way to blocks New of the same pages.
LEMMA Replace ==
    ASSUME NEW m, NEW B, NEW Old, NEW New, Tiles(m, B), Old \subseteq B,
           New \subseteq Nat \X Order, \A b \in New : IsBlock(m, b), Apart(New),
           \A q \in Int : Covered(New, q) <=> Covered(Old, q)
    PROVE  Tiles(m, (B \ Old) \cup New)
<1> DEFINE C == (B \ Old) \cup New
<1>1. ASSUME NEW b \in B \ Old, NEW c \in New, NEW q \in Int, InBlock(q, b), InBlock(q, c)
      PROVE  FALSE
    <2>1. PICK d \in Old : InBlock(q, d)
        BY <1>1 DEF Covered
    <2> QED
        BY <1>1, <2>1 DEF Tiles, Apart
<1>2. Apart(C)
    BY <1>1 DEF Tiles, Apart
<1>3. \A q \in m.start..m.end-1 : Covered(C, q)
    <2> SUFFICES ASSUME NEW q \in m.start..m.end-1 PROVE Covered(C, q)
        OBVIOUS
    <2>1. PICK b \in B : InBlock(q, b)
        BY DEF Tiles, Covered
    <2>2. CASE b \in Old
        <3>1. Covered(Old, q)
            BY <2>1, <2>2 DEF Covered
        <3>2. Covered(New, q)
            BY <3>1
        <3> QED
            BY <3>2 DEF Covered
    <2> QED
        BY <2>1, <2>2 DEF Covered
<1> QED
    BY <1>2, <1>3 DEF Tiles

---------------------------------------------------------------------------
\* What __alloc_pages makes of a block: its beginning, of level to, and the
\* second halves.
Half(p, j) == <<p + Pow2[j], j>>
Parts(p, from, to) == {<<p, to>>} \cup {Half(p, j) : j \in to..from-1}

\* The parts have the pages of the block they are cut from.
LEMMA PartsCover ==
    ASSUME NEW p \in Nat, NEW from \in Nat, NEW to \in Nat, to <= from, NEW q \in Int
    PROVE  Covered(Parts(p, from, to), q) <=> InBlock(q, <<p, from>>)
<1> DEFINE Good == {d \in 0..from-to :
                       Covered(Parts(p, to + d, to), q) <=> InBlock(q, <<p, to + d>>)}
<1>1. 0 \in Good
    <2>1. to + 0 = to /\ to..(to + 0)-1 = {} /\ 0 \in 0..from-to
        OBVIOUS
    <2>2. Parts(p, to + 0, to) = {<<p, to>>}
        BY <2>1, Zenon DEF Parts
    <2>3. Covered(Parts(p, to + 0, to), q) <=> InBlock(q, <<p, to + 0>>)
        BY <2>1, <2>2, Zenon DEF Covered
    <2> QED
        BY <2>1, <2>3, Zenon
<1>2. ASSUME NEW d \in 0..(from-to)-1, d \in Good
      PROVE  d + 1 \in Good
    <2> DEFINE j == to + d
    <2>1. /\ j \in Nat /\ to + (d + 1) = j + 1 /\ to..(j + 1)-1 = (to..j-1) \cup {j}
          /\ d + 1 \in 0..from-to
        OBVIOUS
    <2>2. Pow2[j] \in Nat /\ Pow2[j + 1] = 2 * Pow2[j]
        BY <2>1, Pow2Unfolds
    <2>3. Parts(p, j + 1, to) = Parts(p, j, to) \cup {Half(p, j)}
        BY <2>1, Zenon DEF Parts
    <2>4. Covered(Parts(p, j + 1, to), q)
            <=> Covered(Parts(p, j, to), q) \/ InBlock(q, Half(p, j))
        BY <2>3, Zenon DEF Covered
    <2>5. Covered(Parts(p, j, to), q) <=> InBlock(q, <<p, j>>)
        BY <1>2, Zenon
    <2>6. InBlock(q, <<p, j + 1>>) <=> InBlock(q, <<p, j>>) \/ InBlock(q, Half(p, j))
        <3> HIDE DEF j
        <3> QED
            BY <2>1, <2>2 DEF InBlock, Half
    <2> QED
        BY <2>1, <2>4, <2>5, <2>6, Zenon
<1> HIDE DEF Good
<1>3. 0..from-to \subseteq Good
    <2>1. from - to \in Nat
        OBVIOUS
    <2> DEFINE n == from - to
    <2> HIDE DEF n
    <2>2. \A d \in 0..n-1 : d \in Good => d + 1 \in Good
        BY <1>2, Zenon DEF n
    <2>3. 0..n \subseteq Good
        BY <1>1, <2>1, <2>2, CountUp DEF n
    <2> QED
        BY <2>3 DEF n
<1>4. from - to \in Good /\ to + (from - to) = from
    BY <1>3
<1> QED
    BY <1>4, Zenon DEF Good

\* A block that is split leaves the pages divided into blocks.
LEMMA SplitTiles ==
    ASSUME NEW m, m.start \in Nat, m.end \in Nat, NEW B, Tiles(m, B),
           NEW p, NEW from \in Order, NEW to \in Order, to <= from, <<p, from>> \in B
    PROVE  Tiles(m, (B \ {<<p, from>>}) \cup Parts(p, from, to))
<1>1. /\ p \in Nat /\ from \in Nat /\ to \in Nat /\ Aligned(m.start, p, from)
      /\ p + Pow2[from] <= m.end
    BY OrderIsNat DEF Tiles, IsBlock
<1>2. ASSUME NEW j \in to..from-1
      PROVE  /\ j \in Order /\ p + Pow2[j] \in Nat
             /\ IsBlock(m, <<p + Pow2[j], j>>)
    <2>1. j \in Nat /\ j \in Order /\ j <= from /\ j + 1 <= from /\ j + 1 \in Nat
        BY <1>1, OrderAssumption DEF Order
    <2>2. Aligned(m.start, p, j)
        BY <1>1, <2>1, AlignedBelow
    <2>3. PICK i \in Nat : p = m.start + i * Pow2[j]
        BY <2>2 DEF Aligned
    <2>4. Pow2[j] \in Nat \ {0} /\ Pow2[j + 1] = 2 * Pow2[j]
        BY <2>1, Pow2Unfolds
    <2>5. (i + 1) * Pow2[j] = i * Pow2[j] + Pow2[j] /\ i + 1 \in Nat
        BY <2>4
    <2>6. p + Pow2[j] = m.start + (i + 1) * Pow2[j]
        BY <2>3, <2>4, <2>5
    <2>7. Aligned(m.start, p + Pow2[j], j)
        BY <2>5, <2>6 DEF Aligned
    <2>8. Pow2[j + 1] <= Pow2[from] /\ Pow2[from] \in Nat
        BY <1>1, <2>1, Pow2Grows, Pow2Unfolds
    <2>9. p + Pow2[j] + Pow2[j] <= m.end
        BY <1>1, <2>4, <2>8
    <2> QED
        BY <1>1, <2>1, <2>4, <2>7, <2>9 DEF IsBlock
<1>3. IsBlock(m, <<p, to>>)
    <2>1. Aligned(m.start, p, to)
        BY <1>1, AlignedBelow
    <2>2. Pow2[to] <= Pow2[from] /\ Pow2[from] \in Nat /\ Pow2[to] \in Nat
        BY <1>1, Pow2Grows, Pow2Unfolds
    <2> QED
        BY <1>1, <2>1, <2>2 DEF IsBlock
<1> DEFINE New == Parts(p, from, to)
<1>4. New \subseteq Nat \X Order /\ \A b \in New : IsBlock(m, b)
    BY <1>1, <1>2, <1>3 DEF Parts, Half
<1>5. Apart(New)
    <2>1. ASSUME NEW i \in to..from-1, NEW q \in Int, InBlock(q, <<p, to>>)
          PROVE  ~InBlock(q, Half(p, i))
        <3>1. Pow2[to] <= Pow2[i] /\ Pow2[i] \in Nat /\ Pow2[to] \in Nat
            BY <1>1, Pow2Grows, Pow2Unfolds
        <3> QED
            BY <1>1, <2>1, <3>1 DEF InBlock, Half
    <2>2. ASSUME NEW i \in to..from-1, NEW j \in to..from-1, i < j, NEW q \in Int,
                 InBlock(q, Half(p, i))
          PROVE  ~InBlock(q, Half(p, j))
        <3>1. Pow2[i + 1] <= Pow2[j] /\ Pow2[j] \in Nat
              /\ Pow2[i] \in Nat /\ Pow2[i + 1] = 2 * Pow2[i]
            BY <1>1, <2>2, Pow2Grows, Pow2Unfolds
        <3> QED
            BY <1>1, <2>2, <3>1 DEF InBlock, Half
    <2>3. \A i, j \in to..from-1 : i < j \/ j < i \/ i = j
        BY <1>1
    <2> SUFFICES ASSUME NEW b \in New, NEW c \in New, NEW q \in Int,
                        InBlock(q, b), InBlock(q, c)
                 PROVE  b = c
        BY Zenon DEF Apart
    <2>4. /\ b = <<p, to>> \/ \E i \in to..from-1 : b = Half(p, i)
          /\ c = <<p, to>> \/ \E i \in to..from-1 : c = Half(p, i)
        BY Zenon DEF Parts
    <2> QED
        BY <2>1, <2>2, <2>3, <2>4, Zenon
<1>6. \A q \in Int : Covered(New, q) <=> Covered({<<p, from>>}, q)
    <2> SUFFICES ASSUME NEW q \in Int
                 PROVE  Covered(New, q) <=> Covered({<<p, from>>}, q)
        OBVIOUS
    <2>1. Covered(New, q) <=> InBlock(q, <<p, from>>)
        BY <1>1, PartsCover
    <2> QED
        BY <2>1, Zenon DEF Covered
<1> HIDE DEF New
<1>7. Tiles(m, (B \ {<<p, from>>}) \cup New)
    BY <1>4, <1>5, <1>6, Replace
<1> QED
    BY <1>7 DEF New

---------------------------------------------------------------------------
\* What __free_pages puts together: the block that is freed and the buddies it
\* takes in on the way up.
BuddyBlock(m, p, j) == <<BuddyOf(m, p, j), j>>
Merged(m, p, k, top) == {<<p, k>>} \cup {BuddyBlock(m, p, j) : j \in k..top-1}

\* The blocks that are merged have the pages of the block they become.
LEMMA MergedCover ==
    ASSUME NEW m, m.start \in Nat, NEW p \in Nat, m.start <= p,
           NEW k \in Nat, NEW top \in Nat, k <= top, Aligned(m.start, p, k), NEW q \in Int
    PROVE  Covered(Merged(m, p, k, top), q)
                <=> InBlock(q, <<BlockOf(m, p, top), top>>)
<1> DEFINE Good == {d \in 0..top-k :
                       Covered(Merged(m, p, k, k + d), q)
                            <=> InBlock(q, <<BlockOf(m, p, k + d), k + d>>)}
<1>1. 0 \in Good
    <2>1. k + 0 = k /\ k..(k + 0)-1 = {} /\ 0 \in 0..top-k
        OBVIOUS
    <2>2. Merged(m, p, k, k + 0) = {<<p, k>>}
        BY <2>1, Zenon DEF Merged
    <2>3. BlockOf(m, p, k) = p
        <3>1. p \in Int /\ p <= p /\ p < p + Pow2[k]
            BY Pow2Unfolds
        <3> QED
            BY <3>1, BlockIs
    <2>4. Covered(Merged(m, p, k, k + 0), q) <=> InBlock(q, <<BlockOf(m, p, k + 0), k + 0>>)
        BY <2>1, <2>2, <2>3, Zenon DEF Covered
    <2> QED
        BY <2>1, <2>4, Zenon
<1>2. ASSUME NEW d \in 0..(top-k)-1, d \in Good
      PROVE  d + 1 \in Good
    <2> DEFINE j == k + d
    <2>1. /\ j \in Nat /\ k + (d + 1) = j + 1 /\ k..(j + 1)-1 = (k..j-1) \cup {j}
          /\ d + 1 \in 0..top-k
        OBVIOUS
    <2>2. Pow2[j] \in Nat /\ Pow2[j + 1] = 2 * Pow2[j]
        BY <2>1, Pow2Unfolds
    <2>3. Merged(m, p, k, j + 1) = Merged(m, p, k, j) \cup {BuddyBlock(m, p, j)}
        BY <2>1, Zenon DEF Merged
    <2>4. Covered(Merged(m, p, k, j + 1), q)
            <=> Covered(Merged(m, p, k, j), q) \/ InBlock(q, BuddyBlock(m, p, j))
        BY <2>3, Zenon DEF Covered
    <2>5. Covered(Merged(m, p, k, j), q) <=> InBlock(q, <<BlockOf(m, p, j), j>>)
        BY <1>2, Zenon
    <2>6. InBlock(q, <<BlockOf(m, p, j + 1), j + 1>>)
            <=> InBlock(q, <<BlockOf(m, p, j), j>>) \/ InBlock(q, BuddyBlock(m, p, j))
        <3> DEFINE H == BlockOf(m, p, j + 1)
                   h == BlockOf(m, p, j)
                   b == BuddyOf(m, p, j)
        <3> HIDE DEF j
        <3>1. H \in Nat
            BY <2>1, BlockAround
        <3>2. (h = H /\ b = H + Pow2[j]) \/ (b = H /\ h = H + Pow2[j])
            BY <2>1, Halves
        <3>3. /\ InBlock(q, <<H, j + 1>>) <=> H <= q /\ q < H + 2 * Pow2[j]
              /\ InBlock(q, <<h, j>>) <=> h <= q /\ q < h + Pow2[j]
              /\ InBlock(q, BuddyBlock(m, p, j)) <=> b <= q /\ q < b + Pow2[j]
            BY <2>2 DEF InBlock, BuddyBlock
        <3> HIDE DEF H, h, b
        <3>4. InBlock(q, <<H, j + 1>>)
                <=> InBlock(q, <<h, j>>) \/ InBlock(q, BuddyBlock(m, p, j))
            BY <2>2, <3>1, <3>2, <3>3
        <3> QED
            BY <3>4 DEF H, h
    <2> QED
        BY <2>1, <2>4, <2>5, <2>6, Zenon
<1> HIDE DEF Good
<1>3. 0..top-k \subseteq Good
    <2>1. top - k \in Nat
        OBVIOUS
    <2> DEFINE n == top - k
    <2> HIDE DEF n
    <2>2. \A d \in 0..n-1 : d \in Good => d + 1 \in Good
        BY <1>2, Zenon DEF n
    <2>3. 0..n \subseteq Good
        BY <1>1, <2>1, <2>2, CountUp DEF n
    <2> QED
        BY <2>3 DEF n
<1>4. top - k \in Good /\ k + (top - k) = top
    BY <1>3
<1> QED
    BY <1>4, Zenon DEF Good

\* A block lies in the allocator.
LEMMA BlockManaged ==
    ASSUME NEW m, m.start \in Nat, m.end \in Nat, NEW p, NEW k \in Nat,
           IsBlock(m, <<p, k>>)
    PROVE  p \in Nat /\ m.start <= p /\ p < m.end /\ p + Pow2[k] <= m.end
<1>1. Aligned(m.start, p, k) /\ p + Pow2[k] <= m.end
    BY DEF IsBlock
<1>2. PICK i \in Nat : p = m.start + i * Pow2[k]
    BY <1>1 DEF Aligned
<1>3. Pow2[k] \in Nat \ {0} /\ i * Pow2[k] \in Nat
    BY Pow2Unfolds
<1> QED
    BY <1>1, <1>2, <1>3

\* The blocks of the largest size, and so the smaller ones around a page of the
\* allocator, end inside it.
LEMMA BlockInside ==
    ASSUME NEW m, Whole(m), NEW p \in Nat, m.start <= p, p < m.end, NEW k \in Order
    PROVE  IsBlock(m, <<BlockOf(m, p, k), k>>)
<1> DEFINE M == MAX_BUDDY_ORDER
           S == Pow2[M]
           T == BlockOf(m, p, M)
           h == BlockOf(m, p, k)
<1>1. /\ m.start \in Nat /\ m.end \in Nat /\ k \in Nat /\ M \in Nat /\ k <= M
      /\ S \in Nat \ {0} /\ Pow2[k] \in Nat
    BY OrderIsNat, OrderAssumption, Pow2Unfolds DEF Whole, Order
<1>2. PICK n \in Int : m.end = m.start + n * S
    BY DEF Whole
<1>3. Aligned(m.start, T, M) /\ T <= p /\ p < T + S /\ T \in Nat
    BY <1>1, BlockAround
<1>4. PICK i \in Nat : T = m.start + i * S
    BY <1>3 DEF Aligned
<1>5. T + S <= m.end
    <2> HIDE DEF S, T
    <2>1. i * S < n * S
        BY <1>1, <1>2, <1>3, <1>4
    <2>2. i < n
        BY <1>1, <2>1, Cancels
    <2>3. i + 1 <= n /\ i + 1 \in Int
        BY <2>2
    <2>4. (i + 1) * S <= n * S
        BY <1>1, <2>3, Monotone
    <2>5. (i + 1) * S = i * S + S /\ i * S \in Int
        BY <1>1
    <2> QED
        BY <1>1, <1>2, <1>4, <2>4, <2>5
<1>6. Aligned(m.start, h, k) /\ h <= p /\ p < h + Pow2[k] /\ h \in Nat
    BY <1>1, BlockAround
<1>7. h + Pow2[k] <= T + S
    <2>1. p \in Int /\ p < T + Pow2[M]
        BY <1>3
    <2> HIDE DEF h, T, M
    <2> QED
        BY <1>1, <1>3, <1>6, <2>1, Nested, Zenon
<1> QED
    BY <1>1, <1>3, <1>5, <1>6, <1>7 DEF IsBlock

\* The blocks say what bplevel says.
Levelled(m, B) == \A b \in B : m.bplevel[b[1]] = b[2]

\* A block is a pair of its first page and its level.
LEMMA PairParts ==
    ASSUME NEW b \in Nat \X Order
    PROVE  b[1] \in Nat /\ b[2] \in Order /\ b[2] \in Nat /\ b = <<b[1], b[2]>>
<1>1. b[1] \in Nat /\ b[2] \in Order /\ b = <<b[1], b[2]>>
    OBVIOUS
<1> QED
    BY <1>1, OrderIsNat

\* A buddy whose bplevel is the level of the merge is a block of that level.
LEMMA BuddyTile ==
    ASSUME NEW m, Whole(m), NEW B, Tiles(m, B), Levelled(m, B),
           NEW p, NEW k \in Order, <<p, k>> \in B, NEW j \in k..MAX_BUDDY_ORDER-1,
           m.bplevel[BuddyOf(m, p, j)] = j
    PROVE  BuddyBlock(m, p, j) \in B
<1> DEFINE y == BuddyOf(m, p, j)
           H == BlockOf(m, p, j + 1)
<1>1. /\ m.start \in Nat /\ m.end \in Nat /\ k \in Nat /\ j \in Nat /\ j + 1 \in Order
      /\ j + 1 \in Nat /\ k <= j
    BY OrderAssumption DEF Whole, Order
<1>2. Aligned(m.start, p, k) /\ p + Pow2[k] <= m.end /\ p \in Nat
    BY DEF Tiles, IsBlock
<1>3. m.start <= p /\ Pow2[k] \in Nat \ {0} /\ p < m.end
    <2>1. PICK i \in Nat : p = m.start + i * Pow2[k]
        BY <1>2 DEF Aligned
    <2>2. Pow2[k] \in Nat \ {0} /\ i * Pow2[k] \in Nat
        BY <1>1, Pow2Unfolds
    <2> QED
        BY <1>1, <1>2, <2>1, <2>2
<1>4. /\ Aligned(m.start, H, j + 1) /\ H \in Nat /\ H <= p /\ p < H + Pow2[j + 1]
      /\ H + Pow2[j + 1] <= m.end
    <2>1. IsBlock(m, <<H, j + 1>>)
        BY <1>1, <1>2, <1>3, BlockInside
    <2>2. /\ Aligned(m.start, H, j + 1) /\ H \in Nat /\ H <= p /\ p < H + Pow2[j + 1]
        BY <1>1, <1>2, <1>3, BlockAround
    <2> QED
        BY <2>1, <2>2 DEF IsBlock
<1>5. Pow2[j] \in Nat \ {0} /\ Pow2[j + 1] = 2 * Pow2[j]
    BY <1>1, Pow2Unfolds
<1>6. Aligned(m.start, y, j) /\ (y = H \/ y = H + Pow2[j])
    BY <1>1, <1>2, <1>3, Halves
<1>7. y \in Nat /\ H <= y /\ y < H + Pow2[j + 1] /\ y < m.end /\ m.start <= y
    <2>1. PICK i \in Nat : H = m.start + i * Pow2[j + 1]
        BY <1>4 DEF Aligned
    <2>2. i * Pow2[j + 1] \in Nat
        BY <1>5
    <2>3. m.start <= H
        BY <1>1, <2>1, <2>2
    <2> HIDE DEF y, H
    <2> QED
        BY <1>1, <1>4, <1>5, <1>6, <2>3
<1>8. PICK b \in B : InBlock(y, b)
    BY <1>1, <1>7 DEF Tiles, Covered
<1>9. /\ b[1] \in Nat /\ b[2] \in Order /\ b[2] \in Nat /\ b = <<b[1], b[2]>>
      /\ Aligned(m.start, b[1], b[2]) /\ b[1] <= y /\ y < b[1] + Pow2[b[2]]
      /\ m.bplevel[b[1]] = b[2]
    <2>0. B \subseteq Nat \X Order /\ (\A c \in B : IsBlock(m, c))
        BY Zenon DEF Tiles
    <2>1. b \in Nat \X Order /\ IsBlock(m, b) /\ InBlock(y, b) /\ m.bplevel[b[1]] = b[2]
        <3> HIDE DEF y
        <3> QED
            BY <1>8, <2>0 DEF Levelled
    <2>2. b[1] \in Nat /\ b[2] \in Order /\ b[2] \in Nat /\ b = <<b[1], b[2]>>
        BY <2>1, PairParts, Zenon
    <2> HIDE DEF y
    <2> QED
        BY <2>1, <2>2 DEF IsBlock, InBlock
<1>10. b[2] <= j
    <2> SUFFICES ASSUME j + 1 <= b[2] PROVE FALSE
        BY <1>1, <1>9
    <2>1. b[1] <= H /\ H + Pow2[j + 1] <= b[1] + Pow2[b[2]]
        <3>1. y \in Int /\ j + 1 <= b[2]
            BY <1>7
        <3> HIDE DEF y, H
        <3> QED
            BY <1>1, <1>4, <1>7, <1>9, <3>1, Nested, Zenon
    <2>2. Pow2[b[2]] \in Nat
        BY <1>9, Pow2Unfolds
    <2>3. InBlock(p, b)
        BY <1>2, <1>4, <1>5, <1>9, <2>1, <2>2 DEF InBlock
    <2>4. InBlock(p, <<p, k>>)
        BY <1>2, <1>3 DEF InBlock
    <2>5. b = <<p, k>>
        BY <1>2, <2>3, <2>4 DEF Tiles, Apart
    <2> QED
        BY <1>1, <2>5
<1>11. b[1] = y
    <2>1. y <= b[1]
        <3>1. y <= y /\ y < y + Pow2[j] /\ y \in Int
            BY <1>5, <1>7
        <3> HIDE DEF y
        <3> QED
            BY <1>1, <1>6, <1>9, <1>10, <3>1, Nested
    <2> QED
        BY <1>7, <1>9, <2>1
<1>12. b[2] = j
    BY <1>9, <1>11
<1>13. b = <<y, j>>
    BY <1>9, <1>11, <1>12, Zenon
<1> QED
    BY <1>8, <1>13, Zenon DEF BuddyBlock

\* Blocks that are merged leave the pages divided into blocks.
LEMMA MergeTiles ==
    ASSUME NEW m, Whole(m), NEW B, Tiles(m, B), NEW p, NEW k \in Order,
           NEW top \in Order, k <= top, Merged(m, p, k, top) \subseteq B
    PROVE  Tiles(m, (B \ Merged(m, p, k, top)) \cup {<<BlockOf(m, p, top), top>>})
<1> DEFINE New == {<<BlockOf(m, p, top), top>>}
           Old == Merged(m, p, k, top)
<1>1. /\ m.start \in Nat /\ m.end \in Nat /\ k \in Nat /\ top \in Nat
    BY OrderIsNat DEF Whole
<1>2. <<p, k>> \in B
    BY Zenon DEF Merged
<1>3. IsBlock(m, <<p, k>>)
    BY <1>2 DEF Tiles
<1>4. Aligned(m.start, p, k) /\ m.start <= p /\ p \in Nat /\ p < m.end
    BY <1>1, <1>3, BlockManaged DEF IsBlock
<1>5. IsBlock(m, <<BlockOf(m, p, top), top>>) /\ BlockOf(m, p, top) \in Nat
    BY <1>1, <1>3, <1>4, BlockInside, BlockAround
<1>6. \A q \in Int : Covered(New, q) <=> Covered(Old, q)
    <2> SUFFICES ASSUME NEW q \in Int PROVE Covered(New, q) <=> Covered(Old, q)
        BY Zenon
    <2>1. Covered(Old, q) <=> InBlock(q, <<BlockOf(m, p, top), top>>)
        BY <1>1, <1>3, <1>4, MergedCover
    <2> QED
        BY <2>1, Zenon DEF Covered
<1>7. New \subseteq Nat \X Order /\ (\A b \in New : IsBlock(m, b)) /\ Apart(New)
    BY <1>5 DEF Apart
<1> HIDE DEF New, Old
<1>8. Old \subseteq B
    BY DEF Old
<1>9. Tiles(m, (B \ Old) \cup New)
    BY <1>6, <1>7, <1>8, Replace
<1> QED
    BY <1>9 DEF New, Old

---------------------------------------------------------------------------
(* The free lists.                                                         *)

\* list_add.
LEMMA PushFront ==
    ASSUME NEW T, NEW s \in Seq(T), NEW x \in T
    PROVE  /\ <<x>> \o s \in Seq(T) /\ Len(<<x>> \o s) = Len(s) + 1
           /\ Range(<<x>> \o s) = {x} \cup Range(s)
           /\ IsInjective(s) /\ x \notin Range(s) => IsInjective(<<x>> \o s)
<1> DEFINE a == <<x>> \o s
<1>1. /\ a \in Seq(T) /\ Len(a) = Len(s) + 1 /\ a[1] = x /\ Len(s) \in Nat
      /\ \A i \in 1..Len(s) : a[i + 1] = s[i]
    OBVIOUS
<1>2. DOMAIN a = 1..Len(s) + 1 /\ DOMAIN s = 1..Len(s)
    BY <1>1
<1> HIDE DEF a
<1>3. \A i \in DOMAIN a : i = 1 \/ (i - 1 \in DOMAIN s /\ a[i] = s[i - 1])
    <2> SUFFICES ASSUME NEW i \in DOMAIN a, i # 1
                 PROVE  i - 1 \in DOMAIN s /\ a[i] = s[i - 1]
        OBVIOUS
    <2>1. i - 1 \in 1..Len(s) /\ (i - 1) + 1 = i
        BY <1>1, <1>2
    <2> QED
        BY <1>1, <1>2, <2>1
<1>4. \A i \in DOMAIN s : i + 1 \in DOMAIN a /\ a[i + 1] = s[i]
    BY <1>1, <1>2
<1>5. Range(a) = {x} \cup Range(s)
    BY <1>1, <1>2, <1>3, <1>4 DEF Range
<1>6. ASSUME IsInjective(s), x \notin Range(s)
      PROVE  IsInjective(a)
    <2> SUFFICES ASSUME NEW i \in DOMAIN a, NEW j \in DOMAIN a, a[i] = a[j]
                 PROVE  i = j
        BY DEF IsInjective
    <2>1. \A n \in DOMAIN s : s[n] # x
        BY <1>6 DEF Range
    <2> QED
        BY <1>1, <1>2, <1>3, <1>6, <2>1 DEF IsInjective
<1> QED
    BY <1>1, <1>5, <1>6 DEF a

\* list_del of the first.
LEMMA PopFront ==
    ASSUME NEW T, NEW s \in Seq(T), s # <<>>, IsInjective(s)
    PROVE  /\ Head(s) \in Range(s) /\ Head(s) \in T
           /\ Tail(s) \in Seq(T) /\ Len(Tail(s)) = Len(s) - 1
           /\ Range(Tail(s)) = Range(s) \ {Head(s)} /\ IsInjective(Tail(s))
<1> DEFINE a == Tail(s)
<1>1. /\ a \in Seq(T) /\ Len(a) = Len(s) - 1 /\ Head(s) = s[1] /\ Len(s) \in Nat /\ Len(s) # 0
      /\ \A i \in 1..Len(s)-1 : a[i] = s[i + 1]
    OBVIOUS
<1>2. DOMAIN a = 1..Len(s)-1 /\ DOMAIN s = 1..Len(s)
    BY <1>1
<1>3. s[1] \in Range(s) /\ s[1] \in T
    BY <1>1, <1>2 DEF Range
<1> HIDE DEF a
<1>4. \A i \in DOMAIN a : i + 1 \in DOMAIN s /\ a[i] = s[i + 1] /\ i + 1 # 1
    BY <1>1, <1>2
<1>5. \A i \in DOMAIN s : i = 1 \/ (i - 1 \in DOMAIN a /\ a[i - 1] = s[i])
    <2> SUFFICES ASSUME NEW i \in DOMAIN s, i # 1
                 PROVE  i - 1 \in DOMAIN a /\ a[i - 1] = s[i]
        OBVIOUS
    <2>1. i - 1 \in 1..Len(s)-1 /\ (i - 1) + 1 = i
        BY <1>1, <1>2
    <2> QED
        BY <1>1, <1>2, <2>1
<1>6. 1 \in DOMAIN s
    BY <1>1, <1>2
<1>7. Range(a) = Range(s) \ {s[1]}
    BY <1>4, <1>5, <1>6 DEF Range, IsInjective
<1>8. IsInjective(a)
    BY <1>2, <1>4 DEF IsInjective
<1> QED
    BY <1>1, <1>3, <1>7, <1>8 DEF a

\* list_del_init of one that is on the list.
LEMMA TakeOut ==
    ASSUME NEW T, NEW s \in Seq(T), IsInjective(s), NEW x \in Range(s)
    PROVE  /\ Without(s, x) \in Seq(T) /\ Len(Without(s, x)) = Len(s) - 1
           /\ Range(Without(s, x)) = Range(s) \ {x} /\ IsInjective(Without(s, x))
<1>1. DOMAIN s = 1..Len(s) /\ Len(s) \in Nat /\ s \in [1..Len(s) -> T]
    OBVIOUS
<1>2. Range(s) \cap (Range(s) \ {x}) = Range(s) \ {x}
    OBVIOUS
<1>3. /\ Without(s, x) \in Seq(T) /\ Range(Without(s, x)) = Range(s) \ {x}
      /\ IsInjective(Without(s, x)) /\ Len(Without(s, x)) = Cardinality(Range(s) \ {x})
    <2> DEFINE S == Range(s) \ {x}
    <2> HIDE DEF S
    <2>1. /\ Keep(s, S) \in Seq(T) /\ Range(Keep(s, S)) = Range(s) \cap S
          /\ IsInjective(Keep(s, S)) /\ Len(Keep(s, S)) = Cardinality(Range(s) \cap S)
        BY KeepQueue
    <2>2. Without(s, x) = Keep(s, S)
        BY Zenon DEF Without, S
    <2> QED
        BY <2>1, <2>2, <1>2, Zenon DEF S
<1>4. IsFiniteSet(Range(s)) /\ Cardinality(Range(s)) = Len(s)
    <2>1. IsFiniteSet(1..Len(s)) /\ Cardinality(1..Len(s)) = Len(s)
        BY <1>1, FS_Interval
    <2>2. s \in Bijection(1..Len(s), Range(s))
        BY <1>1 DEF Bijection, Injection, Surjection, Range, IsInjective
    <2> QED
        BY <2>1, <2>2, FS_Bijection DEF ExistsBijection
<1>5. Cardinality(Range(s) \ {x}) = Len(s) - 1
    BY <1>4, FS_RemoveElement
<1> QED
    BY <1>3, <1>5
---------------------------------------------------------------------------
(* The state.                                                              *)

Flag == {RESERVED, ALLOCED, CLEAR}

BuddyRecord ==
    [start : Nat, end : Nat, flag : [PageNumber -> Flag],
     bplevel : [PageNumber -> Int], free : [Order -> Seq(PageNumber)],
     nr_free : [Order -> Int]]

\* A change of the fields that the operations change.
Changed(m, n, f, l, q, c) ==
    n = [m EXCEPT !.flag = f, !.bplevel = l, !.free = q, !.nr_free = c]

Fields(m, n, f, l, q, c) ==
    /\ n.start = m.start /\ n.end = m.end /\ n.flag = f /\ n.bplevel = l
    /\ n.free = q /\ n.nr_free = c
    /\ f \in [PageNumber -> Flag] /\ l \in [PageNumber -> Int]
       /\ q \in [Order -> Seq(PageNumber)] /\ c \in [Order -> Int]
            => n \in BuddyRecord

\* What a change of the fields gives.
LEMMA RecordChange ==
    ASSUME NEW m \in BuddyRecord, NEW f, NEW l, NEW q, NEW c, NEW n,
           Changed(m, n, f, l, q, c)
    PROVE  Fields(m, n, f, l, q, c)
<1>1. DOMAIN m = {"start", "end", "flag", "bplevel", "free", "nr_free"}
    BY DEF BuddyRecord
<1>2. /\ n.start = m.start /\ n.end = m.end /\ n.flag = f /\ n.bplevel = l
      /\ n.free = q /\ n.nr_free = c
    BY <1>1 DEF Changed
<1>3. n = [start |-> m.start, end |-> m.end, flag |-> f, bplevel |-> l, free |-> q,
           nr_free |-> c]
    BY DEF BuddyRecord, Changed
<1> DEFINE F == [PageNumber -> Flag]
           L == [PageNumber -> Int]
           Q == [Order -> Seq(PageNumber)]
           C == [Order -> Int]
<1>4. m.start \in Nat /\ m.end \in Nat
    BY DEF BuddyRecord
<1>5. ASSUME f \in F, l \in L, q \in Q, c \in C
      PROVE  n \in BuddyRecord
    <2> HIDE DEF F, L, Q, C
    <2>1. n \in [start : Nat, end : Nat, flag : F, bplevel : L, free : Q, nr_free : C]
        BY <1>3, <1>4, <1>5
    <2> QED
        BY <2>1 DEF BuddyRecord, F, L, Q, C
<1> QED
    BY <1>2, <1>5 DEF Fields

OnList(m, b) == b[1] \in Range(m.free[b[2]])
FreeOf(m) == {b \in PageNumber \X Order : OnList(m, b)}
HeldOf(m, S) == {<<p, m.bplevel[p]>> : p \in S}
Blocks(m, S) == FreeOf(m) \cup HeldOf(m, S)

ListsExact(m) ==
    /\ \A k \in Order : m.nr_free[k] = Len(m.free[k]) /\ IsInjective(m.free[k])
    /\ \A b \in FreeOf(m) : m.bplevel[b[1]] = b[2]

\* What is held is no free block.
HeldApart(m, S) ==
    /\ S \subseteq PageNumber
    /\ \A p \in S : m.bplevel[p] \in Order /\ p \notin Range(m.free[m.bplevel[p]])

BuddyInv(m, S) ==
    /\ m \in BuddyRecord /\ Whole(m) /\ m.end <= max_pfn
    /\ ListsExact(m) /\ HeldApart(m, S) /\ Tiles(m, Blocks(m, S))

\* What the operations keep besides: the pages of the allocator, and that no
\* flag is clear.
NoClear(m) == \A q \in PageNumber : m.flag[q] # CLEAR

Keeps(m, n) ==
    n.start = m.start /\ n.end = m.end /\ (NoClear(m) => NoClear(n))

\* Two blocks with a page in common are one.
LEMMA SamePage ==
    ASSUME NEW m, NEW B, Tiles(m, B), NEW b \in B, NEW c \in B, NEW q,
           InBlock(q, b), InBlock(q, c), q \in Int
    PROVE  b = c
BY Zenon DEF Tiles, Apart

\* A block begins with its first page.
LEMMA Begins ==
    ASSUME NEW p \in Nat, NEW k \in Nat
    PROVE  InBlock(p, <<p, k>>)
BY Pow2Unfolds DEF InBlock

---------------------------------------------------------------------------
(* __alloc_pages.                                                          *)

\* There are finitely many levels.
LEMMA OrderIsFinite == IsFiniteSet(Order) /\ Order \subseteq Int
BY FS_Interval, OrderAssumption DEF Order

\* The list that serves a request of level k.
LEMMA ServedFrom ==
    ASSUME NEW m, NEW k \in Order, Serving(m, k) # {}
    PROVE  /\ LeastServing(m, k) \in Order /\ k <= LeastServing(m, k)
           /\ m.free[LeastServing(m, k)] # <<>>
<1> DEFINE S == Serving(m, k)
<1>1. S \subseteq Order /\ \A j \in S : k <= j /\ m.free[j] # <<>>
    BY OrderAssumption DEF Serving, Order
<1>2. S \in SUBSET Int /\ IsFiniteSet(S)
    BY <1>1, OrderIsFinite, FS_Subset
<1>3. S # {}
    OBVIOUS
<1> HIDE DEF S
<1>4. \E i \in S : \A j \in S : i <= j
    BY <1>2, <1>3, LeastAndGreatest
<1>5. LeastServing(m, k) \in S
    BY <1>4, Zenon DEF LeastServing, S
<1> QED
    BY <1>1, <1>5

\* What Cut does to the fields of the allocator.
IsCut(m, n, p, from, to) ==
    /\ n.start = m.start /\ n.end = m.end
    /\ n.flag \in [PageNumber -> Flag]
    /\ \A q \in PageNumber : n.flag[q] = ALLOCED \/ n.flag[q] = m.flag[q]
    /\ n.bplevel \in [PageNumber -> Int] /\ n.bplevel[p] = to
    /\ \A q \in PageNumber, j \in to..from-1 : q = p + Pow2[j] => n.bplevel[q] = j
    /\ \A q \in PageNumber :
        q # p /\ (\A j \in to..from-1 : q # p + Pow2[j]) => n.bplevel[q] = m.bplevel[q]
    /\ n.free = [l \in Order |-> n.free[l]] /\ n.nr_free = [l \in Order |-> n.nr_free[l]]
    /\ n.free[from] = Tail(m.free[from]) /\ n.nr_free[from] = m.nr_free[from] - 1
    /\ \A j \in to..from-1 : /\ n.free[j] = <<p + Pow2[j]>> \o m.free[j]
                             /\ n.nr_free[j] = m.nr_free[j] + 1
    /\ \A j \in Order : j # from /\ j \notin to..from-1
        => n.free[j] = m.free[j] /\ n.nr_free[j] = m.nr_free[j]
    /\ n.free \in [Order -> Seq(PageNumber)] /\ n.nr_free \in [Order -> Int]
        => n \in BuddyRecord

\* The fields after the cut of __alloc_pages.
LEMMA CutFields ==
    ASSUME NEW m \in BuddyRecord, NEW p \in PageNumber, NEW from \in Order, NEW to \in Order,
           to <= from, NEW n, n = Cut(m, p, from, to, to)
    PROVE  IsCut(m, n, p, from, to)
<1> DEFINE half(q) == {j \in to..from-1 : q = p + Pow2[j]}
<1>1. /\ DOMAIN m.flag = PageNumber /\ DOMAIN m.bplevel = PageNumber
      /\ DOMAIN m.free = Order /\ DOMAIN m.nr_free = Order
      /\ m.flag \in [PageNumber -> Flag]
      /\ DOMAIN m = {"start", "end", "flag", "bplevel", "free", "nr_free"}
    BY DEF BuddyRecord
<1>2. n = [m EXCEPT
            !.flag = [q \in DOMAIN @ |->
                IF q = p \/ half(q) # {} THEN ALLOCED ELSE @[q]],
            !.bplevel = [q \in DOMAIN @ |->
                IF q = p THEN to
                ELSE IF half(q) # {} THEN CHOOSE j \in half(q) : TRUE ELSE @[q]],
            !.free = [j \in Order |->
                IF j \in to..from-1 THEN <<p + Pow2[j]>> \o @[j]
                ELSE IF j = from THEN Tail(@[j]) ELSE @[j]],
            !.nr_free = [j \in Order |->
                IF j \in to..from-1 THEN @[j] + 1
                ELSE IF j = from THEN @[j] - 1 ELSE @[j]]]
    BY Zenon DEF Cut
<1> DEFINE flag == [q \in PageNumber |->
                IF q = p \/ half(q) # {} THEN ALLOCED ELSE m.flag[q]]
           bplevel == [q \in PageNumber |->
                IF q = p THEN to
                ELSE IF half(q) # {} THEN CHOOSE j \in half(q) : TRUE ELSE m.bplevel[q]]
           free == [j \in Order |->
                IF j \in to..from-1 THEN <<p + Pow2[j]>> \o m.free[j]
                ELSE IF j = from THEN Tail(m.free[j]) ELSE m.free[j]]
           nr_free == [j \in Order |->
                IF j \in to..from-1 THEN m.nr_free[j] + 1
                ELSE IF j = from THEN m.nr_free[j] - 1 ELSE m.nr_free[j]]
<1>3. Changed(m, n, flag, bplevel, free, nr_free)
    BY <1>1, <1>2 DEF Changed
<1>4. Fields(m, n, flag, bplevel, free, nr_free)
    <2> HIDE DEF flag, bplevel, free, nr_free
    <2> QED
        BY <1>3, RecordChange, Zenon
<1>5. flag \in [PageNumber -> Flag]
    <2>1. ALLOCED \in Flag
        BY DEF Flag
    <2> HIDE DEF half
    <2> QED
        BY <1>1, <2>1
<1>11. \A q \in PageNumber : flag[q] = ALLOCED \/ flag[q] = m.flag[q]
    BY Zenon
<1>6. from \in Int /\ to \in Int /\ \A j \in to..from-1 : j \in Order
    BY OrderAssumption DEF Order
<1>7. \A q \in PageNumber, j \in to..from-1 : q = p + Pow2[j] => bplevel[q] = j
    <2> SUFFICES ASSUME NEW q \in PageNumber, NEW j \in to..from-1, q = p + Pow2[j]
                 PROVE  bplevel[q] = j
        BY Zenon
    <2>1. p \in Int /\ j \in Nat /\ \A i \in to..from-1 : i \in Nat
        BY OrderAssumption DEF PageNumber, Order
    <2>2. q # p
        BY <2>1, Pow2Unfolds
    <2>3. ASSUME NEW i \in half(q)
          PROVE  i = j
        <3>1. i \in Nat /\ p + Pow2[i] = p + Pow2[j]
            BY <2>1
        <3>2. Pow2[i] = Pow2[j] /\ Pow2[i] \in Nat \ {0} /\ Pow2[j] \in Nat \ {0}
            BY <2>1, <3>1, Pow2Unfolds, SMTT(40)
        <3>3. ~(i < j)
            <4> SUFFICES ASSUME i < j PROVE FALSE
                OBVIOUS
            <4>1. i + 1 <= j /\ i + 1 \in Nat
                BY <2>1, <3>1
            <4>2. Pow2[i + 1] <= Pow2[j] /\ Pow2[i + 1] = 2 * Pow2[i]
                BY <2>1, <3>1, <4>1, Pow2Grows, Pow2Unfolds
            <4> QED
                BY <3>2, <4>2
        <3>4. ~(j < i)
            <4> SUFFICES ASSUME j < i PROVE FALSE
                OBVIOUS
            <4>1. j + 1 <= i /\ j + 1 \in Nat
                BY <2>1, <3>1
            <4>2. Pow2[j + 1] <= Pow2[i] /\ Pow2[j + 1] = 2 * Pow2[j]
                BY <2>1, <3>1, <4>1, Pow2Grows, Pow2Unfolds
            <4> QED
                BY <3>2, <4>2
        <3> QED
            BY <2>1, <3>1, <3>3, <3>4
    <2>4. half(q) = {j}
        BY <2>3
    <2> HIDE DEF half
    <2> QED
        BY <2>2, <2>4
<1>8. /\ DOMAIN bplevel = PageNumber /\ bplevel[p] = to
      /\ \A q \in PageNumber :
            q # p /\ (\A j \in to..from-1 : q # p + Pow2[j]) => bplevel[q] = m.bplevel[q]
    BY Zenon
<1>9. /\ free = [l \in Order |-> free[l]] /\ nr_free = [l \in Order |-> nr_free[l]]
      /\ free[from] = Tail(m.free[from]) /\ nr_free[from] = m.nr_free[from] - 1
      /\ \A j \in to..from-1 : /\ free[j] = <<p + Pow2[j]>> \o m.free[j]
                               /\ nr_free[j] = m.nr_free[j] + 1
      /\ \A j \in Order : j # from /\ j \notin to..from-1
            => free[j] = m.free[j] /\ nr_free[j] = m.nr_free[j]
    <2>1. from \notin to..from-1
        BY <1>6
    <2> QED
        BY <1>6, <2>1, Zenon
<1>10. bplevel \in [PageNumber -> Int]
    <2> SUFFICES ASSUME NEW q \in PageNumber
                 PROVE  bplevel[q] \in Int
        BY Zenon
    <2>1. m.bplevel[q] \in Int /\ \A j \in to..from-1 : j \in Int
        BY <1>6 DEF BuddyRecord
    <2> HIDE DEF bplevel
    <2> QED
        BY <1>6, <1>7, <1>8, <2>1
<1> HIDE DEF flag, bplevel, free, nr_free
<1> QED
    BY <1>4, <1>5, <1>7, <1>8, <1>9, <1>10, <1>11, ZenonT(60) DEF Fields, IsCut

\* A block that holds the first page of another is that block.
LEMMA SameBlock ==
    ASSUME NEW m, NEW B, Tiles(m, B), NEW b \in B, NEW c \in B, InBlock(b[1], c)
    PROVE  b = c
<1>1. b[1] \in Nat /\ b[2] \in Nat /\ b = <<b[1], b[2]>>
    BY PairParts, Zenon DEF Tiles
<1>2. InBlock(b[1], b) /\ b[1] \in Int
    BY <1>1, Pow2Unfolds DEF InBlock
<1> QED
    BY <1>2, SamePage, Zenon

\* Page p, the first of a block of level k, joins those that are held.
Joins(m, n, S, p, k) ==
    /\ p \in PageNumber \ S /\ n.bplevel[p] = k
    /\ \A q \in S : n.bplevel[q] = m.bplevel[q]
    /\ BuddyInv(n, S \cup {p}) /\ Keeps(m, n)

\* __alloc_pages keeps the allocator consistent, and the page it returns joins
\* those that are held.
LEMMA CutKeeps ==
    ASSUME NEW m, NEW S, BuddyInv(m, S), NEW from \in Order, NEW to \in Order, to <= from,
           m.free[from] # <<>>, NEW p, p = Head(m.free[from]),
           NEW n, n = Cut(m, p, from, to, to)
    PROVE  Joins(m, n, S, p, to)
<1> DEFINE B == Blocks(m, S)
<1>1. /\ m \in BuddyRecord /\ Whole(m) /\ m.end <= max_pfn /\ ListsExact(m) /\ HeldApart(m, S)
      /\ Tiles(m, B) /\ m.start \in Nat /\ m.end \in Nat /\ from \in Nat /\ to \in Nat
      /\ max_pfn \in Nat /\ S \subseteq PageNumber
    BY OrderIsNat, BootAssumption DEF BuddyInv, Whole, HeldApart
<1>2. \A l \in Order : /\ m.free[l] \in Seq(PageNumber) /\ IsInjective(m.free[l])
                       /\ m.nr_free[l] = Len(m.free[l]) /\ m.nr_free[l] \in Int
    BY <1>1 DEF BuddyRecord, ListsExact
<1>3. /\ p \in Range(m.free[from]) /\ p \in PageNumber
      /\ Tail(m.free[from]) \in Seq(PageNumber) /\ IsInjective(Tail(m.free[from]))
      /\ Len(Tail(m.free[from])) = Len(m.free[from]) - 1
      /\ Range(Tail(m.free[from])) = Range(m.free[from]) \ {p}
    BY <1>2, PopFront
<1>4. <<p, from>> \in FreeOf(m) /\ <<p, from>> \in B
    BY <1>3 DEF FreeOf, OnList, Blocks
<1>5. m.bplevel[p] = from /\ p \notin S
    BY <1>1, <1>3, <1>4 DEF ListsExact, HeldApart
<1>6. ASSUME NEW j \in to..from-1
      PROVE  /\ j \in Order /\ p + Pow2[j] \in PageNumber /\ p + Pow2[j] # p
             /\ \A b \in B : b[1] # p + Pow2[j]
    <2>1. j \in Nat /\ j \in Order /\ j + 1 <= from /\ j # from
        BY <1>1, OrderAssumption DEF Order
    <2>2. Pow2[j] \in Nat \ {0} /\ Pow2[j + 1] = 2 * Pow2[j] /\ Pow2[from] \in Nat
        BY <1>1, <2>1, Pow2Unfolds
    <2>3. Pow2[j + 1] <= Pow2[from]
        BY <1>1, <2>1, Pow2Grows
    <2>4. p + Pow2[from] <= m.end
        <3>1. IsBlock(m, <<p, from>>)
            BY <1>1, <1>4 DEF Tiles
        <3> QED
            BY <3>1 DEF IsBlock
    <2>5. p \in Nat
        BY <1>3 DEF PageNumber
    <2>6. p + Pow2[j] \in PageNumber /\ p + Pow2[j] # p
        <3> DEFINE P == Pow2[j]
                   Q == Pow2[from]
                   e == m.end
        <3>1. /\ P \in Nat \ {0} /\ 2 * P <= Q /\ Q \in Nat /\ p + Q <= e /\ e \in Nat
              /\ e <= max_pfn /\ max_pfn \in Nat
            BY <1>1, <2>2, <2>3, <2>4
        <3> HIDE DEF P, Q, e
        <3>2. p + P \in 0..max_pfn-1 /\ p + P # p
            BY <2>5, <3>1
        <3> QED
            BY <3>2 DEF PageNumber, P
    <2>7. InBlock(p + Pow2[j], <<p, from>>)
        BY <2>2, <2>3, <2>5 DEF InBlock
    <2>8. ASSUME NEW b \in B, b[1] = p + Pow2[j]
          PROVE  FALSE
        <3>1. b = <<p, from>>
            BY <1>1, <1>4, <2>7, <2>8, SameBlock, Zenon
        <3> QED
            BY <2>6, <2>8, <3>1
    <2> QED
        BY <2>1, <2>6, <2>8
<1>7. ASSUME NEW b \in B, b[1] = p
      PROVE  b = <<p, from>>
    <2>1. p \in Nat
        BY <1>1, <1>3 DEF PageNumber
    <2>2. InBlock(b[1], <<p, from>>)
        BY <1>1, <1>7, <2>1, Begins
    <2> QED
        BY <1>1, <1>4, <2>2, SameBlock, Zenon
<1>8. IsCut(m, n, p, from, to)
    BY <1>1, <1>3, CutFields, Zenon
<1>9. /\ \A q \in S : n.bplevel[q] = m.bplevel[q]
      /\ \A b \in B : b # <<p, from>> => n.bplevel[b[1]] = m.bplevel[b[1]]
    <2>1. ASSUME NEW b \in B, b[1] # p
          PROVE  n.bplevel[b[1]] = m.bplevel[b[1]]
        <3>1. b[1] \in PageNumber
            BY <1>1 DEF Blocks, FreeOf, HeldOf
        <3> QED
            BY <1>6, <1>8, <2>1, <3>1, ZenonT(60) DEF IsCut
    <2>2. ASSUME NEW q \in S
          PROVE  n.bplevel[q] = m.bplevel[q]
        <3>1. <<q, m.bplevel[q]>> \in B /\ <<q, m.bplevel[q]>>[1] = q /\ q # p
            BY <1>5 DEF Blocks, HeldOf
        <3> QED
            BY <2>1, <3>1
    <2> QED
        BY <1>7, <2>1, <2>2
<1>10. ASSUME NEW j \in to..from-1
       PROVE  p + Pow2[j] \notin Range(m.free[j])
    <2> SUFFICES ASSUME p + Pow2[j] \in Range(m.free[j])
                 PROVE  FALSE
        OBVIOUS
    <2>1. <<p + Pow2[j], j>> \in B
        BY <1>6 DEF Blocks, FreeOf, OnList
    <2> QED
        BY <1>6, <2>1
\* The lists.
<1>11. ASSUME NEW l \in Order
       PROVE  /\ n.free[l] \in Seq(PageNumber) /\ IsInjective(n.free[l])
              /\ n.nr_free[l] = Len(n.free[l])
              /\ \A x \in PageNumber : x \in Range(n.free[l]) <=>
                    \/ x \in Range(m.free[l]) /\ ~(x = p /\ l = from)
                    \/ l \in to..from-1 /\ x = p + Pow2[l]
    <2>1. CASE l = from
        <3>1. from \notin to..from-1
            BY <1>1
        <3> QED
            BY <1>2, <1>3, <1>8, <2>1, <3>1, ZenonT(60) DEF IsCut
    <2>2. CASE l \in to..from-1
        <3>1. /\ p + Pow2[l] \in PageNumber /\ m.free[l] \in Seq(PageNumber)
              /\ p + Pow2[l] \notin Range(m.free[l]) /\ l # from
            BY <1>1, <1>2, <1>6, <1>10, <2>2
        <3>2. /\ n.free[l] = <<p + Pow2[l]>> \o m.free[l]
              /\ n.nr_free[l] = Len(m.free[l]) + 1
            BY <1>2, <1>8, <2>2, ZenonT(60) DEF IsCut
        <3>3. /\ <<p + Pow2[l]>> \o m.free[l] \in Seq(PageNumber)
              /\ Len(<<p + Pow2[l]>> \o m.free[l]) = Len(m.free[l]) + 1
              /\ Range(<<p + Pow2[l]>> \o m.free[l]) = {p + Pow2[l]} \cup Range(m.free[l])
              /\ IsInjective(<<p + Pow2[l]>> \o m.free[l])
            BY <1>2, <3>1, PushFront
        <3> QED
            BY <2>2, <3>1, <3>2, <3>3, Zenon
    <2>3. CASE l # from /\ l \notin to..from-1
        BY <1>2, <1>8, <2>3, ZenonT(60) DEF IsCut
    <2> QED
        BY <2>1, <2>2, <2>3
<1>12. n \in BuddyRecord
    <2>1. n.free \in [Order -> Seq(PageNumber)]
        <3>1. n.free = [l \in Order |-> n.free[l]]
            BY <1>8, ZenonT(60) DEF IsCut
        <3> QED
            BY <1>11, <3>1
    <2>2. n.nr_free \in [Order -> Int]
        <3>1. n.nr_free = [l \in Order |-> n.nr_free[l]]
            BY <1>8, ZenonT(60) DEF IsCut
        <3>2. \A l \in Order : n.nr_free[l] \in Int
            BY <1>11
        <3> QED
            BY <3>1, <3>2
    <2> QED
        BY <1>8, <2>1, <2>2, ZenonT(60) DEF IsCut
<1>13. FreeOf(n) = (FreeOf(m) \ {<<p, from>>}) \cup {Half(p, j) : j \in to..from-1}
    <2>1. ASSUME NEW x \in PageNumber, NEW l \in Order
          PROVE  <<x, l>> \in FreeOf(n) <=>
                    \/ <<x, l>> \in FreeOf(m) /\ <<x, l>> # <<p, from>>
                    \/ <<x, l>> \in {Half(p, j) : j \in to..from-1}
        BY <1>11 DEF FreeOf, OnList, Half
    <2>2. \A j \in to..from-1 : Half(p, j) \in PageNumber \X Order
        BY <1>6 DEF Half
    <2>3. FreeOf(n) \subseteq PageNumber \X Order /\ FreeOf(m) \subseteq PageNumber \X Order
        BY DEF FreeOf
    <2>4. FreeOf(n) \subseteq (FreeOf(m) \ {<<p, from>>}) \cup {Half(p, j) : j \in to..from-1}
        BY <2>1, <2>3
    <2>5. (FreeOf(m) \ {<<p, from>>}) \cup {Half(p, j) : j \in to..from-1} \subseteq FreeOf(n)
        BY <2>1, <2>2, <2>3
    <2> QED
        BY <2>4, <2>5, Zenon
<1>14. HeldOf(n, S \cup {p}) = HeldOf(m, S) \cup {<<p, to>>}
    <2>1. n.bplevel[p] = to
        BY <1>8, ZenonT(60) DEF IsCut
    <2>2. HeldOf(n, S \cup {p}) = {<<q, n.bplevel[q]>> : q \in S} \cup {<<p, n.bplevel[p]>>}
        BY Zenon DEF HeldOf
    <2>3. {<<q, n.bplevel[q]>> : q \in S} = HeldOf(m, S)
        BY <1>9 DEF HeldOf
    <2> QED
        BY <2>1, <2>2, <2>3
<1>15. Blocks(n, S \cup {p}) = (B \ {<<p, from>>}) \cup Parts(p, from, to)
    <2>1. <<p, from>> \notin HeldOf(m, S)
        BY <1>5 DEF HeldOf
    <2> QED
        BY <1>13, <1>14, <2>1, ZenonT(60) DEF Blocks, Parts
<1>16. Tiles(n, Blocks(n, S \cup {p}))
    <2>1. Tiles(m, (B \ {<<p, from>>}) \cup Parts(p, from, to))
        BY <1>1, <1>4, SplitTiles
    <2> QED
        BY <1>8, <1>15, <2>1, ZenonT(60) DEF Tiles, IsBlock, IsCut
<1>17. ListsExact(n)
    <2>1. ASSUME NEW b \in FreeOf(n)
          PROVE  n.bplevel[b[1]] = b[2]
        <3>1. CASE b \in FreeOf(m) /\ b # <<p, from>>
            BY <1>1, <1>9, <3>1 DEF ListsExact, Blocks
        <3>2. ASSUME NEW j \in to..from-1, b = Half(p, j)
              PROVE  n.bplevel[b[1]] = b[2]
            <4>1. b[1] = p + Pow2[j] /\ b[2] = j
                BY <3>2 DEF Half
            <4>2. b[1] \in PageNumber /\ \A q \in PageNumber, i \in to..from-1 :
                                q = p + Pow2[i] => n.bplevel[q] = i
                BY <1>6, <1>8, <4>1, ZenonT(60) DEF IsCut
            <4> QED
                BY <4>1, <4>2
        <3> QED
            BY <1>13, <3>1, <3>2
    <2> QED
        BY <1>11, <2>1 DEF ListsExact
<1>18. HeldApart(n, S \cup {p})
    <2>1. ASSUME NEW q \in S
          PROVE  n.bplevel[q] \in Order /\ q \notin Range(n.free[n.bplevel[q]])
        <3>1. /\ n.bplevel[q] = m.bplevel[q] /\ m.bplevel[q] \in Order /\ q \in PageNumber
              /\ q \notin Range(m.free[m.bplevel[q]])
            BY <1>1, <1>9, <2>1 DEF HeldApart
        <3>2. \A j \in to..from-1 : q # p + Pow2[j]
            <4>1. <<q, m.bplevel[q]>> \in B
                BY DEF Blocks, HeldOf
            <4> QED
                BY <1>6, <4>1
        <3> QED
            BY <1>11, <3>1, <3>2
    <2>2. n.bplevel[p] = to /\ p \notin Range(n.free[to])
        <3>1. n.bplevel[p] = to
            BY <1>8 DEF IsCut
        <3>2. p \in Range(m.free[to]) => to = from
            <4>1. p \in Range(m.free[to]) => <<p, to>> \in FreeOf(m)
                BY <1>3 DEF FreeOf, OnList
            <4>2. \A b \in FreeOf(m) : m.bplevel[b[1]] = b[2]
                BY <1>1 DEF ListsExact
            <4> QED
                BY <1>5, <4>1, <4>2
        <3> QED
            BY <1>3, <1>6, <1>11, <3>1, <3>2
    <2> QED
        BY <1>1, <1>3, <2>1, <2>2 DEF HeldApart
<1>19. BuddyInv(n, S \cup {p})
    BY <1>1, <1>8, <1>12, <1>16, <1>17, <1>18, ZenonT(60) DEF BuddyInv, Whole, IsCut
<1>20. Keeps(m, n)
    BY <1>8, ZenonT(60) DEF Keeps, NoClear, IsCut, ALLOCED, CLEAR
<1> QED
    BY <1>3, <1>5, <1>8, <1>9, <1>19, <1>20, ZenonT(60) DEF IsCut, Joins

---------------------------------------------------------------------------
(* __free_pages.                                                           *)

\* The loop of __free_pages ends at a level, and merges at those below it.
LEMMA MergeEnds ==
    ASSUME NEW m, NEW p, NEW k \in Order
    PROVE  /\ MergedLevel(m, p, k) \in Order /\ k <= MergedLevel(m, p, k)
           /\ MergedLevel(m, p, k) = MAX_BUDDY_ORDER \/ ~Mergeable(m, p, MergedLevel(m, p, k))
           /\ \A j \in k..MergedLevel(m, p, k)-1 : Mergeable(m, p, j)
<1> DEFINE T == {t \in k..MAX_BUDDY_ORDER : t = MAX_BUDDY_ORDER \/ ~Mergeable(m, p, t)}
           Ends(t) == /\ t = MAX_BUDDY_ORDER \/ ~Mergeable(m, p, t)
                      /\ \A j \in k..t-1 : Mergeable(m, p, j)
<1>1. k \in Nat /\ MAX_BUDDY_ORDER \in Nat /\ k <= MAX_BUDDY_ORDER
      /\ k..MAX_BUDDY_ORDER \subseteq Order
    BY OrderAssumption DEF Order
<1>2. T \in SUBSET Int /\ MAX_BUDDY_ORDER \in T /\ T \subseteq Order
    BY <1>1
<1>3. IsFiniteSet(T)
    BY <1>2, OrderIsFinite, FS_Subset
<1>4. PICK t \in T : \A j \in T : t <= j
    BY <1>2, <1>3, LeastAndGreatest
<1>5. t \in k..MAX_BUDDY_ORDER /\ (t = MAX_BUDDY_ORDER \/ ~Mergeable(m, p, t))
    OBVIOUS
<1>6. ASSUME NEW j \in k..t-1
      PROVE  Mergeable(m, p, j)
    <2>1. j \in k..MAX_BUDDY_ORDER /\ ~(t <= j)
        BY <1>1, <1>5
    <2> QED
        BY <1>4, <2>1
<1>7. \E t_1 \in k..MAX_BUDDY_ORDER : Ends(t_1)
    BY <1>5, <1>6
<1>8. MergedLevel(m, p, k) = CHOOSE t_1 \in k..MAX_BUDDY_ORDER : Ends(t_1)
    BY DEF MergedLevel
<1> HIDE DEF Ends
<1>9. MergedLevel(m, p, k) \in k..MAX_BUDDY_ORDER /\ Ends(MergedLevel(m, p, k))
    BY <1>7, <1>8, Zenon
<1> QED
    BY <1>1, <1>9 DEF Ends

\* What Entered does to the fields of the allocator.
IsEntered(m, n, taken, h, top) ==
    /\ n.start = m.start /\ n.end = m.end /\ n.flag = m.flag
    /\ n.bplevel \in [PageNumber -> Int] /\ n.bplevel[h] = top
    /\ \A q \in PageNumber :
        q # h /\ (\A j \in DOMAIN taken : taken[j] # q) => n.bplevel[q] = m.bplevel[q]
    /\ n.free = [l \in Order |-> n.free[l]] /\ n.nr_free = [l \in Order |-> n.nr_free[l]]
    /\ \A j \in DOMAIN taken : /\ n.free[j] = Without(m.free[j], taken[j])
                               /\ n.nr_free[j] = m.nr_free[j] - 1
    /\ n.free[top] = <<h>> \o m.free[top] /\ n.nr_free[top] = m.nr_free[top] + 1
    /\ \A j \in Order : j # top /\ j \notin DOMAIN taken
        => n.free[j] = m.free[j] /\ n.nr_free[j] = m.nr_free[j]
    /\ n.free \in [Order -> Seq(PageNumber)] /\ n.nr_free \in [Order -> Int]
        => n \in BuddyRecord

\* The fields after the last part of __free_pages.
LEMMA EnteredFields ==
    ASSUME NEW m \in BuddyRecord, NEW h \in PageNumber, NEW top \in Order, NEW taken,
           DOMAIN taken \subseteq Order \ {top}, NEW n, n = Entered(m, taken, h, top)
    PROVE  IsEntered(m, n, taken, h, top)
<1>1. /\ DOMAIN m.flag = PageNumber /\ DOMAIN m.bplevel = PageNumber
      /\ m.flag \in [PageNumber -> Flag] /\ m.bplevel \in [PageNumber -> Int]
      /\ DOMAIN m = {"start", "end", "flag", "bplevel", "free", "nr_free"}
    BY DEF BuddyRecord
<1> DEFINE bplevel == [q \in PageNumber |->
                IF q = h THEN top
                ELSE IF \E j \in DOMAIN taken : taken[j] = q THEN -1 ELSE m.bplevel[q]]
           free == [j \in Order |->
                IF j \in DOMAIN taken THEN Without(m.free[j], taken[j])
                ELSE IF j = top THEN <<h>> \o m.free[j] ELSE m.free[j]]
           nr_free == [j \in Order |->
                IF j \in DOMAIN taken THEN m.nr_free[j] - 1
                ELSE IF j = top THEN m.nr_free[j] + 1 ELSE m.nr_free[j]]
<1>2. n = [m EXCEPT !.bplevel = bplevel, !.free = free, !.nr_free = nr_free]
    BY <1>1 DEF Entered
<1>3. Changed(m, n, m.flag, bplevel, free, nr_free)
    <2> HIDE DEF bplevel, free, nr_free
    <2> QED
        BY <1>1, <1>2 DEF Changed, BuddyRecord
<1>4. Fields(m, n, m.flag, bplevel, free, nr_free)
    <2> HIDE DEF bplevel, free, nr_free
    <2> QED
        BY <1>3, RecordChange, Zenon
<1>5. /\ bplevel[h] = top
      /\ \A q \in PageNumber :
            q # h /\ (\A j \in DOMAIN taken : taken[j] # q) => bplevel[q] = m.bplevel[q]
    BY Zenon
<1>6. bplevel \in [PageNumber -> Int]
    <2>1. top \in Int /\ -1 \in Int /\ \A q \in PageNumber : m.bplevel[q] \in Int
        BY <1>1, OrderIsNat
    <2> QED
        BY <2>1
<1>7. /\ free = [l \in Order |-> free[l]] /\ nr_free = [l \in Order |-> nr_free[l]]
      /\ \A j \in DOMAIN taken : /\ free[j] = Without(m.free[j], taken[j])
                                 /\ nr_free[j] = m.nr_free[j] - 1
      /\ free[top] = <<h>> \o m.free[top] /\ nr_free[top] = m.nr_free[top] + 1
      /\ \A j \in Order : j # top /\ j \notin DOMAIN taken
            => free[j] = m.free[j] /\ nr_free[j] = m.nr_free[j]
    <2>1. top \notin DOMAIN taken /\ \A j \in DOMAIN taken : j \in Order
        OBVIOUS
    <2> QED
        BY <2>1, Zenon
<1> HIDE DEF bplevel, free, nr_free
<1> QED
    BY <1>1, <1>4, <1>5, <1>6, <1>7, Zenon DEF Fields, IsEntered

\* The lists are counted and hold no block twice.
ListsCounted(m) ==
    \A l \in Order : /\ m.free[l] \in Seq(PageNumber) /\ IsInjective(m.free[l])
                     /\ m.nr_free[l] = Len(m.free[l])

ListsEntered(m, n, taken, h, top) ==
    /\ n \in BuddyRecord /\ ListsCounted(n)
    /\ \A l \in Order, x \in PageNumber : x \in Range(n.free[l]) <=>
            \/ x \in Range(m.free[l]) /\ ~(l \in DOMAIN taken /\ x = taken[l])
            \/ l = top /\ x = h

\* The free lists after __free_pages.
LEMMA EnteredLists ==
    ASSUME NEW m \in BuddyRecord, ListsCounted(m), NEW h \in PageNumber, NEW top \in Order,
           NEW taken, DOMAIN taken \subseteq Order \ {top},
           \A j \in DOMAIN taken : taken[j] \in Range(m.free[j]),
           h \notin Range(m.free[top]), NEW n, IsEntered(m, n, taken, h, top)
    PROVE  ListsEntered(m, n, taken, h, top)
<1>1. ASSUME NEW l \in Order
      PROVE  /\ n.free[l] \in Seq(PageNumber) /\ IsInjective(n.free[l])
             /\ n.nr_free[l] = Len(n.free[l]) /\ n.nr_free[l] \in Int
             /\ \A x \in PageNumber : x \in Range(n.free[l]) <=>
                    \/ x \in Range(m.free[l]) /\ ~(l \in DOMAIN taken /\ x = taken[l])
                    \/ l = top /\ x = h
    <2>1. /\ m.free[l] \in Seq(PageNumber) /\ IsInjective(m.free[l])
          /\ m.nr_free[l] = Len(m.free[l]) /\ Len(m.free[l]) \in Nat
        BY DEF ListsCounted
    <2>2. CASE l \in DOMAIN taken
        <3>1. taken[l] \in Range(m.free[l]) /\ l # top
            BY <2>2
        <3>2. n.free[l] = Without(m.free[l], taken[l]) /\ n.nr_free[l] = m.nr_free[l] - 1
            BY <2>2 DEF IsEntered
        <3>3. /\ Without(m.free[l], taken[l]) \in Seq(PageNumber)
              /\ Len(Without(m.free[l], taken[l])) = Len(m.free[l]) - 1
              /\ Range(Without(m.free[l], taken[l])) = Range(m.free[l]) \ {taken[l]}
              /\ IsInjective(Without(m.free[l], taken[l]))
            BY <2>1, <3>1, TakeOut
        <3> QED
            BY <2>1, <2>2, <3>1, <3>2, <3>3
    <2>3. CASE l = top
        <3>1. n.free[l] = <<h>> \o m.free[l] /\ n.nr_free[l] = m.nr_free[l] + 1
            BY <2>3 DEF IsEntered
        <3>2. h \notin Range(m.free[l]) /\ l \notin DOMAIN taken
            BY <2>3
        <3>3. /\ <<h>> \o m.free[l] \in Seq(PageNumber)
              /\ Len(<<h>> \o m.free[l]) = Len(m.free[l]) + 1
              /\ Range(<<h>> \o m.free[l]) = {h} \cup Range(m.free[l])
              /\ IsInjective(<<h>> \o m.free[l])
            BY <2>1, <3>2, PushFront
        <3> QED
            BY <2>1, <2>3, <3>1, <3>2, <3>3
    <2>4. CASE l # top /\ l \notin DOMAIN taken
        <3>1. n.free[l] = m.free[l] /\ n.nr_free[l] = m.nr_free[l]
            BY <2>4 DEF IsEntered
        <3> QED
            BY <2>1, <2>4, <3>1
    <2> QED
        BY <2>2, <2>3, <2>4
<1>2. n.free \in [Order -> Seq(PageNumber)] /\ n.nr_free \in [Order -> Int]
    <2>1. n.free = [l \in Order |-> n.free[l]] /\ n.nr_free = [l \in Order |-> n.nr_free[l]]
        BY DEF IsEntered
    <2>2. n.free \in [Order -> Seq(PageNumber)]
        BY <1>1, <2>1
    <2>3. \A l \in Order : n.nr_free[l] \in Int
        BY <1>1
    <2> QED
        BY <2>1, <2>2, <2>3
<1>3. n \in BuddyRecord
    BY <1>2 DEF IsEntered
<1> QED
    BY <1>1, <1>3 DEF ListsCounted, ListsEntered

\* The callers hold no buddy that a free of the block of level k at p takes in.
Spares(m, S, p, k) ==
    \A q \in S, j \in DOMAIN TakenIn(m, p, k) : q # TakenIn(m, p, k)[j]

\* Page p leaves the pages S that are held.
Leaves(m, n, S, p) ==
    /\ BuddyInv(n, S \ {p}) /\ Keeps(m, n)
    /\ \A q \in S \ {p} : n.bplevel[q] = m.bplevel[q]

\* __free_pages keeps the allocator consistent: the block at p, of the level
\* that its struct page says, is no longer held.
LEMMA FreeKeeps ==
    ASSUME NEW m, NEW S, BuddyInv(m, S), NEW p \in S, NEW k, k = m.bplevel[p],
           Spares(m, S, p, k), NEW n, n = FreePages(m, p, k)
    PROVE  Leaves(m, n, S, p)
<1> DEFINE B == Blocks(m, S)
           top == MergedLevel(m, p, k)
           h == BlockOf(m, p, top)
           taken == TakenIn(m, p, k)
           Old == Merged(m, p, k, top)
<1>1. /\ m \in BuddyRecord /\ Whole(m) /\ m.end <= max_pfn /\ ListsExact(m) /\ HeldApart(m, S)
      /\ Tiles(m, B) /\ m.start \in Nat /\ m.end \in Nat
      /\ max_pfn \in Nat /\ S \subseteq PageNumber
    BY BootAssumption DEF BuddyInv, Whole, HeldApart
<1>2. p \in PageNumber /\ k \in Order /\ k \in Nat /\ p \in Nat /\ p \notin Range(m.free[k])
    <2>1. p \in PageNumber /\ k \in Order /\ p \notin Range(m.free[k])
        BY <1>1 DEF HeldApart
    <2> QED
        BY <2>1, OrderIsNat DEF PageNumber
<1>3. /\ top \in Order /\ top \in Nat /\ k <= top
      /\ \A j \in k..top-1 : Mergeable(m, p, j)
    BY <1>2, OrderIsNat, MergeEnds
<1>4. /\ DOMAIN taken = k..top-1
      /\ \A j \in k..top-1 : taken[j] = BuddyOf(m, p, j)
    BY DEF TakenIn
<1>5. <<p, k>> \in HeldOf(m, S) /\ <<p, k>> \in B
    BY DEF HeldOf, Blocks
<1>6. Levelled(m, B)
    <2>1. \A b \in FreeOf(m) : m.bplevel[b[1]] = b[2]
        BY <1>1 DEF ListsExact
    <2>2. \A b \in HeldOf(m, S) : m.bplevel[b[1]] = b[2]
        BY DEF HeldOf
    <2> QED
        BY <2>1, <2>2 DEF Levelled, Blocks
<1> HIDE DEF top, h, taken
<1>7. ASSUME NEW j \in k..top-1
      PROVE  /\ BuddyBlock(m, p, j) \in FreeOf(m) /\ BuddyBlock(m, p, j) \notin HeldOf(m, S)
             /\ j \in Order \ {top} /\ taken[j] \in Range(m.free[j])
    <2>1. j \in k..MAX_BUDDY_ORDER-1 /\ j \in Order /\ j # top
        BY <1>2, <1>3, OrderAssumption DEF Order
    <2>2. m.bplevel[BuddyOf(m, p, j)] = j
        BY <1>3 DEF Mergeable
    <2>3. BuddyBlock(m, p, j) \in B
        BY <1>1, <1>2, <1>5, <1>6, <2>1, <2>2, BuddyTile
    <2>4. BuddyBlock(m, p, j) \notin HeldOf(m, S)
        <3>1. \A q \in S : q # BuddyOf(m, p, j)
            BY <1>4 DEF Spares, taken
        <3> QED
            BY <3>1 DEF HeldOf, BuddyBlock
    <2>5. BuddyBlock(m, p, j) \in FreeOf(m)
        BY <2>3, <2>4 DEF Blocks
    <2>6. taken[j] \in Range(m.free[j])
        BY <1>4, <2>5 DEF FreeOf, OnList, BuddyBlock
    <2> QED
        BY <2>1, <2>4, <2>5, <2>6
<1>8. Old \subseteq B
    BY <1>5, <1>7 DEF Merged, Blocks
<1>9. Tiles(m, (B \ Old) \cup {<<h, top>>})
    BY <1>1, <1>2, <1>3, <1>8, MergeTiles DEF h
<1>10. /\ m.start <= p /\ p < m.end /\ Aligned(m.start, p, k)
    <2>1. IsBlock(m, <<p, k>>)
        BY <1>1, <1>5 DEF Tiles
    <2> QED
        BY <1>1, <1>2, <2>1, BlockManaged DEF IsBlock
<1>11. /\ h \in PageNumber /\ InBlock(h, <<h, top>>) /\ InBlock(p, <<h, top>>)
       /\ h \in Nat
    <2>1. IsBlock(m, <<h, top>>)
        BY <1>1, <1>2, <1>3, <1>10, BlockInside DEF h
    <2>2. h \in Nat /\ h < m.end
        BY <1>1, <1>3, <2>1, BlockManaged
    <2>3. h <= p /\ p < h + Pow2[top]
        BY <1>1, <1>2, <1>3, <1>10, BlockAround DEF h
    <2> QED
        BY <1>1, <1>3, <2>2, <2>3, Begins DEF PageNumber, InBlock
\* The merged block is no block of m unless it is the one that is freed.
<1>12. h \notin Range(m.free[top])
    <2> SUFFICES ASSUME h \in Range(m.free[top])
                 PROVE  FALSE
        OBVIOUS
    <2>1. <<h, top>> \in FreeOf(m) /\ <<h, top>> \in B
        BY <1>3, <1>11 DEF FreeOf, OnList, Blocks
    <2>2. <<p, k>> = <<h, top>>
        BY <1>1, <1>5, <1>11, <2>1, SameBlock
    <2> QED
        BY <1>2, <2>2
<1>13. ASSUME NEW b \in B \ Old
       PROVE  b[1] # h /\ \A j \in k..top-1 : taken[j] # b[1]
    <2>1. ASSUME b[1] = h PROVE FALSE
        <3>1. Covered(Old, h)
            BY <1>1, <1>2, <1>3, <1>10, <1>11, MergedCover DEF h
        <3>2. PICK c \in Old : InBlock(h, c)
            BY <3>1 DEF Covered
        <3>3. b = c
            BY <1>1, <1>8, <2>1, <3>2, SameBlock
        <3> QED
            BY <3>3
    <2>2. ASSUME NEW j \in k..top-1, taken[j] = b[1] PROVE FALSE
        <3>1. BuddyBlock(m, p, j) \in Old /\ BuddyBlock(m, p, j) = <<b[1], j>>
            BY <1>4, <2>2 DEF Merged, BuddyBlock
        <3>2. b[1] \in Nat /\ j \in Nat
            BY <1>1, <1>7, OrderIsNat DEF Tiles
        <3>3. InBlock(b[1], <<b[1], j>>)
            BY <3>2, Begins
        <3>4. b = <<b[1], j>>
            BY <1>1, <1>8, <3>1, <3>3, SameBlock
        <3> QED
            BY <3>1, <3>4
    <2> QED
        BY <2>1, <2>2
<1>14. IsEntered(m, n, taken, h, top)
    <2>1. n = Entered(m, taken, h, top)
        BY DEF FreePages, h, taken, top
    <2>2. DOMAIN taken \subseteq Order \ {top}
        BY <1>4, <1>7
    <2> QED
        BY <1>1, <1>3, <1>11, <2>1, <2>2, EnteredFields
<1>15. /\ n \in BuddyRecord /\ ListsCounted(n)
       /\ \A l \in Order, x \in PageNumber : x \in Range(n.free[l]) <=>
                \/ x \in Range(m.free[l]) /\ ~(l \in k..top-1 /\ x = taken[l])
                \/ l = top /\ x = h
    <2>1. ListsCounted(m)
        BY <1>1 DEF ListsCounted, ListsExact, BuddyRecord
    <2>2. DOMAIN taken \subseteq Order \ {top} /\ \A j \in DOMAIN taken : taken[j] \in Range(m.free[j])
        BY <1>4, <1>7
    <2>3. ListsEntered(m, n, taken, h, top)
        BY <1>1, <1>3, <1>11, <1>12, <1>14, <2>1, <2>2, EnteredLists, Zenon
    <2> QED
        BY <1>4, <2>3 DEF ListsEntered
<1>16. \A b \in B \ Old : n.bplevel[b[1]] = m.bplevel[b[1]]
    <2> SUFFICES ASSUME NEW b \in B \ Old
                 PROVE  n.bplevel[b[1]] = m.bplevel[b[1]]
        BY Zenon
    <2>1. b[1] \in PageNumber
        BY <1>1, SMTT(40) DEF Blocks, FreeOf, HeldOf
    <2>2. \A q \in PageNumber :
            q # h /\ (\A j \in DOMAIN taken : taken[j] # q) => n.bplevel[q] = m.bplevel[q]
        BY <1>14 DEF IsEntered
    <2> QED
        BY <1>4, <1>13, <2>1, <2>2
<1>17. ASSUME NEW q \in S \ {p}
       PROVE  /\ <<q, m.bplevel[q]>> \in HeldOf(m, S) /\ <<q, m.bplevel[q]>> \in B \ Old
              /\ n.bplevel[q] = m.bplevel[q] /\ q # h
    <2>1. <<q, m.bplevel[q]>> \in HeldOf(m, S) /\ <<q, m.bplevel[q]>> \in B
        BY DEF HeldOf, Blocks
    <2>2. <<q, m.bplevel[q]>> # <<p, k>>
        OBVIOUS
    <2>3. <<q, m.bplevel[q]>> \notin Old
        BY <1>7, <2>1, <2>2 DEF Merged
    <2>4. <<q, m.bplevel[q]>>[1] = q
        OBVIOUS
    <2> QED
        BY <1>13, <1>16, <2>1, <2>3, <2>4
<1> DEFINE Taken == {BuddyBlock(m, p, j) : j \in k..top-1}
<1>18. FreeOf(n) = (FreeOf(m) \ Taken) \cup {<<h, top>>}
    <2>1. ASSUME NEW x \in PageNumber, NEW l \in Order
          PROVE  <<x, l>> \in Taken <=> l \in k..top-1 /\ x = taken[l]
        BY <1>4 DEF BuddyBlock
    <2> HIDE DEF Taken
    <2>2. ASSUME NEW x \in PageNumber, NEW l \in Order
          PROVE  <<x, l>> \in FreeOf(n) <=>
                    <<x, l>> \in (FreeOf(m) \ Taken) \cup {<<h, top>>}
        BY <1>15, <2>1 DEF FreeOf, OnList
    <2>3. /\ FreeOf(n) \subseteq PageNumber \X Order /\ FreeOf(m) \subseteq PageNumber \X Order
          /\ <<h, top>> \in PageNumber \X Order
        BY <1>3, <1>11 DEF FreeOf
    <2> QED
        BY <2>2, <2>3
<1>19. HeldOf(n, S \ {p}) = HeldOf(m, S) \ {<<p, k>>}
    <2>1. HeldOf(n, S \ {p}) = {<<q, m.bplevel[q]>> : q \in S \ {p}}
        BY <1>17 DEF HeldOf
    <2> QED
        BY <2>1 DEF HeldOf
<1>20. Blocks(n, S \ {p}) = (B \ Old) \cup {<<h, top>>}
    <2>1. <<p, k>> \notin FreeOf(m)
        BY <1>2 DEF FreeOf, OnList
    <2>2. Taken \cap HeldOf(m, S) = {} /\ Old = {<<p, k>>} \cup Taken
        BY <1>7, SMTT(40) DEF Merged
    <2> HIDE DEF Taken, Old
    <2> QED
        BY <1>18, <1>19, <2>1, <2>2 DEF Blocks
<1>21. Tiles(n, Blocks(n, S \ {p}))
    BY <1>9, <1>14, <1>20 DEF Tiles, IsBlock, IsEntered
<1>22. ListsExact(n)
    <2>1. ASSUME NEW b \in FreeOf(n)
          PROVE  n.bplevel[b[1]] = b[2]
        <3>1. CASE b = <<h, top>>
            BY <1>14, <3>1 DEF IsEntered
        <3>2. CASE b \in FreeOf(m) \ Taken
            <4>1. b # <<p, k>> /\ b \in B
                BY <1>2, <3>2 DEF FreeOf, OnList, Blocks
            <4>2. b \in B \ Old
                BY <3>2, <4>1 DEF Merged
            <4> QED
                BY <1>1, <1>16, <3>2, <4>2 DEF ListsExact
        <3> QED
            BY <1>18, <3>1, <3>2
    <2> QED
        BY <1>15, <2>1 DEF ListsExact, ListsCounted
<1>23. HeldApart(n, S \ {p})
    <2>1. ASSUME NEW q \in S \ {p}
          PROVE  n.bplevel[q] \in Order /\ q \notin Range(n.free[n.bplevel[q]])
        <3>1. /\ m.bplevel[q] \in Order /\ q \in PageNumber
              /\ q \notin Range(m.free[m.bplevel[q]])
            BY <1>1 DEF HeldApart
        <3> QED
            BY <1>15, <1>17, <3>1, ZenonT(60)
    <2> QED
        BY <1>1, <2>1 DEF HeldApart
<1>24. BuddyInv(n, S \ {p})
    BY <1>1, <1>14, <1>15, <1>21, <1>22, <1>23, ZenonT(60) DEF BuddyInv, Whole, IsEntered
<1>25. Keeps(m, n)
    BY <1>14 DEF Keeps, NoClear, IsEntered
<1> QED
    BY <1>17, <1>24, <1>25 DEF Leaves

---------------------------------------------------------------------------
(* init_buddy.                                                             *)

\* The allocator m before its pages are freed, and x when it comes to page i.
Untouched(m) ==
    /\ m \in BuddyRecord /\ Whole(m) /\ m.end <= max_pfn
    /\ \A q \in PageNumber : m.flag[q] = RESERVED /\ m.bplevel[q] = -1
    /\ \A l \in Order : m.free[l] = <<>> /\ m.nr_free[l] = 0

Fresh(m, x, i) ==
    /\ x \in BuddyRecord /\ x.start = m.start /\ x.end = m.end /\ ListsCounted(x)
    /\ \A q \in PageNumber : x.flag[q] = RESERVED
    /\ \A q \in PageNumber : x.bplevel[q] = IF q \in m.start..i-1 THEN 0 ELSE -1
    /\ \A l \in Order, q \in PageNumber :
            q \in Range(x.free[l]) <=> l = 0 /\ q \in m.start..i-1

\* The step of the loop of init_buddy.
NextFreed(m, x, i) == IF i + 1 <= m.start THEN m ELSE FreePages(x, i, 0)

\* Before the first page is freed nothing is.
LEMMA FreshStart ==
    ASSUME NEW m, Untouched(m), NEW i \in Int, i <= m.start
    PROVE  Fresh(m, m, i)
<1>1. m.start \in Int /\ m.start..i-1 = {}
    BY DEF Untouched, Whole
<1>2. ListsCounted(m)
    <2> SUFFICES ASSUME NEW l \in Order
                 PROVE  /\ m.free[l] \in Seq(PageNumber) /\ IsInjective(m.free[l])
                        /\ m.nr_free[l] = Len(m.free[l])
        BY DEF ListsCounted
    <2>1. m.free[l] = <<>> /\ m.nr_free[l] = 0 /\ m.free[l] \in Seq(PageNumber)
        BY DEF Untouched, BuddyRecord
    <2>2. Len(<<>>) = 0 /\ IsInjective(<<>>)
        BY DEF IsInjective
    <2> QED
        BY <2>1, <2>2
<1>3. \A l \in Order : Range(m.free[l]) = {}
    BY DEF Untouched, Range
<1> QED
    BY <1>1, <1>2, <1>3 DEF Fresh, Untouched

\* No page merges: the flag of every page is RESERVED.
LEMMA FreshStep ==
    ASSUME NEW m, Untouched(m), NEW i \in 0..m.end-1, NEW x, Fresh(m, x, i)
    PROVE  Fresh(m, NextFreed(m, x, i), i + 1)
<1>1. /\ m.start \in Nat /\ m.end \in Nat /\ m.end <= max_pfn /\ max_pfn \in Nat /\ i \in Nat
      /\ Whole(m)
    BY BootAssumption DEF Untouched, Whole
<1>2. CASE i + 1 <= m.start
    BY <1>1, <1>2, FreshStart DEF NextFreed
<1>3. CASE m.start <= i
    <2> DEFINE n == FreePages(x, i, 0)
               top == MergedLevel(x, i, 0)
    <2>1. /\ x \in BuddyRecord /\ x.start = m.start /\ x.end = m.end /\ ListsCounted(x)
          /\ Whole(x)
        BY <1>1 DEF Fresh, Whole
    <2>2. i \in PageNumber /\ 0 \in Order
        BY <1>1, OrderAssumption DEF PageNumber, Order
    <2>3. top \in Order /\ 0 <= top /\ \A j \in 0..top-1 : Mergeable(x, i, j)
        BY <2>2, MergeEnds
    <2>4. top = 0
        <3> SUFFICES ASSUME top # 0
                     PROVE  FALSE
            OBVIOUS
        <3>1. Mergeable(x, i, 0) /\ 1 \in Order
            BY <2>3, OrderAssumption DEF Order
        <3> DEFINE H == BlockOf(x, i, 1)
        <3>2. 0 + 1 = 1 /\ Pow2[0] = 1 /\ Pow2[1] = 2
            BY Pow2Unfolds
        <3>3. BuddyOf(x, i, 0) = H + 1 \/ BuddyOf(x, i, 0) = H
            BY <1>1, <1>3, <2>1, <3>2, Halves
        <3>4. IsBlock(x, <<H, 1>>)
            BY <1>1, <1>3, <2>1, <3>1, BlockInside
        <3>5. H \in Nat /\ H + 2 <= m.end
            BY <1>1, <2>1, <3>2, <3>4, BlockManaged
        <3> HIDE DEF H
        <3>6. BuddyOf(x, i, 0) \in PageNumber
            BY <1>1, <3>3, <3>5 DEF PageNumber
        <3>7. x.flag[BuddyOf(x, i, 0)] = RESERVED
            BY <3>6 DEF Fresh
        <3> QED
            BY <3>1, <3>7 DEF Mergeable, RESERVED, CLEAR
    <2>5. BlockOf(x, i, 0) = i
        <3>1. Pow2[0] = 1 /\ i = x.start + (i - x.start) * 1 /\ i - x.start \in Nat
            BY <1>1, <1>3, <2>1, Pow2Unfolds
        <3>2. Aligned(x.start, i, 0)
            BY <3>1 DEF Aligned
        <3>3. x.start \in Nat /\ i \in Int /\ 0 \in Nat /\ i <= i /\ i < i + Pow2[0]
            BY <1>1, <2>1, <3>1
        <3> QED
            BY <3>2, <3>3, BlockIs, Zenon
    <2> DEFINE taken == TakenIn(x, i, 0)
    <2>6. DOMAIN taken = {}
        BY <2>4 DEF TakenIn
    <2>7. n = Entered(x, taken, i, 0)
        BY <2>4, <2>5 DEF FreePages
    <2> HIDE DEF n, top, taken
    <2>8. IsEntered(x, n, taken, i, 0)
        BY <2>1, <2>2, <2>6, <2>7, EnteredFields
    <2>9. i \notin Range(x.free[0])
        BY <1>1, <2>2 DEF Fresh
    <2>10. ListsEntered(x, n, taken, i, 0)
        <3>1. DOMAIN taken \subseteq Order \ {0} /\ \A j \in DOMAIN taken : taken[j] \in Range(x.free[j])
            BY <2>6
        <3> QED
            BY <2>1, <2>2, <2>8, <2>9, <3>1, EnteredLists, Zenon
    <2>11. \A q \in Int : q \in m.start..(i+1)-1 <=> q \in m.start..i-1 \/ q = i
        BY <1>1, <1>3
    <2>12. PageNumber \subseteq Int
        BY DEF PageNumber
    <2>13. Fresh(m, n, i + 1)
        <3>1. /\ n \in BuddyRecord /\ ListsCounted(n)
              /\ \A l \in Order, q \in PageNumber :
                    q \in Range(n.free[l]) <=> q \in Range(x.free[l]) \/ (l = 0 /\ q = i)
            BY <2>6, <2>10 DEF ListsEntered
        <3>2. /\ n.start = m.start /\ n.end = m.end /\ n.flag = x.flag
              /\ n.bplevel[i] = 0
              /\ \A q \in PageNumber : q # i => n.bplevel[q] = x.bplevel[q]
            BY <2>1, <2>6, <2>8 DEF IsEntered
        <3>3. \A l \in Order, q \in PageNumber :
                    q \in Range(n.free[l]) <=> l = 0 /\ q \in m.start..(i+1)-1
            BY <2>11, <2>12, <3>1 DEF Fresh
        <3>4. \A q \in PageNumber : n.bplevel[q] = IF q \in m.start..(i+1)-1 THEN 0 ELSE -1
            BY <2>11, <2>12, <3>2 DEF Fresh
        <3> QED
            BY <3>1, <3>2, <3>3, <3>4 DEF Fresh
    <2> QED
        BY <1>1, <1>3, <2>13 DEF NextFreed, n
<1> QED
    BY <1>1, <1>2, <1>3

\* The function that the loop defines satisfies its recursion.
LEMMA FreshAtEnd ==
    ASSUME NEW m, Untouched(m)
    PROVE  Fresh(m, FreeEachPage(m), m.end)
<1> DEFINE S == {z \in (0..m.end) \X BuddyRecord : Fresh(m, z[2], z[1])}
           Up(z) == <<z[1] + 1, NextFreed(m, z[2], z[1])>>
           step == [z \in S |-> IF z[1] = m.end THEN z ELSE Up(z)]
           Frees(f) == f = [i \in 0..m.end |-> IF i <= m.start THEN m
                                              ELSE FreePages(f[i - 1], i - 1, 0)]
<1>1. m.end \in Nat /\ m.start \in Nat
    BY DEF Untouched, Whole
<1>2. step \in [S -> S]
    <2> SUFFICES ASSUME NEW z \in S, z[1] # m.end
                 PROVE  Up(z) \in S
        BY Zenon
    <2>1. z[1] \in 0..m.end-1 /\ z[1] + 1 \in 0..m.end /\ Fresh(m, z[2], z[1])
        BY <1>1
    <2>2. Fresh(m, NextFreed(m, z[2], z[1]), z[1] + 1)
        BY <2>1, FreshStep
    <2> QED
        BY <2>1, <2>2 DEF Fresh
<1>3. <<0, m>> \in S
    <2>1. Fresh(m, m, 0) /\ m \in BuddyRecord /\ 0 \in 0..m.end
        BY <1>1, FreshStart DEF Untouched
    <2> QED
        BY <2>1
<1>4. PICK f : Iterates(S, <<0, m>>, step, m.end, f)
    <2> HIDE DEF S, step
    <2> QED
        BY <1>1, <1>2, <1>3, Iteration
<1>5. /\ \A k \in 0..m.end : f[k] \in S
      /\ f[0] = <<0, m>> /\ \A k \in 1..m.end : f[k] = step[f[k-1]]
    <2> HIDE DEF S, step
    <2> QED
        BY <1>4, Zenon DEF Iterates
<1>6. \A k \in 0..m.end-1 : f[k][1] = k => f[k+1] = Up(f[k])
    <2> SUFFICES ASSUME NEW k \in 0..m.end-1, f[k][1] = k
                 PROVE  f[k+1] = Up(f[k])
        OBVIOUS
    <2>1. k + 1 \in 1..m.end /\ (k + 1) - 1 = k /\ k \in 0..m.end /\ k # m.end
        BY <1>1
    <2>2. f[k+1] = step[f[k]] /\ f[k] \in S
        BY <1>5, <2>1
    <2>3. step[f[k]] = Up(f[k])
        <3> HIDE DEF S, Up
        <3> QED
            BY <2>1, <2>2
    <2> QED
        BY <2>2, <2>3
<1>7. \A k \in 0..m.end : f[k][1] = k
    <2> DEFINE Good == {k \in 0..m.end : f[k][1] = k}
    <2>1. 0 \in Good
        BY <1>1, <1>5
    <2>2. ASSUME NEW k \in 0..m.end-1, k \in Good
          PROVE  k + 1 \in Good
        BY <1>1, <1>6, <2>2
    <2> HIDE DEF Good
    <2>3. 0..m.end \subseteq Good
        BY <1>1, <2>1, <2>2, CountUp
    <2> QED
        BY <2>3 DEF Good
<1> DEFINE g == [i \in 0..m.end |-> f[i][2]]
<1>8. Frees(g)
    <2> SUFFICES ASSUME NEW i \in 0..m.end
                 PROVE  g[i] = IF i <= m.start THEN m ELSE FreePages(g[i - 1], i - 1, 0)
        OBVIOUS
    <2>1. CASE i = 0
        BY <1>1, <1>5, <2>1
    <2>2. CASE i # 0
        <3>1. i - 1 \in 0..m.end-1 /\ (i - 1) + 1 = i /\ i - 1 \in 0..m.end
            BY <1>1, <2>2
        <3>2. f[i] = Up(f[i - 1]) /\ f[i - 1][1] = i - 1
            BY <1>6, <1>7, <3>1
        <3>3. f[i][2] = NextFreed(m, f[i - 1][2], i - 1)
            BY <3>2
        <3> QED
            BY <3>1, <3>3 DEF NextFreed
    <2> QED
        BY <2>1, <2>2
<1> DEFINE freed == CHOOSE h : Frees(h)
<1>9. FreeEachPage(m) = freed[m.end]
    BY Zenon DEF FreeEachPage
<1> HIDE DEF Frees, g
<1>10. Frees(freed)
    BY <1>8, Zenon
<1> HIDE DEF freed
<1>11. \A i \in 0..m.end : Fresh(m, freed[i], i)
    <2> DEFINE Good == {i \in 0..m.end : Fresh(m, freed[i], i)}
    <2>1. \A i \in 0..m.end : freed[i] = IF i <= m.start THEN m
                                        ELSE FreePages(freed[i - 1], i - 1, 0)
        BY <1>10 DEF Frees
    <2>2. 0 \in Good
        BY <1>1, <2>1, FreshStart
    <2>3. ASSUME NEW i \in 0..m.end-1, i \in Good
          PROVE  i + 1 \in Good
        <3>1. i + 1 \in 0..m.end /\ (i + 1) - 1 = i
            BY <1>1
        <3>2. freed[i + 1] = NextFreed(m, freed[i], i)
            BY <2>1, <3>1 DEF NextFreed
        <3>3. Fresh(m, NextFreed(m, freed[i], i), i + 1)
            BY <2>3, FreshStep
        <3> QED
            BY <3>1, <3>2, <3>3
    <2> HIDE DEF Good
    <2>4. 0..m.end \subseteq Good
        BY <1>1, <2>2, <2>3, CountUp
    <2> QED
        BY <2>4 DEF Good
<1> QED
    BY <1>1, <1>9, <1>11

\* After init_buddy all pages are free blocks of one page.
LEMMA InitKeeps ==
    ASSUME NEW m, Untouched(m)
    PROVE  BuddyInv(FreeEachPage(m), {}) /\ Keeps(m, FreeEachPage(m))
<1> DEFINE x == FreeEachPage(m)
           B == Blocks(x, {})
<1>1. Fresh(m, x, m.end)
    BY FreshAtEnd
<1> HIDE DEF x
<1>2. /\ m.start \in Nat /\ m.end \in Nat /\ m.end <= max_pfn /\ max_pfn \in Nat /\ Whole(m)
      /\ Pow2[0] = 1 /\ 0 \in Order
    <2>1. m.start \in Nat /\ m.end \in Nat /\ m.end <= max_pfn /\ Whole(m)
        BY DEF Untouched, Whole
    <2>2. max_pfn \in Nat /\ Pow2[0] = 1
        BY BootAssumption, Pow2Unfolds
    <2>3. 0 \in Order
        BY OrderAssumption DEF Order
    <2> QED
        BY <2>1, <2>2, <2>3
<1>3. /\ x \in BuddyRecord /\ x.start = m.start /\ x.end = m.end /\ ListsCounted(x)
      /\ \A q \in PageNumber : q \in m.start..m.end-1 => x.bplevel[q] = 0
      /\ \A l \in Order, q \in PageNumber :
            q \in Range(x.free[l]) <=> l = 0 /\ q \in m.start..m.end-1
    BY <1>1 DEF Fresh
<1>4. FreeOf(x) = {<<q, 0>> : q \in m.start..m.end-1} /\ HeldOf(x, {}) = {}
    <2>1. m.start..m.end-1 \subseteq PageNumber
        BY <1>2 DEF PageNumber
    <2> QED
        BY <1>2, <1>3, <2>1 DEF FreeOf, OnList, HeldOf
<1>5. B = {<<q, 0>> : q \in m.start..m.end-1}
    BY <1>4 DEF Blocks
<1>6. ASSUME NEW q \in m.start..m.end-1
      PROVE  IsBlock(x, <<q, 0>>) /\ q \in Nat
    <2>1. q = x.start + (q - x.start) * Pow2[0] /\ q - x.start \in Nat /\ q + Pow2[0] <= x.end
          /\ q \in Nat
        BY <1>2, <1>3
    <2> QED
        BY <2>1 DEF IsBlock, Aligned
<1>7. \A q, r \in Int : InBlock(r, <<q, 0>>) <=> r = q
    BY <1>2 DEF InBlock
<1>8. Tiles(x, B)
    <2>1. B \subseteq Nat \X Order /\ \A b \in B : IsBlock(x, b)
        BY <1>2, <1>5, <1>6
    <2>2. Apart(B)
        <3> SUFFICES ASSUME NEW b \in B, NEW c \in B, NEW r \in Int,
                            InBlock(r, b), InBlock(r, c)
                     PROVE  b = c
            BY Zenon DEF Apart
        <3>1. PICK i \in m.start..m.end-1 : b = <<i, 0>>
            BY <1>5
        <3>2. PICK j \in m.start..m.end-1 : c = <<j, 0>>
            BY <1>5
        <3> QED
            BY <1>7, <3>1, <3>2
    <2>3. \A q \in x.start..x.end-1 : Covered(B, q)
        <3> SUFFICES ASSUME NEW q \in m.start..m.end-1
                     PROVE  Covered(B, q)
            BY <1>3
        <3>1. <<q, 0>> \in B /\ InBlock(q, <<q, 0>>)
            BY <1>2, <1>5, <1>7
        <3> QED
            BY <3>1 DEF Covered
    <2> HIDE DEF B
    <2> QED
        BY <2>1, <2>2, <2>3 DEF Tiles
<1>9. ListsExact(x)
    <2>1. \A b \in FreeOf(x) : x.bplevel[b[1]] = b[2]
        <3>1. m.start..m.end-1 \subseteq PageNumber
            BY <1>2 DEF PageNumber
        <3> QED
            BY <1>3, <1>4, <3>1
    <2> QED
        BY <1>3, <2>1 DEF ListsExact, ListsCounted
<1>10. Keeps(m, x)
    BY <1>1 DEF Fresh, Keeps, NoClear, RESERVED, CLEAR
<1> QED
    BY <1>2, <1>3, <1>8, <1>9, <1>10 DEF BuddyInv, HeldApart, Whole, x

---------------------------------------------------------------------------
(* The boot allocator.                                                     *)

BootRange == [start : Nat, end : Nat, type : BootTypes \cup {MM_KERNEL}]
BootRecord == [s_map : SUBSET Nat, info : Seq(BootRange), last_alloc_end : Nat]

\* The ranges follow one another from page 0 to the last page allocated.
InOrder(info, last) ==
    /\ info[1].start = 0 /\ info[Len(info)].end = last
    /\ \A i \in 1..Len(info)-1 : info[i + 1].start = info[i].end + 1

\* The pages used are those up to the last allocated.  As long as no range had
\* to be forgotten, the ranges are in order.
InfoInv(info, last) ==
    /\ info \in Seq(BootRange) /\ info # <<>>
    /\ \A i \in DOMAIN info : info[i].start <= info[i].end /\ info[i].end <= last
    /\ Len(info) < MAX_INFO => InOrder(info, last)

BootInv(b) ==
    /\ b \in BootRecord
    /\ b.s_map = 0..b.last_alloc_end /\ b.last_alloc_end < max_pfn
    /\ InfoInv(b.info, b.last_alloc_end)

\* What init_bootmm leaves is as it should be.
LEMMA BootStart == BootInv(Booted)
<1> DEFINE r == [start |-> 0, end |-> KernelPages - 1, type |-> MM_KERNEL]
           l == KernelPages - 1
<1>1. KernelPages \in Nat /\ KernelPages >= 1 /\ KernelPages < max_pfn /\ max_pfn \in Nat
    BY BootAssumption
<1>2. r \in BootRange /\ r.start = 0 /\ r.end = l /\ l \in Nat
    BY <1>1 DEF BootRange
<1> HIDE DEF r
<1>3. /\ <<r>> \in Seq(BootRange) /\ <<r>> # <<>> /\ Len(<<r>>) = 1 /\ <<r>>[1] = r
      /\ DOMAIN <<r>> = {1}
    BY <1>2
<1>4. InOrder(<<r>>, l)
    BY <1>2, <1>3 DEF InOrder
<1>5. InfoInv(<<r>>, l)
    BY <1>2, <1>3, <1>4 DEF InfoInv
<1>6. Booted = [s_map |-> 0..l, info |-> <<r>>, last_alloc_end |-> l]
    BY DEF Booted, r
<1> HIDE DEF l
<1>7. Booted \in BootRecord
    BY <1>2, <1>3, <1>6 DEF BootRecord
<1>8. Booted.s_map = 0..l /\ Booted.info = <<r>> /\ Booted.last_alloc_end = l
    BY <1>6
<1> QED
    BY <1>1, <1>5, <1>7, <1>8 DEF BootInv, l

\* What insert_mminfo does with a range that begins after all the others: the
\* last that ends there grows, the range is added, or it is forgotten.
LEMMA InsertAtEnd ==
    ASSUME NEW last \in Nat, NEW info, InfoInv(info, last), NEW cnt \in Nat \ {0}, NEW r \in BootRange,
           r.start = last + 1, r.end = last + cnt
    PROVE  InfoInv(InsertMminfo(info, r), last + cnt)
<1> DEFINE behind == {i \in DOMAIN info : info[i].start > r.start}
           n == Len(info)
           same(i) == i \in DOMAIN info /\ info[i].type = r.type
           before == {i \in 1..n : same(i) /\ info[i].end = r.start - 1}
           f == Smallest(before)
<1>1. /\ info \in Seq(BootRange) /\ n \in Nat /\ n # 0 /\ DOMAIN info = 1..n /\ n = Len(info)
      /\ \A i \in 1..n : /\ info[i] \in BootRange /\ info[i].start \in Nat /\ info[i].end \in Nat
                         /\ info[i].start <= info[i].end /\ info[i].end <= last
    <2>1. info \in Seq(BootRange) /\ info # <<>>
        BY DEF InfoInv
    <2>2. n \in Nat /\ n # 0 /\ DOMAIN info = 1..n /\ \A i \in 1..n : info[i] \in BootRange
        BY <2>1
    <2> QED
        BY <2>1, <2>2 DEF InfoInv, BootRange
<1>11. n \in Nat /\ n # 0
    BY <1>1
<1>2. behind = {} /\ (n + 1) - 1 = n /\ \A i \in DOMAIN info : info[i].start # r.end + 1
    BY <1>1
<1>3. InsertMminfo(info, r) =
        IF before # {} THEN [info EXCEPT ![f].end = r.end]
        ELSE IF n + 1 > MAX_INFO THEN info
        ELSE Append(info, r)
    BY <1>1, <1>2, ZenonT(60) DEF InsertMminfo
<1>4. ASSUME before # {}
      PROVE  f \in 1..n /\ info[f].end = last
    <2>1. before \in SUBSET Int /\ before \subseteq 1..n
        BY <1>1
    <2>2. IsFiniteSet(before)
        <3>1. IsFiniteSet(1..n)
            BY <1>11, FS_Interval
        <3> QED
            BY <2>1, <3>1, FS_Subset
    <2> HIDE DEF before
    <2>3. \E i \in before : \A j \in before : i <= j
        BY <1>4, <2>1, <2>2, LeastAndGreatest
    <2>4. f \in before
        BY <2>3, Zenon DEF Smallest
    <2> QED
        BY <1>1, <2>4 DEF before
<1>5. r.start = last + 1 /\ r.end = last + cnt /\ last + cnt \in Nat /\ last <= last + cnt
      /\ last + 1 <= last + cnt
    OBVIOUS
<1>6. ASSUME n < MAX_INFO
      PROVE  /\ info[1].start = 0 /\ info[n].end = last
             /\ \A i \in 1..n-1 : info[i + 1].start = info[i].end + 1
    BY <1>1, <1>6 DEF InfoInv, InOrder
<1> HIDE DEF n
<1>7. CASE before # {}
    <2> DEFINE x == [info EXCEPT ![f].end = r.end]
    <2>1. f \in 1..n /\ info[f].end = last
        BY <1>4, <1>7
    <2> HIDE DEF before, f
    <2> DEFINE rf == [info[f] EXCEPT !.end = r.end]
    <2>2. rf \in BootRange /\ rf.start = info[f].start /\ rf.end = r.end
        BY <1>1, <1>5, <2>1 DEF BootRange
    <2>3. x = [info EXCEPT ![f] = rf]
        OBVIOUS
    <2> HIDE DEF rf
    <2>4. /\ x \in Seq(BootRange) /\ Len(x) = n /\ x # <<>> /\ DOMAIN x = 1..n
          /\ x[f] = rf /\ \A i \in 1..n : i # f => x[i] = info[i]
        <3>1. info \in [1..n -> BootRange]
            BY <1>1
        <3>2. x \in [1..n -> BootRange] /\ x[f] = rf /\ \A i \in 1..n : i # f => x[i] = info[i]
            <4> HIDE DEF BootRange
            <4> QED
                BY <2>1, <2>2, <2>3, <3>1
        <3> HIDE DEF x
        <3>3. x \in Seq(BootRange) /\ Len(x) = n
            BY <1>1, <3>2
        <3> QED
            BY <1>1, <3>2, <3>3
    <2> HIDE DEF x
    <2>5. \A i \in 1..n : /\ x[i].start = info[i].start /\ x[i].start <= x[i].end
                          /\ x[i].end <= last + cnt /\ (i # f => x[i].end = info[i].end)
        <3> SUFFICES ASSUME NEW i \in 1..n
                     PROVE  /\ x[i].start = info[i].start /\ x[i].start <= x[i].end
                            /\ x[i].end <= last + cnt /\ (i # f => x[i].end = info[i].end)
            OBVIOUS
        <3>1. CASE i = f
            BY <1>1, <1>5, <2>1, <2>2, <2>4, <3>1
        <3>2. CASE i # f
            BY <1>1, <1>5, <2>4, <3>2
        <3> QED
            BY <3>1, <3>2
    <2>6. ASSUME n < MAX_INFO
          PROVE  InOrder(x, last + cnt)
        <3>1. f = n
            <4> SUFFICES ASSUME f # n PROVE FALSE
                OBVIOUS
            <4>1. f \in 1..n-1 /\ f + 1 \in 1..n
                BY <1>11, <2>1
            <4>2. info[f + 1].start = last + 1
                BY <1>6, <2>1, <2>6, <4>1
            <4>3. info[f + 1].start <= last
                <5> DEFINE g == f + 1
                <5>1. g \in 1..n
                    BY <4>1
                <5> HIDE DEF g
                <5>2. /\ info[g].start \in Nat /\ info[g].end \in Nat
                      /\ info[g].start <= info[g].end /\ info[g].end <= last
                    BY <1>1, <5>1
                <5>3. info[g].start <= last
                    BY <5>2
                <5> QED
                    BY <5>3 DEF g
            <4> QED
                BY <4>2, <4>3
        <3>2. x[1].start = 0 /\ x[n].end = last + cnt
            <4>1. 1 \in 1..n
                BY <1>11
            <4> QED
                BY <1>5, <1>6, <2>2, <2>4, <2>5, <2>6, <3>1, <4>1
        <3>3. ASSUME NEW i \in 1..n-1
              PROVE  x[i + 1].start = x[i].end + 1
            <4>1. i \in 1..n /\ i + 1 \in 1..n /\ i # n
                BY <1>11
            <4>2. info[i + 1].start = info[i].end + 1
                BY <1>6, <2>6
            <4>3. x[i + 1].start = info[i + 1].start /\ x[i].end = info[i].end
                BY <2>5, <3>1, <4>1
            <4> QED
                BY <4>2, <4>3
        <3> QED
            BY <2>4, <3>2, <3>3 DEF InOrder
    <2>7. InsertMminfo(info, r) = x
        BY <1>3, <1>7 DEF x
    <2>8. InfoInv(x, last + cnt)
        <3>1. \A i \in DOMAIN x : x[i].start <= x[i].end /\ x[i].end <= last + cnt
            BY <2>4, <2>5
        <3> QED
            BY <2>4, <2>6, <3>1 DEF InfoInv
    <2> QED
        BY <2>7, <2>8
<1>8. CASE before = {} /\ n + 1 > MAX_INFO
    <2>1. InsertMminfo(info, r) = info /\ ~(n < MAX_INFO) /\ info # <<>>
        BY <1>1, <1>3, <1>8, BootAssumption
    <2>2. \A i \in DOMAIN info : info[i].start <= info[i].end /\ info[i].end <= last + cnt
        BY <1>1, <1>5
    <2> QED
        BY <1>1, <2>1, <2>2 DEF InfoInv
<1>9. CASE before = {} /\ ~(n + 1 > MAX_INFO)
    <2> DEFINE x == Append(info, r)
    <2>1. InsertMminfo(info, r) = x
        BY <1>3, <1>9
    <2>2. /\ x \in Seq(BootRange) /\ Len(x) = n + 1 /\ DOMAIN x = 1..n+1 /\ x[n + 1] = r
          /\ \A i \in 1..n : x[i] = info[i]
        BY <1>1
    <2> HIDE DEF x
    <2>3. x # <<>>
        BY <1>1, <2>2
    <2>4. \A i \in 1..n+1 : x[i].start <= x[i].end /\ x[i].end <= last + cnt
        <3> SUFFICES ASSUME NEW i \in 1..n+1
                     PROVE  x[i].start <= x[i].end /\ x[i].end <= last + cnt
            OBVIOUS
        <3>1. CASE i = n + 1
            BY <1>5, <2>2, <3>1
        <3>2. CASE i # n + 1
            <4>1. i \in 1..n
                BY <1>1, <3>2
            <4> QED
                BY <1>1, <1>5, <2>2, <4>1
        <3> QED
            BY <3>1, <3>2
    <2>5. ASSUME n + 1 < MAX_INFO
          PROVE  InOrder(x, last + cnt)
        <3>1. n < MAX_INFO /\ 1 \in 1..n /\ n \in 1..n
            BY <1>1, <2>5, BootAssumption
        <3>2. x[1].start = 0 /\ x[n + 1].end = last + cnt
            BY <1>5, <1>6, <2>2, <3>1
        <3>3. ASSUME NEW i \in 1..n
              PROVE  x[i + 1].start = x[i].end + 1
            <4>1. CASE i = n
                BY <1>5, <1>6, <2>2, <3>1, <4>1
            <4>2. CASE i # n
                <5>1. i \in 1..n-1 /\ i + 1 \in 1..n
                    BY <1>11, <4>2
                <5> QED
                    BY <1>6, <2>2, <3>1, <5>1
            <4> QED
                BY <4>1, <4>2
        <3>4. (n + 1) - 1 = n
            BY <1>1
        <3> QED
            BY <2>2, <3>2, <3>3, <3>4 DEF InOrder
    <2> QED
        BY <2>1, <2>2, <2>3, <2>4, <2>5 DEF InfoInv
<1> QED
    BY <1>7, <1>8, <1>9

BootChanged(b, a, c, s, i, l) ==
    a = [b EXCEPT !.s_map = s, !.last_alloc_end = l] /\ c = [a EXCEPT !.info = i]

\* What a change of the record of the boot allocator gives.
LEMMA BootChange ==
    ASSUME NEW b \in BootRecord, NEW s \in SUBSET Nat, NEW i \in Seq(BootRange), NEW l \in Nat,
           NEW a, NEW c, BootChanged(b, a, c, s, i, l)
    PROVE  c \in BootRecord /\ c.s_map = s /\ c.info = i /\ c.last_alloc_end = l
<1> DEFINE I == Seq(BootRange)
           M == SUBSET Nat
<1>1. b \in [s_map : M, info : I, last_alloc_end : Nat]
    BY DEF BootRecord
<1>2. i \in I /\ s \in M
    OBVIOUS
<1> HIDE DEF I, M
<1>3. c = [s_map |-> s, info |-> i, last_alloc_end |-> l]
    BY <1>1 DEF BootChanged
<1>4. c.s_map = s /\ c.info = i /\ c.last_alloc_end = l
    BY <1>3
<1>5. c \in [s_map : M, info : I, last_alloc_end : Nat]
    BY <1>2, <1>3
<1> QED
    BY <1>3, <1>4, <1>5 DEF BootRecord, I, M

\* bootmm_alloc_pages finds the pages after the last it gave, or none.
LEMMA BootKeeps ==
    ASSUME NEW b, BootInv(b), NEW cnt \in Nat \ {0}, NEW type \in BootTypes \cup {MM_KERNEL},
           NEW got, got = BootmmAllocPages(b, cnt, type, 1)
    PROVE  /\ BootInv(got.b) /\ got.found \in BOOLEAN
           /\ got.b.last_alloc_end = IF got.found THEN b.last_alloc_end + cnt
                                     ELSE b.last_alloc_end
<1> DEFINE last == b.last_alloc_end
           upper == FindPages(b, cnt, last + 1, max_pfn)
           lower == FindPages(b, cnt, 0, last)
           none == [b |-> b, found |-> FALSE, pfn |-> 0]
           map == 0..last + cnt
           a == [b EXCEPT !.s_map = map, !.last_alloc_end = last + cnt]
           given == [b |-> a, found |-> TRUE, pfn |-> last + 1]
           range == [start |-> last + 1, end |-> last + 1 + cnt - 1, type |-> type]
           info == InsertMminfo(b.info, range)
<1>1. /\ last \in Nat /\ last < max_pfn /\ max_pfn \in Nat /\ b.s_map = 0..last
      /\ b.info \in Seq(BootRange) /\ InfoInv(b.info, last) /\ b \in BootRecord
    BY BootAssumption DEF BootInv, BootRecord
<1>2. Allign(last + 1, 1) = last + 1
    BY <1>1 DEF Allign
<1>3. lower = none
    BY <1>1 DEF FindPages
<1>4. ASSUME upper # none
      PROVE  last + 1 + cnt <= max_pfn /\ upper = given
    <2> DEFINE free == ((last + 1)..max_pfn-1) \ b.s_map
               index == Smallest(free)
    <2>1. free # {} /\ ~(index + cnt > max_pfn)
          /\ upper = [b |-> [b EXCEPT !.s_map = @ \cup (index..index+cnt-1),
                                     !.last_alloc_end = index + cnt - 1],
                      found |-> TRUE, pfn |-> index]
        BY <1>4 DEF FindPages
    <2>2. index = last + 1
        <3>1. last + 1 \in free /\ \A j \in free : last + 1 <= j /\ j \in Int
            BY <1>1, <2>1
        <3> HIDE DEF free
        <3>2. index \in free /\ \A j \in free : index <= j
            BY <3>1, Zenon DEF Smallest
        <3> QED
            BY <1>1, <3>1, <3>2
    <2>3. /\ b.s_map \cup (index..index+cnt-1) = map /\ index + cnt - 1 = last + cnt
          /\ index + cnt <= max_pfn
        BY <1>1, <2>1, <2>2, SMTT(40)
    <2> HIDE DEF index, free, map, upper, last
    <2>4. upper = [b |-> [b EXCEPT !.s_map = map, !.last_alloc_end = last + cnt],
                  found |-> TRUE, pfn |-> last + 1]
        BY <2>1, <2>2, <2>3
    <2> QED
        BY <2>2, <2>3, <2>4
<1>5. got = IF upper.found THEN [upper EXCEPT !.b.info =
                    InsertMminfo(@, [start |-> upper.pfn, end |-> upper.pfn + cnt - 1, type |-> type])]
            ELSE IF lower.found THEN [lower EXCEPT !.b.info =
                    InsertMminfo(@, [start |-> lower.pfn, end |-> lower.pfn + cnt - 1, type |-> type])]
            ELSE lower
    BY <1>2 DEF BootmmAllocPages
<1> HIDE DEF upper, lower
<1>6. CASE upper = none
    <2>1. got = none
        BY <1>3, <1>5, <1>6
    <2>2. got.b = b /\ got.found = FALSE
        BY <2>1
    <2> QED
        BY <2>2
<1>7. CASE upper # none
    <2>1. range \in BootRange /\ range.start = last + 1 /\ range.end = last + cnt
        BY <1>1 DEF BootRange
    <2>2. upper = given /\ last + 1 + cnt <= max_pfn
        BY <1>4, <1>7
    <2> HIDE DEF range
    <2>3. InfoInv(info, last + cnt)
        BY <1>1, <2>1, InsertAtEnd
    <2>4. got = [given EXCEPT !.b.info = InsertMminfo(@, range)]
        BY <1>5, <2>2 DEF range
    <2>5. got.b = [a EXCEPT !.info = InsertMminfo(a.info, range)] /\ got.found = TRUE
        <3> HIDE DEF a
        <3> QED
            BY <2>4
    <2>6. a.info = b.info
        BY <1>1 DEF BootRecord
    <2>7. /\ info \in Seq(BootRange) /\ map \in SUBSET Nat /\ last + cnt \in Nat
          /\ last + cnt < max_pfn
        BY <1>1, <2>2, <2>3 DEF InfoInv, map
    <2>8. a = [b EXCEPT !.s_map = map, !.last_alloc_end = last + cnt]
        OBVIOUS
    <2> HIDE DEF map, info, last, a
    <2>9. BootChanged(b, a, got.b, map, info, last + cnt)
        BY <2>5, <2>6, <2>8 DEF info, BootChanged
    <2>10. /\ got.b \in BootRecord /\ got.b.s_map = map /\ got.b.info = info
           /\ got.b.last_alloc_end = last + cnt
        BY <1>1, <2>7, <2>9, BootChange
    <2>11. BootInv(got.b)
        BY <2>3, <2>7, <2>10 DEF BootInv, map
    <2> QED
        BY <2>5, <2>10, <2>11 DEF last
<1> QED
    BY <1>6, <1>7

\* Ranges that follow one another are disjoint and are all the pages.
LEMMA OrderedRanges ==
    ASSUME NEW last \in Nat, NEW info, InfoInv(info, last), InOrder(info, last)
    PROVE  /\ \A i, j \in DOMAIN info : i < j => info[i].end < info[j].start
           /\ \A q \in 0..last : \E i \in DOMAIN info : q \in RangePages(info[i])
<1> DEFINE n == Len(info)
<1>1. n \in Nat /\ n # 0 /\ DOMAIN info = 1..n /\ n = Len(info)
    <2>1. info \in Seq(BootRange) /\ info # <<>>
        BY DEF InfoInv
    <2> QED
        BY <2>1
<1>2. ASSUME NEW i \in 1..n
      PROVE  /\ info[i].start \in Int /\ info[i].end \in Int /\ info[i].start <= info[i].end
             /\ info[i].end <= last
    <2>1. info[i] \in BootRange
        BY <1>1 DEF InfoInv
    <2> QED
        BY <1>1, <2>1 DEF InfoInv, BootRange
<1>3. /\ info[1].start = 0 /\ info[n].end = last
      /\ \A i \in 1..n-1 : info[i + 1].start = info[i].end + 1
    BY DEF InOrder
<1> HIDE DEF n
<1>4. n \in Nat /\ n # 0 /\ 1 \in 1..n
    BY <1>1
<1> DEFINE After == {k \in 0..n : \A j \in 1..k, i \in 1..k : i < j => info[i].end < info[j].start}
<1>5. 0 \in After
    BY <1>4
<1>6. ASSUME NEW k \in 0..n-1, k \in After
      PROVE  k + 1 \in After
    <2>1. k + 1 \in 0..n /\ k \in Nat
        BY <1>4
    <2>2. ASSUME NEW j \in 1..k+1, NEW i \in 1..k+1, i < j
          PROVE  info[i].end < info[j].start
        <3>1. CASE j # k + 1
            <4>1. j \in 1..k /\ i \in 1..k
                BY <2>1, <2>2, <3>1
            <4> QED
                BY <1>6, <2>2, <4>1
        <3>2. CASE j = k + 1
            <4>1. k \in 1..n-1 /\ k \in 1..n /\ i \in 1..k /\ i \in 1..n /\ j \in 1..n
                BY <1>4, <2>1, <2>2, <3>2
            <4>2. info[j].start = info[k].end + 1
                BY <1>3, <3>2, <4>1
            <4>3. info[i].end <= info[k].end
                <5>1. CASE i = k
                    BY <1>2, <4>1, <5>1
                <5>2. CASE i # k
                    <6>1. i < k /\ k \in 1..k
                        BY <4>1, <5>2
                    <6>2. info[i].end < info[k].start
                        BY <1>6, <4>1, <6>1
                    <6>3. info[k].start <= info[k].end /\ info[k].start \in Int /\ info[k].end \in Int
                          /\ info[i].end \in Int
                        BY <1>2, <4>1
                    <6> QED
                        BY <6>2, <6>3
                <5> QED
                    BY <5>1, <5>2
            <4>4. info[i].end \in Int /\ info[k].end \in Int
                BY <1>2, <4>1
            <4> QED
                BY <4>2, <4>3, <4>4
        <3> QED
            BY <3>1, <3>2
    <2> QED
        BY <2>1, <2>2
<1> HIDE DEF After
<1>7. 0..n \subseteq After
    BY <1>4, <1>5, <1>6, CountUp
<1>8. ASSUME NEW i \in 1..n, NEW j \in 1..n, i < j
      PROVE  info[i].end < info[j].start
    BY <1>4, <1>7, <1>8 DEF After
<1> DEFINE Upto == {k \in 0..n : k = 0 \/ \A q \in 0..info[k].end :
                                    \E i \in 1..n : q \in RangePages(info[i])}
<1>9. 0 \in Upto
    BY <1>4
<1>10. ASSUME NEW k \in 0..n-1, k \in Upto
       PROVE  k + 1 \in Upto
    <2>1. k + 1 \in 1..n /\ k + 1 \in 0..n
        BY <1>4
    <2> DEFINE s == info[k + 1].start
               e == info[k + 1].end
    <2>2. s \in Int /\ e \in Int
        BY <1>2, <2>1
    <2> SUFFICES ASSUME NEW q \in 0..e
                 PROVE  \E i \in 1..n : q \in RangePages(info[i])
        BY <2>1
    <2>3. CASE s <= q
        BY <2>1, <2>2, <2>3 DEF RangePages
    <2>4. CASE ~(s <= q)
        <3>1. k # 0
            BY <1>3, <2>2, <2>4
        <3>2. k \in 1..n-1 /\ k \in 1..n
            BY <1>4, <3>1
        <3>3. s = info[k].end + 1 /\ info[k].end \in Int
            BY <1>2, <1>3, <3>2
        <3>4. q \in 0..info[k].end
            BY <2>2, <2>4, <3>3
        <3> QED
            BY <1>10, <3>1, <3>4
    <2> QED
        BY <2>3, <2>4
<1> HIDE DEF Upto
<1>11. 0..n \subseteq Upto
    BY <1>4, <1>9, <1>10, CountUp
<1>12. \A q \in 0..last : \E i \in 1..n : q \in RangePages(info[i])
    <2>1. n \in Upto
        BY <1>4, <1>11
    <2> QED
        BY <1>3, <1>4, <2>1 DEF Upto
<1> QED
    BY <1>1, <1>8, <1>12

\* The ranges in order are disjoint, and are what the map marks.
LEMMA BootExact ==
    ASSUME NEW b, BootInv(b), Len(b.info) < MAX_INFO
    PROVE  /\ b.s_map = UNION {RangePages(b.info[i]) : i \in DOMAIN b.info}
           /\ \A i, j \in DOMAIN b.info :
                i # j => RangePages(b.info[i]) \cap RangePages(b.info[j]) = {}
<1> DEFINE info == b.info
           last == b.last_alloc_end
<1>1. /\ last \in Nat /\ b.s_map = 0..last /\ InfoInv(info, last) /\ InOrder(info, last)
      /\ info \in Seq(BootRange)
    BY DEF BootInv, BootRecord, InfoInv
<1> HIDE DEF info, last
<1>2. /\ \A i, j \in DOMAIN info : i < j => info[i].end < info[j].start
      /\ \A q \in 0..last : \E i \in DOMAIN info : q \in RangePages(info[i])
    BY <1>1, OrderedRanges
<1>3. \A i \in DOMAIN info : /\ i \in Int /\ info[i].start \in Nat /\ info[i].end \in Int
                             /\ info[i].end <= last
    <2> SUFFICES ASSUME NEW i \in DOMAIN info
                 PROVE  /\ i \in Int /\ info[i].start \in Nat /\ info[i].end \in Int
                        /\ info[i].end <= last
        OBVIOUS
    <2>1. info[i] \in BootRange /\ i \in Int
        BY <1>1
    <2> QED
        BY <1>1, <2>1 DEF InfoInv, BootRange
<1>4. \A i \in DOMAIN info : RangePages(info[i]) \subseteq 0..last
    BY <1>1, <1>3 DEF RangePages
<1>5. b.s_map = UNION {RangePages(info[i]) : i \in DOMAIN info}
    BY <1>1, <1>2, <1>4
<1>6. ASSUME NEW i \in DOMAIN info, NEW j \in DOMAIN info, i < j
      PROVE  RangePages(info[i]) \cap RangePages(info[j]) = {}
    <2>1. info[i].end < info[j].start /\ info[i].end \in Int /\ info[j].start \in Int
        BY <1>2, <1>3, <1>6
    <2> QED
        BY <1>3, <2>1 DEF RangePages
<1>7. ASSUME NEW i \in DOMAIN info, NEW j \in DOMAIN info, i # j
      PROVE  RangePages(info[i]) \cap RangePages(info[j]) = {}
    <2>1. i < j \/ j < i
        BY <1>3, <1>7
    <2> QED
        BY <1>6, <2>1
<1> QED
    BY <1>5, <1>7 DEF info

\* The end of the kernel that init_buddy computes: the last page that is used,
\* if the ranges know of it.
LEMMA KernelEnd ==
    ASSUME NEW b, BootInv(b)
    PROVE  /\ KernelEndPfn(b) \in Nat
           /\ Len(b.info) < MAX_INFO => KernelEndPfn(b) = b.last_alloc_end
<1> DEFINE info == b.info
           last == b.last_alloc_end
           ends == {info[i].end : i \in DOMAIN info}
<1>1. last \in Nat /\ InfoInv(info, last) /\ info \in Seq(BootRange) /\ info # <<>>
    BY DEF BootInv, BootRecord, InfoInv
<1> HIDE DEF info, last
<1>2. Len(info) \in Nat /\ Len(info) \in DOMAIN info
    BY <1>1
<1>3. \A i \in DOMAIN info : info[i] \in BootRange
    BY <1>1
<1>4. \A i \in DOMAIN info : info[i].end \in Nat /\ info[i].end <= last
    BY <1>1, <1>3 DEF InfoInv, BootRange
<1>5. ends \subseteq 0..last /\ info[Len(info)].end \in ends
    BY <1>1, <1>2, <1>4
<1> HIDE DEF ends
<1>6. ends \in SUBSET Int /\ IsFiniteSet(ends) /\ ends # {}
    <2>1. IsFiniteSet(0..last)
        BY <1>1, FS_Interval
    <2>2. IsFiniteSet(ends)
        <3>1. ends \subseteq 0..last
            BY <1>5
        <3> QED
            BY <2>1, <3>1, FS_Subset
    <2>3. 0..last \subseteq Int
        OBVIOUS
    <2> QED
        BY <1>5, <2>2, <2>3
<1>7. \E e \in ends : \A x \in ends : x <= e
    BY <1>6, LeastAndGreatest
<1>8. KernelEndPfn(b) \in ends /\ \A x \in ends : x <= KernelEndPfn(b)
    BY <1>7, Zenon DEF KernelEndPfn, ends, info
<1> DEFINE end == KernelEndPfn(b)
<1>10. end \in ends /\ (\A x \in ends : x <= end) /\ end \in 0..last
    BY <1>5, <1>8
<1> HIDE DEF end
<1>9. ASSUME Len(info) < MAX_INFO
      PROVE  end = last
    <2>1. last \in ends
        BY <1>1, <1>5, <1>9 DEF InfoInv, InOrder
    <2> QED
        BY <1>1, <1>10, <2>1
<1>11. end \in Nat
    BY <1>1, <1>10
<1> QED
    BY <1>9, <1>11 DEF info, last, end

---------------------------------------------------------------------------
(* kmalloc and kfree.                                                      *)

\* What alloc_pages asks for: the least level that holds n pages.
Level(n, k) == Pow2[k] >= n /\ \A j \in 0..k-1 : Pow2[j] < n

\* 2^n is at least n, so that the search for a level ends.
LEMMA Pow2Exceeds ==
    ASSUME NEW n \in Nat
    PROVE  Pow2[n] >= n
<1> DEFINE Good == {k \in 0..n : Pow2[k] >= k}
<1>1. 0 \in Good
    BY Pow2Unfolds
<1>2. ASSUME NEW k \in 0..n-1, k \in Good
      PROVE  k + 1 \in Good
    <2>1. k \in Nat /\ Pow2[k] \in Nat \ {0} /\ Pow2[k + 1] = 2 * Pow2[k] /\ Pow2[k] >= k
        BY <1>2, Pow2Unfolds
    <2>2. k + 1 \in 0..n /\ Pow2[k + 1] >= k + 1
        BY <2>1
    <2> QED
        BY <2>2
<1> HIDE DEF Good
<1>3. 0..n \subseteq Good
    BY <1>1, <1>2, CountUp
<1> QED
    BY <1>3 DEF Good

\* The search for a level finds it.
LEMMA LevelFound ==
    ASSUME NEW n \in Nat
    PROVE  LevelFor(n) \in Nat /\ Level(n, LevelFor(n))
<1> DEFINE T == {k \in 0..n : Pow2[k] >= n}
<1>1. T \in SUBSET Int /\ n \in T
    BY Pow2Exceeds
<1>2. IsFiniteSet(T)
    <2>1. IsFiniteSet(0..n) /\ T \subseteq 0..n
        BY FS_Interval
    <2> QED
        BY <2>1, FS_Subset
<1>3. PICK k \in T : \A j \in T : k <= j
    BY <1>1, <1>2, LeastAndGreatest
<1>4. ASSUME NEW j \in 0..k-1
      PROVE  Pow2[j] < n
    <2>1. j \in 0..n /\ ~(k <= j) /\ j \in Nat
        OBVIOUS
    <2>2. ~(Pow2[j] >= n) /\ Pow2[j] \in Nat
        BY <1>3, <2>1, Pow2Unfolds
    <2> QED
        BY <2>2
<1>5. k \in 0..n /\ Level(n, k)
    BY <1>4 DEF Level
<1>6. LevelFor(n) = CHOOSE l \in 0..n : Level(n, l)
    BY DEF LevelFor, Level
<1>7. LevelFor(n) \in 0..n /\ Level(n, LevelFor(n))
    BY <1>5, <1>6, Zenon
<1> QED
    BY <1>7

\* __alloc_pages.
LEMMA AllocKeeps ==
    ASSUME NEW m, NEW S, BuddyInv(m, S), NEW k \in Nat, Serving(m, k) # {},
           NEW got, got = AllocPages(m, k)
    PROVE  Joins(m, got.m, S, got.page, k)
<1> DEFINE from == LeastServing(m, k)
           p == Head(m.free[from])
<1>1. k \in Order
    BY OrderAssumption DEF Serving, Order
<1>2. from \in Order /\ k <= from /\ m.free[from] # <<>>
    BY <1>1, ServedFrom
<1>3. got.page = p /\ got.m = Cut(m, p, from, k, k)
    BY DEF AllocPages
<1> HIDE DEF from
<1> QED
    BY <1>1, <1>2, <1>3, CutKeeps, Zenon

\* format_slabpage.
LEMMA FlagKeeps ==
    ASSUME NEW m, NEW S, BuddyInv(m, S), NEW p \in PageNumber,
           NEW n, n = [m EXCEPT !.flag[p] = CLEAR]
    PROVE  /\ BuddyInv(n, S) /\ n.start = m.start /\ n.end = m.end
           /\ n.bplevel = m.bplevel
<1> DEFINE flag == [m.flag EXCEPT ![p] = CLEAR]
<1>1. m \in BuddyRecord
    BY DEF BuddyInv
<1>2. /\ flag \in [PageNumber -> Flag] /\ m.bplevel \in [PageNumber -> Int]
      /\ m.free \in [Order -> Seq(PageNumber)] /\ m.nr_free \in [Order -> Int]
    <2>1. CLEAR \in Flag /\ m.flag \in [PageNumber -> Flag]
        BY <1>1 DEF BuddyRecord, Flag
    <2> QED
        BY <1>1, <2>1 DEF BuddyRecord
<1>3. Changed(m, n, flag, m.bplevel, m.free, m.nr_free)
    <2> HIDE DEF flag
    <2>1. n = [m EXCEPT !.flag = flag]
        BY DEF flag
    <2> QED
        BY <1>1, <2>1 DEF Changed, BuddyRecord
<1> HIDE DEF flag
<1>4. Fields(m, n, flag, m.bplevel, m.free, m.nr_free)
    BY <1>1, <1>3, RecordChange, Zenon
<1>5. /\ n.start = m.start /\ n.end = m.end /\ n.bplevel = m.bplevel /\ n.free = m.free
      /\ n.nr_free = m.nr_free /\ n \in BuddyRecord
    BY <1>2, <1>4 DEF Fields
<1>6. Blocks(n, S) = Blocks(m, S) /\ FreeOf(n) = FreeOf(m)
    BY <1>5 DEF Blocks, FreeOf, OnList, HeldOf
<1>7. Tiles(n, Blocks(n, S))
    BY <1>5, <1>6 DEF BuddyInv, Tiles, IsBlock
<1>8. /\ Whole(n) /\ n.end <= max_pfn /\ ListsExact(n) /\ HeldApart(n, S)
    BY <1>5, <1>6 DEF BuddyInv, Whole, ListsExact, HeldApart
<1> QED
    BY <1>5, <1>7, <1>8 DEF BuddyInv

---------------------------------------------------------------------------
(* The memory of the kernel.                                               *)

\* kfree comes to no page that is in use: so says the model's constant, or
\* only whole pages are asked for, so that no flag is ever clear.
WholePagesOnly == \A size \in Requests : size > 2048
InUseSpared == MergesInUse = FALSE \/ WholePagesOnly

MemoryInv ==
    /\ phase \in {"boot", "run", "halted"}
    /\ BootInv(bmm)
    /\ phase = "boot" => buddy = NoBuddy /\ DOMAIN held = {}
    /\ BuddyInv(buddy, DOMAIN held)
    /\ \A p \in DOMAIN held : held[p] \in Nat /\ Level(held[p], buddy.bplevel[p])
    /\ WholePagesOnly => NoClear(buddy)

\* The struct pages as init_pages leaves them.
LEMMA NoBuddyIs ==
    /\ NoBuddy \in BuddyRecord /\ NoBuddy.start = 0 /\ NoBuddy.end = 0
    /\ \A q \in PageNumber : NoBuddy.flag[q] = RESERVED /\ NoBuddy.bplevel[q] = -1
    /\ \A l \in Order : NoBuddy.free[l] = <<>> /\ NoBuddy.nr_free[l] = 0
<1> DEFINE flag == [p \in PageNumber |-> RESERVED]
           bplevel == [p \in PageNumber |-> -1]
           free == [k \in Order |-> <<>>]
           nr_free == [k \in Order |-> 0]
           F == [PageNumber -> Flag]
           L == [PageNumber -> Int]
           Q == [Order -> Seq(PageNumber)]
           C == [Order -> Int]
<1>1. flag \in F /\ bplevel \in L /\ free \in Q /\ nr_free \in C
    BY DEF Flag
<1>2. NoBuddy = [start |-> 0, end |-> 0, flag |-> flag, bplevel |-> bplevel, free |-> free,
                 nr_free |-> nr_free]
    BY DEF NoBuddy
<1>3. /\ \A q \in PageNumber : flag[q] = RESERVED /\ bplevel[q] = -1
      /\ \A l \in Order : free[l] = <<>> /\ nr_free[l] = 0
    OBVIOUS
<1> HIDE DEF flag, bplevel, free, nr_free, F, L, Q, C
<1>4. NoBuddy \in [start : Nat, end : Nat, flag : F, bplevel : L, free : Q, nr_free : C]
    BY <1>1, <1>2
<1>5. /\ NoBuddy.start = 0 /\ NoBuddy.end = 0 /\ NoBuddy.flag = flag /\ NoBuddy.bplevel = bplevel
      /\ NoBuddy.free = free /\ NoBuddy.nr_free = nr_free
    BY <1>2
<1> QED
    BY <1>3, <1>4, <1>5 DEF BuddyRecord, F, L, Q, C

\* An allocator without pages is consistent.
LEMMA NothingYet == BuddyInv(NoBuddy, {}) /\ NoClear(NoBuddy)
<1>1. Whole(NoBuddy)
    <2>1. Pow2[MAX_BUDDY_ORDER] \in Nat
        BY OrderAssumption, Pow2Unfolds
    <2>2. 0 = 0 + 0 * Pow2[MAX_BUDDY_ORDER] /\ 0 \in Nat /\ 0 \in Int
        BY <2>1
    <2> QED
        BY <2>2, NoBuddyIs DEF Whole
<1>2. FreeOf(NoBuddy) = {} /\ HeldOf(NoBuddy, {}) = {}
    <2>1. \A l \in Order : Range(NoBuddy.free[l]) = {}
        BY NoBuddyIs DEF Range
    <2> QED
        BY <2>1 DEF FreeOf, OnList, HeldOf
<1>3. Tiles(NoBuddy, Blocks(NoBuddy, {}))
    <2>1. Blocks(NoBuddy, {}) = {}
        BY <1>2 DEF Blocks
    <2>2. NoBuddy.start..NoBuddy.end-1 = {}
        BY NoBuddyIs
    <2> QED
        BY <2>1, <2>2 DEF Tiles, Apart
<1>4. ListsExact(NoBuddy)
    <2>1. Len(<<>>) = 0 /\ IsInjective(<<>>)
        BY DEF IsInjective
    <2> QED
        BY <1>2, <2>1, NoBuddyIs DEF ListsExact
<1>5. NoClear(NoBuddy)
    BY NoBuddyIs DEF NoClear, RESERVED, CLEAR
<1> QED
    BY <1>1, <1>3, <1>4, <1>5, NoBuddyIs, BootAssumption DEF BuddyInv, HeldApart

\* The allocator as init_buddy sets it up.
LEMMA SetUp ==
    ASSUME NEW b, BootInv(b), NEW m,
           m = [NoBuddy EXCEPT !.start = Allign(KernelEndPfn(b), Pow2[MAX_BUDDY_ORDER]),
                               !.end = (max_pfn \div Pow2[MAX_BUDDY_ORDER]) * Pow2[MAX_BUDDY_ORDER]]
    PROVE  Untouched(m) /\ m.start = Allign(KernelEndPfn(b), Pow2[MAX_BUDDY_ORDER])
<1> DEFINE s == Pow2[MAX_BUDDY_ORDER]
           e == KernelEndPfn(b)
           c == (e + s - 1) \div s
           d == max_pfn \div s
<1>1. s \in Nat \ {0} /\ e \in Nat /\ max_pfn \in Nat
    BY OrderAssumption, Pow2Unfolds, KernelEnd, BootAssumption
<1>2. Allign(e, s) = c * s
    BY DEF Allign
<1>3. m = [NoBuddy EXCEPT !.start = c * s, !.end = d * s]
    BY <1>2
<1> HIDE DEF s, e
<1>4. c \in Int /\ d \in Int /\ d * s <= max_pfn /\ c * s \in Nat /\ d * s \in Nat
    <2>1. e + s - 1 \in Int /\ 0 <= e + s - 1
        BY <1>1
    <2>2. /\ c \in Int /\ (e + s - 1) < c * s + s
          /\ d \in Int /\ d * s <= max_pfn /\ max_pfn < d * s + s
        BY <1>1, <2>1, Division
    <2> HIDE DEF c, d
    <2>3. \A i \in Int : 0 < i * s + s => i * s \in Nat
        <3> SUFFICES ASSUME NEW i \in Int, 0 < i * s + s
                     PROVE  i * s \in Nat
            OBVIOUS
        <3>1. (i + 1) * s = i * s + s /\ 0 * s = 0 /\ i * s \in Int
            BY <1>1, Distributes
        <3>2. 0 * s < (i + 1) * s
            BY <3>1
        <3>3. 0 < i + 1
            BY <1>1, <3>2, Cancels
        <3>4. 0 * s <= i * s
            BY <1>1, <3>3, Monotone
        <3> QED
            BY <3>1, <3>4
    <2>4. c * s \in Int /\ d * s \in Int
        BY <1>1, <2>2
    <2>5. 0 < c * s + s /\ 0 < d * s + s
        BY <1>1, <2>1, <2>2, <2>4
    <2> QED
        BY <2>2, <2>3, <2>5
<1> HIDE DEF c, d
<1> DEFINE cs == c * s
           ds == d * s
<1>5. /\ m.start = cs /\ m.end = ds /\ m.flag = NoBuddy.flag /\ m.bplevel = NoBuddy.bplevel
      /\ m.free = NoBuddy.free /\ m.nr_free = NoBuddy.nr_free /\ m \in BuddyRecord
    <2>1. cs \in Nat /\ ds \in Nat /\ NoBuddy \in BuddyRecord
        BY <1>4, NoBuddyIs
    <2>2. m = [NoBuddy EXCEPT !.start = cs, !.end = ds]
        BY <1>3
    <2> HIDE DEF cs, ds
    <2> QED
        BY <2>1, <2>2 DEF BuddyRecord
<1>6. Whole(m)
    <2>1. ds = cs + (d - c) * s /\ d - c \in Int
        <3>1. (d - c) * s = ds - cs
            BY <1>1, <1>4, Distributes
        <3> QED
            BY <1>4, <3>1
    <2> QED
        BY <1>4, <1>5, <2>1 DEF Whole, s
<1> QED
    BY <1>2, <1>4, <1>5, <1>6, NoBuddyIs DEF Untouched, s, e

\* The invariant holds when the kernel starts.
LEMMA MemoryInit == Init => MemoryInv
<1> SUFFICES ASSUME Init PROVE MemoryInv
    OBVIOUS
<1>1. DOMAIN held = {}
    BY DEF Init
<1> QED
    BY <1>1, BootStart, NothingYet DEF Init, MemoryInv

\* bootmm_alloc_pages keeps the invariant.
LEMMA BootAllocStep ==
    ASSUME MemoryInv, NEW n \in BootRequests, NEW t \in BootTypes, BootAlloc(n, t)
    PROVE  MemoryInv'
<1>1. BootInv(bmm')
    BY BootKeeps, MemoryAssumption DEF MemoryInv, BootAlloc
<1> QED
    BY <1>1 DEF MemoryInv, BootAlloc

\* init_buddy establishes the part on the buddy allocator.
LEMMA InitBuddyStep ==
    ASSUME MemoryInv, NEW n \in BootRequests, InitBuddy(n)
    PROVE  MemoryInv'
<1> DEFINE got == BootmmAllocPages(bmm, n, MM_KERNEL, 1)
           unit == Pow2[MAX_BUDDY_ORDER]
           m == [NoBuddy EXCEPT !.start = Allign(KernelEndPfn(got.b), unit),
                                !.end = (max_pfn \div unit) * unit]
<1>1. BootInv(got.b)
    BY BootKeeps, MemoryAssumption DEF MemoryInv
<1>2. /\ phase = "boot" /\ bmm' = got.b /\ held' = held
      /\ \/ phase' = "run" /\ buddy' = FreeEachPage(m)
         \/ phase' = "halted" /\ buddy' = buddy
    BY DEF InitBuddy
<1>3. CASE phase' = "halted" /\ buddy' = buddy
    BY <1>1, <1>2, <1>3 DEF MemoryInv
<1>4. CASE phase' = "run" /\ buddy' = FreeEachPage(m)
    <2>1. Untouched(m)
        BY <1>1, SetUp
    <2> HIDE DEF m
    <2>2. BuddyInv(buddy', {}) /\ Keeps(m, buddy')
        BY <1>4, <2>1, InitKeeps
    <2>3. NoClear(buddy')
        <3>1. NoClear(m)
            BY <2>1 DEF Untouched, NoClear, RESERVED, CLEAR
        <3> QED
            BY <2>2, <3>1 DEF Keeps
    <2>4. held' = held /\ DOMAIN held = {}
        BY <1>2 DEF MemoryInv
    <2> QED
        BY <1>1, <1>2, <1>4, <2>2, <2>3, <2>4 DEF MemoryInv
<1> QED
    BY <1>2, <1>3, <1>4

\* A block of level k at page p is handed out as n pages.
Hands(m, p, k, n) ==
    /\ Joins(buddy, m, DOMAIN held, p, k) /\ Level(n, k)
    /\ phase' = phase /\ bmm' = bmm /\ held' = Holding(p, n)
    /\ BuddyInv(buddy', DOMAIN held \cup {p}) /\ buddy'.bplevel = m.bplevel
    /\ WholePagesOnly => NoClear(buddy')

\* A page that is handed out keeps the invariant.
LEMMA HandOut ==
    ASSUME MemoryInv, phase = "run", NEW m, NEW p, NEW k, NEW n \in Nat, Hands(m, p, k, n)
    PROVE  MemoryInv'
<1>1. p \notin DOMAIN held /\ m.bplevel[p] = k /\ \A q \in DOMAIN held : m.bplevel[q] = buddy.bplevel[q]
    BY DEF Joins, Hands
<1>2. /\ DOMAIN held' = DOMAIN held \cup {p} /\ held'[p] = n
      /\ \A q \in DOMAIN held : held'[q] = held[q]
    BY <1>1 DEF Hands, Holding
<1>3. \A q \in DOMAIN held' : held'[q] \in Nat /\ Level(held'[q], buddy'.bplevel[q])
    BY <1>1, <1>2 DEF MemoryInv, Hands
<1> QED
    BY <1>2, <1>3 DEF MemoryInv, Hands

\* kmalloc keeps the invariant.
LEMMA KmallocStep ==
    ASSUME MemoryInv, NEW size \in Requests, Kmalloc(size)
    PROVE  MemoryInv'
<1>1. size \in Nat \ {0} /\ phase = "run" /\ bmm' = bmm /\ CacheSize[Len(CacheSize)] = 2048
    BY MemoryAssumption DEF Kmalloc, CacheSize
<1>2. CASE phase' = "halted" /\ UNCHANGED <<buddy, cpu, held>>
    BY <1>1, <1>2 DEF MemoryInv
<1>3. CASE UNCHANGED <<phase, buddy, held>>
    BY <1>1, <1>3 DEF MemoryInv
<1>4. CASE size <= 2048 /\ ~(Serving(buddy, 0) = {}) /\ SlabAlloc(GetSlab(size))
    <2> DEFINE got == AllocPages(buddy, 0)
               p == got.page
    <2>1. Joins(buddy, got.m, DOMAIN held, p, 0)
        BY <1>4, AllocKeeps DEF MemoryInv
    <2>2. /\ buddy' = [got.m EXCEPT !.flag[p] = CLEAR] /\ held' = Holding(p, 1)
          /\ phase' = phase
        BY <1>4 DEF SlabAlloc
    <2> HIDE DEF got, p
    <2>3. BuddyInv(buddy', DOMAIN held \cup {p}) /\ buddy'.bplevel = got.m.bplevel
        BY <2>1, <2>2, FlagKeeps DEF Joins
    <2>4. Level(1, 0)
        BY Pow2Unfolds DEF Level
    <2>5. ~WholePagesOnly
        BY <1>1, <1>4 DEF WholePagesOnly
    <2>6. Hands(got.m, p, 0, 1) /\ 1 \in Nat
        BY <1>1, <2>1, <2>2, <2>3, <2>4, <2>5 DEF Hands
    <2> QED
        BY <1>1, <2>6, HandOut
<1>5. CASE ~(Serving(buddy, LevelFor(Pages(size))) = {}) /\ AllocBlock(Pages(size))
    <2> DEFINE n == Pages(size)
               k == LevelFor(n)
               got == AllocPages(buddy, k)
               p == got.page
    <2>1. n \in Nat
        BY <1>1 DEF Pages, PAGE_SIZE
    <2> HIDE DEF n
    <2>2. k \in Nat /\ Level(n, k)
        BY <2>1, LevelFound
    <2>3. buddy' = got.m /\ held' = Holding(p, n) /\ phase' = phase
        BY <1>5 DEF AllocBlock, n
    <2>4. Serving(buddy, k) # {}
        BY <1>5 DEF n
    <2> HIDE DEF k
    <2>5. Joins(buddy, got.m, DOMAIN held, p, k)
        BY <2>2, <2>4, AllocKeeps DEF MemoryInv
    <2> HIDE DEF got, p
    <2>6. BuddyInv(buddy', DOMAIN held \cup {p}) /\ (WholePagesOnly => NoClear(buddy'))
        BY <2>3, <2>5 DEF Joins, Keeps, MemoryInv
    <2>7. Hands(got.m, p, k, n)
        BY <1>1, <2>2, <2>3, <2>5, <2>6 DEF Hands, Joins
    <2> QED
        BY <1>1, <2>1, <2>7, HandOut
<1> QED
    BY <1>1, <1>2, <1>3, <1>4, <1>5 DEF Kmalloc, AllocBlock, SlabAlloc

\* kfree keeps the invariant, as long as it spares what is in use.
LEMMA KfreeStep ==
    ASSUME MemoryInv, InUseSpared, NEW p \in PageNumber, Kfree(p)
    PROVE  MemoryInv'
<1> DEFINE k == buddy.bplevel[p]
<1>1. /\ phase = "run" /\ p \in DOMAIN held /\ phase' = phase /\ bmm' = bmm
      /\ buddy' = FreePages(buddy, p, k)
      /\ held' = [q \in DOMAIN held \ {p} |-> held[q]]
      /\ MergesInUse \/ \A q \in DOMAIN held : \A j \in DOMAIN TakenIn(buddy, p, k) :
                            q # TakenIn(buddy, p, k)[j]
    BY DEF Kfree
<1>2. Spares(buddy, DOMAIN held, p, k)
    <2>1. CASE MergesInUse = FALSE
        BY <1>1, <2>1 DEF Spares
    <2>2. CASE WholePagesOnly
        <3>1. BuddyInv(buddy, DOMAIN held) /\ NoClear(buddy)
            BY <2>2 DEF MemoryInv
        <3>2. k \in Order /\ DOMAIN held \subseteq PageNumber
            BY <1>1, <3>1 DEF BuddyInv, HeldApart
        <3> SUFFICES ASSUME NEW q \in DOMAIN held, NEW j \in DOMAIN TakenIn(buddy, p, k),
                            q = TakenIn(buddy, p, k)[j]
                     PROVE  FALSE
            BY DEF Spares
        <3>3. j \in k..MergedLevel(buddy, p, k)-1 /\ q = BuddyOf(buddy, p, j)
            BY DEF TakenIn
        <3>4. Mergeable(buddy, p, j)
            BY <3>2, <3>3, MergeEnds
        <3> QED
            BY <3>1, <3>2, <3>3, <3>4 DEF Mergeable, NoClear
    <2> QED
        BY <2>1, <2>2 DEF InUseSpared
<1>3. /\ BuddyInv(buddy', DOMAIN held \ {p}) /\ Keeps(buddy, buddy')
      /\ \A q \in DOMAIN held \ {p} : buddy'.bplevel[q] = buddy.bplevel[q]
    <2>1. BuddyInv(buddy, DOMAIN held)
        BY DEF MemoryInv
    <2>2. p \in DOMAIN held /\ k = buddy.bplevel[p] /\ buddy' = FreePages(buddy, p, k)
        BY <1>1
    <2> HIDE DEF k
    <2>3. Leaves(buddy, buddy', DOMAIN held, p)
        BY <1>2, <2>1, <2>2, FreeKeeps, Zenon
    <2> QED
        BY <2>3 DEF Leaves
<1>4. DOMAIN held' = DOMAIN held \ {p} /\ \A q \in DOMAIN held' : held'[q] = held[q]
    BY <1>1
<1>5. \A q \in DOMAIN held' : held'[q] \in Nat /\ Level(held'[q], buddy'.bplevel[q])
    BY <1>3, <1>4 DEF MemoryInv
<1> QED
    BY <1>1, <1>3, <1>4, <1>5 DEF MemoryInv, Keeps

\* Every step keeps the invariant.
LEMMA MemoryStep == MemoryInv /\ InUseSpared /\ [Next]_vars => MemoryInv'
<1> SUFFICES ASSUME MemoryInv, InUseSpared, [Next]_vars
             PROVE  MemoryInv'
    OBVIOUS
<1>1. CASE UNCHANGED vars
    BY <1>1 DEF vars, MemoryInv
<1>2. CASE Next
    BY <1>2, BootAllocStep, InitBuddyStep, KmallocStep, KfreeStep DEF Next
<1> QED
    BY <1>1, <1>2

\* The invariant the theorems about the run rest on: the blocks, free and held,
\* divide the pages of the allocator.
THEOREM MemoryInvariant ==
    ASSUME InUseSpared
    PROVE  Spec => []MemoryInv
<1>1. Init => MemoryInv
    BY MemoryInit
<1>2. MemoryInv /\ [Next]_vars => MemoryInv'
    BY MemoryStep
<1> QED
    BY <1>1, <1>2, PTL DEF Spec

\* The blocks of the properties are those of the invariant.
LEMMA BlocksAre ==
    ASSUME MemoryInv
    PROVE  /\ FreeBlocks = FreeOf(buddy) /\ HeldBlocks = HeldOf(buddy, DOMAIN held)
           /\ FreeBlocks \cup HeldBlocks = Blocks(buddy, DOMAIN held)
           /\ \A b \in Blocks(buddy, DOMAIN held), q \in Int : q \in Extent(b) <=> InBlock(q, b)
           /\ Managed \subseteq Int
<1>1. BuddyInv(buddy, DOMAIN held)
    BY DEF MemoryInv
<1>2. buddy.start \in Nat /\ buddy.end \in Nat
    BY <1>1 DEF BuddyInv, Whole
<1>3. \A k \in Order : Range(buddy.free[k]) \subseteq PageNumber
    <2> SUFFICES ASSUME NEW k \in Order
                 PROVE  Range(buddy.free[k]) \subseteq PageNumber
        OBVIOUS
    <2>1. buddy.free[k] \in Seq(PageNumber)
        BY <1>1 DEF BuddyInv, BuddyRecord
    <2>2. \A i \in DOMAIN buddy.free[k] : buddy.free[k][i] \in PageNumber
        BY <2>1
    <2> QED
        BY <2>2 DEF Range
<1>4. FreeBlocks = FreeOf(buddy)
    BY <1>3 DEF FreeBlocks, FreeOf, OnList, Range
<1>5. HeldBlocks = HeldOf(buddy, DOMAIN held)
    BY DEF HeldBlocks, HeldOf
<1>6. ASSUME NEW b \in Blocks(buddy, DOMAIN held), NEW q \in Int
      PROVE  q \in Extent(b) <=> InBlock(q, b)
    <2>1. b \in Nat \X Order
        BY <1>1 DEF BuddyInv, Tiles
    <2>2. b[1] \in Nat /\ Pow2[b[2]] \in Nat
        BY <2>1, OrderIsNat, Pow2Unfolds
    <2> QED
        BY <2>2 DEF Extent, InBlock
<1> QED
    BY <1>2, <1>4, <1>5, <1>6 DEF Blocks, Managed

\* Blocks that are apart and cover the pages have each page once.
LEMMA TiledOnce == MemoryInv => Conserved
<1> SUFFICES ASSUME MemoryInv, NEW q \in Managed
             PROVE  Cardinality({b \in FreeBlocks \cup HeldBlocks : q \in Extent(b)}) = 1
    BY DEF Conserved
<1> DEFINE B == Blocks(buddy, DOMAIN held)
<1>1. Tiles(buddy, B) /\ q \in Int /\ q \in buddy.start..buddy.end-1
    BY BlocksAre DEF MemoryInv, BuddyInv, Managed
<1>2. PICK b \in B : InBlock(q, b)
    BY <1>1 DEF Tiles, Covered
<1>3. \A c \in B : InBlock(q, c) => c = b
    BY <1>1, <1>2 DEF Tiles, Apart
<1> HIDE DEF B
<1>4. {c \in B : q \in Extent(c)} = {b}
    <2>1. \A c \in B : q \in Extent(c) <=> InBlock(q, c)
        BY <1>1, BlocksAre DEF B
    <2> QED
        BY <1>2, <1>3, <2>1
<1>5. Cardinality({b}) = 1
    BY FS_Singleton
<1> QED
    BY <1>4, <1>5, BlocksAre DEF B

\* Through every split of __alloc_pages and every merge of __free_pages, every
\* page of the buddy allocator is in exactly one block, free or held.
THEOREM ConservedAlways ==
    ASSUME InUseSpared
    PROVE  Spec => []Conserved
<1>1. MemoryInv => Conserved
    BY TiledOnce
<1> QED
    BY <1>1, MemoryInvariant, PTL

\* The lists of a consistent allocator are exact.
LEMMA ListsSay == MemoryInv => FreeListsExact
<1> SUFFICES ASSUME MemoryInv, NEW k \in Order
             PROVE  /\ buddy.nr_free[k] = Len(buddy.free[k])
                    /\ IsInjective(buddy.free[k])
                    /\ \A i \in DOMAIN buddy.free[k] :
                        LET p == buddy.free[k][i]
                        IN  buddy.bplevel[p] = k /\ BlockOf(buddy, p, k) = p
    BY DEF FreeListsExact
<1>1. BuddyInv(buddy, DOMAIN held)
    BY DEF MemoryInv
<1>2. ListsExact(buddy) /\ Tiles(buddy, Blocks(buddy, DOMAIN held)) /\ buddy.start \in Nat
    BY <1>1 DEF BuddyInv, Whole
<1>3. ASSUME NEW i \in DOMAIN buddy.free[k]
      PROVE  /\ buddy.bplevel[buddy.free[k][i]] = k
             /\ BlockOf(buddy, buddy.free[k][i], k) = buddy.free[k][i]
    <2> DEFINE p == buddy.free[k][i]
    <2>1. <<p, k>> \in FreeBlocks
        BY DEF FreeBlocks
    <2> HIDE DEF p
    <2>2. <<p, k>> \in FreeOf(buddy) /\ <<p, k>> \in Blocks(buddy, DOMAIN held)
        BY <2>1, BlocksAre DEF Blocks
    <2>3. buddy.bplevel[p] = k /\ Aligned(buddy.start, p, k) /\ p \in Nat
        BY <1>2, <2>2 DEF ListsExact, Tiles, IsBlock
    <2>4. k \in Nat /\ Pow2[k] \in Nat \ {0}
        BY OrderIsNat, Pow2Unfolds
    <2>5. p \in Int /\ p <= p /\ p < p + Pow2[k]
        BY <2>3, <2>4
    <2>6. BlockOf(buddy, p, k) = p
        BY <1>2, <2>3, <2>4, <2>5, BlockIs
    <2> QED
        BY <2>3, <2>6 DEF p
<1> QED
    BY <1>2, <1>3 DEF ListsExact

\* The free lists say what the struct pages say, and nr_free counts them.
THEOREM FreeListsExactAlways ==
    ASSUME InUseSpared
    PROVE  Spec => []FreeListsExact
<1>1. MemoryInv => FreeListsExact
    BY ListsSay
<1> QED
    BY <1>1, MemoryInvariant, PTL

\* The level that kfree reads in the struct page is the least that holds what
\* kmalloc was asked for.
THEOREM LevelKeptAlways ==
    ASSUME InUseSpared
    PROVE  Spec => []LevelKept
<1>1. MemoryInv => LevelKept
    BY DEF MemoryInv, LevelKept, Level
<1> QED
    BY <1>1, MemoryInvariant, PTL

\* A block that is held is no free block, and so shares no page with one.
LEMMA FreeApart == MemoryInv => HeldNotFree
<1> SUFFICES ASSUME MemoryInv, NEW b \in FreeBlocks, NEW p \in DOMAIN held, p \in Extent(b)
             PROVE  FALSE
    BY DEF HeldNotFree
<1> DEFINE B == Blocks(buddy, DOMAIN held)
           h == <<p, buddy.bplevel[p]>>
<1>1. /\ Tiles(buddy, B) /\ HeldApart(buddy, DOMAIN held) /\ PageNumber \subseteq Nat
    BY BootAssumption DEF MemoryInv, BuddyInv, PageNumber
<1>2. p \in Nat /\ buddy.bplevel[p] \in Nat
    BY <1>1, OrderIsNat DEF HeldApart
<1>3. b \in FreeOf(buddy) /\ b \in B /\ h \in HeldOf(buddy, DOMAIN held) /\ h \in B
    BY BlocksAre DEF HeldOf, Blocks
<1>4. InBlock(p, b)
    BY <1>2, <1>3, BlocksAre
<1>5. InBlock(p, h)
    BY <1>2, Begins
<1>6. b = h
    BY <1>1, <1>2, <1>3, <1>4, <1>5, SamePage
<1> QED
    BY <1>1, <1>3, <1>6 DEF FreeOf, OnList, HeldApart

\* When every request is for whole pages, no page that is in use comes to be in
\* a free block, whatever kfree merges: the flag that __free_pages reads
\* (buddy.c:104) says what its comment takes it for.  A page of the slab is the
\* one way it goes wrong (HeldNotFree fails as soon as one is asked for).
THEOREM HeldNotFreeAlways ==
    ASSUME WholePagesOnly
    PROVE  Spec => []HeldNotFree
<1>1. InUseSpared
    BY DEF InUseSpared
<1>2. MemoryInv => HeldNotFree
    BY FreeApart
<1> QED
    BY <1>1, <1>2, MemoryInvariant, PTL

\* For each size asked of kmalloc there is a slab, or the size is past the
\* caches.
EverySizeServed == \A size \in Requests : size <= 1536 \/ size > 2048

HaltInv == MemoryInv /\ (phase = "halted" => \A k \in Order : buddy.free[k] = <<>>)

\* Up to 1536 bytes some slab fits.
LEMMA SlabExists ==
    ASSUME NEW size \in Nat, size <= 1536
    PROVE  Fitting(size) # {}
<1>1. 11 \in Cache /\ CacheSize[11] = 1536
    BY DEF Cache, CacheSize
<1>2. CacheSize[11] >= size /\ CacheSize[11] < 4096 \div 2
    BY <1>1
<1> QED
    BY <1>1, <1>2 DEF Fitting, PAGE_SIZE

\* kmalloc halts only when no list has a block.
LEMMA KmallocHalts ==
    ASSUME HaltInv, EverySizeServed, NEW size \in Requests, Kmalloc(size), phase' = "halted"
    PROVE  \A k \in Order : buddy'.free[k] = <<>>
<1>1. size \in Nat /\ CacheSize[Len(CacheSize)] = 2048 /\ phase = "run"
    BY MemoryAssumption DEF Kmalloc, CacheSize
<1>2. ~(size > 2048)
    BY <1>1 DEF Kmalloc, AllocBlock
<1>3. Fitting(size) # {}
    BY <1>1, <1>2, SlabExists DEF EverySizeServed
<1>4. SlabAlloc(GetSlab(size))
    BY <1>1, <1>2, <1>3 DEF Kmalloc
<1>5. Serving(buddy, 0) = {} /\ buddy' = buddy
    BY <1>1, <1>4 DEF SlabAlloc
<1> QED
    BY <1>5 DEF Serving, Order

\* Once halted, the lists stay empty.
LEMMA HaltStep == HaltInv /\ InUseSpared /\ EverySizeServed /\ [Next]_vars => HaltInv'
<1> SUFFICES ASSUME HaltInv, InUseSpared, EverySizeServed, [Next]_vars, phase' = "halted"
             PROVE  \A k \in Order : buddy'.free[k] = <<>>
    BY MemoryStep DEF HaltInv
<1>1. CASE UNCHANGED vars
    BY <1>1 DEF vars, HaltInv
<1>2. ASSUME NEW n \in BootRequests, NEW t \in BootTypes, BootAlloc(n, t)
      PROVE  FALSE
    BY <1>2 DEF BootAlloc
<1>3. ASSUME NEW n \in BootRequests, InitBuddy(n)
      PROVE  \A k \in Order : buddy'.free[k] = <<>>
    <2>1. buddy' = NoBuddy
        BY <1>3 DEF InitBuddy, HaltInv, MemoryInv
    <2> QED
        BY <2>1, NoBuddyIs
<1>4. ASSUME NEW size \in Requests, Kmalloc(size)
      PROVE  \A k \in Order : buddy'.free[k] = <<>>
    BY <1>4, KmallocHalts
<1>5. ASSUME NEW p \in PageNumber, Kfree(p)
      PROVE  FALSE
    BY <1>5 DEF Kfree
<1> QED
    BY <1>1, <1>2, <1>3, <1>4, <1>5 DEF Next

\* The kernel stops for want of memory only when all of it is held, if kmalloc
\* is asked for no size that no slab serves.
THEOREM HaltsOnlyWhenFullAlways ==
    ASSUME InUseSpared, EverySizeServed
    PROVE  Spec => []HaltsOnlyWhenFull
<1>1. Init => HaltInv
    BY MemoryInit DEF Init, HaltInv
<1>2. HaltInv /\ [Next]_vars => HaltInv'
    BY HaltStep
<1>3. HaltInv => HaltsOnlyWhenFull
    <2> SUFFICES ASSUME HaltInv, phase = "halted", NEW q \in Managed
                 PROVE  q \in UNION {Extent(b) : b \in HeldBlocks}
        BY DEF HaltsOnlyWhenFull
    <2>1. MemoryInv /\ \A k \in Order : buddy.free[k] = <<>>
        BY DEF HaltInv
    <2>2. FreeOf(buddy) = {}
        BY <2>1 DEF FreeOf, OnList, Range
    <2>3. PICK b \in Blocks(buddy, DOMAIN held) : InBlock(q, b)
        BY <2>1 DEF MemoryInv, BuddyInv, Tiles, Covered, Managed
    <2>4. b \in HeldBlocks /\ q \in Extent(b)
        BY <2>1, <2>2, <2>3, BlocksAre DEF Blocks
    <2> QED
        BY <2>4
<1> QED
    BY <1>1, <1>2, <1>3, PTL DEF Spec

---------------------------------------------------------------------------
(* What init_buddy takes over.                                             *)

\* The invariant of the boot allocator holds under no condition.
LEMMA BootInvariant == Spec => []BootInv(bmm)
<1>1. Init => BootInv(bmm)
    BY BootStart DEF Init
<1>2. BootInv(bmm) /\ [Next]_vars => BootInv(bmm)'
    <2> SUFFICES ASSUME BootInv(bmm), [Next]_vars
                 PROVE  BootInv(bmm')
        OBVIOUS
    <2>1. ASSUME NEW n \in BootRequests, NEW t \in BootTypes, BootAlloc(n, t)
          PROVE  BootInv(bmm')
        BY <2>1, BootKeeps, MemoryAssumption DEF BootAlloc
    <2>2. ASSUME NEW n \in BootRequests, InitBuddy(n)
          PROVE  BootInv(bmm')
        BY <2>2, BootKeeps, MemoryAssumption DEF InitBuddy
    <2>3. CASE UNCHANGED vars
        BY <2>3 DEF vars
    <2> QED
        BY <2>1, <2>2, <2>3 DEF Next, Kmalloc, Kfree
<1> QED
    BY <1>1, <1>2, PTL DEF Spec

\* As long as the array of ranges is not full, insert_mminfo keeps the ranges
\* disjoint, and they are the pages that the map marks.
THEOREM BootRangesExactAlways ==
    Spec => [](Len(bmm.info) < MAX_INFO => BootRangesExact)
<1>1. BootInv(bmm) => (Len(bmm.info) < MAX_INFO => BootRangesExact)
    BY BootExact DEF BootRangesExact
<1> QED
    BY <1>1, BootInvariant, PTL

\* All that is taken before init_buddy is a multiple of the largest block, of
\* two pages or more.
WholeBlocks ==
    /\ MAX_BUDDY_ORDER # 0
    /\ \A n \in BootRequests \cup {KernelPages} : \E i \in Nat : n = i * Pow2[MAX_BUDDY_ORDER]

\* The operations of the buddy allocator leave its pages as they are.
SameEnds(m, n) == DOMAIN n = DOMAIN m /\ n.start = m.start /\ n.end = m.end

HasEnds(m) == {"start", "end"} \subseteq DOMAIN m

\* A change of the other fields leaves the ends.
LEMMA EndsKept ==
    ASSUME NEW m, HasEnds(m)
    PROVE  /\ \A f : SameEnds(m, [m EXCEPT !.flag = f])
           /\ \A f, l, q, c : SameEnds(m, [m EXCEPT !.flag = f, !.bplevel = l, !.free = q, !.nr_free = c])
           /\ \A l, q, c : SameEnds(m, [m EXCEPT !.bplevel = l, !.free = q, !.nr_free = c])
BY DEF SameEnds, HasEnds

\* __free_pages leaves the ends.
LEMMA FreeEnds ==
    ASSUME NEW m, HasEnds(m), NEW p, NEW k
    PROVE  SameEnds(m, FreePages(m, p, k))
BY EndsKept DEF FreePages, Entered

\* __alloc_pages leaves the ends.
LEMMA AllocEnds ==
    ASSUME NEW m, HasEnds(m), NEW k
    PROVE  SameEnds(m, AllocPages(m, k).m)
<1> DEFINE from == LeastServing(m, k)
           p == Head(m.free[from])
<1>1. AllocPages(m, k).m = Cut(m, p, from, k, k)
    BY DEF AllocPages
<1> HIDE DEF from, p
<1>2. SameEnds(m, Cut(m, p, from, k, k))
    BY EndsKept DEF Cut
<1> QED
    BY <1>1, <1>2

BeyondInv ==
    /\ phase \in {"boot", "run", "halted"} /\ HasEnds(buddy)
    /\ phase = "boot" => buddy = NoBuddy
    /\ BootInv(bmm)
    /\ \E c \in Nat : bmm.last_alloc_end + 1 = c * Pow2[MAX_BUDDY_ORDER]
    /\ Len(bmm.info) < MAX_INFO =>
           buddy.start \in Int /\ buddy.end \in Int
           /\ (buddy.end = 0 \/ bmm.last_alloc_end < buddy.start)

\* The largest block has at least two pages.
LEMMA UnitIs == WholeBlocks => Pow2[MAX_BUDDY_ORDER] \in Nat /\ Pow2[MAX_BUDDY_ORDER] >= 2
<1> SUFFICES ASSUME MAX_BUDDY_ORDER # 0
             PROVE  Pow2[MAX_BUDDY_ORDER] \in Nat /\ Pow2[MAX_BUDDY_ORDER] >= 2
    BY DEF WholeBlocks
<1>1. MAX_BUDDY_ORDER \in Nat /\ 1 \in Nat /\ 1 <= MAX_BUDDY_ORDER
    BY OrderAssumption
<1>2. Pow2[1] <= Pow2[MAX_BUDDY_ORDER]
    BY <1>1, Pow2Grows
<1>3. Pow2[0] = 1 /\ Pow2[0 + 1] = 2 * Pow2[0] /\ 0 + 1 = 1 /\ Pow2[MAX_BUDDY_ORDER] \in Nat
    BY <1>1, Pow2Unfolds
<1> QED
    BY <1>2, <1>3

\* A multiple of the largest block more.
LEMMA Multiples ==
    ASSUME NEW s \in Nat, NEW a \in Int, NEW n \in Nat,
           \E c \in Nat : a = c * s, \E i \in Nat : n = i * s
    PROVE  \E c \in Nat : a + n = c * s
<1>1. PICK c \in Nat : a = c * s
    OBVIOUS
<1>2. PICK i \in Nat : n = i * s
    OBVIOUS
<1>3. (c + i) * s = c * s + i * s /\ c + i \in Nat
    BY Distributes
<1> QED
    BY <1>1, <1>2, <1>3

\* After an allocation, too, the free memory begins on a whole block.
LEMMA LastMultiple ==
    ASSUME WholeBlocks, NEW b, BootInv(b), NEW n \in BootRequests,
           NEW t \in BootTypes \cup {MM_KERNEL},
           \E c \in Nat : b.last_alloc_end + 1 = c * Pow2[MAX_BUDDY_ORDER],
           NEW got, got = BootmmAllocPages(b, n, t, 1)
    PROVE  BootInv(got.b) /\ \E c \in Nat : got.b.last_alloc_end + 1 = c * Pow2[MAX_BUDDY_ORDER]
<1> DEFINE s == Pow2[MAX_BUDDY_ORDER]
<1>1. n \in Nat \ {0} /\ s \in Nat /\ b.last_alloc_end \in Nat
    BY MemoryAssumption, UnitIs DEF BootInv, BootRecord
<1>2. /\ BootInv(got.b)
      /\ \/ got.b.last_alloc_end = b.last_alloc_end + n
         \/ got.b.last_alloc_end = b.last_alloc_end
    BY <1>1, BootKeeps
<1>3. (\E c \in Nat : b.last_alloc_end + 1 = c * s) /\ (\E i \in Nat : n = i * s)
    BY DEF WholeBlocks
<1> HIDE DEF s
<1> DEFINE a == b.last_alloc_end + 1
<1>4. a \in Int /\ \E c \in Nat : a = c * s
    BY <1>1, <1>3
<1> HIDE DEF a
<1>5. \E c \in Nat : a + n = c * s
    BY <1>1, <1>3, <1>4, Multiples
<1>6. a + n = (b.last_alloc_end + n) + 1
    BY <1>1 DEF a
<1> QED
    BY <1>2, <1>3, <1>5, <1>6 DEF s

\* The last page used is the last of a block: rounded up as if it were free, it
\* comes to the page behind it.
LEMMA RoundedUp ==
    ASSUME NEW s \in Nat, s >= 2, NEW last \in Nat, \E c \in Nat : last + 1 = c * s
    PROVE  Allign(last, s) = last + 1
<1>1. PICK c \in Nat : last + 1 = c * s
    OBVIOUS
<1> DEFINE x == last + s - 1
           d == x \div s
<1>2. x \in Int /\ s \in Nat \ {0} /\ d \in Int /\ d * s <= x /\ x < d * s + s
    BY Division
<1> HIDE DEF d
<1>3. /\ (c + 1) * s = c * s + s /\ (d + 1) * s = d * s + s
      /\ c * s \in Int /\ d * s \in Int
    BY <1>2, Distributes
<1> DEFINE cs == c * s
           ds == d * s
<1>4. cs \in Int /\ ds \in Int /\ last + 1 = cs /\ ds <= last + s - 1 /\ last + s - 1 < ds + s
    BY <1>1, <1>2, <1>3
<1> HIDE DEF cs, ds
<1>5. ds < cs + s /\ cs < ds + s
    BY <1>4
<1>6. d < c + 1 /\ c < d + 1
    <2>1. d * s < (c + 1) * s /\ c * s < (d + 1) * s
        BY <1>3, <1>5 DEF cs, ds
    <2> QED
        BY <1>2, <2>1, Cancels
<1>7. d = c
    BY <1>2, <1>6
<1> QED
    BY <1>1, <1>7 DEF Allign, d, x

\* The invariant holds when the kernel starts.
LEMMA BeyondInit == WholeBlocks /\ Init => BeyondInv
<1> SUFFICES ASSUME WholeBlocks, Init
             PROVE  BeyondInv
    OBVIOUS
<1>1. bmm = Booted /\ BootInv(bmm) /\ buddy = NoBuddy /\ phase = "boot"
    BY BootStart DEF Init
<1>2. bmm.last_alloc_end + 1 = KernelPages
    BY <1>1, BootAssumption DEF Booted
<1>3. HasEnds(buddy) /\ buddy.end = 0 /\ buddy.start = 0
    BY <1>1 DEF NoBuddy, HasEnds
<1> QED
    BY <1>1, <1>2, <1>3 DEF BeyondInv, WholeBlocks

\* bootmm_alloc_pages keeps it.
LEMMA BeyondBootAlloc ==
    ASSUME WholeBlocks, BeyondInv, NEW n \in BootRequests, NEW t \in BootTypes, BootAlloc(n, t)
    PROVE  BeyondInv'
<1> DEFINE got == BootmmAllocPages(bmm, n, t, 1)
<1>1. /\ bmm' = got.b /\ buddy' = buddy /\ phase' = phase /\ buddy = NoBuddy
    BY DEF BootAlloc, BeyondInv
<1>2. BootInv(got.b) /\ \E c \in Nat : got.b.last_alloc_end + 1 = c * Pow2[MAX_BUDDY_ORDER]
    BY LastMultiple DEF BeyondInv
<1>3. HasEnds(buddy) /\ buddy.start = 0 /\ buddy.end = 0
    BY <1>1 DEF NoBuddy, HasEnds
<1> HIDE DEF got
<1> QED
    BY <1>1, <1>2, <1>3 DEF BeyondInv

\* init_buddy keeps it: the allocator begins behind the last page used.
LEMMA BeyondInitBuddy ==
    ASSUME WholeBlocks, BeyondInv, NEW n \in BootRequests, InitBuddy(n)
    PROVE  BeyondInv'
<1> DEFINE got == BootmmAllocPages(bmm, n, MM_KERNEL, 1)
           unit == Pow2[MAX_BUDDY_ORDER]
           m == [NoBuddy EXCEPT !.start = Allign(KernelEndPfn(got.b), unit),
                                !.end = (max_pfn \div unit) * unit]
<1>1. /\ bmm' = got.b /\ buddy = NoBuddy
      /\ \/ phase' = "run" /\ buddy' = FreeEachPage(m)
         \/ phase' = "halted" /\ buddy' = buddy
    BY DEF InitBuddy, BeyondInv
<1>2. BootInv(got.b) /\ \E c \in Nat : got.b.last_alloc_end + 1 = c * unit
    BY LastMultiple DEF BeyondInv
<1>3. CASE phase' = "halted" /\ buddy' = buddy
    <2>1. HasEnds(buddy) /\ buddy.start = 0 /\ buddy.end = 0
        BY <1>1 DEF NoBuddy, HasEnds
    <2> HIDE DEF got
    <2> QED
        BY <1>1, <1>2, <1>3, <2>1 DEF BeyondInv
<1>4. CASE phase' = "run" /\ buddy' = FreeEachPage(m)
    <2> DEFINE b == got.b
    <2>1. bmm' = b /\ BootInv(b)
        BY <1>1, <1>2
    <2>2. Untouched(m) /\ m.start = Allign(KernelEndPfn(b), unit)
        BY <1>2, SetUp
    <2>3. \E c \in Nat : b.last_alloc_end + 1 = c * unit
        BY <1>2
    <2> HIDE DEF m, b
    <2>4. BuddyInv(buddy', {}) /\ Keeps(m, buddy')
        BY <1>4, <2>2, InitKeeps
    <2>5. buddy' \in BuddyRecord /\ buddy'.start \in Nat /\ buddy'.end \in Nat
        BY <2>4 DEF BuddyInv, BuddyRecord
    <2>6. HasEnds(buddy')
        BY <2>5 DEF BuddyRecord, HasEnds
    <2>7. ASSUME Len(b.info) < MAX_INFO
          PROVE  b.last_alloc_end < buddy'.start
        <3>1. KernelEndPfn(b) = b.last_alloc_end /\ b.last_alloc_end \in Nat
            BY <2>1, <2>7, KernelEnd DEF BootInv, BootRecord
        <3>2. unit \in Nat /\ unit >= 2
            BY UnitIs
        <3> HIDE DEF unit
        <3>3. Allign(b.last_alloc_end, unit) = b.last_alloc_end + 1
            BY <2>3, <3>1, <3>2, RoundedUp
        <3>4. buddy'.start = b.last_alloc_end + 1
            BY <2>2, <2>4, <3>1, <3>3 DEF Keeps
        <3> QED
            BY <3>1, <3>4
    <2> QED
        BY <1>4, <2>1, <2>3, <2>5, <2>6, <2>7 DEF BeyondInv
<1> QED
    BY <1>1, <1>3, <1>4

\* The steps of the run keep it.
LEMMA BeyondRun ==
    ASSUME BeyondInv, phase = "run", phase' \in {"run", "halted"}, bmm' = bmm,
           SameEnds(buddy, buddy')
    PROVE  BeyondInv'
BY DEF BeyondInv, SameEnds, HasEnds

\* Every step keeps it.
LEMMA BeyondStep == WholeBlocks /\ BeyondInv /\ [Next]_vars => BeyondInv'
<1> SUFFICES ASSUME WholeBlocks, BeyondInv, [Next]_vars
             PROVE  BeyondInv'
    OBVIOUS
<1>1. CASE UNCHANGED vars
    BY <1>1 DEF vars, BeyondInv
<1>2. HasEnds(buddy) /\ SameEnds(buddy, buddy)
    BY DEF BeyondInv, SameEnds
<1>3. ASSUME NEW size \in Requests, Kmalloc(size)
      PROVE  BeyondInv'
    <2>1. phase = "run" /\ bmm' = bmm
        BY <1>3 DEF Kmalloc
    <2>2. phase' \in {"run", "halted"}
        BY <1>3, <2>1 DEF Kmalloc, AllocBlock, SlabAlloc
    <2>3. \/ buddy' = buddy
          \/ \E k : buddy' = AllocPages(buddy, k).m
          \/ LET got == AllocPages(buddy, 0)
             IN  buddy' = [got.m EXCEPT !.flag[got.page] = CLEAR]
        BY <1>3 DEF Kmalloc, AllocBlock, SlabAlloc
    <2>4. CASE \E k : buddy' = AllocPages(buddy, k).m
        BY <1>2, <2>1, <2>2, <2>4, AllocEnds, BeyondRun
    <2>5. ASSUME NEW got, got = AllocPages(buddy, 0),
                 buddy' = [got.m EXCEPT !.flag[got.page] = CLEAR]
          PROVE  BeyondInv'
        <3>1. SameEnds(buddy, got.m)
            BY <1>2, <2>5, AllocEnds
        <3>2. HasEnds(got.m)
            BY <1>2, <3>1 DEF SameEnds, HasEnds
        <3>3. SameEnds(got.m, buddy')
            BY <2>5, <3>2, EndsKept
        <3>4. SameEnds(buddy, buddy')
            BY <3>1, <3>3 DEF SameEnds
        <3> QED
            BY <2>1, <2>2, <3>4, BeyondRun
    <2> QED
        BY <1>2, <2>1, <2>2, <2>3, <2>4, <2>5, BeyondRun
<1>4. ASSUME NEW p \in PageNumber, Kfree(p)
      PROVE  BeyondInv'
    <2>1. /\ phase = "run" /\ phase' = phase /\ bmm' = bmm
          /\ buddy' = FreePages(buddy, p, buddy.bplevel[p])
        BY <1>4 DEF Kfree
    <2> QED
        BY <1>2, <2>1, FreeEnds, BeyondRun
<1> QED
    BY <1>1, <1>3, <1>4, BeyondBootAlloc, BeyondInitBuddy DEF Next

\* init_buddy never takes over a page that the boot allocator gave, if all that
\* was given is a multiple of the largest block: the end of a range, which is
\* inclusive, is rounded up to a block, and only then comes to the page behind.
THEOREM BuddyBeyondBootAlways ==
    ASSUME WholeBlocks
    PROVE  Spec => [](Len(bmm.info) < MAX_INFO => BuddyBeyondBoot)
<1>1. Init => BeyondInv
    BY BeyondInit
<1>2. BeyondInv /\ [Next]_vars => BeyondInv'
    BY BeyondStep
<1>3. BeyondInv => (Len(bmm.info) < MAX_INFO => BuddyBeyondBoot)
    <2> SUFFICES ASSUME BeyondInv, Len(bmm.info) < MAX_INFO, NEW q \in Managed, q \in bmm.s_map
                 PROVE  FALSE
        BY DEF BuddyBeyondBoot
    <2>1. q \in 0..bmm.last_alloc_end /\ q \in buddy.start..buddy.end-1
          /\ bmm.last_alloc_end \in Nat
        BY DEF BeyondInv, BootInv, BootRecord, Managed
    <2> QED
        BY <2>1 DEF BeyondInv
<1> QED
    BY <1>1, <1>2, <1>3, PTL DEF Spec
=============================================================================
