---------------------------- MODULE MemoryProofs -----------------------------
(***************************************************************************)
(* Proofs about the memory of the Chickadee kernel: its page allocator and *)
(* the buffer cache that takes its buffers from it.                        *)
(*                                                                         *)
(* The allocator: a free list is related to the list of its entries        *)
(* (ListIs), and the free blocks and the held ones tile the available      *)
(* memory (Tiles).  Pushing and removing a page, merging and splitting a   *)
(* block keep both (Sound), so the loops of coalesce and split do, and so  *)
(* kalloc and kfree.  From that the lists are sound and no page is lost.   *)
(* Nor are there two free blocks that could be merged (Merged), so kalloc  *)
(* fails only when no run of unused pages is left (NoRunLeft): to its      *)
(* callers the allocator is PageAlloc.                                     *)
(*                                                                         *)
(* The cache: its two levels of locks keep it sound; RefCount, OneCopy and *)
(* HeldBlock hold for any number of tasks, blocks, entries and buffers,    *)
(* whenever kalloc fails, until the one change of a count that is made     *)
(* without the cache's lock overlaps another (~Serial).                    *)
(***************************************************************************)
EXTENDS KAlloc, BufCache, WellFoundedInduction, FiniteSetTheorems, TLAPS

-----------------------------------------------------------------------------
(***************************************************************************)
(* Loops.                                                                  *)
(***************************************************************************)
Less == {ss \in Nat \X Nat : ss[1] < ss[2]}

\* The numbers are in a well-founded order.
LEMMA LessWellFounded == IsWellFoundedOn(Less, Nat)
BY NatLessThanWellFounded DEF OpToRel, Less

\* A set of numbers has a least one, and Min finds it.
LEMMA Least ==
    ASSUME NEW S, S \subseteq Nat, S # {}
    PROVE  Min(S) \in S /\ \A y \in S : Min(S) <= y
<1>1. ASSUME NEW x \in Nat, NEW y \in Nat, y < x PROVE <<y, x>> \in Less
  <2>1. <<y, x>> \in Nat \X Nat /\ <<y, x>>[1] < <<y, x>>[2]
    BY <1>1
  <2>2. QED  BY <2>1, Zenon DEF Less
<1>2. PICK x \in S : \A y \in S : <<y, x>> \notin Less
  BY LessWellFounded, WFMin
<1>3. x \in Nat /\ \A y \in S : ~(y < x)
  BY <1>1, <1>2
<1>4. \A y \in S : x <= y
  BY <1>3
<1>5. QED  BY <1>4 DEF Min

\* What holds at first and from each turn to the next holds up to the last.
LEMMA UpTo ==
    ASSUME NEW n \in Nat, NEW Good, 0 \in Good,
           ASSUME NEW k \in 1 .. n, k - 1 \in Good PROVE k \in Good
    PROVE  0 .. n \subseteq Good
<1> DEFINE odd == (0 .. n) \ Good
<1> SUFFICES ASSUME odd # {} PROVE FALSE
  OBVIOUS
<1>1. odd \subseteq Nat
  OBVIOUS
<1> DEFINE m == Min(odd)
<1>2. m \in odd /\ \A y \in odd : m <= y
  BY <1>1, Least
<1> HIDE DEF m
<1>3. m \in 1 .. n /\ m - 1 \in 0 .. n /\ ~(m <= m - 1)
  BY <1>2
<1>4. m - 1 \in Good
  BY <1>2, <1>3
<1>5. QED  BY <1>2, <1>3, <1>4

\* g starts with base and takes step st at each number up to n.
Repeats(g, n, base, st) == g[0] = base /\ \A i \in 1 .. n : g[i] = st[<<i, g[i - 1]>>]

\* A step that is a function on X can be repeated from any base.
LEMMA Recursion ==
    ASSUME NEW n \in Nat, NEW X, NEW base \in X, NEW st \in [(1 .. n) \X X -> X]
    PROVE  \E g \in [0 .. n -> X] : Repeats(g, n, base, st)
<1> DEFINE goes(g, k) == /\ g \in [0 .. k -> X] /\ g[0] = base
                         /\ \A i \in 1 .. k : g[i] = st[<<i, g[i - 1]>>]
           Good == {k \in 0 .. n : \E g : goes(g, k)}
<1>1. 0 \in Good
  <2>1. goes([i \in 0 .. 0 |-> base], 0)
    OBVIOUS
  <2> HIDE DEF goes
  <2>2. (\E g : goes(g, 0)) /\ 0 \in 0 .. n
    BY <2>1
  <2>3. QED  BY <2>2
<1>2. ASSUME NEW k \in 1 .. n, k - 1 \in Good PROVE k \in Good
  <2>1. PICK g : goes(g, k - 1)
    BY <1>2
  <2> DEFINE final == st[<<k, g[k - 1]>>]
             h == [i \in 0 .. k |-> IF i = k THEN final ELSE g[i]]
  <2>2. g[k - 1] \in X
    BY <2>1
  <2>3. final \in X
    BY <2>2
  <2> HIDE DEF final
  <2>4. h \in [0 .. k -> X] /\ h[0] = base
    BY <2>1, <2>3
  <2>5. ASSUME NEW i \in 1 .. k PROVE h[i] = st[<<i, h[i - 1]>>]
    <3>1. h[i - 1] = g[i - 1]
      BY <2>5
    <3>2. CASE i = k
      <4>1. h[k] = final
        OBVIOUS
      <4>2. final = st[<<k, g[k - 1]>>]
        BY DEF final
      <4>3. QED  BY <3>1, <3>2, <4>1, <4>2
    <3>3. CASE i # k
      <4>1. i \in 1 .. k - 1
        BY <2>5, <3>3
      <4>2. g[i] = st[<<i, g[i - 1]>>]
        BY <2>1, <4>1
      <4>3. h[i] = g[i]
        BY <3>3
      <4>4. QED  BY <3>1, <4>2, <4>3
    <3>4. QED  BY <3>2, <3>3
  <2> HIDE DEF h
  <2>6. goes(h, k)
    BY <2>4, <2>5
  <2> HIDE DEF goes
  <2>7. QED  BY <2>6
<1> HIDE DEF Good
<1>3. 0 .. n \subseteq Good
  BY <1>1, <1>2, UpTo
<1>4. n \in Good
  BY <1>3
<1>5. PICK g : goes(g, n)
  BY <1>4 DEF Good
<1>6. Repeats(g, n, base, st) /\ g \in [0 .. n -> X]
  BY <1>5 DEF Repeats
<1>7. QED  BY <1>6

-----------------------------------------------------------------------------
(***************************************************************************)
(* Blocks: their widths, their places and their buddies.                   *)
(***************************************************************************)
\* 1 << k, as it is computed.
LEMMA Powers ==
    /\ Pow2[0] = 1
    /\ \A k \in 1 .. MaxOrder + 1 : Pow2[k] = 2 * Pow2[k - 1]
    /\ \A k \in 0 .. MaxOrder + 1 : Pow2[k] \in Nat \ {0}
<1> DEFINE n == MaxOrder + 1
           X == Nat \ {0}
           st == [ss \in (1 .. n) \X X |-> 2 * ss[2]]
           is(f) == f = [k \in 0 .. (MaxOrder + 1) |-> IF k = 0 THEN 1 ELSE 2 * f[k - 1]]
<1>1. n \in Nat /\ 1 \in X /\ st \in [(1 .. n) \X X -> X]
  BY KAllocAssumption
<1>2. PICK g \in [0 .. n -> X] : Repeats(g, n, 1, st)
  <2> HIDE DEF n, X, st
  <2> QED  BY <1>1, Recursion
<1>3. is(g)
  <2>1. ASSUME NEW k \in 0 .. n PROVE g[k] = IF k = 0 THEN 1 ELSE 2 * g[k - 1]
    <3>1. CASE k = 0
      BY <1>2, <3>1 DEF Repeats
    <3>2. CASE k # 0
      <4>1. k \in 1 .. n /\ k - 1 \in 0 .. n
        BY <1>1, <3>2
      <4>2. g[k - 1] \in X
        BY <1>2, <4>1
      <4>3. g[k] = st[<<k, g[k - 1]>>]
        BY <1>2, <4>1 DEF Repeats
      <4>4. st[<<k, g[k - 1]>>] = 2 * g[k - 1]
        BY <4>1, <4>2
      <4>5. QED  BY <3>2, <4>3, <4>4
    <3>3. QED  BY <3>1, <3>2
  <2> HIDE DEF X, st
  <2>2. QED  BY <1>2, <2>1
<1>4. is(Pow2)
  <2>1. Pow2 = CHOOSE f : is(f)
    BY DEF Pow2
  <2> HIDE DEF is
  <2>2. QED  BY <1>3, <2>1
<1>5. \A k \in 0 .. n : Pow2[k] = IF k = 0 THEN 1 ELSE 2 * Pow2[k - 1]
  BY <1>4
<1> DEFINE Good == {k \in 0 .. n : Pow2[k] \in X}
<1>6. 0 \in Good
  BY <1>1, <1>5
<1>7. ASSUME NEW k \in 1 .. n, k - 1 \in Good PROVE k \in Good
  <2>1. Pow2[k] = 2 * Pow2[k - 1] /\ Pow2[k - 1] \in X
    BY <1>5, <1>7
  <2>2. QED  BY <2>1
<1>8. 0 .. n \subseteq Good
  <2> HIDE DEF n, Good
  <2> QED  BY <1>1, <1>6, <1>7, UpTo
<1>9. QED  BY <1>1, <1>5, <1>8

Orders == MinOrder .. MaxOrder

\* The pages of a block of order k.
Width(k) == Pow2[k - MinOrder]

\* A block of order k can start at page p.
Aligned(p, k) == \E a \in Nat : p = a * Width(k)

\* The other half of what a block of order k at page p was split from.
BuddyOf(p, k) ==
    IF (p \div Width(k)) % 2 = 0 THEN p + Width(k) ELSE p - Width(k)

\* A block is twice as wide as one of the order below.
LEMMA Widths ==
    /\ \A k \in Orders : Width(k) \in Nat \ {0}
    /\ Width(MinOrder) = 1
    /\ \A k \in MinOrder .. MaxOrder - 1 : Width(k + 1) = 2 * Width(k)
    /\ Width(MaxOrder) = NPages
<1>1. MinOrder \in Nat /\ MaxOrder \in Nat /\ MinOrder < MaxOrder
      /\ NPages = Pow2[MaxOrder - MinOrder]
  BY KAllocAssumption
<1>2. ASSUME NEW k \in Orders PROVE Width(k) \in Nat \ {0}
  <2>1. k - MinOrder \in 0 .. MaxOrder + 1
    BY <1>1 DEF Orders
  <2>2. QED  BY <2>1, Powers DEF Width
<1>3. Width(MinOrder) = 1
  <2>1. MinOrder - MinOrder = 0
    BY <1>1
  <2>2. QED  BY <2>1, Powers DEF Width
<1>4. ASSUME NEW k \in MinOrder .. MaxOrder - 1 PROVE Width(k + 1) = 2 * Width(k)
  <2> DEFINE i == k + 1 - MinOrder
  <2>1. i \in 1 .. MaxOrder + 1 /\ i - 1 = k - MinOrder
    BY <1>1
  <2> HIDE DEF i
  <2>2. Pow2[i] = 2 * Pow2[i - 1]
    BY <2>1, Powers
  <2>3. Width(k + 1) = Pow2[i]
    BY <1>1 DEF Width, i
  <2>4. Width(k) = Pow2[i - 1]
    BY <2>1 DEF Width
  <2>5. QED  BY <2>2, <2>3, <2>4
<1>5. QED  BY <1>1, <1>2, <1>3, <1>4 DEF Width

\* Memory is a number of blocks of order k, an even one below the largest order.
Fills(k) == /\ \E c \in Nat : NPages = c * Width(k)
            /\ k < MaxOrder => \E d \in Nat : NPages = (2 * d) * Width(k)

\* Blocks of any order fill memory.
LEMMA BlocksFill == \A k \in Orders : Fills(k)
<1>1. MinOrder \in Nat /\ MaxOrder \in Nat /\ MinOrder < MaxOrder
  BY KAllocAssumption
<1> DEFINE n == MaxOrder - MinOrder
           Good == {i \in 0 .. n : Fills(MaxOrder - i)}
<1>2. n \in Nat
  BY <1>1
<1>3. 0 \in Good
  <2>1. MaxOrder - 0 = MaxOrder
    BY <1>1
  <2>2. MaxOrder \in Orders
    BY <1>1 DEF Orders
  <2>3. NPages = 1 * Width(MaxOrder) /\ NPages \in Nat
    BY <2>2, Widths
  <2>4. Fills(MaxOrder)
    BY <1>1, <2>3 DEF Fills
  <2>5. QED  BY <1>1, <2>1, <2>4
<1>4. ASSUME NEW i \in 1 .. n, i - 1 \in Good PROVE i \in Good
  <2> DEFINE k == MaxOrder - i
  <2>1. k \in MinOrder .. MaxOrder - 1 /\ MaxOrder - (i - 1) = k + 1
    BY <1>1
  <2>2. Fills(k + 1)
    BY <1>4, <2>1
  <2>3. k \in Orders
    BY <1>1, <2>1 DEF Orders
  <2> HIDE DEF k
  <2>4. Width(k) \in Nat /\ Width(k + 1) = 2 * Width(k)
    BY <2>1, <2>3, Widths
  <2>5. PICK c \in Nat : NPages = c * (2 * Width(k))
    BY <2>2, <2>4 DEF Fills
  <2>6. NPages = (2 * c) * Width(k)
    BY <2>4, <2>5
  <2>7. Fills(k)
    BY <2>6 DEF Fills
  <2>8. i \in 0 .. n
    BY <1>2
  <2>9. QED  BY <2>7, <2>8 DEF k
<1> HIDE DEF n, Good
<1>5. 0 .. n \subseteq Good
  BY <1>2, <1>3, <1>4, UpTo
<1>6. ASSUME NEW k \in Orders PROVE Fills(k)
  <2>1. MaxOrder - k \in 0 .. n /\ MaxOrder - (MaxOrder - k) = k
    BY <1>1 DEF n, Orders
  <2>2. MaxOrder - k \in Good
    BY <1>5, <2>1
  <2>3. QED  BY <2>1, <2>2 DEF Good
<1>7. QED  BY <1>6

\* Memory is a number of pages, and nullptr is none of them.
LEMMA PagesNat == NPages \in Nat \ {0} /\ Nil \notin Page
<1>1. MaxOrder \in Orders
  BY KAllocAssumption DEF Orders
<1>2. NPages \in Nat \ {0}
  BY <1>1, Widths
<1>3. QED  BY <1>2 DEF Page, Nil

\* The pages of a block of order k at page p.
Span(p, k) == {q \in Page : p <= q /\ q < p + Width(k)}

\* A block of order k that starts at page p is in memory.
LEMMA BlockInside ==
    ASSUME NEW k \in Orders, NEW p \in Page, Aligned(p, k)
    PROVE  p + Width(k) <= NPages
<1> DEFINE w == Width(k)
<1>1. w \in Nat \ {0} /\ NPages \in Nat
  BY Widths, KAllocAssumption DEF Orders
<1>2. PICK a \in Nat : p = a * w
  BY DEF Aligned
<1>3. PICK c \in Nat : NPages = c * w
  BY BlocksFill DEF Fills
<1>4. p < NPages
  BY <1>1 DEF Page
<1> HIDE DEF w
<1>5. a < c
  <2>1. SUFFICES ASSUME a >= c PROVE FALSE
    BY <1>2, <1>3
  <2>2. a * w >= c * w
    BY <1>1, <2>1
  <2>3. QED  BY <1>1, <1>2, <1>3, <1>4, <2>2
<1>6. (a + 1) * w <= c * w
  BY <1>1, <1>5
<1>7. (a + 1) * w = a * w + w
  BY <1>1
<1>8. QED  BY <1>1, <1>2, <1>3, <1>6, <1>7 DEF w

\* (a * w) \div w is a.
LEMMA Divides ==
    ASSUME NEW a \in Nat, NEW w \in Nat \ {0}
    PROVE  (a * w) \div w = a
<1> DEFINE x == a * w
           q == x \div w
<1>1. x \in Nat
  OBVIOUS
<1> HIDE DEF x
<1>2. q \in Int /\ q * w <= x /\ x < (q + 1) * w
  BY <1>1
<1> HIDE DEF q
<1>3. q <= a
  <2>1. SUFFICES ASSUME q >= a + 1 PROVE FALSE
    BY <1>2
  <2>2. q * w >= (a + 1) * w
    BY <1>2, <2>1
  <2>3. QED  BY <1>2, <2>2 DEF x
<1>4. q >= a
  <2>1. SUFFICES ASSUME q + 1 <= a PROVE FALSE
    BY <1>2
  <2>2. (q + 1) * w <= a * w
    BY <1>2, <2>1
  <2>3. QED  BY <1>1, <1>2, <2>2 DEF x
<1>5. QED  BY <1>2, <1>3, <1>4 DEF q, x

\* Two blocks of order k at pages l and h are the halves of one of order k + 1.
Halves(l, h, k) ==
    /\ l \in Page /\ h \in Page /\ h = l + Width(k)
    /\ Aligned(l, k) /\ Aligned(h, k) /\ Aligned(l, k + 1)

\* The buddy of a block is the other half of one of the next order.
LEMMA BuddyIs ==
    ASSUME NEW k \in MinOrder .. MaxOrder - 1, NEW p \in Page, Aligned(p, k)
    PROVE  Halves(p, BuddyOf(p, k), k) \/ Halves(BuddyOf(p, k), p, k)
<1> DEFINE w == Width(k)
           b == BuddyOf(p, k)
<1>1. k \in Orders /\ k < MaxOrder
  BY KAllocAssumption DEF Orders
<1>2. w \in Nat \ {0} /\ Width(k + 1) = 2 * w
  BY <1>1, Widths
<1>3. PICK a \in Nat : p = a * w
  BY DEF Aligned
<1>4. p \div w = a
  BY <1>2, <1>3, Divides
<1>5. b = IF a % 2 = 0 THEN p + w ELSE p - w
  BY <1>4 DEF BuddyOf
<1>6. NPages \in Nat /\ p \in 0 .. NPages - 1
  BY KAllocAssumption, Widths, <1>1 DEF Page, Orders
<1> HIDE DEF w, b
<1>7. CASE a % 2 = 0
  <2>1. PICK d \in Nat : a = 2 * d
    <3>1. a \div 2 \in Nat /\ a = 2 * (a \div 2)
      BY <1>7
    <3>2. QED  BY <3>1
  <2>2. PICK c \in Nat : NPages = (2 * c) * w
    BY <1>1, BlocksFill DEF Fills, w
  <2>3. d < c
    <3>1. SUFFICES ASSUME d >= c PROVE FALSE
      BY <2>1, <2>2
    <3>2. (2 * d) * w >= (2 * c) * w
      BY <1>2, <3>1
    <3>3. QED  BY <1>3, <1>6, <2>1, <2>2, <3>2
  <2>4. b = p + w
    BY <1>5, <1>7
  <2>5. b = (a + 1) * w
    BY <1>2, <1>3, <2>4
  <2>6. b < NPages
    <3>1. (2 * d + 2) * w <= (2 * c) * w
      BY <1>2, <2>3
    <3>2. (2 * d + 2) * w = (2 * d) * w + w + w
      BY <1>2
    <3>3. QED  BY <1>2, <1>3, <1>6, <2>1, <2>2, <2>4, <3>1, <3>2
  <2>7. b \in Page
    BY <1>2, <1>6, <2>4, <2>6 DEF Page
  <2>8. p = d * (2 * w)
    BY <1>2, <1>3, <2>1
  <2>9. Aligned(b, k) /\ Aligned(p, k + 1)
    BY <1>2, <2>5, <2>8 DEF Aligned, w
  <2>10. Halves(p, b, k)
    BY <2>4, <2>7, <2>9 DEF Halves, w
  <2>11. QED  BY <2>10 DEF b
<1>8. CASE a % 2 # 0
  <2>1. PICK d \in Nat : a = 2 * d + 1
    <3>1. a \div 2 \in Nat /\ a = 2 * (a \div 2) + 1
      BY <1>8
    <3>2. QED  BY <3>1
  <2>2. b = p - w
    BY <1>5, <1>8
  <2>3. b = (2 * d) * w
    BY <1>2, <1>3, <2>1, <2>2
  <2>4. b = d * (2 * w)
    BY <1>2, <2>3
  <2>5. b \in Nat /\ p = b + w
    BY <1>2, <1>6, <2>2, <2>3
  <2>6. b \in Page
    BY <1>2, <1>6, <2>5 DEF Page
  <2>7. 2 * d \in Nat
    BY <2>1
  <2>8. Aligned(b, k) /\ Aligned(b, k + 1)
    BY <1>2, <2>3, <2>4, <2>7 DEF Aligned, w
  <2>9. Halves(b, p, k)
    BY <2>5, <2>6, <2>8 DEF Halves, w
  <2>10. QED  BY <2>9 DEF b
<1>9. QED  BY <1>7, <1>8

\* What a block is split into starts with its first page.
LEMMA SplitHalves ==
    ASSUME NEW k \in MinOrder + 1 .. MaxOrder, NEW p \in Page, Aligned(p, k)
    PROVE  Halves(p, BuddyOf(p, k - 1), k - 1)
<1>1. MinOrder \in Nat /\ MaxOrder \in Nat
  BY KAllocAssumption
<1> DEFINE j == k - 1
<1>2. j \in MinOrder .. MaxOrder - 1 /\ j + 1 = k /\ j \in Orders
  BY <1>1 DEF Orders
<1> HIDE DEF j
<1> DEFINE w == Width(j)
           b == BuddyOf(p, j)
<1>3. w \in Nat \ {0} /\ Width(k) = 2 * w
  BY <1>2, Widths
<1>4. PICK a \in Nat : p = a * (2 * w)
  BY <1>3 DEF Aligned
<1> HIDE DEF w
<1>5. p = (2 * a) * w /\ 2 * a \in Nat
  BY <1>3, <1>4
<1>6. p \div w = 2 * a
  BY <1>3, <1>5, Divides
<1>7. (2 * a) % 2 = 0
  OBVIOUS
<1>8. b = p + w
  BY <1>6, <1>7 DEF BuddyOf, w
<1>9. Aligned(p, j)
  BY <1>5 DEF Aligned, w
<1>10. Halves(p, b, j) \/ Halves(b, p, j)
  BY <1>2, <1>9, BuddyIs
<1>11. ~Halves(b, p, j)
  <2>1. p \in Int
    BY KAllocAssumption DEF Page
  <2>2. p # b + w
    BY <1>3, <1>8, <2>1
  <2>3. QED  BY <2>2 DEF Halves, w
<1>12. QED  BY <1>10, <1>11 DEF j

\* The halves of a block share no page, and make it up.
LEMMA HalvesSpan ==
    ASSUME NEW k \in MinOrder .. MaxOrder - 1, NEW l, NEW h, Halves(l, h, k)
    PROVE  /\ l # h /\ Span(l, k) \cap Span(h, k) = {}
           /\ Span(l, k) \cup Span(h, k) = Span(l, k + 1)
           /\ l \in Span(l, k) /\ h \in Span(h, k)
<1> DEFINE w == Width(k)
<1>1. k \in Orders
  BY KAllocAssumption DEF Orders
<1>2. w \in Nat \ {0} /\ Width(k + 1) = 2 * w
  BY <1>1, Widths
<1>3. Page \subseteq Nat
  BY DEF Page
<1>4. l \in Page /\ h \in Page /\ h = l + w
  BY DEF Halves
<1>5. /\ Span(l, k) = {q \in Page : l <= q /\ q < l + w}
      /\ Span(h, k) = {q \in Page : h <= q /\ q < h + w}
      /\ Span(l, k + 1) = {q \in Page : l <= q /\ q < l + 2 * w}
  BY <1>2 DEF Span
<1> HIDE DEF w
<1>6. l # h /\ l \in Span(l, k) /\ h \in Span(h, k)
  BY <1>2, <1>3, <1>4, <1>5
<1>7. ASSUME NEW q \in Page
      PROVE  /\ ~(q \in Span(l, k) /\ q \in Span(h, k))
             /\ (q \in Span(l, k) \/ q \in Span(h, k)) <=> q \in Span(l, k + 1)
  BY <1>2, <1>3, <1>4, <1>5
<1>8. Span(l, k) \subseteq Page /\ Span(h, k) \subseteq Page /\ Span(l, k + 1) \subseteq Page
  BY DEF Span
<1>9. QED  BY <1>6, <1>7, <1>8

-----------------------------------------------------------------------------
(***************************************************************************)
(* The free lists.  e lists the n entries of a list, then Nil.             *)
(***************************************************************************)
FreeOf(m) == {p \in Page : m.isFree[p]}

Links(m, o, e) ==
    /\ e[0] = m.head[o]
    /\ \A i \in Nat : e[i + 1] = IF e[i] = Nil THEN Nil ELSE m.next[e[i]]

\* A list of n pages, each once.
Distinctly(e, n) ==
    /\ \A i \in Nat : e[i] = Nil <=> i >= n
    /\ \A i, j \in 0 .. n - 1 : e[i] = e[j] => i = j

\* The list of order o holds the free blocks of that order.
ListIs(m, o, e, n) ==
    /\ Links(m, o, e) /\ Distinctly(e, n)
    /\ \A p \in Page : (\E i \in 0 .. n - 1 : e[i] = p) <=> p \in FreeOf(m) /\ m.order[p] = o

List(m, o) == \E e \in [Nat -> Page \cup {Nil}], n \in Nat : ListIs(m, o, e, n)

\* The memory's free lists are sound.
Lists(m) == m \in Mem /\ \A o \in Order : List(m, o)

\* The list of order o without its j-th entry.
Without(e, j) == [i \in Nat |-> IF i < j THEN e[i] ELSE e[i + 1]]

\* What Push makes of the fields of the memory.
PushedParts(m, p, o) ==
    [isFree |-> [m.isFree EXCEPT ![p] = TRUE], order |-> m.order,
     next |-> [m.next EXCEPT ![p] = m.head[o]], head |-> [m.head EXCEPT ![o] = p]]

\* Push is written with three exceptions; these are its fields.
LEMMA PushIs ==
    ASSUME NEW m, NEW p, NEW o,
           m = [isFree |-> m.isFree, order |-> m.order, next |-> m.next, head |-> m.head]
    PROVE  Push(m, p, o) = PushedParts(m, p, o)
<1>1. Push(m, p, o) = [[[m EXCEPT !.isFree = [m.isFree EXCEPT ![p] = TRUE]]
                           EXCEPT !.next = [m.next EXCEPT ![p] = m.head[o]]]
                           EXCEPT !.head = [m.head EXCEPT ![o] = p]]
  BY DEF Push
<1>2. QED  BY <1>1 DEF PushedParts

\* x is the memory m with page p on top of the list of order o.
Pushed(m, p, o, x) ==
    /\ Lists(x) /\ FreeOf(x) = FreeOf(m) \cup {p}
    /\ x.order = m.order /\ x.head[o] = p

\* Page p is pushed on a list it is not on.
LEMMA PushList ==
    ASSUME NEW m, Lists(m), NEW p \in Page, p \notin FreeOf(m), NEW o \in Orders, m.order[p] = o
    PROVE  Pushed(m, p, o, Push(m, p, o))
<1> DEFINE x == Push(m, p, o)
<1>1. m \in Mem /\ o \in Order /\ Nil \notin Page
  BY KAllocAssumption DEF Lists, Orders, Order, Page, Nil
<1>2. /\ m.isFree \in [Page -> BOOLEAN] /\ m.order \in [Page -> MinOrder .. MaxOrder]
      /\ m.next \in [Page -> Page \cup {Nil}] /\ m.head \in [Order -> Page \cup {Nil}]
  BY <1>1 DEF Mem
<1>3. x = [isFree |-> [m.isFree EXCEPT ![p] = TRUE], order |-> m.order,
           next |-> [m.next EXCEPT ![p] = m.head[o]], head |-> [m.head EXCEPT ![o] = p]]
  <2>1. m = [isFree |-> m.isFree, order |-> m.order, next |-> m.next, head |-> m.head]
    BY <1>1 DEF Mem
  <2>2. QED  BY <2>1, PushIs DEF PushedParts
<1> HIDE DEF x
<1>4. x \in Mem
  BY <1>1, <1>2, <1>3 DEF Mem
<1>5. FreeOf(x) = FreeOf(m) \cup {p} /\ x.order = m.order /\ x.head[o] = p
  BY <1>1, <1>2, <1>3 DEF FreeOf
<1>6. ASSUME NEW k \in Order PROVE List(x, k)
  <2>1. PICK e \in [Nat -> Page \cup {Nil}], n \in Nat : ListIs(m, k, e, n)
    BY DEF Lists, List
  <2>2. Links(m, k, e) /\ Distinctly(e, n)
    BY <2>1 DEF ListIs
  <2>3. \A q \in Page : (\E i \in 0 .. n - 1 : e[i] = q) <=> q \in FreeOf(m) /\ m.order[q] = k
    BY <2>1 DEF ListIs
  <2>4. \A i \in Nat : e[i] # p
    <3>1. SUFFICES ASSUME NEW i \in Nat, e[i] = p PROVE FALSE
      OBVIOUS
    <3>2. i \in 0 .. n - 1
      BY <1>1, <2>2, <3>1 DEF Distinctly
    <3>3. QED  BY <2>3, <3>1, <3>2
  <2>5. \A i \in Nat : e[i] # Nil => x.next[e[i]] = m.next[e[i]]
    BY <1>2, <1>3, <2>4
  <2>6. CASE k # o
    <3>1. Links(x, k, e)
      BY <1>2, <1>3, <2>2, <2>5, <2>6 DEF Links
    <3>2. \A q \in Page : (\E i \in 0 .. n - 1 : e[i] = q) <=> q \in FreeOf(x) /\ x.order[q] = k
      BY <1>5, <2>3, <2>6
    <3>3. ListIs(x, k, e, n)
      BY <2>2, <3>1, <3>2 DEF ListIs
    <3>4. QED  BY <3>3 DEF List
  <2>7. CASE k = o
    <3> DEFINE d == [i \in Nat |-> IF i = 0 THEN p ELSE e[i - 1]]
    <3>1. d \in [Nat -> Page \cup {Nil}] /\ n + 1 \in Nat
      OBVIOUS
    <3>2. d[0] = p /\ (\A i \in Nat : d[i + 1] = e[i]) /\ \A i \in Nat \ {0} : d[i] = e[i - 1]
      OBVIOUS
    <3> HIDE DEF d
    <3>3. Links(x, k, d)
      <4>1. d[0] = x.head[k]
        BY <1>5, <2>7, <3>2
      <4>2. ASSUME NEW i \in Nat PROVE d[i + 1] = IF d[i] = Nil THEN Nil ELSE x.next[d[i]]
        <5>1. CASE i = 0
          <6>1. d[1] = e[0] /\ e[0] = m.head[k]
            BY <2>2, <3>2 DEF Links
          <6>2. x.next[p] = m.head[o] /\ p # Nil
            BY <1>1, <1>2, <1>3
          <6>3. QED  BY <2>7, <3>2, <5>1, <6>1, <6>2
        <5>2. CASE i # 0
          <6>1. i - 1 \in Nat /\ (i - 1) + 1 = i /\ d[i] = e[i - 1] /\ d[i + 1] = e[i]
            BY <3>2, <5>2
          <6>2. e[(i - 1) + 1] = IF e[i - 1] = Nil THEN Nil ELSE m.next[e[i - 1]]
            BY <2>2, <6>1 DEF Links
          <6>3. e[i] = IF e[i - 1] = Nil THEN Nil ELSE m.next[e[i - 1]]
            BY <6>1, <6>2
          <6>4. QED  BY <2>5, <6>1, <6>3
        <5>3. QED  BY <5>1, <5>2
      <4>3. QED  BY <4>1, <4>2 DEF Links
    <3>4. Distinctly(d, n + 1)
      <4>1. ASSUME NEW i \in Nat PROVE d[i] = Nil <=> i >= n + 1
        <5>1. CASE i = 0
          BY <1>1, <3>2, <5>1
        <5>2. CASE i # 0
          <6>1. i - 1 \in Nat /\ d[i] = e[i - 1]
            BY <3>2, <5>2
          <6>2. e[i - 1] = Nil <=> i - 1 >= n
            BY <2>2, <6>1 DEF Distinctly
          <6>3. QED  BY <6>1, <6>2
        <5>3. QED  BY <5>1, <5>2
      <4>2. ASSUME NEW i \in 0 .. n, NEW j \in 0 .. n, d[i] = d[j] PROVE i = j
        <5>1. CASE i = 0 \/ j = 0
          BY <2>4, <3>2, <4>2, <5>1
        <5>2. CASE i # 0 /\ j # 0
          <6>1. i - 1 \in 0 .. n - 1 /\ j - 1 \in 0 .. n - 1 /\ e[i - 1] = e[j - 1]
            BY <3>2, <4>2, <5>2
          <6>2. i - 1 = j - 1
            BY <2>2, <6>1 DEF Distinctly
          <6>3. QED  BY <6>2
        <5>3. QED  BY <5>1, <5>2
      <4>3. n + 1 - 1 = n
        OBVIOUS
      <4>4. QED  BY <4>1, <4>2, <4>3 DEF Distinctly
    <3>5. ASSUME NEW q \in Page
          PROVE  (\E i \in 0 .. n : d[i] = q) <=> q \in FreeOf(x) /\ x.order[q] = k
      <4>1. (\E i \in 0 .. n : d[i] = q) <=> q = p \/ \E i \in 0 .. n - 1 : e[i] = q
        <5>1. ASSUME NEW i \in 0 .. n, d[i] = q PROVE q = p \/ \E j \in 0 .. n - 1 : e[j] = q
          <6>1. CASE i = 0
            BY <3>2, <5>1, <6>1
          <6>2. CASE i # 0
            <7>1. i - 1 \in 0 .. n - 1 /\ e[i - 1] = q
              BY <3>2, <5>1, <6>2
            <7>2. QED  BY <7>1
          <6>3. QED  BY <6>1, <6>2
        <5>2. ASSUME NEW i \in 0 .. n - 1, e[i] = q PROVE \E j \in 0 .. n : d[j] = q
          <6>1. i + 1 \in 0 .. n /\ d[i + 1] = q
            BY <3>2, <5>2
          <6>2. QED  BY <6>1
        <5>3. d[0] = p /\ 0 \in 0 .. n
          BY <3>2
        <5>4. QED  BY <5>1, <5>2, <5>3
      <4>2. QED  BY <1>5, <2>3, <2>7, <4>1
    <3>6. n + 1 - 1 = n
      OBVIOUS
    <3>7. ListIs(x, k, d, n + 1)
      BY <3>3, <3>4, <3>5, <3>6 DEF ListIs
    <3>8. QED  BY <3>1, <3>7 DEF List
  <2>8. QED  BY <2>6, <2>7
<1>7. Lists(x)
  BY <1>4, <1>6 DEF Lists
<1>8. QED  BY <1>5, <1>7 DEF x, Pushed

\* A list of pages, each once, is no longer than memory.
LEMMA ListFits ==
    ASSUME NEW e \in [Nat -> Page \cup {Nil}], NEW n \in Nat, Distinctly(e, n)
    PROVE  n <= NPages
<1> DEFINE f == [i \in 0 .. n - 1 |-> e[i]]
<1>1. NPages \in Nat /\ IsFiniteSet(Page) /\ Cardinality(Page) = NPages
  <2>1. NPages \in Nat \ {0}
    BY PagesNat
  <2>2. 0 - 1 < NPages /\ NPages - 1 - 0 + 1 = NPages
    BY <2>1
  <2>3. QED  BY <2>1, <2>2, FS_Interval DEF Page
<1>2. f \in [0 .. n - 1 -> Page]
  BY DEF Distinctly
<1>3. \A i, j \in 0 .. n - 1 : f[i] = f[j] => i = j
  BY DEF Distinctly
<1> HIDE DEF f
<1>4. f \in Injection(0 .. n - 1, Page)
  BY <1>2, <1>3 DEF Injection, IsInjective
<1>5. Cardinality(0 .. n - 1) <= NPages
  BY <1>1, <1>4, FS_Injection
<1>6. CASE n = 0
  BY <1>1, <1>6
<1>7. CASE n # 0
  <2>1. Cardinality(0 .. n - 1) = n
    BY <1>7, FS_Interval
  <2>2. QED  BY <1>5, <2>1
<1>8. QED  BY <1>6, <1>7

\* The walk down a list visits its entries.
LEMMA Walk ==
    ASSUME NEW m, NEW o, NEW e \in [Nat -> Page \cup {Nil}], Links(m, o, e)
    PROVE  \A i \in 0 .. NPages : ListEntry(m, o)[i] = e[i]
<1> DEFINE is(f) == f = [i \in 0 .. NPages |->
                            IF i = 0 THEN m.head[o]
                            ELSE IF f[i - 1] = Nil THEN Nil ELSE m.next[f[i - 1]]]
           g == [i \in 0 .. NPages |-> e[i]]
           f0 == ListEntry(m, o)
<1>1. NPages \in Nat
  BY PagesNat
<1>2. is(g)
  <2>1. ASSUME NEW i \in 0 .. NPages
        PROVE  g[i] = IF i = 0 THEN m.head[o] ELSE IF g[i - 1] = Nil THEN Nil ELSE m.next[g[i - 1]]
    <3>1. CASE i = 0
      BY <3>1 DEF Links
    <3>2. CASE i # 0
      <4>1. i - 1 \in Nat /\ i - 1 \in 0 .. NPages /\ (i - 1) + 1 = i
        BY <1>1, <3>2
      <4>2. e[(i - 1) + 1] = IF e[i - 1] = Nil THEN Nil ELSE m.next[e[i - 1]]
        BY <4>1 DEF Links
      <4>3. g[i] = e[(i - 1) + 1] /\ g[i - 1] = e[i - 1]
        BY <4>1
      <4> HIDE DEF g
      <4>4. QED  BY <3>2, <4>2, <4>3
    <3>3. QED  BY <3>1, <3>2
  <2>2. g = [i \in 0 .. NPages |-> g[i]]
    OBVIOUS
  <2> HIDE DEF g
  <2>3. QED  BY <2>1, <2>2
<1>3. is(f0)
  <2>1. f0 = CHOOSE f : is(f)
    BY DEF ListEntry
  <2> HIDE DEF is, f0, g
  <2>2. QED  BY <1>2, <2>1
<1> HIDE DEF f0
<1>4. \A i \in 0 .. NPages : f0[i] = IF i = 0 THEN m.head[o]
                                     ELSE IF f0[i - 1] = Nil THEN Nil ELSE m.next[f0[i - 1]]
  BY <1>3
<1> DEFINE Good == {i \in 0 .. NPages : f0[i] = e[i]}
<1>5. 0 \in Good
  BY <1>1, <1>4 DEF Links
<1>6. ASSUME NEW i \in 1 .. NPages, i - 1 \in Good PROVE i \in Good
  <2>1. i - 1 \in Nat /\ i \in 0 .. NPages /\ (i - 1) + 1 = i /\ i # 0
    OBVIOUS
  <2>2. e[(i - 1) + 1] = IF e[i - 1] = Nil THEN Nil ELSE m.next[e[i - 1]]
    BY <2>1 DEF Links
  <2>3. f0[i] = IF f0[i - 1] = Nil THEN Nil ELSE m.next[f0[i - 1]]
    BY <1>4, <2>1
  <2>4. f0[i - 1] = e[i - 1]
    BY <1>6
  <2>5. f0[i] = e[i]
    BY <2>1, <2>2, <2>3, <2>4
  <2>6. QED  BY <2>1, <2>5
<1> HIDE DEF Good
<1>7. 0 .. NPages \subseteq Good
  BY <1>1, <1>5, <1>6, UpTo
<1>8. QED  BY <1>7 DEF Good, f0

\* The walk ends, and what it visits is the free blocks of the order.
LEMMA Visits ==
    ASSUME NEW m, NEW o, List(m, o)
    PROVE  /\ ListEntry(m, o)[NPages] = Nil
           /\ OnList(m, o) = {p \in FreeOf(m) : m.order[p] = o}
<1>1. PICK e \in [Nat -> Page \cup {Nil}], n \in Nat : ListIs(m, o, e, n)
  BY DEF List
<1>2. Links(m, o, e) /\ Distinctly(e, n)
  BY <1>1 DEF ListIs
<1>3. n <= NPages /\ NPages \in Nat /\ Nil \notin Page
  BY <1>2, ListFits, PagesNat
<1> DEFINE f == ListEntry(m, o)
<1>4. \A i \in 0 .. NPages : f[i] = e[i]
  BY <1>2, Walk
<1> HIDE DEF f
<1>5. f[NPages] = Nil
  BY <1>2, <1>3, <1>4 DEF Distinctly
<1>6. ASSUME NEW q
      PROVE  (q # Nil /\ \E i \in 0 .. NPages : f[i] = q)
               <=> q \in Page /\ \E i \in 0 .. n - 1 : e[i] = q
  <2>1. ASSUME q # Nil, NEW i \in 0 .. NPages, f[i] = q
        PROVE  q \in Page /\ i \in 0 .. n - 1 /\ e[i] = q
    BY <1>2, <1>3, <1>4, <2>1 DEF Distinctly
  <2>2. ASSUME q \in Page, NEW i \in 0 .. n - 1, e[i] = q
        PROVE  q # Nil /\ i \in 0 .. NPages /\ f[i] = q
    BY <1>3, <1>4, <2>2
  <2>3. QED  BY <2>1, <2>2
<1>7. ASSUME NEW q
      PROVE  q \in OnList(m, o) <=> q # Nil /\ \E i \in 0 .. NPages : f[i] = q
  BY DEF OnList, f
<1>8. ASSUME NEW q
      PROVE  q \in {p \in FreeOf(m) : m.order[p] = o}
               <=> q \in Page /\ \E i \in 0 .. n - 1 : e[i] = q
  BY <1>1 DEF ListIs, FreeOf
<1>9. OnList(m, o) = {p \in FreeOf(m) : m.order[p] = o}
  BY <1>6, <1>7, <1>8
<1>10. QED  BY <1>5, <1>9 DEF f

\* The memory when page p of the list has been unlinked.
Unlinked(m, p, head, next) ==
    [isFree |-> [m.isFree EXCEPT ![p] = FALSE], order |-> m.order,
     next |-> [next EXCEPT ![p] = Nil], head |-> head]

\* x is m without page p, the j-th entry of the list e of order o.
UnlinksAt(m, o, e, n, j, p, x) ==
    /\ Lists(m) /\ o \in Orders /\ e \in [Nat -> Page \cup {Nil}] /\ n \in Nat
    /\ ListIs(m, o, e, n) /\ j \in 0 .. n - 1 /\ p = e[j]
    /\ \/ j = 0 /\ x = Unlinked(m, p, [m.head EXCEPT ![o] = m.next[p]], m.next)
       \/ j > 0 /\ x = Unlinked(m, p, m.head, [m.next EXCEPT ![e[j - 1]] = m.next[p]])

\* x is the memory m without free block p.
Removed(m, p, x) == Lists(x) /\ FreeOf(x) = FreeOf(m) \ {p} /\ x.order = m.order

\* An entry that is unlinked is removed.
LEMMA Unlink ==
    ASSUME NEW m, NEW o, NEW e, NEW n, NEW j, NEW p, NEW x, UnlinksAt(m, o, e, n, j, p, x)
    PROVE  Removed(m, p, x)
<1>0. /\ Lists(m) /\ o \in Orders /\ e \in [Nat -> Page \cup {Nil}] /\ n \in Nat
      /\ ListIs(m, o, e, n) /\ j \in 0 .. n - 1 /\ p = e[j]
      /\ \/ j = 0 /\ x = Unlinked(m, p, [m.head EXCEPT ![o] = m.next[p]], m.next)
         \/ j > 0 /\ x = Unlinked(m, p, m.head, [m.next EXCEPT ![e[j - 1]] = m.next[p]])
  BY DEF UnlinksAt
<1>1. m \in Mem /\ o \in Order /\ Nil \notin Page
  BY <1>0, KAllocAssumption DEF Lists, Orders, Order, Page, Nil
<1>2. /\ m.isFree \in [Page -> BOOLEAN] /\ m.order \in [Page -> MinOrder .. MaxOrder]
      /\ m.next \in [Page -> Page \cup {Nil}] /\ m.head \in [Order -> Page \cup {Nil}]
  BY <1>0, <1>1 DEF Mem
<1>3. Links(m, o, e) /\ Distinctly(e, n)
  BY <1>0 DEF ListIs
<1>4. p \in Page /\ p \in FreeOf(m) /\ m.order[p] = o
  <2>1. p # Nil
    BY <1>0, <1>3 DEF Distinctly
  <2>2. p \in Page
    BY <1>0, <2>1
  <2>3. QED  BY <1>0, <2>2 DEF ListIs
<1>5. m.next[p] = e[j + 1]
  <2>1. e[j + 1] = IF e[j] = Nil THEN Nil ELSE m.next[e[j]]
    BY <1>0, <1>3 DEF Links
  <2>2. QED  BY <1>0, <1>1, <1>4, <2>1
<1>6. j > 0 => e[j - 1] \in Page /\ e[j - 1] # p
  <2>1. SUFFICES ASSUME j > 0 PROVE e[j - 1] \in Page /\ e[j - 1] # p
    OBVIOUS
  <2>2. j - 1 \in 0 .. n - 1 /\ j - 1 \in Nat /\ j - 1 < n /\ j - 1 # j
    BY <1>0, <2>1
  <2>3. e[j - 1] # Nil
    BY <1>0, <1>3, <2>2 DEF Distinctly
  <2>4. e[j - 1] # e[j]
    BY <1>0, <1>3, <2>2 DEF Distinctly
  <2>5. QED  BY <1>0, <2>2, <2>3, <2>4
<1>7. /\ x.isFree = [m.isFree EXCEPT ![p] = FALSE] /\ x.order = m.order
      /\ x.next \in [Page -> Page \cup {Nil}] /\ x.head \in [Order -> Page \cup {Nil}]
      /\ x = [isFree |-> x.isFree, order |-> x.order, next |-> x.next, head |-> x.head]
  <2>1. CASE j = 0
    <3> DEFINE h == [m.head EXCEPT ![o] = m.next[p]]
               y == [m.next EXCEPT ![p] = Nil]
    <3>1. h \in [Order -> Page \cup {Nil}] /\ y \in [Page -> Page \cup {Nil}]
      BY <1>0, <1>1, <1>2, <1>4
    <3>2. x = [isFree |-> [m.isFree EXCEPT ![p] = FALSE], order |-> m.order, next |-> y, head |-> h]
      BY <1>0, <2>1 DEF Unlinked
    <3> HIDE DEF h, y
    <3>3. QED  BY <1>0, <3>1, <3>2
  <2>2. CASE j > 0
    <3> DEFINE y == [[m.next EXCEPT ![e[j - 1]] = m.next[p]] EXCEPT ![p] = Nil]
    <3>1. m.next[p] \in Page \cup {Nil}
      BY <1>0, <1>2, <1>4
    <3>2. y \in [Page -> Page \cup {Nil}]
      BY <1>0, <1>2, <3>1
    <3>3. x = [isFree |-> [m.isFree EXCEPT ![p] = FALSE], order |-> m.order, next |-> y, head |-> m.head]
      BY <1>0, <2>2 DEF Unlinked
    <3> HIDE DEF y
    <3>4. QED  BY <1>0, <1>2, <3>2, <3>3
  <2>3. QED  BY <1>0, <2>1, <2>2
<1>8. /\ \A k \in Order : k # o => x.head[k] = m.head[k]
      /\ x.head[o] = IF j = 0 THEN e[1] ELSE m.head[o]
      /\ j > 0 => x.next[e[j - 1]] = e[j + 1]
      /\ \A q \in Page : q # p /\ (j > 0 => q # e[j - 1]) => x.next[q] = m.next[q]
  BY <1>0, <1>1, <1>2, <1>4, <1>5, <1>6 DEF Unlinked
<1>9. x \in Mem
  BY <1>0, <1>2, <1>7 DEF Mem
<1>10. FreeOf(x) = FreeOf(m) \ {p}
  BY <1>0, <1>2, <1>4, <1>7 DEF FreeOf
<1>11. ASSUME NEW k \in Order, k # o PROVE List(x, k)
  <2>1. PICK d \in [Nat -> Page \cup {Nil}], l \in Nat : ListIs(m, k, d, l)
    BY <1>0 DEF Lists, List
  <2>2. Links(m, k, d) /\ Distinctly(d, l)
    BY <1>0, <2>1 DEF ListIs
  <2>3. \A q \in Page : (\E i \in 0 .. l - 1 : d[i] = q) <=> q \in FreeOf(m) /\ m.order[q] = k
    BY <1>0, <2>1 DEF ListIs
  <2>4. ASSUME NEW i \in Nat, d[i] # Nil PROVE x.next[d[i]] = m.next[d[i]]
    <3>1. d[i] \in Page /\ i \in 0 .. l - 1
      BY <1>0, <2>2, <2>4 DEF Distinctly
    <3>2. m.order[d[i]] = k
      BY <1>0, <2>3, <3>1
    <3>3. j > 0 => m.order[e[j - 1]] = o
      <4>1. j > 0 => j - 1 \in 0 .. n - 1 /\ e[j - 1] \in Page
        BY <1>0, <1>6
      <4>2. QED  BY <1>0, <4>1 DEF ListIs
    <3>4. d[i] # p /\ (j > 0 => d[i] # e[j - 1])
      BY <1>0, <1>4, <1>11, <3>2, <3>3
    <3>5. QED  BY <1>0, <1>8, <3>1, <3>4
  <2>5. Links(x, k, d)
    BY <1>0, <1>8, <1>11, <2>2, <2>4 DEF Links
  <2>6. \A q \in Page : (\E i \in 0 .. l - 1 : d[i] = q) <=> q \in FreeOf(x) /\ x.order[q] = k
    BY <1>0, <1>4, <1>7, <1>10, <1>11, <2>3
  <2>7. ListIs(x, k, d, l)
    BY <1>0, <2>2, <2>5, <2>6 DEF ListIs
  <2>8. QED  BY <1>0, <2>7 DEF List
<1>12. List(x, o)
  <2> DEFINE d == Without(e, j)
  <2>1. d \in [Nat -> Page \cup {Nil}] /\ n - 1 \in Nat /\ n - 1 - 1 = n - 2
    BY <1>0 DEF Without
  <2>2. \A i \in Nat : d[i] = IF i < j THEN e[i] ELSE e[i + 1]
    BY DEF Without
  <2> HIDE DEF d
  <2>3. ASSUME NEW i \in Nat PROVE d[i + 1] = IF d[i] = Nil THEN Nil ELSE x.next[d[i]]
    <3>1. e[i + 1] = IF e[i] = Nil THEN Nil ELSE m.next[e[i]]
      BY <1>0, <1>3 DEF Links
    <3>2. e[(i + 1) + 1] = IF e[i + 1] = Nil THEN Nil ELSE m.next[e[i + 1]]
      BY <1>0, <1>3 DEF Links
    <3>3. CASE i + 1 < j
      <4>1. i \in 0 .. n - 1 /\ j - 1 \in 0 .. n - 1 /\ i # j /\ i # j - 1
        BY <1>0, <3>3
      <4>2. e[i] # e[j] /\ e[i] # e[j - 1] /\ e[i] # Nil
        BY <1>0, <1>3, <4>1 DEF Distinctly
      <4>3. x.next[e[i]] = m.next[e[i]]
        BY <1>0, <1>8, <4>2
      <4>4. d[i] = e[i] /\ d[i + 1] = e[i + 1]
        BY <1>0, <2>2, <3>3
      <4>5. QED  BY <1>0, <3>1, <4>2, <4>3, <4>4
    <3>4. CASE i + 1 = j
      <4>1. d[i] = e[i] /\ d[i + 1] = e[j + 1] /\ i = j - 1 /\ j > 0
        BY <1>0, <2>2, <3>4
      <4>2. x.next[e[i]] = e[j + 1] /\ e[i] # Nil
        BY <1>0, <1>1, <1>6, <1>8, <4>1
      <4>3. QED  BY <1>0, <4>1, <4>2
    <3>5. CASE i >= j
      <4>1. d[i] = e[i + 1] /\ d[i + 1] = e[(i + 1) + 1]
        BY <1>0, <2>2, <3>5
      <4>2. e[i + 1] # Nil => x.next[e[i + 1]] = m.next[e[i + 1]]
        <5>1. SUFFICES ASSUME e[i + 1] # Nil PROVE x.next[e[i + 1]] = m.next[e[i + 1]]
          OBVIOUS
        <5>2. i + 1 < n /\ e[i + 1] \in Page
          BY <1>0, <1>3, <5>1 DEF Distinctly
        <5>3. i + 1 \in 0 .. n - 1 /\ i + 1 # j /\ (j > 0 => j - 1 \in 0 .. n - 1 /\ i + 1 # j - 1)
          BY <1>0, <3>5, <5>2
        <5>4. e[i + 1] # p /\ (j > 0 => e[i + 1] # e[j - 1])
          BY <1>0, <1>3, <5>3 DEF Distinctly
        <5>5. QED  BY <1>0, <1>8, <5>2, <5>4
      <4>3. QED  BY <1>0, <3>2, <4>1, <4>2
    <3>6. QED  BY <1>0, <3>3, <3>4, <3>5
  <2>4. d[0] = x.head[o]
    <3>1. e[0] = m.head[o]
      BY <1>0, <1>3 DEF Links
    <3>2. d[0] = IF 0 < j THEN e[0] ELSE e[1]
      BY <1>0, <2>2
    <3>3. QED  BY <1>0, <1>8, <3>1, <3>2
  <2>5. Links(x, o, d)
    BY <1>0, <2>3, <2>4 DEF Links
  <2>6. Distinctly(d, n - 1)
    <3>1. ASSUME NEW i \in Nat PROVE d[i] = Nil <=> i >= n - 1
      <4>1. e[i] = Nil <=> i >= n
        BY <1>0, <1>3 DEF Distinctly
      <4>2. e[i + 1] = Nil <=> i + 1 >= n
        BY <1>0, <1>3 DEF Distinctly
      <4>3. QED  BY <1>0, <2>2, <4>1, <4>2
    <3>2. ASSUME NEW i \in 0 .. n - 1 - 1, NEW k \in 0 .. n - 1 - 1, d[i] = d[k] PROVE i = k
      <4> DEFINE a == IF i < j THEN i ELSE i + 1
                 b == IF k < j THEN k ELSE k + 1
      <4>1. a \in 0 .. n - 1 /\ b \in 0 .. n - 1 /\ d[i] = e[a] /\ d[k] = e[b]
        BY <1>0, <2>2
      <4>2. a = b
        <5> HIDE DEF a, b
        <5> QED  BY <1>0, <1>3, <3>2, <4>1 DEF Distinctly
      <4>3. QED  BY <1>0, <4>2
    <3>3. QED  BY <1>0, <3>1, <3>2 DEF Distinctly
  <2>7. ASSUME NEW q \in Page
        PROVE  (\E i \in 0 .. n - 1 - 1 : d[i] = q) <=> q \in FreeOf(x) /\ x.order[q] = o
    <3>1. ASSUME NEW i \in 0 .. n - 1 - 1, d[i] = q PROVE q # p /\ \E k \in 0 .. n - 1 : e[k] = q
      <4> DEFINE a == IF i < j THEN i ELSE i + 1
      <4>1. a \in 0 .. n - 1 /\ e[a] = q /\ a # j
        BY <1>0, <2>2, <3>1
      <4> HIDE DEF a
      <4>2. q # p
        BY <1>0, <1>3, <4>1 DEF Distinctly
      <4>3. QED  BY <1>0, <4>1, <4>2
    <3>2. ASSUME NEW k \in 0 .. n - 1, e[k] = q, q # p PROVE \E i \in 0 .. n - 1 - 1 : d[i] = q
      <4>1. k # j
        BY <1>0, <3>2
      <4>2. CASE k < j
        <5>1. k \in 0 .. n - 1 - 1 /\ d[k] = q
          BY <1>0, <2>2, <3>2, <4>2
        <5>2. QED  BY <1>0, <5>1
      <4>3. CASE k > j
        <5>1. k - 1 \in 0 .. n - 1 - 1 /\ ~(k - 1 < j) /\ (k - 1) + 1 = k /\ k - 1 \in Nat
          BY <1>0, <4>3
        <5>2. d[k - 1] = q
          BY <1>0, <2>2, <3>2, <5>1
        <5>3. QED  BY <1>0, <5>1, <5>2
      <4>4. QED  BY <1>0, <4>1, <4>2, <4>3
    <3>3. (\E k \in 0 .. n - 1 : e[k] = q) <=> q \in FreeOf(m) /\ m.order[q] = o
      BY <1>0 DEF ListIs
    <3>4. QED  BY <1>0, <1>7, <1>10, <3>1, <3>2, <3>3
  <2>8. ListIs(x, o, d, n - 1)
    BY <1>0, <2>5, <2>6, <2>7 DEF ListIs
  <2>9. QED  BY <1>0, <2>1, <2>8 DEF List
<1>13. Lists(x)
  BY <1>0, <1>9, <1>11, <1>12 DEF Lists
<1>14. QED  BY <1>7, <1>10, <1>13 DEF Removed

\* Page p is marked as taken.
TakenOff(u, p) == [u EXCEPT !.isFree[p] = FALSE, !.next[p] = Nil]

\* The memory m with other lists.
Relinked(m, head, next) == [isFree |-> m.isFree, order |-> m.order, next |-> next, head |-> head]

\* A page that was unlinked is marked as taken.
LEMMA TakesOff ==
    ASSUME NEW m, NEW p, NEW head, NEW next
    PROVE  TakenOff(Relinked(m, head, next), p) = Unlinked(m, p, head, next)
<1> DEFINE f2 == [m.isFree EXCEPT ![p] = FALSE]
           y2 == [next EXCEPT ![p] = Nil]
           u == Relinked(m, head, next)
           v == [u EXCEPT !.isFree = f2]
<1>1. u = [isFree |-> m.isFree, order |-> m.order, next |-> next, head |-> head]
  BY DEF Relinked
<1> HIDE DEF u
<1>2. u.isFree = m.isFree /\ u.next = next
  BY <1>1
<1>3. TakenOff(u, p) = [v EXCEPT !.next = y2]
  BY <1>2 DEF TakenOff
<1> HIDE DEF f2, y2
<1>4. v = [isFree |-> f2, order |-> m.order, next |-> next, head |-> head]
  BY <1>1
<1> HIDE DEF v
<1>5. [v EXCEPT !.next = y2] = [isFree |-> f2, order |-> m.order, next |-> y2, head |-> head]
  BY <1>4
<1>6. QED  BY <1>3, <1>5 DEF f2, y2, u, Unlinked

\* removeFromFreeList removes a free block.
LEMMA Removes ==
    ASSUME NEW m, Lists(m), NEW p \in FreeOf(m)
    PROVE  Removed(m, p, removeFromFreeList(m, p))
<1> DEFINE o == m.order[p]
           f == ListEntry(m, o)
           k == Min({i \in 1 .. NPages : f[i] = p})
           unlinked == IF f[0] = p THEN [m EXCEPT !.head[o] = m.next[p]]
                       ELSE [m EXCEPT !.next[f[k - 1]] = m.next[p]]
           x == TakenOff(unlinked, p)
<1>1. m \in Mem /\ p \in Page
  BY DEF Lists, FreeOf
<1>2. m = [isFree |-> m.isFree, order |-> m.order, next |-> m.next, head |-> m.head]
      /\ o \in Orders /\ o \in Order
  <2>1. m = [isFree |-> m.isFree, order |-> m.order, next |-> m.next, head |-> m.head]
    BY <1>1 DEF Mem
  <2>2. o \in MinOrder .. MaxOrder
    BY <1>1 DEF Mem
  <2>3. QED  BY <2>1, <2>2, KAllocAssumption DEF Orders, Order
<1>3. List(m, o)
  BY <1>2 DEF Lists
<1>4. p \in OnList(m, o)
  BY <1>3, Visits
<1>5. removeFromFreeList(m, p) = x
  BY <1>4 DEF removeFromFreeList, TakenOff
<1>6. PICK e \in [Nat -> Page \cup {Nil}], n \in Nat : ListIs(m, o, e, n)
  BY <1>3 DEF List
<1>7. Links(m, o, e) /\ Distinctly(e, n)
  BY <1>6 DEF ListIs
<1>8. \A i \in 0 .. NPages : f[i] = e[i]
  BY <1>7, Walk
<1>9. PICK j \in 0 .. n - 1 : e[j] = p
  BY <1>1, <1>6 DEF ListIs
<1>10. n <= NPages /\ NPages \in Nat
  BY <1>7, ListFits, PagesNat
<1> HIDE DEF o, f, k
<1>11. CASE j = 0
  <2>1. f[0] = p
    BY <1>8, <1>9, <1>10, <1>11
  <2> DEFINE h == [m.head EXCEPT ![o] = m.next[p]]
  <2>2. unlinked = Relinked(m, h, m.next)
    BY <1>2, <2>1 DEF Relinked
  <2> HIDE DEF unlinked, h
  <2>3. x = Unlinked(m, p, h, m.next)
    BY <2>2, TakesOff
  <2> HIDE DEF x
  <2>4. UnlinksAt(m, o, e, n, j, p, x)
    BY <1>2, <1>6, <1>9, <1>11, <2>3 DEF h, UnlinksAt
  <2>5. QED  BY <1>5, <2>4, Unlink
<1>12. CASE j > 0
  <2>1. j \in 1 .. NPages /\ j \in 0 .. n - 1 /\ 0 \in 0 .. n - 1 /\ j - 1 \in 0 .. NPages
    BY <1>9, <1>10, <1>12
  <2>2. f[0] # p
    <3>1. f[0] = e[0] /\ e[0] # e[j]
      BY <1>7, <1>8, <1>10, <1>12, <2>1 DEF Distinctly
    <3>2. QED  BY <1>9, <3>1
  <2>3. {i \in 1 .. NPages : f[i] = p} = {j}
    <3>1. ASSUME NEW i \in 1 .. NPages, f[i] = p PROVE i = j
      <4>1. e[i] = p /\ p # Nil /\ i \in Nat
        BY <1>1, <1>8, <3>1, PagesNat
      <4>2. i \in 0 .. n - 1
        BY <1>7, <4>1 DEF Distinctly
      <4>3. QED  BY <1>7, <1>9, <4>1, <4>2 DEF Distinctly
    <3>2. f[j] = p
      BY <1>8, <1>9, <2>1
    <3>3. QED  BY <2>1, <3>1, <3>2
  <2>4. k = j
    <3>1. Min({j}) \in {j}
      <4>1. {j} \subseteq Nat /\ {j} # {}
        OBVIOUS
      <4>2. QED  BY <4>1, Least
    <3>2. QED  BY <2>3, <3>1 DEF k
  <2>5. f[j - 1] = e[j - 1]
    BY <1>8, <2>1
  <2> DEFINE y == [m.next EXCEPT ![e[j - 1]] = m.next[p]]
  <2>6. unlinked = Relinked(m, m.head, y)
    BY <1>2, <2>2, <2>4, <2>5 DEF Relinked
  <2> HIDE DEF unlinked, y
  <2>7. x = Unlinked(m, p, m.head, y)
    BY <2>6, TakesOff
  <2> HIDE DEF x
  <2>8. UnlinksAt(m, o, e, n, j, p, x)
    BY <1>2, <1>6, <1>9, <1>12, <2>7 DEF y, UnlinksAt
  <2>9. QED  BY <1>5, <2>8, Unlink
<1>13. QED  BY <1>11, <1>12

\* Memory m when the top of the list of order o is taken, as kalloc does it.
Popped(m, o) ==
    LET p == m.head[o]
    IN  [m EXCEPT !.head[o] = m.next[p], !.next[p] = Nil, !.isFree[p] = FALSE]

\* The top of a list is a free block of that order, and taking it removes it.
LEMMA Pops ==
    ASSUME NEW m, Lists(m), NEW o \in Orders, m.head[o] # Nil
    PROVE  /\ m.head[o] \in FreeOf(m) /\ m.order[m.head[o]] = o
           /\ Removed(m, m.head[o], Popped(m, o))
<1> DEFINE p == m.head[o]
           x == Popped(m, o)
<1>1. m \in Mem /\ o \in Order
  BY KAllocAssumption DEF Lists, Orders, Order
<1>2. m = [isFree |-> m.isFree, order |-> m.order, next |-> m.next, head |-> m.head]
  BY <1>1 DEF Mem
<1>3. PICK e \in [Nat -> Page \cup {Nil}], n \in Nat : ListIs(m, o, e, n)
  BY <1>1 DEF Lists, List
<1>4. Links(m, o, e) /\ Distinctly(e, n)
  BY <1>3 DEF ListIs
<1>5. p = e[0] /\ 0 \in 0 .. n - 1 /\ p \in Page
  BY <1>4 DEF Links, Distinctly
<1>6. p \in FreeOf(m) /\ m.order[p] = o
  BY <1>3, <1>5 DEF ListIs
<1> HIDE DEF p
<1>7. x = Unlinked(m, p, [m.head EXCEPT ![o] = m.next[p]], m.next)
  <2>1. x = [m EXCEPT !.head[o] = m.next[p], !.next[p] = Nil, !.isFree[p] = FALSE]
    BY DEF Popped, p
  <2>2. QED  BY <1>2, <2>1 DEF Unlinked
<1> HIDE DEF x
<1>8. UnlinksAt(m, o, e, n, 0, p, x)
  BY <1>3, <1>5, <1>7 DEF UnlinksAt
<1>9. Removed(m, p, x)
  BY <1>8, Unlink
<1>10. QED  BY <1>6, <1>9 DEF p, x

\* The memory m with page p of order k.
WithOrder(m, p, k) == [m EXCEPT !.order[p] = k]

\* x is the memory m, of which only the order of page p is k.
Reordered(m, p, k, x) ==
    Lists(x) /\ FreeOf(x) = FreeOf(m) /\ x.order = [m.order EXCEPT ![p] = k]

\* The order of a page that leads no free block does not matter to the lists.
LEMMA Reorders ==
    ASSUME NEW m, Lists(m), NEW p \in Page, p \notin FreeOf(m), NEW k \in Orders
    PROVE  Reordered(m, p, k, WithOrder(m, p, k))
<1> DEFINE x == WithOrder(m, p, k)
<1>1. m \in Mem
  BY DEF Lists
<1>2. m = [isFree |-> m.isFree, order |-> m.order, next |-> m.next, head |-> m.head]
      /\ m.order \in [Page -> MinOrder .. MaxOrder]
  BY <1>1 DEF Mem
<1>3. x = [isFree |-> m.isFree, order |-> [m.order EXCEPT ![p] = k], next |-> m.next, head |-> m.head]
  BY <1>2 DEF WithOrder
<1> HIDE DEF x
<1>4. x \in Mem
  <2>1. [m.order EXCEPT ![p] = k] \in [Page -> MinOrder .. MaxOrder]
    BY <1>2 DEF Orders
  <2>2. QED  BY <1>1, <1>3, <2>1 DEF Mem
<1>5. FreeOf(x) = FreeOf(m) /\ x.order = [m.order EXCEPT ![p] = k]
      /\ x.next = m.next /\ x.head = m.head
  BY <1>3 DEF FreeOf
<1>6. \A q \in FreeOf(m) : x.order[q] = m.order[q]
  BY <1>2, <1>5
<1>7. ASSUME NEW o \in Order PROVE List(x, o)
  <2>1. PICK e \in [Nat -> Page \cup {Nil}], n \in Nat : ListIs(m, o, e, n)
    BY DEF Lists, List
  <2>2. Links(m, o, e) /\ Distinctly(e, n)
    BY <2>1 DEF ListIs
  <2>3. Links(x, o, e)
    BY <1>5, <2>2 DEF Links
  <2>4. \A q \in Page : (\E i \in 0 .. n - 1 : e[i] = q) <=> q \in FreeOf(m) /\ m.order[q] = o
    BY <2>1 DEF ListIs
  <2>5. \A q \in Page : (\E i \in 0 .. n - 1 : e[i] = q) <=> q \in FreeOf(x) /\ x.order[q] = o
    BY <1>5, <1>6, <2>4
  <2>6. ListIs(x, o, e, n)
    BY <2>2, <2>3, <2>5 DEF ListIs
  <2>7. QED  BY <2>6 DEF List
<1>8. QED  BY <1>4, <1>5, <1>7 DEF Lists, Reordered, x

-----------------------------------------------------------------------------
(***************************************************************************)
(* Blocks tile the available memory.                                       *)
(***************************************************************************)
\* The blocks that the pages L lead, of orders ord, tile the pages A.
Tiles(L, ord, A) ==
    /\ L \subseteq Page
    /\ \A p \in L : ord[p] \in Orders /\ Aligned(p, ord[p])
    /\ \A p, q \in L : p # q => Span(p, ord[p]) \cap Span(q, ord[q]) = {}
    /\ UNION {Span(p, ord[p]) : p \in L} = A

\* Both halves of a block are merged into it.
LEMMA Join ==
    ASSUME NEW L, NEW ord, NEW A, Tiles(L, ord, A), NEW k \in MinOrder .. MaxOrder - 1,
           NEW l \in L, NEW h \in L, Halves(l, h, k), ord[l] = k, ord[h] = k,
           NEW M, M = L \ {h}, NEW new, new[l] = k + 1, \A p \in L \ {l, h} : new[p] = ord[p]
    PROVE  Tiles(M, new, A)
<1>1. /\ l # h /\ Span(l, k) \cap Span(h, k) = {}
      /\ Span(l, k) \cup Span(h, k) = Span(l, k + 1)
  BY HalvesSpan
<1>2. k + 1 \in Orders /\ Aligned(l, k + 1)
  BY KAllocAssumption DEF Halves, Orders
<1>3. \A p \in M : p = l \/ p \in L \ {l, h}
  OBVIOUS
<1>4. M \subseteq Page /\ l \in M
  BY <1>1 DEF Tiles
<1>5. \A p \in M : new[p] \in Orders /\ Aligned(p, new[p])
  BY <1>2, <1>3 DEF Tiles
<1>6. \A p \in L \ {l, h} : Span(p, new[p]) \cap Span(l, new[l]) = {}
  <2>1. TAKE p \in L \ {l, h}
  <2>2. Span(p, ord[p]) \cap Span(l, k) = {} /\ Span(p, ord[p]) \cap Span(h, k) = {}
    BY DEF Tiles
  <2>3. Span(p, new[p]) = Span(p, ord[p]) /\ Span(l, new[l]) = Span(l, k + 1)
    OBVIOUS
  <2>4. QED  BY <1>1, <2>2, <2>3
<1>7. \A p, q \in M : p # q => Span(p, new[p]) \cap Span(q, new[q]) = {}
  <2>1. TAKE p, q \in M
  <2>2. CASE p = l \/ q = l
    BY <1>3, <1>6, <2>2
  <2>3. CASE p # l /\ q # l
    <3>1. p \in L \ {l, h} /\ q \in L \ {l, h}
      BY <1>3, <2>3
    <3>2. Span(p, new[p]) = Span(p, ord[p]) /\ Span(q, new[q]) = Span(q, ord[q])
      BY <3>1
    <3>3. QED  BY <3>1, <3>2 DEF Tiles
  <2>4. QED  BY <2>2, <2>3
<1>8. ASSUME NEW x
      PROVE  (\E p \in M : x \in Span(p, new[p])) <=> \E p \in L : x \in Span(p, ord[p])
  <2>1. (\E p \in M : x \in Span(p, new[p]))
          <=> x \in Span(l, k + 1) \/ \E p \in L \ {l, h} : x \in Span(p, new[p])
    BY <1>3, <1>4
  <2>2. (\E p \in L : x \in Span(p, ord[p]))
          <=> x \in Span(l, k) \/ x \in Span(h, k) \/ \E p \in L \ {l, h} : x \in Span(p, ord[p])
    OBVIOUS
  <2>3. \A p \in L \ {l, h} : Span(p, new[p]) = Span(p, ord[p])
    OBVIOUS
  <2>4. x \in Span(l, k + 1) <=> x \in Span(l, k) \/ x \in Span(h, k)
    BY <1>1
  <2>5. QED  BY <2>1, <2>2, <2>3, <2>4
<1>9. UNION {Span(p, new[p]) : p \in M} = UNION {Span(p, ord[p]) : p \in L}
  BY <1>8
<1>10. QED  BY <1>4, <1>5, <1>7, <1>9 DEF Tiles

\* A block is cut into its halves.
LEMMA Cut ==
    ASSUME NEW L, NEW ord, NEW A, Tiles(L, ord, A), NEW k \in MinOrder .. MaxOrder - 1,
           NEW l \in L, NEW h, Halves(l, h, k), ord[l] = k + 1,
           NEW M, M = L \cup {h}, NEW new, new[l] = k, new[h] = k,
           \A p \in L \ {l, h} : new[p] = ord[p]
    PROVE  h \notin L /\ Tiles(M, new, A)
<1>1. /\ l # h /\ Span(l, k) \cap Span(h, k) = {}
      /\ Span(l, k) \cup Span(h, k) = Span(l, k + 1)
      /\ h \in Span(h, k)
  BY HalvesSpan
<1>2. k \in Orders /\ Aligned(l, k) /\ Aligned(h, k) /\ h \in Page
  BY KAllocAssumption DEF Halves, Orders
<1>3. h \notin L
  <2>1. SUFFICES ASSUME h \in L PROVE FALSE
    OBVIOUS
  <2>2. Span(l, k + 1) \cap Span(h, ord[h]) = {}
    BY <1>1, <2>1 DEF Tiles
  <2>3. h \in Span(h, ord[h])
    <3>1. h \in Page /\ Page \subseteq Nat /\ ord[h] \in Orders
      BY <2>1 DEF Tiles, Page
    <3>2. h < h + Width(ord[h]) /\ h <= h
      BY <3>1, Widths
    <3>3. QED  BY <3>1, <3>2 DEF Span
  <2>4. QED  BY <1>1, <2>2, <2>3
<1>4. \A p \in M : p = l \/ p = h \/ p \in L \ {l, h}
  OBVIOUS
<1>5. M \subseteq Page /\ l \in M /\ h \in M
  BY <1>2 DEF Tiles
<1>6. \A p \in M : new[p] \in Orders /\ Aligned(p, new[p])
  BY <1>2, <1>4 DEF Tiles
<1>7. \A p \in L \ {l, h} : /\ Span(p, new[p]) \cap Span(l, new[l]) = {}
                            /\ Span(p, new[p]) \cap Span(h, new[h]) = {}
  <2>1. TAKE p \in L \ {l, h}
  <2>2. Span(p, ord[p]) \cap Span(l, k + 1) = {}
    BY DEF Tiles
  <2>3. /\ Span(p, new[p]) = Span(p, ord[p]) /\ Span(l, new[l]) = Span(l, k)
        /\ Span(h, new[h]) = Span(h, k)
    OBVIOUS
  <2>4. QED  BY <1>1, <2>2, <2>3
<1>8. \A p, q \in M : p # q => Span(p, new[p]) \cap Span(q, new[q]) = {}
  <2>1. TAKE p, q \in M
  <2>2. CASE {p, q} \subseteq {l, h}
    <3>1. Span(l, new[l]) \cap Span(h, new[h]) = {}
      BY <1>1
    <3>2. QED  BY <2>2, <3>1
  <2>3. CASE p \in L \ {l, h} /\ q \in {l, h}
    BY <1>7, <2>3
  <2>4. CASE q \in L \ {l, h} /\ p \in {l, h}
    BY <1>7, <2>4
  <2>5. CASE p \in L \ {l, h} /\ q \in L \ {l, h}
    <3>1. Span(p, new[p]) = Span(p, ord[p]) /\ Span(q, new[q]) = Span(q, ord[q])
      BY <2>5
    <3>2. QED  BY <2>5, <3>1 DEF Tiles
  <2>6. QED  BY <1>4, <2>2, <2>3, <2>4, <2>5
<1>9. ASSUME NEW x
      PROVE  (\E p \in M : x \in Span(p, new[p])) <=> \E p \in L : x \in Span(p, ord[p])
  <2>1. (\E p \in M : x \in Span(p, new[p]))
          <=> x \in Span(l, k) \/ x \in Span(h, k) \/ \E p \in L \ {l, h} : x \in Span(p, new[p])
    BY <1>4, <1>5
  <2>2. (\E p \in L : x \in Span(p, ord[p]))
          <=> x \in Span(l, k + 1) \/ \E p \in L \ {l, h} : x \in Span(p, ord[p])
    BY <1>3
  <2>3. \A p \in L \ {l, h} : Span(p, new[p]) = Span(p, ord[p])
    OBVIOUS
  <2>4. x \in Span(l, k + 1) <=> x \in Span(l, k) \/ x \in Span(h, k)
    BY <1>1
  <2>5. QED  BY <2>1, <2>2, <2>3, <2>4
<1>10. UNION {Span(p, new[p]) : p \in M} = UNION {Span(p, ord[p]) : p \in L}
  BY <1>9
<1>11. QED  BY <1>3, <1>5, <1>6, <1>8, <1>10 DEF Tiles

\* The lists of memory m are sound, and its free blocks with the blocks that
\* callers hold, of orders hs, tile the pages A.
Sound(m, hs, A) ==
    /\ Lists(m) /\ DOMAIN hs \subseteq Page
    /\ \A q \in DOMAIN hs : m.order[q] = hs[q]
    /\ FreeOf(m) \cap DOMAIN hs = {} /\ Tiles(FreeOf(m) \cup DOMAIN hs, m.order, A)

\* The free blocks of order k.
Of(m, k) == {p \in FreeOf(m) : m.order[p] = k}

\* x is what is left of m when two blocks of order o have been merged.
Merges(m, o, x) ==
    /\ \E l, h \in Of(m, o) : l # h /\ Of(x, o) = Of(m, o) \ {l, h}
    /\ \A j \in Orders \ {o, o + 1} : Of(x, j) = Of(m, j)

\* The buddy of a page is that of a block of the page's order.
LEMMA BuddyOfPage ==
    ASSUME NEW m \in Mem, NEW p \in Page
    PROVE  buddy(m, p) = BuddyOf(p, m.order[p])
<1>1. m.order[p] \in MinOrder .. MaxOrder
  BY DEF Mem
<1>2. ~(m.order[p] < MinOrder)
  BY <1>1, KAllocAssumption
<1>3. QED  BY <1>2 DEF buddy, BuddyOf, Width

\* Merge keeps memory sound: it makes one free block of two.
LEMMA MergeSound ==
    ASSUME NEW m, NEW hs, NEW A, Sound(m, hs, A), NEW o \in MinOrder .. MaxOrder - 1,
           NEW p \in FreeOf(m), m.order[p] = o, Mergeable(m, o, p)
    PROVE  Sound(Merge(m, p, o), hs, A) /\ Merges(m, o, Merge(m, p, o))
<1> DEFINE H == DOMAIN hs
           b == buddy(m, p)
           lead == IF p < b THEN p ELSE b
           other == IF p < b THEN b ELSE p
           m1 == removeFromFreeList(m, p)
           m2 == removeFromFreeList(m1, b)
           m3 == WithOrder(m2, p, o + 1)
           m4 == WithOrder(m3, b, o + 1)
           m5 == Push(m4, lead, o + 1)
<1>1. Lists(m) /\ m \in Mem /\ p \in Page /\ FreeOf(m) \cap H = {} /\ H \subseteq Page
      /\ Tiles(FreeOf(m) \cup H, m.order, A) /\ \A q \in H : m.order[q] = hs[q]
  BY DEF Sound, Lists, FreeOf
<1>2. b = BuddyOf(p, o)
  BY <1>1, BuddyOfPage
<1>3. Aligned(p, o)
  BY <1>1 DEF Tiles
<1>4. Halves(p, b, o) \/ Halves(b, p, o)
  BY <1>1, <1>2, <1>3, BuddyIs
<1>5. o \in Orders /\ o + 1 \in Orders /\ Width(o) \in Nat \ {0} /\ Page \subseteq Nat
  BY KAllocAssumption, Widths DEF Orders, Page
<1>6. b \in Page /\ b # p /\ Halves(lead, other, o)
  <2> HIDE DEF b
  <2>1. CASE Halves(p, b, o)
    <3>1. b \in Page /\ b = p + Width(o)
      BY <2>1 DEF Halves
    <3>2. p < b
      BY <1>1, <1>5, <3>1
    <3>3. lead = p /\ other = b
      BY <3>2
    <3> HIDE DEF lead, other
    <3>4. b # p
      BY <1>1, <1>5, <3>1, <3>2
    <3>5. QED  BY <2>1, <3>1, <3>3, <3>4
  <2>2. CASE Halves(b, p, o)
    <3>1. b \in Page /\ p = b + Width(o)
      BY <2>2 DEF Halves
    <3>2. ~(p < b) /\ p # b
      BY <1>5, <3>1
    <3>3. lead = b /\ other = p
      BY <3>2
    <3> HIDE DEF lead, other
    <3>4. QED  BY <2>2, <3>1, <3>2, <3>3
  <2>3. QED  BY <1>4, <2>1, <2>2
<1>7. b \in FreeOf(m) /\ m.order[b] = o
  BY <1>6 DEF Mergeable, FreeOf
<1>8. {lead, other} = {p, b} /\ lead # other
  BY <1>6
<1> HIDE DEF b, lead, other
<1>9. Lists(m1) /\ FreeOf(m1) = FreeOf(m) \ {p} /\ m1.order = m.order
  BY <1>1, Removes DEF Removed
<1>10. b \in FreeOf(m1)
  BY <1>6, <1>7, <1>9
<1> HIDE DEF m1
<1>11. Lists(m2) /\ FreeOf(m2) = FreeOf(m) \ {p, b} /\ m2.order = m.order
  <2>1. Lists(m2) /\ FreeOf(m2) = FreeOf(m1) \ {b} /\ m2.order = m1.order
    BY <1>9, <1>10, Removes DEF Removed
  <2> HIDE DEF m2
  <2>2. QED  BY <1>9, <2>1
<1>12. Merge(m, p, o) = m5
  <2>1. m2.order[p] + 1 = o + 1 /\ m2.order[b] + 1 = o + 1
    BY <1>7, <1>11
  <2> DEFINE both == [m2 EXCEPT !.order[p] = @ + 1, !.order[b] = @ + 1]
  <2>2. Merge(m, p, o) = Push(both, lead, o + 1)
    BY DEF Merge, b, m1, lead
  <2>3. both = m4
    <3>1. m2 = [isFree |-> m2.isFree, order |-> m2.order, next |-> m2.next, head |-> m2.head]
          /\ m2.order \in [Page -> MinOrder .. MaxOrder]
      BY <1>11 DEF Lists, Mem
    <3> HIDE DEF m2
    <3>2. both = [m2 EXCEPT !.order = [[m2.order EXCEPT ![p] = o + 1] EXCEPT ![b] = o + 1]]
      BY <1>1, <1>6, <2>1, <3>1
    <3>3. m4 = [m2 EXCEPT !.order = [[m2.order EXCEPT ![p] = o + 1] EXCEPT ![b] = o + 1]]
      BY <3>1 DEF WithOrder
    <3>4. QED  BY <3>2, <3>3
  <2>4. QED  BY <2>2, <2>3
<1> HIDE DEF m2
<1>13. Lists(m3) /\ FreeOf(m3) = FreeOf(m2) /\ m3.order = [m2.order EXCEPT ![p] = o + 1]
  BY <1>1, <1>5, <1>11, Reorders DEF Reordered
<1> HIDE DEF m3
<1>14. Lists(m4) /\ FreeOf(m4) = FreeOf(m3) /\ m4.order = [m3.order EXCEPT ![b] = o + 1]
  <2>1. Lists(m3) /\ b \in Page /\ b \notin FreeOf(m3) /\ o + 1 \in Orders
    BY <1>5, <1>6, <1>11, <1>13
  <2>2. Reordered(m3, b, o + 1, m4)
    BY <2>1, Reorders
  <2>3. QED  BY <2>2 DEF Reordered
<1> HIDE DEF m4
<1>15. /\ m4.order[p] = o + 1 /\ m4.order[b] = o + 1
       /\ \A q \in Page \ {p, b} : m4.order[q] = m.order[q]
  <2>1. m2.order \in [Page -> MinOrder .. MaxOrder]
    BY <1>11 DEF Lists, Mem
  <2>2. QED  BY <1>1, <1>6, <1>11, <1>13, <1>14, <2>1
<1>16. lead \in Page /\ lead \notin FreeOf(m4) /\ m4.order[lead] = o + 1
  BY <1>1, <1>6, <1>8, <1>11, <1>13, <1>14, <1>15
<1>17. Lists(m5) /\ FreeOf(m5) = FreeOf(m4) \cup {lead} /\ m5.order = m4.order
  <2> DEFINE k == o + 1
  <2>1. k \in Orders /\ m4.order[lead] = k
    BY <1>5, <1>16
  <2>2. m5 = Push(m4, lead, k)
    OBVIOUS
  <2> HIDE DEF k, m5
  <2>3. Pushed(m4, lead, k, m5)
    BY <1>14, <1>16, <1>13, <2>1, <2>2, PushList
  <2>4. QED  BY <2>3 DEF Pushed
<1> HIDE DEF m5
<1>18. FreeOf(m5) = FreeOf(m) \ {other}
  BY <1>7, <1>8, <1>11, <1>13, <1>14, <1>17
<1> DEFINE L == FreeOf(m) \cup H
           M == FreeOf(m5) \cup H
           ord == m.order
           new == m5.order
<1>19. /\ Tiles(L, ord, A) /\ lead \in L /\ other \in L /\ ord[lead] = o /\ ord[other] = o
       /\ M = L \ {other} /\ new[lead] = o + 1 /\ \A q \in L \ {lead, other} : new[q] = ord[q]
  <2>1. L \subseteq Page
    BY <1>1 DEF Tiles
  <2>2. QED  BY <1>1, <1>7, <1>8, <1>15, <1>17, <1>18, <2>1
<1> HIDE DEF L, M, ord, new
<1>20. Tiles(M, new, A)
  BY <1>6, <1>19, Join
<1>21. \A q \in H : m5.order[q] = hs[q]
  BY <1>1, <1>7, <1>15, <1>17
<1>22. Sound(m5, hs, A)
  BY <1>1, <1>17, <1>18, <1>20, <1>21 DEF Sound, M, new
<1>23. Merges(m, o, m5)
  <2>1. lead \in Of(m, o) /\ other \in Of(m, o)
    BY <1>7, <1>8 DEF Of
  <2>2. /\ m5.order[lead] = o + 1
        /\ \A q \in FreeOf(m) \ {lead, other} : m5.order[q] = m.order[q]
    BY <1>8, <1>15, <1>17 DEF FreeOf
  <2>3. Of(m5, o) = Of(m, o) \ {lead, other}
    <3>1. o # o + 1
      BY <1>5 DEF Orders
    <3>2. QED  BY <1>18, <2>2, <3>1 DEF Of
  <2>4. ASSUME NEW j \in Orders \ {o, o + 1} PROVE Of(m5, j) = Of(m, j)
    BY <1>18, <2>1, <2>2, <2>4 DEF Of
  <2>5. QED  BY <1>8, <2>1, <2>3, <2>4 DEF Merges
<1>24. QED  BY <1>12, <1>22, <1>23

\* x is what becomes of m when the top block of order o has been split.
Splits(m, o, x) ==
    LET p == m.head[o]
        b == BuddyOf(p, o - 1)
    IN  /\ Aligned(p, o) /\ p \in Of(m, o) /\ x.head[o - 1] = b /\ Of(x, o) = Of(m, o) \ {p}
        /\ Of(x, o - 1) = Of(m, o - 1) \cup {p, b}
        /\ \A j \in Orders \ {o, o - 1} : Of(x, j) = Of(m, j)

\* SplitTop keeps memory sound: it makes two free blocks of one.
LEMMA SplitTopSound ==
    ASSUME NEW m, NEW hs, NEW A, Sound(m, hs, A), NEW o \in MinOrder + 1 .. MaxOrder, m.head[o] # Nil
    PROVE  /\ Sound(SplitTop(m, o), hs, A) /\ SplitTop(m, o).head[o - 1] # Nil
           /\ Splits(m, o, SplitTop(m, o))
<1> DEFINE H == DOMAIN hs
           k == o - 1
           p == m.head[o]
           popped == [m EXCEPT !.head[o] = m.next[p], !.order[p] = k]
           b == buddy(popped, p)
           m1 == Popped(m, o)
           m2 == WithOrder(m1, p, k)
           m3 == Push(m2, p, k)
           m4 == WithOrder(m3, b, k)
           m5 == Push(m4, b, k)
<1>1. Lists(m) /\ m \in Mem /\ FreeOf(m) \cap H = {} /\ H \subseteq Page
      /\ Tiles(FreeOf(m) \cup H, m.order, A) /\ \A q \in H : m.order[q] = hs[q]
  BY DEF Sound, Lists
<1>2. /\ m = [isFree |-> m.isFree, order |-> m.order, next |-> m.next, head |-> m.head]
      /\ m.isFree \in [Page -> BOOLEAN] /\ m.order \in [Page -> MinOrder .. MaxOrder]
      /\ m.next \in [Page -> Page \cup {Nil}] /\ m.head \in [Order -> Page \cup {Nil}]
  BY <1>1 DEF Mem
<1>3. /\ k \in Orders /\ o \in Orders /\ k \in MinOrder .. MaxOrder - 1 /\ k + 1 = o /\ k # o
      /\ k \in Order /\ o \in Order
  BY KAllocAssumption DEF Orders, Order
<1> HIDE DEF k
<1>4. p \in FreeOf(m) /\ m.order[p] = o /\ Lists(m1) /\ FreeOf(m1) = FreeOf(m) \ {p} /\ m1.order = m.order
  BY <1>1, <1>3, Pops DEF Removed
<1>5. p \in Page
  BY <1>4 DEF FreeOf
<1>6. /\ popped = [isFree |-> m.isFree, order |-> [m.order EXCEPT ![p] = k], next |-> m.next,
                   head |-> [m.head EXCEPT ![o] = m.next[p]]]
      /\ popped \in Mem
  <2> HIDE DEF p
  <2>1. popped = [isFree |-> m.isFree, order |-> [m.order EXCEPT ![p] = k], next |-> m.next,
                  head |-> [m.head EXCEPT ![o] = m.next[p]]]
    <3> DEFINE h == [m.head EXCEPT ![o] = m.next[p]]
               d == [m.order EXCEPT ![p] = k]
               u == [m EXCEPT !.head = h]
    <3>1. popped = [u EXCEPT !.order = d]
      BY <1>2
    <3> HIDE DEF h, d
    <3>2. u = [isFree |-> m.isFree, order |-> m.order, next |-> m.next, head |-> h]
      BY <1>2
    <3> HIDE DEF u, popped
    <3>3. popped = [isFree |-> m.isFree, order |-> d, next |-> m.next, head |-> h]
      BY <3>1, <3>2
    <3>4. QED  BY <3>3 DEF d, h
  <2>2. [m.order EXCEPT ![p] = k] \in [Page -> MinOrder .. MaxOrder]
    BY <1>2, <1>3 DEF Orders
  <2>3. [m.head EXCEPT ![o] = m.next[p]] \in [Order -> Page \cup {Nil}]
    BY <1>2, <1>5
  <2> HIDE DEF popped
  <2>4. QED  BY <1>2, <2>1, <2>2, <2>3 DEF Mem
<1>7. b = BuddyOf(p, k)
  <2> HIDE DEF p, popped
  <2>1. popped.order[p] = k
    BY <1>2, <1>5, <1>6
  <2>2. QED  BY <1>5, <1>6, <2>1, BuddyOfPage
<1>8. SplitTop(m, o) = m5
  <2>1. SplitTop(m, o) = Push(WithOrder(Push(popped, p, k), b, k), b, k)
    BY DEF SplitTop, WithOrder, k
  <2>2. Push(popped, p, k) = m3
    <3> HIDE DEF p
    <3>1. m1 = Unlinked(m, p, [m.head EXCEPT ![o] = m.next[p]], m.next)
      <4>1. m1 = [m EXCEPT !.head[o] = m.next[p], !.next[p] = Nil, !.isFree[p] = FALSE]
        BY DEF Popped, p
      <4>2. QED  BY <1>2, <4>1 DEF Unlinked
    <3> DEFINE h == [m.head EXCEPT ![o] = m.next[p]]
               y == [m.next EXCEPT ![p] = Nil]
               f == [m.isFree EXCEPT ![p] = FALSE]
               d == [m.order EXCEPT ![p] = k]
    <3>2. m1 = [isFree |-> f, order |-> m.order, next |-> y, head |-> h]
      BY <3>1 DEF Unlinked
    <3> HIDE DEF m1, h, y, f
    <3>3. m2 = [isFree |-> f, order |-> d, next |-> y, head |-> h]
      BY <3>2 DEF WithOrder
    <3> HIDE DEF m2, d, popped
    <3>4. m3 = PushedParts(m2, p, k)
      BY <3>3, PushIs
    <3>5. popped = [isFree |-> m.isFree, order |-> d, next |-> m.next, head |-> h]
      BY <1>6 DEF d, h
    <3>6. Push(popped, p, k) = PushedParts(popped, p, k)
      BY <3>5, PushIs
    <3>7. PushedParts(m2, p, k) = [isFree |-> [f EXCEPT ![p] = TRUE], order |-> d,
                                   next |-> [y EXCEPT ![p] = h[k]], head |-> [h EXCEPT ![k] = p]]
      BY <3>3 DEF PushedParts
    <3>8. PushedParts(popped, p, k) = [isFree |-> [m.isFree EXCEPT ![p] = TRUE], order |-> d,
                                   next |-> [m.next EXCEPT ![p] = h[k]], head |-> [h EXCEPT ![k] = p]]
      BY <3>5 DEF PushedParts
    <3>9. [f EXCEPT ![p] = TRUE] = [m.isFree EXCEPT ![p] = TRUE]
      BY <1>2 DEF f
    <3>10. [y EXCEPT ![p] = h[k]] = [m.next EXCEPT ![p] = h[k]]
      BY <1>2 DEF y
    <3> HIDE DEF m3
    <3>11. QED  BY <3>4, <3>6, <3>7, <3>8, <3>9, <3>10
  <2> HIDE DEF popped, b, m3, p
  <2>3. QED  BY <2>1, <2>2
<1> HIDE DEF p, popped, m1, b
<1>9. Halves(p, b, k) /\ b \in Page
  <2>1. Aligned(p, o)
    BY <1>1, <1>4 DEF Tiles
  <2>2. Halves(p, BuddyOf(p, k), k)
    BY <1>5, <2>1, SplitHalves DEF k
  <2>3. QED  BY <1>7, <2>2 DEF Halves
<1> DEFINE L == FreeOf(m) \cup H
           ord == m.order
           new == [[m.order EXCEPT ![p] = k] EXCEPT ![b] = k]
           M == L \cup {b}
<1>10. b \notin L /\ Tiles(M, new, A)
  <2>1. /\ Tiles(L, ord, A) /\ p \in L /\ ord[p] = k + 1 /\ new[p] = k /\ new[b] = k
        /\ \A q \in L \ {p, b} : new[q] = ord[q]
    <3>1. L \subseteq Page
      BY <1>1 DEF Tiles
    <3>2. QED  BY <1>1, <1>2, <1>3, <1>4, <1>5, <1>9, <3>1
  <2> HIDE DEF L, ord, new
  <2>2. QED  BY <1>3, <1>9, <2>1, Cut
<1>11. Reordered(m1, p, k, m2)
  BY <1>3, <1>4, <1>5, Reorders
<1> HIDE DEF m2
<1>12. Lists(m2) /\ FreeOf(m2) = FreeOf(m) \ {p} /\ m2.order = [m.order EXCEPT ![p] = k] /\ m2.order[p] = k
  BY <1>2, <1>4, <1>5, <1>11 DEF Reordered
<1>13. Pushed(m2, p, k, m3)
  BY <1>3, <1>5, <1>12, PushList
<1> HIDE DEF m3
<1>14. Lists(m3) /\ FreeOf(m3) = FreeOf(m) /\ m3.order = [m.order EXCEPT ![p] = k]
  BY <1>4, <1>12, <1>13 DEF Pushed
<1>15. Reordered(m3, b, k, m4)
  BY <1>3, <1>9, <1>10, <1>14, Reorders
<1> HIDE DEF m4
<1>16. Lists(m4) /\ FreeOf(m4) = FreeOf(m) /\ m4.order = new /\ m4.order[b] = k
  BY <1>2, <1>9, <1>14, <1>15 DEF Reordered
<1> HIDE DEF new
<1>17. Pushed(m4, b, k, m5)
  BY <1>3, <1>9, <1>10, <1>16, PushList
<1> HIDE DEF m5
<1>18. Lists(m5) /\ FreeOf(m5) = FreeOf(m) \cup {b} /\ m5.order = new /\ m5.head[k] = b
  BY <1>16, <1>17 DEF Pushed
<1>19. FreeOf(m5) \cup H = M /\ FreeOf(m5) \cap H = {}
  BY <1>1, <1>10, <1>18
<1>20. /\ new[p] = k /\ new[b] = k /\ \A q \in Page \ {p, b} : new[q] = m.order[q]
  BY <1>2, <1>5, <1>9 DEF new
<1>21. \A q \in H : m5.order[q] = hs[q]
  BY <1>1, <1>4, <1>10, <1>18, <1>20
<1> HIDE DEF M
<1>22. Sound(m5, hs, A)
  <2> HIDE DEF L
  <2> QED  BY <1>1, <1>10, <1>18, <1>19, <1>21 DEF Sound
<1>23. m5.head[o - 1] # Nil
  BY <1>9, <1>18, PagesNat DEF k
<1>24. /\ p \in Of(m, o) /\ m5.head[k] = b /\ Of(m5, o) = Of(m, o) \ {p}
       /\ Of(m5, k) = Of(m, k) \cup {p, b}
       /\ \A j \in Orders \ {o, k} : Of(m5, j) = Of(m, j)
  <2>1. p \in Of(m, o) /\ m5.head[k] = b
    BY <1>4, <1>18 DEF Of
  <2>2. b \notin FreeOf(m) /\ \A q \in FreeOf(m) \ {p} : m5.order[q] = m.order[q]
    BY <1>10, <1>18, <1>20 DEF FreeOf
  <2>3. m5.order[p] = k /\ m5.order[b] = k
    BY <1>18, <1>20
  <2>4. Of(m5, o) = Of(m, o) \ {p}
    BY <1>3, <1>18, <2>2, <2>3 DEF Of
  <2>5. Of(m5, k) = Of(m, k) \cup {p, b}
    BY <1>4, <1>18, <2>2, <2>3 DEF Of
  <2>6. ASSUME NEW j \in Orders \ {o, k} PROVE Of(m5, j) = Of(m, j)
    BY <1>4, <1>18, <2>2, <2>3, <2>6 DEF Of
  <2>7. QED  BY <2>1, <2>4, <2>5, <2>6
<1>25. Aligned(p, o)
  BY <1>1, <1>4 DEF Tiles
<1>26. Splits(m, o, m5)
  BY <1>7, <1>24, <1>25 DEF Splits, p, k
<1>27. QED  BY <1>8, <1>22, <1>23, <1>26

-----------------------------------------------------------------------------
(***************************************************************************)
(* The loops of coalesce, split and init_kalloc.                           *)
(***************************************************************************)
\* The sound states of the memory.
SoundMems(hs, A) == {x \in Mem : Sound(x, hs, A)}

\* No free block of order k could be merged with its buddy.
NoPair(m, k) == \A p \in Of(m, k) : BuddyOf(p, k) \notin Of(m, k)

\* The same of every order, and of every order but k.
Merged(m) == \A j \in MinOrder .. MaxOrder - 1 : NoPair(m, j)

MergedBut(m, k) == \A j \in (MinOrder .. MaxOrder - 1) \ {k} : NoPair(m, j)

\* A round of coalesce keeps memory sound; it merges two blocks if it can.
LEMMA RoundSound ==
    ASSUME NEW m, NEW hs, NEW A, Sound(m, hs, A), NEW o \in MinOrder .. MaxOrder - 1
    PROVE  /\ Sound(Round(m, o), hs, A)
           /\ (NoPair(m, o) /\ Round(m, o) = m) \/ Merges(m, o, Round(m, o))
<1> DEFINE e == ListEntry(m, o)
           found == {k \in 0 .. NPages : e[k] # Nil /\ Mergeable(m, o, e[k])}
           k == Min(found)
<1>0. List(m, o)
  <2>1. o \in Order
    BY KAllocAssumption DEF Order
  <2>2. QED  BY <2>1 DEF Sound, Lists
<1>1. CASE found = {}
  <2>1. Round(m, o) = m
    BY <1>1 DEF Round
  <2>2. ASSUME NEW p \in Of(m, o), BuddyOf(p, o) \in Of(m, o) PROVE FALSE
    <3>1. p \in FreeOf(m) /\ m.order[p] = o /\ p \in Page /\ m \in Mem
      BY DEF Of, FreeOf, Sound, Lists
    <3>2. buddy(m, p) = BuddyOf(p, o)
      BY <3>1, BuddyOfPage
    <3>3. Mergeable(m, o, p)
      BY <2>2, <3>2 DEF Mergeable, Of, FreeOf
    <3>4. p \in OnList(m, o)
      BY <1>0, <3>1, Visits
    <3>5. PICK i \in 0 .. NPages : e[i] = p
      BY <3>4 DEF OnList
    <3>6. e[i] # Nil
      BY <3>1, <3>5, PagesNat
    <3> HIDE DEF e
    <3>7. i \in found
      BY <3>3, <3>5, <3>6
    <3>8. QED  BY <1>1, <3>7
  <2>3. QED  BY <2>1, <2>2 DEF NoPair
<1>2. CASE found # {}
  <2>1. k \in found
    <3>1. found \subseteq Nat
      OBVIOUS
    <3> HIDE DEF found
    <3>2. QED  BY <1>2, <3>1, Least
  <2>2. Round(m, o) = Merge(m, e[k], o)
    BY <1>2 DEF Round
  <2>3. e[k] \in OnList(m, o) /\ Mergeable(m, o, e[k])
    <3> HIDE DEF k
    <3>1. QED  BY <2>1 DEF OnList
  <2>5. e[k] \in FreeOf(m) /\ m.order[e[k]] = o
    <3> DEFINE p == e[k]
    <3>1. p \in OnList(m, o)
      BY <2>3
    <3> HIDE DEF p
    <3>2. p \in FreeOf(m) /\ m.order[p] = o
      BY <1>0, <3>1, Visits
    <3>3. QED  BY <3>2 DEF p
  <2> HIDE DEF e, k
  <2>6. Sound(Merge(m, e[k], o), hs, A) /\ Merges(m, o, Merge(m, e[k], o))
    BY <2>3, <2>5, MergeSound
  <2>7. QED  BY <2>2, <2>6
<1>3. QED  BY <1>1, <1>2

\* x is what i rounds at order o have made of m: none are left to be merged, or
\* each has merged two.
Rounds(m, o, i, x) ==
    /\ \A j \in Orders \ {o, o + 1} : Of(x, j) = Of(m, j)
    /\ NoPair(x, o) \/ Cardinality(Of(x, o)) <= NPages - i

\* The free blocks of an order are at most the pages.
LEMMA OfFinite ==
    ASSUME NEW m, NEW o
    PROVE  IsFiniteSet(Of(m, o)) /\ Cardinality(Of(m, o)) \in Nat /\ Cardinality(Of(m, o)) <= NPages
<1>1. IsFiniteSet(Page) /\ Cardinality(Page) = NPages
  <2>1. NPages \in Nat \ {0}
    BY PagesNat
  <2>2. 0 - 1 < NPages /\ NPages - 1 - 0 + 1 = NPages
    BY <2>1
  <2>3. QED  BY <2>1, <2>2, FS_Interval DEF Page
<1>2. Of(m, o) \subseteq Page
  BY DEF Of, FreeOf
<1>3. QED  BY <1>1, <1>2, FS_Subset, FS_CardinalityType

\* One round more.
LEMMA RoundsOn ==
    ASSUME NEW m, NEW o \in MinOrder .. MaxOrder - 1, NEW i \in 1 .. NPages, NEW x, NEW y,
           Rounds(m, o, i - 1, x), (NoPair(x, o) /\ y = x) \/ Merges(x, o, y)
    PROVE  Rounds(m, o, i, y)
<1>1. CASE NoPair(x, o) /\ y = x
  BY <1>1 DEF Rounds
<1>2. CASE Merges(x, o, y)
  <2>1. PICK l, h \in Of(x, o) : l # h /\ Of(y, o) = Of(x, o) \ {l, h}
    BY <1>2 DEF Merges
  <2>2. \A j \in Orders \ {o, o + 1} : Of(y, j) = Of(m, j)
    BY <1>2 DEF Merges, Rounds
  <2>3. CASE NoPair(x, o)
    <3>1. NoPair(y, o)
      BY <2>1, <2>3 DEF NoPair
    <3>2. QED  BY <2>2, <3>1 DEF Rounds
  <2>4. CASE ~NoPair(x, o)
    <3> DEFINE S == Of(x, o)
               T == Of(y, o)
    <3>1. IsFiniteSet(S) /\ Cardinality(S) \in Nat /\ Cardinality(T) \in Nat
      BY OfFinite
    <3>2. Cardinality(S) <= NPages - (i - 1)
      BY <2>4 DEF Rounds
    <3>3. T \subseteq S \ {l}
      BY <2>1
    <3> HIDE DEF S, T
    <3>4. IsFiniteSet(S \ {l}) /\ Cardinality(S \ {l}) = Cardinality(S) - 1
      BY <2>1, <3>1, FS_RemoveElement DEF S
    <3>5. Cardinality(T) <= Cardinality(S \ {l})
      BY <3>3, <3>4, FS_Subset
    <3>6. Cardinality(T) <= NPages - i
      BY <3>1, <3>2, <3>4, <3>5, PagesNat
    <3>7. QED  BY <2>2, <3>6 DEF Rounds, T
  <2>5. QED  BY <2>3, <2>4
<1>3. QED  BY <1>1, <1>2

\* x is what the rounds at order o have made of m.
Levelled(m, o, x) ==
    NoPair(x, o) /\ \A j \in Orders \ {o, o + 1} : Of(x, j) = Of(m, j)

\* The rounds at one order keep memory sound, and leave no pair of that order.
LEMMA CoalesceLevelSound ==
    ASSUME NEW m, NEW hs, NEW A, Sound(m, hs, A), NEW o \in MinOrder .. MaxOrder - 1
    PROVE  Sound(CoalesceLevel(m, o), hs, A) /\ Levelled(m, o, CoalesceLevel(m, o))
<1> DEFINE X == SoundMems(hs, A)
           st == [ss \in (1 .. NPages) \X X |-> Round(ss[2], o)]
           is(f) == f = [i \in 0 .. NPages |-> IF i = 0 THEN m ELSE Round(f[i - 1], o)]
           f0 == CHOOSE f : is(f)
<1>1. NPages \in Nat
  BY PagesNat
<1>2. \A x : x \in X <=> Sound(x, hs, A)
  BY DEF SoundMems, Sound, Lists
<1>3. \A x \in X : Round(x, o) \in X
  <2> HIDE DEF X
  <2> QED  BY <1>2, RoundSound
<1>4. m \in X
  BY <1>2
<1> HIDE DEF X
<1>5. st \in [(1 .. NPages) \X X -> X] /\ \A i \in 1 .. NPages, x \in X : st[<<i, x>>] = Round(x, o)
  BY <1>3
<1> HIDE DEF st
<1>6. PICK g \in [0 .. NPages -> X] : Repeats(g, NPages, m, st)
  BY <1>1, <1>4, <1>5, Recursion
<1>7. is(g)
  <2>1. ASSUME NEW i \in 0 .. NPages PROVE g[i] = IF i = 0 THEN m ELSE Round(g[i - 1], o)
    <3>1. CASE i = 0
      BY <1>6, <3>1 DEF Repeats
    <3>2. CASE i # 0
      <4>1. i \in 1 .. NPages /\ i - 1 \in 0 .. NPages
        BY <1>1, <3>2
      <4>2. g[i - 1] \in X /\ g[i] = st[<<i, g[i - 1]>>]
        BY <1>6, <4>1 DEF Repeats
      <4>3. QED  BY <1>5, <3>2, <4>1, <4>2
    <3>3. QED  BY <3>1, <3>2
  <2>2. g = [i \in 0 .. NPages |-> g[i]]
    BY <1>6
  <2>3. QED  BY <2>1, <2>2
<1>8. is(f0)
  <2> HIDE DEF is
  <2> QED  BY <1>7
<1> HIDE DEF f0
<1>9. \A i \in 0 .. NPages : f0[i] = IF i = 0 THEN m ELSE Round(f0[i - 1], o)
  BY <1>8
<1> DEFINE Good == {i \in 0 .. NPages : f0[i] \in X /\ Rounds(m, o, i, f0[i])}
<1>10. 0 \in Good
  <2>1. 0 \in 0 .. NPages /\ f0[0] = m
    BY <1>1, <1>9
  <2>2. Rounds(m, o, 0, m)
    BY <1>1, OfFinite DEF Rounds
  <2>3. QED  BY <1>4, <2>1, <2>2
<1>11. ASSUME NEW i \in 1 .. NPages, i - 1 \in Good PROVE i \in Good
  <2>1. i \in 0 .. NPages /\ i # 0 /\ f0[i - 1] \in X /\ Rounds(m, o, i - 1, f0[i - 1])
    BY <1>11
  <2>2. f0[i] = Round(f0[i - 1], o)
    BY <1>9, <2>1
  <2> DEFINE x == f0[i - 1]
             y == f0[i]
  <2>3. Sound(x, hs, A) /\ y = Round(x, o) /\ Rounds(m, o, i - 1, x)
    BY <1>2, <2>1, <2>2
  <2> HIDE DEF x, y
  <2>4. (NoPair(x, o) /\ y = x) \/ Merges(x, o, y)
    BY <2>3, RoundSound
  <2>5. Rounds(m, o, i, y)
    BY <2>3, <2>4, RoundsOn
  <2>6. y \in X
    BY <1>3, <2>1, <2>2 DEF x, y
  <2>7. QED  BY <2>1, <2>5, <2>6 DEF y
<1> HIDE DEF Good
<1>12. 0 .. NPages \subseteq Good
  BY <1>1, <1>10, <1>11, UpTo
<1>13. f0[NPages] \in X /\ Rounds(m, o, NPages, f0[NPages])
  BY <1>1, <1>12 DEF Good
<1>14. CoalesceLevel(m, o) = f0[NPages]
  BY DEF CoalesceLevel, f0
<1> DEFINE y == f0[NPages]
<1> HIDE DEF y
<1>15. NoPair(y, o)
  <2>1. SUFFICES ASSUME Cardinality(Of(y, o)) <= NPages - NPages PROVE NoPair(y, o)
    BY <1>13 DEF Rounds, y
  <2> DEFINE S == Of(y, o)
  <2>2. IsFiniteSet(S) /\ Cardinality(S) \in Nat
    BY OfFinite
  <2>3. Cardinality(S) = 0
    BY <1>1, <2>1, <2>2
  <2> HIDE DEF S
  <2>4. S = {}
    BY <2>2, <2>3, FS_EmptySet
  <2>5. QED  BY <2>4 DEF NoPair, S
<1>16. Levelled(m, o, y)
  BY <1>13, <1>15 DEF Levelled, Rounds, y
<1>17. QED  BY <1>2, <1>13, <1>14, <1>16 DEF y

\* A level of coalesce: what it was given and what it makes of it.
LevelDone(o, c) ==
    /\ c.coalesced => MergedBut(c.m, o)
    /\ ~c.coalesced => Merged(c.m)

\* One level more.
LEMMA LevelOn ==
    ASSUME NEW o \in MinOrder .. MaxOrder - 1, NEW x, NEW y, NEW c,
           LevelDone(o, [m |-> x, coalesced |-> TRUE]), Levelled(x, o, y),
           c = [m |-> y, coalesced |-> y # x]
    PROVE  LevelDone(o + 1, c)
<1>1. MergedBut(x, o) /\ NoPair(y, o) /\ \A j \in Orders \ {o, o + 1} : Of(y, j) = Of(x, j)
  BY DEF LevelDone, Levelled
<1>2. \A j \in (MinOrder .. MaxOrder - 1) \ {o, o + 1} : NoPair(y, j)
  <2>1. TAKE j \in (MinOrder .. MaxOrder - 1) \ {o, o + 1}
  <2>2. j \in Orders
    BY KAllocAssumption DEF Orders
  <2>3. NoPair(x, j) /\ Of(y, j) = Of(x, j)
    BY <1>1, <2>2 DEF MergedBut
  <2>4. QED  BY <2>3 DEF NoPair
<1>3. c.m = y /\ c.coalesced = (y # x)
  OBVIOUS
<1>4. MergedBut(y, o + 1)
  BY <1>1, <1>2 DEF MergedBut
<1>5. y = x => Merged(y)
  <2>1. SUFFICES ASSUME y = x PROVE Merged(y)
    OBVIOUS
  <2>2. \A j \in (MinOrder .. MaxOrder - 1) \ {o} : NoPair(y, j)
    BY <1>1, <2>1 DEF MergedBut
  <2>3. QED  BY <1>1, <2>2 DEF Merged
<1>6. QED  BY <1>3, <1>4, <1>5 DEF LevelDone

\* coalesce keeps memory sound, and merges what can be merged.
LEMMA CoalesceSound ==
    ASSUME NEW m, NEW hs, NEW A, Sound(m, hs, A), NEW o \in Orders, MergedBut(m, o)
    PROVE  Sound(coalesce(m, o), hs, A) /\ Merged(coalesce(m, o))
<1> DEFINE n == MaxOrder - o
           X == [m : SoundMems(hs, A), coalesced : BOOLEAN]
           base == [m |-> m, coalesced |-> TRUE]
           st == [ss \in (1 .. n) \X X |-> Level(ss[2], o + ss[1] - 1)]
           is(f) == f = [i \in 0 .. (MaxOrder - o) |-> IF i = 0 THEN base ELSE Level(f[i - 1], o + i - 1)]
           f0 == CHOOSE f : is(f)
<1>1. n \in Nat /\ \A i \in 1 .. n : o + i - 1 \in MinOrder .. MaxOrder - 1
  BY KAllocAssumption DEF Orders
<1>2. \A x : x \in SoundMems(hs, A) <=> Sound(x, hs, A)
  BY DEF SoundMems, Sound, Lists
<1>3. base \in X
  BY <1>2
<1>30. LevelDone(o, base)
  BY DEF LevelDone
<1>4. \A i \in 1 .. n, c \in X : Level(c, o + i - 1) \in X
  <2>1. TAKE i \in 1 .. n, c \in X
  <2> DEFINE k == o + i - 1
             y == CoalesceLevel(c.m, k)
  <2>2. c.m \in SoundMems(hs, A) /\ k \in MinOrder .. MaxOrder - 1
    BY <1>1
  <2> HIDE DEF k
  <2>3. y \in SoundMems(hs, A)
    BY <1>2, <2>2, CoalesceLevelSound
  <2> HIDE DEF y
  <2>4. Level(c, k) = IF c.coalesced THEN [m |-> y, coalesced |-> y # c.m] ELSE c
    BY DEF Level, y
  <2>5. Level(c, k) \in X
    BY <2>3, <2>4
  <2>6. QED  BY <2>5 DEF k
<1> HIDE DEF X, base, n
<1>5. st \in [(1 .. n) \X X -> X] /\ \A i \in 1 .. n, x \in X : st[<<i, x>>] = Level(x, o + i - 1)
  BY <1>4
<1> HIDE DEF st
<1>6. PICK g \in [0 .. n -> X] : Repeats(g, n, base, st)
  BY <1>1, <1>3, <1>5, Recursion
<1>7. is(g)
  <2>1. ASSUME NEW i \in 0 .. n PROVE g[i] = IF i = 0 THEN base ELSE Level(g[i - 1], o + i - 1)
    <3>1. CASE i = 0
      BY <1>6, <3>1 DEF Repeats
    <3>2. CASE i # 0
      <4>1. i \in 1 .. n /\ i - 1 \in 0 .. n
        BY <1>1, <3>2
      <4>2. g[i - 1] \in X /\ g[i] = st[<<i, g[i - 1]>>]
        BY <1>6, <4>1 DEF Repeats
      <4>3. st[<<i, g[i - 1]>>] = Level(g[i - 1], o + i - 1)
        BY <1>5, <4>1, <4>2
      <4>4. QED  BY <3>2, <4>2, <4>3
    <3>3. QED  BY <3>1, <3>2
  <2>2. g = [i \in 0 .. n |-> g[i]]
    BY <1>6
  <2>3. QED  BY <2>1, <2>2 DEF n
<1>8. is(f0)
  <2> HIDE DEF is
  <2> QED  BY <1>7
<1> HIDE DEF f0
<1>9. \A i \in 0 .. n : f0[i] = IF i = 0 THEN base ELSE Level(f0[i - 1], o + i - 1)
  BY <1>8 DEF n
<1> DEFINE Good == {i \in 0 .. n : f0[i] \in X /\ LevelDone(o + i, f0[i])}
<1>10. 0 \in Good
  <2>1. 0 \in 0 .. n /\ f0[0] = base /\ o + 0 = o
    BY <1>1, <1>9 DEF Orders
  <2>2. QED  BY <1>3, <1>30, <2>1
<1>11. ASSUME NEW i \in 1 .. n, i - 1 \in Good PROVE i \in Good
  <2>1. i \in 0 .. n /\ i # 0 /\ f0[i - 1] \in X /\ LevelDone(o + (i - 1), f0[i - 1])
    BY <1>11
  <2>2. f0[i] = Level(f0[i - 1], o + i - 1)
    BY <1>9, <2>1
  <2>3. f0[i] \in X
    BY <1>4, <2>1, <2>2
  <2> DEFINE c == f0[i - 1]
             k == o + i - 1
             y == CoalesceLevel(c.m, k)
  <2>4. k \in MinOrder .. MaxOrder - 1 /\ o + (i - 1) = k /\ k + 1 = o + i
    BY <1>1 DEF Orders
  <2>5. c \in X /\ LevelDone(k, c) /\ f0[i] = Level(c, k)
    BY <2>1, <2>2, <2>4
  <2> HIDE DEF c, k
  <2>6. /\ c.m \in SoundMems(hs, A) /\ c.coalesced \in BOOLEAN
        /\ c = [m |-> c.m, coalesced |-> c.coalesced]
    BY <2>5 DEF X
  <2>7. Levelled(c.m, k, y)
    BY <1>2, <2>4, <2>6, CoalesceLevelSound
  <2> HIDE DEF y
  <2>8. f0[i] = IF c.coalesced THEN [m |-> y, coalesced |-> y # c.m] ELSE c
    BY <2>5 DEF Level, y
  <2>9. CASE c.coalesced
    <3>1. f0[i] = [m |-> y, coalesced |-> y # c.m]
      BY <2>8, <2>9
    <3>2. LevelDone(k, [m |-> c.m, coalesced |-> TRUE])
      BY <2>5, <2>6, <2>9
    <3> DEFINE x == c.m
               z == f0[i]
    <3> HIDE DEF x, z
    <3>3. LevelDone(k + 1, z)
      BY <2>4, <2>7, <3>1, <3>2, LevelOn DEF x, z
    <3>4. QED  BY <2>1, <2>3, <2>4, <3>3 DEF z
  <2>10. CASE ~c.coalesced
    <3>1. f0[i] = c /\ Merged(c.m)
      BY <2>5, <2>8, <2>10 DEF LevelDone
    <3>2. LevelDone(k + 1, c)
      BY <2>10, <3>1 DEF LevelDone
    <3>3. QED  BY <2>1, <2>3, <2>4, <3>1, <3>2
  <2>11. QED  BY <2>9, <2>10
<1> HIDE DEF Good
<1>12. 0 .. n \subseteq Good
  BY <1>1, <1>10, <1>11, UpTo
<1>13. f0[n] \in X /\ LevelDone(MaxOrder, f0[n])
  <2>1. o + n = MaxOrder /\ n \in 0 .. n
    BY <1>1, KAllocAssumption DEF n, Orders
  <2>2. f0[n] \in X /\ LevelDone(o + n, f0[n])
    BY <1>12, <2>1 DEF Good
  <2>3. QED  BY <2>1, <2>2
<1>14. coalesce(m, o) = f0[n].m
  BY DEF coalesce, f0, base, n
<1> DEFINE c == f0[n]
<1> HIDE DEF c
<1>15. c.m \in SoundMems(hs, A) /\ c.coalesced \in BOOLEAN
  BY <1>13 DEF X, c
<1>16. MergedBut(c.m, MaxOrder) => Merged(c.m)
  <2>1. MaxOrder \notin MinOrder .. MaxOrder - 1
    BY KAllocAssumption
  <2>2. QED  BY <2>1 DEF MergedBut, Merged
<1>17. Merged(c.m)
  BY <1>13, <1>15, <1>16 DEF LevelDone, c
<1>18. QED  BY <1>2, <1>14, <1>15, <1>17 DEF c

\* When the top block of order k has gone, nothing is left to be merged.
Poppable(x, k) ==
    /\ MergedBut(x, k)
    /\ k \in MinOrder .. MaxOrder - 1 =>
          \A p \in Of(x, k) \ {x.head[k]} : BuddyOf(p, k) \notin Of(x, k) \ {x.head[k]}

\* Splitting has come down to order k; there was no free block from order low to
\* the order above which splitting began.
Down(x, k, low) ==
    /\ x.head[k] # Nil /\ Poppable(x, k)
    /\ \A j \in low .. k - 1 : Of(x, j) = {}

\* One level further down.
LEMMA DownOn ==
    ASSUME NEW x, NEW k \in MinOrder + 1 .. MaxOrder, NEW low \in MinOrder .. k - 1,
           Down(x, k, low), NEW y, Splits(x, k, y), y.head[k - 1] # Nil
    PROVE  Down(y, k - 1, low)
<1> DEFINE j == k - 1
           p == x.head[k]
           b == BuddyOf(p, j)
<1>1. MinOrder \in Nat /\ MaxOrder \in Nat
  BY KAllocAssumption
<1>2. j \in MinOrder .. MaxOrder - 1 /\ j \in Orders /\ k \in Orders /\ j # k /\ low \in Orders
  BY <1>1 DEF Orders
<1>3. /\ Aligned(p, k) /\ p \in Of(x, k) /\ y.head[j] = b /\ Of(y, k) = Of(x, k) \ {p}
      /\ Of(y, j) = Of(x, j) \cup {p, b} /\ \A i \in Orders \ {k, j} : Of(y, i) = Of(x, i)
  BY DEF Splits
<1>4. p # b
  <2>1. p \in Page
    BY <1>3 DEF Of, FreeOf
  <2>2. Halves(p, BuddyOf(p, k - 1), k - 1)
    BY <1>3, <2>1, SplitHalves
  <2> HIDE DEF p, j
  <2>3. Halves(p, b, j)
    BY <2>2 DEF j
  <2>4. QED  BY <1>2, <2>3, HalvesSpan
<1> HIDE DEF b, j
<1>5. Of(x, j) = {}
  <2>1. j \in low .. k - 1
    BY <1>1, <1>2 DEF j, Orders
  <2>2. QED  BY <2>1 DEF Down
<1>6. \A q \in Of(y, j) \ {y.head[j]} : BuddyOf(q, j) \notin Of(y, j) \ {y.head[j]}
  <2>1. Of(y, j) \ {y.head[j]} = {p}
    BY <1>3, <1>4, <1>5
  <2>2. BuddyOf(p, j) # p
    BY <1>4 DEF b
  <2> HIDE DEF p
  <2>3. QED  BY <2>1, <2>2
<1>7. MergedBut(y, j)
  <2> SUFFICES ASSUME NEW i \in (MinOrder .. MaxOrder - 1) \ {j} PROVE NoPair(y, i)
    BY DEF MergedBut
  <2>1. i \in Orders
    BY <1>1 DEF Orders
  <2>2. CASE i = k
    <3>1. k \in MinOrder .. MaxOrder - 1
      BY <2>2
    <3>2. \A q \in Of(x, k) \ {p} : BuddyOf(q, k) \notin Of(x, k) \ {p}
      BY <3>1 DEF Down, Poppable
    <3>3. QED  BY <1>3, <2>2, <3>2 DEF NoPair
  <2>3. CASE i # k
    <3>1. NoPair(x, i)
      BY <2>3 DEF Down, Poppable, MergedBut
    <3>2. Of(y, i) = Of(x, i)
      BY <1>3, <2>1, <2>3
    <3>3. QED  BY <3>1, <3>2 DEF NoPair
  <2>4. QED  BY <2>2, <2>3
<1>8. \A i \in low .. j - 1 : Of(y, i) = {}
  <2> SUFFICES ASSUME NEW i \in low .. j - 1 PROVE Of(y, i) = {}
    OBVIOUS
  <2>1. i \in Orders \ {k, j} /\ i \in low .. k - 1
    BY <1>1, <1>2 DEF j, Orders
  <2>2. Of(x, i) = {}
    BY <2>1 DEF Down
  <2>3. QED  BY <1>3, <2>1, <2>2
<1>9. y.head[j] # Nil
  BY DEF j
<1>10. Down(y, j, low)
  BY <1>6, <1>7, <1>8, <1>9 DEF Down, Poppable
<1>11. QED  BY <1>10 DEF j

\* Where nothing can be merged any block may be popped.
LEMMA MergedPops ==
    ASSUME NEW m, Merged(m), NEW k
    PROVE  Poppable(m, k) /\ MergedBut(m, k)
<1>1. MergedBut(m, k)
  BY DEF Merged, MergedBut
<1>2. ASSUME k \in MinOrder .. MaxOrder - 1
      PROVE  \A p \in Of(m, k) \ {m.head[k]} : BuddyOf(p, k) \notin Of(m, k) \ {m.head[k]}
  BY <1>2 DEF Merged, NoPair
<1>3. QED  BY <1>1, <1>2 DEF Poppable

\* A free list without a top has no block.
LEMMA NoTop ==
    ASSUME NEW m, Lists(m), NEW o \in Orders, m.head[o] = Nil
    PROVE  Of(m, o) = {}
<1>1. List(m, o)
  BY KAllocAssumption DEF Lists, Orders, Order
<1>2. PICK e \in [Nat -> Page \cup {Nil}], n \in Nat : ListIs(m, o, e, n)
  BY <1>1 DEF List
<1>3. e[0] = Nil
  BY <1>2 DEF ListIs, Links
<1>4. n = 0
  BY <1>2, <1>3 DEF ListIs, Distinctly
<1>5. \A p \in Page : ~(p \in FreeOf(m) /\ m.order[p] = o)
  BY <1>2, <1>4 DEF ListIs
<1>6. QED  BY <1>5 DEF Of, FreeOf

\* x is what split(low + 1) makes of m: a free block of order low, or there is
\* none of this order or above it.
Split(m, low, x) ==
    \/ x.head[low] # Nil /\ Poppable(x, low)
    \/ x = m /\ \A j \in low .. MaxOrder : Of(m, j) = {}

\* split keeps memory sound, and splits no more than it must.
LEMMA SplitSound ==
    ASSUME NEW m, NEW hs, NEW A, Sound(m, hs, A), Merged(m), NEW o \in MinOrder + 1 .. MaxOrder + 1,
           NEW low, low = o - 1, m.head[low] = Nil
    PROVE  Sound(split(m, o), hs, A) /\ Split(m, low, split(m, o))
<1> DEFINE full == {k \in o .. MaxOrder : m.head[k] # Nil}
           top == Min(full)
           n == top - o + 1
           X == SoundMems(hs, A)
           step(x, k) == IF x.head[k] = Nil THEN x ELSE SplitTop(x, k)
           st == [ss \in (1 .. n) \X X |-> step(ss[2], top - ss[1] + 1)]
           is(f) == f = [i \in 0 .. n |-> IF i = 0 THEN m ELSE SplitTop(f[i - 1], top - i + 1)]
           f0 == CHOOSE f : is(f)
<1>0. low \in Orders /\ \A k \in low .. MaxOrder : k \in Orders /\ (k = low \/ k \in o .. MaxOrder)
  BY KAllocAssumption DEF Orders
<1>1. CASE full = {}
  <2>1. split(m, o) = m
    BY <1>1 DEF split
  <2>2. ASSUME NEW k \in low .. MaxOrder PROVE Of(m, k) = {}
    <3>1. m.head[k] = Nil
      BY <1>0, <1>1
    <3>2. QED  BY <1>0, <3>1, NoTop DEF Sound
  <2>3. QED  BY <2>1, <2>2 DEF Split
<1>2. CASE full # {}
  <2>1. top \in o .. MaxOrder /\ m.head[top] # Nil /\ \A k \in full : top <= k
    <3>1. full \subseteq Nat
      BY KAllocAssumption
    <3> HIDE DEF full
    <3>2. top \in full /\ \A k \in full : top <= k
      BY <1>2, <3>1, Least
    <3> HIDE DEF top
    <3>3. top \in o .. MaxOrder /\ m.head[top] # Nil
      BY <3>2 DEF full
    <3>4. QED  BY <3>2, <3>3
  <2>2. split(m, o) = f0[n]
    BY <1>2 DEF split
  <2> HIDE DEF top
  <2>21. Down(m, top, low)
    <3> SUFFICES ASSUME NEW j \in low .. top - 1 PROVE Of(m, j) = {}
      BY <2>1, MergedPops DEF Down
    <3>1. j \in low .. MaxOrder /\ ~(top <= j)
      BY <2>1, KAllocAssumption
    <3>2. j \notin full
      BY <2>1, <3>1
    <3>3. m.head[j] = Nil
      BY <1>0, <3>1, <3>2
    <3>4. QED  BY <1>0, <3>1, <3>3, NoTop DEF Sound
  <2> HIDE DEF full
  <2>3. /\ n \in Nat /\ top \in Int
        /\ n = top - low
        /\ \A i \in 1 .. n : /\ low \in MinOrder .. top - i + 1 - 1
                             /\ top - i + 1 \in MinOrder + 1 .. MaxOrder
                             /\ top - (i - 1) = top - i + 1 /\ top - i + 1 - 1 = top - i
    BY <2>1, KAllocAssumption
  <2>4. \A x : x \in X <=> Sound(x, hs, A)
    BY DEF SoundMems, Sound, Lists
  <2>5. m \in X
    BY <2>4
  <2> HIDE DEF X, n
  <2>6. \A i \in 1 .. n, x \in X :
            x.head[top - (i - 1)] # Nil =>
               /\ SplitTop(x, top - i + 1) \in X
               /\ Down(x, top - (i - 1), low) => Down(SplitTop(x, top - i + 1), top - i, low)
    <3>1. TAKE i \in 1 .. n, x \in X
    <3> DEFINE k == top - i + 1
    <3>2. /\ k \in MinOrder + 1 .. MaxOrder /\ top - (i - 1) = k /\ k - 1 = top - i
          /\ low \in MinOrder .. k - 1
      BY <2>3
    <3> HIDE DEF k
    <3>3. ASSUME x.head[k] # Nil
          PROVE  /\ Sound(SplitTop(x, k), hs, A) /\ SplitTop(x, k).head[k - 1] # Nil
                 /\ Splits(x, k, SplitTop(x, k))
      BY <2>4, <3>2, <3>3, SplitTopSound
    <3> DEFINE y == SplitTop(x, k)
    <3> HIDE DEF y
    <3>4. ASSUME x.head[k] # Nil, Down(x, k, low) PROVE Down(y, k - 1, low)
      <4>1. Splits(x, k, y) /\ y.head[k - 1] # Nil
        BY <3>3, <3>4 DEF y
      <4>2. QED  BY <3>2, <3>4, <4>1, DownOn
    <3>5. QED  BY <2>4, <3>2, <3>3, <3>4 DEF k, y
  <2>7. \A i \in 1 .. n, x \in X : step(x, top - i + 1) \in X
    <3>1. TAKE i \in 1 .. n, x \in X
    <3>2. top - (i - 1) = top - i + 1
      BY <2>3
    <3>3. QED  BY <2>6, <3>2
  <2> HIDE DEF step
  <2>8. st \in [(1 .. n) \X X -> X] /\ \A i \in 1 .. n, x \in X : st[<<i, x>>] = step(x, top - i + 1)
    BY <2>7
  <2> HIDE DEF st
  <2>9. PICK g \in [0 .. n -> X] : Repeats(g, n, m, st)
    BY <2>3, <2>5, <2>8, Recursion
  <2> DEFINE Fine(f) == {i \in 0 .. n : f[i] \in X /\ Down(f[i], top - i, low)}
  <2>10. top - 0 = top
    BY <2>3
  <2>11. 0 .. n \subseteq Fine(g)
    <3>1. 0 \in Fine(g)
      BY <2>3, <2>5, <2>9, <2>10, <2>21 DEF Repeats
    <3>2. ASSUME NEW i \in 1 .. n, i - 1 \in Fine(g) PROVE i \in Fine(g)
      <4>1. i \in 0 .. n /\ g[i - 1] \in X /\ Down(g[i - 1], top - (i - 1), low)
        BY <3>2
      <4>2. g[i] = step(g[i - 1], top - i + 1)
        BY <2>8, <2>9, <4>1 DEF Repeats
      <4>3. g[i] = SplitTop(g[i - 1], top - i + 1)
        BY <2>3, <4>1, <4>2 DEF step, Down
      <4>4. g[i] \in X /\ Down(g[i], top - i, low)
        BY <2>6, <4>1, <4>3 DEF Down
      <4>5. QED  BY <4>1, <4>4
    <3> DEFINE Good == Fine(g)
    <3> HIDE DEF Fine, Good
    <3>3. 0 \in Good /\ \A i \in 1 .. n : i - 1 \in Good => i \in Good
      BY <3>1, <3>2 DEF Good
    <3>4. 0 .. n \subseteq Good
      BY <2>3, <3>3, UpTo
    <3>5. QED  BY <3>4 DEF Good
  <2>12. is(g)
    <3>1. ASSUME NEW i \in 0 .. n PROVE g[i] = IF i = 0 THEN m ELSE SplitTop(g[i - 1], top - i + 1)
      <4>1. CASE i = 0
        BY <2>9, <4>1 DEF Repeats
      <4>2. CASE i # 0
        <5>1. i \in 1 .. n /\ i - 1 \in 0 .. n
          BY <2>3, <4>2
        <5>2. g[i - 1] \in X /\ Down(g[i - 1], top - (i - 1), low)
          BY <2>11, <5>1
        <5>3. g[i] = step(g[i - 1], top - i + 1)
          BY <2>8, <2>9, <5>1, <5>2 DEF Repeats
        <5>4. g[i] = SplitTop(g[i - 1], top - i + 1)
          BY <2>3, <5>1, <5>2, <5>3 DEF step, Down
        <5>5. QED  BY <4>2, <5>4
      <4>3. QED  BY <4>1, <4>2
    <3>2. g = [i \in 0 .. n |-> g[i]]
      BY <2>9
    <3>3. QED  BY <3>1, <3>2
  <2>13. is(f0)
    <3> HIDE DEF is
    <3> QED  BY <2>12
  <2> HIDE DEF f0
  <2>14. \A i \in 0 .. n : f0[i] = IF i = 0 THEN m ELSE SplitTop(f0[i - 1], top - i + 1)
    BY <2>13
  <2>15. 0 \in Fine(f0)
    BY <2>3, <2>5, <2>10, <2>14, <2>21
  <2>16. ASSUME NEW i \in 1 .. n, i - 1 \in Fine(f0) PROVE i \in Fine(f0)
    <3>1. i \in 0 .. n /\ i # 0 /\ f0[i - 1] \in X /\ Down(f0[i - 1], top - (i - 1), low)
      BY <2>16
    <3>2. f0[i] = SplitTop(f0[i - 1], top - i + 1)
      BY <2>14, <3>1
    <3>3. f0[i] \in X /\ Down(f0[i], top - i, low)
      BY <2>6, <3>1, <3>2 DEF Down
    <3>4. QED  BY <3>1, <3>3
  <2> DEFINE Good == Fine(f0)
  <2> HIDE DEF Fine, Good
  <2>17. 0 \in Good /\ \A i \in 1 .. n : i - 1 \in Good => i \in Good
    BY <2>15, <2>16 DEF Good
  <2>18. 0 .. n \subseteq Good
    BY <2>3, <2>17, UpTo
  <2>19. f0[n] \in X /\ Down(f0[n], top - n, low)
    BY <2>3, <2>18 DEF Good, Fine
  <2>22. top - n = low
    BY <1>0, <2>3, KAllocAssumption DEF Orders
  <2>20. QED  BY <2>2, <2>4, <2>19, <2>22 DEF Down, Split
<1>3. QED  BY <1>1, <1>2

-----------------------------------------------------------------------------
(***************************************************************************)
(* The allocator.                                                          *)
(***************************************************************************)
\* The powers grow.
LEMMA PowersGrow ==
    ASSUME NEW i \in 0 .. MaxOrder + 1, NEW j \in i .. MaxOrder + 1
    PROVE  Pow2[i] <= Pow2[j]
<1> DEFINE n == j - i
           Good == {d \in 0 .. n : Pow2[i] <= Pow2[i + d]}
<1>1. n \in Nat /\ MaxOrder \in Nat
  BY KAllocAssumption
<1>2. 0 \in Good
  <2>1. i + 0 = i /\ Pow2[i] \in Nat
    BY Powers
  <2>2. QED  BY <1>1, <2>1
<1>3. ASSUME NEW d \in 1 .. n, d - 1 \in Good PROVE d \in Good
  <2> DEFINE k == i + d
  <2>1. d \in 0 .. n /\ k \in 1 .. MaxOrder + 1 /\ k - 1 \in 0 .. MaxOrder + 1 /\ i + (d - 1) = k - 1
    BY <1>1
  <2> HIDE DEF k
  <2>2. Pow2[k] = 2 * Pow2[k - 1] /\ Pow2[k - 1] \in Nat /\ Pow2[i] \in Nat
    BY <2>1, Powers
  <2>3. Pow2[i] <= Pow2[k - 1]
    BY <1>3, <2>1
  <2>4. Pow2[i] <= Pow2[k]
    BY <2>2, <2>3
  <2>5. QED  BY <2>1, <2>4 DEF k
<1> HIDE DEF n, Good
<1>4. 0 .. n \subseteq Good
  BY <1>1, <1>2, <1>3, UpTo
<1>5. n \in Good
  BY <1>1, <1>4
<1>6. i + n = j
  BY DEF n
<1>7. QED  BY <1>5, <1>6 DEF Good

\* Every size has an order of a block.
LEMMA OrderForIs == \A sz \in Sizes : OrderFor(sz) \in Orders
<1> TAKE sz \in Sizes
<1>1. MinOrder \in Nat /\ MaxOrder \in Nat /\ MinOrder < MaxOrder
  BY KAllocAssumption
<1>2. sz \in Pow2[MinOrder] .. (Pow2[MaxOrder + 1] - 1)
  BY KAllocAssumption
<1>3. \A k \in 0 .. MaxOrder + 1 : Pow2[k] \in Nat
  BY Powers
<1>4. MinOrder \in 0 .. MaxOrder + 1 /\ MaxOrder + 1 \in 0 .. MaxOrder + 1 /\ 0 \in 0 .. MaxOrder + 1
  BY <1>1
<1>5. sz \in Nat /\ Pow2[MinOrder] <= sz /\ sz < Pow2[MaxOrder + 1]
  <2> DEFINE a == Pow2[MinOrder]
             b == Pow2[MaxOrder + 1]
  <2>1. a \in Nat /\ b \in Nat
    BY <1>3, <1>4
  <2>2. sz \in a .. (b - 1)
    BY <1>2
  <2> HIDE DEF a, b
  <2>3. sz \in Nat /\ a <= sz /\ sz < b
    BY <2>1, <2>2
  <2>4. QED  BY <2>3 DEF a, b
<1> DEFINE above == {k \in 0 .. MaxOrder + 1 : sz < Pow2[k]}
           t == Min(above)
<1>6. t \in above /\ \A k \in above : t <= k
  <2>1. above \subseteq Nat /\ above # {}
    BY <1>4, <1>5
  <2> HIDE DEF above
  <2>2. QED  BY <2>1, Least
<1> HIDE DEF t
<1>7. t # 0
  <2>1. Pow2[0] <= Pow2[MinOrder]
    BY <1>1, PowersGrow
  <2>2. Pow2[0] \in Nat /\ Pow2[MinOrder] \in Nat
    BY <1>3, <1>4
  <2>3. ~(sz < Pow2[0])
    BY <1>5, <2>1, <2>2
  <2>4. QED  BY <1>6, <2>3
<1>8. t - 1 \in Order /\ t - 1 + 1 = t /\ t - 1 \in 0 .. MaxOrder + 1 /\ ~(t <= t - 1)
  BY <1>1, <1>6, <1>7 DEF Order
<1>9. Pow2[t - 1] <= sz
  <2>1. t - 1 \notin above
    BY <1>6, <1>8
  <2>2. QED  BY <1>3, <1>5, <1>8, <2>1
<1>10. sz < Pow2[t - 1 + 1]
  BY <1>6, <1>8
<1> DEFINE o == OrderFor(sz)
           fits(k) == Pow2[k] <= sz /\ sz < Pow2[k + 1]
<1>11. o \in Order /\ sz < Pow2[o + 1]
  <2>1. o = CHOOSE k \in Order : fits(k)
    BY DEF OrderFor
  <2>2. \E k \in Order : fits(k)
    <3>1. fits(t - 1)
      BY <1>9, <1>10
    <3> HIDE DEF fits
    <3>2. QED  BY <1>8, <3>1
  <2>3. o \in Order /\ fits(o)
    <3> HIDE DEF fits, o
    <3> QED  BY <2>1, <2>2
  <2>4. QED  BY <2>3
<1> HIDE DEF o
<1>12. o >= MinOrder
  <2>1. SUFFICES ASSUME o < MinOrder PROVE FALSE
    BY <1>1, <1>11 DEF Order
  <2> DEFINE k == o + 1
  <2>2. k \in 0 .. MaxOrder + 1 /\ MinOrder \in k .. MaxOrder + 1
    BY <1>1, <1>11, <2>1 DEF Order
  <2> HIDE DEF k
  <2>3. Pow2[k] <= Pow2[MinOrder]
    BY <2>2, PowersGrow
  <2>4. Pow2[k] \in Nat /\ Pow2[MinOrder] \in Nat /\ sz < Pow2[k]
    BY <1>3, <1>4, <1>11, <2>2 DEF k
  <2>5. QED  BY <1>5, <2>3, <2>4
<1>13. o \in Orders
  BY <1>1, <1>11, <1>12 DEF Order, Orders
<1>14. QED  BY <1>13 DEF o

\* Popping the top block hands it out, and leaves nothing to be merged.
LEMMA PopSound ==
    ASSUME NEW m, NEW hs, NEW A, Sound(m, hs, A), NEW o \in Orders,
           m.head[o] # Nil, Poppable(m, o),
           NEW p, p = m.head[o], NEW x, x = Popped(m, o),
           NEW new, new = [q \in DOMAIN hs \cup {p} |-> IF q = p THEN o ELSE hs[q]]
    PROVE  p \in Page /\ p \notin DOMAIN hs /\ Sound(x, new, A) /\ Merged(x)
<1> DEFINE H == DOMAIN hs
<1>1. Lists(m) /\ FreeOf(m) \cap H = {} /\ H \subseteq Page /\ Tiles(FreeOf(m) \cup H, m.order, A)
      /\ \A q \in H : m.order[q] = hs[q]
  BY DEF Sound
<1>2. p \in FreeOf(m) /\ m.order[p] = o /\ Lists(x) /\ FreeOf(x) = FreeOf(m) \ {p} /\ x.order = m.order
  BY <1>1, Pops DEF Removed
<1>3. p \in Page /\ p \notin H
  BY <1>1, <1>2 DEF FreeOf
<1>4. DOMAIN new = H \cup {p}
  OBVIOUS
<1>5. \A q \in H \cup {p} : x.order[q] = new[q]
  BY <1>1, <1>2, <1>3
<1> HIDE DEF H
<1>6. FreeOf(x) \cup (H \cup {p}) = FreeOf(m) \cup H /\ FreeOf(x) \cap (H \cup {p}) = {}
      /\ H \cup {p} \subseteq Page
  BY <1>1, <1>2, <1>3
<1>7. Sound(x, new, A)
  BY <1>1, <1>2, <1>4, <1>5, <1>6 DEF Sound
<1>8. \A j : Of(x, j) = IF j = o THEN Of(m, j) \ {p} ELSE Of(m, j)
  BY <1>2 DEF Of
<1>9. Merged(x)
  <2> SUFFICES ASSUME NEW j \in MinOrder .. MaxOrder - 1 PROVE NoPair(x, j)
    BY DEF Merged
  <2>1. CASE j = o
    BY <1>8, <2>1 DEF NoPair, Poppable
  <2>2. CASE j # o
    BY <1>8, <2>2 DEF NoPair, Poppable, MergedBut
  <2>3. QED  BY <2>1, <2>2
<1>10. QED  BY <1>3, <1>7, <1>9 DEF H

\* kalloc hands out a free block, or finds none that is large enough.
LEMMA KallocSound ==
    ASSUME NEW m, NEW hs, NEW A, Sound(m, hs, A), Merged(m), NEW sz \in Sizes,
           NEW r, r = kallocResult(m, sz), NEW o, o = OrderFor(sz)
    PROVE  \/ /\ r.page = Nil /\ r.mem = m
              /\ \A j \in o .. MaxOrder : Of(m, j) = {}
           \/ /\ r.page \in Page /\ r.page \notin DOMAIN hs /\ Merged(r.mem)
              /\ Sound(r.mem, [q \in DOMAIN hs \cup {r.page} |-> IF q = r.page THEN o ELSE hs[q]], A)
<1> DEFINE n == IF m.head[o] = Nil THEN split(m, o + 1) ELSE m
           p == n.head[o]
<1>1. o \in Orders
  BY OrderForIs
<1>2. r = IF p = Nil THEN [page |-> Nil, mem |-> n] ELSE [page |-> p, mem |-> Popped(n, o)]
  BY DEF kallocResult, Popped
<1>3. Sound(n, hs, A) /\ Split(m, o, n)
  <2>1. CASE m.head[o] = Nil
    <3> DEFINE k == o + 1
    <3>1. k \in MinOrder + 1 .. MaxOrder + 1 /\ o = k - 1
      BY <1>1, KAllocAssumption DEF Orders
    <3> HIDE DEF k
    <3>2. Sound(split(m, k), hs, A) /\ Split(m, o, split(m, k))
      BY <2>1, <3>1, SplitSound
    <3>3. QED  BY <2>1, <3>2 DEF k
  <2>2. CASE m.head[o] # Nil
    BY <2>2, MergedPops DEF Split
  <2>3. QED  BY <2>1, <2>2
<1> HIDE DEF n
<1>4. CASE p = Nil
  <2>1. n = m /\ \A j \in o .. MaxOrder : Of(m, j) = {}
    BY <1>3, <1>4 DEF Split
  <2>2. QED  BY <1>2, <1>4, <2>1
<1>5. CASE p # Nil
  <2>1. Poppable(n, o)
    <3>1. CASE n.head[o] # Nil /\ Poppable(n, o)
      BY <3>1
    <3>2. CASE n = m
      BY <3>2, MergedPops
    <3>3. QED  BY <1>3, <3>1, <3>2 DEF Split
  <2> DEFINE x == Popped(n, o)
             new == [q \in DOMAIN hs \cup {p} |-> IF q = p THEN o ELSE hs[q]]
  <2>2. p \in Page /\ p \notin DOMAIN hs /\ Sound(x, new, A) /\ Merged(x)
    <3> HIDE DEF x, new, p
    <3>1. x = Popped(n, o) /\ new = [q \in DOMAIN hs \cup {p} |-> IF q = p THEN o ELSE hs[q]] /\ p = n.head[o]
      BY DEF x, new, p
    <3>2. n.head[o] # Nil
      BY <1>5, <3>1
    <3>3. QED  BY ONLY <1>1, <1>3, <2>1, <3>1, <3>2, PopSound
  <2> HIDE DEF x, p
  <2>3. r.page = p /\ r.mem = x
    BY <1>2, <1>5 DEF x
  <2>4. QED  BY <2>2, <2>3
<1>6. QED  BY <1>4, <1>5

\* kfree turns a held block into free memory, and merges what it can.
LEMMA KfreeSound ==
    ASSUME NEW m, NEW hs, NEW A, Sound(m, hs, A), Merged(m), NEW p \in DOMAIN hs,
           NEW new, new = [q \in DOMAIN hs \ {p} |-> hs[q]]
    PROVE  Sound(kfreeResult(m, p), new, A) /\ Merged(kfreeResult(m, p))
<1> DEFINE H == DOMAIN hs
           o == m.order[p]
           x == Push(m, p, o)
<1>1. Lists(m) /\ m \in Mem /\ FreeOf(m) \cap H = {} /\ H \subseteq Page
      /\ Tiles(FreeOf(m) \cup H, m.order, A) /\ \A q \in H : m.order[q] = hs[q]
  BY DEF Sound, Lists
<1>2. p \in Page /\ p \notin FreeOf(m)
  BY <1>1
<1>3. o \in Orders
  BY <1>1, <1>2 DEF Mem, Orders
<1>4. p \in H /\ DOMAIN new = H \ {p} /\ \A q \in H \ {p} : new[q] = m.order[q]
  BY <1>1
<1> HIDE DEF o
<1>5. Pushed(m, p, o, x)
  BY <1>1, <1>2, <1>3, PushList DEF o
<1> HIDE DEF x, H
<1>6. Lists(x) /\ FreeOf(x) = FreeOf(m) \cup {p} /\ x.order = m.order
  BY <1>5 DEF Pushed
<1>7. FreeOf(x) \cup (H \ {p}) = FreeOf(m) \cup H /\ FreeOf(x) \cap (H \ {p}) = {}
      /\ H \ {p} \subseteq Page
  BY <1>1, <1>2, <1>4, <1>6
<1>8. Sound(x, new, A)
  BY <1>1, <1>4, <1>6, <1>7 DEF Sound
<1>9. \A j : j # o => Of(x, j) = Of(m, j)
  BY <1>6 DEF Of, o
<1>10. MergedBut(x, o)
  BY <1>9 DEF Merged, MergedBut, NoPair
<1>11. Sound(coalesce(x, o), new, A) /\ Merged(coalesce(x, o))
  BY <1>3, <1>8, <1>10, CoalesceSound
<1>12. QED  BY <1>11 DEF kfreeResult, x, o

\* No page has been made available.
LEMMA BlankLists == Lists(blank) /\ FreeOf(blank) = {} /\ blank.order = [p \in Page |-> MinOrder]
<1>1. /\ blank.isFree = [p \in Page |-> FALSE] /\ blank.order = [p \in Page |-> MinOrder]
      /\ blank.next = [p \in Page |-> Nil] /\ blank.head = [o \in Order |-> Nil]
  BY DEF blank
<1>2. blank \in Mem
  <2>1. MinOrder \in MinOrder .. MaxOrder
    BY KAllocAssumption
  <2>2. QED  BY <2>1 DEF blank, Mem
<1>3. FreeOf(blank) = {}
  BY <1>1 DEF FreeOf
<1>4. ASSUME NEW o \in Order PROVE List(blank, o)
  <2> DEFINE e == [i \in Nat |-> Nil]
  <2>1. e \in [Nat -> Page \cup {Nil}] /\ \A i \in Nat : e[i] = Nil /\ e[i + 1] = Nil
    OBVIOUS
  <2> HIDE DEF e
  <2>2. Links(blank, o, e) /\ Distinctly(e, 0)
    BY <1>1, <2>1 DEF Links, Distinctly
  <2>3. ListIs(blank, o, e, 0)
    BY <1>3, <2>2 DEF ListIs
  <2>4. QED  BY <2>1, <2>3 DEF List
<1>5. QED  BY <1>1, <1>2, <1>3, <1>4 DEF Lists

\* The loop of init_kalloc pushes the available pages.
LEMMA InitPushes ==
    \E m : /\ init_kalloc = coalesce(m, MinOrder)
           /\ Lists(m) /\ FreeOf(m) = Available /\ m.order = [p \in Page |-> MinOrder]
<1> DEFINE ord == [p \in Page |-> MinOrder]
           X == {x \in Mem : Lists(x) /\ x.order = ord}
           step(x, i) == IF i - 1 \in Available THEN Push(x, i - 1, MinOrder) ELSE x
           st == [ss \in (1 .. NPages) \X X |->
                     IF ss[1] - 1 \in FreeOf(ss[2]) THEN ss[2] ELSE step(ss[2], ss[1])]
           is(f) == f = [i \in 0 .. NPages |-> IF i = 0 THEN blank ELSE step(f[i - 1], i)]
           f0 == CHOOSE f : is(f)
           seen(i) == {p \in Available : p < i}
           Fine(f) == {i \in 0 .. NPages : f[i] \in X /\ FreeOf(f[i]) = seen(i)}
<1>1. /\ NPages \in Nat /\ MinOrder \in Orders /\ Available \subseteq Page
      /\ \A p \in Page : p \in Nat /\ p < NPages
  BY PagesNat, KAllocAssumption DEF Orders, Page
<1>2. init_kalloc = coalesce(f0[NPages], MinOrder)
  BY DEF init_kalloc
<1>3. blank \in X /\ FreeOf(blank) = {}
  BY BlankLists DEF Lists
<1>4. ASSUME NEW i \in 1 .. NPages, NEW x \in X, i - 1 \notin FreeOf(x)
      PROVE  /\ step(x, i) \in X
             /\ FreeOf(step(x, i)) = IF i - 1 \in Available THEN FreeOf(x) \cup {i - 1} ELSE FreeOf(x)
  <2> DEFINE p == i - 1
             y == Push(x, p, MinOrder)
  <2>1. p \in Page
    BY <1>1 DEF Page
  <2>2. Lists(x) /\ x.order = ord /\ x.order[p] = MinOrder
    BY <2>1
  <2> HIDE DEF ord
  <2>3. p \notin FreeOf(x)
    BY <1>4
  <2> HIDE DEF p
  <2>4. Pushed(x, p, MinOrder, y)
    BY <1>1, <2>1, <2>2, <2>3, PushList
  <2> HIDE DEF y
  <2>5. y \in X /\ FreeOf(y) = FreeOf(x) \cup {p}
    BY <2>2, <2>4 DEF Pushed, Lists
  <2>6. step(x, i) = IF p \in Available THEN y ELSE x
    BY DEF p, y
  <2> HIDE DEF X, step
  <2>7. step(x, i) \in X /\ FreeOf(step(x, i)) = IF p \in Available THEN FreeOf(x) \cup {p} ELSE FreeOf(x)
    BY <2>5, <2>6
  <2>8. QED  BY <2>7 DEF p
<1> HIDE DEF X, step, ord
<1>5. /\ st \in [(1 .. NPages) \X X -> X]
      /\ \A i \in 1 .. NPages, x \in X : i - 1 \notin FreeOf(x) => st[<<i, x>>] = step(x, i)
  BY <1>4
<1> HIDE DEF st
<1>6. PICK g \in [0 .. NPages -> X] : Repeats(g, NPages, blank, st)
  BY <1>1, <1>3, <1>5, Recursion
<1>7. \A i \in 1 .. NPages : i - 1 \notin seen(i - 1)
  BY <1>1
<1>8. ASSUME NEW i \in 1 .. NPages
      PROVE  seen(i) = IF i - 1 \in Available THEN seen(i - 1) \cup {i - 1} ELSE seen(i - 1)
  <2>1. \A p \in Available : p < i <=> p < i - 1 \/ p = i - 1
    BY <1>1
  <2>2. CASE i - 1 \in Available
    <3>1. i - 1 < i
      OBVIOUS
    <3>2. QED  BY <2>1, <2>2, <3>1
  <2>3. CASE i - 1 \notin Available
    BY <2>1, <2>3
  <2>4. QED  BY <2>2, <2>3
<1>9. seen(0) = {}
  <2>1. \A p \in Available : ~(p < 0)
    BY <1>1
  <2>2. QED  BY <2>1
<1>10. seen(NPages) = Available
  BY <1>1
<1> HIDE DEF seen
<1>11. 0 .. NPages \subseteq Fine(g)
  <2>1. 0 \in Fine(g)
    <3>1. 0 \in 0 .. NPages /\ g[0] = blank
      BY <1>1, <1>6 DEF Repeats
    <3>2. g[0] \in X /\ FreeOf(g[0]) = seen(0)
      BY <1>3, <1>9, <3>1
    <3>3. QED  BY <3>1, <3>2
  <2>2. ASSUME NEW i \in 1 .. NPages, i - 1 \in Fine(g) PROVE i \in Fine(g)
    <3>1. i \in 0 .. NPages /\ g[i - 1] \in X /\ FreeOf(g[i - 1]) = seen(i - 1)
      BY <2>2
    <3>2. g[i] = st[<<i, g[i - 1]>>]
      BY <1>6 DEF Repeats
    <3>3. g[i] = step(g[i - 1], i)
      BY <1>5, <1>7, <3>1, <3>2
    <3>4. g[i] \in X /\ FreeOf(g[i]) = seen(i)
      BY <1>4, <1>7, <1>8, <3>1, <3>3
    <3>5. QED  BY <3>1, <3>4
  <2> DEFINE Good == Fine(g)
  <2> HIDE DEF Fine, Good
  <2>3. 0 \in Good /\ \A i \in 1 .. NPages : i - 1 \in Good => i \in Good
    BY <2>1, <2>2 DEF Good
  <2>4. 0 .. NPages \subseteq Good
    BY <1>1, <2>3, UpTo
  <2>5. QED  BY <2>4 DEF Good
<1>12. is(g)
  <2>1. ASSUME NEW i \in 0 .. NPages PROVE g[i] = IF i = 0 THEN blank ELSE step(g[i - 1], i)
    <3>1. CASE i = 0
      BY <1>6, <3>1 DEF Repeats
    <3>2. CASE i # 0
      <4>1. i \in 1 .. NPages /\ i - 1 \in 0 .. NPages
        BY <1>1, <3>2
      <4>2. g[i - 1] \in X /\ FreeOf(g[i - 1]) = seen(i - 1)
        BY <1>11, <4>1
      <4>3. g[i] = st[<<i, g[i - 1]>>]
        BY <1>6, <4>1 DEF Repeats
      <4>4. g[i] = step(g[i - 1], i)
        BY <1>5, <1>7, <4>1, <4>2, <4>3
      <4>5. QED  BY <3>2, <4>4
    <3>3. QED  BY <3>1, <3>2
  <2>2. g = [i \in 0 .. NPages |-> g[i]]
    BY <1>6
  <2>3. QED  BY <2>1, <2>2
<1>13. is(f0)
  <2> HIDE DEF is
  <2> QED  BY <1>12
<1> HIDE DEF f0
<1>14. \A i \in 0 .. NPages : f0[i] = IF i = 0 THEN blank ELSE step(f0[i - 1], i)
  BY <1>13
<1>15. 0 \in Fine(f0)
  <2>1. 0 \in 0 .. NPages /\ f0[0] = blank
    BY <1>1, <1>14
  <2>2. f0[0] \in X /\ FreeOf(f0[0]) = seen(0)
    BY <1>3, <1>9, <2>1
  <2>3. QED  BY <2>1, <2>2
<1>16. ASSUME NEW i \in 1 .. NPages, i - 1 \in Fine(f0) PROVE i \in Fine(f0)
  <2>1. i \in 0 .. NPages /\ i # 0 /\ f0[i - 1] \in X /\ FreeOf(f0[i - 1]) = seen(i - 1)
    BY <1>16
  <2>2. f0[i] = step(f0[i - 1], i)
    BY <1>14, <2>1
  <2>3. f0[i] \in X /\ FreeOf(f0[i]) = seen(i)
    BY <1>4, <1>7, <1>8, <2>1, <2>2
  <2>4. QED  BY <2>1, <2>3
<1> DEFINE Good == Fine(f0)
<1> HIDE DEF Fine, Good
<1>17. 0 \in Good /\ \A i \in 1 .. NPages : i - 1 \in Good => i \in Good
  BY <1>15, <1>16 DEF Good
<1>18. 0 .. NPages \subseteq Good
  BY <1>1, <1>17, UpTo
<1>19. f0[NPages] \in X /\ FreeOf(f0[NPages]) = seen(NPages)
  BY <1>1, <1>18 DEF Good, Fine
<1>20. QED  BY <1>2, <1>19, <1>10 DEF X, ord

\* init_kalloc makes the available memory free.
LEMMA InitSound ==
    ASSUME NEW hs, DOMAIN hs = {}
    PROVE  Sound(init_kalloc, hs, Available) /\ Merged(init_kalloc)
<1>1. PICK m : /\ init_kalloc = coalesce(m, MinOrder)
               /\ Lists(m) /\ FreeOf(m) = Available /\ m.order = [p \in Page |-> MinOrder]
  BY InitPushes
<1>2. Available \subseteq Page /\ MinOrder \in Orders /\ Page \subseteq Nat
  BY KAllocAssumption DEF Page, Orders
<1>3. \A p \in Available : m.order[p] = MinOrder
  BY <1>1, <1>2
<1>4. Width(MinOrder) = 1
  BY Widths
<1>5. ASSUME NEW p \in Page PROVE Span(p, MinOrder) = {p}
  <2>1. Span(p, MinOrder) = {q \in Page : p <= q /\ q < p + 1}
    BY <1>4 DEF Span
  <2>2. \A q \in Page : p <= q /\ q < p + 1 <=> q = p
    BY <1>2
  <2>3. QED  BY <2>1, <2>2
<1>6. \A p \in Page : Aligned(p, MinOrder)
  <2>1. \A p \in Page : p \in Nat /\ p = p * 1
    BY <1>2
  <2>2. QED  BY <1>4, <2>1 DEF Aligned
<1>7. Tiles(Available, m.order, Available)
  <2>1. \A p \in Available : m.order[p] \in Orders /\ Aligned(p, m.order[p]) /\ Span(p, m.order[p]) = {p}
    BY <1>2, <1>3, <1>5, <1>6
  <2>2. UNION {Span(p, m.order[p]) : p \in Available} = Available
    <3>1. \A x : (\E p \in Available : x \in Span(p, m.order[p])) <=> x \in Available
      BY <2>1
    <3>2. QED  BY <3>1
  <2>3. QED  BY <1>2, <2>1, <2>2 DEF Tiles
<1>8. Sound(m, hs, Available)
  <2>1. FreeOf(m) \cup DOMAIN hs = Available
    BY <1>1
  <2>2. QED  BY <1>1, <1>7, <2>1 DEF Sound
<1>9. MergedBut(m, MinOrder)
  <2>1. \A j : j # MinOrder => Of(m, j) = {}
    BY <1>1, <1>3 DEF Of
  <2>2. QED  BY <2>1 DEF MergedBut, NoPair
<1>10. QED  BY <1>1, <1>2, <1>8, <1>9, CoalesceSound

-----------------------------------------------------------------------------
(***************************************************************************)
(* Where nothing can be merged, no run of unused pages is longer than a    *)
(* free block.                                                             *)
(***************************************************************************)
\* A block is a number of blocks of any order below its own.
LEMMA WidthDivides ==
    ASSUME NEW k \in Orders, NEW j \in k .. MaxOrder
    PROVE  \E c \in Nat : Width(j) = c * Width(k)
<1> DEFINE n == j - k
           times(i) == \E c \in Nat : Width(i) = c * Width(k)
           Good == {i \in 0 .. n : times(k + i)}
<1>1. MinOrder \in Nat /\ MaxOrder \in Nat /\ k \in Nat /\ n \in Nat /\ k >= MinOrder
  BY KAllocAssumption DEF Orders
<1>2. Width(k) \in Nat
  BY Widths
<1>3. 0 \in Good
  <2>1. k + 0 = k /\ Width(k) = 1 * Width(k)
    BY <1>1, <1>2
  <2>2. QED  BY <1>1, <2>1
<1>4. ASSUME NEW i \in 1 .. n, i - 1 \in Good PROVE i \in Good
  <2> DEFINE a == k + (i - 1)
  <2>1. i \in 0 .. n /\ a \in MinOrder .. MaxOrder - 1 /\ a + 1 = k + i /\ times(a)
    BY <1>1, <1>4
  <2> HIDE DEF a
  <2>2. PICK c \in Nat : Width(a) = c * Width(k)
    BY <2>1
  <2>3. Width(a + 1) = 2 * Width(a)
    BY <2>1, Widths
  <2>4. Width(a + 1) = (2 * c) * Width(k)
    BY <1>2, <2>2, <2>3
  <2>5. times(a + 1)
    BY <2>4
  <2>6. QED  BY <2>1, <2>5
<1> HIDE DEF n, Good
<1>5. 0 .. n \subseteq Good
  BY <1>1, <1>3, <1>4, UpTo
<1>6. n \in Good /\ k + n = j
  BY <1>1, <1>5 DEF n
<1>7. QED  BY <1>6 DEF Good

\* Of two blocks that share a page the smaller is part of the larger.
LEMMA Nested ==
    ASSUME NEW k \in Orders, NEW j \in k .. MaxOrder,
           NEW p \in Page, Aligned(p, k), NEW q \in Page, Aligned(q, j),
           NEW x \in Page, x \in Span(p, k), x \in Span(q, j)
    PROVE  Span(p, k) \subseteq Span(q, j) /\ q <= p
<1> DEFINE w == Width(k)
           v == Width(j)
<1>1. w \in Nat \ {0} /\ j \in Orders /\ v \in Nat \ {0}
  <2>1. j \in Orders
    BY KAllocAssumption DEF Orders
  <2>2. QED  BY <2>1, Widths
<1>2. PICK c \in Nat : v = c * w
  BY WidthDivides
<1>3. PICK a \in Nat : p = a * w
  BY DEF Aligned
<1>4. PICK b \in Nat : q = b * v
  BY DEF Aligned
<1>5. Page \subseteq Nat
  BY DEF Page
<1>6. p <= x /\ x < p + w /\ q <= x /\ x < q + v
  BY DEF Span
<1> DEFINE d == b * c
           e == b * c + c
<1>7. d \in Nat /\ e \in Nat
  BY SMT
<1>8. q = d * w /\ q + v = e * w /\ p + w = (a + 1) * w
  BY <1>1, <1>2, <1>3, <1>4
<1> HIDE DEF w, v, d, e
<1>9. d <= a
  <2>1. SUFFICES ASSUME a + 1 <= d PROVE FALSE
    BY <1>7
  <2>2. (a + 1) * w <= d * w
    BY <1>1, <1>7, <2>1
  <2>3. QED  BY <1>1, <1>5, <1>6, <1>8, <2>2
<1>10. a + 1 <= e
  <2>1. SUFFICES ASSUME e <= a PROVE FALSE
    BY <1>7
  <2>2. e * w <= a * w
    BY <1>1, <1>7, <2>1
  <2>3. QED  BY <1>1, <1>3, <1>5, <1>6, <1>8, <2>2
<1>11. d * w <= a * w /\ (a + 1) * w <= e * w
  BY <1>1, <1>7, <1>9, <1>10
<1>12. q <= p /\ p + w <= q + v
  BY <1>3, <1>8, <1>11
<1>13. \A y \in Page : p <= y /\ y < p + w => q <= y /\ y < q + v
  BY <1>1, <1>5, <1>12
<1>14. QED  BY <1>12, <1>13 DEF Span, w, v

\* A block has the page it begins with.
LEMMA StartsIt ==
    ASSUME NEW k \in Orders, NEW p \in Page
    PROVE  p \in Span(p, k)
<1>1. Width(k) \in Nat \ {0} /\ p \in Nat
  BY Widths DEF Page
<1>2. QED  BY <1>1 DEF Span

\* Blocks of one order that share a page are one.
LEMMA SameBlock ==
    ASSUME NEW k \in Orders, NEW p \in Page, Aligned(p, k), NEW q \in Page, Aligned(q, k),
           NEW x \in Page, x \in Span(p, k), x \in Span(q, k)
    PROVE  p = q
<1>1. k \in k .. MaxOrder /\ p \in Nat /\ q \in Nat
  BY KAllocAssumption DEF Orders, Page
<1>2. p <= q /\ q <= p
  BY <1>1, Nested
<1>3. QED  BY <1>1, <1>2

\* The pages that no held block has.
UnusedOf(hs, A) == A \ UNION {Span(q, hs[q]) : q \in DOMAIN hs}

\* If there is no free block of order o or above, and no free blocks can be
\* merged, then no block of order o is unused.
LEMMA NoRunLeft ==
    ASSUME NEW m, NEW hs, NEW A, Sound(m, hs, A), Merged(m), NEW o \in Orders,
           \A j \in o .. MaxOrder : Of(m, j) = {},
           NEW p \in Page, Aligned(p, o), Span(p, o) \subseteq UnusedOf(hs, A)
    PROVE  FALSE
<1> DEFINE S == Span(p, o)
           F == FreeOf(m)
           ord == m.order
           meets(f) == \E x \in S : x \in Span(f, ord[f])
           K == {j \in Orders : \E f \in F : ord[f] = j /\ meets(f)}
           j == Min(K)
<1>1. /\ MinOrder \in Nat /\ MaxOrder \in Nat /\ F \subseteq Page
      /\ \A f \in F : ord[f] \in Orders /\ Aligned(f, ord[f])
      /\ \A f, g \in F : f # g => Span(f, ord[f]) \cap Span(g, ord[g]) = {}
      /\ UNION {Span(f, ord[f]) : f \in F \cup DOMAIN hs} = A
      /\ \A q \in DOMAIN hs : ord[q] = hs[q]
  BY KAllocAssumption DEF Sound, Tiles, FreeOf
<1>2. S \subseteq Page /\ p \in S
  BY StartsIt DEF Span
<1>3. ASSUME NEW x \in S PROVE \E f \in F : x \in Span(f, ord[f])
  <2>1. x \in A /\ \A q \in DOMAIN hs : x \notin Span(q, hs[q])
    BY DEF UnusedOf
  <2>2. PICK f \in F \cup DOMAIN hs : x \in Span(f, ord[f])
    BY <1>1, <2>1
  <2>3. f \notin DOMAIN hs
    BY <1>1, <2>1, <2>2
  <2>4. QED  BY <2>2, <2>3
<1>4. ASSUME NEW f \in F, meets(f)
      PROVE  ord[f] \in MinOrder .. MaxOrder - 1 /\ o \in ord[f] + 1 .. MaxOrder
  <2>1. ord[f] \in Orders
    BY <1>1
  <2>2. f \in Of(m, ord[f])
    BY DEF Of
  <2> HIDE DEF F, ord
  <2>3. ~(ord[f] \in o .. MaxOrder)
    BY <2>2
  <2>4. QED  BY <1>1, <2>1, <2>3 DEF Orders
<1>5. j \in K /\ \A i \in K : j <= i
  <2>1. PICK f \in F : p \in Span(f, ord[f])
    BY <1>2, <1>3
  <2>2. ord[f] \in K
    BY <1>1, <1>2, <2>1
  <2>3. K \subseteq Nat /\ K # {}
    BY <1>1, <2>2 DEF Orders
  <2> HIDE DEF K
  <2>4. QED  BY <2>3, Least
<1> HIDE DEF j
<1>6. PICK f \in F : ord[f] = j /\ meets(f)
  BY <1>5
<1>7. j \in MinOrder .. MaxOrder - 1 /\ o \in j + 1 .. MaxOrder /\ f \in Page /\ Aligned(f, j)
  BY <1>1, <1>4, <1>6
<1> DEFINE b == BuddyOf(f, j)
           u == j + 1
<1>8. j \in Orders /\ u \in Orders /\ o \in u .. MaxOrder
  BY <1>1, <1>7 DEF Orders
<1>9. PICK l, h : Halves(l, h, j) /\ ((l = f /\ h = b) \/ (l = b /\ h = f))
  <2>1. Halves(f, b, j) \/ Halves(b, f, j)
    BY <1>7, BuddyIs
  <2> HIDE DEF b
  <2>2. QED  BY <2>1
<1> HIDE DEF b
<1>10. /\ l # h /\ Span(l, j) \cup Span(h, j) = Span(l, u) /\ l \in Span(l, j) /\ h \in Span(h, j)
  BY <1>7, <1>9, HalvesSpan
<1>11. l \in Page /\ Aligned(l, u) /\ b \in Page /\ Aligned(b, j)
  BY <1>9 DEF Halves
<1>12. f \in Span(l, u) /\ b \in Span(l, u) /\ b # f /\ Span(f, j) \subseteq Span(l, u)
       /\ b \in Span(b, j) /\ f \in Span(f, j)
  BY <1>9, <1>10
<1> HIDE DEF u
<1>13. Span(l, u) \subseteq S
  <2>1. PICK x \in S : x \in Span(f, j)
    BY <1>6
  <2>2. x \in Span(l, u) /\ x \in Page
    BY <1>2, <1>12, <2>1
  <2>3. QED  BY <1>8, <1>11, <2>1, <2>2, Nested
<1>14. PICK g \in F : b \in Span(g, ord[g])
  BY <1>3, <1>12, <1>13
<1>15. g \in Page /\ ord[g] \in Orders /\ Aligned(g, ord[g]) /\ ord[g] \in K
  BY <1>1, <1>12, <1>13, <1>14
<1>16. j <= ord[g]
  BY <1>5, <1>15
<1> DEFINE i == ord[g]
<1>17. CASE i = j
  <2>1. g = b
    BY <1>8, <1>11, <1>12, <1>14, <1>15, <1>17, SameBlock
  <2>2. f \in Of(m, j) /\ b \in Of(m, j)
    BY <1>6, <1>14, <1>17, <2>1 DEF Of
  <2>3. NoPair(m, j)
    BY <1>7 DEF Merged
  <2>4. QED  BY <2>2, <2>3 DEF NoPair, b
<1>18. CASE i # j
  <2>1. u \in Orders /\ i \in u .. MaxOrder
    BY <1>1, <1>8, <1>15, <1>16, <1>18 DEF Orders, u
  <2>2. Span(l, u) \subseteq Span(g, i)
    <3> HIDE DEF i
    <3>1. Aligned(g, i) /\ b \in Span(g, i)
      BY <1>14, <1>15 DEF i
    <3>2. QED  BY <1>11, <1>12, <1>15, <2>1, <3>1, Nested
  <2>3. f \in Span(g, ord[g]) /\ f \in Span(f, ord[f]) /\ f # g
    BY <1>6, <1>12, <1>18, <2>2
  <2>4. QED  BY <1>1, <2>3
<1>19. QED  BY <1>17, <1>18

-----------------------------------------------------------------------------
(***************************************************************************)
(* The invariant, and the steps of the allocator.                          *)
(***************************************************************************)
\* The orders of the blocks that callers hold.
HeldOrders == [p \in DOMAIN held |-> OrderFor(held[p])]

\* The inductive invariant: the memory is sound with the blocks that are held, and
\* no two free blocks could be merged.
KallocInv ==
    /\ last \in Page \cup {Nil}
    /\ \A p \in DOMAIN held : held[p] \in Sizes
    /\ Sound(mem, HeldOrders, Available) /\ Merged(mem)

\* What a step leaves of the invariant.
KallocSteps == /\ \A p \in DOMAIN held' : held'[p] \in Sizes
               /\ Sound(mem', HeldOrders', Available) /\ Merged(mem')

\* A call of kalloc for a block of order o.
LEMMA KallocStep ==
    ASSUME KallocInv, NEW sz \in Sizes, kalloc(sz), NEW o, o = OrderFor(sz)
    PROVE  \/ /\ last' = Nil /\ mem' = mem /\ held' = held
              /\ \A j \in o .. MaxOrder : Of(mem, j) = {}
           \/ /\ last' \in Page /\ last' \notin DOMAIN held /\ KallocSteps
              /\ HeldOrders' = [q \in DOMAIN HeldOrders \cup {last'} |->
                                   IF q = last' THEN o ELSE HeldOrders[q]]
<1> DEFINE r == kallocResult(mem, sz)
           p == r.page
           hs == HeldOrders
           new == [q \in DOMAIN hs \cup {p} |-> IF q = p THEN o ELSE hs[q]]
<1>1. mem' = r.mem /\ last' = p
      /\ held' = IF p = Nil THEN held
                 ELSE [q \in DOMAIN held \cup {p} |-> IF q = p THEN sz ELSE held[q]]
  BY DEF kalloc
<1>2. /\ \A q \in DOMAIN held : held[q] \in Sizes
      /\ Sound(mem, hs, Available) /\ Merged(mem)
  BY DEF KallocInv
<1>3. DOMAIN hs = DOMAIN held /\ \A q \in DOMAIN held : hs[q] = OrderFor(held[q])
  BY DEF HeldOrders
<1>4. HeldOrders' = [q \in DOMAIN held' |-> OrderFor(held'[q])]
  BY DEF HeldOrders
<1> HIDE DEF hs
<1>5. \/ p = Nil /\ r.mem = mem /\ \A j \in o .. MaxOrder : Of(mem, j) = {}
      \/ p \in Page /\ p \notin DOMAIN hs /\ Merged(r.mem) /\ Sound(r.mem, new, Available)
  BY <1>2, KallocSound
<1> HIDE DEF r, p
<1>6. CASE p = Nil /\ r.mem = mem /\ \A j \in o .. MaxOrder : Of(mem, j) = {}
  BY <1>1, <1>6
<1>7. CASE p \in Page /\ p \notin DOMAIN hs /\ Merged(r.mem) /\ Sound(r.mem, new, Available)
  <2>1. p # Nil
    BY <1>7, PagesNat
  <2>2. /\ DOMAIN held' = DOMAIN hs \cup {p} /\ held'[p] = sz
        /\ \A q \in DOMAIN hs : q # p => held'[q] = held[q]
    BY <1>1, <1>3, <2>1
  <2>3. HeldOrders' = new
    <3>1. \A q \in DOMAIN hs \cup {p} : OrderFor(held'[q]) = IF q = p THEN o ELSE hs[q]
      BY <1>3, <2>2
    <3> HIDE DEF hs
    <3>2. QED  BY <1>4, <2>2, <3>1
  <2>4. \A q \in DOMAIN held' : held'[q] \in Sizes
    BY <1>2, <1>3, <2>2
  <2> HIDE DEF new
  <2>5. KallocSteps
    BY <1>1, <1>7, <2>3, <2>4 DEF KallocSteps
  <2>6. QED  BY <1>1, <1>3, <1>7, <2>3, <2>5 DEF new, hs
<1>8. QED  BY <1>5, <1>6, <1>7

\* A call of kfree.
LEMMA KfreeStep ==
    ASSUME KallocInv, NEW p \in Page, kfree(p)
    PROVE  /\ p \in DOMAIN held /\ last' = last /\ KallocSteps
           /\ HeldOrders' = [q \in DOMAIN HeldOrders \ {p} |-> HeldOrders[q]]
<1> DEFINE hs == HeldOrders
           new == [q \in DOMAIN hs \ {p} |-> hs[q]]
<1>1. p \in DOMAIN held /\ mem' = kfreeResult(mem, p) /\ last' = last
      /\ held' = [q \in DOMAIN held \ {p} |-> held[q]]
  BY DEF kfree
<1>2. /\ \A q \in DOMAIN held : held[q] \in Sizes
      /\ Sound(mem, hs, Available) /\ Merged(mem)
  BY DEF KallocInv
<1>3. DOMAIN hs = DOMAIN held /\ \A q \in DOMAIN held : hs[q] = OrderFor(held[q])
  BY DEF HeldOrders
<1>4. HeldOrders' = [q \in DOMAIN held' |-> OrderFor(held'[q])]
  BY DEF HeldOrders
<1> HIDE DEF hs
<1>5. Sound(kfreeResult(mem, p), new, Available) /\ Merged(kfreeResult(mem, p))
  BY <1>1, <1>2, <1>3, KfreeSound
<1>6. DOMAIN held' = DOMAIN hs \ {p} /\ \A q \in DOMAIN hs \ {p} : held'[q] = held[q]
  BY <1>1, <1>3
<1>7. HeldOrders' = new
  <2>1. \A q \in DOMAIN hs \ {p} : OrderFor(held'[q]) = hs[q]
    BY <1>3, <1>6
  <2>2. QED  BY <1>4, <1>6, <2>1
<1>8. \A q \in DOMAIN held' : held'[q] \in Sizes
  BY <1>2, <1>3, <1>6
<1> HIDE DEF new
<1>9. KallocSteps
  BY <1>1, <1>5, <1>7, <1>8 DEF KallocSteps
<1>10. QED  BY <1>1, <1>7, <1>9 DEF new, hs

\* KallocInv holds at the start, and every step keeps it.
LEMMA KallocInvAlways == KallocSpec => []KallocInv
<1>1. KallocInit => KallocInv
  <2> SUFFICES ASSUME KallocInit PROVE KallocInv
    OBVIOUS
  <2>1. DOMAIN held = {} /\ mem = init_kalloc /\ last = Nil
    BY DEF KallocInit
  <2>2. DOMAIN HeldOrders = {}
    BY <2>1 DEF HeldOrders
  <2>3. Sound(mem, HeldOrders, Available) /\ Merged(mem)
    BY <2>1, <2>2, InitSound
  <2>4. QED  BY <2>1, <2>3 DEF KallocInv
<1>2. KallocInv /\ [KallocNext]_kallocVars => KallocInv'
  <2> SUFFICES ASSUME KallocInv, [KallocNext]_kallocVars PROVE KallocInv'
    OBVIOUS
  <2>1. ASSUME NEW sz \in Sizes, kalloc(sz) PROVE KallocInv'
    <3> DEFINE o == OrderFor(sz)
    <3> HIDE DEF o
    <3>1. \/ last' = Nil /\ mem' = mem /\ held' = held
          \/ last' \in Page /\ KallocSteps
      BY <2>1, KallocStep DEF o
    <3>2. CASE last' = Nil /\ mem' = mem /\ held' = held
      BY <3>2 DEF KallocInv, HeldOrders
    <3>3. CASE last' \in Page /\ KallocSteps
      BY <3>3 DEF KallocInv, KallocSteps
    <3>4. QED  BY <3>1, <3>2, <3>3
  <2>2. ASSUME NEW p \in Page, kfree(p) PROVE KallocInv'
    <3>1. last' = last /\ KallocSteps
      BY <2>2, KfreeStep
    <3>2. QED  BY <3>1 DEF KallocInv, KallocSteps
  <2>3. CASE UNCHANGED kallocVars
    BY <2>3 DEF KallocInv, HeldOrders, kallocVars
  <2>4. QED  BY <2>1, <2>2, <2>3 DEF KallocNext
<1>3. QED  BY <1>1, <1>2, PTL DEF KallocSpec

\* The free lists that kalloc, kfree, split and coalesce thread through
\* pages[].next end, and hold each free block once, on the list of its order.
THEOREM KallocListsSound == KallocSpec => []FreeListsSound
<1>1. KallocInv => FreeListsSound
  <2> SUFFICES ASSUME KallocInv PROVE FreeListsSound
    OBVIOUS
  <2>1. Lists(mem) /\ DOMAIN held \subseteq Page
    BY DEF KallocInv, Sound, HeldOrders
  <2>2. KallocTypeOK
    BY <2>1 DEF KallocInv, KallocTypeOK, Lists
  <2>3. ASSUME NEW o \in Order
        PROVE  /\ ListEntry(mem, o)[NPages] = Nil
               /\ OnList(mem, o) = {p \in Free : mem.order[p] = o}
    <3>1. List(mem, o)
      BY <2>1 DEF Lists
    <3>2. Free = FreeOf(mem)
      BY DEF Free, FreeOf
    <3>3. QED  BY <3>1, <3>2, Visits
  <2>4. QED  BY <2>2, <2>3 DEF FreeListsSound
<1>2. QED  BY <1>1, KallocInvAlways, PTL

\* The free blocks and the blocks that callers of kalloc hold are disjoint and
\* make up the available memory, however blocks were split and coalesced.
THEOREM BlocksAlwaysPartition == KallocSpec => []BlocksPartition
<1>1. KallocInv => BlocksPartition
  <2> SUFFICES ASSUME KallocInv PROVE BlocksPartition
    OBVIOUS
  <2> DEFINE led == Free \cup DOMAIN held
  <2>1. Sound(mem, HeldOrders, Available) /\ DOMAIN HeldOrders = DOMAIN held /\ Free = FreeOf(mem)
    BY DEF KallocInv, HeldOrders, Free, FreeOf
  <2>2. Free \cap DOMAIN held = {} /\ Tiles(led, mem.order, Available)
    BY <2>1 DEF Sound
  <2>3. \A p : BlockOf(p) = Span(p, mem.order[p])
    BY DEF BlockOf, Span, Width
  <2> HIDE DEF led
  <2>4. \A p, q \in led : p # q => BlockOf(p) \cap BlockOf(q) = {}
    BY <2>2, <2>3 DEF Tiles
  <2>5. UNION {BlockOf(p) : p \in led} = Available
    <3>1. UNION {Span(p, mem.order[p]) : p \in led} = Available
      BY <2>2 DEF Tiles
    <3>2. QED  BY <2>3, <3>1
  <2>6. QED  BY <2>2, <2>4, <2>5 DEF BlocksPartition, led
<1>2. QED  BY <1>1, KallocInvAlways, PTL

-----------------------------------------------------------------------------
(***************************************************************************)
(* What callers see is PageAlloc.                                          *)
(***************************************************************************)
\* The runs that blocks of orders hs at the pages of its domain are.
RunsOf(hs) == [p \in DOMAIN hs |-> Span(p, hs[p])]

\* The pages of a held block are those of the order it was asked for with.
LEMMA RunsAre ==
    ASSUME NEW m, NEW hs, NEW A, Sound(m, hs, A)
    PROVE  RunsOf(hs) = [p \in DOMAIN hs |-> {q \in Page : p <= q /\ q < p + Pow2[m.order[p] - MinOrder]}]
<1>1. \A p \in DOMAIN hs : m.order[p] = hs[p]
  BY DEF Sound
<1>2. \A p \in DOMAIN hs : Span(p, hs[p]) = {q \in Page : p <= q /\ q < p + Pow2[m.order[p] - MinOrder]}
  BY <1>1 DEF Span, Width
<1>3. QED  BY <1>2 DEF RunsOf

\* An aligned run that begins in memory is a block.
LEMMA RunIsSpan ==
    ASSUME NEW o \in Orders, NEW i \in Nat, NEW p \in Page, p = Width(o) * i
    PROVE  Aligned(p, o) /\ Caller!AlignedRun(Width(o), i) = Span(p, o)
<1> DEFINE w == Width(o)
<1>1. w \in Nat \ {0}
  BY Widths
<1>2. Page \subseteq Nat /\ NPages \in Nat
  BY PagesNat DEF Page
<1>3. p = i * w
  BY <1>1
<1>4. Aligned(p, o)
  BY <1>3 DEF Aligned
<1>5. p + w <= NPages
  BY <1>4, BlockInside
<1>6. Caller!AlignedRun(w, i) = p .. (p + w - 1)
  BY DEF Caller!AlignedRun
<1>7. Span(p, o) = {q \in Page : p <= q /\ q < p + w}
  BY DEF Span
<1> HIDE DEF w
<1>8. \A q : q \in p .. (p + w - 1) <=> q \in Page /\ p <= q /\ q < p + w
  BY <1>1, <1>2, <1>5 DEF Page
<1>9. QED  BY <1>4, <1>6, <1>7, <1>8 DEF w

\* A block begins with its least page.
LEMMA FirstOfSpan ==
    ASSUME NEW o \in Orders, NEW p \in Page
    PROVE  Caller!First(Span(p, o)) = p
<1>1. p \in Span(p, o) /\ \A q \in Span(p, o) : p <= q /\ q \in Nat
  BY StartsIt DEF Span, Page
<1>2. ASSUME NEW x \in Span(p, o), \A q \in Span(p, o) : x <= q PROVE x = p
  BY <1>1, <1>2
<1>3. QED  BY <1>1, <1>2 DEF Caller!First

\* The blocks of orders new are those of orders hs and one of order o at page p.
Adds(hs, p, o, new) ==
    p \notin DOMAIN hs /\ new = [q \in DOMAIN hs \cup {p} |-> IF q = p THEN o ELSE hs[q]]

\* The runs of new are those of hs and one that was unused.
AddsRun(hs, A, p, o, new) ==
    /\ Aligned(p, o) /\ Span(p, o) \subseteq UnusedOf(hs, A)
    /\ RunsOf(new) = [q \in DOMAIN RunsOf(hs) \cup {p} |-> IF q = p THEN Span(p, o) ELSE RunsOf(hs)[q]]

\* A block that is handed out is a run of unused pages.
LEMMA HandedOut ==
    ASSUME NEW hs, NEW A, NEW o \in Orders, NEW p \in Page, NEW new, Adds(hs, p, o, new),
           NEW x, Sound(x, new, A)
    PROVE  AddsRun(hs, A, p, o, new)
<1>1. /\ DOMAIN new = DOMAIN hs \cup {p} /\ new[p] = o
      /\ \A q \in DOMAIN hs : q # p /\ new[q] = hs[q]
  BY DEF Adds
<1> DEFINE L == FreeOf(x) \cup DOMAIN new
<1>2. Tiles(L, x.order, A) /\ p \in L /\ DOMAIN hs \subseteq L
      /\ \A q \in DOMAIN new : x.order[q] = new[q]
  BY <1>1 DEF Sound
<1>3. x.order[p] = o /\ \A q \in DOMAIN hs : x.order[q] = hs[q]
  BY <1>1, <1>2
<1> HIDE DEF L
<1>4. Aligned(p, o) /\ Span(p, o) \subseteq A
  BY <1>2, <1>3 DEF Tiles
<1>5. \A q \in DOMAIN hs : Span(p, o) \cap Span(q, hs[q]) = {}
  BY <1>1, <1>2, <1>3 DEF Tiles
<1>6. Span(p, o) \subseteq UnusedOf(hs, A)
  BY <1>4, <1>5 DEF UnusedOf
<1>7. RunsOf(new) = [q \in DOMAIN RunsOf(hs) \cup {p} |-> IF q = p THEN Span(p, o) ELSE RunsOf(hs)[q]]
  <2>1. DOMAIN RunsOf(hs) = DOMAIN hs /\ \A q \in DOMAIN hs : RunsOf(hs)[q] = Span(q, hs[q])
    BY DEF RunsOf
  <2>2. \A q \in DOMAIN new : Span(q, new[q]) = IF q = p THEN Span(p, o) ELSE RunsOf(hs)[q]
    BY <1>1, <2>1
  <2>3. RunsOf(new) = [q \in DOMAIN new |-> Span(q, new[q])]
    BY DEF RunsOf
  <2>4. QED  BY <1>1, <2>1, <2>2, <2>3
<1>8. QED  BY <1>4, <1>6, <1>7 DEF AddsRun

\* The runs that callers hold, and the pages that none of them has.
LEMMA RunsHeld ==
    ASSUME KallocInv
    PROVE  /\ [p \in DOMAIN held |-> BlockOf(p)] = RunsOf(HeldOrders)
           /\ Caller!Unused = UnusedOf(HeldOrders, Available)
<1> DEFINE hs == HeldOrders
           runs == [p \in DOMAIN held |-> BlockOf(p)]
<1>1. Sound(mem, hs, Available) /\ DOMAIN hs = DOMAIN held
  BY DEF KallocInv, HeldOrders
<1>2. runs = RunsOf(hs)
  <2> HIDE DEF hs
  <2>1. RunsOf(hs) = [p \in DOMAIN held |-> {q \in Page : p <= q /\ q < p + Pow2[mem.order[p] - MinOrder]}]
    BY <1>1, RunsAre
  <2>2. QED  BY <2>1 DEF BlockOf
<1>3. Caller!Unused = Available \ UNION {runs[p] : p \in DOMAIN runs}
  BY DEF Caller!Unused
<1> HIDE DEF runs, hs
<1>4. DOMAIN runs = DOMAIN hs /\ \A p \in DOMAIN hs : runs[p] = Span(p, hs[p])
  BY <1>2 DEF RunsOf
<1>5. UNION {runs[p] : p \in DOMAIN runs} = UNION {Span(p, hs[p]) : p \in DOMAIN hs}
  BY <1>4
<1>6. QED  BY <1>2, <1>3, <1>5 DEF UnusedOf, runs, hs

\* The same after a step.
LEMMA RunsHeldNext ==
    ASSUME KallocSteps
    PROVE  [p \in DOMAIN held |-> BlockOf(p)]' = RunsOf(HeldOrders')
<1> DEFINE hs == HeldOrders'
<1>1. Sound(mem', hs, Available) /\ DOMAIN hs = DOMAIN held'
  BY DEF KallocSteps, HeldOrders
<1> HIDE DEF hs
<1>2. RunsOf(hs) = [p \in DOMAIN held' |-> {q \in Page : p <= q /\ q < p + Pow2[mem'.order[p] - MinOrder]}]
  BY <1>1, RunsAre
<1>3. QED  BY <1>2 DEF BlockOf, hs

\* The runs of the length of a block of order o are the unused blocks of that order.
LEMMA FreeRunsAre ==
    ASSUME KallocInv, NEW o \in Orders
    PROVE  Caller!FreeRuns(Width(o)) =
               {Span(p, o) : p \in {q \in Page : Aligned(q, o) /\ Span(q, o) \subseteq UnusedOf(HeldOrders, Available)}}
<1> DEFINE w == Width(o)
           U == UnusedOf(HeldOrders, Available)
           P == {q \in Page : Aligned(q, o) /\ Span(q, o) \subseteq U}
           I == {i \in 0 .. NPages : Caller!AlignedRun(w, i) \subseteq U}
<1>1. w \in Nat \ {0} /\ NPages \in Nat /\ U \subseteq Page /\ Page = 0 .. NPages - 1
  BY Widths, PagesNat, KAllocAssumption DEF UnusedOf, Page
<1>2. Caller!FreeRuns(w) = {Caller!AlignedRun(w, i) : i \in I}
  BY RunsHeld DEF Caller!FreeRuns
<1>3. ASSUME NEW i \in I PROVE \E p \in P : Caller!AlignedRun(w, i) = Span(p, o)
  <2> DEFINE p == w * i
  <2>1. i \in Nat /\ Caller!AlignedRun(w, i) \subseteq U /\ p \in Nat
    BY <1>1
  <2>2. Caller!AlignedRun(w, i) = p .. (p + w - 1)
    BY DEF Caller!AlignedRun
  <2> HIDE DEF p
  <2>3. p \in p .. (p + w - 1)
    BY <1>1, <2>1
  <2>4. p \in Page
    BY <1>1, <2>1, <2>2, <2>3
  <2> HIDE DEF U
  <2>5. Aligned(p, o) /\ Caller!AlignedRun(w, i) = Span(p, o)
    BY <2>1, <2>4, RunIsSpan DEF p
  <2> HIDE DEF w
  <2>6. p \in P
    BY <2>1, <2>4, <2>5
  <2>7. QED  BY <2>5, <2>6
<1>4. ASSUME NEW p \in P PROVE \E i \in I : Caller!AlignedRun(w, i) = Span(p, o)
  <2>1. p \in Page /\ Aligned(p, o) /\ Span(p, o) \subseteq U
    OBVIOUS
  <2>2. PICK i \in Nat : p = i * w
    BY <2>1 DEF Aligned
  <2> HIDE DEF U, w
  <2>3. p = w * i /\ i <= NPages
    <3>1. i * 1 <= i * w
      BY <1>1
    <3>2. QED  BY <1>1, <2>1, <2>2, <3>1
  <2>4. Caller!AlignedRun(w, i) = Span(p, o)
    BY <2>1, <2>3, RunIsSpan DEF w
  <2>5. i \in I
    BY <1>1, <2>1, <2>3, <2>4
  <2>6. QED  BY <2>4, <2>5
<1> HIDE DEF I, P, U, w
<1>5. {Caller!AlignedRun(w, i) : i \in I} = {Span(p, o) : p \in P}
  BY <1>3, <1>4
<1>6. QED  BY <1>2, <1>5 DEF P, U, w

\* kalloc takes an aligned run of unused pages, or there is none.
LEMMA KallocAllocs ==
    ASSUME KallocInv, NEW sz \in Sizes, kalloc(sz)
    PROVE  Caller!Alloc(Width(OrderFor(sz)))
<1> DEFINE o == OrderFor(sz)
           hs == HeldOrders
           runs == [p \in DOMAIN held |-> BlockOf(p)]
           w == Width(o)
           P == {q \in Page : Aligned(q, o) /\ Span(q, o) \subseteq UnusedOf(hs, Available)}
           p == last'
<1>1. o \in Orders
  BY OrderForIs
<1>2. runs = RunsOf(hs)
  BY RunsHeld
<1>3. Sound(mem, hs, Available) /\ Merged(mem)
  BY DEF KallocInv
<1> DEFINE takes == /\ p \in Page /\ p \notin DOMAIN held /\ KallocSteps
                    /\ HeldOrders' = [q \in DOMAIN hs \cup {p} |-> IF q = p THEN o ELSE hs[q]]
           fails == /\ last' = Nil /\ mem' = mem /\ held' = held
                    /\ \A j \in o .. MaxOrder : Of(mem, j) = {}
<1>4. takes \/ fails
  BY KallocStep
<1>5. Caller!FreeRuns(w) = {Span(q, o) : q \in P}
  BY <1>1, FreeRunsAre
<1>6. CASE takes
  <2>1. runs' = RunsOf(HeldOrders')
    BY <1>6, RunsHeldNext
  <2>2. DOMAIN hs = DOMAIN held
    BY DEF HeldOrders
  <2> DEFINE new == HeldOrders'
             r == Span(p, o)
             x == mem'
  <2>3. p \in Page /\ Sound(x, new, Available) /\ Adds(hs, p, o, new)
    BY <1>6, <2>2 DEF KallocSteps, Adds
  <2> HIDE DEF new, x, hs, o, p
  <2>4. /\ Aligned(p, o) /\ Span(p, o) \subseteq UnusedOf(hs, Available)
        /\ RunsOf(new) = [q \in DOMAIN RunsOf(hs) \cup {p} |-> IF q = p THEN Span(p, o) ELSE RunsOf(hs)[q]]
    <3>1. AddsRun(hs, Available, p, o, new)
      BY <1>1, <2>3, HandedOut
    <3>2. QED  BY <3>1 DEF AddsRun
  <2>5. r \in Caller!FreeRuns(w) /\ Caller!First(r) = p
    BY <1>1, <1>5, <2>3, <2>4, FirstOfSpan
  <2>6. runs' = [q \in DOMAIN runs \cup {p} |-> IF q = p THEN r ELSE runs[q]]
    BY <1>2, <2>1, <2>4 DEF new
  <2>7. last' = Caller!First(r)
    BY <2>5 DEF p
  <2> HIDE DEF w, r
  <2>8. Caller!Alloc(w)
    BY <2>5, <2>6, <2>7 DEF Caller!Alloc
  <2>9. QED  BY <2>8 DEF w, o
<1>7. CASE fails
  <2>1. P = {}
    <3> SUFFICES ASSUME NEW q \in P PROVE FALSE
      OBVIOUS
    <3>1. q \in Page /\ Aligned(q, o) /\ Span(q, o) \subseteq UnusedOf(hs, Available)
      OBVIOUS
    <3>2. \A j \in o .. MaxOrder : Of(mem, j) = {}
      BY <1>7
    <3> HIDE DEF hs, o
    <3>3. QED  BY <1>1, <1>3, <3>1, <3>2, NoRunLeft
  <2>2. Caller!FreeRuns(w) = {}
    <3> HIDE DEF P
    <3> QED  BY <1>5, <2>1
  <2>3. last' = Nil /\ UNCHANGED runs
    BY <1>7 DEF BlockOf
  <2>4. Caller!Nil = Nil
    BY DEF Caller!Nil, Nil
  <2> HIDE DEF w
  <2>5. Caller!Alloc(w)
    BY <2>2, <2>3, <2>4 DEF Caller!Alloc
  <2>6. QED  BY <2>5 DEF w
<1>8. QED  BY <1>4, <1>6, <1>7

\* kfree gives back the run that was handed out.
LEMMA KfreeFrees ==
    ASSUME KallocInv, NEW p \in Page, kfree(p)
    PROVE  Caller!Free(p)
<1> DEFINE hs == HeldOrders
           runs == [q \in DOMAIN held |-> BlockOf(q)]
<1>1. /\ p \in DOMAIN held /\ last' = last /\ KallocSteps
      /\ HeldOrders' = [q \in DOMAIN hs \ {p} |-> hs[q]]
  BY KfreeStep
<1>2. runs = RunsOf(hs) /\ runs' = RunsOf(HeldOrders')
  BY <1>1, RunsHeld, RunsHeldNext
<1>3. DOMAIN runs = DOMAIN held /\ DOMAIN hs = DOMAIN held
  BY DEF HeldOrders
<1> DEFINE new == [q \in DOMAIN hs \ {p} |-> hs[q]]
<1>4. RunsOf(new) = [q \in DOMAIN RunsOf(hs) \ {p} |-> RunsOf(hs)[q]]
  <2> HIDE DEF hs
  <2>1. DOMAIN RunsOf(hs) = DOMAIN hs /\ \A q \in DOMAIN hs : RunsOf(hs)[q] = Span(q, hs[q])
    BY DEF RunsOf
  <2>2. DOMAIN new = DOMAIN hs \ {p} /\ \A q \in DOMAIN new : new[q] = hs[q]
    OBVIOUS
  <2>3. RunsOf(new) = [q \in DOMAIN new |-> Span(q, new[q])]
    BY DEF RunsOf
  <2> HIDE DEF new
  <2>4. QED  BY <2>1, <2>2, <2>3
<1> HIDE DEF hs, new
<1>5. HeldOrders' = new
  BY <1>1 DEF new
<1>6. runs' = [q \in DOMAIN runs \ {p} |-> runs[q]]
  BY <1>2, <1>4, <1>5
<1>7. QED  BY <1>1, <1>3, <1>6 DEF Caller!Free

\* To its callers the buddy allocator is PageAlloc: a block handed out is an
\* aligned run of pages nobody holds, kalloc returns nullptr only when there is no
\* such run, and kfree gives back exactly the pages that were handed out.
THEOREM KallocIsPageAlloc == KallocSpec => ImplementsPageAlloc
<1>1. KallocInit => Caller!Init
  <2> SUFFICES ASSUME KallocInit PROVE Caller!Init
    OBVIOUS
  <2>1. held = <<>> /\ last = Nil /\ DOMAIN held = {}
    BY DEF KallocInit
  <2>2. [p \in DOMAIN held |-> BlockOf(p)] = <<>>
    BY <2>1
  <2>3. QED  BY <2>1, <2>2 DEF Caller!Init, Caller!Nil, Nil
<1>2. KallocInv /\ [KallocNext]_kallocVars => [Caller!Next]_Caller!avars
  <2> SUFFICES ASSUME KallocInv, [KallocNext]_kallocVars PROVE [Caller!Next]_Caller!avars
    OBVIOUS
  <2>1. ASSUME NEW sz \in Sizes, kalloc(sz) PROVE Caller!Next
    <3> DEFINE w == Pow2[OrderFor(sz) - MinOrder]
    <3>1. w = Width(OrderFor(sz))
      BY DEF Width
    <3> HIDE DEF w
    <3>2. Caller!Alloc(w)
      BY <2>1, <3>1, KallocAllocs
    <3>3. w \in {Pow2[OrderFor(s) - MinOrder] : s \in Sizes}
      BY DEF w
    <3>4. QED  BY <3>2, <3>3 DEF Caller!Next
  <2>2. ASSUME NEW p \in Page, kfree(p) PROVE Caller!Next
    <3>1. Caller!Free(p) /\ p \in Caller!Page
      BY <2>2, KfreeFrees DEF Caller!Page, Page
    <3>2. QED  BY <3>1 DEF Caller!Next
  <2>3. CASE UNCHANGED kallocVars
    BY <2>3 DEF kallocVars, Caller!avars, BlockOf
  <2>4. QED  BY <2>1, <2>2, <2>3 DEF KallocNext
<1>3. QED  BY <1>1, <1>2, KallocInvAlways, PTL DEF KallocSpec, ImplementsPageAlloc, Caller!Spec

-----------------------------------------------------------------------------
(***************************************************************************)
(* The buffer cache.                                                       *)
(***************************************************************************)
\* Who holds which lock.
Locks ==
    \A t \in Task : /\ pc[t] \in {"ref", "ref1", "switch", "put", "put1"} => lock = t
                    /\ pc[t] \in {"load", "unref", "unref1"} => elock[slot[t]] = t

\* A task that has found its entry keeps it; what it has loaded of ref_ is current;
\* and while it undoes its reference the entry has no buffer.
Serving ==
    \A t \in Task :
        /\ pc[t] # "idle" => want[t] \in Block
        /\ pc[t] \in Referring \cup {"ref", "ref1"} => bn[slot[t]] = want[t]
        /\ pc[t] \in {"ref1", "put1", "unref1"} => tmp[t] = ref[slot[t]]
        /\ pc[t] \in {"unref", "unref1"} => buf[slot[t]] = None

\* What an entry's flags say of its buffer.
Flags ==
    \A i \in Entry :
        /\ bn[i] = None => buf[i] = None /\ loading[i] = FALSE /\ loaded[i] = FALSE
        /\ loading[i] = TRUE => buf[i] # None /\ loaded[i] = FALSE
        /\ loaded[i] = TRUE => buf[i] # None /\ content[buf[i]] = bn[i]

Distinct ==
    \A i, j \in Entry : i # j => /\ bn[i] # None => bn[i] # bn[j]
                                 /\ buf[i] # None => buf[i] # buf[j]

\* A buffer is not free while it is in an entry.
Kept == \A i \in Entry : buf[i] \notin heap

Reads(t) == pc[t] \in {"reading", "read"}

\* f_loading is set exactly while one task reads into the entry.
Reading ==
    /\ \A t \in Task : /\ Reads(t) => loading[slot[t]] = TRUE
                       /\ pc[t] = "read" => content[buf[slot[t]]] = want[t]
    /\ \A t, u \in Task : Reads(t) /\ Reads(u) /\ slot[t] = slot[u] => t = u
    /\ \A i \in Entry : loading[i] = TRUE => \E t \in Task : Reads(t) /\ slot[t] = i

\* What get_disk_block has returned stays loaded.
Holding ==
    \A t \in Task : pc[t] \in {"held", "drop", "put", "put1"} =>
        loaded[slot[t]] = TRUE /\ mine[t] = buf[slot[t]]

Counted == \A i \in Entry : ref[i] = Cardinality(Holders(i))

\* The variables have their types; the bound of ref_ follows from Counted.
Typed == /\ lock \in Task \cup {None}
         /\ elock \in [Entry -> Task \cup {None}]
         /\ bn \in [Entry -> Block \cup {None}]
         /\ ref \in [Entry -> Nat]
         /\ loading \in [Entry -> BOOLEAN] /\ loaded \in [Entry -> BOOLEAN]
         /\ buf \in [Entry -> Buffer \cup {None}]
         /\ heap \subseteq Buffer
         /\ content \in [Buffer -> Block \cup {None}]
         /\ pc \in [Task -> Labels]
         /\ want \in [Task -> Block \cup {None}]
         /\ slot \in [Task -> Entry]
         /\ tmp \in [Task -> Nat]
         /\ mine \in [Task -> Buffer \cup {None}]

\* The inductive invariant.
IInv == Typed /\ Locks /\ Serving /\ Flags /\ Distinct /\ Kept /\ Reading /\ Holding /\ Counted
-----------------------------------------------------------------------------
(***************************************************************************)
(* References are counted.                                                 *)
(***************************************************************************)
\* The tasks that have a reference are finitely many.
LEMMA HoldersFinite ==
    ASSUME NEW i \in Entry
    PROVE  /\ IsFiniteSet(Holders(i)) /\ Holders(i) \in SUBSET Task
           /\ Cardinality(Holders(i)) \in Nat
           /\ Cardinality(Holders(i)) <= Cardinality(Task)
<1>1. Holders(i) \in SUBSET Task
  BY DEF Holders
<1>2. IsFiniteSet(Task)
  BY BufCacheAssumption
<1> QED
  BY <1>1, <1>2, FS_Subset, FS_CardinalityType

\* ref_ is not 0 while a task has a reference, and 1 only if no other task has one.
LEMMA OneReference ==
    ASSUME Typed, Counted, NEW t \in Task, pc[t] \in Referring
    PROVE  /\ ref[slot[t]] \in Nat \ {0}
           /\ ref[slot[t]] = 1 => \A u \in Task : pc[u] \in Referring /\ slot[u] = slot[t] => u = t
<1> DEFINE i == slot[t]
<1>1. i \in Entry /\ ref[i] = Cardinality(Holders(i)) /\ t \in Holders(i)
  BY DEF Typed, Counted, Holders
<1>2. IsFiniteSet(Holders(i)) /\ Cardinality(Holders(i)) \in Nat
  BY <1>1, HoldersFinite
<1>3. Cardinality(Holders(i)) # 0
  BY <1>1, <1>2, FS_EmptySet
<1>4. ASSUME Cardinality(Holders(i)) = 1, NEW u \in Task, u \in Holders(i)
      PROVE  u = t
  BY <1>1, <1>2, <1>4, FS_Singleton
<1>5. ref[i] = 1 => \A u \in Task : pc[u] \in Referring /\ slot[u] = i => u = t
  BY <1>1, <1>4 DEF Holders
<1> QED
  BY <1>1, <1>2, <1>3, <1>5

\* A step that gives a task its reference and counts it keeps the count.
LEMMA CountUp ==
    ASSUME Typed, Counted, NEW t \in Task, pc[t] \notin Referring,
           pc' = [pc EXCEPT ![t] = "switch"], slot' = slot,
           ref' = [ref EXCEPT ![slot[t]] = ref[slot[t]] + 1]
    PROVE  Counted'
<1> SUFFICES ASSUME NEW i \in Entry PROVE ref'[i] = Cardinality(Holders(i)')
  BY DEF Counted
<1>1. IsFiniteSet(Holders(i)) /\ ref[i] = Cardinality(Holders(i))
  BY HoldersFinite DEF Counted
<1>2. CASE i = slot[t]
  <2>1. Holders(i)' = Holders(i) \cup {t} /\ t \notin Holders(i)
    BY <1>2 DEF Holders, Referring, Typed
  <2>2. ref'[i] = ref[i] + 1
    BY <1>2 DEF Typed
  <2> QED
    BY <1>1, <2>1, <2>2, FS_AddElement
<1>3. CASE i # slot[t]
  <2>1. Holders(i)' = Holders(i)
    BY <1>3 DEF Holders, Referring, Typed
  <2>2. ref'[i] = ref[i]
    BY <1>3 DEF Typed
  <2> QED
    BY <1>1, <2>1, <2>2
<1> QED
  BY <1>2, <1>3

\* And so does one that takes it away.
LEMMA CountDown ==
    ASSUME Typed, Counted, NEW t \in Task, pc[t] \in Referring,
           pc' = [pc EXCEPT ![t] = "idle"], slot' = slot,
           ref' = [ref EXCEPT ![slot[t]] = ref[slot[t]] - 1]
    PROVE  Counted'
<1> SUFFICES ASSUME NEW i \in Entry PROVE ref'[i] = Cardinality(Holders(i)')
  BY DEF Counted
<1>1. IsFiniteSet(Holders(i)) /\ ref[i] = Cardinality(Holders(i))
  BY HoldersFinite DEF Counted
<1>2. CASE i = slot[t]
  <2>1. Holders(i)' = Holders(i) \ {t} /\ t \in Holders(i)
    BY <1>2 DEF Holders, Referring, Typed
  <2>2. ref'[i] = ref[i] - 1
    BY <1>2 DEF Typed
  <2> QED
    BY <1>1, <2>1, <2>2, FS_RemoveElement
<1>3. CASE i # slot[t]
  <2>1. Holders(i)' = Holders(i)
    BY <1>3 DEF Holders, Referring, Typed
  <2>2. ref'[i] = ref[i]
    BY <1>3 DEF Typed
  <2> QED
    BY <1>1, <2>1, <2>2
<1> QED
  BY <1>2, <1>3

\* A step that neither gives nor takes a reference.
LEMMA CountSame ==
    ASSUME Counted, ref' = ref, \A i \in Entry : Holders(i)' = Holders(i)
    PROVE  Counted'
  BY DEF Counted
-----------------------------------------------------------------------------
(***************************************************************************)
(* A task in get_disk_block or put_block asks for a block, which is the    *)
(* block of the entry it has found.                                        *)
(***************************************************************************)
\* The entry a task has found is not empty.
LEMMA Found ==
    ASSUME Typed, Serving, NEW t \in Task, pc[t] # "idle"
    PROVE  /\ want[t] \in Block /\ want[t] # None
           /\ pc[t] \in Referring \cup {"ref", "ref1"} => bn[slot[t]] \in Block /\ bn[slot[t]] # None
<1>2. want[t] \in Block /\ want[t] # None
  BY BufCacheAssumption DEF Serving
<1> QED
  BY <1>2 DEF Serving
-----------------------------------------------------------------------------
(***************************************************************************)
(* The steps.                                                              *)
(***************************************************************************)
\* A task calls get_disk_block.
LEMMA GetKeeps ==
    ASSUME IInv, NEW t \in Task, NEW b \in Block, Get(t, b)
    PROVE  IInv'
<1> USE BufCacheAssumption DEF IInv, Typed, Goto, Forget, Leave, entries, memory, locals
<1>1. Typed'
  BY DEF Get, Labels
<1>2. Locks'
  BY DEF Get, Locks, Serving
<1>3. Serving'
  BY DEF Get, Locks, Serving, Labels, Referring
<1>4. Flags'
  BY DEF Get, Flags, Serving, Referring
<1>5. Distinct'
  BY DEF Get, Distinct, Flags, Serving, Referring
<1>6. Kept'
  BY DEF Get, Kept, Distinct, Flags, Holding, Reading
<1>7. Reading'
  BY DEF Get, Reading, Reads, Serving, Flags, Distinct, Referring
<1>8. Holding'
  BY DEF Get, Holding, Flags, Serving, Reading, Reads, Referring, Distinct
<1>9. Counted'
  BY DEF Get, Counted, Holders, Referring, Labels
<1> QED
  BY <1>1, <1>2, <1>3, <1>4, <1>5, <1>6, <1>7, <1>8, <1>9

\* It takes the entry of its block, or an empty one if there is none.
LEMMA FindKeeps ==
    ASSUME IInv, NEW t \in Task, Find(t)
    PROVE  IInv'
<1> USE BufCacheAssumption DEF IInv, Typed, Goto, Forget, Leave, entries, memory, locals
<1>i. PICK i \in Candidates(want[t]) : bn' = [bn EXCEPT ![i] = want[t]] /\ slot' = [slot EXCEPT ![t] = i]
  BY DEF Find
<1>c. i \in Entry /\ want[t] \in Block /\ want[t] # None
      /\ (bn[i] = want[t] \/ (bn[i] = None /\ \A j \in Entry : bn[j] # want[t]))
  <2>1. pc[t] = "get"
    BY DEF Find
  <2>2. want[t] \in Block /\ want[t] # None
    BY <2>1, Found
  <2>3. CASE Matches(want[t]) # {}
    BY <1>i, <2>2, <2>3 DEF Candidates, Matches
  <2>4. CASE Matches(want[t]) = {}
    BY <1>i, <2>2, <2>4 DEF Candidates, Matches
  <2> QED
    BY <2>3, <2>4
<1>u. ASSUME NEW u \in Task, u # t, pc[u] \in Referring \cup {"ref", "ref1"}
      PROVE  slot'[u] = slot[u] /\ bn'[slot[u]] = bn[slot[u]]
  <2>1. pc[u] # "idle"
    BY <1>u DEF Referring
  <2>2. bn[slot[u]] \in Block /\ bn[slot[u]] # None
    BY <1>u, <2>1, Found
  <2> QED
    BY <1>i, <1>c, <1>u, <2>2
<1>1. Typed'
  BY <1>i, <1>c DEF Find, Labels
<1>2. Locks'
  BY DEF Find, Locks, Serving
<1>3. Serving'
  BY <1>i, <1>c, <1>u DEF Find, Locks, Serving, Labels, Referring
<1>4. Flags'
  BY <1>i, <1>c DEF Find, Flags
<1>5. Distinct'
  BY <1>i, <1>c DEF Find, Distinct
<1>6. Kept'
  BY DEF Find, Kept, Distinct, Flags, Holding, Reading
<1>7. Reading'
  BY DEF Find, Reading, Reads, Serving, Flags, Distinct, Referring
<1>8. Holding'
  BY DEF Find, Holding, Flags, Serving, Reading, Reads, Referring, Distinct
<1>9. Counted'
  BY DEF Find, Counted, Holders, Referring, Labels
<1> QED
  BY <1>1, <1>2, <1>3, <1>4, <1>5, <1>6, <1>7, <1>8, <1>9

\* There is no entry for its block.
LEMMA NoRoomKeeps ==
    ASSUME IInv, NEW t \in Task, NoRoom(t)
    PROVE  IInv'
<1> USE BufCacheAssumption DEF IInv, Typed, Goto, Forget, Leave, entries, memory, locals
<1>1. Typed'
  BY DEF NoRoom, Labels
<1>2. Locks'
  BY DEF NoRoom, Locks, Serving
<1>3. Serving'
  BY DEF NoRoom, Locks, Serving, Labels, Referring
<1>4. Flags'
  BY DEF NoRoom, Flags, Serving, Referring
<1>5. Distinct'
  BY DEF NoRoom, Distinct, Flags, Serving, Referring
<1>6. Kept'
  BY DEF NoRoom, Kept, Distinct, Flags, Holding, Reading
<1>7. Reading'
  BY DEF NoRoom, Reading, Reads, Serving, Flags, Distinct, Referring
<1>8. Holding'
  BY DEF NoRoom, Holding, Flags, Serving, Reading, Reads, Referring, Distinct
<1>9. Counted'
  BY DEF NoRoom, Counted, Holders, Referring, Labels
<1> QED
  BY <1>1, <1>2, <1>3, <1>4, <1>5, <1>6, <1>7, <1>8, <1>9

\* It loads ref_, to change it.
LEMMA LoadRefKeeps ==
    ASSUME IInv, NEW t \in Task, LoadRef(t, "ref", "ref1") \/ LoadRef(t, "unref", "unref1") \/ LoadRef(t, "put", "put1")
    PROVE  IInv'
<1> USE BufCacheAssumption DEF IInv, Typed, Goto, Forget, Leave, entries, memory, locals
<1>1. Typed'
  BY DEF LoadRef, Labels
<1>2. Locks'
  BY DEF LoadRef, Locks, Serving
<1>3. Serving'
  BY DEF LoadRef, Locks, Serving, Labels, Referring
<1>4. Flags'
  BY DEF LoadRef, Flags, Serving, Referring
<1>5. Distinct'
  BY DEF LoadRef, Distinct, Flags, Serving, Referring
<1>6. Kept'
  BY DEF LoadRef, Kept, Distinct, Flags, Holding, Reading
<1>7. Reading'
  <2>1. \A u \in Task : (Reads(u)' <=> Reads(u)) /\ (pc'[u] = "read" <=> pc[u] = "read")
    BY DEF LoadRef, Reads
  <2> QED
    BY <2>1 DEF LoadRef, Reading
<1>8. Holding'
  BY DEF LoadRef, Holding, Flags, Serving, Reading, Reads, Referring, Distinct
<1>9. Counted'
  BY DEF LoadRef, Counted, Holders, Referring, Labels
<1> QED
  BY <1>1, <1>2, <1>3, <1>4, <1>5, <1>6, <1>7, <1>8, <1>9

\* It stores ++ref_; no --ref_ is under way for that entry.
LEMMA AddRefKeeps ==
    ASSUME IInv, Serial, NEW t \in Task, AddRef(t)
    PROVE  IInv'
<1> USE BufCacheAssumption DEF IInv, Typed, Goto, Forget, Leave, entries, memory, locals
<1>1. Typed'
  BY DEF AddRef, Labels
<1>2. Locks'
  BY DEF AddRef, Locks, Serving
<1>3. Serving'
  <2>1. ASSUME NEW u \in Task, u # t, pc[u] \in {"ref1", "put1"} PROVE FALSE
    BY <2>1 DEF AddRef, Locks
  <2>2. ASSUME NEW u \in Task, u # t, pc[u] = "unref1" PROVE slot[u] # slot[t]
    BY <2>2 DEF AddRef, Serial
  <2> QED
    BY <2>1, <2>2 DEF AddRef, Serving, Referring, Labels
<1>4. Flags'
  BY DEF AddRef, Flags, Serving, Referring
<1>5. Distinct'
  BY DEF AddRef, Distinct, Flags, Serving, Referring
<1>6. Kept'
  BY DEF AddRef, Kept, Distinct, Flags, Holding, Reading
<1>7. Reading'
  BY DEF AddRef, Reading, Reads, Serving, Flags, Distinct, Referring
<1>8. Holding'
  BY DEF AddRef, Holding, Flags, Serving, Reading, Reads, Referring, Distinct
<1>9. Counted'
  BY CountUp DEF AddRef, Serving, Referring
<1> QED
  BY <1>1, <1>2, <1>3, <1>4, <1>5, <1>6, <1>7, <1>8, <1>9

\* It changes the cache's lock for the entry's.
LEMMA SwitchKeeps ==
    ASSUME IInv, NEW t \in Task, Switch(t)
    PROVE  IInv'
<1> USE BufCacheAssumption DEF IInv, Typed, Goto, Forget, Leave, entries, memory, locals
<1>1. Typed'
  BY DEF Switch, Labels
<1>2. Locks'
  BY DEF Switch, Locks, Serving
<1>3. Serving'
  BY DEF Switch, Locks, Serving, Labels, Referring
<1>4. Flags'
  BY DEF Switch, Flags, Serving, Referring
<1>5. Distinct'
  BY DEF Switch, Distinct, Flags, Serving, Referring
<1>6. Kept'
  BY DEF Switch, Kept, Distinct, Flags, Holding, Reading
<1>7. Reading'
  BY DEF Switch, Reading, Reads, Serving, Flags, Distinct, Referring
<1>8. Holding'
  BY DEF Switch, Holding, Flags, Serving, Reading, Reads, Referring, Distinct
<1>9. Counted'
  BY DEF Switch, Counted, Holders, Referring, Labels
<1> QED
  BY <1>1, <1>2, <1>3, <1>4, <1>5, <1>6, <1>7, <1>8, <1>9

\* get_disk_block returns the buffer.
LEMMA ReturnKeeps ==
    ASSUME IInv, NEW t \in Task, Return(t)
    PROVE  IInv'
<1> USE BufCacheAssumption DEF IInv, Typed, Goto, Forget, Leave, entries, memory, locals
<1>1. Typed'
  BY DEF Return, Labels
<1>2. Locks'
  BY DEF Return, Locks, Serving
<1>3. Serving'
  BY DEF Return, Locks, Serving, Labels, Referring
<1>4. Flags'
  BY DEF Return, Flags, Serving, Referring
<1>5. Distinct'
  BY DEF Return, Distinct, Flags, Serving, Referring
<1>6. Kept'
  BY DEF Return, Kept, Distinct, Flags, Holding, Reading
<1>7. Reading'
  BY DEF Return, Reading, Reads, Serving, Flags, Distinct, Referring
<1>8. Holding'
  BY DEF Return, Holding, Flags, Serving, Reading, Reads, Referring, Distinct
<1>9. Counted'
  BY DEF Return, Counted, Holders, Referring, Labels
<1> QED
  BY <1>1, <1>2, <1>3, <1>4, <1>5, <1>6, <1>7, <1>8, <1>9

\* It starts to read, into a new buffer if the entry has none.
LEMMA StartReadKeeps ==
    ASSUME IInv, NEW t \in Task, StartRead(t)
    PROVE  IInv'
<1> USE BufCacheAssumption DEF IInv, Typed, Goto, Forget, Leave, entries, memory, locals
<1> DEFINE i == slot[t]
<1>i. i \in Entry /\ bn[i] # None /\ loaded[i] = FALSE /\ loading[i] = FALSE
  <2>1. pc[t] = "load"
    BY DEF StartRead
  <2>2. i \in Entry /\ bn[i] # None
    BY <2>1, Found DEF Referring
  <2> QED
    BY <2>2 DEF StartRead
<1>b. /\ \A j \in Entry : j # i => buf'[j] = buf[j]
      /\ buf'[i] \in Buffer /\ \A j \in Entry : j # i => buf[j] # buf'[i]
  BY <1>i DEF StartRead, Distinct, Kept
<1>1. Typed'
  BY DEF StartRead, Labels
<1>2. Locks'
  BY DEF StartRead, Locks, Serving
<1>3. Serving'
  BY DEF StartRead, Locks, Serving, Labels, Referring
<1>4. Flags'
  BY <1>i, <1>b DEF StartRead, Flags
<1>5. Distinct'
  BY <1>i, <1>b DEF StartRead, Distinct
<1>6. Kept'
  BY DEF StartRead, Kept, Distinct, Flags, Holding, Reading
<1>7. Reading'
  BY DEF StartRead, Reading, Reads, Serving, Flags, Distinct, Referring
<1>8. Holding'
  BY DEF StartRead, Holding, Flags, Serving, Reading, Reads, Referring, Distinct
<1>9. Counted'
  BY DEF StartRead, Counted, Holders, Referring, Labels
<1> QED
  BY <1>1, <1>2, <1>3, <1>4, <1>5, <1>6, <1>7, <1>8, <1>9

\* Somebody else reads: it waits.
LEMMA AwaitReadKeeps ==
    ASSUME IInv, NEW t \in Task, AwaitRead(t)
    PROVE  IInv'
<1> USE BufCacheAssumption DEF IInv, Typed, Goto, Forget, Leave, entries, memory, locals
<1>1. Typed'
  BY DEF AwaitRead, Labels
<1>2. Locks'
  BY DEF AwaitRead, Locks, Serving
<1>3. Serving'
  BY DEF AwaitRead, Locks, Serving, Labels, Referring
<1>4. Flags'
  BY DEF AwaitRead, Flags, Serving, Referring
<1>5. Distinct'
  BY DEF AwaitRead, Distinct, Flags, Serving, Referring
<1>6. Kept'
  BY DEF AwaitRead, Kept, Distinct, Flags, Holding, Reading
<1>7. Reading'
  BY DEF AwaitRead, Reading, Reads, Serving, Flags, Distinct, Referring
<1>8. Holding'
  BY DEF AwaitRead, Holding, Flags, Serving, Reading, Reads, Referring, Distinct
<1>9. Counted'
  BY DEF AwaitRead, Counted, Holders, Referring, Labels
<1> QED
  BY <1>1, <1>2, <1>3, <1>4, <1>5, <1>6, <1>7, <1>8, <1>9

\* It looks again.
LEMMA RelockKeeps ==
    ASSUME IInv, NEW t \in Task, Relock(t)
    PROVE  IInv'
<1> USE BufCacheAssumption DEF IInv, Typed, Goto, Forget, Leave, entries, memory, locals
<1>1. Typed'
  BY DEF Relock, Labels
<1>2. Locks'
  BY DEF Relock, Locks, Serving
<1>3. Serving'
  BY DEF Relock, Locks, Serving, Labels, Referring
<1>4. Flags'
  BY DEF Relock, Flags, Serving, Referring
<1>5. Distinct'
  BY DEF Relock, Distinct, Flags, Serving, Referring
<1>6. Kept'
  BY DEF Relock, Kept, Distinct, Flags, Holding, Reading
<1>7. Reading'
  BY DEF Relock, Reading, Reads, Serving, Flags, Distinct, Referring
<1>8. Holding'
  BY DEF Relock, Holding, Flags, Serving, Reading, Reads, Referring, Distinct
<1>9. Counted'
  BY DEF Relock, Counted, Holders, Referring, Labels
<1> QED
  BY <1>1, <1>2, <1>3, <1>4, <1>5, <1>6, <1>7, <1>8, <1>9

\* kalloc fails.
LEMMA NoMemoryKeeps ==
    ASSUME IInv, NEW t \in Task, NoMemory(t)
    PROVE  IInv'
<1> USE BufCacheAssumption DEF IInv, Typed, Goto, Forget, Leave, entries, memory, locals
<1>1. Typed'
  BY DEF NoMemory, Labels
<1>2. Locks'
  BY DEF NoMemory, Locks, Serving
<1>3. Serving'
  BY DEF NoMemory, Locks, Serving, Labels, Referring
<1>4. Flags'
  BY DEF NoMemory, Flags, Serving, Referring
<1>5. Distinct'
  BY DEF NoMemory, Distinct, Flags, Serving, Referring
<1>6. Kept'
  BY DEF NoMemory, Kept, Distinct, Flags, Holding, Reading
<1>7. Reading'
  BY DEF NoMemory, Reading, Reads, Serving, Flags, Distinct, Referring
<1>8. Holding'
  BY DEF NoMemory, Holding, Flags, Serving, Reading, Reads, Referring, Distinct
<1>9. Counted'
  BY DEF NoMemory, Counted, Holders, Referring, Labels
<1> QED
  BY <1>1, <1>2, <1>3, <1>4, <1>5, <1>6, <1>7, <1>8, <1>9

\* It stores --ref_ without the cache's lock: no other task is changing the count of
\* this entry, because it has the entry's lock, the entry has no buffer to be put
\* back, and no ++ref_ is under way for it.
LEMMA UndoRefKeeps ==
    ASSUME IInv, Serial, NEW t \in Task, UndoRef(t)
    PROVE  IInv'
<1> USE BufCacheAssumption DEF IInv, Typed, Goto, Forget, Leave, entries, memory, locals
<1>a. ASSUME NEW u \in Task, u # t, pc[u] \in {"load", "unref", "unref1", "ref1", "put1"}
      PROVE  slot[u] # slot[t]
  <2>1. CASE pc[u] \in {"load", "unref", "unref1"}
    BY <1>a, <2>1 DEF UndoRef, Locks
  <2>2. CASE pc[u] = "ref1"
    BY <2>2 DEF UndoRef, Serial
  <2>3. CASE pc[u] = "put1"
    BY <2>3 DEF UndoRef, Serving, Holding, Flags
  <2> QED
    BY <1>a, <2>1, <2>2, <2>3
<1>r. ref[slot[t]] \in Nat \ {0} /\ pc[t] \in Referring /\ tmp[t] = ref[slot[t]]
  BY OneReference DEF UndoRef, Referring, Serving
<1>1. Typed'
  <2>1. tmp[t] - 1 \in Nat
    BY <1>r
  <2> QED
    BY <2>1 DEF UndoRef, Labels
<1>2. Locks'
  BY <1>a DEF UndoRef, Locks, Referring
<1>3. Serving'
  BY <1>a DEF UndoRef, Serving, Referring, Labels
<1>4. Flags'
  BY DEF UndoRef, Flags, Serving, Referring
<1>5. Distinct'
  BY DEF UndoRef, Distinct, Flags, Serving, Referring
<1>6. Kept'
  BY DEF UndoRef, Kept, Distinct, Flags, Holding, Reading
<1>7. Reading'
  BY DEF UndoRef, Reading, Reads, Serving, Flags, Distinct, Referring
<1>8. Holding'
  BY DEF UndoRef, Holding, Flags, Serving, Reading, Reads, Referring, Distinct
<1>9. Counted'
  BY <1>r, CountDown DEF UndoRef
<1> QED
  BY <1>1, <1>2, <1>3, <1>4, <1>5, <1>6, <1>7, <1>8, <1>9

\* The disk has filled the buffer.
LEMMA DiskReadKeeps ==
    ASSUME IInv, NEW t \in Task, DiskRead(t)
    PROVE  IInv'
<1> USE BufCacheAssumption DEF IInv, Typed, Goto, Forget, Leave, entries, memory, locals
<1>i. slot[t] \in Entry /\ loaded[slot[t]] = FALSE /\ buf[slot[t]] \in Buffer
  BY DEF DiskRead, Reading, Reads, Flags
<1>1. Typed'
  BY DEF DiskRead, Labels
<1>2. Locks'
  BY DEF DiskRead, Locks, Serving
<1>3. Serving'
  BY DEF DiskRead, Locks, Serving, Labels, Referring
<1>4. Flags'
  <2>1. ASSUME NEW j \in Entry, loaded[j] = TRUE PROVE buf[j] # buf[slot[t]]
    BY <1>i, <2>1 DEF Distinct, Flags
  <2> QED
    BY <1>i, <2>1 DEF DiskRead, Flags
<1>5. Distinct'
  BY DEF DiskRead, Distinct, Flags, Serving, Referring
<1>6. Kept'
  BY DEF DiskRead, Kept, Distinct, Flags, Holding, Reading
<1>7. Reading'
  BY DEF DiskRead, Reading, Reads, Serving, Flags, Distinct, Referring
<1>8. Holding'
  BY DEF DiskRead, Holding, Flags, Serving, Reading, Reads, Referring, Distinct
<1>9. Counted'
  BY DEF DiskRead, Counted, Holders, Referring, Labels
<1> QED
  BY <1>1, <1>2, <1>3, <1>4, <1>5, <1>6, <1>7, <1>8, <1>9

\* It marks the block as loaded.
LEMMA FinishReadKeeps ==
    ASSUME IInv, NEW t \in Task, FinishRead(t)
    PROVE  IInv'
<1> USE BufCacheAssumption DEF IInv, Typed, Goto, Forget, Leave, entries, memory, locals
<1>i. slot[t] \in Entry /\ buf[slot[t]] # None /\ content[buf[slot[t]]] = bn[slot[t]]
      /\ bn[slot[t]] \in Block
  BY DEF FinishRead, Reading, Reads, Flags, Serving, Referring
<1>1. Typed'
  BY DEF FinishRead, Labels
<1>2. Locks'
  BY DEF FinishRead, Locks, Serving
<1>3. Serving'
  BY DEF FinishRead, Locks, Serving, Labels, Referring
<1>4. Flags'
  BY <1>i DEF FinishRead, Flags
<1>5. Distinct'
  BY DEF FinishRead, Distinct, Flags, Serving, Referring
<1>6. Kept'
  BY DEF FinishRead, Kept, Distinct, Flags, Holding, Reading
<1>7. Reading'
  BY DEF FinishRead, Reading, Reads, Serving, Flags, Distinct, Referring
<1>8. Holding'
  BY DEF FinishRead, Holding, Flags, Serving, Reading, Reads, Referring, Distinct
<1>9. Counted'
  BY DEF FinishRead, Counted, Holders, Referring, Labels
<1> QED
  BY <1>1, <1>2, <1>3, <1>4, <1>5, <1>6, <1>7, <1>8, <1>9

\* A task calls put_block.
LEMMA CallPutKeeps ==
    ASSUME IInv, NEW t \in Task, CallPut(t)
    PROVE  IInv'
<1> USE BufCacheAssumption DEF IInv, Typed, Goto, Forget, Leave, entries, memory, locals
<1>1. Typed'
  BY DEF CallPut, Labels
<1>2. Locks'
  BY DEF CallPut, Locks, Serving
<1>3. Serving'
  BY DEF CallPut, Locks, Serving, Labels, Referring
<1>4. Flags'
  BY DEF CallPut, Flags, Serving, Referring
<1>5. Distinct'
  BY DEF CallPut, Distinct, Flags, Serving, Referring
<1>6. Kept'
  BY DEF CallPut, Kept, Distinct, Flags, Holding, Reading
<1>7. Reading'
  BY DEF CallPut, Reading, Reads, Serving, Flags, Distinct, Referring
<1>8. Holding'
  BY DEF CallPut, Holding, Flags, Serving, Reading, Reads, Referring, Distinct
<1>9. Counted'
  BY DEF CallPut, Counted, Holders, Referring, Labels
<1> QED
  BY <1>1, <1>2, <1>3, <1>4, <1>5, <1>6, <1>7, <1>8, <1>9

\* put_block finds the entry it had.
LEMMA PutKeeps ==
    ASSUME IInv, NEW t \in Task, Put(t)
    PROVE  IInv'
<1> USE BufCacheAssumption DEF IInv, Typed, Goto, Forget, Leave, entries, memory, locals
<1>i. slot' = slot
  <2>1. PICK i \in Entry : buf[i] = mine[t] /\ slot' = [slot EXCEPT ![t] = i]
    BY DEF Put
  <2>2. i = slot[t]
    BY <2>1 DEF Put, Holding, Flags, Distinct
  <2> QED
    BY <2>1, <2>2
<1>1. Typed'
  BY DEF Put, Labels
<1>2. Locks'
  BY DEF Put, Locks, Serving
<1>3. Serving'
  BY <1>i DEF Put, Locks, Serving, Labels, Referring
<1>4. Flags'
  BY DEF Put, Flags, Serving, Referring
<1>5. Distinct'
  BY DEF Put, Distinct, Flags, Serving, Referring
<1>6. Kept'
  BY DEF Put, Kept, Distinct, Flags, Holding, Reading
<1>7. Reading'
  BY DEF Put, Reading, Reads, Serving, Flags, Distinct, Referring
<1>8. Holding'
  BY DEF Put, Holding, Flags, Serving, Reading, Reads, Referring, Distinct
<1>9. Counted'
  <2>1. \A i \in Entry : Holders(i)' = Holders(i)
    BY <1>i DEF Put, Holders, Referring
  <2> QED
    BY <2>1, CountSame DEF Put
<1> QED
  BY <1>1, <1>2, <1>3, <1>4, <1>5, <1>6, <1>7, <1>8, <1>9

\* It stores --ref_, and the last reference frees the buffer.
LEMMA DropRefKeeps ==
    ASSUME IInv, NEW t \in Task, DropRef(t)
    PROVE  IInv'
<1> USE BufCacheAssumption DEF IInv, Typed, Goto, Forget, Leave, entries, memory, locals
<1> DEFINE i == slot[t]
<1>r. i \in Entry /\ pc[t] \in Referring /\ tmp[t] = ref[i] /\ ref[i] \in Nat \ {0}
      /\ loaded[i] = TRUE /\ loading[i] = FALSE
  BY OneReference DEF DropRef, Referring, Serving, Holding, Flags
<1>o. ASSUME NEW u \in Task, u # t, pc[u] \in {"ref", "ref1", "put1"} PROVE FALSE
  BY <1>o DEF DropRef, Locks
<1>l. ASSUME NEW u \in Task, u # t, pc[u] \in Referring, slot[u] = i PROVE ref[i] # 1
  BY <1>l, <1>r, OneReference
<1>1. Typed'
  <2>1. tmp[t] - 1 \in Nat /\ buf[i] \in Buffer
    BY <1>r DEF Flags
  <2>2. /\ ref' \in [Entry -> Nat] /\ bn' \in [Entry -> Block \cup {None}]
        /\ buf' \in [Entry -> Buffer \cup {None}] /\ heap' \subseteq Buffer
    BY <1>r, <2>1 DEF DropRef
  <2>3. loading' \in [Entry -> BOOLEAN] /\ loaded' \in [Entry -> BOOLEAN]
    BY DEF DropRef
  <2> QED
    BY <2>2, <2>3 DEF DropRef, Labels
<1>2. Locks'
  BY DEF DropRef, Locks, Serving
<1>3. Serving'
  <2>1. ASSUME NEW u \in Task, u # t, pc[u] = "unref1" PROVE slot[u] # i
    BY <2>1, <1>r DEF Serving, Flags
  <2>2. \A u \in Task : u # t /\ pc[u] \in Referring => bn'[slot[u]] = bn[slot[u]]
    BY <1>r, <1>l DEF DropRef
  <2> QED
    BY <1>r, <1>o, <2>1, <2>2 DEF DropRef, Serving, Referring, Labels
<1>4. Flags'
  BY DEF DropRef, Flags, Serving, Referring
<1>5. Distinct'
  BY DEF DropRef, Distinct, Flags, Serving, Referring
<1>6. Kept'
  BY DEF DropRef, Kept, Distinct, Flags, Holding, Reading
<1>7. Reading'
  <2>1. \A u \in Task : Reads(u) => u # t /\ slot[u] # i
    BY <1>r DEF DropRef, Reading, Reads
  <2> QED
    BY <1>r, <2>1 DEF DropRef, Reading, Reads
<1>8. Holding'
  <2>1. ASSUME NEW u \in Task, u # t, pc[u] \in {"held", "drop", "put", "put1"}
        PROVE  loaded'[slot[u]] = loaded[slot[u]] /\ buf'[slot[u]] = buf[slot[u]]
    BY <1>r, <1>l, <2>1 DEF DropRef, Referring
  <2> QED
    BY <2>1 DEF DropRef, Holding
<1>9. Counted'
  BY <1>r, CountDown DEF DropRef
<1> QED
  BY <1>1, <1>2, <1>3, <1>4, <1>5, <1>6, <1>7, <1>8, <1>9

-----------------------------------------------------------------------------
(***************************************************************************)
(* The invariant and what it implies.                                      *)
(***************************************************************************)
\* The empty cache satisfies the invariant.
LEMMA InitEstablishes ==
    Init => IInv
<1> SUFFICES ASSUME Init PROVE IInv
  OBVIOUS
<1> USE BufCacheAssumption DEF Init
<1>1. Typed
  BY DEF Typed, Labels, Entry
<1>2. Locks /\ Serving /\ Reading /\ Holding
  BY DEF Locks, Serving, Referring, Reading, Reads, Holding
<1>3. Flags /\ Distinct /\ Kept
  BY DEF Flags, Distinct, Kept
<1>4. Counted
  <2>1. \A i \in Entry : Holders(i) = {}
    BY DEF Holders, Referring
  <2> QED
    BY <2>1, FS_EmptySet DEF Counted
<1> QED
  BY <1>1, <1>2, <1>3, <1>4 DEF IInv

\* Every step of get_disk_block and put_block keeps it.
LEMMA NextPreserves ==
    ASSUME IInv, Serial, [Next]_vars
    PROVE  IInv'
<1>1. ASSUME NEW t \in Task, Run(t) PROVE IInv'
  BY <1>1, FindKeeps, NoRoomKeeps, LoadRefKeeps, AddRefKeeps, SwitchKeeps, ReturnKeeps,
     StartReadKeeps, AwaitReadKeeps, RelockKeeps, NoMemoryKeeps, UndoRefKeeps,
     FinishReadKeeps, PutKeeps, DropRefKeeps
     DEF Run
<1>2. CASE Next
  BY <1>1, <1>2, DiskReadKeeps, CallPutKeeps, GetKeeps DEF Next
<1>3. CASE UNCHANGED vars
  BY <1>3 DEF vars, entries, memory, locals, IInv, Typed, Locks, Serving, Flags, Distinct, Kept,
              Reads, Reading, Holding, Counted, Holders
<1> QED
  BY <1>2, <1>3

\* The invariant gives the type of every variable, and ref_ its bound.
LEMMA Counts ==
    IInv => RefCount
<1> SUFFICES ASSUME IInv PROVE RefCount
  OBVIOUS
<1>1. \A i \in Entry : ref[i] \in 0 .. Cardinality(Task)
  <2>1. Cardinality(Task) \in Nat
    BY BufCacheAssumption, FS_CardinalityType
  <2> QED
    BY <2>1, HoldersFinite DEF IInv, Counted
<1> QED
  BY <1>1 DEF IInv, Typed, TypeOK, Counted, RefCount

\* It excludes two readers of an entry, so there is one exactly when f_loading is set.
LEMMA Copies ==
    IInv => OneCopy
<1> SUFFICES ASSUME IInv PROVE OneCopy
  OBVIOUS
<1> DEFINE readers(i) == {t \in Task : pc[t] \in {"reading", "read"} /\ slot[t] = i}
<1>1. ASSUME NEW i \in Entry
      PROVE  Cardinality(readers(i)) <= 1 /\ (loading[i] <=> (readers(i) # {}))
  <2>1. loading[i] = TRUE <=> readers(i) # {}
    BY DEF IInv, Reading, Reads
  <2>2. loading[i] \in BOOLEAN
    BY DEF IInv, Typed
  <2>3. readers(i) = {} \/ \E t \in Task : readers(i) = {t}
    BY DEF IInv, Reading, Reads
  <2>4. Cardinality(readers(i)) = 0 \/ Cardinality(readers(i)) = 1
    BY <2>3, FS_EmptySet, FS_Singleton
  <2>5. loading[i] <=> (readers(i) # {})
    BY <2>1, <2>2
  <2> QED
    BY <2>4, <2>5
<1>2. /\ \A i, j \in Entry : i # j /\ bn[i] # None => bn[i] # bn[j]
      /\ \A i, j \in Entry : i # j /\ buf[i] # None => buf[i] # buf[j]
      /\ \A i \in Entry : buf[i] \notin heap
  BY DEF IInv, Distinct, Kept
<1> QED
  BY <1>1, <1>2 DEF OneCopy

\* And what is loaded is what the entry's tasks have asked for.
LEMMA Holds ==
    IInv => HeldBlock
  BY BufCacheAssumption DEF IInv, Typed, Serving, Flags, Kept, Holding, HeldBlock, Referring

\* The invariant holds of every behaviour in which no --ref_ overlaps a ++ref_.
LEMMA Invariance ==
    Spec /\ []Serial => []IInv
<1>1. IInv /\ Serial /\ [Next]_vars => IInv'
  BY NextPreserves
<1> QED
  BY InitEstablishes, <1>1, PTL DEF Spec

\* ref_ is the number of get_disk_block calls whose block is not put back, although
\* kalloc may fail in any of them: a count goes wrong only after the --ref_ that is
\* made without lock_ has overlapped a ++ref_ for the same entry.
THEOREM RefCountUnlessRace ==
    Spec => []RefCount \/ <>~Serial
  BY Invariance, Counts, PTL

\* So it is with the copies of a block and the use of the buffers: without that
\* overlap no block is cached twice, no buffer serves two entries or is free while in
\* one, and one task at a time reads an entry from the disk.
THEOREM OneCopyUnlessRace ==
    Spec => []OneCopy \/ <>~Serial
  BY Invariance, Copies, PTL

\* And without it a task that has got a block finds it in its buffer until it puts
\* it back.
THEOREM HeldBlockUnlessRace ==
    Spec => []HeldBlock \/ <>~Serial
  BY Invariance, Holds, PTL
=============================================================================
