------------------------------- MODULE KAlloc -------------------------------
(***************************************************************************)
(* The buddy allocator of the Chickadee kernel (k-alloc.cc).               *)
(*                                                                         *)
(* Physical memory is an array of pages.  Each page has a pageData_t, and  *)
(* each order a free list: a stack threaded through the `next' fields of   *)
(* the pages.  Every operation holds page_lock from its first to its last  *)
(* access, so each is one action here.  Sizes and addresses are in bytes,  *)
(* with a page of 2^MinOrder bytes.                                        *)
(***************************************************************************)
EXTENDS Integers, FiniteSetsExt

CONSTANTS NPages,     \* pages_in_system
          MinOrder,   \* min_order: log2(PAGESIZE)
          MaxOrder,   \* max_order: log2 of the largest block
          Available,  \* the pages physical_ranges calls mem_available
          Sizes       \* the sizes callers of kalloc ask for

\* 1 << k
Pow2[k \in 0 .. (MaxOrder + 1)] == IF k = 0 THEN 1 ELSE 2 * Pow2[k - 1]

ASSUME KAllocAssumption ==
    /\ MinOrder \in Nat /\ MaxOrder \in Nat /\ MinOrder < MaxOrder
    /\ NPages = Pow2[MaxOrder - MinOrder]
    /\ Available \subseteq 0 .. (NPages - 1)
    \* page 0 is reserved: its address is nullptr
    /\ 0 \notin Available
    \* no caller asks for less than a page
    /\ Sizes \subseteq Pow2[MinOrder] .. (Pow2[MaxOrder + 1] - 1)

Page  == 0 .. (NPages - 1)
Nil   == -1                      \* the end of a free list, and nullptr
Order == 0 .. MaxOrder           \* the indices of freeLists
PageSize == Pow2[MinOrder]

VARIABLES mem,    \* pages[] and freeLists[]
          held,   \* the blocks callers hold: page |-> the size they asked for
          last    \* the page the last kalloc returned, Nil for nullptr

kallocVars == <<mem, held, last>>

Mem == [isFree : [Page -> BOOLEAN],
        order  : [Page -> MinOrder .. MaxOrder],
        next   : [Page -> Page \cup {Nil}],
        head   : [Order -> Page \cup {Nil}]]

-----------------------------------------------------------------------------
(* Free lists *)

\* The i-th entry of the free list of order o, Nil past its end.
ListEntry(m, o) ==
    LET e[i \in 0 .. NPages] ==
            IF i = 0 THEN m.head[o]
            ELSE IF e[i-1] = Nil THEN Nil ELSE m.next[e[i-1]]
    IN  e

OnList(m, o) == {ListEntry(m, o)[i] : i \in 0 .. NPages} \ {Nil}

\* The page a block of page p's order is split from or merged with.
buddy(m, p) ==
    IF m.order[p] < MinOrder THEN p
    ELSE LET bit == Pow2[m.order[p] - MinOrder]
         IN  IF (p \div bit) % 2 = 0 THEN p + bit ELSE p - bit

\* Push p on the free list of order o.
Push(m, p, o) ==
    [m EXCEPT !.isFree[p] = TRUE, !.next[p] = m.head[o], !.head[o] = p]

\* Mutant of removeFromFreeList: always pops the top, as if p were there.
MutRemove(m, p) ==
    IF p \in OnList(m, m.order[p])
    THEN [m EXCEPT !.head[m.order[p]] = m.next[p], !.isFree[p] = FALSE, !.next[p] = Nil]
    ELSE m

removeFromFreeList(m, p) ==
    LET o == m.order[p]
        e == ListEntry(m, o)
        unlinked ==
            IF e[0] = p THEN [m EXCEPT !.head[o] = m.next[p]]
            ELSE [m EXCEPT !.next[e[Min({i \in 1 .. NPages : e[i] = p}) - 1]] = m.next[p]]
    IN  IF p \in OnList(m, o)
        THEN [unlinked EXCEPT !.isFree[p] = FALSE, !.next[p] = Nil]
        ELSE m

-----------------------------------------------------------------------------
(* Merging and splitting *)

\* Mutant of Mergeable: does not compare the buddy's order.
MutMergeable(m, o, p) == m.isFree[buddy(m, p)]

\* Page p of the free list of order o has a buddy it can be merged with.
Mergeable(m, o, p) ==
    LET b == buddy(m, p) IN m.isFree[b] /\ m.order[b] = o

\* Merge p with its buddy: the lower of the two leads the block.
Merge(m, p, o) ==
    LET b == buddy(m, p)
        lead == IF p < b THEN p ELSE b
        bare == removeFromFreeList(removeFromFreeList(m, p), b)
    IN  Push([bare EXCEPT !.order[p] = @ + 1, !.order[b] = @ + 1],
            lead, o + 1)

\* A round of the `while' loop of coalesce: the first page on the list that can
\* be merged is, and the next round starts again at the top of the stack.
Round(m, o) ==
    LET e == ListEntry(m, o)
        found == {k \in 0 .. NPages : e[k] # Nil /\ Mergeable(m, o, e[k])}
    IN  IF found = {} THEN m ELSE Merge(m, e[Min(found)], o)

CoalesceLevel(m, o) ==
    LET n[i \in 0 .. NPages] == IF i = 0 THEN m ELSE Round(n[i - 1], o) IN n[NPages]

\* Mutant of coalesce: does not go on to the next order.
MutCoalesce(m, o) == CoalesceLevel(m, o)

\* coalesce(o): a level that merged something goes on to the next.
Level(c, o) ==
    LET n == CoalesceLevel(c.m, o)
    IN  IF c.coalesced THEN [m |-> n, coalesced |-> n # c.m] ELSE c

coalesce(m, o) ==
    LET c[i \in 0 .. (MaxOrder - o)] ==
            IF i = 0 THEN [m |-> m, coalesced |-> TRUE] ELSE Level(c[i - 1], o + i - 1)
    IN  c[MaxOrder - o].m

\* Take the top block of order o apart; both halves go on the list below.
SplitTop(m, o) ==
    LET p == m.head[o]
        popped == [m EXCEPT !.head[o] = m.next[p], !.order[p] = o - 1]
        b == buddy(popped, p)
    IN  Push([Push(popped, p, o - 1) EXCEPT !.order[b] = o - 1], b, o - 1)

\* split(o): the recursion climbs to the first order with a free block, and
\* every level on the way back is split once.
split(m, o) ==
    LET full == {k \in o .. MaxOrder : m.head[k] # Nil}
        top  == Min(full)
        d[i \in 0 .. (top - o + 1)] ==
            IF i = 0 THEN m ELSE SplitTop(d[i - 1], top - i + 1)
    IN  IF full = {} THEN m ELSE d[top - o + 1]

-----------------------------------------------------------------------------
(* kalloc and kfree *)

\* order_t order = msb(sz) - 1
OrderFor(sz) == CHOOSE o \in Order : Pow2[o] <= sz /\ sz < Pow2[o + 1]

\* The page kalloc(sz) returns (Nil for nullptr) and the memory it leaves.
kallocResult(m, sz) ==
    LET o == OrderFor(sz)
        n == IF m.head[o] = Nil THEN split(m, o + 1) ELSE m
        p == n.head[o]
    IN  IF p = Nil THEN [page |-> Nil, mem |-> n]
        ELSE [page |-> p,
              mem  |-> [n EXCEPT !.head[o] = n.next[p],
                                 !.next[p] = Nil,
                                 !.isFree[p] = FALSE]]

kfreeResult(m, p) == coalesce(Push(m, p, m.order[p]), m.order[p])

\* init_kalloc: available pages are pushed in address order, then coalesced.
blank == [isFree |-> [p \in Page |-> FALSE],
          order  |-> [p \in Page |-> MinOrder],
          next   |-> [p \in Page |-> Nil],
          head   |-> [o \in Order |-> Nil]]

init_kalloc ==
    LET a[i \in 0 .. NPages] ==
            IF i = 0 THEN blank
            ELSE IF i - 1 \in Available THEN Push(a[i - 1], i - 1, MinOrder) ELSE a[i - 1]
    IN  coalesce(a[NPages], MinOrder)

KallocInit == /\ mem = init_kalloc
              /\ held = <<>>
              /\ last = Nil

kalloc(sz) ==
    LET r == kallocResult(mem, sz)
    IN  /\ mem' = r.mem
        /\ last' = r.page
        /\ held' = IF r.page = Nil THEN held
                   ELSE [p \in DOMAIN held \cup {r.page} |->
                            IF p = r.page THEN sz ELSE held[p]]

\* A caller frees a block it holds.
kfree(p) ==
    /\ p \in DOMAIN held
    /\ mem' = kfreeResult(mem, p)
    /\ held' = [q \in DOMAIN held \ {p} |-> held[q]]
    /\ UNCHANGED last

KallocNext == \/ \E sz \in Sizes : kalloc(sz)
              \/ \E p \in Page : kfree(p)

KallocSpec == KallocInit /\ [][KallocNext]_kallocVars

-----------------------------------------------------------------------------
(* Properties *)

\* The pages of the block that page p leads.
BlockOf(p) == {q \in Page : p <= q /\ q < p + Pow2[mem.order[p] - MinOrder]}

Free == {p \in Page : mem.isFree[p]}

\* Every variable keeps its type.
KallocTypeOK == /\ mem \in Mem
                /\ last \in Page \cup {Nil}
                /\ DOMAIN held \subseteq Page
                /\ \A p \in DOMAIN held : held[p] \in Sizes

\* Every variable keeps its type, and the free lists built by kalloc, kfree, split and coalesce through pages[].next
\* end, hold each free block once, on the list of its order, and hold nothing else.
FreeListsSound ==
    /\ KallocTypeOK
    /\ \A o \in Order : ListEntry(mem, o)[NPages] = Nil
    /\ \A o \in Order : OnList(mem, o) = {p \in Free : mem.order[p] = o}

\* No page is lost and none is in two places: the blocks handed out and the
\* free blocks are disjoint and together make up the available memory, however
\* blocks were split and coalesced.
BlocksPartition ==
    LET led == Free \cup DOMAIN held
    IN  /\ Free \cap DOMAIN held = {}
        /\ \A p, q \in led : p # q => BlockOf(p) \cap BlockOf(q) = {}
        /\ UNION {BlockOf(p) : p \in led} = Available

\* Seen from its callers the allocator is PageAlloc: a block handed out is made of
\* pages nobody holds, kalloc returns nullptr only when no aligned run of unused
\* pages is long enough (so kfree and init_kalloc leave no two buddies unmerged),
\* and kfree returns exactly the pages that were handed out.
Caller == INSTANCE PageAlloc WITH
              Lengths <- {Pow2[OrderFor(sz) - MinOrder] : sz \in Sizes},
              runs    <- [p \in DOMAIN held |-> BlockOf(p)]

ImplementsPageAlloc == Caller!Spec
=============================================================================
