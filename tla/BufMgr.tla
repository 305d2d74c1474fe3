------------------------------- MODULE BufMgr -------------------------------
(***************************************************************************)
(* The buffer manager of Minibase (BufMgr, Replacer and Clock of buf.h and *)
(* buf.C) with the disk and the space map of db.C under it.                *)
(*                                                                         *)
(* The manager is single threaded: what makes it hard is that its callers  *)
(* keep pointers into the pool between calls, that the space map which     *)
(* says what pages are in use is itself a page of the pool, and that a     *)
(* call can fail in the middle.  Every method is an operator on bm, the    *)
(* manager's state, that returns the next one and the status; a method     *)
(* that calls another is written with its operator.  bad is the I/O that   *)
(* fails during the call.                                                  *)
(***************************************************************************)
EXTENDS Integers, FiniteSetsExt

CONSTANTS numBuffers,  \* frames of the pool
          num_pages,   \* pages of the database; the space map is one page
          Content,     \* what callers write to a page
          Zero,        \* a page of zeroes
          CallerPages, \* pages callers pin when they are in use
          RunSizes,    \* howmany, as callers of newPage ask
          Faults,      \* the I/O that may fail: pairs of "read" or "write" and a page
          MaxPins      \* bound on the pins callers hold on one page

Frame == 0 .. numBuffers - 1
Page == 0 .. num_pages - 1
INVALID_PAGE == -1
SpaceMap == 1
Reserved == {0, SpaceMap}

ASSUME BufMgrAssumption ==
    /\ numBuffers \in Nat \ {0}
    /\ num_pages \in Nat \ {0, 1}
    /\ Zero \notin Content
    /\ CallerPages \subseteq Page \ {SpaceMap}
    /\ RunSizes \subseteq Nat \ {0}
    /\ Faults \subseteq {"read", "write"} \X Page
    /\ MaxPins \in Nat \ {0}

\* The space map holds the set of pages in use; a frame that is given to a new
\* page still holds what it held before.
Value == Content \cup {Zero} \cup SUBSET Page

\* A call fails for one page at most.
Failures == {{}} \cup {{x} : x \in Faults}

VARIABLES bm,    \* the manager: frmeTable, replacer, bufPool and the database file
          pins,  \* the pins callers hold on each page
          held   \* the frame a caller's pointer to the page points at

vars == <<bm, pins, held>>

-----------------------------------------------------------------------------
(* Replacer and Clock *)

\* The frame that has the page: the first in the table, or INVALID_PAGE.
Lookup(b, p) == LET fs == {f \in Frame : b.pageNo[f] = p}
                IN  IF fs = {} THEN INVALID_PAGE ELSE Min(fs)

pin(b, f) == [b EXCEPT !.pin_cnt[f] = @ + 1, !.state_bit[f] = "Pinned"]

\* Mutant of unpin: the frame becomes a candidate although a pin is left.
MutUnpin(b, f) ==
    IF b.pin_cnt[f] = 0 THEN [b |-> b, ok |-> FALSE]
    ELSE [b  |-> [b EXCEPT !.pin_cnt[f] = @ - 1, !.state_bit[f] = "Referenced"],
          ok |-> TRUE]

unpin(b, f) ==
    IF b.pin_cnt[f] = 0 THEN [b |-> b, ok |-> FALSE]
    ELSE [b  |-> [b EXCEPT !.pin_cnt[f] = @ - 1,
                           !.state_bit[f] = IF b.pin_cnt[f] = 1 THEN "Referenced" ELSE @],
          ok |-> TRUE]

\* Where the hand is when it has passed num frames.
Hand(b, num) == (b.head + 1 + num) % numBuffers

\* Mutant of Passed: gives up after one turn.
MutPassed == 0 .. numBuffers - 1

\* What num can be: the hand gives up after two turns.
Passed == 0 .. 2 * numBuffers

\* The state bits after the frame at num: one that was referenced gets a second chance.
Swept(b) ==
    LET s[num \in Passed] ==
          LET bits == IF num = 0 THEN b.state_bit ELSE s[num - 1]
          IN  IF bits[Hand(b, num)] = "Referenced"
              THEN [bits EXCEPT ![Hand(b, num)] = "Available"]
              ELSE bits
    IN s

\* The state bits the hand finds at num, when Swept(b) is s.
Seen(b, s, num) == IF num = 0 THEN b.state_bit ELSE s[num - 1]

Stops(b, s) == {num \in Passed : Seen(b, s, num)[Hand(b, num)] = "Available"}

\* The result of pick_victim when the hand stops at num.
Take(b, s, num) ==
    [b |-> pin([b EXCEPT !.head = Hand(b, num), !.state_bit = Seen(b, s, num)], Hand(b, num)),
     frame |-> Hand(b, num)]

\* The result when it never does.
GiveUp(b, s) ==
    [b |-> [b EXCEPT !.head = Hand(b, Max(Passed)), !.state_bit = s[Max(Passed)]],
     frame |-> INVALID_PAGE]

VictimOf(b, s) == IF Stops(b, s) = {} THEN GiveUp(b, s) ELSE Take(b, s, Min(Stops(b, s)))

pick_victim(b) == VictimOf(b, Swept(b))

-----------------------------------------------------------------------------
(* DB::read_page and DB::write_page *)

CanRead(p, bad)  == p \in Page /\ <<"read", p>> \notin bad
CanWrite(p, bad) == p \in Page /\ <<"write", p>> \notin bad

\* Mutant of WriteBack: a page that leaves the pool is not written.
MutWriteBack(b, f, p) == [b EXCEPT !.pageNo[f] = p]

\* The frame's page goes to the disk, and the frame to page p.
WriteBack(b, f, p) ==
    [b EXCEPT !.pageNo[f] = p,
              !.disk = IF b.pageNo[f] = INVALID_PAGE THEN @
                       ELSE [@ EXCEPT ![b.pageNo[f]] = b.pool[f]]]

-----------------------------------------------------------------------------
(* BufMgr::pinPage and unpinPage *)

\* A read that failed: the frame is empty and unpinned.
ReadFailed(b, f) == [b |-> unpin([b EXCEPT !.pageNo[f] = INVALID_PAGE], f).b,
                     ok |-> FALSE, frame |-> f]

\* The frame's page is written: read page p in, unless it is new.
Load(b, f, p, emptyPage, bad) ==
    IF emptyPage THEN [b |-> b, ok |-> TRUE, frame |-> f]
    ELSE IF ~CanRead(p, bad) THEN ReadFailed(b, f)
    ELSE [b |-> [b EXCEPT !.pool[f] = b.disk[p]], ok |-> TRUE, frame |-> f]

\* Page p into the frame pick_victim has pinned.  When the old page cannot be
\* written the frame already has page p's number.
Fetch(v, p, emptyPage, bad) ==
    IF v.frame = INVALID_PAGE THEN [b |-> v.b, ok |-> FALSE, frame |-> v.frame]
    ELSE IF v.b.pageNo[v.frame] # INVALID_PAGE /\ ~CanWrite(v.b.pageNo[v.frame], bad)
    THEN [b |-> [v.b EXCEPT !.pageNo[v.frame] = p], ok |-> FALSE, frame |-> v.frame]
    ELSE Load(WriteBack(v.b, v.frame, p), v.frame, p, emptyPage, bad)

\* Mutant of pinPage: a page that is found is not pinned again.
MutPinPage(b, p, emptyPage, bad) ==
    IF Lookup(b, p) = INVALID_PAGE THEN Fetch(pick_victim(b), p, emptyPage, bad)
    ELSE [b |-> b, ok |-> TRUE, frame |-> Lookup(b, p)]

pinPage(b, p, emptyPage, bad) ==
    IF Lookup(b, p) = INVALID_PAGE THEN Fetch(pick_victim(b), p, emptyPage, bad)
    ELSE [b |-> pin(b, Lookup(b, p)), ok |-> TRUE, frame |-> Lookup(b, p)]

\* The page INVALID_PAGE is that of an empty frame, but has no pin to drop.
unpinPage(b, p) ==
    IF Lookup(b, p) = INVALID_PAGE \/ p = INVALID_PAGE THEN [b |-> b, ok |-> FALSE]
    ELSE unpin(b, Lookup(b, p))

-----------------------------------------------------------------------------
(* The space map: DB::set_bits, allocate_page and deallocate_page *)

\* With the space map pinned.
Mark(r, run, bit) ==
    IF ~r.ok THEN [b |-> r.b, ok |-> FALSE]
    ELSE unpinPage([r.b EXCEPT !.pool[r.frame] = IF bit = 1 THEN @ \cup run ELSE @ \ run],
                   SpaceMap)

set_bits(b, run, bit, bad) ==
    IF run \subseteq Page THEN Mark(pinPage(b, SpaceMap, FALSE, bad), run, bit)
    ELSE [b |-> b, ok |-> FALSE]

\* Runs of pages nobody uses, by their first page.
FreeRuns(map, howmany) == {p \in Page : p .. p + howmany - 1 \subseteq Page \ map}

NoRun(b) == [b |-> b, ok |-> FALSE, first |-> INVALID_PAGE]
Claimed(s, p) == [b |-> s.b, ok |-> s.ok, first |-> p]

\* Claim the first of the free runs.
Claim(b, runs, howmany, bad) ==
    IF runs = {} THEN NoRun(b)
    ELSE Claimed(set_bits(b, Min(runs) .. Min(runs) + howmany - 1, 1, bad), Min(runs))

\* With the space map pinned.
Search(r, howmany, bad) ==
    IF ~r.ok THEN NoRun(r.b)
    ELSE Claim(unpinPage(r.b, SpaceMap).b, FreeRuns(r.b.pool[r.frame], howmany), howmany, bad)

allocate_page(b, howmany, bad) == Search(pinPage(b, SpaceMap, FALSE, bad), howmany, bad)

deallocate_page(b, p, bad) == set_bits(b, {p}, 0, bad)

-----------------------------------------------------------------------------
(* BufMgr::newPage, freePage and privFlushPages *)

\* Give the pages of a run back one after another, up to one that fails.
GiveBackOne(g, p, bad) == IF g.ok THEN deallocate_page(g.b, p, bad) ELSE g

GiveBack(b, p, howmany, bad) ==
    LET g[i \in 0 .. howmany] ==
          IF i = 0 THEN [b |-> b, ok |-> TRUE] ELSE GiveBackOne(g[i - 1], p + i - 1, bad)
    IN g[howmany]

\* The run is allocated and its first page is, or is not, pinned: roll back.
Started(r, first, howmany, bad) ==
    IF r.ok THEN [b |-> r.b, ok |-> TRUE, first |-> first, frame |-> r.frame]
    ELSE [b |-> GiveBack(r.b, first, howmany, bad).b, ok |-> FALSE,
          first |-> first, frame |-> INVALID_PAGE]

PinFirst(a, howmany, bad) ==
    IF a.ok THEN Started(pinPage(a.b, a.first, TRUE, bad), a.first, howmany, bad)
    ELSE [b |-> a.b, ok |-> FALSE, first |-> a.first, frame |-> INVALID_PAGE]

newPage(b, howmany, bad) == PinFirst(allocate_page(b, howmany, bad), howmany, bad)

\* Replacer::free, and the frame is empty.
Release(b, f) == [b EXCEPT !.pin_cnt[f] = IF @ = 0 THEN 0 ELSE @ - 1,
                           !.state_bit[f] = "Available",
                           !.pageNo[f] = INVALID_PAGE]

Freed(d, gone) == [b |-> d.b, ok |-> d.ok, gone |-> gone]

\* gone says whether the pool let go of the page.
freePage(b, p, bad) ==
    IF Lookup(b, p) = INVALID_PAGE THEN Freed(deallocate_page(b, p, bad), TRUE)
    ELSE IF b.pin_cnt[Lookup(b, p)] > 1 THEN Freed([b |-> b, ok |-> FALSE], FALSE)
    ELSE Freed(deallocate_page(Release(b, Lookup(b, p)), p, bad), TRUE)

\* The frames are written and empty; of two that have one page the later wins.
Flush(b, fs) ==
    [b EXCEPT !.pageNo = [f \in Frame |-> IF f \in fs THEN INVALID_PAGE ELSE @[f]],
              !.disk = [p \in Page |-> LET c == {f \in fs : b.pageNo[f] = p}
                                       IN  IF c = {} THEN @[p] ELSE b.pool[Max(c)]]]

\* The frames to flush, in the order of the table, up to a write that fails.
privFlushPages(b, fs, bad) ==
    LET full  == {f \in fs : b.pageNo[f] # INVALID_PAGE}
        stuck == {f \in full : ~CanWrite(b.pageNo[f], bad)}
    IN  Flush(b, {f \in full : \A g \in stuck : f < g})

-----------------------------------------------------------------------------
(* The database as its constructor leaves it (system_defs.C creates the    *)
(* manager, the database in it, and flushes the pool), and what callers do *)

Blank == [pageNo    |-> [f \in Frame |-> INVALID_PAGE],
          pin_cnt   |-> [f \in Frame |-> 0],
          state_bit |-> [f \in Frame |-> "Available"],
          head      |-> -1,
          pool      |-> [f \in Frame |-> Zero],
          disk      |-> [p \in Page |-> IF p = SpaceMap THEN {} ELSE Zero]]

NewDatabase ==
    LET header == unpinPage(pinPage(Blank, 0, TRUE, {}).b, 0).b
    IN  privFlushPages(set_bits(header, Reserved, 1, {}).b, Frame, {})

Init == /\ bm = NewDatabase
        /\ pins = [p \in Page |-> 0]
        /\ held = [p \in Page |-> INVALID_PAGE]

\* The value of a page: the pool's if it has one, else the disk's.
PageValue(b, p) == IF Lookup(b, p) = INVALID_PAGE THEN b.disk[p] ELSE b.pool[Lookup(b, p)]

InUse == PageValue(bm, SpaceMap)

Pin(p) ==
    /\ p \in InUse \cap CallerPages /\ pins[p] < MaxPins
    /\ \E r \in {pinPage(bm, p, FALSE, bad) : bad \in Failures} :
          /\ bm' = r.b
          /\ pins' = IF r.ok THEN [pins EXCEPT ![p] = @ + 1] ELSE pins
          /\ held' = IF r.ok THEN [held EXCEPT ![p] = r.frame] ELSE held

\* Callers unpin what they have pinned.
Unpin(p) ==
    /\ pins[p] > 0
    /\ bm' = unpinPage(bm, p).b
    /\ pins' = [pins EXCEPT ![p] = @ - 1]
    /\ held' = IF pins[p] = 1 THEN [held EXCEPT ![p] = INVALID_PAGE] ELSE held

\* Through the pointer pinPage returned.
Write(p) ==
    /\ pins[p] > 0
    /\ \E c \in Content : bm' = [bm EXCEPT !.pool[held[p]] = c]
    /\ UNCHANGED <<pins, held>>

New(howmany) ==
    \E r \in {newPage(bm, howmany, bad) : bad \in Failures} :
       /\ bm' = r.b
       /\ pins' = IF r.ok THEN [pins EXCEPT ![r.first] = 1] ELSE pins
       /\ held' = IF r.ok THEN [held EXCEPT ![r.first] = r.frame] ELSE held

\* Once the pool lets go of the page its caller's pin and pointer are gone.
Free(p) ==
    /\ p \in InUse \ Reserved
    /\ \E r \in {freePage(bm, p, bad) : bad \in Failures} :
          /\ bm' = r.b
          /\ pins' = IF r.gone THEN [pins EXCEPT ![p] = 0] ELSE pins
          /\ held' = IF r.gone THEN [held EXCEPT ![p] = INVALID_PAGE] ELSE held

\* flushPage and flushAllPages: both of the repository's calls come when nobody
\* holds a pin.
FlushPage(p) ==
    /\ pins[p] = 0 /\ Lookup(bm, p) # INVALID_PAGE
    /\ \E bad \in Failures : bm' = privFlushPages(bm, {Lookup(bm, p)}, bad)
    /\ UNCHANGED <<pins, held>>

FlushAll ==
    /\ \A p \in Page : pins[p] = 0
    /\ \E bad \in Failures : bm' = privFlushPages(bm, Frame, bad)
    /\ UNCHANGED <<pins, held>>

Next == \/ \E p \in Page : Pin(p) \/ Unpin(p) \/ Write(p) \/ Free(p) \/ FlushPage(p)
        \/ \E n \in RunSizes : New(n)
        \/ FlushAll

Spec == Init /\ [][Next]_vars

-----------------------------------------------------------------------------
(* Properties *)

\* Every variable, and every part of the manager, has the values the code gives it.
TypeOK ==
    /\ bm.pageNo \in [Frame -> Page \cup {INVALID_PAGE}]
    /\ bm.pin_cnt \in [Frame -> 0 .. MaxPins]
    /\ bm.state_bit \in [Frame -> {"Available", "Referenced", "Pinned"}]
    /\ bm.head \in Frame
    /\ bm.pool \in [Frame -> Value]
    /\ bm.disk \in [Page -> Value]
    /\ pins \in [Page -> 0 .. MaxPins]
    /\ held \in [Page -> Frame \cup {INVALID_PAGE}]

\* Between calls the pins of a frame are those its page's callers hold - the space
\* map, which allocation pins and unpins, keeps none, after a failed call
\* either - and exactly the frames with a pin are out of the clock's
\* reach: pick_victim's assertion (buf.C:423) does not fail.
PinsMatch ==
    \A f \in Frame :
       /\ bm.pin_cnt[f] = IF bm.pageNo[f] = INVALID_PAGE THEN 0 ELSE pins[bm.pageNo[f]]
       /\ bm.state_bit[f] = "Pinned" <=> bm.pin_cnt[f] > 0

\* Every variable keeps its type, and the pins of the frames are those of the callers.
PinsCounted == TypeOK /\ PinsMatch

\* The pointer a caller got from pinPage or newPage stays good until it unpins:
\* whatever other calls do, the frame still is that page's, and the
\* only one that is.
PinnedStays ==
    \A p \in Page : pins[p] > 0 =>
       \A f \in Frame : bm.pageNo[f] = p <=> f = held[p]

\* A page that is not in the pool can be brought in whenever some frame has no
\* pin: two turns of the clock always find it (buf.C:415).
VictimIfUnpinned ==
    (\E f \in Frame : bm.pin_cnt[f] = 0) => pick_victim(bm).frame # INVALID_PAGE

Store == INSTANCE PageStore WITH
            used  <- InUse,
            store <- [p \in InUse \ {SpaceMap} |-> PageValue(bm, p)],
            pins  <- pins

\* The manager behaves as a store in which every page has one value: evictions,
\* flushes and failed reads change no page, and newPage gives out
\* no page that is in use.
ImplementsPageStore == Store!Spec
=============================================================================
