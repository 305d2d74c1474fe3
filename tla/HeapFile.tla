------------------------------ MODULE HeapFile ------------------------------
(***************************************************************************)
(* Heap files of Minibase on top of the buffer manager: HeapFile of        *)
(* heapfile.C, the slots of an HFPage, a Scan of scan.C and the file       *)
(* directory of db.C, for one file, one HeapFile object and one scan.      *)
(*                                                                         *)
(* A file is a list of pages linked by their next page; the directory on   *)
(* page 0 has the first.  Every operation pins the pages it visits and     *)
(* must unpin them; a scan keeps its page pinned between calls, with other *)
(* operations on the same pages in between.  What a record holds is left   *)
(* out: a record is its page and slot.  I/O does not fail here.            *)
(***************************************************************************)
EXTENDS BufMgr, FiniteSets

CONSTANTS Slot,     \* slots of a page
          MaxRecs   \* bound on the records of the file: the database does not fill up

HFPage == [next : Page \cup {INVALID_PAGE}, slots : SUBSET Slot]

\* What is written to a page of a file, and to the directory.
ASSUME HeapFileAssumption ==
    /\ Max(Slot) \in Nat /\ Slot = 0 .. Max(Slot)
    /\ MaxRecs \in Nat
    /\ HFPage \cup {[file |-> p] : p \in Page} \subseteq Content

EmptyPage == [next |-> INVALID_PAGE, slots |-> {}]

VARIABLES first,  \* _firstPageId, INVALID_PAGE while there is no HeapFile object
          scan,   \* the Scan
          recs,   \* the records in the file
          due     \* those of them the scan has yet to return

heapVars == <<vars, first, scan, recs, due>>

\* datapageId, datapage (INVALID_PAGE for NULL), userrid's slot and whether
\* nxtUserStatus is OK; st is what the scan last told its caller.
NoScan == [id |-> 0, frame |-> INVALID_PAGE, slot |-> 0, more |-> TRUE, st |-> "closed"]

\* What a frame holds, seen as a heap page.
AsHFPage(c) == IF c \in HFPage THEN c ELSE EmptyPage

-----------------------------------------------------------------------------
(* The directory: DB::get_file_entry, add_file_entry and delete_file_entry *)

\* Page 0 is all zeroes or names the file's first page.
Entry(c) == IF c = Zero THEN INVALID_PAGE ELSE c.file

\* Pin page 0, change it or not, unpin it.
OnHeader(r, c) == unpinPage([r.b EXCEPT !.pool[r.frame] = c], 0).b

LookAtHeader(b) == unpinPage(pinPage(b, 0, FALSE, {}).b, 0).b
SetHeader(b, c) == OnHeader(pinPage(b, 0, FALSE, {}), c)

\* add_file_entry looks for the name first.
add_file_entry(b, p) == SetHeader(LookAtHeader(b), [file |-> p])

-----------------------------------------------------------------------------
(* HeapFile's constructor *)

\* The file's first page, r.first, is pinned.
Create(r) ==
    unpinPage([add_file_entry(r.b, r.first) EXCEPT !.pool[r.frame] = EmptyPage], r.first).b

Made(r) == IF r.ok THEN [b |-> Create(r), first |-> r.first]
           ELSE [b |-> r.b, first |-> INVALID_PAGE]

Construct(b, p) == IF p # INVALID_PAGE THEN [b |-> LookAtHeader(b), first |-> p]
                   ELSE Made(newPage(LookAtHeader(b), 1, {}))

-----------------------------------------------------------------------------
(* The walk along a file's pages that every operation starts with *)

\* w.at is pinned as r says: stop there with the page pinned, or move on.
Look(w, r, stops) ==
    IF ~r.ok THEN [w EXCEPT !.b = r.b, !.st = "error"]
    ELSE IF w.at \in stops THEN [w EXCEPT !.b = r.b, !.st = "found", !.frame = r.frame]
    ELSE [w EXCEPT !.b = unpinPage(r.b, w.at).b, !.last = w.at,
                   !.at = r.b.pool[r.frame].next]

Visit(w, stops) ==
    IF w.st # "walking" THEN w
    ELSE IF w.at = INVALID_PAGE THEN [w EXCEPT !.st = "end"]
    ELSE Look(w, pinPage(w.b, w.at, FALSE, {}), stops)

\* From page p to the first page in stops.  No file has more than num_pages pages.
Walk(b, p, stops) ==
    LET w[i \in 0 .. num_pages] ==
          IF i = 0 THEN [b |-> b, at |-> p, last |-> INVALID_PAGE,
                         frame |-> INVALID_PAGE, st |-> "walking"]
          ELSE Visit(w[i - 1], stops)
    IN w[num_pages]

-----------------------------------------------------------------------------
(* HeapFile::insertRecord *)

\* The pages with a slot to spare.
WithRoom(b) == {p \in Page \ Reserved : AsHFPage(PageValue(b, p)).slots # Slot}

Inserted(b, p, s) == [b |-> b, ok |-> TRUE, rid |-> <<p, s>>]
Refused(b) == [b |-> b, ok |-> FALSE, rid |-> <<INVALID_PAGE, 0>>]

\* A slot of the page the walk stopped at.
InsertAt(w, s) ==
    Inserted(unpinPage([w.b EXCEPT !.pool[w.frame].slots = @ \cup {s}], w.at).b, w.at, s)

\* The last page and the new one are pinned: link them, fill the new one's first
\* slot.  If there is no new page the last one stays pinned.
Link(r, last, n) ==
    IF ~n.ok THEN Refused(n.b)
    ELSE Inserted(unpinPage(unpinPage([n.b EXCEPT !.pool[n.frame] = [EmptyPage EXCEPT !.slots = {0}],
                                                  !.pool[r.frame].next = n.first],
                                      last).b, n.first).b, n.first, 0)

Append(r, last) == IF r.ok THEN Link(r, last, newPage(r.b, 1, {})) ELSE Refused(r.b)

Insert(w) ==
    IF w.st = "found" THEN InsertAt(w, Min(Slot \ w.b.pool[w.frame].slots))
    ELSE IF w.st = "end" THEN Append(pinPage(w.b, w.last, FALSE, {}), w.last)
    ELSE Refused(w.b)

insertRecord(b, p) == Insert(Walk(b, p, WithRoom(b)))

-----------------------------------------------------------------------------
(* HeapFile::deleteRecord *)

\* Mutant of Unlink: the page before it still points at the page.
MutUnlink(r, last, next) == unpinPage(r.b, last).b

\* The page before, last, is pinned: it gets the next page of the page that is
\* gone.  A pin on INVALID_PAGE is one on an empty frame.
Unlink(r, last, next) ==
    unpinPage([r.b EXCEPT !.pool[r.frame] = [AsHFPage(@) EXCEPT !.next = next]], last).b

Relink(d, last, next) ==
    IF d.ok THEN Unlink(pinPage(d.b, last, FALSE, {}), last, next) ELSE d.b

\* The record is off the page, which is pinned and holds c: unpin it, and free it
\* if it is empty.
Shrink(w, c) ==
    IF c.slots # {} THEN unpinPage(w.b, w.at).b
    ELSE Relink(freePage(unpinPage(w.b, w.at).b, w.at, {}), w.last, c.next)

Remove(w, s) ==
    IF w.st # "found" THEN w.b
    ELSE IF s \notin w.b.pool[w.frame].slots THEN unpinPage(w.b, w.at).b
    ELSE Shrink([w EXCEPT !.b.pool[w.frame].slots = @ \ {s}],
                [w.b.pool[w.frame] EXCEPT !.slots = @ \ {s}])

deleteRecord(b, p, rid) == Remove(Walk(b, p, {rid[1]}), rid[2])

-----------------------------------------------------------------------------
(* HeapFile::deleteFile *)

\* The page at d.at is pinned as r says: free it.
FreeNext(d, r) ==
    LET f == freePage(r.b, d.at, {})
    IN  IF r.ok THEN [b |-> f.b, ok |-> f.ok, at |-> r.b.pool[r.frame].next]
        ELSE [b |-> r.b, ok |-> FALSE, at |-> d.at]

FreeStep(d) == IF d.ok /\ d.at # INVALID_PAGE
               THEN FreeNext(d, pinPage(d.b, d.at, FALSE, {})) ELSE d

FreePages(b, p) ==
    LET d[i \in 0 .. num_pages] ==
          IF i = 0 THEN [b |-> b, ok |-> TRUE, at |-> p] ELSE FreeStep(d[i - 1])
    IN d[num_pages]

\* delete_file_entry, when all pages are freed.
DropEntry(d) == IF d.ok THEN SetHeader(d.b, Zero) ELSE d.b

deleteFile(b, p) == DropEntry(FreePages(b, p))

-----------------------------------------------------------------------------
(* Scan *)

\* Stand on the first record of the page in hand, if there is one.
First(b, sc) ==
    LET slots == AsHFPage(b.pool[sc.frame]).slots
    IN  [b |-> b, sc |-> [sc EXCEPT !.slot = IF slots = {} THEN @ ELSE Min(slots),
                                    !.more = slots # {}]]

\* Page p is pinned as r says: it is the page in hand.
Enter(r, sc) ==
    IF r.ok THEN First(r.b, [sc EXCEPT !.frame = r.frame]) ELSE [b |-> r.b, sc |-> sc]

Advance(b, sc) == IF sc.id = INVALID_PAGE THEN [b |-> b, sc |-> sc]
                  ELSE Enter(pinPage(b, sc.id, FALSE, {}), sc)

\* Unpin the page in hand and go to its next one.
Leave(b, sc) ==
    Advance(unpinPage(b, sc.id).b,
            [sc EXCEPT !.id = AsHFPage(b.pool[sc.frame]).next, !.frame = INVALID_PAGE])

\* A file's first page is left at once when it has no record.
Start(f) == IF f.sc.frame # INVALID_PAGE /\ ~f.sc.more
            THEN Leave(f.b, [f.sc EXCEPT !.more = TRUE]) ELSE f

nextDataPage(b, sc) ==
    IF sc.frame # INVALID_PAGE THEN Leave(b, sc) ELSE Start(Advance(b, sc))

firstDataPage(b, p) == nextDataPage(b, [NoScan EXCEPT !.id = p, !.st = "open"])

-----------------------------------------------------------------------------
(* What callers do *)

HeapInit == /\ Init
            /\ first = INVALID_PAGE
            /\ scan = NoScan
            /\ recs = {} /\ due = {}

\* The scan's pin and pointer.
Track(sc) ==
    /\ pins' = [p \in Page |-> IF sc.frame # INVALID_PAGE /\ p = sc.id THEN 1 ELSE 0]
    /\ held' = [p \in Page |-> IF p = sc.id THEN sc.frame ELSE INVALID_PAGE]

Open ==
    /\ first = INVALID_PAGE
    /\ \E r \in {Construct(bm, Entry(PageValue(bm, 0)))} : bm' = r.b /\ first' = r.first
    /\ UNCHANGED <<pins, held, scan, recs, due>>

\* The destructor of an ordinary file does nothing.
Close == /\ first # INVALID_PAGE /\ scan.st = "closed"
         /\ first' = INVALID_PAGE
         /\ UNCHANGED <<vars, scan, recs, due>>

\* getRecCnt, getRecord and updateRecord change no page's place.
Read ==
    /\ first # INVALID_PAGE
    /\ \/ bm' = Walk(bm, first, {}).b
       \/ \E rid \in recs : \E w \in {Walk(bm, first, {rid[1]})} :
             bm' = IF w.st = "found" THEN unpinPage(w.b, w.at).b ELSE w.b
    /\ UNCHANGED <<pins, held, first, scan, recs, due>>

InsertRecord ==
    /\ first # INVALID_PAGE /\ Cardinality(recs) < MaxRecs
    /\ \E r \in {insertRecord(bm, first)} :
          /\ bm' = r.b
          /\ recs' = IF r.ok THEN recs \cup {r.rid} ELSE recs
    /\ UNCHANGED <<pins, held, first, scan, due>>

DeleteRecord(rid) ==
    /\ first # INVALID_PAGE
    /\ bm' = deleteRecord(bm, first, rid)
    /\ recs' = recs \ {rid} /\ due' = due \ {rid}
    /\ UNCHANGED <<pins, held, first, scan>>

DeleteFile ==
    /\ first # INVALID_PAGE /\ scan.st = "closed"
    /\ bm' = deleteFile(bm, first)
    /\ first' = INVALID_PAGE
    /\ recs' = {}
    /\ UNCHANGED <<pins, held, scan, due>>

OpenScan ==
    /\ first # INVALID_PAGE /\ scan.st = "closed"
    /\ \E r \in {firstDataPage(bm, first)} : bm' = r.b /\ scan' = r.sc
    /\ Track(scan')
    /\ due' = recs
    /\ UNCHANGED <<first, recs>>

\* Mutant of Fetched: the slot after the record is skipped.
MutFetched(sc, slots) ==
    LET later == {s \in slots : s > sc.slot + 1}
    IN  IF sc.frame = INVALID_PAGE THEN [sc EXCEPT !.st = "done"]
        ELSE IF sc.slot \notin slots THEN sc
        ELSE [sc EXCEPT !.slot = IF later = {} THEN @ ELSE Min(later), !.more = later # {}]

\* The record under the scan's hand, once it has a page: return it, if it still
\* is there, and find the next one of the page.
Fetched(sc, slots) ==
    LET later == {s \in slots : s > sc.slot}
    IN  IF sc.frame = INVALID_PAGE THEN [sc EXCEPT !.st = "done"]
        ELSE IF sc.slot \notin slots THEN sc
        ELSE [sc EXCEPT !.slot = IF later = {} THEN @ ELSE Min(later), !.more = later # {}]

GetNext ==
    /\ scan.st # "closed"
    /\ \E r \in {IF scan.more THEN [b |-> bm, sc |-> scan] ELSE nextDataPage(bm, scan)} :
       LET slots == IF r.sc.frame = INVALID_PAGE THEN {} ELSE AsHFPage(r.b.pool[r.sc.frame]).slots
       IN  /\ bm' = r.b
           /\ scan' = Fetched(r.sc, slots)
           /\ due' = IF r.sc.slot \in slots THEN due \ {<<r.sc.id, r.sc.slot>>} ELSE due
    /\ Track(scan')
    /\ UNCHANGED <<first, recs>>

\* Scan::reset, from its destructor.
CloseScan ==
    /\ scan.st # "closed"
    /\ bm' = IF scan.frame = INVALID_PAGE THEN bm ELSE unpinPage(bm, scan.id).b
    /\ scan' = NoScan
    /\ Track(NoScan)
    /\ due' = {}
    /\ UNCHANGED <<first, recs>>

Call == \/ Open \/ Close \/ Read \/ InsertRecord \/ DeleteFile
        \/ OpenScan \/ GetNext \/ CloseScan

HeapNext == Call \/ \E rid \in recs : DeleteRecord(rid)

HeapSpec == HeapInit /\ [][HeapNext]_heapVars

\* The record is the last of the file's first page or of the page a scan stands on.
NeedsItsPage(rid) == /\ PageValue(bm, rid[1]).slots = {rid[2]}
                     /\ rid[1] = first \/ (scan.frame # INVALID_PAGE /\ scan.id = rid[1])

\* Callers that delete no such record.  Nothing in heapfile.C keeps them from it.
CarefulNext == Call \/ \E rid \in recs : ~NeedsItsPage(rid) /\ DeleteRecord(rid)

CarefulSpec == HeapInit /\ [][CarefulNext]_heapVars

-----------------------------------------------------------------------------
(* Properties *)

\* The pages of the file as the directory and the links say.
Linked(ps) == {AsHFPage(PageValue(bm, p)).next : p \in ps} \ {INVALID_PAGE}

PagesFrom(p) ==
    LET c[i \in 0 .. num_pages] ==
          IF i = 0 THEN {p} \ {INVALID_PAGE} ELSE LET ps == c[i - 1] IN ps \cup Linked(ps)
    IN c[num_pages]

FilePages == PagesFrom(Entry(PageValue(bm, 0)))

\* Between calls a file that is not scanned has no page pinned: what heapfile.C:134
\* says of the destructor, and what the next operation needs.
NoPinsLeft == scan.st = "closed" => \A f \in Frame : bm.pin_cnt[f] = 0

\* In whatever order careful callers insert and delete, also under a scan, following
\* the links from the directory finds exactly the records that were inserted and not
\* deleted, and every page that is in use is one of the file's: no page is lost and
\* none is linked that was given back.  The pins are those of the scan.
FileSound ==
    /\ recs = UNION {{<<p, s>> : s \in AsHFPage(PageValue(bm, p)).slots} : p \in FilePages}
    /\ InUse = Reserved \cup FilePages
    /\ first \in {INVALID_PAGE, Entry(PageValue(bm, 0))}
    /\ PinsMatch /\ NoPinsLeft

\* A scan that says it is done has returned every record that was in the file
\* when it began and was not deleted since, also when records were inserted and
\* pages came and went under it.
ScanComplete == scan.st = "done" => due = {}
=============================================================================
