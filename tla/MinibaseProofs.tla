--------------------------- MODULE MinibaseProofs ---------------------------
(***************************************************************************)
(* Proofs about Minibase's buffer manager and the heap files on top of it. *)
(*                                                                         *)
(* The manager: as long as no write fails, the pins of the frames are      *)
(* those callers hold, their pointers stay good, the clock finds a frame   *)
(* whenever one has no pin, and the manager implements PageStore.  Each    *)
(* method is described by a predicate on the manager before the call, the  *)
(* pins that are held then, and its result (PinPageDoes, SetBitsDoes,      *)
(* AllocateDoes, NewPageDoes, FreePageDoes); a method that calls others is *)
(* proved from what they do, and an action from its method.                *)
(*                                                                         *)
(* Heap files: from those predicates, what the methods do to the values of *)
(* the pages when nothing fails (NewDoes, FreeDoes, Becomes); then to a    *)
(* file, a list of pages without repetition that FileIs relates to those   *)
(* values; then to a scan on one of its pages.                             *)
(***************************************************************************)
EXTENDS HeapFile, WellFoundedInduction, FiniteSetTheorems, TLAPS

-----------------------------------------------------------------------------
(***************************************************************************)
(* The clock.                                                              *)
(***************************************************************************)
Less == {ss \in Nat \X Nat : ss[1] < ss[2]}

\* The numbers are in a well-founded order.
LEMMA LessWellFounded == IsWellFoundedOn(Less, Nat)
BY NatLessThanWellFounded DEF OpToRel, Less

\* A set of numbers has a least one, and Min finds it.
LEMMA Least ==
    ASSUME NEW S, S \subseteq Nat, S # {}
    PROVE  Min(S) \in S /\ \A y \in S : Min(S) <= y
<1>1. ASSUME NEW x \in Nat, NEW y \in Nat, y < x PROVE <<y, x>> \in Less
  <2>1. <<y, x>> \in Nat \X Nat /\ <<y, x>>[1] < <<y, x>>[2]
    BY <1>1
  <2>2. QED  BY <2>1, Zenon DEF Less
<1>2. PICK x \in S : \A y \in S : <<y, x>> \notin Less
  BY LessWellFounded, WFMin
<1>3. x \in Nat /\ \A y \in S : ~(y < x)
  BY <1>1, <1>2
<1>4. \A y \in S : x <= y
  BY <1>3
<1>5. QED  BY <1>4 DEF Min

Bits == {"Available", "Referenced", "Pinned"}

\* The clock's part of the manager: only frames without a pin are in its reach.
ClockOK(b) ==
    /\ b.pin_cnt \in [Frame -> Nat] /\ b.state_bit \in [Frame -> Bits]
    /\ b.head \in -1 .. numBuffers - 1
    /\ \A f \in Frame : b.state_bit[f] = "Pinned" <=> b.pin_cnt[f] > 0

\* The state bits when the hand has passed the frames up to num: those that
\* were referenced are available.
Cleared(b, num) ==
    [f \in Frame |-> IF b.state_bit[f] = "Referenced" /\ \E k \in 0 .. num : Hand(b, k) = f
                     THEN "Available" ELSE b.state_bit[f]]

\* The hand is at a frame, and in one turn at each.
LEMMA HandTurns ==
    ASSUME NEW b, ClockOK(b)
    PROVE  /\ \A k \in Nat : Hand(b, k) \in Frame
           /\ \A f \in Frame : \E k \in 0 .. numBuffers - 1 :
                 Hand(b, k) = f /\ Hand(b, k + numBuffers) = f
<1>1. numBuffers \in Nat \ {0} /\ b.head \in -1 .. numBuffers - 1
  BY BufMgrAssumption DEF ClockOK
<1>2. \A k \in Nat : Hand(b, k) \in Frame
  <2>1. TAKE k \in Nat
  <2>2. b.head + 1 + k \in Nat
    BY <1>1
  <2>3. QED  BY <1>1, <2>2 DEF Hand, Frame
<1>3. ASSUME NEW f \in Frame
      PROVE  \E k \in 0 .. numBuffers - 1 : Hand(b, k) = f /\ Hand(b, k + numBuffers) = f
  <2>1. f \in 0 .. numBuffers - 1
    BY DEF Frame
  <2>2. CASE f >= b.head + 1
    <3>1. f - b.head - 1 \in 0 .. numBuffers - 1
      BY <1>1, <2>1, <2>2
    <3>2. Hand(b, f - b.head - 1) = f /\ Hand(b, f - b.head - 1 + numBuffers) = f
      <4>1. b.head + 1 + (f - b.head - 1) = f
            /\ b.head + 1 + (f - b.head - 1 + numBuffers) = f + numBuffers
        BY <1>1, <2>1
      <4>2. f % numBuffers = f /\ (f + numBuffers) % numBuffers = f
        BY <1>1, <2>1
      <4>3. QED  BY <4>1, <4>2 DEF Hand
    <3>3. QED  BY <3>1, <3>2
  <2>3. CASE f < b.head + 1
    <3>1. f - b.head - 1 + numBuffers \in 0 .. numBuffers - 1
      BY <1>1, <2>1, <2>3
    <3>2. Hand(b, f - b.head - 1 + numBuffers) = f
          /\ Hand(b, f - b.head - 1 + numBuffers + numBuffers) = f
      <4>1. b.head + 1 + (f - b.head - 1 + numBuffers) = f + numBuffers
            /\ b.head + 1 + (f - b.head - 1 + numBuffers + numBuffers)
                 = f + numBuffers + numBuffers
        BY <1>1, <2>1
      <4>2. (f + numBuffers) % numBuffers = f /\ (f + numBuffers + numBuffers) % numBuffers = f
        BY <1>1, <2>1
      <4>3. QED  BY <4>1, <4>2 DEF Hand
    <3>3. QED  BY <3>1, <3>2
  <2>4. QED  BY <1>1, <2>1, <2>2, <2>3
<1>4. QED  BY <1>2, <1>3

\* One step of the sweep.
LEMMA ClearedStep ==
    ASSUME NEW b, ClockOK(b), NEW num \in Nat
    PROVE  /\ Cleared(b, num) = LET bits == Cleared(b, num - 1)
                                IN  IF bits[Hand(b, num)] = "Referenced"
                                    THEN [bits EXCEPT ![Hand(b, num)] = "Available"]
                                    ELSE bits
           /\ Cleared(b, -1) = b.state_bit
<1> DEFINE h == Hand(b, num)
           was(f) == \E k \in 0 .. num - 1 : Hand(b, k) = f
           is(f) == \E k \in 0 .. num : Hand(b, k) = f
<1>1. h \in Frame /\ b.state_bit \in [Frame -> Bits]
  BY HandTurns DEF ClockOK
<1>2. \A f : is(f) <=> was(f) \/ f = h
  <2>1. 0 .. num = 0 .. num - 1 \cup {num}
    OBVIOUS
  <2>2. QED  BY <2>1
<1>3. Cleared(b, -1) = b.state_bit
  <2>1. 0 .. -1 = {}
    OBVIOUS
  <2>2. QED  BY <1>1, <2>1 DEF Cleared
<1> DEFINE bits == Cleared(b, num - 1)
<1>4. bits = [f \in Frame |-> IF b.state_bit[f] = "Referenced" /\ was(f)
                              THEN "Available" ELSE b.state_bit[f]]
  BY DEF Cleared
<1>5. Cleared(b, num) = [f \in Frame |-> IF b.state_bit[f] = "Referenced" /\ is(f)
                                         THEN "Available" ELSE b.state_bit[f]]
  BY DEF Cleared
<1> HIDE DEF bits, h, was, is
<1>6. ASSUME bits[h] = "Referenced" PROVE Cleared(b, num) = [bits EXCEPT ![h] = "Available"]
  BY <1>1, <1>2, <1>4, <1>5, <1>6
<1>7. ASSUME bits[h] # "Referenced" PROVE Cleared(b, num) = bits
  BY <1>1, <1>2, <1>4, <1>5, <1>7
<1>8. QED  BY <1>3, <1>6, <1>7 DEF bits, h

\* The sweep is what its recursion says.
LEMMA SweptIs ==
    ASSUME NEW b, ClockOK(b)
    PROVE  \A num \in Passed : /\ Swept(b)[num] = Cleared(b, num)
                                /\ Seen(b, Swept(b), num) = Cleared(b, num - 1)
<1> DEFINE step(bits, num) == IF bits[Hand(b, num)] = "Referenced"
                              THEN [bits EXCEPT ![Hand(b, num)] = "Available"]
                              ELSE bits
           obeys(s) == s = [num \in Passed |->
                               step(IF num = 0 THEN b.state_bit ELSE s[num - 1], num)]
           c == [num \in Passed |-> Cleared(b, num)]
           s == Swept(b)
<1>1. Passed = 0 .. 2 * numBuffers /\ numBuffers \in Nat
  BY BufMgrAssumption DEF Passed
<1>2. \A num \in Nat : Cleared(b, num) = step(Cleared(b, num - 1), num)
  BY ClearedStep
<1>3. Cleared(b, -1) = b.state_bit
  BY ClearedStep
<1> HIDE DEF step
<1>4. obeys(c)
  <2>1. ASSUME NEW num \in Passed
        PROVE  c[num] = step(IF num = 0 THEN b.state_bit ELSE c[num - 1], num)
    <3>1. num \in Nat /\ (num # 0 => num - 1 \in Passed)
      BY <1>1
    <3>2. CASE num = 0
      <4>1. 0 - 1 = -1
        OBVIOUS
      <4>2. QED  BY <1>2, <1>3, <3>1, <3>2, <4>1
    <3>3. CASE num # 0
      BY <1>2, <3>1, <3>3
    <3>4. QED  BY <3>2, <3>3
  <2>2. QED  BY <2>1
<1>5. s = CHOOSE t : obeys(t)
  BY DEF Swept, step
<1>6. obeys(s)
  <2> HIDE DEF s, obeys, c
  <2>1. QED  BY <1>4, <1>5
<1> HIDE DEF s
<1>7. ASSUME NEW num \in Passed
      PROVE  s[num] = step(IF num = 0 THEN b.state_bit ELSE s[num - 1], num)
  BY <1>6
<1>8. \A num \in Passed : s[num] = Cleared(b, num)
  <2> DEFINE odd == {num \in Passed : s[num] # Cleared(b, num)}
  <2> SUFFICES ASSUME odd # {} PROVE FALSE
    OBVIOUS
  <2>1. odd \subseteq Nat
    BY <1>1
  <2> DEFINE n == Min(odd)
  <2>2. n \in odd /\ \A y \in odd : n <= y
    BY <2>1, Least
  <2> HIDE DEF n
  <2>3. n \in Passed /\ n \in Nat /\ s[n] # Cleared(b, n)
    BY <2>1, <2>2
  <2>4. CASE n = 0
    <3>1. s[0] = step(b.state_bit, 0)
      BY <1>7, <2>3, <2>4
    <3>2. 0 - 1 = -1
      OBVIOUS
    <3>3. QED  BY <1>2, <1>3, <2>3, <2>4, <3>1, <3>2
  <2>5. CASE n # 0
    <3>1. n - 1 \in Passed /\ ~(n <= n - 1)
      BY <1>1, <2>3, <2>5
    <3>2. s[n - 1] = Cleared(b, n - 1)
      BY <2>2, <3>1
    <3>3. QED  BY <1>2, <1>7, <2>3, <2>5, <3>2
  <2>6. QED  BY <2>4, <2>5
<1>9. ASSUME NEW num \in Passed PROVE Seen(b, s, num) = Cleared(b, num - 1)
  <2>1. CASE num = 0
    <3>1. 0 - 1 = -1
      OBVIOUS
    <3>2. QED  BY <1>3, <2>1, <3>1 DEF Seen
  <2>2. CASE num # 0
    <3>1. num - 1 \in Passed
      BY <1>1, <2>2
    <3>2. QED  BY <1>8, <2>2, <3>1 DEF Seen
  <2>3. QED  BY <2>1, <2>2
<1>10. QED  BY <1>8, <1>9 DEF s

\* The largest number of a turn of the hand.
LEMMA LastPassed == Max(Passed) \in Passed /\ Max(Passed) \in Nat
<1>1. numBuffers \in Nat /\ Passed = 0 .. 2 * numBuffers
  BY BufMgrAssumption DEF Passed
<1>2. 2 * numBuffers \in Passed /\ \A y \in Passed : 2 * numBuffers >= y
  BY <1>1
<1>3. Max(Passed) \in Passed
  BY <1>2 DEF Max
<1>4. QED  BY <1>1, <1>3

MgrFields == {"pageNo", "pin_cnt", "state_bit", "head", "pool", "disk"}

\* Pinning a frame keeps the clock sound.
LEMMA PinKeeps ==
    ASSUME NEW b, DOMAIN b = MgrFields, ClockOK(b), NEW f \in Frame
    PROVE  LET e == pin(b, f)
           IN  /\ DOMAIN e = MgrFields /\ ClockOK(e)
               /\ e.pin_cnt = [b.pin_cnt EXCEPT ![f] = @ + 1] /\ e.head = b.head
               /\ e.pageNo = b.pageNo /\ e.pool = b.pool /\ e.disk = b.disk
<1> DEFINE e == pin(b, f)
<1>1. /\ DOMAIN e = MgrFields /\ e.head = b.head
      /\ e.pageNo = b.pageNo /\ e.pool = b.pool /\ e.disk = b.disk
      /\ e.pin_cnt = [b.pin_cnt EXCEPT ![f] = @ + 1]
      /\ e.state_bit = [b.state_bit EXCEPT ![f] = "Pinned"]
  BY DEF pin, MgrFields
<1> HIDE DEF e
<1>2. ClockOK(e)
  BY <1>1 DEF ClockOK, Bits
<1>3. QED  BY <1>1, <1>2 DEF e

\* So does what the hand does on its way.
LEMMA SweepKeeps ==
    ASSUME NEW b, DOMAIN b = MgrFields, ClockOK(b), NEW num \in Nat, NEW k
    PROVE  LET e == [b EXCEPT !.head = Hand(b, num), !.state_bit = Cleared(b, k)]
           IN  /\ DOMAIN e = MgrFields /\ ClockOK(e)
               /\ e.pin_cnt = b.pin_cnt /\ e.head \in Frame
               /\ e.pageNo = b.pageNo /\ e.pool = b.pool /\ e.disk = b.disk
<1> DEFINE e == [b EXCEPT !.head = Hand(b, num), !.state_bit = Cleared(b, k)]
<1>1. /\ DOMAIN e = MgrFields /\ e.head = Hand(b, num) /\ e.pin_cnt = b.pin_cnt
      /\ e.pageNo = b.pageNo /\ e.pool = b.pool /\ e.disk = b.disk
      /\ e.state_bit = Cleared(b, k)
  BY DEF MgrFields
<1>2. Hand(b, num) \in Frame /\ Frame = 0 .. numBuffers - 1 /\ numBuffers \in Nat
  BY HandTurns, BufMgrAssumption DEF Frame
<1>3. Cleared(b, k) \in [Frame -> Bits]
      /\ \A f \in Frame : Cleared(b, k)[f] = "Pinned" <=> b.state_bit[f] = "Pinned"
  BY DEF Cleared, ClockOK, Bits
<1> HIDE DEF e
<1>4. ClockOK(e)
  BY <1>1, <1>2, <1>3 DEF ClockOK
<1>5. QED  BY <1>1, <1>2, <1>4 DEF e

\* What pick_victim leaves.
LEMMA VictimIs ==
    ASSUME NEW b, DOMAIN b = MgrFields, ClockOK(b)
    PROVE  LET v == pick_victim(b)
           IN  /\ DOMAIN v.b = MgrFields /\ ClockOK(v.b) /\ v.b.head \in Frame
               /\ v.b.pageNo = b.pageNo /\ v.b.pool = b.pool /\ v.b.disk = b.disk
               /\ v.frame \in Frame \cup {INVALID_PAGE}
               /\ v.frame = INVALID_PAGE => v.b.pin_cnt = b.pin_cnt
               /\ v.frame \in Frame => /\ b.pin_cnt[v.frame] = 0
                                       /\ v.b.pin_cnt = [b.pin_cnt EXCEPT ![v.frame] = 1]
               /\ (\E f \in Frame : b.pin_cnt[f] = 0) => v.frame \in Frame
<1> DEFINE s == Swept(b)
           v == pick_victim(b)
<1>1. /\ \A num \in Passed : s[num] = Cleared(b, num) /\ Seen(b, s, num) = Cleared(b, num - 1)
      /\ Passed = 0 .. 2 * numBuffers /\ numBuffers \in Nat \ {0} /\ Passed \subseteq Nat
  BY SweptIs, BufMgrAssumption DEF Passed
<1>2. v = IF Stops(b, s) = {} THEN GiveUp(b, s) ELSE Take(b, s, Min(Stops(b, s)))
  BY DEF pick_victim, VictimOf
<1> HIDE DEF s, v
<1>3. Stops(b, s) \subseteq Nat /\ Stops(b, s) \subseteq Passed
  BY <1>1 DEF Stops
<1>4. CASE Stops(b, s) = {}
  <2> DEFINE last == Max(Passed)
             e == [b EXCEPT !.head = Hand(b, last), !.state_bit = Cleared(b, last)]
  <2>1. v = [b |-> e, frame |-> INVALID_PAGE]
    BY <1>1, <1>2, <1>4, LastPassed DEF GiveUp
  <2>2. DOMAIN e = MgrFields /\ ClockOK(e) /\ e.head \in Frame /\ e.pin_cnt = b.pin_cnt
        /\ e.pageNo = b.pageNo /\ e.pool = b.pool /\ e.disk = b.disk
    BY LastPassed, SweepKeeps
  <2> HIDE DEF e, last
  <2>3. ASSUME NEW f \in Frame, b.pin_cnt[f] = 0 PROVE FALSE
    <3>1. PICK k \in 0 .. numBuffers - 1 : Hand(b, k) = f /\ Hand(b, k + numBuffers) = f
      BY HandTurns
    <3>2. k + numBuffers \in Passed /\ k \in 0 .. k + numBuffers - 1
      BY <1>1
    <3>3. Seen(b, s, k + numBuffers) = Cleared(b, k + numBuffers - 1)
      BY <1>1, <3>2
    <3>4. b.state_bit[f] \in {"Available", "Referenced"}
      BY <2>3 DEF ClockOK, Bits
    <3>5. Cleared(b, k + numBuffers - 1)[f] = "Available"
      BY <3>1, <3>2, <3>4 DEF Cleared
    <3>6. k + numBuffers \in Stops(b, s)
      BY <3>1, <3>2, <3>3, <3>5 DEF Stops
    <3>7. QED  BY <1>4, <3>6
  <2>4. INVALID_PAGE \notin Frame
    BY DEF INVALID_PAGE, Frame
  <2>5. QED  BY <2>1, <2>2, <2>3, <2>4 DEF v
<1>5. CASE Stops(b, s) # {}
  <2> DEFINE num == Min(Stops(b, s))
             f == Hand(b, num)
             a == [b EXCEPT !.head = f, !.state_bit = Cleared(b, num - 1)]
             e == pin(a, f)
  <2>1. num \in Stops(b, s)
    BY <1>3, <1>5, Least
  <2> HIDE DEF num
  <2>2. num \in Passed /\ num \in Nat /\ Seen(b, s, num) = Cleared(b, num - 1)
        /\ Cleared(b, num - 1)[f] = "Available"
    BY <1>1, <1>3, <2>1 DEF Stops
  <2>3. v = [b |-> e, frame |-> f]
    BY <1>2, <1>5, <2>2 DEF Take, num
  <2>4. f \in Frame
    BY <2>2, HandTurns
  <2>5. DOMAIN a = MgrFields /\ ClockOK(a) /\ a.head \in Frame /\ a.pin_cnt = b.pin_cnt
        /\ a.pageNo = b.pageNo /\ a.pool = b.pool /\ a.disk = b.disk
    BY <2>2, SweepKeeps
  <2>6. b.pin_cnt[f] = 0
    <3>1. b.state_bit[f] # "Pinned"
      BY <2>2, <2>4 DEF Cleared
    <3>2. QED  BY <2>4, <3>1 DEF ClockOK
  <2> HIDE DEF a, f
  <2>7. /\ DOMAIN e = MgrFields /\ ClockOK(e) /\ e.pin_cnt = [a.pin_cnt EXCEPT ![f] = @ + 1]
        /\ e.head = a.head /\ e.pageNo = a.pageNo /\ e.pool = a.pool /\ e.disk = a.disk
    BY <2>4, <2>5, PinKeeps
  <2>8. e.pin_cnt = [b.pin_cnt EXCEPT ![f] = 1]
    BY <2>4, <2>5, <2>6, <2>7 DEF ClockOK
  <2>9. INVALID_PAGE \notin Frame
    BY DEF INVALID_PAGE, Frame
  <2> HIDE DEF e
  <2>10. QED  BY <2>3, <2>4, <2>5, <2>6, <2>7, <2>8, <2>9 DEF v
<1>6. QED  BY <1>4, <1>5
-----------------------------------------------------------------------------
(***************************************************************************)
(* The pool.  cnt is the number of pins that are held on each page, by     *)
(* callers and by the method that is under way.                            *)
(***************************************************************************)
InPool(b) == {p \in Page : \E f \in Frame : b.pageNo[f] = p}

\* No two frames have one page.
Single(b) ==
    /\ b.pageNo \in [Frame -> Page \cup {INVALID_PAGE}]
    /\ \A f, g \in Frame : b.pageNo[f] = b.pageNo[g] /\ b.pageNo[f] # INVALID_PAGE => f = g

\* The pins of the frames are those of the pages, and a page that is pinned has a frame.
Pinned(b, cnt) ==
    /\ cnt \in [Page -> Nat]
    /\ \A f \in Frame :
          b.pin_cnt[f] = IF b.pageNo[f] = INVALID_PAGE THEN 0 ELSE cnt[b.pageNo[f]]
    /\ \A p \in Page : cnt[p] > 0 => p \in InPool(b)

MgrOK(b, cnt) ==
    /\ DOMAIN b = MgrFields /\ ClockOK(b) /\ Single(b) /\ Pinned(b, cnt)
    /\ b.pool \in [Frame -> Value] /\ b.disk \in [Page -> Value]
    /\ PageValue(b, SpaceMap) \subseteq Page

\* From b to e pinned pages stay where they are, and only the pages of new
\* have come into the pool.
Kept(b, e, cnt, new) ==
    /\ \A f \in Frame : b.pageNo[f] \in Page /\ cnt[b.pageNo[f]] > 0 => e.pageNo[f] = b.pageNo[f]
    /\ InPool(e) \subseteq InPool(b) \cup new
    /\ e.head = b.head \/ e.head \in Frame

\* The pages of some set have the values they had.
Same(b, e, ps) == \A p \in ps : PageValue(e, p) = PageValue(b, p)

Bump(cnt, p) == [cnt EXCEPT ![p] = @ + 1]
Drop(cnt, p) == [cnt EXCEPT ![p] = @ - 1]

\* With these pins there is a frame that nobody has pinned, whatever the pool looks like.
LeavesFrame(cnt) == \A b : MgrOK(b, cnt) => \E f \in Frame : b.pin_cnt[f] = 0

\* Pages and frames are numbers, and no page or frame at all is neither.
LEMMA Sizes ==
    /\ numBuffers \in Nat \ {0} /\ num_pages \in Nat \ {0, 1}
    /\ Frame = 0 .. numBuffers - 1 /\ Page = 0 .. num_pages - 1
    /\ Frame \subseteq Nat /\ Page \subseteq Nat
    /\ INVALID_PAGE \notin Frame /\ INVALID_PAGE \notin Page
    /\ SpaceMap \in Page /\ 0 \in Page /\ 0 # SpaceMap /\ Reserved \subseteq Page
BY BufMgrAssumption DEF Frame, Page, INVALID_PAGE, SpaceMap, Reserved

\* The table finds the frame of a page, and the value of a page is there, or on the disk.
LEMMA ValueIs ==
    ASSUME NEW b, Single(b), NEW p \in Page
    PROVE  /\ \A f \in Frame : b.pageNo[f] = p
                 => Lookup(b, p) = f /\ PageValue(b, p) = b.pool[f]
           /\ p \in InPool(b) => Lookup(b, p) \in Frame /\ b.pageNo[Lookup(b, p)] = p
           /\ p \notin InPool(b) => Lookup(b, p) = INVALID_PAGE /\ PageValue(b, p) = b.disk[p]
<1> DEFINE fs == {f \in Frame : b.pageNo[f] = p}
<1>1. Frame \subseteq Nat /\ INVALID_PAGE \notin Frame /\ INVALID_PAGE \notin Page
  BY Sizes
<1>2. ASSUME NEW f \in Frame, b.pageNo[f] = p
      PROVE  Lookup(b, p) = f /\ PageValue(b, p) = b.pool[f]
  <2>1. fs = {f}
    BY <1>1, <1>2 DEF Single
  <2>2. Min({f}) = f
    BY <1>1, Least
  <2>3. Lookup(b, p) = f
    BY <2>1, <2>2 DEF Lookup
  <2>4. QED  BY <1>1, <2>3 DEF PageValue
<1>3. p \in InPool(b) => Lookup(b, p) \in Frame /\ b.pageNo[Lookup(b, p)] = p
  BY <1>2 DEF InPool
<1>4. p \notin InPool(b) => Lookup(b, p) = INVALID_PAGE /\ PageValue(b, p) = b.disk[p]
  BY DEF InPool, Lookup, PageValue
<1>5. QED  BY <1>2, <1>3, <1>4

\* The value of a page hangs on the table, the pool and the disk.
LEMMA SameTable ==
    ASSUME NEW b, NEW e, e.pageNo = b.pageNo, e.pool = b.pool, e.disk = b.disk
    PROVE  /\ \A p : Lookup(e, p) = Lookup(b, p) /\ PageValue(e, p) = PageValue(b, p)
           /\ InPool(e) = InPool(b) /\ (Single(b) => Single(e))
<1>1. \A p : Lookup(e, p) = Lookup(b, p)
  BY DEF Lookup
<1>2. QED  BY <1>1 DEF PageValue, InPool, Single

\* Another pin on a page of the pool, or one less.
LEMMA PinnedMore ==
    ASSUME NEW b, NEW cnt, MgrOK(b, cnt), NEW f \in Frame, b.pageNo[f] \in Page,
           NEW e, NEW n \in Nat, DOMAIN e = MgrFields, ClockOK(e),
           e.pageNo = b.pageNo, e.pool = b.pool, e.disk = b.disk,
           e.pin_cnt = [b.pin_cnt EXCEPT ![f] = n]
    PROVE  MgrOK(e, [cnt EXCEPT ![b.pageNo[f]] = n])
<1> DEFINE p == b.pageNo[f]
           c == [cnt EXCEPT ![p] = n]
<1>1. Single(e) /\ InPool(e) = InPool(b) /\ \A q : PageValue(e, q) = PageValue(b, q)
  BY SameTable DEF MgrOK
<1>2. c \in [Page -> Nat]
  BY DEF MgrOK, Pinned
<1>3. ASSUME NEW g \in Frame
      PROVE  e.pin_cnt[g] = IF e.pageNo[g] = INVALID_PAGE THEN 0 ELSE c[e.pageNo[g]]
  <2>1. b.pin_cnt \in [Frame -> Nat]
        /\ b.pin_cnt[g] = IF b.pageNo[g] = INVALID_PAGE THEN 0 ELSE cnt[b.pageNo[g]]
    BY DEF MgrOK, ClockOK, Pinned
  <2>2. CASE g = f
    BY <2>1, <2>2, Sizes DEF MgrOK, Pinned
  <2>3. CASE g # f
    <3>1. b.pageNo[g] # p
      BY <2>3, Sizes DEF MgrOK, Single
    <3>2. b.pageNo[g] \in Page \cup {INVALID_PAGE} /\ cnt \in [Page -> Nat]
      BY DEF MgrOK, Single, Pinned
    <3>3. e.pin_cnt[g] = b.pin_cnt[g]
      BY <2>1, <2>3
    <3>4. QED  BY <2>1, <3>1, <3>2, <3>3
  <2>4. QED  BY <2>2, <2>3
<1>4. \A q \in Page : c[q] > 0 => q \in InPool(e)
  <2>1. p \in InPool(b)
    BY DEF InPool
  <2>2. QED  BY <1>1, <2>1 DEF MgrOK, Pinned
<1>5. Pinned(e, c)
  BY <1>2, <1>3, <1>4 DEF Pinned
<1>6. QED  BY <1>1, <1>5 DEF MgrOK

\* Page p, or none, takes the frame of a page that goes to the disk.
Replaces(b, f, p, x, e) ==
    /\ DOMAIN e = MgrFields /\ ClockOK(e) /\ e.head \in Frame
    /\ e.pageNo = [b.pageNo EXCEPT ![f] = p] /\ e.pool = [b.pool EXCEPT ![f] = x]
    /\ e.disk = IF b.pageNo[f] = INVALID_PAGE THEN b.disk
                ELSE [b.disk EXCEPT ![b.pageNo[f]] = b.pool[f]]
    /\ e.pin_cnt = [b.pin_cnt EXCEPT ![f] = IF p = INVALID_PAGE THEN 0 ELSE 1]

\* When nobody has the old page pinned, the manager stays sound.
LEMMA Replaced ==
    ASSUME NEW b, NEW cnt, MgrOK(b, cnt), NEW f \in Frame, b.pin_cnt[f] = 0,
           NEW p \in Page \cup {INVALID_PAGE}, p \notin InPool(b),
           NEW x \in Value, p = SpaceMap => x = b.disk[p], NEW e, Replaces(b, f, p, x, e)
    PROVE  /\ MgrOK(e, IF p = INVALID_PAGE THEN cnt ELSE Bump(cnt, p))
           /\ Kept(b, e, cnt, {p}) /\ Same(b, e, Page \ {p})
           /\ p \in Page => PageValue(e, p) = x
<1> DEFINE old == b.pageNo[f]
           c == IF p = INVALID_PAGE THEN cnt ELSE Bump(cnt, p)
<1>16. /\ DOMAIN e = MgrFields /\ ClockOK(e) /\ e.head \in Frame
       /\ e.pageNo = [b.pageNo EXCEPT ![f] = p] /\ e.pool = [b.pool EXCEPT ![f] = x]
       /\ e.disk = IF old = INVALID_PAGE THEN b.disk ELSE [b.disk EXCEPT ![old] = b.pool[f]]
       /\ e.pin_cnt = [b.pin_cnt EXCEPT ![f] = IF p = INVALID_PAGE THEN 0 ELSE 1]
  BY DEF Replaces
<1>1. /\ Single(b) /\ Pinned(b, cnt) /\ cnt \in [Page -> Nat] /\ b.pool \in [Frame -> Value]
      /\ b.disk \in [Page -> Value] /\ b.pageNo \in [Frame -> Page \cup {INVALID_PAGE}]
      /\ b.pin_cnt \in [Frame -> Nat]
  BY DEF MgrOK, Single, Pinned, ClockOK
<1>2. \A g \in Frame : b.pageNo[g] # p \/ p = INVALID_PAGE
  BY DEF InPool
<1>3. Single(e)
  BY <1>1, <1>16, <1>2 DEF Single
<1>4. INVALID_PAGE \notin Page
  BY Sizes
<1>15. ASSUME NEW q \in Page
       PROVE  /\ \A g \in Frame : e.pageNo[g] = q => PageValue(e, q) = e.pool[g]
              /\ q \notin InPool(e) => PageValue(e, q) = e.disk[q]
  <2> HIDE DEF old, c
  <2>1. \A g \in Frame : e.pageNo[g] = q => PageValue(e, q) = e.pool[g]
    BY ONLY <1>3, <1>15, ValueIs
  <2>2. q \notin InPool(e) => PageValue(e, q) = e.disk[q]
    BY ONLY <1>3, <1>15, ValueIs
  <2>3. QED  BY <2>1, <2>2
<1>5. ASSUME NEW q \in Page \ {p} PROVE PageValue(e, q) = PageValue(b, q)
  <2>1. CASE q = old
    <3>1. PageValue(b, q) = b.pool[f]
      BY <1>1, <1>16, <2>1, ValueIs
    <3>2. q \notin InPool(e)
      BY <1>1, <1>16, <1>4, <2>1 DEF InPool, Single
    <3>3. PageValue(e, q) = e.disk[q]
      BY <1>15, <3>2
    <3>4. e.disk[q] = b.pool[f]
      BY <1>1, <1>16, <1>4, <2>1
    <3>5. QED  BY <3>1, <3>3, <3>4
  <2>2. CASE q # old /\ q \in InPool(b)
    <3>1. PICK g \in Frame : b.pageNo[g] = q
      BY <2>2 DEF InPool
    <3>2. g # f /\ e.pageNo[g] = q /\ e.pool[g] = b.pool[g]
      BY <1>1, <1>16, <2>2, <3>1
    <3>3. PageValue(b, q) = b.pool[g] /\ PageValue(e, q) = e.pool[g]
      BY <1>1, <1>16, <1>3, <3>1, <3>2, ValueIs
    <3>4. QED  BY <3>2, <3>3
  <2>3. CASE q # old /\ q \notin InPool(b)
    <3>1. q \notin InPool(e)
      BY <1>1, <1>16, <2>3 DEF InPool
    <3>2. PageValue(b, q) = b.disk[q] /\ PageValue(e, q) = e.disk[q]
      BY <1>1, <1>16, <1>3, <2>3, <3>1, ValueIs
    <3>3. e.disk[q] = b.disk[q]
      BY <1>1, <1>16, <2>3
    <3>4. QED  BY <3>2, <3>3
  <2>4. QED  BY <2>1, <2>2, <2>3
<1>6. p \in Page => PageValue(e, p) = x
  <2>1. e.pageNo[f] = p /\ e.pool[f] = x
    BY <1>1, <1>16
  <2>2. QED  BY <1>15, <2>1
<1>7. old \in Page => cnt[old] = 0
  BY <1>1, <1>16, <1>4 DEF Pinned
<1>8. Kept(b, e, cnt, {p})
  <2>1. \A g \in Frame : b.pageNo[g] \in Page /\ cnt[b.pageNo[g]] > 0
                            => e.pageNo[g] = b.pageNo[g]
    BY <1>1, <1>16, <1>7
  <2>2. InPool(e) \subseteq InPool(b) \cup {p}
    BY <1>1, <1>16 DEF InPool
  <2>3. QED  BY <1>16, <2>1, <2>2 DEF Kept
<1>9. p \in Page => cnt[p] = 0
  BY <1>1, <1>16 DEF Pinned
<1>10. Pinned(e, c)
  <2>1. c \in [Page -> Nat]
    BY <1>1, <1>16 DEF Bump
  <2>2. ASSUME NEW g \in Frame
        PROVE  e.pin_cnt[g] = IF e.pageNo[g] = INVALID_PAGE THEN 0 ELSE c[e.pageNo[g]]
    <3>1. CASE g = f
      BY <1>1, <1>16, <1>4, <1>9, <3>1 DEF Bump
    <3>2. CASE g # f
      <4>1. e.pageNo[g] = b.pageNo[g] /\ e.pin_cnt[g] = b.pin_cnt[g]
            /\ b.pageNo[g] \in Page \cup {INVALID_PAGE}
        BY <1>1, <1>16, <3>2
      <4>2. b.pageNo[g] \in Page => c[b.pageNo[g]] = cnt[b.pageNo[g]]
        BY <1>1, <1>16, <1>2, <1>4 DEF Bump
      <4>3. b.pin_cnt[g] = IF b.pageNo[g] = INVALID_PAGE THEN 0 ELSE cnt[b.pageNo[g]]
        BY <1>1, <1>16 DEF Pinned
      <4>4. QED  BY <4>1, <4>2, <4>3
    <3>3. QED  BY <3>1, <3>2
  <2>3. ASSUME NEW q \in Page, c[q] > 0 PROVE q \in InPool(e)
    <3>1. CASE q = p
      BY <1>1, <1>16, <3>1 DEF InPool
    <3>2. CASE q # p
      <4>1. cnt[q] > 0
        BY <1>1, <1>16, <2>3, <3>2 DEF Bump
      <4>2. PICK g \in Frame : b.pageNo[g] = q
        BY <1>1, <1>16, <4>1 DEF Pinned, InPool
      <4>3. g # f
        BY <1>7, <4>1, <4>2
      <4>4. QED  BY <1>1, <1>16, <4>2, <4>3 DEF InPool
    <3>3. QED  BY <3>1, <3>2
  <2>4. QED  BY <2>1, <2>2, <2>3 DEF Pinned
<1>11. PageValue(e, SpaceMap) \subseteq Page
  <2>1. PageValue(e, SpaceMap) = PageValue(b, SpaceMap)
    <3>1. CASE p = SpaceMap
      BY <1>1, <1>16, <1>6, <3>1, Sizes, ValueIs
    <3>2. CASE p # SpaceMap
      BY <1>5, <3>2, Sizes
    <3>3. QED  BY <3>1, <3>2
  <2>2. QED  BY <2>1 DEF MgrOK
<1>12. e.pool \in [Frame -> Value] /\ e.disk \in [Page -> Value]
  BY <1>1, <1>16
<1>13. MgrOK(e, c)
  BY <1>3, <1>10, <1>11, <1>12, <1>16 DEF MgrOK
<1>14. QED  BY <1>5, <1>6, <1>8, <1>13 DEF Same

\* Two steps in a row.
LEMMA KeptOn ==
    ASSUME NEW b, NEW e, NEW g, NEW cnt, NEW c, NEW ps, NEW qs,
           cnt \in [Page -> Nat], c \in [Page -> Nat], \A p \in Page : cnt[p] <= c[p],
           Kept(b, e, cnt, ps), Kept(e, g, c, qs)
    PROVE  Kept(b, g, cnt, ps \cup qs)
<1>1. ASSUME NEW f \in Frame, b.pageNo[f] \in Page, cnt[b.pageNo[f]] > 0
      PROVE  g.pageNo[f] = b.pageNo[f]
  <2>1. e.pageNo[f] = b.pageNo[f]
    BY <1>1 DEF Kept
  <2>2. c[b.pageNo[f]] > 0
    BY <1>1
  <2>3. QED  BY <1>1, <2>1, <2>2 DEF Kept
<1>2. QED  BY <1>1 DEF Kept

\* A step that leaves table, pool and disk keeps every page.
LEMMA KeptStill ==
    ASSUME NEW b, NEW e, NEW cnt, NEW ps, e.pageNo = b.pageNo, e.pool = b.pool,
           e.disk = b.disk, e.head = b.head \/ e.head \in Frame
    PROVE  Kept(b, e, cnt, ps) /\ Same(b, e, Page)
BY SameTable DEF Kept, Same

\* A page is written in its frame.
LEMMA Written ==
    ASSUME NEW b, NEW cnt, MgrOK(b, cnt), NEW f \in Frame, NEW p \in Page, b.pageNo[f] = p,
           NEW x \in Value, p = SpaceMap => x \subseteq Page
    PROVE  LET e == [b EXCEPT !.pool[f] = x]
           IN  /\ MgrOK(e, cnt) /\ Same(b, e, Page \ {p}) /\ PageValue(e, p) = x
               /\ e.pageNo = b.pageNo /\ e.head = b.head /\ InPool(e) = InPool(b)
<1> DEFINE e == [b EXCEPT !.pool[f] = x]
<1>1. /\ DOMAIN e = MgrFields /\ e.pageNo = b.pageNo /\ e.head = b.head /\ e.disk = b.disk
      /\ e.pin_cnt = b.pin_cnt /\ e.state_bit = b.state_bit
      /\ e.pool = [b.pool EXCEPT ![f] = x]
  BY DEF MgrOK, MgrFields
<1>2. /\ Single(b) /\ Pinned(b, cnt) /\ b.pool \in [Frame -> Value]
      /\ b.disk \in [Page -> Value] /\ ClockOK(b)
  BY DEF MgrOK
<1> HIDE DEF e
<1>3. Single(e) /\ InPool(e) = InPool(b) /\ ClockOK(e) /\ Pinned(e, cnt)
  BY <1>1, <1>2 DEF Single, InPool, ClockOK, Pinned, Hand
<1>4. PageValue(e, p) = x
  BY <1>1, <1>2, <1>3, ValueIs
<1>5. ASSUME NEW q \in Page \ {p} PROVE PageValue(e, q) = PageValue(b, q)
  <2>1. CASE q \in InPool(b)
    <3>1. PICK g \in Frame : b.pageNo[g] = q
      BY <2>1 DEF InPool
    <3>2. PageValue(b, q) = b.pool[g] /\ PageValue(e, q) = e.pool[g]
      BY <1>1, <1>2, <1>3, <3>1, ValueIs
    <3>3. QED  BY <1>1, <1>2, <3>1, <3>2
  <2>2. CASE q \notin InPool(b)
    BY <1>1, <1>2, <1>3, <2>2, ValueIs
  <2>3. QED  BY <2>1, <2>2
<1>6. PageValue(e, SpaceMap) \subseteq Page
  BY <1>4, <1>5, Sizes DEF MgrOK
<1>7. e.pool \in [Frame -> Value]
  BY <1>1, <1>2
<1>8. MgrOK(e, cnt)
  BY <1>1, <1>2, <1>3, <1>6, <1>7 DEF MgrOK
<1>9. QED  BY <1>1, <1>3, <1>4, <1>5, <1>8 DEF Same, e

\* unpinPage of a page that is pinned.
LEMMA UnpinPageIs ==
    ASSUME NEW b, NEW cnt, MgrOK(b, cnt), NEW p \in Page, cnt[p] > 0
    PROVE  LET r == unpinPage(b, p)
           IN  /\ r.ok = TRUE /\ MgrOK(r.b, Drop(cnt, p)) /\ r.b.head = b.head
               /\ r.b.pageNo = b.pageNo /\ r.b.pool = b.pool /\ r.b.disk = b.disk
<1> DEFINE f == Lookup(b, p)
           r == unpinPage(b, p)
           e == [b EXCEPT !.pin_cnt[f] = @ - 1,
                          !.state_bit[f] = IF b.pin_cnt[f] = 1 THEN "Referenced" ELSE @]
<1>1. Single(b) /\ ClockOK(b) /\ Pinned(b, cnt) /\ DOMAIN b = MgrFields
      /\ cnt \in [Page -> Nat] /\ b.pin_cnt \in [Frame -> Nat]
  BY DEF MgrOK, Pinned, ClockOK
<1>2. f \in Frame /\ b.pageNo[f] = p
  BY <1>1, ValueIs DEF Pinned
<1>3. b.pin_cnt[f] = cnt[p] /\ cnt[p] \in Nat \ {0} /\ cnt[p] - 1 \in Nat
      /\ f # INVALID_PAGE /\ p # INVALID_PAGE
  <2>1. f # INVALID_PAGE /\ p # INVALID_PAGE
    BY <1>2, Sizes
  <2>2. cnt[p] \in Nat
    BY <1>1
  <2>3. b.pin_cnt[f] = cnt[p]
    BY <1>1, <1>2, <2>1 DEF Pinned
  <2>4. QED  BY <2>1, <2>2, <2>3
<1>4. r = [b |-> e, ok |-> TRUE]
  BY <1>3 DEF unpinPage, unpin
<1> HIDE DEF f, r
<1>5. /\ DOMAIN e = MgrFields /\ e.head = b.head /\ e.pageNo = b.pageNo /\ e.pool = b.pool
      /\ e.disk = b.disk /\ e.pin_cnt = [b.pin_cnt EXCEPT ![f] = @ - 1]
      /\ e.state_bit = [b.state_bit EXCEPT ![f] = IF b.pin_cnt[f] = 1 THEN "Referenced" ELSE @]
  BY <1>1 DEF MgrFields
<1> HIDE DEF e
<1>6. e.pin_cnt = [b.pin_cnt EXCEPT ![f] = cnt[p] - 1]
  BY <1>3, <1>5
<1>7. ClockOK(e)
  <2>1. e.pin_cnt \in [Frame -> Nat]
    BY <1>1, <1>3, <1>6
  <2>2. e.state_bit \in [Frame -> Bits]
    <3>1. "Referenced" \in Bits /\ b.state_bit \in [Frame -> Bits]
      BY <1>1 DEF ClockOK, Bits
    <3> HIDE DEF Bits
    <3>2. \A y \in Bits : (IF b.pin_cnt[f] = 1 THEN "Referenced" ELSE y) \in Bits
      BY <3>1
    <3>3. QED  BY <1>5, <3>1, <3>2
  <2>3. ASSUME NEW g \in Frame PROVE e.state_bit[g] = "Pinned" <=> e.pin_cnt[g] > 0
    <3>1. /\ b.state_bit[g] = "Pinned" <=> b.pin_cnt[g] > 0
          /\ b.state_bit \in [Frame -> Bits] /\ b.pin_cnt \in [Frame -> Nat]
      BY <1>1 DEF ClockOK
    <3> HIDE DEF Bits
    <3>2. CASE g = f
      <4>1. /\ e.pin_cnt[g] = cnt[p] - 1
            /\ e.state_bit[g] = IF cnt[p] = 1 THEN "Referenced" ELSE b.state_bit[g]
        BY <1>2, <1>3, <1>5, <1>6, <3>1, <3>2
      <4>2. QED  BY <1>3, <3>1, <3>2, <4>1
    <3>3. CASE g # f
      <4>1. e.pin_cnt[g] = b.pin_cnt[g] /\ e.state_bit[g] = b.state_bit[g]
        BY <1>2, <1>5, <3>1, <3>3
      <4>2. QED  BY <3>1, <4>1
    <3>4. QED  BY <3>2, <3>3
  <2>4. QED  BY <1>1, <1>5, <2>1, <2>2, <2>3 DEF ClockOK
<1>8. MgrOK(e, [cnt EXCEPT ![p] = cnt[p] - 1])
  <2>1. b.pageNo[f] \in Page
    BY <1>2
  <2>2. MgrOK(e, [cnt EXCEPT ![b.pageNo[f]] = cnt[p] - 1])
    BY <1>2, <1>3, <1>5, <1>6, <1>7, <2>1, PinnedMore
  <2>3. QED  BY <1>2, <2>2
<1>9. MgrOK(e, Drop(cnt, p))
  BY <1>8 DEF Drop
<1>10. QED  BY <1>4, <1>5, <1>9 DEF r

NoWriteFails(bad) == \A p \in Page : <<"write", p>> \notin bad

\* The page has a frame and one more pin, or nothing has changed.  It has one
\* when some frame had no pin and the page could be read.
PinPageDoes(b, cnt, p, emptyPage, bad, r) ==
    /\ r.ok \in BOOLEAN
    /\ r.ok => /\ r.frame \in Frame /\ r.b.pageNo[r.frame] = p
               /\ MgrOK(r.b, Bump(cnt, p)) /\ Kept(b, r.b, cnt, {p})
               /\ Same(b, r.b, Page \ {p}) /\ (emptyPage \/ Same(b, r.b, Page))
    /\ ~r.ok => MgrOK(r.b, cnt) /\ Kept(b, r.b, cnt, {}) /\ Same(b, r.b, Page)
    /\ (\E f \in Frame : b.pin_cnt[f] = 0) /\ (emptyPage \/ <<"read", p>> \notin bad) => r.ok
    /\ p \notin InPool(b) => r.b.head \in Frame /\ (emptyPage => r.b.pool = b.pool)

\* What pinPage does when no write fails.
LEMMA PinPageIs ==
    ASSUME NEW b, NEW cnt, MgrOK(b, cnt), NEW p \in Page, NEW bad, NoWriteFails(bad),
           NEW emptyPage \in BOOLEAN, emptyPage => p # SpaceMap
    PROVE  PinPageDoes(b, cnt, p, emptyPage, bad, pinPage(b, p, emptyPage, bad))
<1> DEFINE r == pinPage(b, p, emptyPage, bad)
<1> SUFFICES PinPageDoes(b, cnt, p, emptyPage, bad, r)
  OBVIOUS
<1>1. /\ Single(b) /\ ClockOK(b) /\ Pinned(b, cnt) /\ DOMAIN b = MgrFields
      /\ cnt \in [Page -> Nat] /\ b.pin_cnt \in [Frame -> Nat]
      /\ b.pageNo \in [Frame -> Page \cup {INVALID_PAGE}]
      /\ b.pool \in [Frame -> Value] /\ b.disk \in [Page -> Value]
  BY DEF MgrOK, Pinned, ClockOK, Single
<1>2. INVALID_PAGE \notin Frame /\ INVALID_PAGE \notin Page
  BY Sizes
<1>3. CASE p \in InPool(b)
  <2> DEFINE f == Lookup(b, p)
             e == pin(b, f)
  <2>1. f \in Frame /\ b.pageNo[f] = p
    BY <1>1, <1>3, ValueIs
  <2>2. r = [b |-> e, ok |-> TRUE, frame |-> f]
    BY <1>2, <2>1 DEF pinPage
  <2> HIDE DEF r, f
  <2>3. /\ DOMAIN e = MgrFields /\ ClockOK(e) /\ e.head = b.head
        /\ e.pageNo = b.pageNo /\ e.pool = b.pool /\ e.disk = b.disk
        /\ e.pin_cnt = [b.pin_cnt EXCEPT ![f] = @ + 1]
    BY <1>1, <2>1, PinKeeps
  <2> HIDE DEF e
  <2>4. b.pin_cnt[f] = cnt[p] /\ cnt[p] + 1 \in Nat
    BY <1>1, <1>2, <2>1 DEF Pinned
  <2>5. e.pin_cnt = [b.pin_cnt EXCEPT ![f] = cnt[p] + 1]
    BY <2>3, <2>4
  <2>6. MgrOK(e, Bump(cnt, p))
    <3>1. MgrOK(e, [cnt EXCEPT ![b.pageNo[f]] = cnt[p] + 1])
      BY <2>1, <2>3, <2>4, <2>5, PinnedMore
    <3>2. QED  BY <2>1, <3>1 DEF Bump
  <2>7. Kept(b, e, cnt, {p}) /\ Same(b, e, Page)
    BY <2>3, KeptStill
  <2>8. QED  BY <1>3, <2>1, <2>2, <2>3, <2>6, <2>7 DEF PinPageDoes, Same, r
<1>4. CASE p \notin InPool(b)
  <2> DEFINE v == pick_victim(b)
             f == v.frame
  <2>1. r = Fetch(v, p, emptyPage, bad)
    BY <1>1, <1>4, ValueIs DEF pinPage
  <2>2. /\ DOMAIN v.b = MgrFields /\ ClockOK(v.b) /\ v.b.head \in Frame
        /\ v.b.pageNo = b.pageNo /\ v.b.pool = b.pool /\ v.b.disk = b.disk
        /\ f \in Frame \cup {INVALID_PAGE}
        /\ f = INVALID_PAGE => v.b.pin_cnt = b.pin_cnt
        /\ f \in Frame => /\ b.pin_cnt[f] = 0
                          /\ v.b.pin_cnt = [b.pin_cnt EXCEPT ![f] = 1]
        /\ (\E g \in Frame : b.pin_cnt[g] = 0) => f \in Frame
    BY <1>1, VictimIs
  <2> HIDE DEF v, r
  <2>3. CASE f = INVALID_PAGE
    <3> DEFINE e == v.b
    <3>1. r = [b |-> e, ok |-> FALSE, frame |-> f]
      BY <2>1, <2>3 DEF Fetch
    <3>2. MgrOK(e, cnt)
      <4>1. Single(e) /\ InPool(e) = InPool(b) /\ \A q : PageValue(e, q) = PageValue(b, q)
        BY <1>1, <2>2, SameTable
      <4>2. Pinned(e, cnt)
        BY <1>1, <2>2, <2>3, <4>1 DEF Pinned
      <4>3. QED  BY <2>2, <4>1, <4>2 DEF MgrOK
    <3>3. Kept(b, e, cnt, {}) /\ Same(b, e, Page)
      BY <2>2, KeptStill
    <3>4. r.ok \in BOOLEAN /\ ~r.ok /\ r.b = e
      BY <3>1
    <3>5. ~\E g \in Frame : b.pin_cnt[g] = 0
      BY <1>2, <2>2, <2>3
    <3>6. e.head \in Frame /\ e.pool = b.pool
      BY <2>2
    <3> HIDE DEF e
    <3>7. QED  BY <3>2, <3>3, <3>4, <3>5, <3>6 DEF PinPageDoes
  <2>4. CASE f \in Frame
    <3> DEFINE old == b.pageNo[f]
               w == WriteBack(v.b, f, p)
    <3>1. old \in Page \cup {INVALID_PAGE} /\ old # p
      BY <1>1, <1>2, <1>4, <2>4 DEF InPool
    <3>2. r = Load(w, f, p, emptyPage, bad)
      <4>1. old # INVALID_PAGE => CanWrite(old, bad)
        BY <3>1 DEF CanWrite, NoWriteFails
      <4>2. QED  BY <1>2, <2>1, <2>2, <2>4, <4>1 DEF Fetch
    <3>3. /\ DOMAIN w = MgrFields /\ w.pageNo = [b.pageNo EXCEPT ![f] = p]
          /\ w.disk = IF old = INVALID_PAGE THEN b.disk
                      ELSE [b.disk EXCEPT ![old] = b.pool[f]]
          /\ w.pool = b.pool /\ w.head = v.b.head /\ w.pin_cnt = v.b.pin_cnt
          /\ w.state_bit = v.b.state_bit
      BY <2>2 DEF WriteBack, MgrFields
    <3> HIDE DEF w, f
    <3>4. ClockOK(w)
      BY <2>2, <3>3 DEF ClockOK
    <3>5. w.disk[p] = b.disk[p] /\ b.disk[p] \in Value /\ b.pool[f] \in Value
      BY <1>1, <2>4, <3>1, <3>3
    <3>6. PageValue(b, p) = b.disk[p]
      BY <1>1, <1>4, ValueIs
    <3>7. CASE emptyPage = TRUE
      <4>1. r = [b |-> w, ok |-> TRUE, frame |-> f]
        BY <3>2, <3>7 DEF Load
      <4>2. b.pool = [b.pool EXCEPT ![f] = b.pool[f]]
        BY <1>1
      <4>3. w.pin_cnt = [b.pin_cnt EXCEPT ![f] = 1] /\ w.pool = [b.pool EXCEPT ![f] = b.pool[f]]
            /\ w.head \in Frame
        BY <2>2, <2>4, <3>3, <4>2
      <4>7. Replaces(b, f, p, b.pool[f], w)
        BY <1>2, <3>3, <3>4, <4>3 DEF Replaces
      <4>4. MgrOK(w, Bump(cnt, p)) /\ Kept(b, w, cnt, {p}) /\ Same(b, w, Page \ {p})
        BY <1>2, <1>4, <2>2, <2>4, <3>5, <3>7, <4>7, Replaced
      <4>5. w.pageNo[f] = p
        BY <1>1, <2>4, <3>3
      <4>6. r.ok \in BOOLEAN /\ r.ok /\ r.b = w /\ r.frame = f
        BY <4>1
      <4>8. QED  BY <2>4, <3>3, <3>7, <4>3, <4>4, <4>5, <4>6 DEF PinPageDoes
    <3>8. CASE emptyPage = FALSE /\ CanRead(p, bad)
      <4> DEFINE e == [w EXCEPT !.pool[f] = w.disk[p]]
      <4>1. r = [b |-> e, ok |-> TRUE, frame |-> f]
        BY <3>2, <3>8 DEF Load
      <4>2. /\ DOMAIN e = MgrFields /\ e.pageNo = w.pageNo /\ e.disk = w.disk
            /\ e.pool = [b.pool EXCEPT ![f] = b.disk[p]] /\ e.head = w.head
            /\ e.pin_cnt = w.pin_cnt /\ e.state_bit = w.state_bit
        BY <3>3, <3>5 DEF MgrFields
      <4> HIDE DEF e
      <4>3. ClockOK(e)
        BY <3>4, <4>2 DEF ClockOK
      <4>4. e.pin_cnt = [b.pin_cnt EXCEPT ![f] = 1] /\ e.head \in Frame
        BY <2>2, <2>4, <3>3, <4>2
      <4>5. /\ MgrOK(e, Bump(cnt, p)) /\ Kept(b, e, cnt, {p}) /\ Same(b, e, Page \ {p})
            /\ PageValue(e, p) = b.disk[p]
        <5>1. Replaces(b, f, p, b.disk[p], e)
          BY <1>2, <3>3, <4>2, <4>3, <4>4 DEF Replaces
        <5>2. /\ MgrOK(e, IF p = INVALID_PAGE THEN cnt ELSE Bump(cnt, p))
              /\ Kept(b, e, cnt, {p}) /\ Same(b, e, Page \ {p})
              /\ p \in Page => PageValue(e, p) = b.disk[p]
          BY <1>4, <2>2, <2>4, <3>5, <5>1, Replaced
        <5>3. QED  BY <1>2, <5>2
      <4>6. e.pageNo[f] = p
        BY <1>1, <2>4, <3>3, <4>2
      <4>7. Same(b, e, Page)
        BY <3>6, <4>5 DEF Same
      <4>8. r.ok \in BOOLEAN /\ r.ok /\ r.b = e /\ r.frame = f
        BY <4>1
      <4>9. QED  BY <2>4, <3>8, <4>4, <4>5, <4>6, <4>7, <4>8 DEF PinPageDoes
    <3>9. CASE emptyPage = FALSE /\ ~CanRead(p, bad)
      <4> DEFINE a == [w EXCEPT !.pageNo[f] = INVALID_PAGE]
                 e == [a EXCEPT !.pin_cnt[f] = @ - 1,
                                !.state_bit[f] = IF a.pin_cnt[f] = 1 THEN "Referenced" ELSE @]
      <4>1. w.pin_cnt = [b.pin_cnt EXCEPT ![f] = 1]
        BY <2>2, <2>4, <3>3
      <4>2. DOMAIN a = MgrFields /\ a.pin_cnt = w.pin_cnt /\ a.pool = w.pool
            /\ a.disk = w.disk /\ a.head = w.head /\ a.state_bit = w.state_bit
            /\ a.pageNo = [b.pageNo EXCEPT ![f] = INVALID_PAGE]
        BY <3>3 DEF MgrFields
      <4>3. a.pin_cnt[f] = 1
        BY <1>1, <2>4, <4>1, <4>2
      <4>4. r.b = e /\ r.ok \in BOOLEAN /\ ~r.ok
        <5>1. r = ReadFailed(w, f)
          BY <3>2, <3>9 DEF Load
        <5>2. unpin(a, f).b = e
          BY <4>3 DEF unpin
        <5>3. QED  BY <5>1, <5>2 DEF ReadFailed
      <4> HIDE DEF a
      <4>5. /\ DOMAIN e = MgrFields /\ e.pageNo = a.pageNo /\ e.disk = a.disk
            /\ e.pool = a.pool /\ e.head = a.head
            /\ e.pin_cnt = [b.pin_cnt EXCEPT ![f] = 0]
            /\ e.state_bit = [w.state_bit EXCEPT ![f] = "Referenced"]
        BY <1>1, <2>4, <4>1, <4>2, <4>3 DEF MgrFields
      <4> HIDE DEF e
      <4>6. ClockOK(e)
        BY <1>1, <2>4, <3>4, <4>1, <4>2, <4>5 DEF ClockOK, Bits
      <4>7. b.pool = [b.pool EXCEPT ![f] = b.pool[f]]
        BY <1>1
      <4>8. /\ e.pool = [b.pool EXCEPT ![f] = b.pool[f]] /\ e.head \in Frame
            /\ e.pageNo = [b.pageNo EXCEPT ![f] = INVALID_PAGE] /\ e.disk = w.disk
        BY <2>2, <3>3, <4>2, <4>5, <4>7
      <4>9. INVALID_PAGE \notin InPool(b) /\ INVALID_PAGE # SpaceMap
        BY <1>2, Sizes DEF InPool
      <4>10. /\ MgrOK(e, cnt) /\ Kept(b, e, cnt, {INVALID_PAGE})
             /\ Same(b, e, Page \ {INVALID_PAGE})
        <5>1. Replaces(b, f, INVALID_PAGE, b.pool[f], e)
          BY <3>3, <4>5, <4>6, <4>8 DEF Replaces
        <5>2. QED  BY <2>2, <2>4, <3>5, <4>9, <5>1, Replaced
      <4>11. Kept(b, e, cnt, {}) /\ Same(b, e, Page)
        BY <1>2, <4>10 DEF Kept, Same, InPool
      <4>12. <<"read", p>> \in bad
        BY <3>9 DEF CanRead
      <4>13. QED  BY <3>9, <4>4, <4>8, <4>10, <4>11, <4>12 DEF PinPageDoes
    <3>10. QED  BY <3>7, <3>8, <3>9
  <2>5. QED  BY <2>2, <2>3, <2>4
<1>5. QED  BY <1>3, <1>4
-----------------------------------------------------------------------------
(***************************************************************************)
(* The space map.                                                          *)
(***************************************************************************)
InMap(b) == PageValue(b, SpaceMap)

\* A pin that comes and goes.
LEMMA BumpDrop ==
    ASSUME NEW cnt \in [Page -> Nat], NEW p \in Page
    PROVE  /\ Bump(cnt, p) \in [Page -> Nat] /\ Bump(cnt, p)[p] > 0
           /\ Drop(Bump(cnt, p), p) = cnt
<1>1. cnt[p] \in Nat /\ cnt[p] + 1 \in Nat /\ cnt[p] + 1 > 0 /\ cnt[p] + 1 - 1 = cnt[p]
  OBVIOUS
<1>2. Bump(cnt, p) = [cnt EXCEPT ![p] = cnt[p] + 1]
  BY DEF Bump
<1>3. Bump(cnt, p) \in [Page -> Nat] /\ Bump(cnt, p)[p] = cnt[p] + 1
  BY <1>1, <1>2
<1>4. Drop(Bump(cnt, p), p) = [Bump(cnt, p) EXCEPT ![p] = cnt[p]]
  <2> DEFINE c == Bump(cnt, p)
  <2>1. c[p] - 1 = cnt[p]
    BY <1>1, <1>3
  <2> HIDE DEF c
  <2>2. Drop(c, p) = [c EXCEPT ![p] = cnt[p]]
    BY <2>1 DEF Drop
  <2>3. QED  BY <2>2 DEF c
<1>5. [Bump(cnt, p) EXCEPT ![p] = cnt[p]] = cnt
  BY <1>2
<1>6. QED  BY <1>1, <1>3, <1>4, <1>5

\* Only the map has changed, to map or not at all, and no pin is left.  It does
\* when some frame has no pin and the map can be read.
SetBitsDoes(b, cnt, map, bad, r) ==
    /\ r.ok \in BOOLEAN /\ MgrOK(r.b, cnt) /\ Kept(b, r.b, cnt, {SpaceMap})
    /\ Same(b, r.b, Page \ {SpaceMap})
    /\ r.ok => SpaceMap \in InPool(r.b) /\ InMap(r.b) = map
    /\ ~r.ok => InMap(r.b) = InMap(b)
    /\ (\E f \in Frame : b.pin_cnt[f] = 0) /\ <<"read", SpaceMap>> \notin bad => r.ok

\* What set_bits does when no write fails.
LEMMA SetBitsIs ==
    ASSUME NEW b, NEW cnt, MgrOK(b, cnt), NEW run, run \subseteq Page, NEW bit,
           NEW bad, NoWriteFails(bad)
    PROVE  SetBitsDoes(b, cnt, IF bit = 1 THEN InMap(b) \cup run ELSE InMap(b) \ run,
                       bad, set_bits(b, run, bit, bad))
<1> DEFINE a == pinPage(b, SpaceMap, FALSE, bad)
           r == set_bits(b, run, bit, bad)
           new(map) == IF bit = 1 THEN map \cup run ELSE map \ run
<1>1. r = Mark(a, run, bit)
  BY DEF set_bits
<1>2. SpaceMap \in Page /\ cnt \in [Page -> Nat] /\ InMap(b) \subseteq Page
  BY Sizes DEF MgrOK, Pinned, InMap
<1>3. PinPageDoes(b, cnt, SpaceMap, FALSE, bad, a)
  BY <1>2, PinPageIs
<1> SUFFICES /\ r.ok \in BOOLEAN /\ MgrOK(r.b, cnt) /\ Kept(b, r.b, cnt, {SpaceMap})
             /\ Same(b, r.b, Page \ {SpaceMap})
             /\ r.ok => SpaceMap \in InPool(r.b) /\ InMap(r.b) = new(InMap(b))
             /\ ~r.ok => InMap(r.b) = InMap(b)
             /\ (\E f \in Frame : b.pin_cnt[f] = 0) /\ <<"read", SpaceMap>> \notin bad => r.ok
  BY DEF SetBitsDoes
<1> HIDE DEF a, r, new
<1>4. CASE ~a.ok
  <2>1. r.b = a.b /\ ~r.ok /\ r.ok \in BOOLEAN
    BY <1>1, <1>4 DEF Mark
  <2>2. MgrOK(a.b, cnt) /\ Kept(b, a.b, cnt, {}) /\ Same(b, a.b, Page)
        /\ ~((\E f \in Frame : b.pin_cnt[f] = 0) /\ <<"read", SpaceMap>> \notin bad)
    BY <1>3, <1>4 DEF PinPageDoes
  <2>3. Kept(b, a.b, cnt, {SpaceMap})
    BY <2>2 DEF Kept
  <2>4. QED  BY <1>2, <2>1, <2>2, <2>3 DEF Same, InMap
<1>5. CASE a.ok
  <2> DEFINE f == a.frame
             c == Bump(cnt, SpaceMap)
             x == new(a.b.pool[f])
             e == [a.b EXCEPT !.pool[f] = x]
             u == unpinPage(e, SpaceMap)
  <2>1. /\ f \in Frame /\ a.b.pageNo[f] = SpaceMap /\ MgrOK(a.b, c)
        /\ Kept(b, a.b, cnt, {SpaceMap}) /\ Same(b, a.b, Page)
    BY <1>3, <1>5 DEF PinPageDoes
  <2>2. e = [a.b EXCEPT !.pool[f] = IF bit = 1 THEN @ \cup run ELSE @ \ run]
    BY DEF new
  <2>3. r = u
    BY <1>1, <1>5, <2>2 DEF Mark
  <2> HIDE DEF f, c
  <2>4. a.b.pool[f] = InMap(b)
    <3>1. PageValue(a.b, SpaceMap) = a.b.pool[f]
      BY <1>2, <2>1, ValueIs DEF MgrOK
    <3>2. QED  BY <1>2, <2>1, <3>1 DEF Same, InMap
  <2>5. x = new(InMap(b)) /\ x \subseteq Page /\ x \in Value
    BY <1>2, <2>4 DEF new, Value
  <2> HIDE DEF x
  <2>6. /\ MgrOK(e, c) /\ Same(a.b, e, Page \ {SpaceMap}) /\ InMap(e) = x
        /\ e.pageNo = a.b.pageNo /\ e.head = a.b.head
    <3>1. SpaceMap \in Page /\ (SpaceMap = SpaceMap => x \subseteq Page)
      BY <1>2, <2>5
    <3>2. /\ MgrOK(e, c) /\ Same(a.b, e, Page \ {SpaceMap}) /\ PageValue(e, SpaceMap) = x
          /\ e.pageNo = a.b.pageNo /\ e.head = a.b.head
      BY ONLY <2>1, <2>5, <3>1, Written
    <3>3. QED  BY <3>2 DEF InMap
  <2> HIDE DEF e
  <2>7. c[SpaceMap] > 0 /\ c \in [Page -> Nat] /\ Drop(c, SpaceMap) = cnt
    BY <1>2, BumpDrop DEF c
  <2>8. /\ u.ok = TRUE /\ MgrOK(u.b, cnt) /\ u.b.head = e.head
        /\ u.b.pageNo = e.pageNo /\ u.b.pool = e.pool /\ u.b.disk = e.disk
    BY <1>2, <2>6, <2>7, UnpinPageIs
  <2> HIDE DEF u
  <2>9. InMap(u.b) = InMap(e) /\ \A p : PageValue(u.b, p) = PageValue(e, p)
    BY <2>8, SameTable DEF InMap
  <2>10. Kept(b, u.b, cnt, {SpaceMap})
    BY <2>1, <2>6, <2>8 DEF Kept, InPool
  <2>11. Same(b, u.b, Page \ {SpaceMap})
    BY <2>1, <2>6, <2>9 DEF Same
  <2>12. SpaceMap \in InPool(u.b)
    BY <1>2, <2>1, <2>6, <2>8 DEF InPool
  <2>13. r.ok \in BOOLEAN /\ r.ok /\ r.b = u.b
    BY <2>3, <2>8
  <2>14. QED  BY <2>5, <2>6, <2>8, <2>9, <2>10, <2>11, <2>12, <2>13
<1>6. QED  BY <1>3, <1>4, <1>5 DEF PinPageDoes

\* There is a frame for the map, which can be read, and a run of pages nobody uses.
HasRun(b, cnt, howmany, bad) ==
    /\ LeavesFrame(cnt) /\ <<"read", SpaceMap>> \notin bad
    /\ \E p \in Page : p .. p + howmany - 1 \subseteq Page \ InMap(b)

\* Pages that nobody used are in use, or nothing has changed, and no pin is left.
AllocateDoes(b, cnt, howmany, bad, r) ==
    LET run == r.first .. r.first + howmany - 1
    IN  /\ r.ok \in BOOLEAN /\ MgrOK(r.b, cnt) /\ Kept(b, r.b, cnt, {SpaceMap})
        /\ Same(b, r.b, Page \ {SpaceMap})
        /\ r.ok => /\ r.first \in Page /\ run \subseteq Page \ InMap(b)
                   /\ InMap(r.b) = InMap(b) \cup run /\ SpaceMap \in InPool(r.b)
        /\ ~r.ok => InMap(r.b) = InMap(b)
        /\ HasRun(b, cnt, howmany, bad) => r.ok

\* What allocate_page does when no write fails.
LEMMA AllocateIs ==
    ASSUME NEW b, NEW cnt, MgrOK(b, cnt), NEW howmany \in Nat \ {0},
           NEW bad, NoWriteFails(bad)
    PROVE  AllocateDoes(b, cnt, howmany, bad, allocate_page(b, howmany, bad))
<1> DEFINE a == pinPage(b, SpaceMap, FALSE, bad)
           r == allocate_page(b, howmany, bad)
           run == r.first .. r.first + howmany - 1
<1> SUFFICES /\ r.ok \in BOOLEAN /\ MgrOK(r.b, cnt) /\ Kept(b, r.b, cnt, {SpaceMap})
             /\ Same(b, r.b, Page \ {SpaceMap})
             /\ r.ok => /\ r.first \in Page /\ run \subseteq Page \ InMap(b)
                        /\ InMap(r.b) = InMap(b) \cup run /\ SpaceMap \in InPool(r.b)
             /\ ~r.ok => InMap(r.b) = InMap(b)
             /\ HasRun(b, cnt, howmany, bad) => r.ok
  BY DEF AllocateDoes
<1>1. r = Search(a, howmany, bad)
  BY DEF allocate_page
<1>2. SpaceMap \in Page /\ cnt \in [Page -> Nat] /\ InMap(b) \subseteq Page
  BY Sizes DEF MgrOK, Pinned, InMap
<1>3. PinPageDoes(b, cnt, SpaceMap, FALSE, bad, a)
  BY <1>2, PinPageIs
<1> HIDE DEF a, r
<1>4. CASE ~a.ok
  <2>1. r.b = a.b /\ ~r.ok /\ r.ok \in BOOLEAN
    BY <1>1, <1>4 DEF Search, NoRun
  <2>2. MgrOK(a.b, cnt) /\ Kept(b, a.b, cnt, {}) /\ Same(b, a.b, Page)
    BY <1>3, <1>4 DEF PinPageDoes
  <2>3. Kept(b, a.b, cnt, {SpaceMap})
    BY <2>2 DEF Kept
  <2>4. ~HasRun(b, cnt, howmany, bad)
    BY <1>3, <1>4 DEF HasRun, LeavesFrame, PinPageDoes
  <2>5. QED  BY <1>2, <2>1, <2>2, <2>3, <2>4 DEF Same, InMap
<1>5. CASE a.ok
  <2> DEFINE c == Bump(cnt, SpaceMap)
             u == unpinPage(a.b, SpaceMap).b
             runs == FreeRuns(a.b.pool[a.frame], howmany)
             low == Min(runs)
             s == set_bits(u, low .. low + howmany - 1, 1, bad)
  <2>1. /\ a.frame \in Frame /\ a.b.pageNo[a.frame] = SpaceMap /\ MgrOK(a.b, c)
        /\ Kept(b, a.b, cnt, {SpaceMap}) /\ Same(b, a.b, Page)
    BY <1>3, <1>5 DEF PinPageDoes
  <2>2. a.b.pool[a.frame] = InMap(b)
    <3>1. PageValue(a.b, SpaceMap) = a.b.pool[a.frame]
      BY <1>2, <2>1, ValueIs DEF MgrOK
    <3>2. QED  BY <1>2, <2>1, <3>1 DEF Same, InMap
  <2>3. r = Claim(u, runs, howmany, bad)
    BY <1>1, <1>5 DEF Search
  <2> HIDE DEF c
  <2>4. c[SpaceMap] > 0 /\ c \in [Page -> Nat] /\ Drop(c, SpaceMap) = cnt
    BY <1>2, BumpDrop DEF c
  <2>5. /\ MgrOK(u, cnt) /\ u.head = a.b.head
        /\ u.pageNo = a.b.pageNo /\ u.pool = a.b.pool /\ u.disk = a.b.disk
    <3>1. /\ MgrOK(u, Drop(c, SpaceMap)) /\ u.head = a.b.head
          /\ u.pageNo = a.b.pageNo /\ u.pool = a.b.pool /\ u.disk = a.b.disk
      <4>1. \A d, k : MgrOK(d, k) /\ k[SpaceMap] > 0 =>
               LET e == unpinPage(d, SpaceMap).b
               IN  /\ MgrOK(e, Drop(k, SpaceMap)) /\ e.head = d.head
                   /\ e.pageNo = d.pageNo /\ e.pool = d.pool /\ e.disk = d.disk
        BY <1>2, UnpinPageIs
      <4>2. QED  BY <2>1, <2>4, <4>1
    <3>2. QED  BY <2>4, <3>1
  <2> HIDE DEF u
  <2>6. Same(b, u, Page) /\ InMap(u) = InMap(b)
    BY <1>2, <2>1, <2>5, SameTable DEF Same, InMap
  <2>7. Kept(b, u, cnt, {SpaceMap})
    BY <2>1, <2>5 DEF Kept, InPool
  <2>8. CASE runs = {}
    <3>1. r.b = u /\ ~r.ok /\ r.ok \in BOOLEAN
      BY <2>3, <2>8 DEF Claim, NoRun
    <3>2. ~HasRun(b, cnt, howmany, bad)
      BY <2>2, <2>8 DEF HasRun, FreeRuns
    <3>3. QED  BY <2>5, <2>6, <2>7, <3>1, <3>2 DEF Same
  <2>9. CASE runs # {}
    <3>1. runs \subseteq Nat /\ runs = {p \in Page : p .. p + howmany - 1 \subseteq Page \ InMap(b)}
      BY <2>2, Sizes DEF FreeRuns
    <3> HIDE DEF runs
    <3>2. low \in runs
      BY <2>9, <3>1, Least
    <3>3. r = Claimed(s, low)
      BY <2>3, <2>9 DEF Claim
    <3> HIDE DEF low
    <3>4. low \in Page /\ low .. low + howmany - 1 \subseteq Page \ InMap(b)
      BY <3>1, <3>2
    <3>5. /\ s.ok \in BOOLEAN /\ MgrOK(s.b, cnt) /\ Kept(u, s.b, cnt, {SpaceMap})
          /\ Same(u, s.b, Page \ {SpaceMap})
          /\ s.ok => /\ SpaceMap \in InPool(s.b)
                     /\ InMap(s.b) = InMap(u) \cup low .. low + howmany - 1
          /\ ~s.ok => InMap(s.b) = InMap(u)
          /\ HasRun(b, cnt, howmany, bad) => s.ok
      <4> DEFINE claimed == low .. low + howmany - 1
      <4>1. claimed \subseteq Page
        BY <3>4
      <4> HIDE DEF claimed
      <4>2. s = set_bits(u, claimed, 1, bad)
        BY DEF claimed
      <4>3. SetBitsDoes(u, cnt, InMap(u) \cup claimed, bad, s)
        <5>1. SetBitsDoes(u, cnt, IF 1 = 1 THEN InMap(u) \cup claimed ELSE InMap(u) \ claimed,
                          bad, set_bits(u, claimed, 1, bad))
          BY <2>5, <4>1, SetBitsIs
        <5>2. QED  BY <4>2, <5>1
      <4>4. HasRun(b, cnt, howmany, bad) => s.ok
        BY <2>5, <4>3 DEF HasRun, LeavesFrame, SetBitsDoes
      <4>5. QED  BY <4>3, <4>4 DEF claimed, SetBitsDoes
    <3> HIDE DEF s
    <3>6. r.b = s.b /\ r.ok = s.ok /\ r.first = low
      BY <3>3 DEF Claimed
    <3>7. Kept(b, s.b, cnt, {SpaceMap})
      <4>1. {SpaceMap} \cup {SpaceMap} = {SpaceMap} /\ \A p \in Page : cnt[p] <= cnt[p]
        BY <1>2
      <4>2. Kept(b, s.b, cnt, {SpaceMap} \cup {SpaceMap})
        BY <1>2, <2>7, <3>5, <4>1, KeptOn
      <4>3. QED  BY <4>1, <4>2
    <3>8. Same(b, s.b, Page \ {SpaceMap})
      BY <2>6, <3>5 DEF Same
    <3>9. QED  BY <2>6, <3>4, <3>5, <3>6, <3>7, <3>8
  <2>10. QED  BY <2>8, <2>9
<1>6. QED  BY <1>4, <1>5
-----------------------------------------------------------------------------
(***************************************************************************)
(* Frames that are emptied: freePage and privFlushPages.                   *)
(***************************************************************************)

\* The frames of fs lose their pages and their pins; the disk may change for
\* the pages they had.
Empties(b, fs, e) ==
    /\ DOMAIN e = MgrFields /\ ClockOK(e) /\ e.head = b.head /\ e.pool = b.pool
    /\ e.pageNo = [f \in Frame |-> IF f \in fs THEN INVALID_PAGE ELSE b.pageNo[f]]
    /\ \A f \in Frame : e.pin_cnt[f] = IF f \in fs THEN 0 ELSE b.pin_cnt[f]
    /\ e.disk \in [Page -> Value]
    /\ \A p \in Page : (\A f \in fs : b.pageNo[f] # p) => e.disk[p] = b.disk[p]

\* The pins that are left then.
Without(b, cnt, fs, c) ==
    /\ c \in [Page -> Nat]
    /\ \A p \in Page : c[p] = IF \E f \in fs : b.pageNo[f] = p THEN 0 ELSE cnt[p]

\* The pages that are left in the pool, and what all pages hold.
LeftOver(b, fs, e) ==
    \A p \in Page :
       /\ p \in InPool(e) <=> p \in InPool(b) /\ \A f \in fs : b.pageNo[f] # p
       /\ PageValue(e, p) = IF \E f \in fs : b.pageNo[f] = p THEN e.disk[p] ELSE PageValue(b, p)

\* The manager is sound without them, and every other page keeps its value.
LEMMA Emptied ==
    ASSUME NEW b, NEW cnt, MgrOK(b, cnt), NEW fs \in SUBSET Frame, NEW e, Empties(b, fs, e),
           NEW c, Without(b, cnt, fs, c),
           (\E f \in fs : b.pageNo[f] = SpaceMap) => e.disk[SpaceMap] \subseteq Page
    PROVE  MgrOK(e, c) /\ LeftOver(b, fs, e)
<1>1. /\ Single(b) /\ Pinned(b, cnt) /\ cnt \in [Page -> Nat] /\ b.pool \in [Frame -> Value]
      /\ b.disk \in [Page -> Value] /\ b.pageNo \in [Frame -> Page \cup {INVALID_PAGE}]
      /\ b.pin_cnt \in [Frame -> Nat]
  BY DEF MgrOK, Single, Pinned, ClockOK
<1>2. /\ DOMAIN e = MgrFields /\ ClockOK(e) /\ e.head = b.head /\ e.pool = b.pool
      /\ e.pageNo = [f \in Frame |-> IF f \in fs THEN INVALID_PAGE ELSE b.pageNo[f]]
      /\ \A f \in Frame : e.pin_cnt[f] = IF f \in fs THEN 0 ELSE b.pin_cnt[f]
      /\ e.disk \in [Page -> Value]
      /\ \A p \in Page : (\A f \in fs : b.pageNo[f] # p) => e.disk[p] = b.disk[p]
  BY DEF Empties
<1>12. /\ c \in [Page -> Nat]
       /\ \A p \in Page : c[p] = IF \E f \in fs : b.pageNo[f] = p THEN 0 ELSE cnt[p]
  BY DEF Without
<1>3. INVALID_PAGE \notin Page /\ SpaceMap \in Page
  BY Sizes
<1>4. Single(e)
  BY <1>1, <1>2, <1>3 DEF Single
<1>5. ASSUME NEW p \in Page
      PROVE  p \in InPool(e) <=> p \in InPool(b) /\ \A f \in fs : b.pageNo[f] # p
  <2>1. ASSUME p \in InPool(e) PROVE p \in InPool(b) /\ \A f \in fs : b.pageNo[f] # p
    <3>1. PICK g \in Frame : e.pageNo[g] = p
      BY <2>1 DEF InPool
    <3>2. g \notin fs /\ b.pageNo[g] = p
      BY <1>2, <1>3, <3>1
    <3>3. QED  BY <1>1, <1>3, <3>2 DEF InPool, Single
  <2>2. ASSUME p \in InPool(b), \A f \in fs : b.pageNo[f] # p PROVE p \in InPool(e)
    <3>1. PICK g \in Frame : b.pageNo[g] = p
      BY <2>2 DEF InPool
    <3>2. e.pageNo[g] = p
      BY <1>2, <2>2, <3>1
    <3>3. QED  BY <3>2 DEF InPool
  <2>3. QED  BY <2>1, <2>2
<1>6. ASSUME NEW p \in Page
      PROVE  PageValue(e, p) = IF \E f \in fs : b.pageNo[f] = p THEN e.disk[p] ELSE PageValue(b, p)
  <2>1. CASE p \in InPool(e)
    <3>1. PICK g \in Frame : e.pageNo[g] = p
      BY <2>1 DEF InPool
    <3>2. b.pageNo[g] = p
      BY <1>2, <1>3, <3>1
    <3>3. PageValue(e, p) = e.pool[g]
      BY <1>4, <3>1, ValueIs
    <3>4. PageValue(b, p) = b.pool[g]
      BY <1>1, <3>2, ValueIs
    <3>5. QED  BY <1>2, <1>5, <2>1, <3>3, <3>4
  <2>2. CASE p \notin InPool(e)
    <3>1. PageValue(e, p) = e.disk[p]
      BY <1>4, <2>2, ValueIs
    <3>2. CASE p \notin InPool(b)
      <4>1. PageValue(b, p) = b.disk[p]
        BY <1>1, <3>2, ValueIs
      <4>2. \A f \in fs : b.pageNo[f] # p
        BY <3>2 DEF InPool
      <4>3. QED  BY <1>2, <3>1, <4>1, <4>2
    <3>3. CASE p \in InPool(b)
      BY <1>5, <2>2, <3>1, <3>3
    <3>4. QED  BY <3>2, <3>3
  <2>3. QED  BY <2>1, <2>2
<1>7. Pinned(e, c)
  <2>1. ASSUME NEW f \in Frame
        PROVE  e.pin_cnt[f] = IF e.pageNo[f] = INVALID_PAGE THEN 0 ELSE c[e.pageNo[f]]
    <3>1. CASE f \in fs
      BY <1>2, <3>1
    <3>2. CASE f \notin fs
      <4>1. e.pageNo[f] = b.pageNo[f] /\ e.pin_cnt[f] = b.pin_cnt[f]
            /\ b.pageNo[f] \in Page \cup {INVALID_PAGE}
        BY <1>1, <1>2, <3>2
      <4>2. ASSUME b.pageNo[f] \in Page PROVE c[b.pageNo[f]] = cnt[b.pageNo[f]]
        <5>1. \A g \in fs : b.pageNo[g] # b.pageNo[f]
          BY <1>1, <1>3, <3>2, <4>2 DEF Single
        <5>2. QED  BY <1>12, <4>2, <5>1
      <4>3. b.pin_cnt[f] = IF b.pageNo[f] = INVALID_PAGE THEN 0 ELSE cnt[b.pageNo[f]]
        BY <1>1 DEF Pinned
      <4>4. QED  BY <4>1, <4>2, <4>3
    <3>3. QED  BY <3>1, <3>2
  <2>2. ASSUME NEW p \in Page, c[p] > 0 PROVE p \in InPool(e)
    <3>1. \A f \in fs : b.pageNo[f] # p
      BY <1>12, <2>2
    <3>2. cnt[p] > 0
      BY <1>12, <2>2, <3>1
    <3>3. QED  BY <1>1, <1>5, <3>1, <3>2 DEF Pinned
  <2>3. QED  BY <1>12, <2>1, <2>2 DEF Pinned
<1>8. PageValue(e, SpaceMap) \subseteq Page
  <2>1. PageValue(b, SpaceMap) \subseteq Page
    BY DEF MgrOK
  <2>2. QED  BY <1>3, <1>6, <2>1
<1>9. e.pool \in [Frame -> Value]
  BY <1>1, <1>2
<1>10. MgrOK(e, c)
  BY <1>2, <1>4, <1>7, <1>8, <1>9 DEF MgrOK
<1>11. QED  BY <1>5, <1>6, <1>10 DEF LeftOver

\* The frame of a page that has at most one pin is given up, and what it held is lost.
LEMMA ReleaseIs ==
    ASSUME NEW b, NEW cnt, MgrOK(b, cnt), NEW p \in Page \ {SpaceMap}, NEW f \in Frame,
           b.pageNo[f] = p, b.pin_cnt[f] \leq 1
    PROVE  LET e == Release(b, f)
           IN  /\ MgrOK(e, [cnt EXCEPT ![p] = 0]) /\ Same(b, e, Page \ {p})
               /\ e.head = b.head /\ InPool(e) = InPool(b) \ {p}
               /\ \A g \in Frame \ {f} : e.pageNo[g] = b.pageNo[g]
<1> DEFINE e == Release(b, f)
           c == [cnt EXCEPT ![p] = 0]
<1>1. /\ Single(b) /\ ClockOK(b) /\ cnt \in [Page -> Nat] /\ DOMAIN b = MgrFields
      /\ b.disk \in [Page -> Value] /\ b.pageNo \in [Frame -> Page \cup {INVALID_PAGE}]
      /\ b.pin_cnt \in [Frame -> Nat] /\ b.state_bit \in [Frame -> Bits]
  BY DEF MgrOK, Single, Pinned, ClockOK
<1>2. (IF b.pin_cnt[f] = 0 THEN 0 ELSE b.pin_cnt[f] - 1) = 0
  BY <1>1
<1>3. /\ DOMAIN e = MgrFields /\ e.head = b.head /\ e.pool = b.pool /\ e.disk = b.disk
      /\ e.pageNo = [b.pageNo EXCEPT ![f] = INVALID_PAGE]
      /\ e.pin_cnt = [b.pin_cnt EXCEPT ![f] = 0]
      /\ e.state_bit = [b.state_bit EXCEPT ![f] = "Available"]
  BY <1>1, <1>2 DEF Release, MgrFields
<1> HIDE DEF e
<1>4. ClockOK(e)
  BY <1>1, <1>3 DEF ClockOK, Bits
<1>5. Empties(b, {f}, e)
  BY <1>1, <1>3, <1>4 DEF Empties
<1>6. INVALID_PAGE \notin Page
  BY Sizes
<1>7. Without(b, cnt, {f}, c)
  BY <1>1 DEF Without
<1> HIDE DEF c
<1>8. MgrOK(e, c) /\ LeftOver(b, {f}, e)
  <2>1. ~\E g \in {f} : b.pageNo[g] = SpaceMap
    OBVIOUS
  <2>2. {f} \in SUBSET Frame
    OBVIOUS
  <2>3. QED  BY <1>5, <1>7, <2>1, <2>2, Emptied
<1>9. InPool(e) = InPool(b) \ {p}
  BY <1>8 DEF InPool, LeftOver
<1>10. Same(b, e, Page \ {p})
  BY <1>8 DEF Same, LeftOver
<1>11. \A g \in Frame \ {f} : e.pageNo[g] = b.pageNo[g]
  BY <1>1, <1>3
<1>12. QED  BY <1>3, <1>8, <1>9, <1>10, <1>11 DEF e, c

\* Flushing frames without pins writes their pages and changes none.
LEMMA FlushIs ==
    ASSUME NEW b, NEW cnt, MgrOK(b, cnt), NEW fs \in SUBSET Frame,
           \A f \in fs : b.pin_cnt[f] = 0, NEW bad, NoWriteFails(bad)
    PROVE  LET e == privFlushPages(b, fs, bad)
           IN  MgrOK(e, cnt) /\ Same(b, e, Page) /\ Kept(b, e, cnt, {}) /\ e.head = b.head
<1> DEFINE full == {f \in fs : b.pageNo[f] # INVALID_PAGE}
           stuck == {f \in full : ~CanWrite(b.pageNo[f], bad)}
           e == privFlushPages(b, fs, bad)
           of(p) == {f \in full : b.pageNo[f] = p}
<1>1. /\ Single(b) /\ ClockOK(b) /\ cnt \in [Page -> Nat] /\ DOMAIN b = MgrFields
      /\ b.disk \in [Page -> Value] /\ b.pageNo \in [Frame -> Page \cup {INVALID_PAGE}]
      /\ b.pin_cnt \in [Frame -> Nat] /\ b.pool \in [Frame -> Value] /\ Pinned(b, cnt)
  BY DEF MgrOK, Single, Pinned, ClockOK
<1>2. INVALID_PAGE \notin Page /\ SpaceMap \in Page /\ Frame \subseteq Nat
  BY Sizes
<1>3. stuck = {}
  BY <1>1 DEF CanWrite, NoWriteFails
<1>4. full = {f \in full : \A g \in stuck : f < g}
  BY <1>3
<1>5. e = Flush(b, full)
  BY <1>4 DEF privFlushPages
<1>6. full \in SUBSET Frame /\ \A f \in full : b.pageNo[f] \in Page /\ b.pin_cnt[f] = 0
  BY <1>1
<1> HIDE DEF full, stuck, e
<1>7. ASSUME NEW p \in Page, NEW f \in full, b.pageNo[f] = p
      PROVE  of(p) # {} /\ Max(of(p)) = f
  <2>1. of(p) = {f}
    BY <1>1, <1>2, <1>6, <1>7 DEF Single
  <2>2. f \in Nat
    BY <1>2, <1>6
  <2>3. Max({f}) = f
    BY <2>2 DEF Max
  <2>4. QED  BY <2>1, <2>3
<1>8. /\ DOMAIN e = MgrFields /\ e.head = b.head /\ e.pool = b.pool
      /\ e.pin_cnt = b.pin_cnt /\ e.state_bit = b.state_bit
      /\ e.pageNo = [f \in Frame |-> IF f \in full THEN INVALID_PAGE ELSE b.pageNo[f]]
      /\ e.disk = [p \in Page |-> IF of(p) = {} THEN b.disk[p] ELSE b.pool[Max(of(p))]]
  BY <1>1, <1>5 DEF Flush, MgrFields
<1> HIDE DEF of
<1>9. ClockOK(e)
  BY <1>1, <1>8 DEF ClockOK
<1>10. \A p \in Page : (\A f \in full : b.pageNo[f] # p) => e.disk[p] = b.disk[p]
  BY <1>8 DEF of
<1>11. \A f \in full : e.disk[b.pageNo[f]] = b.pool[f] /\ PageValue(b, b.pageNo[f]) = b.pool[f]
  <2>1. TAKE f \in full
  <2>2. e.disk[b.pageNo[f]] = b.pool[f]
    BY <1>6, <1>7, <1>8
  <2>3. PageValue(b, b.pageNo[f]) = b.pool[f]
    BY <1>1, <1>6, ValueIs
  <2>4. QED  BY <2>2, <2>3
<1>12. \A p \in Page : (\E f \in full : b.pageNo[f] = p) => e.disk[p] = PageValue(b, p)
  BY <1>11
<1>13. e.disk \in [Page -> Value]
  <2>1. ASSUME NEW p \in Page PROVE e.disk[p] \in Value
    <3>1. CASE \E f \in full : b.pageNo[f] = p
      BY <1>1, <1>6, <1>11, <3>1
    <3>2. CASE ~\E f \in full : b.pageNo[f] = p
      BY <1>1, <1>10, <3>2
    <3>3. QED  BY <3>1, <3>2
  <2>2. QED  BY <1>8, <2>1
<1>14. Empties(b, full, e)
  BY <1>1, <1>6, <1>8, <1>9, <1>10, <1>13 DEF Empties
<1>15. Without(b, cnt, full, cnt)
  BY <1>1, <1>2, <1>6 DEF Pinned, Without
<1>16. (\E f \in full : b.pageNo[f] = SpaceMap) => e.disk[SpaceMap] \subseteq Page
  BY <1>2, <1>12 DEF MgrOK
<1>17. MgrOK(e, cnt) /\ LeftOver(b, full, e)
  BY <1>6, <1>14, <1>15, <1>16, Emptied
<1>18. Same(b, e, Page)
  BY <1>12, <1>17 DEF Same, LeftOver
<1>19. Kept(b, e, cnt, {})
  <2>1. \A f \in Frame : b.pageNo[f] \in Page /\ cnt[b.pageNo[f]] > 0
                            => e.pageNo[f] = b.pageNo[f]
    BY <1>1, <1>2, <1>6, <1>8 DEF Pinned
  <2>2. InPool(e) \subseteq InPool(b)
    BY <1>17 DEF InPool, LeftOver
  <2>3. QED  BY <1>8, <2>1, <2>2 DEF Kept
<1>20. QED  BY <1>8, <1>17, <1>18, <1>19 DEF e
-----------------------------------------------------------------------------
(***************************************************************************)
(* newPage, freePage, and the database as its constructor leaves it.       *)
(***************************************************************************)

\* Fresh pages are in use and the first is pinned, or no page has changed.
NewPageDoes(b, cnt, howmany, bad, r) ==
    LET run == r.first .. r.first + howmany - 1
    IN  /\ r.ok \in BOOLEAN
        /\ r.ok => /\ r.first \in Page /\ run \subseteq Page \ InMap(b)
                   /\ InMap(r.b) = InMap(b) \cup run
                   /\ r.frame \in Frame /\ r.b.pageNo[r.frame] = r.first
                   /\ MgrOK(r.b, Bump(cnt, r.first))
                   /\ Kept(b, r.b, cnt, {SpaceMap, r.first})
                   /\ Same(b, r.b, Page \ {SpaceMap, r.first})
        /\ ~r.ok => /\ MgrOK(r.b, cnt) /\ Kept(b, r.b, cnt, {SpaceMap})
                    /\ Same(b, r.b, Page \ {SpaceMap}) /\ InMap(r.b) = InMap(b)
        /\ HasRun(b, cnt, howmany, bad) => r.ok

\* newPage when no write fails.  The allocation leaves the space map in the
\* pool without a pin, so that there always is a frame for the first page.
LEMMA NewPageIs ==
    ASSUME NEW b, NEW cnt, MgrOK(b, cnt), NEW howmany \in Nat \ {0},
           NEW bad, NoWriteFails(bad), cnt[SpaceMap] = 0, SpaceMap \in InMap(b)
    PROVE  NewPageDoes(b, cnt, howmany, bad, newPage(b, howmany, bad))
<1> DEFINE a == allocate_page(b, howmany, bad)
           r == newPage(b, howmany, bad)
           run == a.first .. a.first + howmany - 1
<1>1. AllocateDoes(b, cnt, howmany, bad, a)
  BY AllocateIs
<1>2. r = PinFirst(a, howmany, bad)
  BY DEF newPage
<1>3. /\ a.ok \in BOOLEAN /\ MgrOK(a.b, cnt) /\ Kept(b, a.b, cnt, {SpaceMap})
      /\ Same(b, a.b, Page \ {SpaceMap})
      /\ a.ok => /\ a.first \in Page /\ run \subseteq Page \ InMap(b)
                 /\ InMap(a.b) = InMap(b) \cup run /\ SpaceMap \in InPool(a.b)
      /\ ~a.ok => InMap(a.b) = InMap(b)
      /\ HasRun(b, cnt, howmany, bad) => a.ok
  BY <1>1 DEF AllocateDoes
<1> SUFFICES NewPageDoes(b, cnt, howmany, bad, r)
  OBVIOUS
<1> HIDE DEF a, r
<1>4. CASE ~a.ok
  <2>1. r.b = a.b /\ ~r.ok /\ r.ok \in BOOLEAN
    BY <1>2, <1>4 DEF PinFirst
  <2>2. QED  BY <1>3, <1>4, <2>1 DEF NewPageDoes
<1>5. CASE a.ok
  <2> DEFINE p == a.first
             q == pinPage(a.b, p, TRUE, bad)
  <2>1. p \in Page /\ p # SpaceMap
    <3>1. p \in run
      BY <1>3, <1>5, Sizes
    <3>2. QED  BY <1>3, <1>5, <3>1
  <2>2. PinPageDoes(a.b, cnt, p, TRUE, bad, q)
    BY <1>3, <2>1, PinPageIs
  <2> HIDE DEF q
  <2>3. \E f \in Frame : a.b.pin_cnt[f] = 0
    <3>1. PICK f \in Frame : a.b.pageNo[f] = SpaceMap
      BY <1>3, <1>5 DEF InPool
    <3>2. Pinned(a.b, cnt) /\ SpaceMap # INVALID_PAGE
      BY <1>3, Sizes DEF MgrOK
    <3>3. a.b.pin_cnt[f] = 0
      BY <3>1, <3>2 DEF Pinned
    <3>4. QED  BY <3>3
  <2>4. /\ q.ok /\ q.frame \in Frame /\ q.b.pageNo[q.frame] = p
        /\ MgrOK(q.b, Bump(cnt, p)) /\ Kept(a.b, q.b, cnt, {p}) /\ Same(a.b, q.b, Page \ {p})
    BY <2>2, <2>3 DEF PinPageDoes
  <2>5. r = Started(q, p, howmany, bad)
    BY <1>2, <1>5 DEF PinFirst, q
  <2>6. r.ok = TRUE /\ r.b = q.b /\ r.first = p /\ r.frame = q.frame
    BY <2>4, <2>5 DEF Started
  <2>7. Kept(b, q.b, cnt, {SpaceMap, p})
    <3>1. cnt \in [Page -> Nat]
      BY DEF MgrOK, Pinned
    <3>2. \A g \in Page : cnt[g] <= cnt[g]
      BY <3>1
    <3>3. Kept(b, q.b, cnt, {SpaceMap} \cup {p})
      BY <1>3, <2>4, <3>1, <3>2, KeptOn
    <3>4. {SpaceMap} \cup {p} = {SpaceMap, p}
      OBVIOUS
    <3>5. QED  BY <3>3, <3>4
  <2>8. Same(b, q.b, Page \ {SpaceMap, p})
    BY <1>3, <2>4 DEF Same
  <2>9. InMap(q.b) = InMap(a.b)
    BY <2>1, <2>4, Sizes DEF Same, InMap
  <2> HIDE DEF p
  <2>10. /\ p \in Page /\ p .. p + howmany - 1 \subseteq Page \ InMap(b)
         /\ InMap(a.b) = InMap(b) \cup p .. p + howmany - 1
    BY <1>3, <1>5 DEF p
  <2>11. QED  BY <2>4, <2>6, <2>7, <2>8, <2>9, <2>10 DEF NewPageDoes
<1>6. QED  BY <1>3, <1>4, <1>5

\* The page is out of the pool and, if the map could be changed, not in use.
FreePageDoes(b, cnt, p, bad, r) ==
    /\ r.ok \in BOOLEAN /\ r.gone \in BOOLEAN
    /\ ~r.gone => r.b = b
    /\ r.gone => /\ cnt[p] <= 1 /\ MgrOK(r.b, [cnt EXCEPT ![p] = 0])
                 /\ \A f \in Frame : b.pageNo[f] \in Page \ {p} /\ cnt[b.pageNo[f]] > 0
                                        => r.b.pageNo[f] = b.pageNo[f]
                 /\ InPool(r.b) \subseteq (InPool(b) \ {p}) \cup {SpaceMap}
                 /\ Same(b, r.b, Page \ {SpaceMap, p})
                 /\ r.b.head = b.head \/ r.b.head \in Frame
                 /\ InMap(r.b) = IF r.ok THEN InMap(b) \ {p} ELSE InMap(b)
    /\ cnt[p] <= 1 => r.gone
    /\ r.gone /\ LeavesFrame([cnt EXCEPT ![p] = 0]) /\ <<"read", SpaceMap>> \notin bad => r.ok

\* freePage when no write fails.
LEMMA FreePageIs ==
    ASSUME NEW b, NEW cnt, MgrOK(b, cnt), NEW p \in Page \ {SpaceMap},
           NEW bad, NoWriteFails(bad)
    PROVE  FreePageDoes(b, cnt, p, bad, freePage(b, p, bad))
<1> DEFINE r == freePage(b, p, bad)
           f == Lookup(b, p)
           c == [cnt EXCEPT ![p] = 0]
<1> SUFFICES FreePageDoes(b, cnt, p, bad, r)
  OBVIOUS
<1>1. /\ Single(b) /\ Pinned(b, cnt) /\ cnt \in [Page -> Nat]
      /\ b.pageNo \in [Frame -> Page \cup {INVALID_PAGE}] /\ b.pin_cnt \in [Frame -> Nat]
  BY DEF MgrOK, Pinned, Single, ClockOK
<1>2. INVALID_PAGE \notin Page /\ INVALID_PAGE \notin Frame /\ SpaceMap \in Page
  BY Sizes
<1>3. ASSUME NEW e, MgrOK(e, c), Same(b, e, Page \ {p}), p \notin InPool(e),
             InPool(e) = InPool(b) \ {p}, e.head = b.head, cnt[p] <= 1,
             \A g \in Frame : b.pageNo[g] \in Page \ {p} => e.pageNo[g] = b.pageNo[g],
             r = Freed(deallocate_page(e, p, bad), TRUE)
      PROVE  FreePageDoes(b, cnt, p, bad, r)
  <2> DEFINE d == set_bits(e, {p}, 0, bad)
  <2>1. SetBitsDoes(e, c, InMap(e) \ {p}, bad, d)
    <3>1. {p} \subseteq Page /\ 0 # 1
      OBVIOUS
    <3>2. SetBitsDoes(e, c, IF 0 = 1 THEN InMap(e) \cup {p} ELSE InMap(e) \ {p}, bad, d)
      BY <1>3, <3>1, SetBitsIs
    <3>3. QED  BY <3>1, <3>2
  <2>2. r.b = d.b /\ r.ok = d.ok /\ r.gone = TRUE
    BY <1>3 DEF Freed, deallocate_page
  <2> HIDE DEF d, c, r, f
  <2>3. /\ d.ok \in BOOLEAN /\ MgrOK(d.b, c) /\ Kept(e, d.b, c, {SpaceMap})
        /\ Same(e, d.b, Page \ {SpaceMap})
        /\ d.ok => InMap(d.b) = InMap(e) \ {p}
        /\ ~d.ok => InMap(d.b) = InMap(e)
    BY <2>1 DEF SetBitsDoes
  <2>4. InMap(e) = InMap(b)
    BY <1>2, <1>3 DEF Same, InMap
  <2>5. ASSUME NEW g \in Frame, b.pageNo[g] \in Page \ {p}, cnt[b.pageNo[g]] > 0
        PROVE  d.b.pageNo[g] = b.pageNo[g]
    <3>1. e.pageNo[g] = b.pageNo[g]
      BY <1>3, <2>5
    <3>2. c[e.pageNo[g]] > 0
      BY <1>1, <2>5, <3>1 DEF c
    <3>3. QED  BY <2>3, <2>5, <3>1, <3>2 DEF Kept
  <2>6. InPool(d.b) \subseteq (InPool(b) \ {p}) \cup {SpaceMap}
    BY <1>3, <2>3 DEF Kept
  <2>7. Same(b, d.b, Page \ {SpaceMap, p})
    BY <1>3, <2>3 DEF Same
  <2>8. d.b.head = b.head \/ d.b.head \in Frame
    BY <1>3, <2>3 DEF Kept
  <2>9. MgrOK(d.b, [cnt EXCEPT ![p] = 0])
    BY <2>3 DEF c
  <2>10. LeavesFrame([cnt EXCEPT ![p] = 0]) /\ <<"read", SpaceMap>> \notin bad => d.ok
    BY <1>3, <2>1 DEF LeavesFrame, SetBitsDoes, c
  <2>11. QED  BY <1>3, <2>2, <2>3, <2>4, <2>5, <2>6, <2>7, <2>8, <2>9, <2>10 DEF FreePageDoes
<1>4. CASE p \notin InPool(b)
  <2>1. f = INVALID_PAGE
    BY <1>1, <1>4, ValueIs
  <2>2. r = Freed(deallocate_page(b, p, bad), TRUE)
    BY <2>1 DEF freePage
  <2>3. cnt[p] = 0
    BY <1>1, <1>4 DEF Pinned
  <2>4. c = cnt
    BY <1>1, <2>3
  <2> HIDE DEF r, f, c
  <2>5. Same(b, b, Page \ {p}) /\ InPool(b) = InPool(b) \ {p} /\ cnt[p] <= 1
    BY <1>4, <2>3 DEF Same
  <2>6. QED  BY <1>3, <1>4, <2>2, <2>4, <2>5
<1>5. CASE p \in InPool(b)
  <2>1. f \in Frame /\ b.pageNo[f] = p
    BY <1>1, <1>5, ValueIs
  <2>2. b.pin_cnt[f] = cnt[p] /\ cnt[p] \in Nat
    BY <1>1, <1>2, <2>1 DEF Pinned
  <2>3. CASE b.pin_cnt[f] > 1
    <3>1. r = Freed([b |-> b, ok |-> FALSE], FALSE)
      BY <1>2, <2>1, <2>3 DEF freePage
    <3>2. r.b = b /\ r.ok = FALSE /\ r.gone = FALSE
      BY <3>1 DEF Freed
    <3>3. ~(cnt[p] <= 1)
      BY <2>2, <2>3
    <3>4. QED  BY <3>2, <3>3 DEF FreePageDoes
  <2>4. CASE ~(b.pin_cnt[f] > 1)
    <3> DEFINE e == Release(b, f)
    <3>1. r = Freed(deallocate_page(e, p, bad), TRUE)
      BY <1>2, <2>1, <2>4 DEF freePage
    <3>2. b.pin_cnt[f] <= 1 /\ cnt[p] <= 1
      BY <2>2, <2>4
    <3> HIDE DEF r, f
    <3>3. /\ MgrOK(e, c) /\ Same(b, e, Page \ {p})
          /\ e.head = b.head /\ InPool(e) = InPool(b) \ {p}
          /\ \A g \in Frame \ {f} : e.pageNo[g] = b.pageNo[g]
      BY <2>1, <3>2, ReleaseIs
    <3> HIDE DEF e, c
    <3>4. \A g \in Frame : b.pageNo[g] \in Page \ {p} => e.pageNo[g] = b.pageNo[g]
      BY <2>1, <3>3
    <3>5. QED  BY <1>3, <3>1, <3>2, <3>3, <3>4
  <2>5. QED  BY <2>3, <2>4
<1>6. QED  BY <1>4, <1>5

NoPins == [p \in Page |-> 0]

\* A new database has its header page and the space map in use, and no pins.
LEMMA NewDatabaseIs ==
    /\ MgrOK(NewDatabase, NoPins) /\ NewDatabase.head \in Frame
    /\ InMap(NewDatabase) = Reserved /\ InPool(NewDatabase) \subseteq Reserved
    /\ PageValue(NewDatabase, 0) = Zero
<1> DEFINE r == pinPage(Blank, 0, TRUE, {})
           u == unpinPage(r.b, 0).b
           s == set_bits(u, Reserved, 1, {})
           one == Bump(NoPins, 0)
<1>1. /\ numBuffers \in Nat \ {0} /\ Frame = 0 .. numBuffers - 1 /\ Frame # {}
      /\ 0 \in Page /\ SpaceMap \in Page /\ 0 # SpaceMap /\ Reserved \subseteq Page
      /\ INVALID_PAGE \notin Page /\ Reserved = {0, SpaceMap} /\ 0 \in Frame
  <2>1. 0 \in Frame
    BY Sizes
  <2>2. Reserved = {0, SpaceMap}
    BY DEF Reserved
  <2>3. QED  BY <2>1, <2>2, Sizes
<1>2. NoPins \in [Page -> Nat] /\ \A p \in Page : NoPins[p] = 0
  BY DEF NoPins
<1>3. NoWriteFails({}) /\ \A x : x \notin {}
  BY DEF NoWriteFails
<1>4. /\ DOMAIN Blank = MgrFields
      /\ Blank.pageNo = [f \in Frame |-> INVALID_PAGE]
      /\ Blank.pin_cnt = [f \in Frame |-> 0]
      /\ Blank.state_bit = [f \in Frame |-> "Available"] /\ Blank.head = -1
      /\ Blank.pool = [f \in Frame |-> Zero]
      /\ Blank.disk = [p \in Page |-> IF p = SpaceMap THEN {} ELSE Zero]
  BY DEF Blank, MgrFields
<1> HIDE DEF r, u, s, one
<1>5. Single(Blank) /\ InPool(Blank) = {}
  BY <1>1, <1>4 DEF Single, InPool
<1>6. MgrOK(Blank, NoPins) /\ InMap(Blank) = {}
  <2>1. ClockOK(Blank)
    BY <1>1, <1>4 DEF ClockOK, Bits
  <2>2. Pinned(Blank, NoPins)
    BY <1>2, <1>4 DEF Pinned
  <2>3. Zero \in Value /\ {} \in Value
    BY DEF Value
  <2>4. Blank.pool \in [Frame -> Value] /\ Blank.disk \in [Page -> Value]
    BY <1>4, <2>3
  <2>5. PageValue(Blank, SpaceMap) = {}
    BY <1>1, <1>4, <1>5, ValueIs
  <2>6. QED  BY <1>4, <1>5, <2>1, <2>2, <2>4, <2>5 DEF MgrOK, InMap
<1>7. PinPageDoes(Blank, NoPins, 0, TRUE, {}, r)
  BY <1>1, <1>3, <1>6, PinPageIs DEF r
<1>8. /\ r.frame \in Frame /\ r.b.pageNo[r.frame] = 0 /\ MgrOK(r.b, one)
      /\ Kept(Blank, r.b, NoPins, {0}) /\ Same(Blank, r.b, Page \ {0})
      /\ r.b.head \in Frame /\ r.b.pool = Blank.pool
  <2>1. Blank.pin_cnt[0] = 0
    BY <1>1, <1>4
  <2>2. r.ok /\ r.b.head \in Frame /\ r.b.pool = Blank.pool
    BY <1>1, <1>5, <1>7, <2>1 DEF PinPageDoes
  <2>3. QED  BY <1>7, <2>2 DEF PinPageDoes, one
<1>9. PageValue(r.b, 0) = Zero
  <2>1. Single(r.b)
    BY <1>8 DEF MgrOK
  <2>2. PageValue(r.b, 0) = r.b.pool[r.frame]
    BY <1>1, <1>8, <2>1, ValueIs
  <2>3. QED  BY <1>4, <1>8, <2>2
<1>10. one[0] > 0 /\ Drop(one, 0) = NoPins
  BY <1>1, <1>2, BumpDrop DEF one
<1>11. /\ MgrOK(u, NoPins) /\ u.head = r.b.head
       /\ u.pageNo = r.b.pageNo /\ u.pool = r.b.pool /\ u.disk = r.b.disk
  <2>1. MgrOK(u, Drop(one, 0)) /\ u.head = r.b.head
        /\ u.pageNo = r.b.pageNo /\ u.pool = r.b.pool /\ u.disk = r.b.disk
    <3> DEFINE g == r.b
               x == unpinPage(g, 0)
    <3>1. MgrOK(g, one) /\ one[0] > 0 /\ 0 \in Page
      BY <1>1, <1>8, <1>10
    <3> HIDE DEF g, one
    <3>2. /\ MgrOK(x.b, Drop(one, 0)) /\ x.b.head = g.head
          /\ x.b.pageNo = g.pageNo /\ x.b.pool = g.pool /\ x.b.disk = g.disk
      BY <3>1, UnpinPageIs
    <3>3. u = x.b
      BY DEF g, u
    <3> HIDE DEF x
    <3>4. QED  BY <3>2, <3>3 DEF g
  <2>2. QED  BY <1>10, <2>1
<1>12. /\ InMap(u) = {} /\ PageValue(u, 0) = Zero /\ InPool(u) \subseteq {0}
       /\ \E f \in Frame : u.pin_cnt[f] = 0
  <2>1. InMap(u) = InMap(r.b) /\ PageValue(u, 0) = PageValue(r.b, 0) /\ InPool(u) = InPool(r.b)
    BY <1>11, SameTable DEF InMap
  <2>2. InMap(r.b) = InMap(Blank)
    BY <1>1, <1>8 DEF Same, InMap
  <2>3. InPool(r.b) \subseteq {0}
    BY <1>5, <1>8 DEF Kept
  <2>4. u.pin_cnt[0] = 0
    <3>1. Pinned(u, NoPins) /\ Single(u)
      BY <1>11 DEF MgrOK
    <3>2. QED  BY <1>1, <1>2, <3>1 DEF Pinned, Single
  <2>5. QED  BY <1>1, <1>6, <1>9, <2>1, <2>2, <2>3, <2>4
<1>13. SetBitsDoes(u, NoPins, Reserved, {}, s)
  <2>1. SetBitsDoes(u, NoPins, IF 1 = 1 THEN InMap(u) \cup Reserved ELSE InMap(u) \ Reserved,
                    {}, s)
    BY <1>1, <1>3, <1>11, SetBitsIs DEF s
  <2>2. InMap(u) \cup Reserved = Reserved
    BY <1>12
  <2>3. QED  BY <2>1, <2>2
<1>14. /\ MgrOK(s.b, NoPins) /\ Kept(u, s.b, NoPins, {SpaceMap})
       /\ Same(u, s.b, Page \ {SpaceMap}) /\ InMap(s.b) = Reserved
  BY <1>3, <1>12, <1>13 DEF SetBitsDoes
<1> DEFINE e == privFlushPages(s.b, Frame, {})
<1>15. MgrOK(e, NoPins) /\ Same(s.b, e, Page) /\ Kept(s.b, e, NoPins, {}) /\ e.head = s.b.head
  <2>1. \A f \in Frame : s.b.pin_cnt[f] = 0
    <3>1. Pinned(s.b, NoPins) /\ Single(s.b)
      BY <1>14 DEF MgrOK
    <3>2. QED  BY <1>2, <3>1 DEF Pinned, Single
  <2>2. QED  BY <1>3, <1>14, <2>1, FlushIs
<1>16. e = NewDatabase
  BY DEF NewDatabase, s, u, r
<1> HIDE DEF e
<1>17. InMap(e) = Reserved /\ PageValue(e, 0) = Zero
  BY <1>1, <1>12, <1>14, <1>15 DEF Same, InMap
<1>18. InPool(e) \subseteq Reserved
  BY <1>1, <1>12, <1>14, <1>15 DEF Kept
<1>19. e.head \in Frame
  BY <1>8, <1>11, <1>14, <1>15 DEF Kept
<1>20. QED  BY <1>15, <1>16, <1>17, <1>18, <1>19
-----------------------------------------------------------------------------
(***************************************************************************)
(* The inductive invariant, and what each action does to it and to the     *)
(* store that callers see.                                                 *)
(***************************************************************************)

\* Only reads fail.
ReadFaultsOnly == Faults \subseteq {"read"} \X Page

Sound(b, cnt, h) ==
    /\ MgrOK(b, cnt) /\ b.head \in Frame
    /\ cnt \in [Page -> 0 .. MaxPins] /\ h \in [Page -> Frame \cup {INVALID_PAGE}]
    /\ Reserved \subseteq InMap(b) /\ InPool(b) \subseteq InMap(b) /\ cnt[SpaceMap] = 0
    /\ \A p \in Page : cnt[p] > 0 => p \in InMap(b) /\ h[p] \in Frame /\ b.pageNo[h[p]] = p

\* The manager is sound between calls, every page of the pool is in use, and
\* callers point at the frames of the pages they have pinned.
IInv == Sound(bm, pins, held)

StoreOf(b) == [p \in InMap(b) \ {SpaceMap} |-> PageValue(b, p)]

\* What the refinement mapping makes of the manager.
LEMMA Mapping ==
    /\ InUse = InMap(bm) /\ InUse' = InMap(bm')
    /\ [p \in InUse \ {SpaceMap} |-> PageValue(bm, p)] = StoreOf(bm)
    /\ [p \in InUse \ {SpaceMap} |-> PageValue(bm, p)]' = StoreOf(bm')
<1>1. InUse = InMap(bm) /\ InUse' = InMap(bm')
  BY DEF InUse, InMap
<1>2. QED  BY <1>1 DEF StoreOf

\* Without write faults no write of a call fails.
LEMMA OnlyReadsFail ==
    ASSUME ReadFaultsOnly, NEW bad \in Failures
    PROVE  NoWriteFails(bad)
<1>1. \A x \in bad : x \in {"read"} \X Page
  BY DEF Failures, ReadFaultsOnly
<1>2. \A p \in Page : <<"write", p>> \notin {"read"} \X Page
  OBVIOUS
<1>3. QED  BY <1>1, <1>2 DEF NoWriteFails

\* The pages in use, and what they hold.
LEMMA StoreIs ==
    ASSUME NEW b, NEW cnt, MgrOK(b, cnt)
    PROVE  /\ InMap(b) \subseteq Page /\ \A p \in Page : PageValue(b, p) \in Value
           /\ StoreOf(b) \in [InMap(b) \ {SpaceMap} -> Value]
<1>1. InMap(b) \subseteq Page
  BY DEF MgrOK, InMap
<1>2. ASSUME NEW p \in Page PROVE PageValue(b, p) \in Value
  <2>1. Single(b) /\ b.pool \in [Frame -> Value] /\ b.disk \in [Page -> Value]
    BY DEF MgrOK
  <2>2. CASE p \in InPool(b)
    <3>1. PICK f \in Frame : b.pageNo[f] = p
      BY <2>2 DEF InPool
    <3>2. PageValue(b, p) = b.pool[f]
      BY <2>1, <3>1, ValueIs
    <3>3. QED  BY <2>1, <3>2
  <2>3. CASE p \notin InPool(b)
    BY <2>1, <2>3, ValueIs
  <2>4. QED  BY <2>2, <2>3
<1>3. QED  BY <1>1, <1>2 DEF StoreOf

\* Two managers with one map and one value of every other page are one store.
LEMMA SameStore ==
    ASSUME NEW b, NEW e, InMap(b) \subseteq Page, InMap(e) = InMap(b),
           Same(b, e, Page \ {SpaceMap})
    PROVE  StoreOf(e) = StoreOf(b)
BY DEF StoreOf, Same

\* What the invariant says of the manager between calls.
LEMMA IInvSays ==
    ASSUME IInv
    PROVE  /\ MgrOK(bm, pins) /\ bm.head \in Frame
           /\ pins \in [Page -> 0 .. MaxPins] /\ held \in [Page -> Frame \cup {INVALID_PAGE}]
           /\ Reserved \subseteq InMap(bm) /\ InPool(bm) \subseteq InMap(bm) /\ pins[SpaceMap] = 0
           /\ \A q \in Page : pins[q] > 0 =>
                 q \in InMap(bm) /\ held[q] \in Frame /\ bm.pageNo[held[q]] = q
           /\ SpaceMap \in Page /\ SpaceMap \in InMap(bm) /\ InMap(bm) \subseteq Page
BY StoreIs, Sizes DEF IInv, Sound, Reserved

\* A call that changes no page and no pin of a caller is not seen.
LEMMA NotSeen ==
    ASSUME IInv, MgrOK(bm', pins), Kept(bm, bm', pins, {SpaceMap}),
           Same(bm, bm', Page \ {SpaceMap}), InMap(bm') = InMap(bm),
           UNCHANGED <<pins, held>>
    PROVE  IInv' /\ UNCHANGED Store!pvars
<1>1. StoreOf(bm') = StoreOf(bm)
  BY IInvSays, SameStore
<1>2. bm'.head \in Frame /\ InPool(bm') \subseteq InMap(bm')
      /\ \A q \in Page : pins[q] > 0 => bm'.pageNo[held[q]] = q
  BY IInvSays DEF Kept
<1>3. Sound(bm', pins', held')
  BY <1>2, IInvSays DEF Sound
<1>4. UNCHANGED Store!pvars
  BY <1>1, Mapping DEF Store!pvars
<1>5. QED  BY <1>3, <1>4 DEF IInv

\* pinPage: the page is in use, and stays in the frame its caller points at.
LEMMA PinStep ==
    ASSUME ReadFaultsOnly, IInv, NEW p \in Page, Pin(p)
    PROVE  IInv' /\ (Store!Pin(p) \/ UNCHANGED Store!pvars)
<1>1. PICK bad \in Failures :
         LET r == pinPage(bm, p, FALSE, bad)
         IN  /\ bm' = r.b
             /\ pins' = IF r.ok THEN [pins EXCEPT ![p] = @ + 1] ELSE pins
             /\ held' = IF r.ok THEN [held EXCEPT ![p] = r.frame] ELSE held
  BY DEF Pin
<1> DEFINE r == pinPage(bm, p, FALSE, bad)
<1>2. p \in InMap(bm) /\ p # SpaceMap /\ pins[p] < MaxPins
  BY BufMgrAssumption, Mapping DEF Pin
<1>3. /\ MgrOK(bm, pins) /\ bm.head \in Frame
      /\ pins \in [Page -> 0 .. MaxPins] /\ held \in [Page -> Frame \cup {INVALID_PAGE}]
      /\ Reserved \subseteq InMap(bm) /\ InPool(bm) \subseteq InMap(bm) /\ pins[SpaceMap] = 0
      /\ \A q \in Page : pins[q] > 0 => q \in InMap(bm) /\ held[q] \in Frame /\ bm.pageNo[held[q]] = q
  BY IInvSays
<1>4. PinPageDoes(bm, pins, p, FALSE, bad, r)
  BY <1>3, OnlyReadsFail, PinPageIs
<1>5. bm' = r.b /\ pins' = (IF r.ok THEN [pins EXCEPT ![p] = @ + 1] ELSE pins)
      /\ held' = (IF r.ok THEN [held EXCEPT ![p] = r.frame] ELSE held)
  BY <1>1
<1> HIDE DEF r
<1>6. SpaceMap \in Page /\ InMap(bm) \subseteq Page
  BY IInvSays
<1>7. CASE ~r.ok
  <2>1. MgrOK(bm', pins) /\ Kept(bm, bm', pins, {}) /\ Same(bm, bm', Page)
        /\ pins' = pins /\ held' = held
    BY <1>4, <1>5, <1>7 DEF PinPageDoes
  <2>2. Kept(bm, bm', pins, {SpaceMap}) /\ Same(bm, bm', Page \ {SpaceMap})
        /\ InMap(bm') = InMap(bm)
    BY <1>6, <2>1 DEF Kept, Same, InMap
  <2>3. QED  BY <2>1, <2>2, NotSeen
<1>8. CASE r.ok
  <2>1. /\ r.frame \in Frame /\ bm'.pageNo[r.frame] = p
        /\ MgrOK(bm', Bump(pins, p)) /\ Kept(bm, bm', pins, {p}) /\ Same(bm, bm', Page)
        /\ pins' = [pins EXCEPT ![p] = @ + 1] /\ held' = [held EXCEPT ![p] = r.frame]
    BY <1>4, <1>5, <1>8 DEF PinPageDoes
  <2>2. InMap(bm') = InMap(bm) /\ StoreOf(bm') = StoreOf(bm)
    <3>1. InMap(bm') = InMap(bm) /\ Same(bm, bm', Page \ {SpaceMap})
      BY <1>6, <2>1 DEF Same, InMap
    <3>2. QED  BY <1>6, <3>1, SameStore
  <2>3. pins' \in [Page -> 0 .. MaxPins] /\ MgrOK(bm', pins') /\ pins'[SpaceMap] = 0
        /\ held' \in [Page -> Frame \cup {INVALID_PAGE}]
    <3>1. MaxPins \in Nat /\ pins[p] \in 0 .. MaxPins /\ pins[p] + 1 \in 0 .. MaxPins
      BY <1>2, <1>3, BufMgrAssumption
    <3>2. pins' = [pins EXCEPT ![p] = pins[p] + 1]
      BY <2>1
    <3>3. pins' \in [Page -> 0 .. MaxPins] /\ pins'[SpaceMap] = 0
      BY <1>2, <1>3, <1>6, <3>1, <3>2
    <3>4. MgrOK(bm', pins')
      BY <2>1 DEF Bump
    <3>5. QED  BY <1>3, <2>1, <3>3, <3>4
  <2>4. bm'.head \in Frame /\ InPool(bm') \subseteq InMap(bm')
    BY <1>2, <1>3, <2>1, <2>2 DEF Kept
  <2>5. ASSUME NEW q \in Page, pins'[q] > 0
        PROVE  q \in InMap(bm') /\ held'[q] \in Frame /\ bm'.pageNo[held'[q]] = q
    <3>1. CASE q = p
      BY <1>2, <1>3, <2>1, <2>2, <3>1
    <3>2. CASE q # p
      <4>1. pins[q] > 0 /\ held'[q] = held[q]
        BY <1>3, <2>1, <2>5, <3>2
      <4>2. q \in InMap(bm) /\ held[q] \in Frame /\ bm.pageNo[held[q]] = q
        BY <1>3, <4>1
      <4>3. bm'.pageNo[held[q]] = q
        BY <2>1, <4>1, <4>2 DEF Kept
      <4>4. QED  BY <2>2, <4>1, <4>2, <4>3
    <3>3. QED  BY <3>1, <3>2
  <2>6. Sound(bm', pins', held')
    BY <1>3, <2>2, <2>3, <2>4, <2>5 DEF Sound
  <2>7. Store!Pin(p)
    BY <1>2, <2>1, <2>2, Mapping DEF Store!Pin, SpaceMap, Store!SpaceMap
  <2>8. QED  BY <2>6, <2>7 DEF IInv
<1>9. QED  BY <1>4, <1>7, <1>8 DEF PinPageDoes

\* unpinPage, which finds every page that a caller has pinned.
LEMMA UnpinStep ==
    ASSUME ReadFaultsOnly, IInv, NEW p \in Page, Unpin(p)
    PROVE  IInv' /\ Store!Unpin(p)
<1>1. /\ pins[p] > 0 /\ bm' = unpinPage(bm, p).b /\ pins' = [pins EXCEPT ![p] = @ - 1]
      /\ held' = IF pins[p] = 1 THEN [held EXCEPT ![p] = INVALID_PAGE] ELSE held
  BY DEF Unpin
<1>2. /\ MgrOK(bm', pins') /\ bm'.head = bm.head
      /\ bm'.pageNo = bm.pageNo /\ bm'.pool = bm.pool /\ bm'.disk = bm.disk
  <2>1. /\ MgrOK(bm', Drop(pins, p)) /\ bm'.head = bm.head
        /\ bm'.pageNo = bm.pageNo /\ bm'.pool = bm.pool /\ bm'.disk = bm.disk
    <3> DEFINE e == unpinPage(bm, p).b
    <3>1. MgrOK(bm, pins) /\ pins[p] > 0
      BY <1>1, IInvSays
    <3>2. /\ MgrOK(e, Drop(pins, p)) /\ e.head = bm.head
          /\ e.pageNo = bm.pageNo /\ e.pool = bm.pool /\ e.disk = bm.disk
      BY <3>1, UnpinPageIs
    <3>3. bm' = e
      BY <1>1
    <3> HIDE DEF e
    <3>4. QED  BY <3>2, <3>3
  <2>2. QED  BY <1>1, <2>1 DEF Drop
<1>3. InMap(bm') = InMap(bm) /\ StoreOf(bm') = StoreOf(bm) /\ InPool(bm') = InPool(bm)
  <2>1. InPool(bm') = InPool(bm) /\ \A q : PageValue(bm', q) = PageValue(bm, q)
    BY <1>2, SameTable
  <2>2. QED  BY <2>1 DEF InMap, StoreOf
<1>4. pins' \in [Page -> 0 .. MaxPins] /\ \A q \in Page : pins'[q] <= pins[q]
      /\ pins'[p] = pins[p] - 1
  <2>1. MaxPins \in Nat /\ pins[p] \in 0 .. MaxPins /\ pins[p] - 1 \in 0 .. MaxPins
    BY <1>1, IInvSays, BufMgrAssumption
  <2>2. pins' = [pins EXCEPT ![p] = pins[p] - 1] /\ pins \in [Page -> 0 .. MaxPins]
    BY <1>1, IInvSays
  <2>3. \A q \in Page : pins[q] \in Nat
    BY <2>1, <2>2
  <2>4. QED  BY <2>1, <2>2, <2>3
<1>5. p # SpaceMap /\ pins'[SpaceMap] = 0
  BY <1>1, IInvSays
<1>6. held' \in [Page -> Frame \cup {INVALID_PAGE}]
  BY <1>1, IInvSays
<1>7. ASSUME NEW q \in Page, pins'[q] > 0
      PROVE  q \in InMap(bm') /\ held'[q] \in Frame /\ bm'.pageNo[held'[q]] = q
  <2>1. pins[q] \in Nat /\ pins'[q] \in Nat /\ pins'[q] <= pins[q]
    BY <1>4, IInvSays, BufMgrAssumption
  <2>2. pins[q] > 0
    BY <1>7, <2>1
  <2>3. held'[q] = held[q]
    BY <1>1, <1>4, <1>7, IInvSays
  <2>4. QED  BY <1>2, <1>3, <2>2, <2>3, IInvSays
<1>8. Sound(bm', pins', held')
  BY <1>2, <1>3, <1>4, <1>5, <1>6, <1>7, IInvSays DEF Sound
<1>9. Store!Unpin(p)
  BY <1>1, <1>3, Mapping DEF Store!Unpin
<1>10. QED  BY <1>8, <1>9 DEF IInv

\* A caller that writes through its pointer changes its page and no other.
LEMMA WriteStep ==
    ASSUME ReadFaultsOnly, IInv, NEW p \in Page, Write(p)
    PROVE  IInv' /\ Store!Write(p)
<1>1. PICK c \in Content : bm' = [bm EXCEPT !.pool[held[p]] = c]
  BY DEF Write
<1>2. pins[p] > 0 /\ pins' = pins /\ held' = held
  BY DEF Write
<1>3. held[p] \in Frame /\ bm.pageNo[held[p]] = p /\ p \in InMap(bm) /\ p # SpaceMap
      /\ c \in Value
  BY <1>2, IInvSays DEF Value
<1>4. /\ MgrOK(bm', pins) /\ Same(bm, bm', Page \ {p}) /\ PageValue(bm', p) = c
      /\ bm'.pageNo = bm.pageNo /\ bm'.head = bm.head /\ InPool(bm') = InPool(bm)
  BY <1>1, <1>3, IInvSays, Written
<1>5. InMap(bm') = InMap(bm)
  BY <1>3, <1>4, IInvSays DEF Same, InMap
<1>6. Sound(bm', pins', held')
  BY <1>2, <1>4, <1>5, IInvSays DEF Sound
<1>7. StoreOf(bm') = [StoreOf(bm) EXCEPT ![p] = c]
  <2>1. \A q \in InMap(bm) \ {SpaceMap} : q # p => PageValue(bm', q) = PageValue(bm, q)
    BY <1>4, IInvSays DEF Same
  <2>2. QED  BY <1>3, <1>4, <1>5, <2>1 DEF StoreOf
<1>8. Store!Write(p)
  BY <1>2, <1>3, <1>5, <1>7, Mapping DEF Store!Write
<1>9. QED  BY <1>6, <1>8 DEF IInv

\* flushPage and flushAllPages, of frames without pins.
LEMMA FlushStep ==
    ASSUME ReadFaultsOnly, IInv, NEW fs \in SUBSET Frame, \A f \in fs : bm.pin_cnt[f] = 0,
           \E bad \in Failures : bm' = privFlushPages(bm, fs, bad), UNCHANGED <<pins, held>>
    PROVE  IInv' /\ UNCHANGED Store!pvars
<1>1. PICK bad \in Failures : bm' = privFlushPages(bm, fs, bad)
  OBVIOUS
<1>2. MgrOK(bm', pins) /\ Same(bm, bm', Page) /\ Kept(bm, bm', pins, {})
  BY <1>1, OnlyReadsFail, IInvSays, FlushIs
<1>3. Kept(bm, bm', pins, {SpaceMap}) /\ Same(bm, bm', Page \ {SpaceMap})
      /\ InMap(bm') = InMap(bm)
  BY <1>2, IInvSays DEF Kept, Same, InMap
<1>4. QED  BY <1>2, <1>3, NotSeen

\* newPage: the pages are fresh and the first is its caller's.
LEMMA NewStep ==
    ASSUME ReadFaultsOnly, IInv, NEW howmany \in RunSizes, New(howmany)
    PROVE  IInv' /\ (Store!New \/ UNCHANGED Store!pvars)
<1>1. PICK bad \in Failures :
         LET r == newPage(bm, howmany, bad)
         IN  /\ bm' = r.b
             /\ pins' = IF r.ok THEN [pins EXCEPT ![r.first] = 1] ELSE pins
             /\ held' = IF r.ok THEN [held EXCEPT ![r.first] = r.frame] ELSE held
  BY DEF New
<1> DEFINE r == newPage(bm, howmany, bad)
           p == r.first
           run == p .. p + howmany - 1
<1>2. howmany \in Nat \ {0} /\ num_pages \in Nat \ {0, 1} /\ MaxPins \in Nat \ {0}
  BY BufMgrAssumption
<1>3. NewPageDoes(bm, pins, howmany, bad, r)
  BY <1>2, IInvSays, OnlyReadsFail, NewPageIs
<1>4. bm' = r.b /\ pins' = (IF r.ok THEN [pins EXCEPT ![p] = 1] ELSE pins)
      /\ held' = (IF r.ok THEN [held EXCEPT ![p] = r.frame] ELSE held)
  BY <1>1
<1> HIDE DEF r
<1>5. CASE ~r.ok
  <2>1. /\ MgrOK(bm', pins) /\ Kept(bm, bm', pins, {SpaceMap}) /\ pins' = pins /\ held' = held
        /\ Same(bm, bm', Page \ {SpaceMap}) /\ InMap(bm') = InMap(bm)
    BY <1>3, <1>4, <1>5 DEF NewPageDoes
  <2>2. QED  BY <2>1, NotSeen
<1>6. CASE r.ok
  <2>1. /\ p \in Page /\ run \subseteq Page \ InMap(bm) /\ InMap(bm') = InMap(bm) \cup run
        /\ r.frame \in Frame /\ bm'.pageNo[r.frame] = p /\ MgrOK(bm', Bump(pins, p))
        /\ Kept(bm, bm', pins, {SpaceMap, p}) /\ Same(bm, bm', Page \ {SpaceMap, p})
        /\ pins' = [pins EXCEPT ![p] = 1] /\ held' = [held EXCEPT ![p] = r.frame]
    BY <1>3, <1>4, <1>6 DEF NewPageDoes
  <2> HIDE DEF p
  <2>2. p \in run /\ howmany \in 1 .. num_pages
    <3>1. p \in Nat /\ p + howmany - 1 \in run /\ p \in run
      BY <1>2, <2>1, Sizes
    <3>2. p + howmany - 1 \in 0 .. num_pages - 1
      BY <2>1, <3>1, Sizes
    <3>3. QED  BY <1>2, <3>1, <3>2
  <2> HIDE DEF run
  <2>3. p \notin InMap(bm) /\ SpaceMap \notin run /\ p # SpaceMap
    BY <2>1, <2>2, IInvSays
  <2>4. pins[p] = 0
    <3>1. ~(pins[p] > 0) /\ pins[p] \in 0 .. MaxPins
      BY <2>1, <2>3, IInvSays
    <3>2. QED  BY <1>2, <3>1
  <2>5. /\ MgrOK(bm', pins') /\ pins' \in [Page -> 0 .. MaxPins] /\ pins'[SpaceMap] = 0
        /\ held' \in [Page -> Frame \cup {INVALID_PAGE}]
    <3>1. pins' = Bump(pins, p)
      BY <2>1, <2>4 DEF Bump
    <3>2. 1 \in 0 .. MaxPins
      BY <1>2
    <3>3. pins' \in [Page -> 0 .. MaxPins] /\ pins'[SpaceMap] = 0
      BY <2>1, <2>3, <3>2, IInvSays
    <3>4. QED  BY <2>1, <3>1, <3>3, IInvSays
  <2>6. bm'.head \in Frame /\ InPool(bm') \subseteq InMap(bm')
    BY <2>1, <2>2, IInvSays DEF Kept
  <2>7. ASSUME NEW q \in Page, pins'[q] > 0
        PROVE  q \in InMap(bm') /\ held'[q] \in Frame /\ bm'.pageNo[held'[q]] = q
    <3>1. CASE q = p
      BY <2>1, <2>2, <3>1, IInvSays
    <3>2. CASE q # p
      <4>1. pins[q] > 0 /\ held'[q] = held[q]
        BY <2>1, <2>7, <3>2, IInvSays
      <4>2. q \in InMap(bm) /\ held[q] \in Frame /\ bm.pageNo[held[q]] = q
        BY <4>1, IInvSays
      <4>3. bm'.pageNo[held[q]] = q
        BY <2>1, <4>1, <4>2 DEF Kept
      <4>4. QED  BY <2>1, <4>1, <4>2, <4>3
    <3>3. QED  BY <3>1, <3>2
  <2>8. Sound(bm', pins', held')
    BY <2>1, <2>5, <2>6, <2>7, IInvSays DEF Sound
  <2>9. Store!New
    <3>1. StoreOf(bm') \in [DOMAIN StoreOf(bm) \cup run -> Value]
      <4>1. StoreOf(bm') \in [InMap(bm') \ {SpaceMap} -> Value]
        BY <2>5, StoreIs
      <4>2. InMap(bm') \ {SpaceMap} = DOMAIN StoreOf(bm) \cup run
        BY <2>1, <2>3 DEF StoreOf
      <4>3. QED  BY <4>1, <4>2
    <3>2. \A q \in DOMAIN StoreOf(bm) : StoreOf(bm')[q] = StoreOf(bm)[q]
      <4>1. \A q \in InMap(bm) \ {SpaceMap} :
               q \in Page \ {SpaceMap, p} /\ q \in InMap(bm') \ {SpaceMap}
        BY <2>1, <2>3, IInvSays
      <4>2. QED  BY <2>1, <4>1 DEF StoreOf, Same
    <3>3. /\ run \subseteq Page \ InUse /\ InUse' = InUse \cup run
          /\ [q \in InUse \ {SpaceMap} |-> PageValue(bm, q)]'
                \in [DOMAIN [q \in InUse \ {SpaceMap} |-> PageValue(bm, q)] \cup run -> Value]
          /\ \A q \in DOMAIN [x \in InUse \ {SpaceMap} |-> PageValue(bm, x)] :
                [x \in InUse \ {SpaceMap} |-> PageValue(bm, x)]'[q]
                   = [x \in InUse \ {SpaceMap} |-> PageValue(bm, x)][q]
      BY <2>1, <3>1, <3>2, Mapping
    <3>4. QED  BY <2>1, <2>2, <3>3 DEF Store!New, Store!Page, Page, run
  <2>10. QED  BY <2>8, <2>9 DEF IInv
<1>7. QED  BY <1>3, <1>5, <1>6 DEF NewPageDoes

\* freePage: the page is not in use, or the map could not be changed, or its
\* pins kept it in the pool.
LEMMA FreePageStep ==
    ASSUME ReadFaultsOnly, IInv, NEW p \in Page, Free(p)
    PROVE  IInv' /\ (Store!Free(p) \/ Store!FreeFails(p) \/ UNCHANGED Store!pvars)
<1>1. PICK bad \in Failures :
         LET r == freePage(bm, p, bad)
         IN  /\ bm' = r.b
             /\ pins' = IF r.gone THEN [pins EXCEPT ![p] = 0] ELSE pins
             /\ held' = IF r.gone THEN [held EXCEPT ![p] = INVALID_PAGE] ELSE held
  BY DEF Free
<1> DEFINE r == freePage(bm, p, bad)
<1>2. p \in InMap(bm) \ Reserved /\ p # SpaceMap /\ SpaceMap \in Reserved
  BY Mapping DEF Free, Reserved
<1>3. FreePageDoes(bm, pins, p, bad, r)
  BY <1>2, IInvSays, OnlyReadsFail, FreePageIs
<1>4. bm' = r.b /\ pins' = (IF r.gone THEN [pins EXCEPT ![p] = 0] ELSE pins)
      /\ held' = (IF r.gone THEN [held EXCEPT ![p] = INVALID_PAGE] ELSE held)
  BY <1>1
<1> HIDE DEF r
<1>5. CASE ~r.gone
  <2>1. bm' = bm /\ pins' = pins /\ held' = held
    BY <1>3, <1>4, <1>5 DEF FreePageDoes
  <2>2. Kept(bm, bm', pins, {SpaceMap}) /\ Same(bm, bm', Page \ {SpaceMap})
    BY <2>1, KeptStill DEF Kept, Same
  <2>3. QED  BY <2>1, <2>2, IInvSays, NotSeen
<1>6. CASE r.gone
  <2>1. /\ r.ok \in BOOLEAN /\ pins[p] <= 1 /\ MgrOK(bm', pins')
        /\ \A f \in Frame : bm.pageNo[f] \in Page \ {p} /\ pins[bm.pageNo[f]] > 0
                               => bm'.pageNo[f] = bm.pageNo[f]
        /\ InPool(bm') \subseteq (InPool(bm) \ {p}) \cup {SpaceMap}
        /\ Same(bm, bm', Page \ {SpaceMap, p}) /\ (bm'.head = bm.head \/ bm'.head \in Frame)
        /\ InMap(bm') = IF r.ok THEN InMap(bm) \ {p} ELSE InMap(bm)
        /\ pins' = [pins EXCEPT ![p] = 0] /\ held' = [held EXCEPT ![p] = INVALID_PAGE]
    BY <1>3, <1>4, <1>6 DEF FreePageDoes
  <2>2. pins' \in [Page -> 0 .. MaxPins] /\ pins'[SpaceMap] = 0 /\ pins'[p] = 0
        /\ held' \in [Page -> Frame \cup {INVALID_PAGE}] /\ bm'.head \in Frame
    <3>1. 0 \in 0 .. MaxPins
      BY BufMgrAssumption
    <3>2. QED  BY <2>1, <3>1, IInvSays
  <2>3. Reserved \subseteq InMap(bm') /\ InPool(bm') \subseteq InMap(bm')
    BY <1>2, <2>1, IInvSays
  <2>4. ASSUME NEW q \in Page, pins'[q] > 0
        PROVE  q \in InMap(bm') /\ held'[q] \in Frame /\ bm'.pageNo[held'[q]] = q
    <3>1. q # p
      BY <2>2, <2>4
    <3>2. pins[q] > 0 /\ held'[q] = held[q]
      BY <2>1, <2>4, <3>1, IInvSays
    <3>3. q \in InMap(bm) /\ held[q] \in Frame /\ bm.pageNo[held[q]] = q
      BY <3>2, IInvSays
    <3>4. bm'.pageNo[held[q]] = q
      BY <2>1, <3>1, <3>2, <3>3
    <3>5. QED  BY <2>1, <3>1, <3>2, <3>3, <3>4
  <2>5. Sound(bm', pins', held')
    BY <2>1, <2>2, <2>3, <2>4, IInvSays DEF Sound
  <2>6. \A q \in (InMap(bm) \ {SpaceMap}) \ {p} : PageValue(bm', q) = PageValue(bm, q)
    BY <2>1, IInvSays DEF Same
  <2>7. CASE r.ok
    <3>1. InMap(bm') = InMap(bm) \ {p}
      BY <2>1, <2>7
    <3>2. StoreOf(bm') = [q \in DOMAIN StoreOf(bm) \ {p} |-> StoreOf(bm)[q]]
      BY <2>6, <3>1 DEF StoreOf
    <3>3. Store!Free(p)
      BY <1>2, <2>1, <3>1, <3>2, Mapping DEF Store!Free, Store!Reserved, Store!SpaceMap,
         Reserved, SpaceMap
    <3>4. QED  BY <2>5, <3>3 DEF IInv
  <2>8. CASE ~r.ok
    <3>1. InMap(bm') = InMap(bm)
      BY <2>1, <2>8
    <3>2. /\ StoreOf(bm') \in [DOMAIN StoreOf(bm) -> Value]
          /\ \A q \in DOMAIN StoreOf(bm) \ {p} : StoreOf(bm')[q] = StoreOf(bm)[q]
      <4>1. StoreOf(bm') \in [InMap(bm') \ {SpaceMap} -> Value]
        BY <2>1, StoreIs
      <4>2. QED  BY <2>6, <3>1, <4>1 DEF StoreOf
    <3>3. Store!FreeFails(p)
      BY <1>2, <2>1, <3>1, <3>2, Mapping DEF Store!FreeFails, Store!Changed,
         Store!Reserved, Store!SpaceMap, Reserved, SpaceMap
    <3>4. QED  BY <2>5, <3>3 DEF IInv
  <2>9. QED  BY <2>1, <2>7, <2>8
<1>7. QED  BY <1>3, <1>5, <1>6 DEF FreePageDoes

\* The database as its constructor leaves it satisfies the invariant and is
\* the store's first state.
LEMMA InitSound == Init => IInv /\ Store!Init
<1> SUFFICES ASSUME Init PROVE IInv /\ Store!Init
  OBVIOUS
<1>1. bm = NewDatabase /\ pins = NoPins /\ held = [p \in Page |-> INVALID_PAGE]
  BY DEF Init, NoPins
<1>2. /\ MgrOK(bm, pins) /\ bm.head \in Frame /\ InMap(bm) = Reserved
      /\ InPool(bm) \subseteq Reserved /\ PageValue(bm, 0) = Zero
  BY <1>1, NewDatabaseIs
<1>3. /\ pins \in [Page -> 0 .. MaxPins] /\ \A p \in Page : pins[p] = 0
      /\ held \in [Page -> Frame \cup {INVALID_PAGE}]
  <2>1. 0 \in 0 .. MaxPins
    BY BufMgrAssumption
  <2>2. QED  BY <1>1, <2>1 DEF NoPins
<1>4. Sound(bm, pins, held)
  BY <1>2, <1>3, Sizes DEF Sound
<1>5. StoreOf(bm) = [p \in {0} |-> Zero]
  <2>1. InMap(bm) \ {SpaceMap} = {0}
    BY <1>2, Sizes DEF Reserved
  <2>2. QED  BY <1>2, <2>1 DEF StoreOf
<1>6. pins = [p \in Page |-> 0]
  BY <1>1 DEF NoPins
<1>7. Store!Init
  BY <1>2, <1>5, <1>6, Mapping DEF Store!Init, Store!Reserved, Store!SpaceMap, Store!Page,
     Reserved, SpaceMap, Page
<1>8. QED  BY <1>4, <1>7 DEF IInv

\* Every step keeps the invariant, and is a step of the store or is not seen.
LEMMA EveryStep ==
    ASSUME ReadFaultsOnly, IInv, [Next]_vars
    PROVE  IInv' /\ [Store!Next]_Store!pvars
<1>1. ASSUME NEW p \in Page, Pin(p) PROVE IInv' /\ [Store!Next]_Store!pvars
  BY <1>1, PinStep DEF Store!Next, Store!Page, Page
<1>2. ASSUME NEW p \in Page, Unpin(p) PROVE IInv' /\ [Store!Next]_Store!pvars
  BY <1>2, UnpinStep DEF Store!Next, Store!Page, Page
<1>3. ASSUME NEW p \in Page, Write(p) PROVE IInv' /\ [Store!Next]_Store!pvars
  BY <1>3, WriteStep DEF Store!Next, Store!Page, Page
<1>4. ASSUME NEW p \in Page, Free(p) PROVE IInv' /\ [Store!Next]_Store!pvars
  BY <1>4, FreePageStep DEF Store!Next, Store!Page, Page
<1>5. ASSUME NEW n \in RunSizes, New(n) PROVE IInv' /\ [Store!Next]_Store!pvars
  BY <1>5, NewStep DEF Store!Next
<1>6. Single(bm) /\ Pinned(bm, pins)
  BY IInvSays DEF MgrOK
<1>7. ASSUME NEW p \in Page, FlushPage(p) PROVE IInv' /\ [Store!Next]_Store!pvars
  <2>1. pins[p] = 0 /\ Lookup(bm, p) # INVALID_PAGE
        /\ (\E bad \in Failures : bm' = privFlushPages(bm, {Lookup(bm, p)}, bad))
        /\ UNCHANGED <<pins, held>>
    BY <1>7 DEF FlushPage
  <2>2. Lookup(bm, p) \in Frame /\ bm.pageNo[Lookup(bm, p)] = p
    BY <1>6, <2>1, ValueIs
  <2>3. {Lookup(bm, p)} \in SUBSET Frame /\ \A f \in {Lookup(bm, p)} : bm.pin_cnt[f] = 0
    BY <1>6, <2>1, <2>2 DEF Pinned
  <2>4. QED  BY <2>1, <2>3, FlushStep
<1>8. ASSUME FlushAll PROVE IInv' /\ [Store!Next]_Store!pvars
  <2>1. (\A p \in Page : pins[p] = 0)
        /\ (\E bad \in Failures : bm' = privFlushPages(bm, Frame, bad))
        /\ UNCHANGED <<pins, held>>
    BY <1>8 DEF FlushAll
  <2>2. \A f \in Frame : bm.pin_cnt[f] = 0
    BY <1>6, <2>1 DEF Pinned, Single
  <2>3. QED  BY <2>1, <2>2, FlushStep
<1>9. ASSUME UNCHANGED vars PROVE IInv' /\ [Store!Next]_Store!pvars
  <2>1. bm' = bm /\ pins' = pins /\ held' = held
    BY <1>9 DEF vars
  <2>2. Sound(bm', pins', held')
    BY <2>1 DEF IInv
  <2>3. UNCHANGED Store!pvars
    BY <2>1, Mapping DEF Store!pvars
  <2>4. QED  BY <2>2, <2>3 DEF IInv
<1>10. QED  BY <1>1, <1>2, <1>3, <1>4, <1>5, <1>7, <1>8, <1>9 DEF Next

\* Unless a write fails, the manager is sound whenever no call is under way.
THEOREM ManagerSound == ASSUME ReadFaultsOnly PROVE Spec => []IInv
<1>1. Init => IInv
  BY InitSound
<1>2. IInv /\ [Next]_vars => IInv'
  BY EveryStep
<1>3. QED  BY <1>1, <1>2, PTL DEF Spec

-----------------------------------------------------------------------------
(***************************************************************************)
(* The theorems.                                                           *)
(***************************************************************************)

\* Between calls the pins of a frame are those the callers hold on its page,
\* whatever calls failed for a read, and the clock passes over exactly
\* the frames that have one.
THEOREM PinsAreCounted == ASSUME ReadFaultsOnly PROVE Spec => []PinsCounted
<1>1. IInv => PinsCounted
  <2> SUFFICES ASSUME IInv PROVE PinsCounted
    OBVIOUS
  <2>1. /\ ClockOK(bm) /\ Single(bm) /\ Pinned(bm, pins)
        /\ bm.pool \in [Frame -> Value] /\ bm.disk \in [Page -> Value]
    BY IInvSays DEF MgrOK
  <2>2. PinsMatch
    BY <2>1 DEF PinsMatch, Pinned, ClockOK
  <2>3. bm.pin_cnt \in [Frame -> 0 .. MaxPins]
    <3>1. \A f \in Frame : bm.pin_cnt[f] \in 0 .. MaxPins
      <4>1. 0 \in 0 .. MaxPins
        BY BufMgrAssumption
      <4>2. QED  BY <2>1, <4>1, IInvSays DEF Pinned, Single
    <3>2. QED  BY <2>1, <3>1 DEF ClockOK
  <2>4. TypeOK
    BY <2>1, <2>3, IInvSays DEF TypeOK, Single, ClockOK, Bits
  <2>5. QED  BY <2>2, <2>4 DEF PinsCounted
<1>2. QED  BY <1>1, ManagerSound, PTL

\* A caller's pointer stays good until it unpins the page.
THEOREM PointersStay == ASSUME ReadFaultsOnly PROVE Spec => []PinnedStays
<1>1. IInv => PinnedStays
  <2> SUFFICES ASSUME IInv, NEW p \in Page, pins[p] > 0, NEW f \in Frame
               PROVE  bm.pageNo[f] = p <=> f = held[p]
    BY DEF PinnedStays
  <2>1. held[p] \in Frame /\ bm.pageNo[held[p]] = p
    BY IInvSays
  <2>2. Single(bm) /\ p # INVALID_PAGE
    BY IInvSays, Sizes DEF MgrOK
  <2>3. QED  BY <2>1, <2>2 DEF Single
<1>2. QED  BY <1>1, ManagerSound, PTL

\* Two turns of the clock find a frame without a pin.
THEOREM ClockFinds == ASSUME ReadFaultsOnly PROVE Spec => []VictimIfUnpinned
<1>1. IInv => VictimIfUnpinned
  <2> SUFFICES ASSUME IInv, \E f \in Frame : bm.pin_cnt[f] = 0
               PROVE  pick_victim(bm).frame # INVALID_PAGE
    BY DEF VictimIfUnpinned
  <2>1. DOMAIN bm = MgrFields /\ ClockOK(bm)
    BY IInvSays DEF MgrOK
  <2>2. pick_victim(bm).frame \in Frame
    BY <2>1, VictimIs
  <2>3. QED  BY <2>2, Sizes
<1>2. QED  BY <1>1, ManagerSound, PTL

\* The manager is a store in which every page in use has one value, whatever is
\* evicted, flushed or fails to be read, and newPage gives out none of them.
THEOREM ManagerIsStore == ASSUME ReadFaultsOnly PROVE Spec => ImplementsPageStore
<1>1. Init => Store!Init
  BY InitSound
<1>2. IInv /\ [Next]_vars => [Store!Next]_Store!pvars
  BY EveryStep
<1>3. QED  BY <1>1, <1>2, ManagerSound, PTL DEF Spec, ImplementsPageStore, Store!Spec

-----------------------------------------------------------------------------
(***************************************************************************)
(* Heap files: what the manager does to the values of the pages.           *)
(***************************************************************************)
\* Three frames: a scan, the page before and a new page or the space map.
EnoughFrames == numBuffers >= 3

\* The pages of the database.
Values(b) == [p \in Page |-> PageValue(b, p)]

\* Pages that are pinned keep their frames.
Stays(b, e, cnt) ==
    \A f \in Frame : b.pageNo[f] \in Page /\ cnt[b.pageNo[f]] > 0 => e.pageNo[f] = b.pageNo[f]

\* At most two pages are pinned.
Few(cnt) == /\ cnt \in [Page -> Nat]
            /\ \E x, y : \A p \in Page : cnt[p] > 0 => p \in {x, y}

\* The manager goes from b, with pins cnt, to e, with pins c, and the pages are v.
Becomes(b, cnt, e, c, v) == MgrOK(e, c) /\ Stays(b, e, cnt) /\ Values(e) = v

\* The pin of a scan that is on page s.
PinOf(s) == [p \in Page |-> IF p = s THEN 1 ELSE 0]

\* With few pins there is a frame left.
LEMMA FewLeave ==
    ASSUME EnoughFrames, NEW cnt, Few(cnt)
    PROVE  LeavesFrame(cnt)
<1> SUFFICES ASSUME NEW b, MgrOK(b, cnt), \A f \in Frame : b.pin_cnt[f] # 0 PROVE FALSE
  BY DEF LeavesFrame
<1>1. 0 \in Frame /\ 1 \in Frame /\ 2 \in Frame
  BY Sizes DEF EnoughFrames
<1>2. PICK x, y : \A p \in Page : cnt[p] > 0 => p \in {x, y}
  BY DEF Few
<1>3. ASSUME NEW f \in Frame PROVE b.pageNo[f] \in {x, y} /\ b.pageNo[f] # INVALID_PAGE
  <2>1. /\ b.pageNo[f] \in Page \cup {INVALID_PAGE}
        /\ b.pin_cnt[f] = IF b.pageNo[f] = INVALID_PAGE THEN 0 ELSE cnt[b.pageNo[f]]
    BY DEF MgrOK, Pinned, Single
  <2>2. b.pageNo[f] # INVALID_PAGE /\ cnt[b.pageNo[f]] # 0 /\ b.pageNo[f] \in Page
    BY <2>1
  <2>3. cnt[b.pageNo[f]] \in Nat
    BY <2>2 DEF Few
  <2>4. QED  BY <1>2, <2>2, <2>3
<1>4. \A f, g \in Frame : b.pageNo[f] = b.pageNo[g] => f = g
  BY <1>3 DEF MgrOK, Single
<1>5. /\ b.pageNo[0] # b.pageNo[1] /\ b.pageNo[0] # b.pageNo[2] /\ b.pageNo[1] # b.pageNo[2]
      /\ b.pageNo[0] \in {x, y} /\ b.pageNo[1] \in {x, y} /\ b.pageNo[2] \in {x, y}
  BY <1>1, <1>3, <1>4
<1>6. QED  BY <1>5

\* The pins of the heap file's methods are few.
LEMMA PinOfIs ==
    ASSUME NEW s, s \notin Reserved, NEW p \in Page
    PROVE  /\ PinOf(s) \in [Page -> Nat] /\ Few(PinOf(s)) /\ Few(Bump(PinOf(s), p))
           /\ PinOf(s)[p] = (IF p = s THEN 1 ELSE 0) /\ PinOf(s)[0] = 0 /\ PinOf(s)[SpaceMap] = 0
<1>1. PinOf(s) \in [Page -> Nat] /\ \A q \in Page : PinOf(s)[q] = IF q = s THEN 1 ELSE 0
  BY DEF PinOf
<1>2. \A q \in Page : PinOf(s)[q] > 0 => q \in {s, s}
  BY <1>1
<1>3. \A q \in Page : Bump(PinOf(s), p)[q] > 0 => q \in {s, p}
  BY <1>1 DEF Bump
<1>4. Bump(PinOf(s), p) \in [Page -> Nat]
  BY <1>1 DEF Bump
<1>5. 0 \in Page /\ SpaceMap \in Page /\ 0 # s /\ SpaceMap # s
  BY Sizes DEF Reserved
<1>6. Few(PinOf(s)) /\ Few(Bump(PinOf(s), p))
  <2> HIDE DEF PinOf
  <2>1. QED  BY <1>1, <1>2, <1>3, <1>4 DEF Few
<1>7. QED  BY <1>1, <1>5, <1>6

\* The pages are what the manager says they are.
LEMMA ValuesAre ==
    ASSUME NEW b, NEW cnt, MgrOK(b, cnt)
    PROVE  /\ Values(b) \in [Page -> Value] /\ InMap(b) = Values(b)[SpaceMap]
           /\ \A p \in Page : Values(b)[p] = PageValue(b, p)
           /\ \A f \in Frame : b.pageNo[f] \in Page => b.pool[f] = Values(b)[b.pageNo[f]]
<1>1. \A p \in Page : Values(b)[p] = PageValue(b, p) /\ PageValue(b, p) \in Value
  BY StoreIs DEF Values
<1>2. Values(b) \in [Page -> Value]
  BY <1>1 DEF Values
<1>3. Single(b)
  BY DEF MgrOK
<1>4. InMap(b) = Values(b)[SpaceMap]
  BY <1>1, Sizes DEF InMap
<1>5. QED  BY <1>1, <1>2, <1>3, <1>4, ValueIs

\* Pages that have not changed.
LEMMA SameValues ==
    ASSUME NEW b, NEW e
    PROVE  /\ Same(b, e, Page) => Values(e) = Values(b)
           /\ \A p \in Page : Same(b, e, Page \ {p}) =>
                 Values(e) = [Values(b) EXCEPT ![p] = PageValue(e, p)]
  BY DEF Same, Values

\* Steps in a row.
LEMMA BecomesOn ==
    ASSUME NEW b, NEW cnt, NEW e, NEW c, NEW v, NEW g, NEW d, NEW w,
           MgrOK(b, cnt), cnt \in [Page -> Nat], c \in [Page -> Nat],
           \A p \in Page : cnt[p] <= c[p],
           Becomes(b, cnt, e, c, v), Becomes(e, c, g, d, w)
    PROVE  Becomes(b, cnt, g, d, w)
<1>1. ASSUME NEW f \in Frame, b.pageNo[f] \in Page, cnt[b.pageNo[f]] > 0
      PROVE  g.pageNo[f] = b.pageNo[f]
  <2>1. e.pageNo[f] = b.pageNo[f]
    BY <1>1 DEF Becomes, Stays
  <2>2. c[b.pageNo[f]] > 0
    BY <1>1
  <2>3. QED  BY <1>1, <2>1, <2>2 DEF Becomes, Stays
<1>2. QED  BY <1>1 DEF Becomes, Stays

\* pinPage, with a frame left.
LEMMA PinIs ==
    ASSUME EnoughFrames, NEW b, NEW cnt, MgrOK(b, cnt), Few(cnt), NEW p \in Page
    PROVE  LET r == pinPage(b, p, FALSE, {})
           IN  /\ r.ok = TRUE /\ r.frame \in Frame /\ r.b.pageNo[r.frame] = p
               /\ r.b.pool[r.frame] = Values(b)[p]
               /\ Becomes(b, cnt, r.b, Bump(cnt, p), Values(b))
<1> DEFINE r == pinPage(b, p, FALSE, {})
<1>1. PinPageDoes(b, cnt, p, FALSE, {}, r)
  <2>1. NoWriteFails({})
    BY DEF NoWriteFails
  <2>2. QED  BY <2>1, PinPageIs
<1>2. \E f \in Frame : b.pin_cnt[f] = 0
  BY FewLeave DEF LeavesFrame
<1> SUFFICES /\ r.ok = TRUE /\ r.frame \in Frame /\ r.b.pageNo[r.frame] = p
             /\ r.b.pool[r.frame] = Values(b)[p]
             /\ Becomes(b, cnt, r.b, Bump(cnt, p), Values(b))
  OBVIOUS
<1> HIDE DEF r
<1>3. r.ok = TRUE
  BY <1>1, <1>2 DEF PinPageDoes
<1>4. /\ r.frame \in Frame /\ r.b.pageNo[r.frame] = p
      /\ MgrOK(r.b, Bump(cnt, p)) /\ Kept(b, r.b, cnt, {p}) /\ Same(b, r.b, Page)
  BY <1>1, <1>3 DEF PinPageDoes
<1>5. Values(r.b) = Values(b)
  BY <1>4, SameValues
<1>6. r.b.pool[r.frame] = Values(b)[p]
  BY <1>4, <1>5, ValuesAre
<1>7. Stays(b, r.b, cnt)
  BY <1>4 DEF Kept, Stays
<1>8. QED  BY <1>3, <1>4, <1>5, <1>6, <1>7 DEF Becomes

\* unpinPage gives back the pin of pinPage.
LEMMA UnpinIs ==
    ASSUME NEW b, NEW cnt, cnt \in [Page -> Nat], NEW p \in Page, MgrOK(b, Bump(cnt, p))
    PROVE  LET e == unpinPage(b, p).b
           IN  /\ MgrOK(e, cnt) /\ Values(e) = Values(b) /\ e.pageNo = b.pageNo
               /\ Becomes(b, Bump(cnt, p), e, cnt, Values(b)) /\ Becomes(b, cnt, e, cnt, Values(b))
<1> DEFINE e == unpinPage(b, p).b
<1> SUFFICES /\ MgrOK(e, cnt) /\ Values(e) = Values(b) /\ e.pageNo = b.pageNo
             /\ Becomes(b, Bump(cnt, p), e, cnt, Values(b)) /\ Becomes(b, cnt, e, cnt, Values(b))
  OBVIOUS
<1>1. Bump(cnt, p)[p] > 0 /\ Drop(Bump(cnt, p), p) = cnt
  BY BumpDrop
<1>2. /\ MgrOK(e, Drop(Bump(cnt, p), p))
      /\ e.pageNo = b.pageNo /\ e.pool = b.pool /\ e.disk = b.disk
  BY <1>1, UnpinPageIs
<1> HIDE DEF e
<1>3. Values(e) = Values(b)
  BY <1>2, SameTable DEF Values
<1>4. QED  BY <1>1, <1>2, <1>3 DEF Becomes, Stays

\* A write through the pointer to a page.
LEMMA WriteIs ==
    ASSUME NEW b, NEW cnt, MgrOK(b, cnt), NEW f \in Frame, NEW p \in Page \ {SpaceMap},
           b.pageNo[f] = p, NEW x \in Value
    PROVE  LET e == [b EXCEPT !.pool[f] = x]
           IN  /\ MgrOK(e, cnt) /\ Values(e) = [Values(b) EXCEPT ![p] = x] /\ e.pageNo = b.pageNo
               /\ Becomes(b, cnt, e, cnt, [Values(b) EXCEPT ![p] = x])
<1> DEFINE e == [b EXCEPT !.pool[f] = x]
<1> SUFFICES /\ MgrOK(e, cnt) /\ Values(e) = [Values(b) EXCEPT ![p] = x] /\ e.pageNo = b.pageNo
             /\ Becomes(b, cnt, e, cnt, [Values(b) EXCEPT ![p] = x])
  OBVIOUS
<1>1. p = SpaceMap => x \subseteq Page
  OBVIOUS
<1>2. /\ MgrOK(e, cnt) /\ Same(b, e, Page \ {p}) /\ PageValue(e, p) = x /\ e.pageNo = b.pageNo
  BY <1>1, Written
<1> HIDE DEF e
<1>3. QED  BY <1>2, SameValues DEF Becomes, Stays

\* A page is looked at.
LEMMA LookIs ==
    ASSUME EnoughFrames, NEW b, NEW cnt, MgrOK(b, cnt), Few(cnt), NEW p \in Page
    PROVE  Becomes(b, cnt, unpinPage(pinPage(b, p, FALSE, {}).b, p).b, cnt, Values(b))
<1> DEFINE r == pinPage(b, p, FALSE, {})
           e == unpinPage(r.b, p).b
<1>1. Becomes(b, cnt, r.b, Bump(cnt, p), Values(b))
  BY PinIs
<1>2. cnt \in [Page -> Nat]
  BY DEF Few
<1> SUFFICES Becomes(b, cnt, e, cnt, Values(b))
  OBVIOUS
<1> HIDE DEF r
<1>3. MgrOK(r.b, Bump(cnt, p)) /\ Values(r.b) = Values(b) /\ Stays(b, r.b, cnt)
  BY <1>1 DEF Becomes
<1>4. MgrOK(e, cnt) /\ Values(e) = Values(r.b) /\ e.pageNo = r.b.pageNo
  BY <1>2, <1>3, UnpinIs
<1> HIDE DEF e
<1>5. QED  BY <1>3, <1>4 DEF Becomes, Stays

\* A pinned page is written and unpinned.
LEMMA PutIs ==
    ASSUME NEW b, NEW cnt, cnt \in [Page -> Nat], NEW p \in Page \ {SpaceMap}, NEW f \in Frame,
           MgrOK(b, Bump(cnt, p)), b.pageNo[f] = p, NEW x \in Value
    PROVE  LET e == unpinPage([b EXCEPT !.pool[f] = x], p).b
           IN  /\ Becomes(b, cnt, e, cnt, [Values(b) EXCEPT ![p] = x])
               /\ e.pageNo = b.pageNo
<1> DEFINE d == [b EXCEPT !.pool[f] = x]
           e == unpinPage(d, p).b
<1> SUFFICES Becomes(b, cnt, e, cnt, [Values(b) EXCEPT ![p] = x]) /\ e.pageNo = b.pageNo
  OBVIOUS
<1>1. /\ MgrOK(d, Bump(cnt, p)) /\ Values(d) = [Values(b) EXCEPT ![p] = x] /\ d.pageNo = b.pageNo
  BY WriteIs
<1> HIDE DEF d
<1>2. MgrOK(e, cnt) /\ Values(e) = Values(d) /\ e.pageNo = d.pageNo
  BY <1>1, UnpinIs
<1> HIDE DEF e
<1>3. QED  BY <1>1, <1>2 DEF Becomes, Stays

\* A page is new, in use and pinned, or every page was in use.
NewDoes(b, cnt, r) ==
    /\ r.ok \in BOOLEAN
    /\ r.ok => /\ r.first \in Page \ InMap(b) /\ r.frame \in Frame
               /\ r.b.pageNo[r.frame] = r.first
               /\ Becomes(b, cnt, r.b, Bump(cnt, r.first), Values(r.b))
               /\ Values(r.b)[SpaceMap] = InMap(b) \cup {r.first}
               /\ \A q \in Page \ {SpaceMap, r.first} : Values(r.b)[q] = Values(b)[q]
    /\ ~r.ok => Becomes(b, cnt, r.b, cnt, Values(b)) /\ InMap(b) = Page

\* newPage, with a frame left.
LEMMA NewIs ==
    ASSUME EnoughFrames, NEW b, NEW cnt, MgrOK(b, cnt), Few(cnt), cnt[SpaceMap] = 0,
           SpaceMap \in InMap(b)
    PROVE  NewDoes(b, cnt, newPage(b, 1, {}))
<1> DEFINE r == newPage(b, 1, {})
<1>1. NewPageDoes(b, cnt, 1, {}, r)
  <2>1. NoWriteFails({}) /\ 1 \in Nat \ {0}
    BY DEF NoWriteFails
  <2>2. QED  BY <2>1, NewPageIs
<1> SUFFICES NewDoes(b, cnt, r)
  OBVIOUS
<1> HIDE DEF r
<1>2. /\ \A q \in Page : Values(b)[q] = PageValue(b, q) /\ Values(r.b)[q] = PageValue(r.b, q)
      /\ SpaceMap \in Page /\ InMap(b) = Values(b)[SpaceMap] /\ InMap(r.b) = Values(r.b)[SpaceMap]
  BY Sizes DEF Values, InMap
<1>3. ASSUME r.ok
      PROVE  /\ r.first \in Page \ InMap(b) /\ r.frame \in Frame
             /\ r.b.pageNo[r.frame] = r.first
             /\ Becomes(b, cnt, r.b, Bump(cnt, r.first), Values(r.b))
             /\ Values(r.b)[SpaceMap] = InMap(b) \cup {r.first}
             /\ \A q \in Page \ {SpaceMap, r.first} : Values(r.b)[q] = Values(b)[q]
  <2>1. /\ r.first \in Page /\ r.first .. r.first + 1 - 1 \subseteq Page \ InMap(b)
        /\ InMap(r.b) = InMap(b) \cup (r.first .. r.first + 1 - 1)
        /\ r.frame \in Frame /\ r.b.pageNo[r.frame] = r.first
        /\ MgrOK(r.b, Bump(cnt, r.first))
        /\ Kept(b, r.b, cnt, {SpaceMap, r.first})
        /\ Same(b, r.b, Page \ {SpaceMap, r.first})
    BY <1>1, <1>3 DEF NewPageDoes
  <2>2. r.first .. r.first + 1 - 1 = {r.first}
    BY <2>1, Sizes
  <2>3. Stays(b, r.b, cnt)
    BY <2>1 DEF Kept, Stays
  <2>4. QED  BY <1>2, <2>1, <2>2, <2>3 DEF Becomes, Same
<1>4. ASSUME ~r.ok PROVE Becomes(b, cnt, r.b, cnt, Values(b)) /\ InMap(b) = Page
  <2>1. /\ MgrOK(r.b, cnt) /\ Kept(b, r.b, cnt, {SpaceMap})
        /\ Same(b, r.b, Page \ {SpaceMap}) /\ InMap(r.b) = InMap(b)
    BY <1>1, <1>4 DEF NewPageDoes
  <2>2. Same(b, r.b, Page)
    BY <2>1 DEF Same, InMap
  <2>3. Values(r.b) = Values(b)
    BY <2>2, SameValues
  <2>4. Stays(b, r.b, cnt)
    BY <2>1 DEF Kept, Stays
  <2>5. ASSUME NEW p \in Page, p \notin InMap(b) PROVE FALSE
    <3>1. p .. p + 1 - 1 = {p}
      BY Sizes
    <3>2. p .. p + 1 - 1 \subseteq Page \ InMap(b)
      BY <2>5, <3>1
    <3>3. LeavesFrame(cnt)
      BY FewLeave
    <3>4. HasRun(b, cnt, 1, {})
      BY <3>2, <3>3 DEF HasRun
    <3>5. QED  BY <1>1, <1>4, <3>4 DEF NewPageDoes
  <2>6. InMap(b) \subseteq Page
    BY DEF MgrOK, InMap
  <2>7. QED  BY <2>1, <2>3, <2>4, <2>5, <2>6 DEF Becomes
<1>5. r.ok \in BOOLEAN
  BY <1>1 DEF NewPageDoes
<1>6. QED  BY <1>3, <1>4, <1>5 DEF NewDoes

\* The page is not in use.
FreeDoes(b, cnt, p, r) ==
    /\ r.ok = TRUE /\ MgrOK(r.b, [cnt EXCEPT ![p] = 0])
    /\ Stays(b, r.b, [cnt EXCEPT ![p] = 0])
    /\ Values(r.b)[SpaceMap] = InMap(b) \ {p}
    /\ \A q \in Page \ {SpaceMap, p} : Values(r.b)[q] = Values(b)[q]

\* freePage of a page with one pin at most.
LEMMA FreeIs ==
    ASSUME EnoughFrames, NEW b, NEW cnt, MgrOK(b, cnt), NEW p \in Page \ {SpaceMap},
           cnt \in [Page -> Nat], cnt[p] <= 1, Few([cnt EXCEPT ![p] = 0])
    PROVE  FreeDoes(b, cnt, p, freePage(b, p, {}))
<1> DEFINE r == freePage(b, p, {})
           c == [cnt EXCEPT ![p] = 0]
<1>1. FreePageDoes(b, cnt, p, {}, r)
  <2>1. NoWriteFails({})
    BY DEF NoWriteFails
  <2>2. QED  BY <2>1, FreePageIs
<1> SUFFICES FreeDoes(b, cnt, p, r)
  OBVIOUS
<1>2. LeavesFrame(c)
  BY FewLeave
<1> HIDE DEF r
<1>3. r.ok = TRUE /\ r.gone = TRUE
  BY <1>1, <1>2 DEF FreePageDoes
<1>4. /\ MgrOK(r.b, [cnt EXCEPT ![p] = 0])
      /\ \A f \in Frame : b.pageNo[f] \in Page \ {p} /\ cnt[b.pageNo[f]] > 0
                                        => r.b.pageNo[f] = b.pageNo[f]
      /\ Same(b, r.b, Page \ {SpaceMap, p}) /\ InMap(r.b) = InMap(b) \ {p}
  BY <1>1, <1>3 DEF FreePageDoes
<1>5. /\ \A q \in Page : Values(b)[q] = PageValue(b, q) /\ Values(r.b)[q] = PageValue(r.b, q)
      /\ SpaceMap \in Page /\ InMap(b) = Values(b)[SpaceMap] /\ InMap(r.b) = Values(r.b)[SpaceMap]
  BY Sizes DEF Values, InMap
<1>6. Stays(b, r.b, [cnt EXCEPT ![p] = 0])
  <2>1. ASSUME NEW f \in Frame, b.pageNo[f] \in Page, c[b.pageNo[f]] > 0
        PROVE  r.b.pageNo[f] = b.pageNo[f]
    <3>1. b.pageNo[f] # p
      BY <2>1
    <3>2. c[b.pageNo[f]] = cnt[b.pageNo[f]]
      BY <2>1, <3>1
    <3>3. QED  BY <1>4, <2>1, <3>1, <3>2
  <2>2. QED  BY <2>1 DEF Stays
<1>7. QED  BY <1>3, <1>4, <1>5, <1>6 DEF FreeDoes, Same

\* The directory, when the file gets its first page or is gone.
LEMMA HeaderIs ==
    ASSUME EnoughFrames, NEW b, NEW cnt, MgrOK(b, cnt), Few(cnt)
    PROVE  /\ Becomes(b, cnt, LookAtHeader(b), cnt, Values(b))
           /\ \A c \in Value :
                 /\ Becomes(b, cnt, SetHeader(b, c), cnt, [Values(b) EXCEPT ![0] = c])
<1>1. 0 \in Page \ {SpaceMap} /\ cnt \in [Page -> Nat]
  BY Sizes DEF Few
<1>2. Becomes(b, cnt, LookAtHeader(b), cnt, Values(b))
  BY <1>1, LookIs DEF LookAtHeader
<1>3. ASSUME NEW c \in Value
      PROVE  Becomes(b, cnt, SetHeader(b, c), cnt, [Values(b) EXCEPT ![0] = c])
  <2> DEFINE r == pinPage(b, 0, FALSE, {})
             e == SetHeader(b, c)
  <2>1. /\ r.frame \in Frame /\ r.b.pageNo[r.frame] = 0
        /\ MgrOK(r.b, Bump(cnt, 0)) /\ Values(r.b) = Values(b) /\ Stays(b, r.b, cnt)
    BY <1>1, PinIs DEF Becomes
  <2>2. e = unpinPage([r.b EXCEPT !.pool[r.frame] = c], 0).b
    BY DEF SetHeader, OnHeader
  <2> SUFFICES Becomes(b, cnt, e, cnt, [Values(b) EXCEPT ![0] = c])
    OBVIOUS
  <2> HIDE DEF r, e
  <2>3. Becomes(r.b, cnt, e, cnt, [Values(r.b) EXCEPT ![0] = c]) /\ e.pageNo = r.b.pageNo
    BY <1>1, <2>1, <2>2, PutIs
  <2>4. QED  BY <2>1, <2>3 DEF Becomes, Stays
<1>4. QED  BY <1>2, <1>3

\* The directory names the file.
LEMMA EntryIsAdded ==
    ASSUME EnoughFrames, NEW b, NEW cnt, MgrOK(b, cnt), Few(cnt), NEW p \in Page
    PROVE  /\ [file |-> p] \in Value
           /\ Becomes(b, cnt, add_file_entry(b, p), cnt, [Values(b) EXCEPT ![0] = [file |-> p]])
<1> DEFINE e == LookAtHeader(b)
           g == add_file_entry(b, p)
<1>1. [file |-> p] \in Value
  BY HeapFileAssumption DEF Value
<1>2. Becomes(b, cnt, e, cnt, Values(b))
  BY HeaderIs
<1>3. g = SetHeader(e, [file |-> p])
  BY DEF add_file_entry
<1> SUFFICES Becomes(b, cnt, g, cnt, [Values(b) EXCEPT ![0] = [file |-> p]])
  BY <1>1
<1> HIDE DEF e, g
<1>4. MgrOK(e, cnt) /\ Values(e) = Values(b)
  BY <1>2 DEF Becomes
<1>5. Becomes(e, cnt, g, cnt, [Values(e) EXCEPT ![0] = [file |-> p]])
  BY <1>1, <1>3, <1>4, HeaderIs
<1>6. cnt \in [Page -> Nat] /\ \A q \in Page : cnt[q] <= cnt[q]
  BY DEF Few
<1>7. QED  BY <1>2, <1>4, <1>5, <1>6, BecomesOn

-----------------------------------------------------------------------------
(***************************************************************************)
(* The loops.                                                              *)
(***************************************************************************)

\* One turn of a loop: of Walk, of FreePages, or of PagesFrom.
Turn(loop, x, stops) == IF loop = "walk" THEN Visit(x, stops)
                        ELSE IF loop = "free" THEN FreeStep(x)
                        ELSE x \cup Linked(x)

\* What holds at first and from each turn to the next holds up to the last.
LEMMA UpTo ==
    ASSUME NEW n \in Nat, NEW Good, 0 \in Good,
           ASSUME NEW k \in 1 .. n, k - 1 \in Good PROVE k \in Good
    PROVE  0 .. n \subseteq Good
<1> DEFINE odd == (0 .. n) \ Good
<1> SUFFICES ASSUME odd # {} PROVE FALSE
  OBVIOUS
<1>1. odd \subseteq Nat
  OBVIOUS
<1> DEFINE m == Min(odd)
<1>2. m \in odd /\ \A y \in odd : m <= y
  BY <1>1, Least
<1> HIDE DEF m
<1>3. m \in 1 .. n /\ m - 1 \in 0 .. n /\ ~(m <= m - 1)
  BY <1>2
<1>4. m - 1 \in Good
  BY <1>2, <1>3
<1>5. QED  BY <1>2, <1>3, <1>4

\* g is what the loop has made of x0 after each turn.
Loops(g, loop, x0, stops) ==
    g = [i \in 0 .. num_pages |-> IF i = 0 THEN x0 ELSE Turn(loop, g[i - 1], stops)]

\* There is a function that does what the loop says.
LEMMA Turns ==
    ASSUME NEW loop, NEW x0, NEW stops
    PROVE  \E g : Loops(g, loop, x0, stops)
<1> DEFINE step(x) == Turn(loop, x, stops)
           goes(g, k) == g = [i \in 0 .. k |-> IF i = 0 THEN x0 ELSE step(g[i - 1])]
           Good == {k \in 0 .. num_pages : \E g : goes(g, k)}
<1>1. num_pages \in Nat
  BY Sizes
<1> SUFFICES \E g : goes(g, num_pages)
  BY DEF Loops
<1> HIDE DEF step
<1>2. 0 \in Good
  <2> DEFINE h == [i \in 0 .. 0 |-> x0]
  <2>1. goes(h, 0)
    OBVIOUS
  <2> HIDE DEF goes, h
  <2>2. (\E g : goes(g, 0)) /\ 0 \in 0 .. num_pages
    BY <1>1, <2>1
  <2>3. QED  BY <2>2
<1>3. ASSUME NEW k \in 1 .. num_pages, k - 1 \in Good PROVE k \in Good
  <2>1. PICK g : goes(g, k - 1)
    BY <1>3
  <2>2. DOMAIN g = 0 .. k - 1 /\ \A i \in 0 .. k - 1 : g[i] = IF i = 0 THEN x0 ELSE step(g[i - 1])
    BY <2>1
  <2> DEFINE last == step(g[k - 1])
             h == [i \in 0 .. k |-> IF i = k THEN last ELSE g[i]]
  <2>3. ASSUME NEW i \in 0 .. k PROVE h[i] = IF i = 0 THEN x0 ELSE step(h[i - 1])
    <3> HIDE DEF last
    <3>1. i # 0 => h[i - 1] = g[i - 1]
      BY <1>1, <2>3
    <3>2. CASE i = k
      BY <1>1, <3>1, <3>2 DEF last
    <3>3. CASE i # k
      <4>1. i \in 0 .. k - 1 /\ h[i] = g[i]
        BY <1>1, <2>3, <3>3
      <4>2. QED  BY <2>2, <3>1, <4>1
    <3>4. QED  BY <3>2, <3>3
  <2>4. goes(h, k)
    <3>1. h = [i \in 0 .. k |-> h[i]]
      OBVIOUS
    <3> HIDE DEF h
    <3>2. QED  BY <2>3, <3>1
  <2> HIDE DEF h, goes
  <2>5. QED  BY <2>4
<1> HIDE DEF Good
<1>4. 0 .. num_pages \subseteq Good
  BY <1>1, <1>2, <1>3, UpTo
<1>5. num_pages \in Good
  BY <1>1, <1>4
<1>6. QED  BY <1>5 DEF Good

\* Walk goes from page to page.
LEMMA WalkTurns ==
    ASSUME NEW b, NEW p, NEW stops
    PROVE  \E w : /\ w[0] = [b |-> b, at |-> p, last |-> INVALID_PAGE,
                             frame |-> INVALID_PAGE, st |-> "walking"]
                  /\ \A i \in 1 .. num_pages : w[i] = Visit(w[i - 1], stops)
                  /\ Walk(b, p, stops) = w[num_pages]
<1> DEFINE x0 == [b |-> b, at |-> p, last |-> INVALID_PAGE,
                  frame |-> INVALID_PAGE, st |-> "walking"]
           obeys(g) == g = [i \in 0 .. num_pages |-> IF i = 0 THEN x0 ELSE Visit(g[i - 1], stops)]
           w == CHOOSE g : obeys(g)
<1>1. \E g : obeys(g)
  <2>1. PICK g : Loops(g, "walk", x0, stops)
    BY Turns
  <2>2. \A x : Turn("walk", x, stops) = Visit(x, stops)
    BY DEF Turn
  <2> HIDE DEF x0
  <2>3. obeys(g)
    BY <2>1, <2>2 DEF Loops
  <2> HIDE DEF obeys
  <2>4. QED  BY <2>3
<1>2. Walk(b, p, stops) = w[num_pages]
  BY DEF Walk
<1>3. obeys(w)
  <2> HIDE DEF obeys
  <2>1. QED  BY <1>1
<1> HIDE DEF w, x0
<1>4. w[0] = x0 /\ \A i \in 1 .. num_pages : w[i] = Visit(w[i - 1], stops)
  BY <1>3, Sizes
<1>5. QED  BY <1>2, <1>4 DEF x0

\* FreePages frees page after page.
LEMMA FreeTurns ==
    ASSUME NEW b, NEW p
    PROVE  \E d : /\ d[0] = [b |-> b, ok |-> TRUE, at |-> p]
                  /\ \A i \in 1 .. num_pages : d[i] = FreeStep(d[i - 1])
                  /\ FreePages(b, p) = d[num_pages]
<1> DEFINE x0 == [b |-> b, ok |-> TRUE, at |-> p]
           obeys(g) == g = [i \in 0 .. num_pages |-> IF i = 0 THEN x0 ELSE FreeStep(g[i - 1])]
           w == CHOOSE g : obeys(g)
<1>1. \E g : obeys(g)
  <2>1. PICK g : Loops(g, "free", x0, {})
    BY Turns
  <2>2. \A x : Turn("free", x, {}) = FreeStep(x)
    BY DEF Turn
  <2> HIDE DEF x0
  <2>3. obeys(g)
    BY <2>1, <2>2 DEF Loops
  <2> HIDE DEF obeys
  <2>4. QED  BY <2>3
<1>2. FreePages(b, p) = w[num_pages]
  BY DEF FreePages
<1>3. obeys(w)
  <2> HIDE DEF obeys
  <2>1. QED  BY <1>1
<1> HIDE DEF w, x0
<1>4. w[0] = x0 /\ \A i \in 1 .. num_pages : w[i] = FreeStep(w[i - 1])
  BY <1>3, Sizes
<1>5. QED  BY <1>2, <1>4 DEF x0

\* PagesFrom follows the links.
LEMMA PagesTurns ==
    ASSUME NEW p
    PROVE  \E c : /\ c[0] = {p} \ {INVALID_PAGE}
                  /\ \A i \in 1 .. num_pages : c[i] = c[i - 1] \cup Linked(c[i - 1])
                  /\ PagesFrom(p) = c[num_pages]
<1> DEFINE x0 == {p} \ {INVALID_PAGE}
           step(x) == x \cup Linked(x)
           obeys(g) == g = [i \in 0 .. num_pages |-> IF i = 0 THEN x0 ELSE step(g[i - 1])]
           w == CHOOSE g : obeys(g)
<1>1. \E g : obeys(g)
  <2>1. PICK g : Loops(g, "links", x0, {})
    BY Turns
  <2>2. \A x : Turn("links", x, {}) = step(x)
    BY DEF Turn
  <2> HIDE DEF x0, step
  <2>3. obeys(g)
    BY <2>1, <2>2 DEF Loops
  <2> HIDE DEF obeys
  <2>4. QED  BY <2>3
<1>2. PagesFrom(p) = w[num_pages]
  BY DEF PagesFrom
<1>3. obeys(w)
  <2> HIDE DEF obeys
  <2>1. QED  BY <1>1
<1> HIDE DEF w, x0, step
<1>4. w[0] = x0 /\ \A i \in 1 .. num_pages : w[i] = step(w[i - 1])
  BY <1>3, Sizes
<1>5. QED  BY <1>2, <1>4 DEF x0, step

-----------------------------------------------------------------------------
(***************************************************************************)
(* A file is a list of pages, and a walk goes along it.                    *)
(***************************************************************************)
\* The pages a file may have.
DataPage == Page \ Reserved

\* The page after the i-th.
NextOf(n, ps, i) == IF i = n THEN INVALID_PAGE ELSE ps[i + 1]

\* The pages v hold a file with the n pages ps, one after another, and no other page is
\* in use.  Only the first page may be empty.
FileIs(v, n, ps) ==
    /\ n \in Nat /\ n < num_pages /\ ps \in [1 .. n -> DataPage]
    /\ \A i, j \in 1 .. n : ps[i] = ps[j] => i = j
    /\ v[0] = IF n = 0 THEN Zero ELSE [file |-> ps[1]]
    /\ v[SpaceMap] = Reserved \cup {ps[i] : i \in 1 .. n}
    /\ \A i \in 1 .. n : /\ v[ps[i]] \in HFPage /\ v[ps[i]].next = NextOf(n, ps, i)
                         /\ i # 1 => v[ps[i]].slots # {}

\* Its records.
RecsOf(v, n, ps) == UNION {{<<ps[i], s>> : s \in v[ps[i]].slots} : i \in 1 .. n}

\* The fields of a walk.
WalkFields == {"b", "at", "last", "frame", "st"}

\* A walk that has passed m pages, is at the k-th, which is one it stops at, or is
\* at the end.
PassedAll(stops, ps, m) == \A j \in 1 .. m : ps[j] \notin stops

LastOf(ps, m) == IF m = 0 THEN INVALID_PAGE ELSE ps[m]

Walking(w, b, cnt, n, ps, stops, m) ==
    /\ DOMAIN w = WalkFields /\ w.st = "walking" /\ PassedAll(stops, ps, m)
    /\ w.at = (IF m = n THEN INVALID_PAGE ELSE ps[m + 1]) /\ w.last = LastOf(ps, m)
    /\ Becomes(b, cnt, w.b, cnt, Values(b))

Found(w, b, cnt, n, ps, stops, k) ==
    /\ DOMAIN w = WalkFields /\ w.st = "found" /\ k \in 1 .. n /\ ps[k] \in stops
    /\ w.at = ps[k] /\ w.last = LastOf(ps, k - 1)
    /\ w.frame \in Frame /\ w.b.pageNo[w.frame] = ps[k]
    /\ w.b.pool[w.frame] = Values(b)[ps[k]]
    /\ Becomes(b, cnt, w.b, Bump(cnt, ps[k]), Values(b))

Ended(w, b, cnt, n, ps, stops) ==
    /\ DOMAIN w = WalkFields /\ w.st = "end" /\ PassedAll(stops, ps, n)
    /\ w.last = LastOf(ps, n) /\ Becomes(b, cnt, w.b, cnt, Values(b))

\* One page of a walk.
LEMMA VisitIs ==
    ASSUME EnoughFrames, NEW b, NEW cnt, MgrOK(b, cnt), Few(cnt), NEW n, NEW ps,
           FileIs(Values(b), n, ps), NEW stops, NEW m \in 0 .. n, NEW w,
           Walking(w, b, cnt, n, ps, stops, m)
    PROVE  LET y == Visit(w, stops)
           IN  /\ m = n => Ended(y, b, cnt, n, ps, stops)
               /\ m < n => \/ Found(y, b, cnt, n, ps, stops, m + 1)
                           \/ Walking(y, b, cnt, n, ps, stops, m + 1)
<1> DEFINE y == Visit(w, stops)
<1>1. /\ n \in Nat /\ m \in Nat /\ ps \in [1 .. n -> DataPage]
      /\ DOMAIN w = WalkFields /\ w.st = "walking" /\ PassedAll(stops, ps, m)
      /\ w.at = (IF m = n THEN INVALID_PAGE ELSE ps[m + 1]) /\ w.last = LastOf(ps, m)
      /\ Becomes(b, cnt, w.b, cnt, Values(b))
  BY DEF FileIs, Walking
<1>2. ASSUME m = n PROVE Ended(y, b, cnt, n, ps, stops)
  <2>1. y = [w EXCEPT !.st = "end"]
    BY <1>1, <1>2 DEF Visit
  <2>2. /\ DOMAIN y = WalkFields /\ y.st = "end" /\ y.last = w.last /\ y.b = w.b
    BY <1>1, <2>1 DEF WalkFields
  <2>3. QED  BY <1>1, <1>2, <2>2 DEF Ended
<1>3. ASSUME m < n
      PROVE  \/ Found(y, b, cnt, n, ps, stops, m + 1)
             \/ Walking(y, b, cnt, n, ps, stops, m + 1)
  <2> DEFINE q == ps[m + 1]
             r == pinPage(w.b, q, FALSE, {})
  <2>1. /\ m + 1 \in 1 .. n /\ w.at = q /\ q \in Page \ {SpaceMap} /\ q # INVALID_PAGE
        /\ m + 1 - 1 = m
    <3>1. m + 1 \in 1 .. n /\ m # n /\ m + 1 - 1 = m
      BY <1>1, <1>3
    <3>2. q \in DataPage /\ w.at = q
      BY <1>1, <3>1
    <3>3. QED  BY <3>1, <3>2, Sizes DEF DataPage, Reserved
  <2>2. cnt \in [Page -> Nat] /\ \A p \in Page : cnt[p] <= cnt[p]
    BY DEF Few
  <2>3. MgrOK(w.b, cnt) /\ Values(w.b) = Values(b) /\ Stays(b, w.b, cnt)
    BY <1>1 DEF Becomes
  <2>4. /\ r.ok = TRUE /\ r.frame \in Frame /\ r.b.pageNo[r.frame] = q
        /\ r.b.pool[r.frame] = Values(b)[q]
        /\ Becomes(w.b, cnt, r.b, Bump(cnt, q), Values(b))
    <3>1. /\ r.ok = TRUE /\ r.frame \in Frame /\ r.b.pageNo[r.frame] = q
          /\ r.b.pool[r.frame] = Values(w.b)[q]
          /\ Becomes(w.b, cnt, r.b, Bump(cnt, q), Values(w.b))
      BY <2>1, <2>3, PinIs
    <3> HIDE DEF r
    <3>2. QED  BY <2>3, <3>1
  <2>5. y = Look(w, r, stops)
    BY <1>1, <2>1 DEF Visit
  <2> HIDE DEF r, y, q
  <2>6. CASE q \in stops
    <3>1. y = [w EXCEPT !.b = r.b, !.st = "found", !.frame = r.frame]
      BY <2>1, <2>4, <2>5, <2>6 DEF Look
    <3>2. /\ DOMAIN y = WalkFields /\ y.st = "found" /\ y.last = w.last /\ y.b = r.b
          /\ y.at = w.at /\ y.frame = r.frame
      BY <1>1, <3>1 DEF WalkFields
    <3>3. Becomes(b, cnt, r.b, Bump(cnt, q), Values(b))
      BY <1>1, <2>2, <2>4, BecomesOn
    <3>4. y.last = LastOf(ps, m + 1 - 1)
      BY <1>1, <2>1, <3>2
    <3>5. Found(y, b, cnt, n, ps, stops, m + 1)
      BY <2>1, <2>4, <2>6, <3>2, <3>3, <3>4 DEF Found, q
    <3>6. QED  BY <3>5
  <2>7. CASE q \notin stops
    <3> DEFINE e == unpinPage(r.b, q).b
    <3>1. y = [w EXCEPT !.b = e, !.last = q, !.at = r.b.pool[r.frame].next]
      BY <2>1, <2>4, <2>5, <2>7 DEF Look
    <3>2. /\ DOMAIN y = WalkFields /\ y.st = "walking" /\ y.last = q /\ y.b = e
          /\ y.at = Values(b)[q].next
      BY <1>1, <2>4, <3>1 DEF WalkFields
    <3>3. Becomes(b, cnt, e, cnt, Values(b))
      <4>1. MgrOK(r.b, Bump(cnt, q)) /\ Values(r.b) = Values(b)
        BY <2>4 DEF Becomes
      <4>2. Becomes(r.b, cnt, e, cnt, Values(b)) /\ e.pageNo = r.b.pageNo
        BY <2>1, <2>2, <4>1, UnpinIs
      <4> HIDE DEF e
      <4>3. Becomes(w.b, cnt, e, cnt, Values(b))
        BY <2>4, <4>2 DEF Becomes, Stays
      <4>4. QED  BY <1>1, <2>2, <4>3, BecomesOn
    <3> HIDE DEF e
    <3>4. PassedAll(stops, ps, m + 1)
      BY <1>1, <2>1, <2>7 DEF PassedAll, q
    <3>5. y.at = IF m + 1 = n THEN INVALID_PAGE ELSE ps[m + 1 + 1]
      BY <2>1, <3>2 DEF FileIs, NextOf, q
    <3>6. y.last = LastOf(ps, m + 1)
      BY <1>1, <2>1, <3>2 DEF LastOf, q
    <3>7. Walking(y, b, cnt, n, ps, stops, m + 1)
      BY <3>2, <3>3, <3>4, <3>5, <3>6 DEF Walking
    <3>8. QED  BY <3>7
  <2>8. QED  BY <2>6, <2>7
<1>4. QED  BY <1>2, <1>3

\* A walk from the first page of the file stops at the first page it is to stop at,
\* with that page pinned, or has seen them all.
LEMMA WalkIs ==
    ASSUME EnoughFrames, NEW b, NEW cnt, MgrOK(b, cnt), Few(cnt), NEW n, NEW ps,
           FileIs(Values(b), n, ps), n > 0, NEW stops
    PROVE  LET w == Walk(b, ps[1], stops)
           IN  \/ Ended(w, b, cnt, n, ps, stops)
               \/ \E k \in 1 .. n : Found(w, b, cnt, n, ps, stops, k)
<1>1. PICK w : /\ w[0] = [b |-> b, at |-> ps[1], last |-> INVALID_PAGE,
                          frame |-> INVALID_PAGE, st |-> "walking"]
               /\ \A i \in 1 .. num_pages : w[i] = Visit(w[i - 1], stops)
               /\ Walk(b, ps[1], stops) = w[num_pages]
  BY WalkTurns
<1>2. n \in Nat /\ n < num_pages /\ num_pages \in Nat
  BY Sizes DEF FileIs
<1> DEFINE walking(i) == i \in 0 .. n /\ Walking(w[i], b, cnt, n, ps, stops, i)
           done(i) == \/ Ended(w[i], b, cnt, n, ps, stops)
                      \/ \E k \in 1 .. n : Found(w[i], b, cnt, n, ps, stops, k)
           Good == {i \in 0 .. num_pages : walking(i) \/ done(i)}
<1>3. 0 \in Good
  <2>1. Becomes(b, cnt, b, cnt, Values(b))
    BY DEF Becomes, Stays
  <2>2. PassedAll(stops, ps, 0) /\ LastOf(ps, 0) = INVALID_PAGE
    BY DEF PassedAll, LastOf
  <2>3. /\ DOMAIN w[0] = WalkFields /\ w[0].b = b /\ w[0].at = ps[1]
        /\ w[0].last = INVALID_PAGE /\ w[0].st = "walking"
    BY <1>1 DEF WalkFields
  <2>4. w[0].at = IF 0 = n THEN INVALID_PAGE ELSE ps[0 + 1]
    BY <1>2, <2>3
  <2>5. Walking(w[0], b, cnt, n, ps, stops, 0)
    BY <2>1, <2>2, <2>3, <2>4 DEF Walking
  <2>6. QED  BY <1>2, <2>5
<1>4. ASSUME NEW i \in 1 .. num_pages, i - 1 \in Good PROVE i \in Good
  <2>1. w[i] = Visit(w[i - 1], stops) /\ i - 1 \in 0 .. num_pages /\ i - 1 + 1 = i
    BY <1>1, <1>2
  <2>2. CASE done(i - 1)
    <3>1. w[i - 1].st # "walking"
      BY <2>2 DEF Ended, Found
    <3>2. w[i] = w[i - 1]
      BY <2>1, <3>1 DEF Visit
    <3>3. QED  BY <2>2, <3>2
  <2>3. CASE walking(i - 1)
    <3>1. /\ i - 1 = n => Ended(w[i], b, cnt, n, ps, stops)
          /\ i - 1 < n => \/ Found(w[i], b, cnt, n, ps, stops, i - 1 + 1)
                          \/ Walking(w[i], b, cnt, n, ps, stops, i - 1 + 1)
      BY <2>1, <2>3, VisitIs
    <3>2. i - 1 < n => i \in 1 .. n
      BY <1>2
    <3>3. i - 1 = n \/ i - 1 < n
      BY <1>2, <2>3
    <3>4. QED  BY <2>1, <3>1, <3>2, <3>3
  <2>4. QED  BY <1>4, <2>2, <2>3
<1> HIDE DEF Good
<1>5. 0 .. num_pages \subseteq Good
  BY <1>2, <1>3, <1>4, UpTo
<1>6. num_pages \in Good /\ num_pages \notin 0 .. n
  BY <1>2, <1>5
<1>7. done(num_pages)
  BY <1>6 DEF Good
<1>8. QED  BY <1>1, <1>7

-----------------------------------------------------------------------------
(***************************************************************************)
(* The pages and the records of a file, and how they change.               *)
(***************************************************************************)
\* Slots are numbers, and there is one.
LEMMA SlotIs == Slot \subseteq Nat /\ 0 \in Slot
<1> DEFINE m == Max(Slot)
<1>1. m \in Nat /\ Slot = 0 .. m
  BY HeapFileAssumption
<1> HIDE DEF m
<1>2. QED  BY <1>1

\* The records, one by one.
LEMMA RecsAre ==
    ASSUME NEW v, NEW n, NEW ps
    PROVE  \A r : r \in RecsOf(v, n, ps) <=>
                     \E i \in 1 .. n : \E s \in v[ps[i]].slots : r = <<ps[i], s>>
  BY DEF RecsOf

\* What a file is made of.
LEMMA FileHas ==
    ASSUME NEW v, NEW n, NEW ps, FileIs(v, n, ps)
    PROVE  /\ n \in Nat /\ n < num_pages /\ ps \in [1 .. n -> DataPage]
           /\ \A i, j \in 1 .. n : ps[i] = ps[j] => i = j
           /\ \A i \in 1 .. n : /\ ps[i] \in DataPage /\ ps[i] \in Page \ {SpaceMap} /\ ps[i] # 0
                                /\ ps[i] # INVALID_PAGE
                                /\ v[ps[i]] \in HFPage /\ v[ps[i]].next = NextOf(n, ps, i)
                                /\ v[ps[i]].slots \subseteq Slot
                                /\ i # 1 => v[ps[i]].slots # {}
           /\ 0 \notin DataPage /\ SpaceMap \notin DataPage /\ DataPage \subseteq Page
<1>1. /\ n \in Nat /\ n < num_pages /\ ps \in [1 .. n -> DataPage]
      /\ \A i, j \in 1 .. n : ps[i] = ps[j] => i = j
      /\ \A i \in 1 .. n : /\ v[ps[i]] \in HFPage /\ v[ps[i]].next = NextOf(n, ps, i)
                           /\ i # 1 => v[ps[i]].slots # {}
  BY DEF FileIs
<1>2. /\ 0 \notin DataPage /\ SpaceMap \notin DataPage /\ DataPage \subseteq Page
      /\ INVALID_PAGE \notin Page
  BY Sizes DEF DataPage, Reserved
<1>3. \A i \in 1 .. n : ps[i] \in DataPage
  BY <1>1
<1>4. \A x \in HFPage : x.slots \subseteq Slot
  BY DEF HFPage
<1>5. QED  BY <1>1, <1>2, <1>3, <1>4

\* No file has as many pages as the database.
LEMMA FileFits ==
    ASSUME NEW n \in Nat, NEW ps \in [1 .. n -> DataPage], \A i, j \in 1 .. n : ps[i] = ps[j] => i = j
    PROVE  n < num_pages
<1>1. DataPage \subseteq 1 .. num_pages - 1 /\ num_pages \in Nat
  BY Sizes DEF DataPage, Reserved
<1>2. ps \in Injection(1 .. n, 1 .. num_pages - 1)
  <2>1. ps \in [1 .. n -> 1 .. num_pages - 1]
    BY <1>1
  <2>2. QED  BY <2>1 DEF Injection, IsInjective
<1>3. IsFiniteSet(1 .. num_pages - 1) /\ Cardinality(1 .. num_pages - 1) <= num_pages - 1
  BY <1>1, Sizes, FS_Interval
<1>4. Cardinality(1 .. n) = n
  <2>1. Cardinality(1 .. n) = IF 1 > n THEN 0 ELSE n - 1 + 1
    BY FS_Interval
  <2>2. QED  BY <2>1
<1>5. Cardinality(1 .. n) <= Cardinality(1 .. num_pages - 1)
  BY <1>2, <1>3, FS_Injection
<1>6. Cardinality(1 .. num_pages - 1) \in Nat
  BY <1>3, FS_CardinalityType
<1>7. QED  BY <1>1, <1>3, <1>4, <1>5, <1>6

\* Following the links finds the pages.
LEMMA FilePagesAre ==
    ASSUME NEW n, NEW ps, FileIs(Values(bm), n, ps)
    PROVE  FilePages = {ps[i] : i \in 1 .. n}
<1>1. /\ n \in Nat /\ n < num_pages /\ num_pages \in Nat /\ ps \in [1 .. n -> DataPage]
      /\ \A i \in 1 .. n : /\ ps[i] # INVALID_PAGE /\ ps[i] \in Page
                           /\ Values(bm)[ps[i]] \in HFPage
                           /\ Values(bm)[ps[i]].next = NextOf(n, ps, i)
  BY FileHas, Sizes
<1>2. \A p \in Page : Values(bm)[p] = PageValue(bm, p)
  BY DEF Values
<1>3. ASSUME NEW i \in 1 .. n PROVE AsHFPage(PageValue(bm, ps[i])).next = NextOf(n, ps, i)
  BY <1>1, <1>2 DEF AsHFPage
<1>4. Entry(PageValue(bm, 0)) = IF n = 0 THEN INVALID_PAGE ELSE ps[1]
  <2>1. PageValue(bm, 0) = IF n = 0 THEN Zero ELSE [file |-> ps[1]]
    BY <1>2, Sizes DEF FileIs
  <2>2. CASE n = 0
    BY <2>1, <2>2 DEF Entry
  <2>3. CASE n # 0
    <3>1. ps[1] \in Page
      BY <1>1, <2>3
    <3>2. [file |-> ps[1]] # Zero
      BY <3>1, HeapFileAssumption, BufMgrAssumption
    <3>3. QED  BY <2>1, <2>3, <3>2 DEF Entry
  <2>4. QED  BY <2>2, <2>3
<1>5. PICK c : /\ c[0] = {Entry(PageValue(bm, 0))} \ {INVALID_PAGE}
               /\ \A i \in 1 .. num_pages : c[i] = c[i - 1] \cup Linked(c[i - 1])
               /\ FilePages = c[num_pages]
  BY PagesTurns DEF FilePages
<1> DEFINE upto(i) == {ps[j] : j \in {k \in 1 .. n : k <= i + 1}}
           Good == {i \in 0 .. num_pages : c[i] = upto(i)}
<1>6. 0 \in Good
  <2>1. CASE n = 0
    <3>1. upto(0) = {}
      BY <2>1
    <3>2. QED  BY <1>1, <1>4, <1>5, <2>1, <3>1
  <2>2. CASE n # 0
    <3>1. {k \in 1 .. n : k <= 0 + 1} = {1} /\ 1 \in 1 .. n
      BY <1>1, <2>2
    <3>2. upto(0) = {ps[1]}
      BY <3>1
    <3>3. c[0] = {ps[1]}
      BY <1>1, <1>4, <1>5, <2>2, <3>1
    <3>4. QED  BY <1>1, <3>2, <3>3
  <2>3. QED  BY <2>1, <2>2
<1>7. ASSUME NEW i \in 1 .. num_pages, i - 1 \in Good PROVE i \in Good
  <2>1. c[i] = upto(i - 1) \cup Linked(upto(i - 1))
    BY <1>5, <1>7
  <2>2. Linked(upto(i - 1)) \subseteq upto(i)
    <3>1. ASSUME NEW x \in Linked(upto(i - 1)) PROVE x \in upto(i)
      <4>1. PICK j \in 1 .. n : j <= i - 1 + 1 /\ x = AsHFPage(PageValue(bm, ps[j])).next
        BY DEF Linked
      <4>2. x # INVALID_PAGE
        BY DEF Linked
      <4>3. x = NextOf(n, ps, j)
        BY <1>3, <4>1
      <4>4. j # n /\ x = ps[j + 1]
        BY <4>2, <4>3 DEF NextOf
      <4>5. j + 1 \in 1 .. n /\ j + 1 <= i + 1
        BY <1>1, <4>1, <4>4
      <4>6. QED  BY <4>4, <4>5
    <3>2. QED  BY <3>1
  <2>3. upto(i - 1) \subseteq upto(i)
    <3>1. ASSUME NEW j \in 1 .. n, j <= i - 1 + 1 PROVE j <= i + 1
      BY <1>1, <3>1
    <3>2. QED  BY <3>1
  <2>4. ASSUME NEW j \in 1 .. n, j <= i + 1 PROVE ps[j] \in upto(i - 1) \cup Linked(upto(i - 1))
    <3>1. CASE j <= i
      <4>1. j <= i - 1 + 1
        BY <1>1, <3>1
      <4>2. QED  BY <4>1
    <3>2. CASE ~(j <= i)
      <4>1. j - 1 \in 1 .. n /\ j - 1 <= i - 1 + 1 /\ j - 1 # n /\ j - 1 + 1 = j
        BY <1>1, <2>4, <3>2
      <4>2. AsHFPage(PageValue(bm, ps[j - 1])).next = ps[j]
        BY <1>3, <4>1 DEF NextOf
      <4>3. ps[j - 1] \in upto(i - 1)
        BY <4>1
      <4> HIDE DEF upto
      <4>4. ps[j] \in Linked(upto(i - 1))
        BY <1>1, <4>2, <4>3 DEF Linked
      <4>5. QED  BY <4>4
    <3>3. QED  BY <3>1, <3>2
  <2>5. upto(i) \subseteq upto(i - 1) \cup Linked(upto(i - 1))
    BY <2>4
  <2> HIDE DEF upto
  <2>6. c[i] = upto(i) /\ i \in 0 .. num_pages
    BY <1>1, <2>1, <2>2, <2>3, <2>5
  <2>7. QED  BY <2>6
<1> HIDE DEF Good
<1>8. 0 .. num_pages \subseteq Good
  BY <1>1, <1>6, <1>7, UpTo
<1>9. num_pages \in Good
  BY <1>1, <1>8
<1>10. c[num_pages] = upto(num_pages)
  BY <1>9 DEF Good
<1>11. {k \in 1 .. n : k <= num_pages + 1} = 1 .. n
  BY <1>1
<1>12. QED  BY <1>5, <1>10, <1>11

\* Other slots of one page are used.
Reslot(v, p, S) == [v EXCEPT ![p] = [v[p] EXCEPT !.slots = S]]

\* The file has the same pages, and the records of the others.
ReslotOK(v, n, ps, k, S) ==
    /\ [v[ps[k]] EXCEPT !.slots = S] \in Value /\ FileIs(Reslot(v, ps[k], S), n, ps)
    /\ \A i \in 1 .. n :
          Reslot(v, ps[k], S)[ps[i]].slots = IF i = k THEN S ELSE v[ps[i]].slots

\* Only the first page may be left without a record.
LEMMA Reslotted ==
    ASSUME NEW v \in [Page -> Value], NEW n, NEW ps, FileIs(v, n, ps), NEW k \in 1 .. n,
           NEW S \in SUBSET Slot, k # 1 => S # {}
    PROVE  ReslotOK(v, n, ps, k, S)
<1> DEFINE x == [v[ps[k]] EXCEPT !.slots = S]
           w == Reslot(v, ps[k], S)
<1>1. /\ n \in Nat /\ n < num_pages /\ ps \in [1 .. n -> DataPage]
      /\ \A i, j \in 1 .. n : ps[i] = ps[j] => i = j
      /\ \A i \in 1 .. n : /\ ps[i] \in Page /\ ps[i] # SpaceMap /\ ps[i] # 0
                           /\ v[ps[i]] \in HFPage /\ v[ps[i]].next = NextOf(n, ps, i)
                           /\ i # 1 => v[ps[i]].slots # {}
  BY FileHas
<1>2. x \in HFPage /\ x.next = v[ps[k]].next /\ x.slots = S
  <2>1. v[ps[k]] \in HFPage
    BY <1>1
  <2>2. QED  BY <2>1 DEF HFPage
<1>3. x \in Value
  BY <1>2, HeapFileAssumption DEF Value
<1>4. w[ps[k]] = x /\ \A q \in Page : q # ps[k] => w[q] = v[q]
  BY <1>1 DEF Reslot
<1> HIDE DEF x, w
<1>5. 0 \in Page /\ SpaceMap \in Page
  BY Sizes
<1>6. \A i \in 1 .. n : /\ w[ps[i]] \in HFPage /\ w[ps[i]].next = NextOf(n, ps, i)
                        /\ w[ps[i]].slots = IF i = k THEN S ELSE v[ps[i]].slots
  BY <1>1, <1>2, <1>4
<1>7. w[0] = v[0] /\ w[SpaceMap] = v[SpaceMap]
  BY <1>1, <1>4, <1>5
<1>8. FileIs(w, n, ps)
  BY <1>1, <1>6, <1>7 DEF FileIs
<1>9. QED  BY <1>3, <1>6, <1>8 DEF ReslotOK, x, w

\* The m pages qs are the n pages ps and perhaps others after them.
Grows(n, ps, m, qs) == m \in Nat /\ n <= m /\ \A i \in 1 .. n : qs[i] = ps[i]

\* The pages are w instead of v: the file gets page p, with x in it, after its
\* last page, or as its first.
AddsPage(v, n, ps, p, x, w) ==
    /\ p \in DataPage /\ p \notin v[SpaceMap]
    /\ x \in HFPage /\ w[p] = x /\ x.next = INVALID_PAGE
    /\ n # 0 => x.slots # {} /\ w[0] = v[0] /\ w[ps[n]] = [v[ps[n]] EXCEPT !.next = p]
    /\ n = 0 => w[0] = [file |-> p]
    /\ w[SpaceMap] = v[SpaceMap] \cup {p}
    /\ \A i \in 1 .. n : i # n => w[ps[i]] = v[ps[i]]

\* The file with its new last page.
LEMMA Extended ==
    ASSUME NEW v, NEW n, NEW ps, FileIs(v, n, ps), NEW p, NEW x, NEW w,
           AddsPage(v, n, ps, p, x, w)
    PROVE  \E qs : /\ FileIs(w, n + 1, qs) /\ Grows(n, ps, n + 1, qs) /\ qs[n + 1] = p
                   /\ RecsOf(w, n + 1, qs) = RecsOf(v, n, ps) \cup {<<p, s>> : s \in x.slots}
<1> DEFINE qs == [i \in 1 .. n + 1 |-> IF i = n + 1 THEN p ELSE ps[i]]
<1>0. /\ p \in DataPage /\ p \notin v[SpaceMap]
      /\ x \in HFPage /\ w[p] = x /\ x.next = INVALID_PAGE
      /\ n # 0 => x.slots # {} /\ w[0] = v[0] /\ w[ps[n]] = [v[ps[n]] EXCEPT !.next = p]
      /\ n = 0 => w[0] = [file |-> p]
      /\ w[SpaceMap] = v[SpaceMap] \cup {p}
      /\ \A i \in 1 .. n : i # n => w[ps[i]] = v[ps[i]]
  BY DEF AddsPage
<1>1. /\ n \in Nat /\ n < num_pages /\ ps \in [1 .. n -> DataPage]
      /\ \A i, j \in 1 .. n : ps[i] = ps[j] => i = j
      /\ \A i \in 1 .. n : /\ ps[i] \in DataPage
                           /\ v[ps[i]] \in HFPage /\ v[ps[i]].next = NextOf(n, ps, i)
                           /\ i # 1 => v[ps[i]].slots # {}
  BY FileHas
<1>2. \A i \in 1 .. n : ps[i] # p /\ ps[i] \in v[SpaceMap]
  BY <1>0 DEF FileIs
<1>3. /\ n + 1 \in Nat /\ n + 1 \in 1 .. n + 1 /\ qs[n + 1] = p
      /\ \A i \in 1 .. n : qs[i] = ps[i] /\ i \in 1 .. n + 1 /\ i # n + 1
      /\ \A i \in 1 .. n + 1 : i # n + 1 => i \in 1 .. n
  BY <1>1
<1>4. qs \in [1 .. n + 1 -> DataPage]
  BY <1>0, <1>1
<1> HIDE DEF qs
<1>5. ASSUME NEW i \in 1 .. n + 1, NEW j \in 1 .. n + 1, qs[i] = qs[j] PROVE i = j
  BY <1>1, <1>2, <1>3, <1>5
<1>6. n + 1 < num_pages
  BY <1>3, <1>4, <1>5, FileFits
<1>7. ASSUME NEW i \in 1 .. n
      PROVE  /\ w[ps[i]] \in HFPage /\ w[ps[i]].slots = v[ps[i]].slots
             /\ w[ps[i]].next = NextOf(n + 1, qs, i)
  <2>1. CASE i = n
    <3>1. v[ps[n]] \in HFPage /\ w[ps[n]] = [v[ps[n]] EXCEPT !.next = p] /\ p \in Page
      BY <1>0, <1>1, <2>1 DEF DataPage
    <3>2. w[ps[n]] \in HFPage /\ w[ps[n]].slots = v[ps[n]].slots /\ w[ps[n]].next = p
      BY <3>1 DEF HFPage
    <3>3. NextOf(n + 1, qs, n) = p
      BY <1>1, <1>3 DEF NextOf
    <3>4. QED  BY <2>1, <3>2, <3>3
  <2>2. CASE i # n
    <3>1. w[ps[i]] = v[ps[i]] /\ v[ps[i]].next = ps[i + 1]
      BY <1>0, <1>1, <2>2 DEF NextOf
    <3>2. i + 1 \in 1 .. n
      BY <1>1, <2>2
    <3>3. NextOf(n + 1, qs, i) = ps[i + 1]
      BY <1>1, <1>3, <3>2 DEF NextOf
    <3>4. QED  BY <1>1, <3>1, <3>3
  <2>3. QED  BY <2>1, <2>2
<1>8. ASSUME NEW i \in 1 .. n + 1
      PROVE  /\ w[qs[i]] \in HFPage /\ w[qs[i]].next = NextOf(n + 1, qs, i)
             /\ i # 1 => w[qs[i]].slots # {}
  <2>1. CASE i = n + 1
    <3>1. i # 1 => n # 0
      BY <1>1, <2>1
    <3>2. QED  BY <1>0, <1>3, <2>1, <3>1 DEF NextOf
  <2>2. CASE i # n + 1
    BY <1>1, <1>3, <1>7, <2>2
  <2>3. QED  BY <2>1, <2>2
<1>9. w[0] = [file |-> qs[1]] /\ n + 1 # 0
  <2>1. CASE n = 0
    BY <1>0, <1>3, <2>1
  <2>2. CASE n # 0
    <3>1. 1 \in 1 .. n
      BY <1>1, <2>2
    <3>2. QED  BY <1>0, <1>3, <2>2, <3>1 DEF FileIs
  <2>3. QED  BY <1>1, <2>1, <2>2
<1>10. w[SpaceMap] = Reserved \cup {qs[i] : i \in 1 .. n + 1}
  <2>1. {qs[i] : i \in 1 .. n + 1} = {ps[i] : i \in 1 .. n} \cup {p}
    BY <1>3
  <2>2. QED  BY <1>0, <2>1 DEF FileIs
<1>11. FileIs(w, n + 1, qs)
  BY <1>3, <1>4, <1>5, <1>6, <1>8, <1>9, <1>10 DEF FileIs
<1>12. RecsOf(w, n + 1, qs) = RecsOf(v, n, ps) \cup {<<p, s>> : s \in x.slots}
  <2>1. ASSUME NEW r
        PROVE  r \in RecsOf(w, n + 1, qs) <=> r \in RecsOf(v, n, ps) \cup {<<p, s>> : s \in x.slots}
    <3>1. r \in RecsOf(w, n + 1, qs) <=> \E i \in 1 .. n + 1 : \E s \in w[qs[i]].slots : r = <<qs[i], s>>
      BY RecsAre
    <3>2. r \in RecsOf(v, n, ps) <=> \E i \in 1 .. n : \E s \in v[ps[i]].slots : r = <<ps[i], s>>
      BY RecsAre
    <3>3. \A i \in 1 .. n : w[qs[i]].slots = v[ps[i]].slots /\ qs[i] = ps[i]
      BY <1>3, <1>7
    <3>4. w[qs[n + 1]].slots = x.slots
      BY <1>0, <1>3
    <3>5. QED  BY <1>3, <3>1, <3>2, <3>3, <3>4
  <2>2. QED  BY <2>1
<1>13. Grows(n, ps, n + 1, qs)
  BY <1>1, <1>3 DEF Grows
<1>14. QED  BY <1>3, <1>11, <1>12, <1>13

\* The list without its k-th page.
CutAt(n, ps, k) == [i \in 1 .. n - 1 |-> IF i < k THEN ps[i] ELSE ps[i + 1]]

\* The pages are w instead of v: the page before the k-th has its next page, and it
\* is not in use.
CutsPage(v, n, ps, k, w) ==
    /\ w[0] = v[0] /\ w[SpaceMap] = v[SpaceMap] \ {ps[k]}
    /\ w[ps[k - 1]] = [v[ps[k - 1]] EXCEPT !.next = v[ps[k]].next]
    /\ \A i \in 1 .. n : i # k /\ i # k - 1 => w[ps[i]] = v[ps[i]]

\* The file without the page, and the records it has left.
LEMMA Shortened ==
    ASSUME NEW v, NEW n, NEW ps, FileIs(v, n, ps), NEW k \in 2 .. n, NEW w,
           CutsPage(v, n, ps, k, w)
    PROVE  /\ FileIs(w, n - 1, CutAt(n, ps, k))
           /\ RecsOf(w, n - 1, CutAt(n, ps, k)) = {r \in RecsOf(v, n, ps) : r[1] # ps[k]}
<1> DEFINE qs == CutAt(n, ps, k)
           up(i) == IF i < k THEN i ELSE i + 1
           down(i) == IF i < k THEN i ELSE i - 1
<1>0. /\ w[0] = v[0] /\ w[SpaceMap] = v[SpaceMap] \ {ps[k]}
      /\ w[ps[k - 1]] = [v[ps[k - 1]] EXCEPT !.next = v[ps[k]].next]
      /\ \A i \in 1 .. n : i # k /\ i # k - 1 => w[ps[i]] = v[ps[i]]
  BY DEF CutsPage
<1>1. /\ n \in Nat /\ n < num_pages /\ ps \in [1 .. n -> DataPage]
      /\ \A i, j \in 1 .. n : ps[i] = ps[j] => i = j
      /\ \A i \in 1 .. n : /\ ps[i] \in DataPage
                           /\ v[ps[i]] \in HFPage /\ v[ps[i]].next = NextOf(n, ps, i)
                           /\ i # 1 => v[ps[i]].slots # {}
  BY FileHas
<1>2. /\ k \in Nat /\ k \in 1 .. n /\ k - 1 \in 1 .. n /\ k - 1 # n /\ k - 1 + 1 = k
      /\ n - 1 \in Nat /\ n - 1 # 0 /\ 1 \in 1 .. n - 1 /\ 1 < k
  BY <1>1
<1>3. ASSUME NEW i \in 1 .. n - 1
      PROVE  /\ up(i) \in 1 .. n /\ up(i) # k /\ down(up(i)) = i /\ qs[i] = ps[up(i)]
             /\ up(i) = 1 <=> i = 1
  <2>1. i \in Nat /\ 1 <= i /\ i <= n - 1
    BY <1>1
  <2>2. CASE i < k
    BY <1>1, <1>2, <2>1, <2>2 DEF CutAt
  <2>3. CASE ~(i < k)
    BY <1>1, <1>2, <2>1, <2>3 DEF CutAt
  <2>4. QED  BY <2>2, <2>3
<1>4. ASSUME NEW i \in 1 .. n, i # k
      PROVE  down(i) \in 1 .. n - 1 /\ up(down(i)) = i
  BY <1>1, <1>2, <1>4
<1>5. qs \in [1 .. n - 1 -> DataPage]
  <2>1. \A i \in 1 .. n - 1 : qs[i] \in DataPage
    BY <1>1, <1>3
  <2>2. qs = [i \in 1 .. n - 1 |-> qs[i]]
    BY DEF CutAt
  <2> HIDE DEF qs
  <2>3. QED  BY <2>1, <2>2
<1>6. ASSUME NEW i \in 1 .. n, i # k
      PROVE  /\ w[ps[i]] \in HFPage /\ w[ps[i]].slots = v[ps[i]].slots
             /\ w[ps[i]].next = IF i = k - 1 THEN NextOf(n, ps, k) ELSE NextOf(n, ps, i)
  <2>1. CASE i = k - 1
    <3> DEFINE x == v[ps[k - 1]]
               y == v[ps[k]].next
    <3>1. x \in HFPage /\ y \in Page \cup {INVALID_PAGE} /\ y = NextOf(n, ps, k)
      BY <1>1, <1>2 DEF HFPage
    <3>2. w[ps[i]] = [x EXCEPT !.next = y]
      BY <1>0, <2>1
    <3> HIDE DEF x, y
    <3>3. w[ps[i]] \in HFPage /\ w[ps[i]].slots = x.slots /\ w[ps[i]].next = y
      BY <3>1, <3>2 DEF HFPage
    <3>4. QED  BY <2>1, <3>1, <3>3 DEF x
  <2>2. CASE i # k - 1
    BY <1>0, <1>1, <1>6, <2>2
  <2>3. QED  BY <2>1, <2>2
<1>7. ASSUME NEW i \in 1 .. n - 1
      PROVE  /\ w[qs[i]] \in HFPage /\ w[qs[i]].slots = v[ps[up(i)]].slots
             /\ w[qs[i]].next = NextOf(n - 1, qs, i)
             /\ i # 1 => w[qs[i]].slots # {}
  <2>1. up(i) \in 1 .. n /\ up(i) # k /\ qs[i] = ps[up(i)] /\ (up(i) = 1 <=> i = 1)
    BY <1>3
  <2>2. /\ w[qs[i]] \in HFPage /\ w[qs[i]].slots = v[ps[up(i)]].slots
        /\ w[qs[i]].next = IF up(i) = k - 1 THEN NextOf(n, ps, k) ELSE NextOf(n, ps, up(i))
    BY <1>6, <2>1
  <2>3. i # 1 => w[qs[i]].slots # {}
    BY <1>1, <2>1, <2>2
  <2>4. (IF up(i) = k - 1 THEN NextOf(n, ps, k) ELSE NextOf(n, ps, up(i))) = NextOf(n - 1, qs, i)
    <3>1. CASE i = n - 1
      <4>1. up(i) = k - 1 => k = n
        BY <1>1, <1>2, <3>1
      <4>2. up(i) # k - 1 => up(i) = n
        BY <1>1, <1>2, <3>1
      <4>3. QED  BY <3>1, <4>1, <4>2 DEF NextOf
    <3>2. CASE i # n - 1
      <4>1. i + 1 \in 1 .. n - 1
        BY <1>1, <3>2
      <4>2. NextOf(n - 1, qs, i) = ps[up(i + 1)]
        BY <1>3, <3>2, <4>1 DEF NextOf
      <4>3. CASE up(i) = k - 1
        <5>1. k # n /\ up(i + 1) = k + 1
          BY <1>1, <1>2, <3>2, <4>1, <4>3
        <5> HIDE DEF up, qs
        <5>2. QED  BY <4>2, <4>3, <5>1 DEF NextOf
      <4>4. CASE up(i) # k - 1
        <5>1. up(i) # n /\ up(i + 1) = up(i) + 1
          BY <1>1, <1>2, <3>2, <4>1, <4>4
        <5> HIDE DEF up, qs
        <5>2. QED  BY <4>2, <4>4, <5>1 DEF NextOf
      <4>5. QED  BY <4>3, <4>4
    <3>3. QED  BY <3>1, <3>2
  <2> HIDE DEF up, qs
  <2>5. QED  BY <2>2, <2>3, <2>4
<1>8. ASSUME NEW i \in 1 .. n - 1, NEW j \in 1 .. n - 1, qs[i] = qs[j] PROVE i = j
  <2>1. ps[up(i)] = ps[up(j)] /\ up(i) \in 1 .. n /\ up(j) \in 1 .. n
    BY <1>3, <1>8
  <2>2. up(i) = up(j)
    <3> HIDE DEF up
    <3>1. QED  BY <1>1, <2>1
  <2>3. down(up(i)) = i /\ down(up(j)) = j
    BY <1>3
  <2> HIDE DEF up, down
  <2>4. QED  BY <2>2, <2>3
<1>9. {qs[i] : i \in 1 .. n - 1} = {ps[i] : i \in 1 .. n} \ {ps[k]}
  <2> HIDE DEF qs, up, down
  <2>1. \A i \in 1 .. n - 1 : qs[i] \in {ps[j] : j \in 1 .. n} \ {ps[k]}
    BY <1>1, <1>2, <1>3
  <2>2. ASSUME NEW i \in 1 .. n, ps[i] # ps[k] PROVE ps[i] \in {qs[j] : j \in 1 .. n - 1}
    <3>1. down(i) \in 1 .. n - 1 /\ up(down(i)) = i
      BY <1>4, <2>2
    <3>2. qs[down(i)] = ps[i]
      BY <1>3, <3>1
    <3>3. QED  BY <3>1, <3>2
  <2>3. QED  BY <2>1, <2>2
<1>10. w[SpaceMap] = Reserved \cup {qs[i] : i \in 1 .. n - 1}
  <2>1. ps[k] \notin Reserved
    BY <1>1, <1>2 DEF DataPage
  <2>2. v[SpaceMap] = Reserved \cup {ps[i] : i \in 1 .. n}
    BY DEF FileIs
  <2> HIDE DEF qs
  <2>3. QED  BY <1>0, <1>9, <2>1, <2>2
<1>11. w[0] = [file |-> qs[1]]
  <2>1. qs[1] = ps[1] /\ n # 0
    BY <1>1, <1>2 DEF CutAt
  <2>2. QED  BY <1>0, <2>1 DEF FileIs
<1>12. n - 1 < num_pages
  BY <1>1, Sizes
<1> HIDE DEF up, down, qs
<1>13. FileIs(w, n - 1, qs)
  BY <1>2, <1>5, <1>7, <1>8, <1>10, <1>11, <1>12 DEF FileIs
<1>14. ASSUME NEW r
       PROVE  r \in RecsOf(w, n - 1, qs) <=> r \in RecsOf(v, n, ps) /\ r[1] # ps[k]
  <2>1. r \in RecsOf(w, n - 1, qs) <=> \E i \in 1 .. n - 1 : \E s \in w[qs[i]].slots : r = <<qs[i], s>>
    BY RecsAre
  <2>2. r \in RecsOf(v, n, ps) <=> \E i \in 1 .. n : \E s \in v[ps[i]].slots : r = <<ps[i], s>>
    BY RecsAre
  <2>3. ASSUME NEW i \in 1 .. n - 1, NEW s \in w[qs[i]].slots, r = <<qs[i], s>>
        PROVE  r \in RecsOf(v, n, ps) /\ r[1] # ps[k]
    <3>1. up(i) \in 1 .. n /\ up(i) # k /\ qs[i] = ps[up(i)] /\ s \in v[ps[up(i)]].slots
      BY <1>3, <1>7, <2>3
    <3>2. ps[up(i)] # ps[k]
      BY <1>1, <1>2, <3>1
    <3>3. QED  BY <2>2, <2>3, <3>1, <3>2
  <2>4. ASSUME NEW i \in 1 .. n, NEW s \in v[ps[i]].slots, r = <<ps[i], s>>, r[1] # ps[k]
        PROVE  r \in RecsOf(w, n - 1, qs)
    <3>1. i # k
      BY <2>4
    <3>2. down(i) \in 1 .. n - 1 /\ up(down(i)) = i
      BY <1>4, <3>1
    <3>3. qs[down(i)] = ps[i] /\ w[qs[down(i)]].slots = v[ps[i]].slots
      BY <1>3, <1>7, <3>2
    <3>4. QED  BY <2>1, <2>4, <3>2, <3>3
  <2>5. QED  BY <2>1, <2>2, <2>3, <2>4
<1>15. RecsOf(w, n - 1, qs) = {r \in RecsOf(v, n, ps) : r[1] # ps[k]}
  BY <1>14
<1>16. QED  BY <1>13, <1>15 DEF qs

-----------------------------------------------------------------------------
(***************************************************************************)
(* Opening a file and inserting a record.                                  *)
(***************************************************************************)
\* The directory names the first page.
LEMMA EntryIs ==
    ASSUME NEW v, NEW n, NEW ps, FileIs(v, n, ps)
    PROVE  Entry(v[0]) = IF n = 0 THEN INVALID_PAGE ELSE ps[1]
<1>1. v[0] = IF n = 0 THEN Zero ELSE [file |-> ps[1]]
  BY DEF FileIs
<1>2. CASE n = 0
  BY <1>1, <1>2 DEF Entry
<1>3. CASE n # 0
  <2>1. n \in Nat /\ 1 \in 1 .. n
    BY <1>3, FileHas
  <2>2. ps[1] \in Page
    BY <2>1, FileHas
  <2>3. [file |-> ps[1]] # Zero
    BY <2>2, HeapFileAssumption, BufMgrAssumption
  <2>4. QED  BY <1>1, <1>3, <2>3 DEF Entry
<1>4. QED  BY <1>2, <1>3

\* The constructor finds the file or makes one with an empty page, if there is one.
OpenDoes(b, cnt, n, ps, r) ==
    /\ Becomes(b, cnt, r.b, cnt, Values(r.b))
    /\ \E m, qs : /\ FileIs(Values(r.b), m, qs) /\ Grows(n, ps, m, qs)
                  /\ RecsOf(Values(r.b), m, qs) = RecsOf(Values(b), n, ps)
                  /\ r.first = INVALID_PAGE \/ (m > 0 /\ r.first = qs[1])

\* The empty page.
LEMMA EmptyIs ==
    /\ EmptyPage \in HFPage /\ EmptyPage \in Value
    /\ EmptyPage.next = INVALID_PAGE /\ EmptyPage.slots = {}
    /\ LET x == [EmptyPage EXCEPT !.slots = {0}]
       IN  x \in HFPage /\ x \in Value /\ x.next = INVALID_PAGE /\ x.slots = {0}
<1>1. EmptyPage \in HFPage /\ EmptyPage.next = INVALID_PAGE /\ EmptyPage.slots = {}
  BY DEF EmptyPage, HFPage
<1>2. 0 \in Slot
  BY HeapFileAssumption
<1>3. LET x == [EmptyPage EXCEPT !.slots = {0}]
      IN  x \in HFPage /\ x.next = INVALID_PAGE /\ x.slots = {0}
  BY <1>2 DEF EmptyPage, HFPage
<1>4. HFPage \subseteq Value
  BY HeapFileAssumption DEF Value
<1>5. QED  BY <1>1, <1>3, <1>4

\* An existing file is found in the directory; a new one gets an empty first page.
LEMMA OpenIs ==
    ASSUME EnoughFrames, NEW b, NEW s, s \notin Reserved, MgrOK(b, PinOf(s)), NEW n, NEW ps,
           FileIs(Values(b), n, ps)
    PROVE  OpenDoes(b, PinOf(s), n, ps, Construct(b, Entry(PageValue(b, 0))))
<1> DEFINE cnt == PinOf(s)
           e == LookAtHeader(b)
           r == Construct(b, Entry(PageValue(b, 0)))
<1>1. /\ n \in Nat /\ 0 \in Page /\ SpaceMap \in Page /\ INVALID_PAGE \notin Page
      /\ Few(cnt) /\ cnt \in [Page -> Nat] /\ cnt[SpaceMap] = 0
      /\ \A p \in Page : cnt[p] <= cnt[p]
  BY Sizes, FileHas, PinOfIs
<1>2. Entry(PageValue(b, 0)) = IF n = 0 THEN INVALID_PAGE ELSE ps[1]
  <2>1. Values(b)[0] = PageValue(b, 0)
    BY <1>1 DEF Values
  <2>2. QED  BY <2>1, EntryIs
<1>3. Becomes(b, cnt, e, cnt, Values(b))
  BY <1>1, HeaderIs
<1> SUFFICES OpenDoes(b, cnt, n, ps, r)
  OBVIOUS
<1>4. CASE n # 0
  <2>1. ps[1] # INVALID_PAGE
    <3>1. 1 \in 1 .. n
      BY <1>1, <1>4
    <3>2. QED  BY <3>1, FileHas
  <2>2. r = [b |-> e, first |-> ps[1]]
    BY <1>2, <1>4, <2>1 DEF Construct
  <2>3. r.b = e /\ r.first = ps[1]
    BY <2>2
  <2> HIDE DEF r, e, cnt
  <2>4. Values(r.b) = Values(b) /\ Becomes(b, cnt, r.b, cnt, Values(r.b))
    BY <1>3, <2>3 DEF Becomes
  <2>5. Grows(n, ps, n, ps) /\ n > 0
    BY <1>1, <1>4 DEF Grows
  <2>6. QED  BY <2>3, <2>4, <2>5 DEF OpenDoes
<1>5. CASE n = 0
  <2> DEFINE a == newPage(e, 1, {})
             p == a.first
             g == add_file_entry(a.b, p)
             h == unpinPage([g EXCEPT !.pool[a.frame] = EmptyPage], p).b
  <2>1. r = IF a.ok THEN [b |-> h, first |-> p] ELSE [b |-> a.b, first |-> INVALID_PAGE]
    BY <1>2, <1>5 DEF Construct, Made, Create
  <2> HIDE DEF e, r, cnt
  <2>2. MgrOK(e, cnt) /\ Values(e) = Values(b) /\ Stays(b, e, cnt)
    BY <1>3 DEF Becomes
  <2>3. InMap(e) = Values(b)[SpaceMap] /\ SpaceMap \in InMap(e) /\ Reserved \subseteq InMap(e)
    BY <1>1, <2>2, ValuesAre DEF FileIs, Reserved
  <2>4. NewDoes(e, cnt, a)
    BY <1>1, <2>2, <2>3, NewIs
  <2>5. CASE ~a.ok
    <3>1. r.b = a.b /\ r.first = INVALID_PAGE
      BY <2>1, <2>5
    <3> HIDE DEF a
    <3>2. Becomes(e, cnt, r.b, cnt, Values(b))
      BY <2>2, <2>4, <2>5, <3>1 DEF NewDoes
    <3>3. Becomes(b, cnt, r.b, cnt, Values(b))
      BY <1>1, <1>3, <3>2, BecomesOn DEF cnt
    <3>4. Values(r.b) = Values(b) /\ Grows(n, ps, n, ps)
      BY <1>1, <3>3 DEF Becomes, Grows
    <3>5. QED  BY <3>1, <3>3, <3>4 DEF OpenDoes
  <2>6. CASE a.ok
    <3>1. r.b = h /\ r.first = p
      BY <2>1, <2>6
    <3>2. /\ p \in Page \ InMap(e) /\ a.frame \in Frame /\ a.b.pageNo[a.frame] = p
          /\ Becomes(e, cnt, a.b, Bump(cnt, p), Values(a.b))
          /\ Values(a.b)[SpaceMap] = InMap(e) \cup {p}
          /\ \A q \in Page \ {SpaceMap, p} : Values(a.b)[q] = Values(e)[q]
      BY <2>4, <2>6 DEF NewDoes
    <3> HIDE DEF a, p
    <3>3. p \in DataPage /\ p \in Page \ {SpaceMap} /\ p # 0 /\ p \in Page
      BY <2>3, <3>2 DEF DataPage, Reserved
    <3>4. Bump(cnt, p) \in [Page -> Nat] /\ Bump(cnt, p)[p] > 0 /\ Few(Bump(cnt, p))
      BY <1>1, <3>3, BumpDrop, PinOfIs DEF cnt
    <3>5. MgrOK(a.b, Bump(cnt, p)) /\ Stays(e, a.b, cnt)
      BY <3>2 DEF Becomes
    <3>6. Becomes(a.b, Bump(cnt, p), g, Bump(cnt, p), [Values(a.b) EXCEPT ![0] = [file |-> p]])
      BY <3>3, <3>4, <3>5, EntryIsAdded
    <3> HIDE DEF g
    <3>7. g.pageNo[a.frame] = p /\ MgrOK(g, Bump(cnt, p))
      BY <3>2, <3>3, <3>4, <3>6 DEF Becomes, Stays
    <3>8. Becomes(g, cnt, h, cnt, [Values(g) EXCEPT ![p] = EmptyPage]) /\ h.pageNo = g.pageNo
      BY <1>1, <3>2, <3>3, <3>7, EmptyIs, PutIs
    <3> HIDE DEF h
    <3>9. /\ Values(h) = [[Values(a.b) EXCEPT ![0] = [file |-> p]] EXCEPT ![p] = EmptyPage]
          /\ MgrOK(h, cnt)
      BY <3>6, <3>8 DEF Becomes
    <3>10. Stays(b, h, cnt)
      <4>1. ASSUME NEW f \in Frame, b.pageNo[f] \in Page, cnt[b.pageNo[f]] > 0
            PROVE  h.pageNo[f] = b.pageNo[f]
        <5>1. e.pageNo[f] = b.pageNo[f]
          BY <2>2, <4>1 DEF Stays
        <5>2. a.b.pageNo[f] = b.pageNo[f]
          BY <3>5, <4>1, <5>1 DEF Stays
        <5>3. Bump(cnt, p)[b.pageNo[f]] > 0
          BY <1>1, <4>1 DEF Bump
        <5>4. g.pageNo[f] = b.pageNo[f]
          BY <3>6, <4>1, <5>2, <5>3 DEF Becomes, Stays
        <5>5. QED  BY <3>8, <5>4
      <4>2. QED  BY <4>1 DEF Stays
    <3> DEFINE w == Values(h)
    <3>11. w[p] = EmptyPage /\ w[0] = [file |-> p] /\ w[SpaceMap] = Values(b)[SpaceMap] \cup {p}
      <4>1. Values(a.b) \in [Page -> Value] /\ SpaceMap # 0
        BY <3>5, Sizes, ValuesAre
      <4> HIDE DEF w
      <4>2. w = [[Values(a.b) EXCEPT ![0] = [file |-> p]] EXCEPT ![p] = EmptyPage]
        BY <3>9 DEF w
      <4>3. QED  BY <1>1, <2>3, <3>2, <3>3, <4>1, <4>2
    <3>12. p \notin Values(b)[SpaceMap]
      BY <2>3, <3>2
    <3> HIDE DEF w
    <3>13. AddsPage(Values(b), n, ps, p, EmptyPage, w)
      BY <1>1, <1>5, <3>3, <3>11, <3>12, EmptyIs DEF AddsPage
    <3>14. PICK qs : /\ FileIs(w, n + 1, qs) /\ Grows(n, ps, n + 1, qs) /\ qs[n + 1] = p
                     /\ RecsOf(w, n + 1, qs)
                           = RecsOf(Values(b), n, ps) \cup {<<p, x>> : x \in EmptyPage.slots}
      BY <3>13, Extended
    <3>15. {<<p, x>> : x \in EmptyPage.slots} = {}
      BY EmptyIs
    <3>16. qs[1] = p /\ n + 1 > 0
      BY <1>5, <3>14
    <3>17. Becomes(b, cnt, r.b, cnt, Values(r.b)) /\ w = Values(r.b)
      BY <3>1, <3>9, <3>10 DEF Becomes, w
    <3>18. QED  BY <3>1, <3>14, <3>15, <3>16, <3>17 DEF OpenDoes
  <2>7. QED  BY <2>4, <2>5, <2>6 DEF NewDoes
<1>6. QED  BY <1>4, <1>5

\* The pages there are hold as many records as are inserted.
PagesSuffice == MaxRecs <= (num_pages - 2) * Cardinality(Slot)

\* With fewer records there is a page that is not in use, or one that is not full.
LEMMA NotFull ==
    ASSUME PagesSuffice, NEW v, NEW n, NEW ps, FileIs(v, n, ps),
           Cardinality(RecsOf(v, n, ps)) < MaxRecs,
           \A i \in 1 .. n : v[ps[i]].slots = Slot
    PROVE  v[SpaceMap] # Page
<1> SUFFICES ASSUME v[SpaceMap] = Page PROVE FALSE
  OBVIOUS
<1>1. DataPage = {ps[i] : i \in 1 .. n}
  <2>1. \A i \in 1 .. n : ps[i] \in DataPage
    BY FileHas
  <2>2. DataPage \subseteq {ps[i] : i \in 1 .. n}
    BY DEF FileIs, DataPage
  <2>3. QED  BY <2>1, <2>2
<1>2. RecsOf(v, n, ps) = DataPage \X Slot
  <2>1. ASSUME NEW r PROVE r \in RecsOf(v, n, ps) <=> r \in DataPage \X Slot
    <3>1. r \in RecsOf(v, n, ps) <=> \E i \in 1 .. n : \E s \in v[ps[i]].slots : r = <<ps[i], s>>
      BY RecsAre
    <3>2. QED  BY <1>1, <3>1
  <2>2. QED  BY <2>1
<1>3. IsFiniteSet(DataPage) /\ Cardinality(DataPage) = num_pages - 2
  <2>1. num_pages \in Nat /\ num_pages >= 2 /\ DataPage = 2 .. num_pages - 1
    BY Sizes DEF DataPage, Reserved, SpaceMap
  <2>2. /\ IsFiniteSet(2 .. num_pages - 1)
        /\ Cardinality(2 .. num_pages - 1) = IF 2 > num_pages - 1 THEN 0 ELSE num_pages - 1 - 2 + 1
    BY <2>1, FS_Interval
  <2>3. (IF 2 > num_pages - 1 THEN 0 ELSE num_pages - 1 - 2 + 1) = num_pages - 2
    BY <2>1
  <2>4. QED  BY <2>1, <2>2, <2>3
<1>4. IsFiniteSet(Slot)
  <2>1. IsFiniteSet(0 .. Max(Slot))
    BY HeapFileAssumption, FS_Interval
  <2>2. QED  BY <2>1, HeapFileAssumption
<1>5. Cardinality(RecsOf(v, n, ps)) = (num_pages - 2) * Cardinality(Slot)
  BY <1>2, <1>3, <1>4, FS_Product
<1>6. (num_pages - 2) * Cardinality(Slot) \in Nat
  BY <1>3, <1>4, <1>5, FS_Product, FS_CardinalityType, <1>2
<1>7. QED  BY <1>5, <1>6, HeapFileAssumption DEF PagesSuffice

\* A record is in the file, on one of its pages or on a new last one.
InsertDoes(b, cnt, n, ps, r) ==
    /\ r.ok = TRUE /\ Becomes(b, cnt, r.b, cnt, Values(r.b))
    /\ \E m, qs : /\ FileIs(Values(r.b), m, qs) /\ Grows(n, ps, m, qs)
                  /\ RecsOf(Values(r.b), m, qs) = RecsOf(Values(b), n, ps) \cup {r.rid}

\* A slot of a page that is not full.
LEMMA InsertFound ==
    ASSUME NEW b, NEW cnt, cnt \in [Page -> Nat], MgrOK(b, cnt), NEW n, NEW ps,
           FileIs(Values(b), n, ps), NEW k \in 1 .. n, NEW w,
           Found(w, b, cnt, n, ps, WithRoom(b), k)
    PROVE  InsertDoes(b, cnt, n, ps, Insert(w))
<1> DEFINE r == Insert(w)
           v == Values(b)
           p == ps[k]
           S == v[p].slots
           s == Min(Slot \ w.b.pool[w.frame].slots)
           x == [v[p] EXCEPT !.slots = S \cup {s}]
           e == unpinPage([w.b EXCEPT !.pool[w.frame] = x], p).b
<1>1. /\ w.st = "found" /\ p \in WithRoom(b) /\ w.at = p
      /\ w.frame \in Frame /\ w.b.pageNo[w.frame] = p /\ w.b.pool[w.frame] = v[p]
      /\ MgrOK(w.b, Bump(cnt, p)) /\ Stays(b, w.b, cnt) /\ Values(w.b) = v
  BY DEF Found, Becomes
<1>2. /\ n \in Nat /\ p \in Page \ {SpaceMap} /\ p \in Page /\ v[p] \in HFPage /\ S \subseteq Slot
      /\ v[p] = PageValue(b, p) /\ v \in [Page -> Value]
  BY FileHas, ValuesAre
<1>3. s \in Slot /\ s \notin S
  <2>1. S # Slot
    BY <1>1, <1>2 DEF WithRoom, AsHFPage
  <2>2. Slot \ S \subseteq Nat /\ Slot \ S # {}
    BY <1>2, <2>1, SlotIs
  <2>3. QED  BY <1>1, <2>2, Least
<1>4. [w.b EXCEPT !.pool[w.frame].slots = @ \cup {s}] = [w.b EXCEPT !.pool[w.frame] = x]
  BY <1>1
<1>5. r = [b |-> e, ok |-> TRUE, rid |-> <<p, s>>]
  BY <1>1, <1>4 DEF Insert, InsertAt, Inserted
<1>6. r.b = e /\ r.ok = TRUE /\ r.rid = <<p, s>>
  BY <1>5
<1> HIDE DEF r, s
<1>7. /\ x \in Value /\ FileIs(Reslot(v, p, S \cup {s}), n, ps)
      /\ \A i \in 1 .. n : Reslot(v, p, S \cup {s})[ps[i]].slots = IF i = k THEN S \cup {s} ELSE v[ps[i]].slots
  <2>1. S \cup {s} \in SUBSET Slot /\ S \cup {s} # {}
    BY <1>2, <1>3
  <2> DEFINE T == S \cup {s}
  <2> HIDE DEF T
  <2>2. ReslotOK(v, n, ps, k, T)
    BY <1>2, <2>1, Reslotted DEF T
  <2>3. QED  BY <2>2 DEF ReslotOK, T
<1>8. Becomes(w.b, cnt, e, cnt, Reslot(v, p, S \cup {s})) /\ e.pageNo = w.b.pageNo
  <2>1. Reslot(v, p, S \cup {s}) = [v EXCEPT ![p] = x]
    BY DEF Reslot
  <2>2. x \in Value
    BY <1>7
  <2> HIDE DEF x, v, p, S
  <2>3. Becomes(w.b, cnt, e, cnt, [Values(w.b) EXCEPT ![p] = x]) /\ e.pageNo = w.b.pageNo
    <3>1. /\ w.frame \in Frame /\ w.b.pageNo[w.frame] = p /\ MgrOK(w.b, Bump(cnt, p))
          /\ p \in Page \ {SpaceMap}
      BY <1>1, <1>2
    <3> DEFINE g == w.b
               f == w.frame
    <3>2. e = unpinPage([g EXCEPT !.pool[f] = x], p).b
      OBVIOUS
    <3> HIDE DEF e, g, f
    <3>3. /\ f \in Frame /\ g.pageNo[f] = p /\ MgrOK(g, Bump(cnt, p))
      BY <3>1 DEF f, g
    <3>4. Becomes(g, cnt, e, cnt, [Values(g) EXCEPT ![p] = x]) /\ e.pageNo = g.pageNo
      BY <2>2, <3>1, <3>2, <3>3, PutIs
    <3>5. QED  BY <3>4 DEF g
  <2> HIDE DEF e
  <2>4. QED  BY <1>1, <2>1, <2>3
<1> HIDE DEF e, x
<1>9. Becomes(b, cnt, r.b, cnt, Values(r.b)) /\ Values(r.b) = Reslot(v, p, S \cup {s})
  BY <1>1, <1>6, <1>8 DEF Becomes, Stays
<1> DEFINE u == Reslot(v, p, S \cup {s})
<1>10. RecsOf(u, n, ps) = RecsOf(v, n, ps) \cup {<<p, s>>}
  <2> HIDE DEF u
  <2>1. ASSUME NEW q PROVE q \in RecsOf(u, n, ps) <=> q \in RecsOf(v, n, ps) \cup {<<p, s>>}
    <3>1. q \in RecsOf(u, n, ps) <=> \E i \in 1 .. n : \E t \in u[ps[i]].slots : q = <<ps[i], t>>
      BY RecsAre
    <3>2. q \in RecsOf(v, n, ps) <=> \E i \in 1 .. n : \E t \in v[ps[i]].slots : q = <<ps[i], t>>
      BY RecsAre
    <3>3. \A i \in 1 .. n : u[ps[i]].slots = IF i = k THEN S \cup {s} ELSE v[ps[i]].slots
      BY <1>7 DEF u
    <3>4. k \in 1 .. n /\ S = v[ps[k]].slots /\ p = ps[k]
      OBVIOUS
    <3> HIDE DEF v, S, p
    <3>5. QED  BY <3>1, <3>2, <3>3, <3>4
  <2>2. QED  BY <2>1
<1> HIDE DEF u
<1>11. Grows(n, ps, n, ps)
  BY <1>2 DEF Grows
<1>12. FileIs(Values(r.b), n, ps) /\ Values(r.b) = u
  BY <1>7, <1>9 DEF u
<1>13. InsertDoes(b, cnt, n, ps, r)
  BY <1>6, <1>9, <1>10, <1>11, <1>12 DEF InsertDoes
<1>14. QED  BY <1>13 DEF r

\* Two pins, one after the other.
LEMMA BumpTwice ==
    ASSUME NEW cnt, cnt \in [Page -> Nat], NEW p \in Page, NEW q \in Page
    PROVE  /\ Bump(Bump(cnt, p), q) = Bump(Bump(cnt, q), p)
           /\ Bump(cnt, p) \in [Page -> Nat] /\ Bump(cnt, p)[p] > 0
           /\ \A x \in Page : cnt[x] <= Bump(cnt, p)[x] /\ (x # p => Bump(cnt, p)[x] = cnt[x])
<1>1. /\ Bump(cnt, p) \in [Page -> Nat] /\ Bump(cnt, q) \in [Page -> Nat]
      /\ \A x \in Page : /\ Bump(cnt, p)[x] = (IF x = p THEN cnt[p] + 1 ELSE cnt[x])
                         /\ Bump(cnt, q)[x] = (IF x = q THEN cnt[q] + 1 ELSE cnt[x])
  BY DEF Bump
<1>2. \A x \in Page : cnt[x] \in Nat
  OBVIOUS
<1>3. Bump(Bump(cnt, p), q) = Bump(Bump(cnt, q), p)
  <2> DEFINE a == Bump(Bump(cnt, p), q)
             c == Bump(Bump(cnt, q), p)
  <2>1. ASSUME NEW x \in Page PROVE a[x] = c[x]
    <3>1. /\ a[x] = IF x = q THEN Bump(cnt, p)[q] + 1 ELSE Bump(cnt, p)[x]
          /\ c[x] = IF x = p THEN Bump(cnt, q)[p] + 1 ELSE Bump(cnt, q)[x]
      BY <1>1 DEF Bump
    <3> HIDE DEF a, c
    <3>2. QED  BY <1>1, <1>2, <3>1
  <2>2. a = [x \in Page |-> a[x]] /\ c = [x \in Page |-> c[x]]
    BY <1>1 DEF Bump
  <2> HIDE DEF a, c
  <2>3. a = c
    BY <2>1, <2>2
  <2>4. QED  BY <2>3 DEF a, c
<1>4. QED  BY <1>1, <1>2, <1>3

\* A new page after the last one.
LEMMA InsertEnd ==
    ASSUME EnoughFrames, PagesSuffice, NEW b, NEW s, s \notin Reserved, MgrOK(b, PinOf(s)),
           NEW n, NEW ps, FileIs(Values(b), n, ps), n > 0,
           Cardinality(RecsOf(Values(b), n, ps)) < MaxRecs,
           NEW w, Ended(w, b, PinOf(s), n, ps, WithRoom(b))
    PROVE  InsertDoes(b, PinOf(s), n, ps, Insert(w))
<1> DEFINE cnt == PinOf(s)
           v == Values(b)
           last == ps[n]
           c == Bump(cnt, last)
           r == pinPage(w.b, last, FALSE, {})
           a == newPage(r.b, 1, {})
           p == a.first
           x == [EmptyPage EXCEPT !.slots = {0}]
           y == [v[last] EXCEPT !.next = p]
           d == [a.b EXCEPT !.pool[a.frame] = x]
           g == [d EXCEPT !.pool[r.frame] = y]
           h == unpinPage(g, last).b
           e == unpinPage(h, p).b
<1>1. /\ w.st = "end" /\ w.last = last /\ MgrOK(w.b, cnt) /\ Stays(b, w.b, cnt) /\ Values(w.b) = v
      /\ \A i \in 1 .. n : ps[i] \notin WithRoom(b)
  BY FileHas DEF Ended, Becomes, LastOf, PassedAll
<1>2. /\ n \in Nat /\ n \in 1 .. n /\ last \in Page \ {SpaceMap} /\ last \in Page /\ v[last] \in HFPage
      /\ last \in v[SpaceMap] /\ last # 0 /\ last \in DataPage /\ SpaceMap \in Page /\ 0 \in Page
      /\ SpaceMap # 0 /\ SpaceMap \in Reserved /\ Reserved \subseteq v[SpaceMap]
  <2>1. n \in Nat /\ n \in 1 .. n
    BY FileHas
  <2>2. last \in v[SpaceMap] /\ Reserved \subseteq v[SpaceMap]
    BY <2>1 DEF FileIs
  <2>3. QED  BY <2>1, <2>2, FileHas, Sizes DEF Reserved
<1>3. /\ Few(cnt) /\ cnt \in [Page -> Nat] /\ Few(c) /\ c \in [Page -> Nat] /\ c[last] > 0
      /\ c[SpaceMap] = 0
  <2>1. Few(cnt) /\ cnt \in [Page -> Nat] /\ Few(c) /\ cnt[SpaceMap] = 0
    BY <1>2, PinOfIs
  <2> HIDE DEF cnt
  <2>2. QED  BY <1>2, <2>1, BumpTwice
<1>4. /\ r.ok = TRUE /\ r.frame \in Frame /\ r.b.pageNo[r.frame] = last
      /\ MgrOK(r.b, c) /\ Stays(w.b, r.b, cnt) /\ Values(r.b) = v
  <2>1. /\ r.ok = TRUE /\ r.frame \in Frame /\ r.b.pageNo[r.frame] = last
        /\ Becomes(w.b, cnt, r.b, Bump(cnt, last), Values(w.b))
    BY <1>1, <1>2, <1>3, PinIs
  <2> HIDE DEF r
  <2>2. QED  BY <1>1, <2>1 DEF Becomes
<1>5. NewDoes(r.b, c, a) /\ InMap(r.b) = v[SpaceMap]
  <2> HIDE DEF r, c
  <2>1. InMap(r.b) = v[SpaceMap] /\ SpaceMap \in InMap(r.b)
    BY <1>2, <1>4, ValuesAre
  <2>2. QED  BY <1>3, <1>4, <2>1, NewIs
<1>6. a.ok
  <2>1. ASSUME NEW i \in 1 .. n PROVE v[ps[i]].slots = Slot
    <3>1. ps[i] \in DataPage /\ ps[i] \in Page /\ v[ps[i]] \in HFPage
      BY FileHas
    <3>2. v[ps[i]] = PageValue(b, ps[i])
      BY <3>1 DEF Values
    <3> HIDE DEF v
    <3>3. QED  BY <1>1, <3>1, <3>2 DEF WithRoom, AsHFPage, DataPage
  <2>2. v[SpaceMap] # Page
    BY <2>1, NotFull
  <2> HIDE DEF a, v
  <2>3. QED  BY <1>5, <2>2 DEF NewDoes
<1>7. /\ p \in Page \ v[SpaceMap] /\ a.frame \in Frame /\ a.b.pageNo[a.frame] = p
      /\ MgrOK(a.b, Bump(c, p)) /\ Stays(r.b, a.b, c)
      /\ Values(a.b)[SpaceMap] = v[SpaceMap] \cup {p}
      /\ \A q \in Page \ {SpaceMap, p} : Values(a.b)[q] = v[q]
  <2> HIDE DEF a, v, r, c
  <2>1. QED  BY <1>4, <1>5, <1>6 DEF NewDoes, Becomes, p
<1>8. p # last /\ p \in Page \ {SpaceMap} /\ p \in Page /\ p # 0 /\ p \in DataPage
  <2> HIDE DEF p, v, last
  <2>1. QED  BY <1>2, <1>7, Sizes DEF DataPage, Reserved
<1>9. Insert(w) = [b |-> e, ok |-> TRUE, rid |-> <<p, 0>>]
  <2>1. Insert(w) = Append(r, last)
    BY <1>1 DEF Insert
  <2>2. Append(r, last) = Link(r, last, a)
    BY <1>4 DEF Append
  <2>3. a.b.pool[r.frame] = v[last] /\ r.frame # a.frame
    <3> HIDE DEF a, v, r, c, last, p
    <3>1. a.b.pageNo[r.frame] = last
      BY <1>2, <1>3, <1>4, <1>7 DEF Stays
    <3>2. a.b.pool[r.frame] = Values(a.b)[last]
      BY <1>2, <1>4, <1>7, <3>1, ValuesAre
    <3>3. Values(a.b)[last] = v[last]
      BY <1>2, <1>7, <1>8
    <3>4. QED  BY <1>7, <1>8, <3>1, <3>2, <3>3
  <2>4. [a.b EXCEPT !.pool[a.frame] = [EmptyPage EXCEPT !.slots = {0}], !.pool[r.frame].next = p] = g
    <3>1. d.pool[r.frame] = a.b.pool[r.frame]
      <4>1. a.b.pool \in [Frame -> Value] /\ DOMAIN a.b = MgrFields
        BY <1>7 DEF MgrOK
      <4> HIDE DEF a, x, r
      <4>2. QED  BY <1>4, <1>7, <2>3, <4>1 DEF MgrFields
    <3>2. [d EXCEPT !.pool[r.frame].next = p] = [d EXCEPT !.pool[r.frame] = [d.pool[r.frame] EXCEPT !.next = p]]
      OBVIOUS
    <3>3. [d EXCEPT !.pool[r.frame].next = p] = g
      <4> HIDE DEF d, r, p, v, last
      <4>1. QED  BY <2>3, <3>1, <3>2
    <3>4. QED  BY <3>3
  <2>5. Link(r, last, a) = Inserted(e, p, 0)
    <3> HIDE DEF a, r, last
    <3>1. QED  BY <1>6, <2>4 DEF Link
  <2>6. Inserted(e, p, 0) = [b |-> e, ok |-> TRUE, rid |-> <<p, 0>>]
    BY DEF Inserted
  <2> HIDE DEF e, p, a, r, last
  <2>7. QED  BY <2>1, <2>2, <2>5, <2>6
<1> HIDE DEF cnt, v, last, c, r, a, p
<1>10. a.b.pageNo[r.frame] = last
  BY <1>2, <1>3, <1>4, <1>7 DEF Stays
<1>11. x \in Value /\ x \in HFPage /\ x.next = INVALID_PAGE /\ x.slots = {0}
  BY EmptyIs
<1> HIDE DEF x
<1>12. y \in Value
  <2>1. y \in HFPage
    BY <1>2, <1>8 DEF HFPage
  <2>2. HFPage \subseteq Value
    BY HeapFileAssumption DEF Value
  <2>3. QED  BY <2>1, <2>2
<1> HIDE DEF y
<1>13. MgrOK(d, Bump(c, p)) /\ Values(d) = [Values(a.b) EXCEPT ![p] = x] /\ d.pageNo = a.b.pageNo
  <2> DEFINE u == a.b
             f == a.frame
  <2>1. f \in Frame /\ u.pageNo[f] = p /\ MgrOK(u, Bump(c, p)) /\ d = [u EXCEPT !.pool[f] = x]
    BY <1>7
  <2> HIDE DEF d, u, f
  <2>2. MgrOK(d, Bump(c, p)) /\ Values(d) = [Values(u) EXCEPT ![p] = x] /\ d.pageNo = u.pageNo
    BY <1>8, <1>11, <2>1, WriteIs
  <2>3. QED  BY <2>2 DEF u
<1> HIDE DEF d
<1>14. MgrOK(g, Bump(c, p)) /\ Values(g) = [Values(d) EXCEPT ![last] = y] /\ g.pageNo = d.pageNo
  <2> DEFINE f == r.frame
  <2>1. f \in Frame /\ d.pageNo[f] = last /\ g = [d EXCEPT !.pool[f] = y]
    BY <1>4, <1>10, <1>13
  <2> HIDE DEF g, f
  <2>2. QED  BY <1>2, <1>12, <1>13, <2>1, WriteIs
<1> HIDE DEF g
<1>15. /\ Bump(c, p) = Bump(Bump(cnt, p), last) /\ Bump(cnt, p) \in [Page -> Nat]
       /\ \A q \in Page : cnt[q] <= c[q]
  BY <1>2, <1>3, <1>8, BumpTwice DEF c
<1>16. MgrOK(h, Bump(cnt, p)) /\ Values(h) = Values(g) /\ h.pageNo = g.pageNo
  BY <1>2, <1>14, <1>15, UnpinIs
<1> HIDE DEF h
<1>17. MgrOK(e, cnt) /\ Values(e) = Values(h) /\ e.pageNo = h.pageNo
  BY <1>3, <1>8, <1>16, UnpinIs
<1> HIDE DEF e
<1>18. Stays(b, e, cnt)
  <2>1. ASSUME NEW f \in Frame, b.pageNo[f] \in Page, cnt[b.pageNo[f]] > 0
        PROVE  e.pageNo[f] = b.pageNo[f]
    <3>1. w.b.pageNo[f] = b.pageNo[f]
      BY <1>1, <2>1 DEF Stays
    <3>2. r.b.pageNo[f] = b.pageNo[f]
      BY <1>4, <2>1, <3>1 DEF Stays
    <3>3. c[b.pageNo[f]] > 0
      BY <1>3, <1>15, <2>1
    <3>4. a.b.pageNo[f] = b.pageNo[f]
      BY <1>7, <2>1, <3>2, <3>3 DEF Stays
    <3>5. QED  BY <1>13, <1>14, <1>16, <1>17, <3>4
  <2>2. QED  BY <2>1 DEF Stays
<1>19. /\ Values(e)[p] = x /\ Values(e)[last] = y
       /\ \A q \in Page \ {p, last} : Values(e)[q] = Values(a.b)[q]
  <2>1. Values(a.b) \in [Page -> Value]
    BY <1>7, ValuesAre
  <2>2. Values(e) = [[Values(a.b) EXCEPT ![p] = x] EXCEPT ![last] = y]
    BY <1>13, <1>14, <1>16, <1>17
  <2>3. QED  BY <1>2, <1>8, <2>1, <2>2
<1>20. AddsPage(v, n, ps, p, x, Values(e))
  <2>1. ASSUME NEW i \in 1 .. n, i # n PROVE Values(e)[ps[i]] = v[ps[i]]
    <3>1. ps[i] \in Page /\ ps[i] # SpaceMap /\ ps[i] # last
      BY <1>2, <2>1, FileHas DEF last, v
    <3>2. ps[i] # p
      <4>1. ps[i] \in v[SpaceMap]
        BY DEF FileIs, v
      <4>2. QED  BY <1>7, <4>1
    <3>3. QED  BY <1>7, <1>19, <3>1, <3>2
  <2>2. Values(e)[0] = v[0] /\ Values(e)[SpaceMap] = v[SpaceMap] \cup {p}
    BY <1>2, <1>7, <1>8, <1>19
  <2>3. Values(e)[ps[n]] = [v[ps[n]] EXCEPT !.next = p]
    BY <1>19 DEF y, last
  <2>4. x.slots # {} /\ n # 0
    BY <1>2, <1>11
  <2>5. QED  BY <1>7, <1>8, <1>11, <1>19, <2>1, <2>2, <2>3, <2>4 DEF AddsPage
<1>21. PICK qs : /\ FileIs(Values(e), n + 1, qs) /\ Grows(n, ps, n + 1, qs)
                 /\ RecsOf(Values(e), n + 1, qs) = RecsOf(v, n, ps) \cup {<<p, t>> : t \in x.slots}
  BY <1>20, Extended DEF v
<1>22. {<<p, t>> : t \in x.slots} = {<<p, 0>>}
  BY <1>11
<1>23. Becomes(b, cnt, e, cnt, Values(e))
  BY <1>17, <1>18 DEF Becomes
<1> DEFINE i == Insert(w)
<1>24. i.b = e /\ i.ok = TRUE /\ i.rid = <<p, 0>>
  BY <1>9
<1> HIDE DEF i
<1>25. InsertDoes(b, cnt, n, ps, i)
  BY <1>21, <1>22, <1>23, <1>24 DEF InsertDoes, v
<1>26. QED  BY <1>25 DEF i, cnt

\* insertRecord succeeds as long as the database has room.
LEMMA InsertIs ==
    ASSUME EnoughFrames, PagesSuffice, NEW b, NEW s, s \notin Reserved, MgrOK(b, PinOf(s)),
           NEW n, NEW ps, FileIs(Values(b), n, ps), n > 0,
           Cardinality(RecsOf(Values(b), n, ps)) < MaxRecs
    PROVE  InsertDoes(b, PinOf(s), n, ps, insertRecord(b, ps[1]))
<1> DEFINE w == Walk(b, ps[1], WithRoom(b))
<1>1. PinOf(s) \in [Page -> Nat] /\ Few(PinOf(s))
  BY Sizes, PinOfIs
<1>2. insertRecord(b, ps[1]) = Insert(w)
  BY DEF insertRecord
<1>3. \/ Ended(w, b, PinOf(s), n, ps, WithRoom(b))
      \/ \E k \in 1 .. n : Found(w, b, PinOf(s), n, ps, WithRoom(b), k)
  BY <1>1, WalkIs
<1> HIDE DEF w
<1>4. InsertDoes(b, PinOf(s), n, ps, Insert(w))
  BY <1>1, <1>3, InsertFound, InsertEnd
<1>5. QED  BY <1>2, <1>4

-----------------------------------------------------------------------------
(***************************************************************************)
(* Deleting a record.                                                      *)
(***************************************************************************)
\* The k-th page has one record less, or had no other and is cut out.
DeleteDoes(b, cnt, n, ps, k, rid, e) ==
    /\ Becomes(b, cnt, e, cnt, Values(e))
    /\ \/ /\ FileIs(Values(e), n, ps)
          /\ RecsOf(Values(e), n, ps) = RecsOf(Values(b), n, ps) \ {rid}
       \/ /\ k \in 2 .. n /\ FileIs(Values(e), n - 1, CutAt(n, ps, k))
          /\ RecsOf(Values(e), n - 1, CutAt(n, ps, k)) = RecsOf(Values(b), n, ps) \ {rid}
          /\ \A r \in RecsOf(Values(b), n, ps) \ {rid} : r[1] # ps[k]

\* The page that is empty now is freed and the page before gets its next page.
LEMMA CutOut ==
    ASSUME EnoughFrames, NEW b, NEW s, s \notin Reserved, MgrOK(b, PinOf(s)), NEW n, NEW ps,
           NEW v \in [Page -> Value], FileIs(v, n, ps), NEW k \in 2 .. n, ps[k] # s,
           \A q \in Page \ {ps[k]} : Values(b)[q] = v[q]
    PROVE  LET e == Relink(freePage(b, ps[k], {}), ps[k - 1], v[ps[k]].next)
           IN  Becomes(b, PinOf(s), e, PinOf(s), Values(e)) /\ CutsPage(v, n, ps, k, Values(e))
<1> DEFINE cnt == PinOf(s)
           p == ps[k]
           last == ps[k - 1]
           next == v[p].next
           f == freePage(b, p, {})
           r == pinPage(f.b, last, FALSE, {})
           y == [v[last] EXCEPT !.next = next]
           e == Relink(f, last, next)
<1>1. /\ n \in Nat /\ k \in 1 .. n /\ k - 1 \in 1 .. n /\ k # k - 1
      /\ p \in Page \ {SpaceMap} /\ p \in Page /\ last \in Page \ {SpaceMap} /\ last \in Page
      /\ p # last /\ p # 0 /\ last # 0 /\ SpaceMap \in Page /\ 0 \in Page /\ SpaceMap # 0
      /\ v[last] \in HFPage /\ v[p] \in HFPage
  <2>1. n \in Nat /\ k \in 1 .. n /\ k - 1 \in 1 .. n /\ k # k - 1
    BY FileHas
  <2>2. p # last
    BY <2>1, FileHas
  <2>3. QED  BY <2>1, <2>2, FileHas, Sizes
<1>2. Few(cnt) /\ cnt \in [Page -> Nat] /\ cnt[p] = 0
  BY <1>1, PinOfIs
<1>3. [cnt EXCEPT ![p] = 0] = cnt
  <2> HIDE DEF cnt
  <2>1. QED  BY <1>1, <1>2
<1> SUFFICES Becomes(b, cnt, e, cnt, Values(e)) /\ CutsPage(v, n, ps, k, Values(e))
  OBVIOUS
<1>4. /\ f.ok = TRUE /\ MgrOK(f.b, cnt) /\ Stays(b, f.b, cnt)
      /\ Values(f.b)[SpaceMap] = InMap(b) \ {p}
      /\ \A q \in Page \ {SpaceMap, p} : Values(f.b)[q] = Values(b)[q]
  <2>1. FreeDoes(b, cnt, p, f)
    <3> HIDE DEF p, cnt
    <3>1. cnt[p] <= 1
      BY <1>2
    <3>2. Few([cnt EXCEPT ![p] = 0])
      BY ONLY <1>2, <1>3
    <3>3. QED  BY <1>1, <1>2, <3>1, <3>2, FreeIs DEF cnt
  <2> HIDE DEF f, cnt, p
  <2>2. QED  BY <1>3, <2>1 DEF FreeDoes
<1>5. InMap(b) = v[SpaceMap]
  BY <1>1, ValuesAre
<1>6. e = unpinPage([r.b EXCEPT !.pool[r.frame] = [AsHFPage(@) EXCEPT !.next = next]], last).b
  <2> HIDE DEF f
  <2>1. QED  BY <1>4 DEF Relink, Unlink
<1> HIDE DEF f, cnt, e, p, last, next
<1>7. /\ r.frame \in Frame /\ r.b.pageNo[r.frame] = last /\ r.b.pool[r.frame] = Values(f.b)[last]
      /\ MgrOK(r.b, Bump(cnt, last)) /\ Stays(f.b, r.b, cnt) /\ Values(r.b) = Values(f.b)
  <2>1. /\ r.frame \in Frame /\ r.b.pageNo[r.frame] = last /\ r.b.pool[r.frame] = Values(f.b)[last]
        /\ Becomes(f.b, cnt, r.b, Bump(cnt, last), Values(f.b))
    <3>1. MgrOK(f.b, cnt) /\ Few(cnt) /\ last \in Page
      BY <1>1, <1>2, <1>4
    <3> DEFINE g == f.b
               q == pinPage(g, last, FALSE, {})
    <3>2. MgrOK(g, cnt) /\ r = q
      BY <3>1
    <3> HIDE DEF g, r
    <3>3. /\ q.frame \in Frame /\ q.b.pageNo[q.frame] = last /\ q.b.pool[q.frame] = Values(g)[last]
          /\ Becomes(g, cnt, q.b, Bump(cnt, last), Values(g))
      BY <3>1, <3>2, PinIs
    <3> HIDE DEF q
    <3>4. QED  BY <3>2, <3>3 DEF g
  <2> HIDE DEF r
  <2>2. QED  BY <2>1 DEF Becomes
<1> HIDE DEF r
<1>8. r.b.pool[r.frame] = v[last] /\ AsHFPage(v[last]) = v[last]
  BY <1>1, <1>4, <1>7 DEF AsHFPage, p
<1>9. [r.b EXCEPT !.pool[r.frame] = [AsHFPage(@) EXCEPT !.next = next]] = [r.b EXCEPT !.pool[r.frame] = y]
  BY <1>8
<1>10. y \in Value
  <2>1. next \in Page \cup {INVALID_PAGE}
    BY <1>1 DEF HFPage, next
  <2>2. y \in HFPage
    BY <1>1, <2>1 DEF HFPage
  <2>3. HFPage \subseteq Value
    BY HeapFileAssumption DEF Value
  <2>4. QED  BY <2>2, <2>3
<1> HIDE DEF y
<1>11. Becomes(r.b, cnt, e, cnt, [Values(r.b) EXCEPT ![last] = y]) /\ e.pageNo = r.b.pageNo
  <2> DEFINE g == r.b
             h == r.frame
  <2>1. e = unpinPage([g EXCEPT !.pool[h] = y], last).b
    BY <1>6, <1>9
  <2>2. h \in Frame /\ g.pageNo[h] = last /\ MgrOK(g, Bump(cnt, last))
    BY <1>7
  <2> HIDE DEF g, h
  <2>3. Becomes(g, cnt, e, cnt, [Values(g) EXCEPT ![last] = y]) /\ e.pageNo = g.pageNo
    BY <1>1, <1>2, <1>10, <2>1, <2>2, PutIs
  <2>4. QED  BY <2>3 DEF g
<1>12. MgrOK(e, cnt) /\ Values(e) = [Values(f.b) EXCEPT ![last] = y] /\ Stays(b, e, cnt)
  <2>1. MgrOK(e, cnt) /\ Values(e) = [Values(f.b) EXCEPT ![last] = y]
    BY <1>7, <1>11 DEF Becomes
  <2>2. ASSUME NEW i \in Frame, b.pageNo[i] \in Page, cnt[b.pageNo[i]] > 0
        PROVE  e.pageNo[i] = b.pageNo[i]
    BY <1>4, <1>7, <1>11, <2>2 DEF Stays
  <2>3. QED  BY <2>1, <2>2 DEF Stays
<1>13. Values(f.b) \in [Page -> Value]
  BY <1>4, ValuesAre
<1>14. Values(e)[last] = y /\ \A q \in Page : q # last => Values(e)[q] = Values(f.b)[q]
  BY <1>1, <1>12, <1>13
<1>15. ASSUME NEW i \in 1 .. n, i # k, i # k - 1 PROVE Values(e)[ps[i]] = v[ps[i]]
  <2>1. ps[i] \in Page /\ ps[i] # SpaceMap /\ ps[i] # p /\ ps[i] # last
    BY <1>1, <1>15, FileHas DEF p, last
  <2>2. QED  BY <1>4, <1>14, <2>1 DEF p
<1>16. Values(e)[0] = v[0] /\ Values(e)[SpaceMap] = v[SpaceMap] \ {p}
  <2>1. 0 \in Page \ {ps[k]}
    BY <1>1 DEF p
  <2>2. QED  BY <1>1, <1>4, <1>5, <1>14, <2>1
<1>17. CutsPage(v, n, ps, k, Values(e))
  BY <1>14, <1>15, <1>16 DEF CutsPage, y, p, last, next
<1>18. QED  BY <1>12, <1>17 DEF Becomes

\* deleteRecord, when no page that something depends on becomes empty.
LEMMA DeleteIs ==
    ASSUME EnoughFrames, NEW b, NEW s, s \notin Reserved, MgrOK(b, PinOf(s)), NEW n, NEW ps,
           FileIs(Values(b), n, ps), NEW k \in 1 .. n, NEW t \in Values(b)[ps[k]].slots,
           Values(b)[ps[k]].slots = {t} => k # 1 /\ ps[k] # s
    PROVE  DeleteDoes(b, PinOf(s), n, ps, k, <<ps[k], t>>, deleteRecord(b, ps[1], <<ps[k], t>>))
<1> DEFINE cnt == PinOf(s)
           v == Values(b)
           p == ps[k]
           stops == {p}
           w == Walk(b, ps[1], stops)
           e == deleteRecord(b, ps[1], <<p, t>>)
           T == v[p].slots \ {t}
           c == [v[p] EXCEPT !.slots = T]
           d == [w.b EXCEPT !.pool[w.frame] = c]
           h == unpinPage(d, p).b
<1>1. /\ n \in Nat /\ n > 0 /\ p \in Page \ {SpaceMap} /\ p \in Page /\ v[p] \in HFPage
      /\ v[p].slots \subseteq Slot /\ v \in [Page -> Value]
      /\ Few(cnt) /\ cnt \in [Page -> Nat]
  <2>1. n \in Nat /\ n > 0
    BY FileHas
  <2>2. p \in Page \ {SpaceMap} /\ p \in Page /\ v[p] \in HFPage /\ v[p].slots \subseteq Slot
    BY FileHas
  <2>3. QED  BY <2>1, <2>2, ValuesAre, PinOfIs
<1> SUFFICES DeleteDoes(b, cnt, n, ps, k, <<p, t>>, e)
  OBVIOUS
<1>2. e = Remove(w, t)
  BY DEF deleteRecord
<1>3. Found(w, b, cnt, n, ps, stops, k)
  <2>1. \/ Ended(w, b, cnt, n, ps, stops)
        \/ \E i \in 1 .. n : Found(w, b, cnt, n, ps, stops, i)
    <3> HIDE DEF stops, cnt
    <3>1. QED  BY <1>1, WalkIs DEF cnt
  <2> HIDE DEF w
  <2>2. ~Ended(w, b, cnt, n, ps, stops)
    BY DEF Ended, PassedAll
  <2>3. PICK i \in 1 .. n : Found(w, b, cnt, n, ps, stops, i)
    BY <2>1, <2>2
  <2>4. ps[i] = ps[k]
    BY <2>3 DEF Found
  <2>5. i = k
    BY <2>4, FileHas
  <2>6. QED  BY <2>3, <2>5
<1> HIDE DEF w, e, cnt
<1>4. /\ DOMAIN w = WalkFields /\ w.st = "found" /\ w.at = p /\ w.last = LastOf(ps, k - 1)
      /\ w.frame \in Frame /\ w.b.pageNo[w.frame] = p /\ w.b.pool[w.frame] = v[p]
      /\ MgrOK(w.b, Bump(cnt, p)) /\ Stays(b, w.b, cnt) /\ Values(w.b) = v
  BY <1>3 DEF Found, Becomes
<1>5. e = Shrink([w EXCEPT !.b = d], c)
  <2> HIDE DEF v, p
  <2>1. c = [w.b.pool[w.frame] EXCEPT !.slots = @ \ {t}]
    BY <1>4
  <2>2. [w EXCEPT !.b.pool[w.frame].slots = @ \ {t}] = [w EXCEPT !.b = d]
    BY <1>4
  <2>3. t \in w.b.pool[w.frame].slots
    BY <1>4 DEF p, v
  <2> HIDE DEF c, d
  <2>4. QED  BY <1>2, <1>4, <2>1, <2>2, <2>3 DEF Remove
<1>6. /\ [w EXCEPT !.b = d].b = d /\ [w EXCEPT !.b = d].at = p
      /\ [w EXCEPT !.b = d].last = LastOf(ps, k - 1)
  <2> HIDE DEF d, p
  <2>1. QED  BY <1>4 DEF WalkFields
<1>7. c.slots = T /\ c.next = v[p].next /\ c \in Value
  <2>1. c \in HFPage /\ c.slots = T /\ c.next = v[p].next
    BY <1>1 DEF HFPage
  <2>2. HFPage \subseteq Value
    BY HeapFileAssumption DEF Value
  <2>3. QED  BY <2>1, <2>2
<1>8. [v EXCEPT ![p] = c] = Reslot(v, p, T)
  BY DEF Reslot
<1> HIDE DEF c
<1>9. Becomes(w.b, cnt, h, cnt, Reslot(v, p, T)) /\ h.pageNo = w.b.pageNo
  <2> DEFINE g == w.b
             f == w.frame
  <2>1. h = unpinPage([g EXCEPT !.pool[f] = c], p).b
    OBVIOUS
  <2>2. f \in Frame /\ g.pageNo[f] = p /\ MgrOK(g, Bump(cnt, p))
    BY <1>4
  <2> HIDE DEF g, f, h, p
  <2>3. Becomes(g, cnt, h, cnt, [Values(g) EXCEPT ![p] = c]) /\ h.pageNo = g.pageNo
    BY <1>1, <1>7, <2>1, <2>2, PutIs
  <2> HIDE DEF v, T
  <2>4. QED  BY <1>4, <1>8, <2>3 DEF g
<1> HIDE DEF h
<1>10. MgrOK(h, cnt) /\ Stays(b, h, cnt) /\ Values(h) = Reslot(v, p, T)
  BY <1>4, <1>9 DEF Becomes, Stays
<1>11. T \in SUBSET Slot
  BY <1>1
<1>12. CASE T # {}
  <2>1. e = h
    <3> DEFINE u == [w EXCEPT !.b = d]
    <3>1. u.b = d /\ u.at = p /\ c.slots # {} /\ e = Shrink(u, c)
      BY <1>5, <1>6, <1>7, <1>12
    <3> HIDE DEF u, d, c, p
    <3>2. e = unpinPage(d, p).b
      BY <3>1 DEF Shrink
    <3>3. QED  BY <3>2 DEF h
  <2>2. ReslotOK(v, n, ps, k, T)
    <3> HIDE DEF T, v
    <3>1. QED  BY <1>1, <1>11, <1>12, Reslotted DEF v
  <2> DEFINE u == Reslot(v, p, T)
  <2>3. FileIs(u, n, ps) /\ \A i \in 1 .. n : u[ps[i]].slots = IF i = k THEN T ELSE v[ps[i]].slots
    BY <2>2 DEF ReslotOK
  <2> HIDE DEF u
  <2>4. RecsOf(u, n, ps) = RecsOf(v, n, ps) \ {<<p, t>>}
    <3>1. ASSUME NEW q PROVE q \in RecsOf(u, n, ps) <=> q \in RecsOf(v, n, ps) \ {<<p, t>>}
      <4>1. q \in RecsOf(u, n, ps) <=> \E i \in 1 .. n : \E x \in u[ps[i]].slots : q = <<ps[i], x>>
        BY RecsAre
      <4>2. q \in RecsOf(v, n, ps) <=> \E i \in 1 .. n : \E x \in v[ps[i]].slots : q = <<ps[i], x>>
        BY RecsAre
      <4>3. \A i, j \in 1 .. n : ps[i] = ps[j] => i = j
        BY FileHas
      <4>4. k \in 1 .. n /\ T = v[ps[k]].slots \ {t} /\ p = ps[k]
        OBVIOUS
      <4> HIDE DEF v, T, p
      <4>5. QED  BY <2>3, <4>1, <4>2, <4>3, <4>4
    <3>2. QED  BY <3>1
  <2>5. Values(e) = u /\ Becomes(b, cnt, e, cnt, Values(e))
    BY <1>10, <2>1 DEF Becomes, u
  <2>6. QED  BY <2>3, <2>4, <2>5 DEF DeleteDoes
<1>13. CASE T = {}
  <2>1. v[p].slots = {t} /\ k # 1 /\ p # s
    <3>1. v[p].slots = {t}
      BY <1>13
    <3>2. QED  BY <3>1
  <2>2. k \in 2 .. n /\ LastOf(ps, k - 1) = ps[k - 1]
    BY <1>1, <2>1 DEF LastOf
  <2> DEFINE m == Relink(freePage(h, p, {}), ps[k - 1], v[p].next)
  <2>3. e = m
    <3> DEFINE u == [w EXCEPT !.b = d]
    <3>1. /\ u.b = d /\ u.at = p /\ u.last = ps[k - 1] /\ c.slots = {} /\ c.next = v[p].next
          /\ e = Shrink(u, c)
      BY <1>5, <1>6, <1>7, <1>13, <2>2
    <3> HIDE DEF u, d, c, p, v
    <3>2. e = Relink(freePage(unpinPage(d, p).b, p, {}), ps[k - 1], v[p].next)
      BY <3>1 DEF Shrink
    <3>3. QED  BY <3>2 DEF h
  <2>4. \A q \in Page \ {ps[k]} : Values(h)[q] = v[q]
    BY <1>1, <1>10 DEF Reslot
  <2>5. Becomes(h, cnt, m, cnt, Values(m)) /\ CutsPage(v, n, ps, k, Values(m))
    <3>1. MgrOK(h, PinOf(s)) /\ FileIs(v, n, ps) /\ ps[k] # s
      BY <1>10, <2>1 DEF cnt
    <3> HIDE DEF v
    <3>2. QED  BY <1>1, <2>2, <2>4, <3>1, CutOut DEF cnt
  <2> HIDE DEF m
  <2>6. Becomes(b, cnt, e, cnt, Values(e))
    BY <1>10, <2>3, <2>5 DEF Becomes, Stays
  <2>7. /\ FileIs(Values(e), n - 1, CutAt(n, ps, k))
        /\ RecsOf(Values(e), n - 1, CutAt(n, ps, k)) = {r \in RecsOf(v, n, ps) : r[1] # ps[k]}
    BY <2>2, <2>3, <2>5, Shortened
  <2>8. ASSUME NEW r \in RecsOf(v, n, ps) PROVE r[1] # ps[k] <=> r # <<p, t>>
    <3>1. PICK i \in 1 .. n : \E x \in v[ps[i]].slots : r = <<ps[i], x>>
      BY RecsAre
    <3>2. PICK x \in v[ps[i]].slots : r = <<ps[i], x>>
      BY <3>1
    <3>3. r[1] = ps[i] /\ r[2] = x
      BY <3>2
    <3>4. r[1] = ps[k] => i = k
      <4>1. \A j \in 1 .. n : ps[i] = ps[j] => i = j
        BY FileHas
      <4>2. QED  BY <3>3, <4>1
    <3>5. r[1] = ps[k] => x = t
      BY <2>1, <3>2, <3>4
    <3>6. QED  BY <3>2, <3>3, <3>5
  <2>9. QED  BY <2>2, <2>6, <2>7, <2>8 DEF DeleteDoes
<1>14. QED  BY <1>12, <1>13

-----------------------------------------------------------------------------
(***************************************************************************)
(* Deleting a file.                                                        *)
(***************************************************************************)
\* No page.
LEMMA NoPageIs ==
    /\ INVALID_PAGE \notin Reserved /\ INVALID_PAGE \notin Page /\ INVALID_PAGE \notin Frame
    /\ PinOf(INVALID_PAGE) = NoPins /\ Few(NoPins) /\ NoPins \in [Page -> Nat]
    /\ \A p \in Page : /\ Bump(NoPins, p) = PinOf(p) /\ Bump(NoPins, p)[p] = 1
                       /\ [Bump(NoPins, p) EXCEPT ![p] = 0] = NoPins
<1>1. INVALID_PAGE \notin Reserved /\ INVALID_PAGE \notin Page /\ INVALID_PAGE \notin Frame /\ 0 \in Page
  BY Sizes
<1>2. PinOf(INVALID_PAGE) = NoPins /\ NoPins \in [Page -> Nat]
  BY <1>1 DEF PinOf, NoPins
<1>3. Few(NoPins)
  BY <1>1, <1>2, PinOfIs
<1>4. ASSUME NEW p \in Page
      PROVE  /\ Bump(NoPins, p) = PinOf(p) /\ Bump(NoPins, p)[p] = 1
             /\ [Bump(NoPins, p) EXCEPT ![p] = 0] = NoPins
  <2>1. Bump(NoPins, p) = PinOf(p)
    BY DEF Bump, NoPins, PinOf
  <2>2. PinOf(p)[p] = 1
    BY DEF PinOf
  <2>3. [PinOf(p) EXCEPT ![p] = 0] = NoPins
    BY DEF NoPins, PinOf
  <2>4. QED  BY <2>1, <2>2, <2>3
<1>5. QED  BY <1>1, <1>2, <1>3, <1>4

\* deleteFile has freed m pages.
Freeing(d, v, n, ps, m) ==
    /\ d.ok = TRUE /\ d.at = (IF m = n THEN INVALID_PAGE ELSE ps[m + 1])
    /\ MgrOK(d.b, NoPins)
    /\ Values(d.b)[SpaceMap] = Reserved \cup {ps[j] : j \in m + 1 .. n}
    /\ \A j \in m + 1 .. n : Values(d.b)[ps[j]] = v[ps[j]]

\* One page of the file.
LEMMA FreeOne ==
    ASSUME EnoughFrames, NEW v, NEW n, NEW ps, FileIs(v, n, ps), NEW m \in 0 .. n,
           NEW d, Freeing(d, v, n, ps, m)
    PROVE  /\ m = n => FreeStep(d) = d
           /\ m < n => Freeing(FreeStep(d), v, n, ps, m + 1)
<1>1. n \in Nat /\ m \in Nat /\ INVALID_PAGE \notin Page
  BY FileHas, NoPageIs
<1>2. m = n => FreeStep(d) = d
  BY DEF Freeing, FreeStep
<1>3. ASSUME m < n PROVE Freeing(FreeStep(d), v, n, ps, m + 1)
  <2> DEFINE q == ps[m + 1]
             g == d.b
             r == pinPage(g, q, FALSE, {})
             h == r.b
             f == freePage(h, q, {})
             e == FreeStep(d)
  <2>1. /\ m # n /\ m + 1 \in 1 .. n /\ m + 1 \in m + 1 .. n
        /\ q \in Page \ {SpaceMap} /\ q \in Page /\ q # INVALID_PAGE /\ q \notin Reserved
        /\ v[q].next = NextOf(n, ps, m + 1)
    <3>1. m # n /\ m + 1 \in 1 .. n /\ m + 1 \in m + 1 .. n
      BY <1>1, <1>3
    <3>2. QED  BY <3>1, FileHas DEF DataPage
  <2>2. /\ d.ok = TRUE /\ d.at = q /\ MgrOK(g, NoPins)
        /\ Values(g)[SpaceMap] = Reserved \cup {ps[j] : j \in m + 1 .. n}
        /\ \A j \in m + 1 .. n : Values(g)[ps[j]] = v[ps[j]]
    BY <2>1 DEF Freeing
  <2> HIDE DEF g, q
  <2>3. /\ r.ok = TRUE /\ r.frame \in Frame /\ r.b.pageNo[r.frame] = q
        /\ r.b.pool[r.frame] = Values(g)[q]
        /\ Becomes(g, NoPins, r.b, Bump(NoPins, q), Values(g))
    <3>1. MgrOK(g, NoPins) /\ Few(NoPins) /\ q \in Page
      BY <2>1, <2>2, NoPageIs
    <3>2. QED  BY <3>1, PinIs
  <2>4. e = [b |-> f.b, ok |-> f.ok, at |-> r.b.pool[r.frame].next]
    <3>1. FreeStep(d) = FreeNext(d, r)
      BY <2>1, <2>2 DEF FreeStep, g
    <3> HIDE DEF r
    <3>2. QED  BY <2>2, <2>3, <3>1 DEF FreeNext
  <2> HIDE DEF r
  <2>5. MgrOK(h, Bump(NoPins, q)) /\ Values(h) = Values(g)
    BY <2>3 DEF Becomes
  <2>6. InMap(h) = Values(g)[SpaceMap]
    BY <2>5, ValuesAre
  <2>7. e.b = f.b /\ e.ok = f.ok /\ e.at = Values(g)[q].next
    BY <2>3, <2>4
  <2> HIDE DEF e, h, f
  <2>8. FreeDoes(h, Bump(NoPins, q), q, f)
    <3>1. /\ Bump(NoPins, q)[q] <= 1 /\ Few([Bump(NoPins, q) EXCEPT ![q] = 0])
          /\ Bump(NoPins, q) \in [Page -> Nat]
      BY <2>1, NoPageIs, BumpDrop
    <3>2. QED  BY <2>1, <2>5, <3>1, FreeIs DEF f
  <2>9. /\ f.ok = TRUE /\ MgrOK(f.b, NoPins) /\ Values(f.b)[SpaceMap] = InMap(h) \ {q}
        /\ \A x \in Page \ {SpaceMap, q} : Values(f.b)[x] = Values(h)[x]
    <3>1. [Bump(NoPins, q) EXCEPT ![q] = 0] = NoPins
      BY <2>1, NoPageIs
    <3>2. QED  BY <2>8, <3>1 DEF FreeDoes
  <2>10. ASSUME NEW j \in m + 1 + 1 .. n
         PROVE  /\ j \in m + 1 .. n /\ ps[j] # q /\ ps[j] \in Page \ {SpaceMap, q}
    <3>1. j \in 1 .. n /\ j \in m + 1 .. n /\ j # m + 1
      BY <1>1
    <3>2. ps[j] # q
      BY <2>1, <3>1, FileHas DEF q
    <3>3. QED  BY <3>1, <3>2, FileHas
  <2>11. Values(f.b)[SpaceMap] = Reserved \cup {ps[j] : j \in m + 1 + 1 .. n}
    <3>1. \A j \in m + 1 .. n : j # m + 1 => j \in m + 1 + 1 .. n
      BY <1>1
    <3>2. {ps[j] : j \in m + 1 .. n} \ {q} = {ps[j] : j \in m + 1 + 1 .. n}
      BY <2>10, <3>1 DEF q
    <3>3. QED  BY <2>1, <2>2, <2>6, <2>9, <3>2
  <2>12. \A j \in m + 1 + 1 .. n : Values(f.b)[ps[j]] = v[ps[j]]
    BY <2>2, <2>5, <2>9, <2>10
  <2>13. e.at = IF m + 1 = n THEN INVALID_PAGE ELSE ps[m + 1 + 1]
    <3>1. Values(g)[q] = v[q]
      BY <2>1, <2>2 DEF q
    <3>2. QED  BY <2>1, <2>7, <3>1 DEF NextOf
  <2>14. Freeing(e, v, n, ps, m + 1)
    BY <2>7, <2>9, <2>11, <2>12, <2>13 DEF Freeing
  <2>15. QED  BY <2>14 DEF e
<1>4. QED  BY <1>2, <1>3

\* deleteFile leaves an empty directory and nothing else in use.
LEMMA DeleteFileIs ==
    ASSUME EnoughFrames, NEW b, MgrOK(b, NoPins), NEW n, NEW ps, FileIs(Values(b), n, ps), n > 0
    PROVE  LET e == deleteFile(b, ps[1])
           IN  MgrOK(e, NoPins) /\ FileIs(Values(e), 0, <<>>)
<1> DEFINE v == Values(b)
           e == deleteFile(b, ps[1])
<1>1. PICK d : /\ d[0] = [b |-> b, ok |-> TRUE, at |-> ps[1]]
               /\ \A i \in 1 .. num_pages : d[i] = FreeStep(d[i - 1])
               /\ FreePages(b, ps[1]) = d[num_pages]
  BY FreeTurns
<1>2. /\ n \in Nat /\ n < num_pages /\ num_pages \in Nat /\ 1 \in 1 .. n
      /\ SpaceMap \in Page /\ 0 \in Page /\ SpaceMap # 0
  BY FileHas, Sizes
<1> DEFINE freeing(i) == \E m \in 0 .. n : (m = i \/ m = n) /\ Freeing(d[i], v, n, ps, m)
           Good == {i \in 0 .. num_pages : freeing(i)}
<1>3. 0 \in Good
  <2>1. d[0].ok = TRUE /\ d[0].at = ps[1] /\ d[0].b = b
    BY <1>1
  <2>2. v[SpaceMap] = Reserved \cup {ps[j] : j \in 0 + 1 .. n}
    BY DEF FileIs
  <2>3. Freeing(d[0], v, n, ps, 0)
    BY <1>2, <2>1, <2>2 DEF Freeing
  <2>4. QED  BY <1>2, <2>3
<1>4. ASSUME NEW i \in 1 .. num_pages, i - 1 \in Good PROVE i \in Good
  <2>1. PICK m \in 0 .. n : (m = i - 1 \/ m = n) /\ Freeing(d[i - 1], v, n, ps, m)
    BY <1>4
  <2>2. d[i] = FreeStep(d[i - 1])
    BY <1>1
  <2>3. CASE m = n
    BY <1>2, <2>1, <2>2, <2>3, FreeOne
  <2>4. CASE m # n
    <3>1. m < n /\ m = i - 1 /\ m + 1 = i /\ i \in 0 .. n
      BY <1>2, <2>1, <2>4
    <3>2. Freeing(d[i], v, n, ps, m + 1)
      BY <2>1, <2>2, <3>1, FreeOne
    <3>3. QED  BY <3>1, <3>2
  <2>5. QED  BY <2>3, <2>4
<1> HIDE DEF Good
<1>5. 0 .. num_pages \subseteq Good
  BY <1>2, <1>3, <1>4, UpTo
<1>6. num_pages \in Good
  BY <1>2, <1>5
<1>7. PICK m \in 0 .. n : (m = num_pages \/ m = n) /\ Freeing(d[num_pages], v, n, ps, m)
  BY <1>6 DEF Good
<1> DEFINE x == FreePages(b, ps[1])
           g == x.b
<1>8. m = n /\ x = d[num_pages]
  BY <1>1, <1>2, <1>7
<1>9. x.ok = TRUE /\ MgrOK(g, NoPins) /\ Values(g)[SpaceMap] = Reserved
  <2>1. {ps[j] : j \in n + 1 .. n} = {}
    BY <1>2
  <2> HIDE DEF x
  <2>2. QED  BY <1>7, <1>8, <2>1 DEF Freeing
<1>10. e = SetHeader(g, Zero)
  <2> HIDE DEF x
  <2>1. QED  BY <1>9 DEF deleteFile, DropEntry, x
<1> HIDE DEF x, g
<1>11. Becomes(g, NoPins, e, NoPins, [Values(g) EXCEPT ![0] = Zero])
  <2>1. Zero \in Value
    BY DEF Value
  <2>2. QED  BY <1>9, <1>10, <2>1, NoPageIs, HeaderIs
<1> HIDE DEF e
<1>12. MgrOK(e, NoPins) /\ Values(e) = [Values(g) EXCEPT ![0] = Zero] /\ Values(g) \in [Page -> Value]
  BY <1>9, <1>11, ValuesAre DEF Becomes
<1>13. Values(e)[0] = Zero /\ Values(e)[SpaceMap] = Reserved
  BY <1>2, <1>9, <1>12
<1>14. FileIs(Values(e), 0, <<>>)
  <2>1. <<>> \in [1 .. 0 -> DataPage] /\ {<<>>[i] : i \in 1 .. 0} = {} /\ 0 < num_pages
    BY <1>2
  <2>2. \A i \in 1 .. 0 : FALSE
    OBVIOUS
  <2>3. QED  BY <1>13, <2>1, <2>2 DEF FileIs
<1>15. QED  BY <1>12, <1>14 DEF e

-----------------------------------------------------------------------------
(***************************************************************************)
(* A scan goes from page to page.                                          *)
(***************************************************************************)
\* The fields of a scan.
ScanFields == {"id", "frame", "slot", "more", "st"}

\* The page a scan has pinned.
ScanPage(sc) == IF sc.frame = INVALID_PAGE THEN INVALID_PAGE ELSE sc.id

\* The scan is on the i-th page, and the records d it has yet to return are on later
\* pages or, from the slot under its hand on, on this one.
OnPage(b, sc, d, n, ps, i) ==
    /\ sc.id = ps[i] /\ b.pageNo[sc.frame] = ps[i] /\ sc.slot \in Nat
    /\ \A r \in d : \E j \in 1 .. n :
          /\ r[1] = ps[j]
          /\ j > i \/ (j = i /\ sc.more /\ r[2] >= sc.slot)

\* A scan of a file with pages ps and records rs.
ScanIs(b, sc, rs, d, n, ps) ==
    /\ DOMAIN sc = ScanFields /\ sc.st \in {"closed", "open", "done"}
    /\ sc.frame \in Frame \cup {INVALID_PAGE} /\ sc.more \in BOOLEAN
    /\ d \subseteq rs
    /\ sc.st = "closed" => sc = NoScan
    /\ sc.st = "done" => sc.frame = INVALID_PAGE
    /\ sc.frame = INVALID_PAGE => d = {} /\ (sc.st # "closed" => sc.id = INVALID_PAGE)
    /\ sc.frame \in Frame => \E i \in 1 .. n : OnPage(b, sc, d, n, ps, i)

\* The pages a record of the file is on.
LEMMA RecIs ==
    ASSUME NEW v, NEW n, NEW ps, FileIs(v, n, ps), NEW r \in RecsOf(v, n, ps)
    PROVE  \E i \in 1 .. n : r[1] = ps[i] /\ r[2] \in v[ps[i]].slots /\ r[2] \in Nat
<1>1. PICK i \in 1 .. n : \E s \in v[ps[i]].slots : r = <<ps[i], s>>
  BY RecsAre
<1>2. r[1] = ps[i] /\ r[2] \in v[ps[i]].slots
  BY <1>1
<1>3. v[ps[i]].slots \subseteq Nat
  BY FileHas, SlotIs
<1>4. QED  BY <1>2, <1>3

\* A page that has been entered: its first record is next.
Entered(r, sc, v, n, ps, i) ==
    /\ MgrOK(r.b, PinOf(ps[i])) /\ Values(r.b) = v
    /\ DOMAIN r.sc = ScanFields /\ r.sc.frame \in Frame /\ r.b.pageNo[r.sc.frame] = ps[i]
    /\ r.sc.id = ps[i] /\ r.sc.st = sc.st
    /\ r.sc.slot = (IF v[ps[i]].slots = {} THEN sc.slot ELSE Min(v[ps[i]].slots))
    /\ r.sc.more = (v[ps[i]].slots # {})

\* Advance to a page of the file.
LEMMA AdvanceIs ==
    ASSUME EnoughFrames, NEW b, MgrOK(b, NoPins), NEW n, NEW ps, FileIs(Values(b), n, ps),
           NEW i \in 1 .. n, NEW sc, DOMAIN sc = ScanFields, sc.id = ps[i]
    PROVE  Entered(Advance(b, sc), sc, Values(b), n, ps, i)
<1> DEFINE v == Values(b)
           q == ps[i]
           p == pinPage(b, q, FALSE, {})
           x == [sc EXCEPT !.frame = p.frame]
           r == First(p.b, x)
<1>1. q \in Page /\ q # INVALID_PAGE /\ v[q] \in HFPage
  BY FileHas
<1>2. /\ p.ok = TRUE /\ p.frame \in Frame /\ p.b.pageNo[p.frame] = q
      /\ p.b.pool[p.frame] = v[q] /\ MgrOK(p.b, PinOf(q)) /\ Values(p.b) = v
  <2>1. /\ p.ok = TRUE /\ p.frame \in Frame /\ p.b.pageNo[p.frame] = q
        /\ p.b.pool[p.frame] = Values(b)[q]
        /\ Becomes(b, NoPins, p.b, Bump(NoPins, q), Values(b))
    <3>1. Few(NoPins)
      BY NoPageIs
    <3> HIDE DEF q
    <3>2. QED  BY <1>1, <3>1, PinIs
  <2> HIDE DEF p, q
  <2>2. QED  BY <1>1, <2>1, NoPageIs DEF Becomes
<1>3. Advance(b, sc) = r
  <2> HIDE DEF q
  <2>1. sc.id = q
    BY DEF q
  <2>2. Advance(b, sc) = Enter(p, sc)
    BY <1>1, <2>1 DEF Advance
  <2> HIDE DEF p
  <2>3. QED  BY <1>2, <2>2 DEF Enter
<1> HIDE DEF p
<1>4. DOMAIN x = ScanFields /\ x.frame = p.frame /\ x.id = sc.id /\ x.slot = sc.slot /\ x.st = sc.st
  BY DEF ScanFields
<1> HIDE DEF x
<1> DEFINE S == v[q].slots
           y == [x EXCEPT !.slot = IF S = {} THEN @ ELSE Min(S), !.more = S # {}]
<1>5. r = [b |-> p.b, sc |-> y]
  <2>1. AsHFPage(p.b.pool[x.frame]) = v[q]
    BY <1>1, <1>2, <1>4 DEF AsHFPage
  <2> HIDE DEF v, q
  <2>2. QED  BY <2>1 DEF First
<1>6. /\ DOMAIN y = ScanFields /\ y.frame = x.frame /\ y.id = x.id /\ y.st = x.st
      /\ y.slot = (IF S = {} THEN x.slot ELSE Min(S)) /\ y.more = (S # {})
  <2> HIDE DEF S
  <2>1. QED  BY <1>4 DEF ScanFields
<1> HIDE DEF y
<1>7. r.b = p.b /\ r.sc = y
  BY <1>5
<1> HIDE DEF r
<1>8. Entered(r, sc, v, n, ps, i)
  BY <1>2, <1>4, <1>6, <1>7 DEF Entered
<1>9. QED  BY <1>3, <1>8

\* Where a scan is after it has looked for a page: the pages are the same, and the records
\* it has yet to return are before it.
Moved(b, sc, rs, d, n, ps, r) ==
    /\ MgrOK(r.b, PinOf(ScanPage(r.sc))) /\ Values(r.b) = Values(b)
    /\ ScanIs(r.b, r.sc, rs, d, n, ps) /\ r.sc.st = sc.st

\* A page is entered when all the records that are left are there or on later ones.
LEMMA Lands ==
    ASSUME NEW b, NEW n, NEW ps, FileIs(Values(b), n, ps), NEW i \in 1 .. n, NEW sc,
           sc.st = "open", sc.slot \in Nat, NEW d, d \subseteq RecsOf(Values(b), n, ps),
           \A r \in d : \E j \in 1 .. n : j >= i /\ r[1] = ps[j],
           NEW r, Entered(r, sc, Values(b), n, ps, i)
    PROVE  Moved(b, sc, RecsOf(Values(b), n, ps), d, n, ps, r)
<1> DEFINE v == Values(b)
           S == v[ps[i]].slots
           z == r.sc
<1>1. /\ MgrOK(r.b, PinOf(ps[i])) /\ Values(r.b) = v
      /\ DOMAIN z = ScanFields /\ z.frame \in Frame /\ r.b.pageNo[z.frame] = ps[i]
      /\ z.id = ps[i] /\ z.st = "open"
      /\ z.slot = (IF S = {} THEN sc.slot ELSE Min(S)) /\ z.more = (S # {})
  BY DEF Entered
<1>2. n \in Nat /\ S \subseteq Nat /\ z.frame # INVALID_PAGE /\ \A j, k \in 1 .. n : ps[j] = ps[k] => j = k
  BY <1>1, FileHas, SlotIs, NoPageIs
<1>3. S # {} => Min(S) \in Nat /\ \A y \in S : y >= Min(S)
  BY <1>2, Least
<1>4. z.slot \in Nat
  BY <1>1, <1>3
<1>5. ASSUME NEW q \in d
      PROVE  \E j \in 1 .. n : q[1] = ps[j] /\ (j > i \/ (j = i /\ z.more /\ q[2] >= z.slot))
  <2>1. PICK j \in 1 .. n : j >= i /\ q[1] = ps[j]
    OBVIOUS
  <2>2. PICK k \in 1 .. n : q[1] = ps[k] /\ q[2] \in v[ps[k]].slots
    BY RecIs
  <2>3. j = k
    BY <1>2, <2>1, <2>2
  <2>4. CASE j = i
    <3>1. q[2] \in S
      BY <2>2, <2>3, <2>4
    <3> HIDE DEF S
    <3>2. z.more /\ q[2] >= z.slot
      BY <1>1, <1>3, <3>1
    <3>3. QED  BY <2>1, <2>4, <3>2
  <2>5. CASE j # i
    BY <1>2, <2>1, <2>5
  <2>6. QED  BY <2>4, <2>5
<1>6. z.more \in BOOLEAN
  BY <1>1
<1> HIDE DEF z, S, v
<1>7. OnPage(r.b, z, d, n, ps, i)
  BY <1>1, <1>4, <1>5 DEF OnPage
<1>8. ScanIs(r.b, z, RecsOf(v, n, ps), d, n, ps)
  BY <1>1, <1>2, <1>6, <1>7 DEF ScanIs, v
<1>9. ScanPage(z) = ps[i]
  BY <1>1, <1>2 DEF ScanPage
<1>10. QED  BY <1>1, <1>8, <1>9 DEF Moved, z, v

\* The scan leaves its page, from which it has nothing to return any more, for the next.
LEMMA LeaveIs ==
    ASSUME EnoughFrames, NEW b, NEW n, NEW ps, FileIs(Values(b), n, ps), NEW i \in 1 .. n,
           MgrOK(b, PinOf(ps[i])), NEW sc, DOMAIN sc = ScanFields, sc.st = "open",
           sc.id = ps[i], sc.frame \in Frame, b.pageNo[sc.frame] = ps[i], sc.slot \in Nat,
           sc.more \in BOOLEAN, NEW d, d \subseteq RecsOf(Values(b), n, ps),
           \A r \in d : \E j \in 1 .. n : j > i /\ r[1] = ps[j]
    PROVE  Moved(b, sc, RecsOf(Values(b), n, ps), d, n, ps, Leave(b, sc))
<1> DEFINE v == Values(b)
           e == unpinPage(b, ps[i]).b
           next == NextOf(n, ps, i)
           x == [sc EXCEPT !.id = next, !.frame = INVALID_PAGE]
           r == Leave(b, sc)
<1>1. n \in Nat /\ i \in Nat /\ i <= n /\ ps[i] \in Page /\ v[ps[i]] \in HFPage /\ v[ps[i]].next = next
  BY FileHas
<1>2. MgrOK(e, NoPins) /\ Values(e) = v
  <2>1. MgrOK(b, Bump(NoPins, ps[i])) /\ NoPins \in [Page -> Nat]
    BY <1>1, NoPageIs
  <2>2. QED  BY <1>1, <2>1, UnpinIs
<1>3. r = Advance(e, x)
  <2>1. AsHFPage(b.pool[sc.frame]) = v[ps[i]]
    <3>1. b.pool[sc.frame] = v[ps[i]]
      BY <1>1, ValuesAre
    <3>2. QED  BY <1>1, <3>1 DEF AsHFPage
  <2> HIDE DEF v, next
  <2>2. QED  BY <1>1, <2>1 DEF Leave
<1>4. /\ DOMAIN x = ScanFields /\ x.id = next /\ x.frame = INVALID_PAGE /\ x.slot = sc.slot
      /\ x.st = "open" /\ x.more = sc.more
  <2> HIDE DEF next
  <2>1. QED  BY DEF ScanFields
<1> HIDE DEF e, x, r
<1>5. CASE i = n
  <2>1. next = INVALID_PAGE
    BY <1>5 DEF NextOf
  <2>2. r = [b |-> e, sc |-> x]
    BY <1>3, <1>4, <2>1 DEF Advance
  <2>3. d = {}
    <3>1. \A j \in 1 .. n : ~(j > i)
      BY <1>1, <1>5
    <3>2. QED  BY <3>1
  <2>4. ScanPage(x) = INVALID_PAGE
    BY <1>4 DEF ScanPage
  <2> HIDE DEF next
  <2>5. ScanIs(e, x, RecsOf(v, n, ps), d, n, ps)
    BY <1>4, <2>1, <2>3, NoPageIs DEF ScanIs
  <2>6. r.b = e /\ r.sc = x
    BY <2>2
  <2>7. Moved(b, sc, RecsOf(v, n, ps), d, n, ps, r)
    BY <1>2, <1>4, <2>4, <2>5, <2>6, NoPageIs DEF Moved
  <2>8. QED  BY <2>7 DEF r
<1>6. CASE i # n
  <2>1. i + 1 \in 1 .. n /\ next = ps[i + 1]
    BY <1>1, <1>6 DEF NextOf
  <2>2. Entered(r, x, v, n, ps, i + 1)
    <3> HIDE DEF v
    <3>1. Values(e) = v /\ FileIs(Values(e), n, ps) /\ x.id = ps[i + 1]
      BY <1>2, <1>4, <2>1 DEF v
    <3>2. Entered(Advance(e, x), x, Values(e), n, ps, i + 1)
      BY <1>2, <1>4, <2>1, <3>1, AdvanceIs
    <3>3. QED  BY <1>3, <3>1, <3>2
  <2>3. ASSUME NEW q \in d PROVE \E j \in 1 .. n : j >= i + 1 /\ q[1] = ps[j]
    <3>1. PICK j \in 1 .. n : j > i /\ q[1] = ps[j]
      OBVIOUS
    <3>2. j >= i + 1
      BY <1>1, <3>1
    <3>3. QED  BY <3>1, <3>2
  <2>4. Moved(b, x, RecsOf(v, n, ps), d, n, ps, r)
    BY <1>4, <2>1, <2>2, <2>3, Lands
  <2>5. Moved(b, sc, RecsOf(v, n, ps), d, n, ps, r)
    BY <1>4, <2>4 DEF Moved
  <2>6. QED  BY <2>5 DEF r
<1>7. QED  BY <1>5, <1>6

\* A scan that is opened is on the first page, or on the second when that is empty, and
\* has every record before it.
LEMMA FirstDataPageIs ==
    ASSUME EnoughFrames, NEW b, MgrOK(b, NoPins), NEW n, NEW ps, FileIs(Values(b), n, ps), n > 0
    PROVE  LET sc == [NoScan EXCEPT !.id = ps[1], !.st = "open"]
               rs == RecsOf(Values(b), n, ps)
           IN  Moved(b, sc, rs, rs, n, ps, firstDataPage(b, ps[1]))
<1> DEFINE v == Values(b)
           sc == [NoScan EXCEPT !.id = ps[1], !.st = "open"]
           rs == RecsOf(v, n, ps)
           a == Advance(b, sc)
           r == firstDataPage(b, ps[1])
<1>1. n \in Nat /\ 1 \in 1 .. n /\ ps[1] \in Page /\ v[ps[1]].slots \subseteq Slot
  BY FileHas
<1>2. /\ DOMAIN sc = ScanFields /\ sc.id = ps[1] /\ sc.frame = INVALID_PAGE /\ sc.slot = 0
      /\ sc.st = "open" /\ sc.more = TRUE
  BY DEF NoScan, ScanFields
<1>3. r = Start(a)
  <2> HIDE DEF sc
  <2>1. QED  BY <1>2 DEF firstDataPage, nextDataPage, sc
<1> HIDE DEF sc
<1>4. Entered(a, sc, v, n, ps, 1)
  BY <1>1, <1>2, AdvanceIs
<1>5. ASSUME NEW q \in rs PROVE \E j \in 1 .. n : j >= 1 /\ q[1] = ps[j]
  <2>1. PICK j \in 1 .. n : q[1] = ps[j]
    BY RecIs
  <2>2. j >= 1
    BY <1>1
  <2>3. QED  BY <2>1, <2>2
<1>6. Moved(b, sc, rs, rs, n, ps, a)
  BY <1>1, <1>2, <1>4, <1>5, Lands
<1>7. /\ a.sc.frame \in Frame /\ a.sc.frame # INVALID_PAGE /\ a.sc.id = ps[1] /\ a.sc.st = "open"
      /\ a.b.pageNo[a.sc.frame] = ps[1] /\ DOMAIN a.sc = ScanFields /\ Values(a.b) = v
      /\ MgrOK(a.b, PinOf(ps[1])) /\ a.sc.more = (v[ps[1]].slots # {}) /\ a.sc.slot \in Nat
  <2> HIDE DEF a
  <2>1. a.sc.slot \in Nat
    <3>1. v[ps[1]].slots \subseteq Nat
      BY <1>1, SlotIs
    <3>2. v[ps[1]].slots # {} => Min(v[ps[1]].slots) \in Nat
      BY <3>1, Least
    <3>3. QED  BY <1>2, <1>4, <3>2 DEF Entered
  <2>2. QED  BY <1>2, <1>4, <2>1, NoPageIs DEF Entered
<1> HIDE DEF a
<1> SUFFICES Moved(b, sc, rs, rs, n, ps, r)
  BY DEF sc
<1>8. CASE a.sc.more
  <2>1. r = a
    BY <1>3, <1>8 DEF Start
  <2>2. QED  BY <1>6, <2>1
<1>9. CASE ~a.sc.more
  <2> DEFINE y == [a.sc EXCEPT !.more = TRUE]
             g == a.b
  <2>1. r = Leave(g, y)
    BY <1>3, <1>7, <1>9 DEF Start
  <2>2. /\ DOMAIN y = ScanFields /\ y.st = "open" /\ y.id = ps[1] /\ y.frame = a.sc.frame
        /\ y.slot = a.sc.slot /\ y.more = TRUE
    BY <1>7 DEF ScanFields
  <2>3. v[ps[1]].slots = {}
    BY <1>7, <1>9
  <2>4. ASSUME NEW q \in rs PROVE \E j \in 1 .. n : j > 1 /\ q[1] = ps[j]
    <3>1. PICK j \in 1 .. n : q[1] = ps[j] /\ q[2] \in v[ps[j]].slots
      BY RecIs
    <3>2. j # 1
      BY <2>3, <3>1
    <3>3. j > 1
      BY <1>1, <3>2
    <3>4. QED  BY <3>1, <3>3
  <2>5. /\ MgrOK(g, PinOf(ps[1])) /\ Values(g) = v /\ y.frame \in Frame
        /\ g.pageNo[y.frame] = ps[1] /\ y.slot \in Nat /\ y.more \in BOOLEAN
    BY <1>7, <2>2
  <2> HIDE DEF y, g
  <2>6. Moved(g, y, rs, rs, n, ps, Leave(g, y))
    <3>1. FileIs(Values(g), n, ps) /\ rs = RecsOf(Values(g), n, ps)
      BY <2>5
    <3> HIDE DEF rs
    <3>2. rs \subseteq rs
      OBVIOUS
    <3>3. QED  BY <1>1, <2>2, <2>4, <2>5, <3>1, <3>2, LeaveIs
  <2>7. QED  BY <1>2, <2>1, <2>2, <2>5, <2>6 DEF Moved
<1>10. QED  BY <1>8, <1>9

-----------------------------------------------------------------------------
(***************************************************************************)
(* A scan returns records, and the file changes under it.                  *)
(***************************************************************************)
\* A scan whose page is used up moves on before it returns a record.
LEMMA NextPageIs ==
    ASSUME EnoughFrames, NEW b, NEW n, NEW ps, FileIs(Values(b), n, ps), NEW sc, NEW d,
           ScanIs(b, sc, RecsOf(Values(b), n, ps), d, n, ps), MgrOK(b, PinOf(ScanPage(sc))),
           sc.st # "closed"
    PROVE  Moved(b, sc, RecsOf(Values(b), n, ps), d, n, ps,
                 IF sc.more THEN [b |-> b, sc |-> sc] ELSE nextDataPage(b, sc))
<1> DEFINE rs == RecsOf(Values(b), n, ps)
           here == [b |-> b, sc |-> sc]
<1>1. Moved(b, sc, rs, d, n, ps, here)
  <2>1. here.b = b /\ here.sc = sc
    OBVIOUS
  <2> HIDE DEF here, rs
  <2>2. QED  BY <2>1 DEF Moved, rs
<1>2. CASE sc.more
  BY <1>1, <1>2
<1>3. CASE ~sc.more /\ sc.frame = INVALID_PAGE
  <2>1. sc.id = INVALID_PAGE
    BY <1>3 DEF ScanIs
  <2>2. Advance(b, sc) = here
    BY <2>1 DEF Advance
  <2>3. Start(here) = here
    BY <1>3 DEF Start
  <2>4. nextDataPage(b, sc) = here
    BY <1>3, <2>2, <2>3 DEF nextDataPage
  <2>5. QED  BY <1>1, <1>3, <2>4
<1>4. CASE ~sc.more /\ sc.frame # INVALID_PAGE
  <2> HIDE DEF rs
  <2>1. /\ DOMAIN sc = ScanFields /\ sc.st = "open" /\ sc.frame \in Frame
        /\ sc.more \in BOOLEAN /\ d \subseteq rs
    BY <1>4 DEF ScanIs, rs
  <2>2. PICK i \in 1 .. n : OnPage(b, sc, d, n, ps, i)
    BY <2>1 DEF ScanIs
  <2>3. sc.id = ps[i] /\ b.pageNo[sc.frame] = ps[i] /\ sc.slot \in Nat
    BY <2>2 DEF OnPage
  <2>4. ASSUME NEW r \in d PROVE \E j \in 1 .. n : j > i /\ r[1] = ps[j]
    BY <1>4, <2>2 DEF OnPage
  <2>5. ScanPage(sc) = ps[i]
    BY <1>4, <2>3 DEF ScanPage
  <2>6. Moved(b, sc, rs, d, n, ps, Leave(b, sc))
    BY <2>1, <2>3, <2>4, <2>5, LeaveIs DEF rs
  <2>7. nextDataPage(b, sc) = Leave(b, sc)
    BY <1>4 DEF nextDataPage
  <2>8. QED  BY <1>4, <2>6, <2>7 DEF rs
<1>5. QED  BY <1>2, <1>3, <1>4

\* The slots of the page a scan has in hand.
SlotsInHand(b, sc) ==
    IF sc.frame = INVALID_PAGE THEN {} ELSE AsHFPage(b.pool[sc.frame]).slots

\* What a scan has yet to return after it has returned the record under its hand.
StillDue(b, sc, d) ==
    IF sc.slot \in SlotsInHand(b, sc) THEN d \ {<<sc.id, sc.slot>>} ELSE d

\* A scan returns a record and stands on the next, or it has none left and says so.
LEMMA FetchedIs ==
    ASSUME NEW b, NEW cnt, MgrOK(b, cnt), NEW n, NEW ps, FileIs(Values(b), n, ps), NEW sc, NEW d,
           ScanIs(b, sc, RecsOf(Values(b), n, ps), d, n, ps), sc.st # "closed"
    PROVE  LET y == Fetched(sc, SlotsInHand(b, sc))
           IN  /\ ScanIs(b, y, RecsOf(Values(b), n, ps), StillDue(b, sc, d), n, ps)
               /\ ScanPage(y) = ScanPage(sc)
<1> DEFINE v == Values(b)
           rs == RecsOf(v, n, ps)
           slots == SlotsInHand(b, sc)
           y == Fetched(sc, slots)
           d2 == StillDue(b, sc, d)
<1>1. /\ DOMAIN sc = ScanFields /\ sc.st \in {"open", "done"}
      /\ sc.frame \in Frame \cup {INVALID_PAGE} /\ sc.more \in BOOLEAN
      /\ d \subseteq rs
      /\ sc.st = "done" => sc.frame = INVALID_PAGE
      /\ sc.frame = INVALID_PAGE => d = {} /\ sc.id = INVALID_PAGE
  BY DEF ScanIs
<1>2. d2 \subseteq d
  BY DEF StillDue
<1>3. CASE sc.frame = INVALID_PAGE
  <2>1. slots = {}
    BY <1>3 DEF SlotsInHand
  <2> HIDE DEF slots, d2
  <2>2. y = [sc EXCEPT !.st = "done"]
    BY <1>3 DEF Fetched
  <2>3. /\ DOMAIN y = ScanFields /\ y.st = "done" /\ y.frame = INVALID_PAGE
        /\ y.more = sc.more /\ y.id = INVALID_PAGE
    BY <1>1, <1>3, <2>2 DEF ScanFields
  <2> HIDE DEF y
  <2>4. ScanPage(y) = ScanPage(sc)
    BY <1>3, <2>3 DEF ScanPage
  <2>5. d2 = {}
    BY <1>1, <1>2, <1>3
  <2>6. ScanIs(b, y, rs, d2, n, ps)
    <3> HIDE DEF rs
    <3>1. QED  BY <1>1, <2>3, <2>5, NoPageIs DEF ScanIs
  <2>7. QED  BY <2>4, <2>6 DEF y, d2, slots
<1>4. CASE sc.frame # INVALID_PAGE
  <2>1. sc.frame \in Frame /\ sc.st = "open"
    BY <1>1, <1>4
  <2>2. PICK i \in 1 .. n : OnPage(b, sc, d, n, ps, i)
    BY <2>1 DEF ScanIs
  <2>3. sc.id = ps[i] /\ b.pageNo[sc.frame] = ps[i] /\ sc.slot \in Nat
    BY <2>2 DEF OnPage
  <2>4. /\ n \in Nat /\ ps[i] \in Page /\ v[ps[i]] \in HFPage /\ v[ps[i]].slots \subseteq Nat
        /\ \A j, k \in 1 .. n : ps[j] = ps[k] => j = k
    BY FileHas, SlotIs
  <2>5. slots = v[ps[i]].slots
    <3>1. b.pool[sc.frame] = v[ps[i]]
      BY <2>1, <2>3, <2>4, ValuesAre
    <3> HIDE DEF v
    <3>2. QED  BY <1>4, <2>4, <3>1 DEF SlotsInHand, AsHFPage
  <2>6. CASE sc.slot \notin slots
    <3>1. y = sc
      BY <1>4, <2>6 DEF Fetched
    <3>2. d2 = d
      BY <2>6 DEF StillDue
    <3>3. QED  BY <3>1, <3>2
  <2>7. CASE sc.slot \in slots
    <3> DEFINE later == {s \in slots : s > sc.slot}
    <3>1. y = [sc EXCEPT !.slot = IF later = {} THEN @ ELSE Min(later), !.more = later # {}]
      BY <1>4, <2>7 DEF Fetched
    <3>2. d2 = d \ {<<sc.id, sc.slot>>}
      BY <2>7 DEF StillDue
    <3>3. later \subseteq Nat /\ (later # {} => Min(later) \in Nat /\ \A s \in later : s >= Min(later))
      <4>1. later \subseteq Nat
        BY <2>4, <2>5
      <4> HIDE DEF later
      <4>2. QED  BY <4>1, Least
    <3>4. ASSUME NEW s \in slots, s > sc.slot PROVE s \in later
      BY <3>4
    <3> HIDE DEF later, slots, v
    <3>5. /\ DOMAIN y = ScanFields /\ y.st = "open" /\ y.frame = sc.frame
          /\ y.id = sc.id /\ y.more = (later # {})
          /\ y.slot = (IF later = {} THEN sc.slot ELSE Min(later))
      BY <1>1, <2>1, <3>1 DEF ScanFields
    <3> HIDE DEF y, d2
    <3>6. ASSUME NEW r \in d2
          PROVE  \E j \in 1 .. n : r[1] = ps[j] /\ (j > i \/ (j = i /\ y.more /\ r[2] >= y.slot))
      <4>1. r \in d /\ r # <<sc.id, sc.slot>>
        BY <3>2
      <4>2. PICK j \in 1 .. n : r[1] = ps[j] /\ (j > i \/ (j = i /\ sc.more /\ r[2] >= sc.slot))
        BY <2>2, <4>1 DEF OnPage
      <4>3. CASE j > i
        BY <4>2, <4>3
      <4>4. CASE ~(j > i)
        <5>1. j = i /\ r[2] >= sc.slot
          BY <4>2, <4>4
        <5>2. PICK k \in 1 .. n : \E s \in v[ps[k]].slots : r = <<ps[k], s>>
          <6>1. r \in rs
            BY <1>1, <4>1
          <6>2. QED  BY <6>1, RecsAre
        <5>3. PICK s \in v[ps[k]].slots : r = <<ps[k], s>>
          BY <5>2
        <5>4. k = i
          BY <2>4, <4>2, <5>1, <5>3
        <5>5. s \in slots /\ s \in Nat /\ r[2] = s /\ s # sc.slot
          BY <2>3, <2>4, <2>5, <4>1, <5>3, <5>4
        <5>6. s > sc.slot
          BY <2>3, <5>1, <5>5
        <5>7. s \in later
          BY <3>4, <5>5, <5>6
        <5>8. y.more /\ r[2] >= y.slot
          BY <3>3, <3>5, <5>5, <5>7
        <5>9. QED  BY <4>2, <5>1, <5>8
      <4>5. QED  BY <4>3, <4>4
    <3>7. y.slot \in Nat
      BY <2>3, <3>3, <3>5
    <3>8. OnPage(b, y, d2, n, ps, i)
      BY <2>3, <3>5, <3>6, <3>7 DEF OnPage
    <3>9. ScanIs(b, y, rs, d2, n, ps)
      <4>1. y.more \in BOOLEAN /\ d2 \subseteq rs /\ y.frame \in Frame /\ y.frame # INVALID_PAGE
        BY <1>1, <1>2, <1>4, <2>1, <3>5 DEF d2
      <4> HIDE DEF rs
      <4>2. QED  BY <3>5, <3>8, <4>1 DEF ScanIs
    <3>10. ScanPage(y) = ScanPage(sc)
      BY <3>5 DEF ScanPage
    <3>11. QED  BY <3>9, <3>10 DEF y, d2, slots, v
  <2>8. QED  BY <2>6, <2>7
<1>5. QED  BY <1>3, <1>4

\* The pages ps but for one are among qs, in the same order.
Follows(n, ps, m, qs, gone) ==
    \E pos : /\ \A i \in 1 .. n : ps[i] # gone => pos[i] \in 1 .. m /\ qs[pos[i]] = ps[i]
             /\ \A i, j \in 1 .. n : ps[i] # gone /\ ps[j] # gone /\ i < j => pos[i] < pos[j]

\* A file that grows keeps its pages where they were.
LEMMA GrownFollows ==
    ASSUME NEW n \in Nat, NEW ps, NEW m, NEW qs, Grows(n, ps, m, qs), NEW gone
    PROVE  Follows(n, ps, m, qs, gone)
<1> DEFINE pos == [i \in 1 .. n |-> i]
<1>1. \A i \in 1 .. n : pos[i] \in 1 .. m /\ qs[pos[i]] = ps[i]
  BY DEF Grows
<1>2. \A i, j \in 1 .. n : i < j => pos[i] < pos[j]
  OBVIOUS
<1> HIDE DEF pos
<1>3. QED  BY <1>1, <1>2 DEF Follows

\* A page that is cut out leaves the others in their order.
LEMMA CutFollows ==
    ASSUME NEW n \in Nat, NEW ps, NEW k \in 2 .. n
    PROVE  Follows(n, ps, n - 1, CutAt(n, ps, k), ps[k])
<1> DEFINE pos == [i \in 1 .. n |-> IF i < k THEN i ELSE i - 1]
           qs == CutAt(n, ps, k)
<1>1. ASSUME NEW i \in 1 .. n, ps[i] # ps[k]
      PROVE  pos[i] \in 1 .. n - 1 /\ qs[pos[i]] = ps[i]
  <2>1. i # k /\ pos[i] = IF i < k THEN i ELSE i - 1
    BY <1>1
  <2>2. pos[i] \in 1 .. n - 1
    BY <2>1
  <2>3. qs[pos[i]] = IF pos[i] < k THEN ps[pos[i]] ELSE ps[pos[i] + 1]
    <3> HIDE DEF pos
    <3>1. QED  BY <2>2 DEF CutAt
  <2>4. CASE i < k
    BY <2>1, <2>2, <2>3, <2>4
  <2>5. CASE ~(i < k)
    <3>1. pos[i] = i - 1 /\ ~(i - 1 < k) /\ i - 1 + 1 = i
      BY <2>1, <2>5
    <3> HIDE DEF pos, qs
    <3>2. QED  BY <2>2, <2>3, <3>1
  <2>6. QED  BY <2>4, <2>5
<1>2. ASSUME NEW i \in 1 .. n, NEW j \in 1 .. n, ps[i] # ps[k], ps[j] # ps[k], i < j
      PROVE  pos[i] < pos[j]
  <2>1. i # k /\ j # k
    BY <1>2
  <2>2. QED  BY <1>2, <2>1
<1> HIDE DEF pos, qs
<1>3. QED  BY <1>1, <1>2 DEF Follows, qs

\* A scan that keeps its page, and the pages of what it has yet to return.
LEMMA ScanFollows ==
    ASSUME NEW b, NEW sc, NEW rs, NEW d, NEW n, NEW ps, FileIs(Values(b), n, ps),
           ScanIs(b, sc, rs, d, n, ps),
           NEW e, Stays(b, e, PinOf(ScanPage(sc))), NEW m, m \in Nat, NEW qs, NEW gone,
           Follows(n, ps, m, qs, gone), ScanPage(sc) # INVALID_PAGE => ScanPage(sc) # gone,
           NEW rs2, NEW d2, d2 \subseteq d, d2 \subseteq rs2, \A r \in d2 : r[1] # gone
    PROVE  ScanIs(e, sc, rs2, d2, m, qs)
<1>1. CASE sc.frame = INVALID_PAGE
  <2>1. d2 = {}
    BY <1>1 DEF ScanIs
  <2>2. QED  BY <1>1, <2>1, NoPageIs DEF ScanIs
<1>2. CASE sc.frame # INVALID_PAGE
  <2>1. sc.frame \in Frame
    BY <1>2 DEF ScanIs
  <2>2. PICK i \in 1 .. n : OnPage(b, sc, d, n, ps, i)
    BY <2>1 DEF ScanIs
  <2>3. sc.id = ps[i] /\ b.pageNo[sc.frame] = ps[i] /\ sc.slot \in Nat
    BY <2>2 DEF OnPage
  <2>4. n \in Nat /\ ps[i] \in Page /\ ps[i] # INVALID_PAGE
    BY FileHas
  <2>5. ScanPage(sc) = ps[i] /\ ps[i] # gone
    BY <1>2, <2>3, <2>4 DEF ScanPage
  <2>6. e.pageNo[sc.frame] = ps[i]
    <3>1. PinOf(ps[i])[ps[i]] = 1
      BY <2>4 DEF PinOf
    <3>2. QED  BY <2>1, <2>3, <2>4, <2>5, <3>1 DEF Stays
  <2>7. PICK pos : /\ \A x \in 1 .. n : ps[x] # gone => pos[x] \in 1 .. m /\ qs[pos[x]] = ps[x]
                   /\ \A x, y \in 1 .. n : ps[x] # gone /\ ps[y] # gone /\ x < y => pos[x] < pos[y]
    BY DEF Follows
  <2>8. pos[i] \in 1 .. m /\ qs[pos[i]] = ps[i]
    BY <2>5, <2>7
  <2>9. ASSUME NEW r \in d2
        PROVE  \E j \in 1 .. m : /\ r[1] = qs[j]
                                 /\ j > pos[i] \/ (j = pos[i] /\ sc.more /\ r[2] >= sc.slot)
    <3>1. PICK j \in 1 .. n : r[1] = ps[j] /\ (j > i \/ (j = i /\ sc.more /\ r[2] >= sc.slot))
      BY <2>2 DEF OnPage
    <3>2. pos[j] \in 1 .. m /\ qs[pos[j]] = ps[j] /\ ps[j] # gone
      BY <2>7, <3>1
    <3>3. CASE j > i
      <4>1. pos[i] < pos[j]
        BY <2>5, <2>7, <3>2, <3>3
      <4>2. pos[j] > pos[i]
        BY <2>8, <3>2, <4>1
      <4>3. QED  BY <3>1, <3>2, <4>2
    <3>4. CASE ~(j > i)
      BY <3>1, <3>2, <3>4
    <3>5. QED  BY <3>3, <3>4
  <2>10. OnPage(e, sc, d2, m, qs, pos[i])
    BY <2>3, <2>6, <2>8, <2>9 DEF OnPage
  <2>11. QED  BY <1>2, <2>8, <2>10 DEF ScanIs
<1>3. QED  BY <1>1, <1>2

-----------------------------------------------------------------------------
(***************************************************************************)
(* The invariant of a file and its scan.                                   *)
(***************************************************************************)
\* A file of pages ps with records rs, a HeapFile object and a scan with d left.
Shape(b, f, sc, rs, d, n, ps) ==
    /\ FileIs(Values(b), n, ps) /\ rs = RecsOf(Values(b), n, ps)
    /\ f = INVALID_PAGE \/ (n > 0 /\ f = ps[1])
    /\ ScanIs(b, sc, rs, d, n, ps)

\* With the manager sound and no pin but the scan's.
HeapState(b, cnt, f, sc, rs, d) ==
    /\ cnt = PinOf(ScanPage(sc)) /\ MgrOK(b, cnt)
    /\ \E n, ps : Shape(b, f, sc, rs, d, n, ps)

\* The pages in use are those of one list that the directory leads to, no page twice; the
\* records are theirs; the object knows the first; the one pin is the scan's, on a
\* page of the list, and what the scan has yet to return is before it.
HeapInv == HeapState(bm, pins, first, scan, recs, due)

\* The page a scan pins.
LEMMA ScanPageIs ==
    ASSUME NEW b, NEW f, NEW sc, NEW rs, NEW d, NEW n, NEW ps, Shape(b, f, sc, rs, d, n, ps)
    PROVE  /\ ScanPage(sc) \notin Reserved
           /\ sc.frame = INVALID_PAGE => ScanPage(sc) = INVALID_PAGE
           /\ sc.frame # INVALID_PAGE =>
                 /\ sc.frame \in Frame /\ ScanPage(sc) = sc.id
                 /\ \E i \in 1 .. n : sc.id = ps[i] /\ b.pageNo[sc.frame] = ps[i]
<1>1. CASE sc.frame = INVALID_PAGE
  BY <1>1, NoPageIs DEF ScanPage
<1>2. CASE sc.frame # INVALID_PAGE
  <2>1. sc.frame \in Frame /\ ScanPage(sc) = sc.id
    BY <1>2 DEF Shape, ScanIs, ScanPage
  <2>2. PICK i \in 1 .. n : OnPage(b, sc, d, n, ps, i)
    BY <2>1 DEF Shape, ScanIs
  <2>3. sc.id = ps[i] /\ b.pageNo[sc.frame] = ps[i] /\ ps[i] \in DataPage
    BY <2>2, FileHas DEF OnPage, Shape
  <2>4. QED  BY <1>2, <2>1, <2>3 DEF DataPage
<1>3. QED  BY <1>1, <1>2

\* A scan that is closed has no pin and nothing to return.
LEMMA ClosedIs ==
    ASSUME NEW b, NEW f, NEW sc, NEW rs, NEW d, NEW n, NEW ps, Shape(b, f, sc, rs, d, n, ps),
           sc.st = "closed"
    PROVE  sc = NoScan /\ d = {} /\ ScanPage(sc) = INVALID_PAGE
<1>1. sc = NoScan
  BY DEF Shape, ScanIs
<1>2. sc.frame = INVALID_PAGE
  BY <1>1 DEF NoScan
<1>3. QED  BY <1>1, <1>2 DEF Shape, ScanIs, ScanPage

\* The file and the pages of the pool change under the scan.
LEMMA ShapeMoves ==
    ASSUME NEW b, NEW f, NEW sc, NEW rs, NEW d, NEW n, NEW ps, Shape(b, f, sc, rs, d, n, ps),
           NEW e, Becomes(b, PinOf(ScanPage(sc)), e, PinOf(ScanPage(sc)), Values(e)),
           NEW m, NEW qs, NEW gone, FileIs(Values(e), m, qs), Follows(n, ps, m, qs, gone),
           ScanPage(sc) # INVALID_PAGE => ScanPage(sc) # gone,
           NEW g, g = INVALID_PAGE \/ (m > 0 /\ g = qs[1]),
           NEW rs2, rs2 = RecsOf(Values(e), m, qs),
           NEW d2, d2 \subseteq d, d2 \subseteq rs2, \A r \in d2 : r[1] # gone
    PROVE  HeapState(e, PinOf(ScanPage(sc)), g, sc, rs2, d2)
<1>1. FileIs(Values(b), n, ps) /\ ScanIs(b, sc, rs, d, n, ps) /\ m \in Nat
  BY FileHas DEF Shape
<1>2. MgrOK(e, PinOf(ScanPage(sc))) /\ Stays(b, e, PinOf(ScanPage(sc)))
  BY DEF Becomes
<1>3. ScanIs(e, sc, rs2, d2, m, qs)
  BY <1>1, <1>2, ScanFollows
<1>4. Shape(e, g, sc, rs2, d2, m, qs)
  BY <1>3 DEF Shape
<1>5. QED  BY <1>2, <1>4 DEF HeapState

\* ... as when the file only grows.
LEMMA ShapeGrows ==
    ASSUME NEW b, NEW f, NEW sc, NEW rs, NEW d, NEW n, NEW ps, Shape(b, f, sc, rs, d, n, ps),
           NEW e, Becomes(b, PinOf(ScanPage(sc)), e, PinOf(ScanPage(sc)), Values(e)),
           NEW m, NEW qs, FileIs(Values(e), m, qs), Grows(n, ps, m, qs),
           NEW g, g \in {f, INVALID_PAGE} \/ (m > 0 /\ g = qs[1]),
           NEW rs2, rs2 = RecsOf(Values(e), m, qs),
           NEW d2, d2 \subseteq d, d2 \subseteq rs2
    PROVE  HeapState(e, PinOf(ScanPage(sc)), g, sc, rs2, d2)
<1>1. /\ n \in Nat /\ m \in Nat /\ n <= m /\ FileIs(Values(b), n, ps)
      /\ d \subseteq RecsOf(Values(b), n, ps)
  BY FileHas DEF Shape, Grows, ScanIs
<1>2. Follows(n, ps, m, qs, INVALID_PAGE)
  BY <1>1, GrownFollows
<1>3. g = INVALID_PAGE \/ (m > 0 /\ g = qs[1])
  <2>1. CASE g = f /\ g # INVALID_PAGE
    <3>1. n > 0 /\ f = ps[1]
      BY <2>1 DEF Shape
    <3>2. 1 \in 1 .. n /\ m > 0
      BY <1>1, <3>1
    <3>3. QED  BY <2>1, <3>1, <3>2 DEF Grows
  <2>2. QED  BY <2>1
<1>4. ASSUME NEW r \in d2 PROVE r[1] # INVALID_PAGE
  <2>1. PICK i \in 1 .. n : r[1] = ps[i]
    BY <1>1, RecIs
  <2>2. QED  BY <1>1, <2>1, FileHas
<1>5. QED  BY <1>2, <1>3, <1>4, ShapeMoves

-----------------------------------------------------------------------------
(***************************************************************************)
(* One lemma for each operation.                                           *)
(***************************************************************************)

\* The constructor of HeapFile finds the file or makes it.
LEMMA OpenStep ==
    ASSUME EnoughFrames, NEW b, NEW cnt, NEW f, NEW sc, NEW rs, NEW d,
           HeapState(b, cnt, f, sc, rs, d)
    PROVE  LET r == Construct(b, Entry(PageValue(b, 0)))
           IN  HeapState(r.b, cnt, r.first, sc, rs, d)
<1> DEFINE r == Construct(b, Entry(PageValue(b, 0)))
           s == ScanPage(sc)
<1>1. PICK n, ps : Shape(b, f, sc, rs, d, n, ps)
  BY DEF HeapState
<1>2. /\ cnt = PinOf(s) /\ MgrOK(b, cnt) /\ s \notin Reserved /\ FileIs(Values(b), n, ps)
      /\ rs = RecsOf(Values(b), n, ps) /\ d \subseteq rs
  BY <1>1, ScanPageIs DEF HeapState, Shape, ScanIs
<1> HIDE DEF s
<1>3. OpenDoes(b, PinOf(s), n, ps, r)
  BY <1>2, OpenIs
<1> HIDE DEF r
<1>4. PICK m, qs : /\ FileIs(Values(r.b), m, qs) /\ Grows(n, ps, m, qs)
                   /\ RecsOf(Values(r.b), m, qs) = rs
                   /\ r.first = INVALID_PAGE \/ (m > 0 /\ r.first = qs[1])
  BY <1>2, <1>3 DEF OpenDoes
<1>5. Becomes(b, PinOf(s), r.b, PinOf(s), Values(r.b))
  BY <1>3 DEF OpenDoes
<1>6. HeapState(r.b, PinOf(s), r.first, sc, rs, d)
  BY <1>1, <1>2, <1>4, <1>5, ShapeGrows DEF s
<1>7. QED  BY <1>2, <1>6 DEF r

\* Nothing changes but where pages are in the pool.
LEMMA SamePages ==
    ASSUME NEW b, NEW cnt, NEW f, NEW sc, NEW rs, NEW d, HeapState(b, cnt, f, sc, rs, d),
           NEW e, Becomes(b, cnt, e, cnt, Values(b)), NEW g, g \in {f, INVALID_PAGE}
    PROVE  HeapState(e, cnt, g, sc, rs, d)
<1>1. PICK n, ps : Shape(b, f, sc, rs, d, n, ps)
  BY DEF HeapState
<1>2. /\ cnt = PinOf(ScanPage(sc)) /\ FileIs(Values(b), n, ps) /\ n \in Nat
      /\ rs = RecsOf(Values(b), n, ps) /\ d \subseteq rs
  BY <1>1, FileHas DEF HeapState, Shape, ScanIs
<1>3. Values(e) = Values(b)
  BY DEF Becomes
<1>4. Grows(n, ps, n, ps)
  BY <1>2 DEF Grows
<1>5. /\ Becomes(b, PinOf(ScanPage(sc)), e, PinOf(ScanPage(sc)), Values(e))
      /\ FileIs(Values(e), n, ps) /\ rs = RecsOf(Values(e), n, ps)
  BY <1>2, <1>3
<1>6. HeapState(e, PinOf(ScanPage(sc)), g, sc, rs, d)
  BY <1>1, <1>2, <1>4, <1>5, ShapeGrows
<1>7. QED  BY <1>2, <1>6

\* getRecCnt, getRecord and updateRecord.
LEMMA ReadStep ==
    ASSUME EnoughFrames, NEW b, NEW cnt, NEW f, f # INVALID_PAGE, NEW sc, NEW rs, NEW d,
           HeapState(b, cnt, f, sc, rs, d)
    PROVE  /\ HeapState(Walk(b, f, {}).b, cnt, f, sc, rs, d)
           /\ \A p : LET w == Walk(b, f, {p})
                     IN  HeapState(IF w.st = "found" THEN unpinPage(w.b, w.at).b ELSE w.b,
                                   cnt, f, sc, rs, d)
<1>1. PICK n, ps : Shape(b, f, sc, rs, d, n, ps)
  BY DEF HeapState
<1>2. /\ cnt = PinOf(ScanPage(sc)) /\ MgrOK(b, cnt) /\ ScanPage(sc) \notin Reserved
      /\ FileIs(Values(b), n, ps) /\ n > 0 /\ f = ps[1]
  BY <1>1, ScanPageIs DEF HeapState, Shape
<1>3. Few(cnt) /\ cnt \in [Page -> Nat]
  BY <1>2, PinOfIs, Sizes
<1>4. ASSUME NEW stops
      PROVE  LET w == Walk(b, f, stops)
             IN  \/ Ended(w, b, cnt, n, ps, stops)
                 \/ \E k \in 1 .. n : Found(w, b, cnt, n, ps, stops, k)
  BY <1>2, <1>3, WalkIs
<1>5. HeapState(Walk(b, f, {}).b, cnt, f, sc, rs, d)
  <2> DEFINE w == Walk(b, f, {})
  <2>1. Ended(w, b, cnt, n, ps, {})
    <3>1. ASSUME NEW k \in 1 .. n PROVE ~Found(w, b, cnt, n, ps, {}, k)
      BY DEF Found
    <3>2. QED  BY <1>4, <3>1
  <2>2. Becomes(b, cnt, w.b, cnt, Values(b))
    BY <2>1 DEF Ended
  <2> HIDE DEF w
  <2>3. HeapState(w.b, cnt, f, sc, rs, d)
    BY <2>2, SamePages
  <2>4. QED  BY <2>3 DEF w
<1>6. ASSUME NEW p
      PROVE  LET w == Walk(b, f, {p})
             IN  HeapState(IF w.st = "found" THEN unpinPage(w.b, w.at).b ELSE w.b,
                           cnt, f, sc, rs, d)
  <2> DEFINE w == Walk(b, f, {p})
             e == IF w.st = "found" THEN unpinPage(w.b, w.at).b ELSE w.b
  <2>1. Ended(w, b, cnt, n, ps, {p}) \/ \E k \in 1 .. n : Found(w, b, cnt, n, ps, {p}, k)
    BY <1>4
  <2> HIDE DEF w
  <2>2. CASE Ended(w, b, cnt, n, ps, {p})
    <3>1. e = w.b /\ Becomes(b, cnt, w.b, cnt, Values(b))
      BY <2>2 DEF Ended
    <3>2. HeapState(e, cnt, f, sc, rs, d)
      BY <3>1, SamePages
    <3>3. QED  BY <3>2 DEF w
  <2>3. CASE \E k \in 1 .. n : Found(w, b, cnt, n, ps, {p}, k)
    <3>1. PICK k \in 1 .. n : Found(w, b, cnt, n, ps, {p}, k)
      BY <2>3
    <3> DEFINE q == ps[k]
               g == w.b
    <3>2. /\ w.st = "found" /\ w.at = q /\ q \in Page
          /\ Becomes(b, cnt, g, Bump(cnt, q), Values(b))
      BY <1>2, <3>1, FileHas DEF Found
    <3>3. e = unpinPage(g, q).b
      BY <3>2
    <3> HIDE DEF q, g, e
    <3>4. MgrOK(g, Bump(cnt, q)) /\ Values(g) = Values(b)
      BY <3>2 DEF Becomes
    <3>5. Becomes(g, Bump(cnt, q), e, cnt, Values(b))
      BY <1>3, <3>2, <3>3, <3>4, UnpinIs
    <3>6. Bump(cnt, q) \in [Page -> Nat] /\ \A x \in Page : cnt[x] <= Bump(cnt, q)[x]
      <4>1. \A x \in Page : cnt[x] \in Nat
        BY <1>3
      <4>2. QED  BY <1>3, <3>2, <4>1 DEF Bump
    <3>7. Becomes(b, cnt, e, cnt, Values(b))
      BY <1>2, <1>3, <3>2, <3>5, <3>6, BecomesOn
    <3>8. HeapState(e, cnt, f, sc, rs, d)
      BY <3>7, SamePages
    <3>9. QED  BY <3>8 DEF e, w
  <2>4. QED  BY <2>1, <2>2, <2>3
<1>7. QED  BY <1>5, <1>6

\* insertRecord, which always finds room.
LEMMA InsertStep ==
    ASSUME EnoughFrames, PagesSuffice, NEW b, NEW cnt, NEW f, f # INVALID_PAGE,
           NEW sc, NEW rs, Cardinality(rs) < MaxRecs, NEW d, HeapState(b, cnt, f, sc, rs, d)
    PROVE  LET r == insertRecord(b, f)
           IN  r.ok = TRUE /\ HeapState(r.b, cnt, f, sc, rs \cup {r.rid}, d)
<1> DEFINE r == insertRecord(b, f)
           s == ScanPage(sc)
<1>1. PICK n, ps : Shape(b, f, sc, rs, d, n, ps)
  BY DEF HeapState
<1>2. /\ cnt = PinOf(s) /\ MgrOK(b, cnt) /\ s \notin Reserved /\ FileIs(Values(b), n, ps)
      /\ rs = RecsOf(Values(b), n, ps) /\ d \subseteq rs /\ n > 0 /\ f = ps[1]
  BY <1>1, ScanPageIs DEF HeapState, Shape, ScanIs
<1> HIDE DEF s
<1>3. InsertDoes(b, PinOf(s), n, ps, r)
  BY <1>2, InsertIs
<1> HIDE DEF r
<1>4. PICK m, qs : /\ FileIs(Values(r.b), m, qs) /\ Grows(n, ps, m, qs)
                   /\ RecsOf(Values(r.b), m, qs) = rs \cup {r.rid}
  BY <1>2, <1>3 DEF InsertDoes
<1>5. r.ok = TRUE /\ Becomes(b, PinOf(s), r.b, PinOf(s), Values(r.b)) /\ d \subseteq rs \cup {r.rid}
  BY <1>2, <1>3 DEF InsertDoes
<1>6. HeapState(r.b, PinOf(s), f, sc, rs \cup {r.rid}, d)
  BY <1>1, <1>4, <1>5, ShapeGrows DEF s
<1>7. QED  BY <1>2, <1>5, <1>6 DEF r

\* deleteRecord, of a record that is not the last of a page somebody needs.
LEMMA DeleteStep ==
    ASSUME EnoughFrames, NEW b, NEW cnt, NEW f, f # INVALID_PAGE, NEW sc, NEW rs, NEW d,
           HeapState(b, cnt, f, sc, rs, d), NEW rid \in rs,
           PageValue(b, rid[1]).slots = {rid[2]} =>
              ~(rid[1] = f \/ (sc.frame # INVALID_PAGE /\ sc.id = rid[1]))
    PROVE  HeapState(deleteRecord(b, f, rid), cnt, f, sc, rs \ {rid}, d \ {rid})
<1> DEFINE v == Values(b)
           s == ScanPage(sc)
           e == deleteRecord(b, f, rid)
<1>1. PICK n, ps : Shape(b, f, sc, rs, d, n, ps)
  BY DEF HeapState
<1>2. /\ cnt = PinOf(s) /\ MgrOK(b, cnt) /\ s \notin Reserved /\ FileIs(v, n, ps)
      /\ rs = RecsOf(v, n, ps) /\ d \subseteq rs /\ n > 0 /\ f = ps[1] /\ n \in Nat
  BY <1>1, ScanPageIs, FileHas DEF HeapState, Shape, ScanIs
<1>3. PICK k \in 1 .. n : \E x \in v[ps[k]].slots : rid = <<ps[k], x>>
  BY <1>2, RecsAre
<1>4. PICK t \in v[ps[k]].slots : rid = <<ps[k], t>>
  BY <1>3
<1>5. ps[k] \in Page /\ rid[1] = ps[k] /\ rid[2] = t /\ PageValue(b, ps[k]) = v[ps[k]]
  <2>1. ps[k] \in Page
    BY <1>2, FileHas
  <2>2. QED  BY <1>4, <2>1 DEF Values
<1>6. s # INVALID_PAGE => sc.frame # INVALID_PAGE /\ sc.id = s
  BY DEF ScanPage
<1>7. v[ps[k]].slots = {t} => k # 1 /\ ps[k] # s
  <2>1. SUFFICES ASSUME v[ps[k]].slots = {t} PROVE k # 1 /\ ps[k] # s
    OBVIOUS
  <2>2. ps[k] # f /\ ~(sc.frame # INVALID_PAGE /\ sc.id = ps[k])
    BY <1>5, <2>1
  <2>3. ps[k] # INVALID_PAGE
    BY <1>5, NoPageIs
  <2>4. QED  BY <1>2, <1>6, <2>2, <2>3
<1> HIDE DEF s, v
<1>8. DeleteDoes(b, PinOf(s), n, ps, k, rid, e)
  BY <1>2, <1>4, <1>7, DeleteIs DEF v
<1> HIDE DEF e
<1>9. Becomes(b, PinOf(s), e, PinOf(s), Values(e))
  BY <1>8 DEF DeleteDoes
<1>10. CASE FileIs(Values(e), n, ps) /\ RecsOf(Values(e), n, ps) = rs \ {rid}
  <2>1. Grows(n, ps, n, ps)
    BY <1>2 DEF Grows
  <2>2. d \ {rid} \subseteq d /\ d \ {rid} \subseteq rs \ {rid}
    BY <1>2
  <2>3. HeapState(e, PinOf(s), f, sc, rs \ {rid}, d \ {rid})
    BY <1>1, <1>9, <1>10, <2>1, <2>2, ShapeGrows DEF s
  <2>4. QED  BY <1>2, <2>3 DEF e
<1>11. CASE /\ k \in 2 .. n /\ FileIs(Values(e), n - 1, CutAt(n, ps, k))
            /\ RecsOf(Values(e), n - 1, CutAt(n, ps, k)) = rs \ {rid}
            /\ \A r \in rs \ {rid} : r[1] # ps[k]
  <2> DEFINE qs == CutAt(n, ps, k)
             m == n - 1
  <2>1. Follows(n, ps, m, qs, ps[k])
    BY <1>2, <1>11, CutFollows
  <2>2. /\ d \ {rid} \subseteq d /\ d \ {rid} \subseteq rs \ {rid}
        /\ \A r \in d \ {rid} : r[1] # ps[k]
    BY <1>2, <1>11
  <2>3. m > 0 /\ f = qs[1]
    BY <1>2, <1>11 DEF CutAt
  <2>4. s # INVALID_PAGE => s # ps[k]
    <3>1. ASSUME s # INVALID_PAGE, s = ps[k] PROVE FALSE
      <4>1. PICK i \in 1 .. n : sc.id = ps[i] /\ b.pageNo[sc.frame] = ps[i]
        BY <1>1, <1>6, <3>1, ScanPageIs
      <4>2. v[ps[k]].slots # {t}
        BY <1>7, <3>1
      <4>3. PICK u \in v[ps[k]].slots : u # t
        BY <1>4, <4>2
      <4>4. <<ps[k], u>> \in rs
        BY <1>2, <4>3, RecsAre DEF v
      <4>5. <<ps[k], u>> # rid /\ <<ps[k], u>>[1] = ps[k]
        BY <1>4, <4>3
      <4>6. QED  BY <1>11, <4>4, <4>5
    <3>2. QED  BY <3>1
  <2> HIDE DEF qs, m
  <2>5. FileIs(Values(e), m, qs) /\ rs \ {rid} = RecsOf(Values(e), m, qs)
    BY <1>11 DEF qs, m
  <2>6. HeapState(e, PinOf(s), f, sc, rs \ {rid}, d \ {rid})
    <3> DEFINE gone == ps[k]
               rs2 == rs \ {rid}
               d2 == d \ {rid}
    <3>1. /\ Becomes(b, PinOf(ScanPage(sc)), e, PinOf(ScanPage(sc)), Values(e))
          /\ ScanPage(sc) # INVALID_PAGE => ScanPage(sc) # gone
          /\ Follows(n, ps, m, qs, gone)
      BY <1>9, <2>1, <2>4 DEF s
    <3>2. d2 \subseteq d /\ d2 \subseteq rs2 /\ \A r \in d2 : r[1] # gone
      BY <2>2
    <3>3. FileIs(Values(e), m, qs) /\ rs2 = RecsOf(Values(e), m, qs)
      BY <2>5
    <3> HIDE DEF gone, rs2, d2
    <3>4. f = INVALID_PAGE \/ (m > 0 /\ f = qs[1])
      BY <2>3
    <3>5. HeapState(e, PinOf(ScanPage(sc)), f, sc, rs2, d2)
      BY <1>1, <3>1, <3>2, <3>3, <3>4, ShapeMoves
    <3>6. QED  BY <3>5 DEF rs2, d2, s
  <2>7. QED  BY <1>2, <2>6 DEF e
<1>12. QED  BY <1>2, <1>8, <1>10, <1>11 DEF DeleteDoes, v

\* The empty file.
LEMMA NoFile ==
    ASSUME NEW e, MgrOK(e, NoPins), FileIs(Values(e), 0, <<>>), NEW cnt, cnt = NoPins
    PROVE  HeapState(e, cnt, INVALID_PAGE, NoScan, {}, {})
<1>1. RecsOf(Values(e), 0, <<>>) = {}
  BY DEF RecsOf
<1>2. /\ DOMAIN NoScan = ScanFields /\ NoScan.st = "closed" /\ NoScan.frame = INVALID_PAGE
      /\ NoScan.more = TRUE
  BY DEF NoScan, ScanFields
<1>3. ScanIs(e, NoScan, {}, {}, 0, <<>>)
  <2> HIDE DEF NoScan
  <2>1. QED  BY <1>2, NoPageIs DEF ScanIs
<1>4. Shape(e, INVALID_PAGE, NoScan, {}, {}, 0, <<>>)
  BY <1>1, <1>3 DEF Shape
<1>5. ScanPage(NoScan) = INVALID_PAGE
  BY <1>2 DEF ScanPage
<1>6. QED  BY <1>4, <1>5, NoPageIs DEF HeapState

\* deleteFile, with no scan open.
LEMMA DeleteFileStep ==
    ASSUME EnoughFrames, NEW b, NEW cnt, NEW f, f # INVALID_PAGE, NEW sc, sc.st = "closed",
           NEW rs, NEW d, HeapState(b, cnt, f, sc, rs, d)
    PROVE  HeapState(deleteFile(b, f), cnt, INVALID_PAGE, sc, {}, d)
<1>1. PICK n, ps : Shape(b, f, sc, rs, d, n, ps)
  BY DEF HeapState
<1>2. sc = NoScan /\ d = {} /\ ScanPage(sc) = INVALID_PAGE
  BY <1>1, ClosedIs
<1>3. cnt = NoPins /\ MgrOK(b, NoPins) /\ FileIs(Values(b), n, ps) /\ n > 0 /\ f = ps[1]
  BY <1>1, <1>2, NoPageIs DEF HeapState, Shape
<1> DEFINE e == deleteFile(b, f)
<1>4. MgrOK(e, NoPins) /\ FileIs(Values(e), 0, <<>>)
  BY <1>3, DeleteFileIs
<1> HIDE DEF e
<1>5. HeapState(e, cnt, INVALID_PAGE, NoScan, {}, {})
  BY <1>3, <1>4, NoFile
<1>6. QED  BY <1>2, <1>5 DEF e

\* A scan is opened and has every record of the file before it.
LEMMA OpenScanStep ==
    ASSUME EnoughFrames, NEW b, NEW cnt, NEW f, f # INVALID_PAGE, NEW sc, sc.st = "closed",
           NEW rs, NEW d, HeapState(b, cnt, f, sc, rs, d)
    PROVE  LET r == firstDataPage(b, f)
           IN  HeapState(r.b, PinOf(ScanPage(r.sc)), f, r.sc, rs, rs)
<1> DEFINE r == firstDataPage(b, f)
           x == [NoScan EXCEPT !.id = f, !.st = "open"]
<1>1. PICK n, ps : Shape(b, f, sc, rs, d, n, ps)
  BY DEF HeapState
<1>2. ScanPage(sc) = INVALID_PAGE
  BY <1>1, ClosedIs
<1>3. /\ MgrOK(b, NoPins) /\ FileIs(Values(b), n, ps) /\ n > 0 /\ f = ps[1]
      /\ rs = RecsOf(Values(b), n, ps)
  BY <1>1, <1>2, NoPageIs DEF HeapState, Shape
<1>4. Moved(b, x, rs, rs, n, ps, r)
  BY <1>3, FirstDataPageIs
<1> HIDE DEF r, x
<1>5. /\ MgrOK(r.b, PinOf(ScanPage(r.sc))) /\ Values(r.b) = Values(b)
      /\ ScanIs(r.b, r.sc, rs, rs, n, ps)
  BY <1>4 DEF Moved
<1>6. Shape(r.b, f, r.sc, rs, rs, n, ps)
  BY <1>3, <1>5 DEF Shape
<1>7. HeapState(r.b, PinOf(ScanPage(r.sc)), f, r.sc, rs, rs)
  BY <1>5, <1>6 DEF HeapState
<1>8. QED  BY <1>7 DEF r

\* getNext.
LEMMA GetNextStep ==
    ASSUME EnoughFrames, NEW b, NEW cnt, NEW f, NEW sc, sc.st # "closed",
           NEW rs, NEW d, HeapState(b, cnt, f, sc, rs, d),
           NEW r, r = IF sc.more THEN [b |-> b, sc |-> sc] ELSE nextDataPage(b, sc)
    PROVE  LET y == Fetched(r.sc, SlotsInHand(r.b, r.sc))
           IN  HeapState(r.b, PinOf(ScanPage(y)), f, y, rs, StillDue(r.b, r.sc, d))
<1> DEFINE y == Fetched(r.sc, SlotsInHand(r.b, r.sc))
           d2 == StillDue(r.b, r.sc, d)
<1>1. PICK n, ps : Shape(b, f, sc, rs, d, n, ps)
  BY DEF HeapState
<1>2. /\ MgrOK(b, PinOf(ScanPage(sc))) /\ FileIs(Values(b), n, ps)
      /\ rs = RecsOf(Values(b), n, ps) /\ ScanIs(b, sc, rs, d, n, ps)
      /\ f = INVALID_PAGE \/ (n > 0 /\ f = ps[1])
  BY <1>1 DEF HeapState, Shape
<1>3. Moved(b, sc, rs, d, n, ps, r)
  BY <1>2, NextPageIs
<1>4. /\ MgrOK(r.b, PinOf(ScanPage(r.sc))) /\ Values(r.b) = Values(b)
      /\ ScanIs(r.b, r.sc, rs, d, n, ps) /\ r.sc.st # "closed"
  BY <1>3 DEF Moved
<1>5. ScanIs(r.b, y, rs, d2, n, ps) /\ ScanPage(y) = ScanPage(r.sc)
  <2> DEFINE g == r.b
             z == r.sc
  <2>1. /\ MgrOK(g, PinOf(ScanPage(z))) /\ FileIs(Values(g), n, ps)
        /\ rs = RecsOf(Values(g), n, ps) /\ ScanIs(g, z, rs, d, n, ps) /\ z.st # "closed"
    BY <1>2, <1>4
  <2> HIDE DEF g, z
  <2>2. /\ ScanIs(g, Fetched(z, SlotsInHand(g, z)), rs, StillDue(g, z, d), n, ps)
        /\ ScanPage(Fetched(z, SlotsInHand(g, z))) = ScanPage(z)
    BY <2>1, FetchedIs
  <2>3. QED  BY <2>2 DEF g, z
<1> HIDE DEF y, d2
<1>6. Shape(r.b, f, y, rs, d2, n, ps)
  BY <1>2, <1>4, <1>5 DEF Shape
<1>7. HeapState(r.b, PinOf(ScanPage(y)), f, y, rs, d2)
  BY <1>4, <1>5, <1>6 DEF HeapState
<1>8. QED  BY <1>7 DEF y, d2

\* The scan's destructor.
LEMMA CloseScanStep ==
    ASSUME NEW b, NEW cnt, NEW f, NEW sc, NEW rs, NEW d, HeapState(b, cnt, f, sc, rs, d)
    PROVE  HeapState(IF sc.frame = INVALID_PAGE THEN b ELSE unpinPage(b, sc.id).b,
                     NoPins, f, NoScan, rs, {})
<1> DEFINE e == IF sc.frame = INVALID_PAGE THEN b ELSE unpinPage(b, sc.id).b
<1>1. PICK n, ps : Shape(b, f, sc, rs, d, n, ps)
  BY DEF HeapState
<1>2. /\ MgrOK(b, PinOf(ScanPage(sc))) /\ FileIs(Values(b), n, ps)
      /\ rs = RecsOf(Values(b), n, ps) /\ (f = INVALID_PAGE \/ (n > 0 /\ f = ps[1]))
  BY <1>1 DEF HeapState, Shape
<1>3. MgrOK(e, NoPins) /\ Values(e) = Values(b)
  <2>1. CASE sc.frame = INVALID_PAGE
    BY <1>2, <2>1, NoPageIs DEF ScanPage
  <2>2. CASE sc.frame # INVALID_PAGE
    <3> DEFINE p == sc.id
    <3>1. PICK i \in 1 .. n : p = ps[i]
      BY <1>1, <2>2, ScanPageIs
    <3>2. p \in Page /\ ScanPage(sc) = p
      BY <1>1, <1>2, <2>2, <3>1, FileHas, ScanPageIs
    <3>3. e = unpinPage(b, p).b
      BY <2>2
    <3> HIDE DEF p, e
    <3>4. MgrOK(b, Bump(NoPins, p)) /\ NoPins \in [Page -> Nat]
      BY <1>2, <3>2, NoPageIs
    <3>5. QED  BY <3>2, <3>3, <3>4, UnpinIs
  <2>3. QED  BY <2>1, <2>2
<1> HIDE DEF e
<1>4. /\ DOMAIN NoScan = ScanFields /\ NoScan.st = "closed" /\ NoScan.frame = INVALID_PAGE
      /\ NoScan.more = TRUE
  BY DEF NoScan, ScanFields
<1>5. ScanIs(e, NoScan, rs, {}, n, ps)
  <2> HIDE DEF NoScan
  <2>1. QED  BY <1>4, NoPageIs DEF ScanIs
<1>6. Shape(e, f, NoScan, rs, {}, n, ps)
  BY <1>2, <1>3, <1>5 DEF Shape
<1>7. ScanPage(NoScan) = INVALID_PAGE
  BY <1>4 DEF ScanPage
<1>8. HeapState(e, NoPins, f, NoScan, rs, {})
  BY <1>3, <1>6, <1>7, NoPageIs DEF HeapState
<1>9. QED  BY <1>8 DEF e

-----------------------------------------------------------------------------
(***************************************************************************)
(* Steps and theorems of heap files.                                       *)
(***************************************************************************)
\* Every call of a careful caller keeps the file, the pins and the scan in order.
LEMMA HeapStep ==
    ASSUME EnoughFrames, PagesSuffice, HeapInv, [CarefulNext]_heapVars
    PROVE  HeapInv'
<1> USE DEF HeapInv
<1>1. HeapState(bm, pins, first, scan, recs, due)
  OBVIOUS
<1>2. \A sc : Track(sc) => pins' = PinOf(ScanPage(sc))
  <2>1. SUFFICES ASSUME NEW sc, Track(sc) PROVE pins' = PinOf(ScanPage(sc))
    OBVIOUS
  <2>2. pins' = [p \in Page |-> IF sc.frame # INVALID_PAGE /\ p = sc.id THEN 1 ELSE 0]
    BY <2>1 DEF Track
  <2>3. \A p \in Page : (sc.frame # INVALID_PAGE /\ p = sc.id) <=> p = ScanPage(sc)
    BY NoPageIs DEF ScanPage
  <2>4. QED  BY <2>2, <2>3 DEF PinOf
<1>3. CASE Open
  <2> DEFINE r == Construct(bm, Entry(PageValue(bm, 0)))
  <2>1. HeapState(r.b, pins, r.first, scan, recs, due)
    BY <1>1, OpenStep
  <2>2. /\ bm' = r.b /\ first' = r.first
        /\ pins' = pins /\ scan' = scan /\ recs' = recs /\ due' = due
    BY <1>3 DEF Open
  <2> HIDE DEF r
  <2>3. QED  BY <2>1, <2>2
<1>4. CASE Close
  <2>1. /\ first' = INVALID_PAGE /\ bm' = bm /\ pins' = pins /\ scan' = scan
        /\ recs' = recs /\ due' = due
    BY <1>4 DEF Close, vars
  <2>2. PICK n, ps : Shape(bm, first, scan, recs, due, n, ps)
    BY <1>1 DEF HeapState
  <2>3. Shape(bm, INVALID_PAGE, scan, recs, due, n, ps)
    BY <2>2 DEF Shape
  <2>4. HeapState(bm, pins, INVALID_PAGE, scan, recs, due)
    BY <1>1, <2>3 DEF HeapState
  <2>5. QED  BY <2>1, <2>4
<1>5. CASE Read
  <2>1. first # INVALID_PAGE
    BY <1>5 DEF Read
  <2>2. HeapState(bm', pins, first, scan, recs, due)
    <3>1. CASE bm' = Walk(bm, first, {}).b
      BY <1>1, <2>1, <3>1, ReadStep
    <3>2. ASSUME NEW rid \in recs,
                 LET w == Walk(bm, first, {rid[1]})
                 IN  bm' = IF w.st = "found" THEN unpinPage(w.b, w.at).b ELSE w.b
          PROVE  HeapState(bm', pins, first, scan, recs, due)
      <4> DEFINE w == Walk(bm, first, {rid[1]})
                 e == IF w.st = "found" THEN unpinPage(w.b, w.at).b ELSE w.b
      <4>1. bm' = e
        BY <3>2
      <4>2. HeapState(e, pins, first, scan, recs, due)
        BY <1>1, <2>1, ReadStep
      <4> HIDE DEF e
      <4>3. QED  BY <4>1, <4>2
    <3>3. QED  BY <1>5, <3>1, <3>2 DEF Read
  <2>3. pins' = pins /\ first' = first /\ scan' = scan /\ recs' = recs /\ due' = due
    BY <1>5 DEF Read
  <2>4. QED  BY <2>2, <2>3
<1>6. CASE InsertRecord
  <2> DEFINE r == insertRecord(bm, first)
  <2>1. first # INVALID_PAGE /\ Cardinality(recs) < MaxRecs
    BY <1>6 DEF InsertRecord
  <2>2. r.ok = TRUE /\ HeapState(r.b, pins, first, scan, recs \cup {r.rid}, due)
    BY <1>1, <2>1, InsertStep
  <2>3. /\ bm' = r.b /\ recs' = (IF r.ok THEN recs \cup {r.rid} ELSE recs)
        /\ pins' = pins /\ first' = first /\ scan' = scan /\ due' = due
    BY <1>6 DEF InsertRecord
  <2> HIDE DEF r
  <2>4. QED  BY <2>2, <2>3
<1>7. ASSUME NEW rid \in recs, ~NeedsItsPage(rid), DeleteRecord(rid) PROVE HeapInv'
  <2>1. /\ first # INVALID_PAGE /\ ~NeedsItsPage(rid) /\ bm' = deleteRecord(bm, first, rid)
        /\ recs' = recs \ {rid} /\ due' = due \ {rid}
        /\ pins' = pins /\ first' = first /\ scan' = scan
    BY <1>7 DEF DeleteRecord
  <2>2. PageValue(bm, rid[1]).slots = {rid[2]} =>
           ~(rid[1] = first \/ (scan.frame # INVALID_PAGE /\ scan.id = rid[1]))
    BY <2>1 DEF NeedsItsPage
  <2>3. HeapState(deleteRecord(bm, first, rid), pins, first, scan, recs \ {rid}, due \ {rid})
    BY <1>1, <2>1, <2>2, DeleteStep
  <2>4. QED  BY <2>1, <2>3
<1>8. CASE DeleteFile
  <2>1. /\ first # INVALID_PAGE /\ scan.st = "closed" /\ bm' = deleteFile(bm, first)
        /\ first' = INVALID_PAGE /\ recs' = {} /\ pins' = pins /\ scan' = scan /\ due' = due
    BY <1>8 DEF DeleteFile
  <2>2. HeapState(deleteFile(bm, first), pins, INVALID_PAGE, scan, {}, due)
    BY <1>1, <2>1, DeleteFileStep
  <2>3. QED  BY <2>1, <2>2
<1>9. CASE OpenScan
  <2> DEFINE r == firstDataPage(bm, first)
  <2>1. /\ first # INVALID_PAGE /\ scan.st = "closed" /\ bm' = r.b /\ scan' = r.sc
        /\ Track(scan') /\ due' = recs /\ first' = first /\ recs' = recs
    BY <1>9 DEF OpenScan
  <2>2. HeapState(r.b, PinOf(ScanPage(r.sc)), first, r.sc, recs, recs)
    BY <1>1, <2>1, OpenScanStep
  <2> HIDE DEF r
  <2>3. pins' = PinOf(ScanPage(r.sc))
    BY <1>2, <2>1
  <2>4. QED  BY <2>1, <2>2, <2>3
<1>10. CASE GetNext
  <2> DEFINE r == IF scan.more THEN [b |-> bm, sc |-> scan] ELSE nextDataPage(bm, scan)
             y == Fetched(r.sc, SlotsInHand(r.b, r.sc))
  <2>1. /\ scan.st # "closed" /\ bm' = r.b /\ scan' = y
        /\ due' = StillDue(r.b, r.sc, due)
        /\ Track(scan') /\ first' = first /\ recs' = recs
    <3>1. scan.st # "closed" /\ Track(scan') /\ first' = first /\ recs' = recs
      BY <1>10 DEF GetNext
    <3>2. \E x \in {r} : /\ bm' = x.b
                        /\ scan' = Fetched(x.sc, SlotsInHand(x.b, x.sc))
                        /\ due' = StillDue(x.b, x.sc, due)
      BY <1>10, Zenon DEF GetNext, SlotsInHand, StillDue
    <3> HIDE DEF r
    <3>3. QED  BY <3>1, <3>2
  <2>2. HeapState(r.b, PinOf(ScanPage(y)), first, y, recs, StillDue(r.b, r.sc, due))
    <3>1. \A z : z = r => HeapState(z.b, PinOf(ScanPage(Fetched(z.sc, SlotsInHand(z.b, z.sc)))),
                                    first, Fetched(z.sc, SlotsInHand(z.b, z.sc)), recs,
                                    StillDue(z.b, z.sc, due))
      BY <1>1, <2>1, GetNextStep
    <3> HIDE DEF r
    <3>2. QED  BY <3>1
  <2> HIDE DEF r, y
  <2>3. pins' = PinOf(ScanPage(y))
    BY <1>2, <2>1
  <2>4. QED  BY <2>1, <2>2, <2>3
<1>11. CASE CloseScan
  <2> DEFINE e == IF scan.frame = INVALID_PAGE THEN bm ELSE unpinPage(bm, scan.id).b
  <2>1. /\ bm' = e /\ scan' = NoScan /\ Track(NoScan) /\ due' = {}
        /\ first' = first /\ recs' = recs
    BY <1>11 DEF CloseScan
  <2>2. HeapState(e, NoPins, first, NoScan, recs, {})
    BY <1>1, CloseScanStep
  <2> HIDE DEF e
  <2>3. pins' = NoPins
    <3>1. ScanPage(NoScan) = INVALID_PAGE
      BY DEF ScanPage, NoScan
    <3>2. QED  BY <1>2, <2>1, <3>1, NoPageIs
  <2>4. QED  BY <2>1, <2>2, <2>3
<1>12. CASE UNCHANGED heapVars
  <2>1. /\ bm' = bm /\ pins' = pins /\ first' = first /\ scan' = scan
        /\ recs' = recs /\ due' = due
    BY <1>12 DEF heapVars, vars
  <2>2. QED  BY <1>1, <2>1
<1>13. QED
  BY <1>3, <1>4, <1>5, <1>6, <1>7, <1>8, <1>9, <1>10, <1>11, <1>12 DEF CarefulNext, Call

\* The database begins with no file.
LEMMA HeapStart == HeapInit => HeapInv
<1> SUFFICES ASSUME HeapInit PROVE HeapInv
  OBVIOUS
<1>1. /\ bm = NewDatabase /\ pins = NoPins /\ first = INVALID_PAGE /\ scan = NoScan
      /\ recs = {} /\ due = {}
  BY DEF HeapInit, Init, NoPins
<1>2. /\ MgrOK(bm, NoPins) /\ Values(bm)[SpaceMap] = Reserved /\ Values(bm)[0] = Zero
  BY <1>1, NewDatabaseIs, Sizes DEF Values, InMap
<1>3. FileIs(Values(bm), 0, <<>>)
  BY <1>2, Sizes DEF FileIs
<1>4. QED  BY <1>1, <1>2, <1>3, NoFile DEF HeapInv

\* Whatever careful callers do, the invariant holds between calls.
THEOREM HeapSound == ASSUME EnoughFrames, PagesSuffice PROVE CarefulSpec => []HeapInv
<1>1. HeapInit => HeapInv
  BY HeapStart
<1>2. HeapInv /\ [CarefulNext]_heapVars => HeapInv'
  BY HeapStep
<1>3. QED  BY <1>1, <1>2, PTL DEF CarefulSpec

\* As long as no caller deletes the only record of the file's first page or of the page a
\* scan stands on, following the links from the directory finds exactly the records that
\* were inserted and not deleted, every page in use is one of the file's, and the pins are
\* the scan's.
THEOREM FilesStaySound == ASSUME EnoughFrames, PagesSuffice PROVE CarefulSpec => []FileSound
<1>1. HeapInv => FileSound
  <2> SUFFICES ASSUME HeapInv PROVE FileSound
    OBVIOUS
  <2>1. PICK n, ps : Shape(bm, first, scan, recs, due, n, ps)
    BY DEF HeapInv, HeapState
  <2>2. /\ pins = PinOf(ScanPage(scan)) /\ MgrOK(bm, pins) /\ FileIs(Values(bm), n, ps)
        /\ recs = RecsOf(Values(bm), n, ps) /\ (first = INVALID_PAGE \/ (n > 0 /\ first = ps[1]))
    BY <2>1 DEF HeapInv, HeapState, Shape
  <2>3. n \in Nat /\ \A i \in 1 .. n : /\ ps[i] \in Page /\ Values(bm)[ps[i]] \in HFPage
                                       /\ Values(bm)[ps[i]] = PageValue(bm, ps[i])
    BY <2>2, FileHas DEF Values
  <2>4. FilePages = {ps[i] : i \in 1 .. n}
    BY <2>2, FilePagesAre
  <2>5. recs = UNION {{<<p, s>> : s \in AsHFPage(PageValue(bm, p)).slots} : p \in FilePages}
    <3> DEFINE R == UNION {{<<p, s>> : s \in AsHFPage(PageValue(bm, p)).slots} : p \in FilePages}
    <3>1. \A i \in 1 .. n : AsHFPage(PageValue(bm, ps[i])).slots = Values(bm)[ps[i]].slots
      BY <2>3 DEF AsHFPage
    <3>2. \A r : r \in R <=> \E p \in FilePages : \E s \in AsHFPage(PageValue(bm, p)).slots : r = <<p, s>>
      OBVIOUS
    <3>3. \A r : r \in R <=> \E i \in 1 .. n : \E s \in AsHFPage(PageValue(bm, ps[i])).slots :
                                r = <<ps[i], s>>
      <4> HIDE DEF R
      <4>1. QED  BY <2>4, <3>2
    <3>4. \A r : r \in R <=> \E i \in 1 .. n : \E s \in Values(bm)[ps[i]].slots : r = <<ps[i], s>>
      <4> HIDE DEF R
      <4>1. QED  BY <3>1, <3>3
    <3>5. \A r : r \in R <=> r \in recs
      <4> HIDE DEF R
      <4>1. QED  BY <2>2, <3>4, RecsAre
    <3>6. recs = R
      <4> HIDE DEF R
      <4>1. QED  BY <3>5
    <3>7. QED  BY <3>6
  <2>6. InUse = Reserved \cup FilePages
    <3>1. Values(bm)[SpaceMap] = Reserved \cup {ps[i] : i \in 1 .. n}
      BY <2>2 DEF FileIs
    <3>2. Values(bm)[SpaceMap] = InUse
      BY Sizes DEF Values, InUse
    <3>3. QED  BY <2>4, <3>1, <3>2
  <2>7. first \in {INVALID_PAGE, Entry(PageValue(bm, 0))}
    <3>1. Values(bm)[0] = PageValue(bm, 0)
      BY Sizes DEF Values
    <3>2. Entry(Values(bm)[0]) = IF n = 0 THEN INVALID_PAGE ELSE ps[1]
      BY <2>2, EntryIs
    <3>3. QED  BY <2>2, <2>3, <3>1, <3>2
  <2>8. PinsMatch
    BY <2>2 DEF MgrOK, PinsMatch, Pinned, ClockOK
  <2>9. ASSUME scan.st = "closed", NEW f \in Frame PROVE bm.pin_cnt[f] = 0
    <3>1. pins = NoPins
      BY <2>1, <2>2, <2>9, ClosedIs, NoPageIs
    <3>2. /\ bm.pin_cnt[f] = IF bm.pageNo[f] = INVALID_PAGE THEN 0 ELSE pins[bm.pageNo[f]]
          /\ bm.pageNo[f] \in Page \cup {INVALID_PAGE}
      BY <2>2 DEF MgrOK, Pinned, Single
    <3>3. QED  BY <3>1, <3>2 DEF NoPins
  <2>10. QED  BY <2>5, <2>6, <2>7, <2>8, <2>9 DEF FileSound, NoPinsLeft
<1>2. QED  BY <1>1, HeapSound, PTL

\* A scan that says it is done has returned every record that was in the file when it
\* began and is still there, whatever careful callers inserted and deleted meanwhile.
THEOREM ScansReturnAll == ASSUME EnoughFrames, PagesSuffice PROVE CarefulSpec => []ScanComplete
<1>1. HeapInv => ScanComplete
  BY DEF HeapInv, HeapState, Shape, ScanIs, ScanComplete
<1>2. QED  BY <1>1, HeapSound, PTL
=============================================================================
