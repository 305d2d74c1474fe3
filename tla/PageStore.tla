------------------------------ MODULE PageStore ------------------------------
(***************************************************************************)
(* What the buffer manager promises its callers, without frames, a clock   *)
(* or a disk: every page in use has one value, which only a caller that    *)
(* holds a pin changes, and a page that is in use is not given out again.  *)
(***************************************************************************)
EXTENDS Integers

CONSTANTS num_pages,  \* pages of the database
          Value,      \* what a page can hold
          Zero,       \* what the header page of a new database holds
          MaxPins     \* bound on the pins callers hold on one page

Page == 0 .. num_pages - 1
SpaceMap == 1
Reserved == {0, SpaceMap}

VARIABLES used,   \* the pages in use
          store,  \* the value of every page in use but the space map
          pins    \* the pins callers hold on each page

pvars == <<used, store, pins>>

Init == /\ used = Reserved
        /\ store = [p \in {0} |-> Zero]
        /\ pins = [p \in Page |-> 0]

\* Page p may hold anything now, every other page what it did.
Changed(p) == /\ store' \in [DOMAIN store -> Value]
              /\ \A q \in DOMAIN store \ {p} : store'[q] = store[q]

Pin(p) == /\ p \in used \ {SpaceMap} /\ pins[p] < MaxPins
          /\ pins' = [pins EXCEPT ![p] = @ + 1]
          /\ UNCHANGED <<used, store>>

Unpin(p) == /\ pins[p] > 0
            /\ pins' = [pins EXCEPT ![p] = @ - 1]
            /\ UNCHANGED <<used, store>>

Write(p) == /\ pins[p] > 0
            /\ \E v \in Value : store' = [store EXCEPT ![p] = v]
            /\ UNCHANGED <<used, pins>>

\* A run of pages nobody uses; the first is pinned, and nothing is said of
\* what they hold.
New == \E p \in Page, n \in 1 .. num_pages :
          LET run == p .. p + n - 1 IN
          /\ run \subseteq Page \ used
          /\ used' = used \cup run
          /\ store' \in [DOMAIN store \cup run -> Value]
          /\ \A q \in DOMAIN store : store'[q] = store[q]
          /\ pins' = [pins EXCEPT ![p] = 1]

\* Gives the page back with the one pin its caller may still have on it.
Free(p) == /\ p \in used \ Reserved /\ pins[p] <= 1
           /\ used' = used \ {p}
           /\ store' = [q \in DOMAIN store \ {p} |-> store[q]]
           /\ pins' = [pins EXCEPT ![p] = 0]

\* The space map cannot be changed: the page stays in use, its value is lost.
FreeFails(p) == /\ p \in used \ Reserved /\ pins[p] <= 1
                /\ Changed(p)
                /\ pins' = [pins EXCEPT ![p] = 0]
                /\ UNCHANGED used

Next == \/ \E p \in Page : Pin(p) \/ Unpin(p) \/ Write(p) \/ Free(p) \/ FreeFails(p)
        \/ New

Spec == Init /\ [][Next]_pvars
=============================================================================
