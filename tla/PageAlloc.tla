------------------------------ MODULE PageAlloc ------------------------------
(***************************************************************************)
(* What kalloc and kfree promise their callers, without free lists: an     *)
(* allocation takes an aligned run of unused pages, of its own choice, and *)
(* fails only when there is none; a free gives exactly that run back.      *)
(***************************************************************************)
EXTENDS Integers

CONSTANTS NPages,     \* pages of physical memory
          Available,  \* the pages the allocator may hand out
          Lengths     \* the lengths of runs, in pages, callers ask for

Page == 0 .. (NPages - 1)
Nil  == -1

VARIABLES runs,   \* the runs handed out: first page |-> set of pages
          last    \* the last answer: the run's first page, or Nil

avars == <<runs, last>>

Unused == Available \ UNION {runs[p] : p \in DOMAIN runs}

AlignedRun(n, i) == (n * i) .. (n * i + n - 1)

FreeRuns(n) ==
    {AlignedRun(n, i) : i \in {j \in 0 .. NPages : AlignedRun(n, j) \subseteq Unused}}

First(r) == CHOOSE p \in r : \A q \in r : p <= q

Init == runs = <<>> /\ last = Nil

Alloc(n) ==
    \/ \E r \in FreeRuns(n) :
         /\ last' = First(r)
         /\ runs' = [p \in DOMAIN runs \cup {First(r)} |->
                        IF p = First(r) THEN r ELSE runs[p]]
    \/ /\ FreeRuns(n) = {}
       /\ last' = Nil
       /\ UNCHANGED runs

Free(p) ==
    /\ p \in DOMAIN runs
    /\ runs' = [q \in DOMAIN runs \ {p} |-> runs[q]]
    /\ UNCHANGED last

Next == \/ \E n \in Lengths : Alloc(n)
        \/ \E p \in Page : Free(p)

Spec == Init /\ [][Next]_avars
=============================================================================
