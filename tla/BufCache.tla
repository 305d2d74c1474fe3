------------------------------ MODULE BufCache ------------------------------
(***************************************************************************)
(* The buffer cache of the Chickadee file system (bufcache in k-chkfs.hh   *)
(* and k-chkfs.cc): get_disk_block and put_block, called by any number of  *)
(* kernel tasks.                                                           *)
(*                                                                         *)
(* lock_ protects every entry's bn_ and ref_; an entry's own lock protects *)
(* its flags_.  get_disk_block hands over from the first to the second     *)
(* once it has counted its reference, and lets go of both while the disk   *)
(* reads.  Changes of ref_ are a load and a store here, because one of     *)
(* them is made without lock_ (NoMemory, UndoRef): Spec is the cache as it *)
(* is, SerialSpec its behaviours in which that change does not overlap     *)
(* another one.  A task is one get_disk_block and the put_block that goes  *)
(* with it, and has a CPU to itself meanwhile: a caller that holds several *)
(* blocks at once is several tasks.                                        *)
(***************************************************************************)
EXTENDS Integers, FiniteSets

CONSTANTS Task,        \* kernel tasks
          Block,       \* disk blocks
          NE,          \* ne: the number of entries
          Buffer,      \* the memory kalloc can return
          None         \* nullptr, emptyblock, no task

Entry == 1 .. NE

ASSUME BufCacheAssumption ==
    /\ NE \in Nat \ {0}
    /\ None \notin Task /\ None \notin Block /\ None \notin Buffer
    /\ IsFiniteSet(Task)

VARIABLES lock,     \* lock_: the task that holds it
          elock,    \* e_[i].lock_
          bn,       \* e_[i].bn_
          ref,      \* e_[i].ref_
          loading,  \* e_[i].flags_ & f_loading
          loaded,   \* e_[i].flags_ & f_loaded
          buf,      \* e_[i].buf_
          heap,     \* buffers kalloc may return
          content,  \* the block whose data a buffer holds
          pc,       \* where each task is
          want,     \* the block it asked for
          slot,     \* its i
          tmp,      \* the value of ref_ it has loaded
          mine      \* the pointer get_disk_block returned to it

entries == <<elock, bn, ref, loading, loaded, buf>>
memory  == <<heap, content>>
locals  == <<want, slot, tmp, mine>>
vars == <<lock, entries, memory, pc, locals>>

Init == /\ lock = None
        /\ elock = [i \in Entry |-> None]
        /\ bn = [i \in Entry |-> None]
        /\ ref = [i \in Entry |-> 0]
        /\ loading = [i \in Entry |-> FALSE]
        /\ loaded = [i \in Entry |-> FALSE]
        /\ buf = [i \in Entry |-> None]
        /\ heap = Buffer
        /\ content = [m \in Buffer |-> None]
        /\ pc = [t \in Task |-> "idle"]
        /\ want = [t \in Task |-> None]
        /\ slot = [t \in Task |-> 1]
        /\ tmp = [t \in Task |-> 0]
        /\ mine = [t \in Task |-> None]

Goto(t, l) == pc' = [pc EXCEPT ![t] = l]

\* The value of ref_ is needed no longer; nor is, at the end of a call, the block's number.
Forget(t) == tmp' = [tmp EXCEPT ![t] = 0]
Leave(t)  == Goto(t, "idle") /\ want' = [want EXCEPT ![t] = None]

-----------------------------------------------------------------------------
(* get_disk_block *)

Get(t, b) == /\ pc[t] = "idle"
             /\ Goto(t, "get")
             /\ want' = [want EXCEPT ![t] = b]
             /\ UNCHANGED <<lock, entries, memory, slot, tmp, mine>>

Matches(b) == {i \in Entry : bn[i] = b}

\* Mutant of Candidates: does not look for an entry that has the block.
MutCandidates(b) == {i \in Entry : bn[i] = None}

\* Entries that may serve the block: the one that has it, else the empty ones.
Candidates(b) == IF Matches(b) # {} THEN Matches(b) ELSE {i \in Entry : bn[i] = None}

\* Mutant of Find: the cache is unlocked before the reference is counted.
MutFind(t) ==
    /\ pc[t] = "get" /\ lock = None
    /\ \E i \in Candidates(want[t]) :
          /\ \A j \in Candidates(want[t]) : i <= j
          /\ bn' = [bn EXCEPT ![i] = want[t]]
          /\ slot' = [slot EXCEPT ![t] = i]
    /\ Goto(t, "ref")
    /\ UNCHANGED <<lock, elock, ref, loading, loaded, buf, memory, want, tmp, mine>>

\* Lock the cache and look for a slot; the first candidate is taken.
Find(t) ==
    /\ pc[t] = "get" /\ lock = None
    /\ \E i \in Candidates(want[t]) :
          /\ \A j \in Candidates(want[t]) : i <= j
          /\ bn' = [bn EXCEPT ![i] = want[t]]
          /\ slot' = [slot EXCEPT ![t] = i]
    /\ lock' = t
    /\ Goto(t, "ref")
    /\ UNCHANGED <<elock, ref, loading, loaded, buf, memory, want, tmp, mine>>

\* "cache full!"
NoRoom(t) ==
    /\ pc[t] = "get" /\ lock = None
    /\ Candidates(want[t]) = {}
    /\ Leave(t)
    /\ UNCHANGED <<lock, entries, memory, slot, tmp, mine>>

LoadRef(t, from, to) ==
    /\ pc[t] = from
    /\ tmp' = [tmp EXCEPT ![t] = ref[slot[t]]]
    /\ Goto(t, to)
    /\ UNCHANGED <<lock, entries, memory, want, slot, mine>>

\* ++e_[i].ref_
AddRef(t) ==
    /\ pc[t] = "ref1"
    /\ ref' = [ref EXCEPT ![slot[t]] = tmp[t] + 1]
    /\ Forget(t)
    /\ Goto(t, "switch")
    /\ UNCHANGED <<lock, elock, bn, loading, loaded, buf, memory, want, slot, mine>>

\* Switch from the cache's lock to the entry's.
Switch(t) ==
    /\ pc[t] = "switch" /\ elock[slot[t]] = None
    /\ elock' = [elock EXCEPT ![slot[t]] = t]
    /\ lock' = None
    /\ Goto(t, "load")
    /\ UNCHANGED <<bn, ref, loading, loaded, buf, memory, locals>>

\* The block is in memory: unlock and return it.
Return(t) ==
    /\ pc[t] = "load" /\ loaded[slot[t]]
    /\ mine' = [mine EXCEPT ![t] = buf[slot[t]]]
    /\ elock' = [elock EXCEPT ![slot[t]] = None]
    /\ Goto(t, "held")
    /\ UNCHANGED <<lock, bn, ref, loading, loaded, buf, memory, want, slot, tmp>>

\* Nobody is reading the block: get a buffer if there is none, and read it.
StartRead(t) ==
    LET i == slot[t] IN
    /\ pc[t] = "load" /\ ~loaded[i] /\ ~loading[i]
    /\ \/ buf[i] # None /\ UNCHANGED <<buf, heap>>
       \/ /\ buf[i] = None
          /\ \E m \in heap : /\ buf' = [buf EXCEPT ![i] = m]
                             /\ heap' = heap \ {m}
    /\ loading' = [loading EXCEPT ![i] = TRUE]
    /\ elock' = [elock EXCEPT ![i] = None]
    /\ Goto(t, "reading")
    /\ UNCHANGED <<lock, bn, ref, loaded, content, locals>>

\* kalloc returned nullptr, as it may at any time, the rest of the kernel using the
\* same memory: drop the reference, with only the entry locked.
NoMemory(t) ==
    /\ pc[t] = "load" /\ ~loaded[slot[t]] /\ ~loading[slot[t]]
    /\ buf[slot[t]] = None
    /\ Goto(t, "unref")
    /\ UNCHANGED <<lock, entries, memory, locals>>

UndoRef(t) ==
    /\ pc[t] = "unref1"
    /\ ref' = [ref EXCEPT ![slot[t]] = tmp[t] - 1]
    /\ elock' = [elock EXCEPT ![slot[t]] = None]
    /\ Forget(t) /\ Leave(t)
    /\ UNCHANGED <<lock, bn, loading, loaded, buf, memory, slot, mine>>

\* Somebody is: release the entry and try again (waiter::block is empty).
AwaitRead(t) ==
    /\ pc[t] = "load" /\ ~loaded[slot[t]] /\ loading[slot[t]]
    /\ elock' = [elock EXCEPT ![slot[t]] = None]
    /\ Goto(t, "wait")
    /\ UNCHANGED <<lock, bn, ref, loading, loaded, buf, memory, locals>>

Relock(t) ==
    /\ pc[t] = "wait" /\ elock[slot[t]] = None
    /\ elock' = [elock EXCEPT ![slot[t]] = t]
    /\ Goto(t, "load")
    /\ UNCHANGED <<lock, bn, ref, loading, loaded, buf, memory, locals>>

\* sata_disk->read() returns.
DiskRead(t) ==
    /\ pc[t] = "reading"
    /\ content' = [content EXCEPT ![buf[slot[t]]] = want[t]]
    /\ Goto(t, "read")
    /\ UNCHANGED <<lock, entries, heap, locals>>

\* Mutant of FinishRead: f_loading is cleared and f_loaded is not set.
MutFinishRead(t) ==
    LET i == slot[t] IN
    /\ pc[t] = "read" /\ elock[i] = None
    /\ elock' = [elock EXCEPT ![i] = t]
    /\ loading' = [loading EXCEPT ![i] = FALSE]
    /\ Goto(t, "load")
    /\ UNCHANGED <<lock, bn, ref, loaded, buf, memory, locals>>

\* The block has come: lock the entry again and say so.
FinishRead(t) ==
    LET i == slot[t] IN
    /\ pc[t] = "read" /\ elock[i] = None
    /\ elock' = [elock EXCEPT ![i] = t]
    /\ loading' = [loading EXCEPT ![i] = FALSE]
    /\ loaded' = [loaded EXCEPT ![i] = TRUE]
    /\ Goto(t, "load")
    /\ UNCHANGED <<lock, bn, ref, buf, memory, locals>>

-----------------------------------------------------------------------------
(* put_block *)

CallPut(t) == /\ pc[t] = "held"
              /\ Goto(t, "drop")
              /\ UNCHANGED <<lock, entries, memory, locals>>

\* Lock the cache and find the referenced entry of the buffer.
Put(t) ==
    /\ pc[t] = "drop" /\ lock = None
    /\ \E i \in Entry : /\ ref[i] # 0 /\ buf[i] = mine[t]
                        /\ \A j \in Entry : ref[j] # 0 /\ buf[j] = mine[t] => i <= j
                        /\ slot' = [slot EXCEPT ![t] = i]
    /\ lock' = t
    /\ Goto(t, "put")
    /\ UNCHANGED <<entries, memory, want, tmp, mine>>

\* Mutant of DropRef: the buffer is freed whoever else has a reference.
MutDropRefFrees(t) ==
    LET i == slot[t] IN
    /\ pc[t] = "put1"
    /\ ref' = [ref EXCEPT ![i] = tmp[t] - 1]
    /\ IF TRUE
       THEN /\ heap' = heap \cup {buf[i]}
            /\ bn' = [bn EXCEPT ![i] = None]
            /\ loading' = [loading EXCEPT ![i] = FALSE]
            /\ loaded' = [loaded EXCEPT ![i] = FALSE]
            /\ buf' = [buf EXCEPT ![i] = None]
       ELSE UNCHANGED <<heap, bn, loading, loaded, buf>>
    /\ mine' = [mine EXCEPT ![t] = None]
    /\ lock' = None
    /\ Forget(t) /\ Leave(t)
    /\ UNCHANGED <<elock, content, slot>>

\* Drop the reference; the last one frees the buffer and clears the entry.
DropRef(t) ==
    LET i == slot[t] IN
    /\ pc[t] = "put1"
    /\ ref' = [ref EXCEPT ![i] = tmp[t] - 1]
    /\ IF tmp[t] - 1 = 0
       THEN /\ heap' = heap \cup {buf[i]}
            /\ bn' = [bn EXCEPT ![i] = None]
            /\ loading' = [loading EXCEPT ![i] = FALSE]
            /\ loaded' = [loaded EXCEPT ![i] = FALSE]
            /\ buf' = [buf EXCEPT ![i] = None]
       ELSE UNCHANGED <<heap, bn, loading, loaded, buf>>
    /\ mine' = [mine EXCEPT ![t] = None]
    /\ lock' = None
    /\ Forget(t) /\ Leave(t)
    /\ UNCHANGED <<elock, content, slot>>

-----------------------------------------------------------------------------

\* What a task does inside get_disk_block and put_block, but for the disk.
Run(t) == \/ Find(t) \/ NoRoom(t)
          \/ LoadRef(t, "ref", "ref1") \/ AddRef(t) \/ Switch(t)
          \/ Return(t) \/ StartRead(t) \/ AwaitRead(t) \/ Relock(t)
          \/ NoMemory(t) \/ LoadRef(t, "unref", "unref1") \/ UndoRef(t)
          \/ FinishRead(t)
          \/ Put(t) \/ LoadRef(t, "put", "put1") \/ DropRef(t)

Next == \E t \in Task : \/ Run(t) \/ DiskRead(t) \/ CallPut(t)
                        \/ \E b \in Block : Get(t, b)

Spec == Init /\ [][Next]_vars

\* No task is in the middle of the --ref_ that is made without lock_ while another is
\* in the middle of ++ref_ for the same entry.  Nothing in the code sees to that.
Serial == \A t, u \in Task : pc[t] = "unref1" /\ pc[u] = "ref1" => slot[t] # slot[u]

SerialSpec == Init /\ [][Next /\ Serial']_vars

\* Interrupts are masked from the call to the return, so a task in the middle of a
\* call keeps its CPU; a spinlock that is free again and again is in the end taken by
\* each task spinning on it.  Whether the disk answers is not up to the cache, and
\* whether a block that is held is put back is up to the caller.
Fairness ==
    \A t \in Task :
        /\ WF_vars(Run(t))
        /\ SF_vars(Find(t) \/ NoRoom(t) \/ Switch(t) \/ Relock(t) \/ FinishRead(t) \/ Put(t))

FairSpec == SerialSpec /\ Fairness

-----------------------------------------------------------------------------
(* Properties *)

Labels == {"idle", "get", "ref", "ref1", "switch", "load", "unref", "unref1",
           "wait", "reading", "read", "held", "drop", "put", "put1"}

\* Every variable keeps its type.
TypeOK == /\ lock \in Task \cup {None}
          /\ elock \in [Entry -> Task \cup {None}]
          /\ bn \in [Entry -> Block \cup {None}]
          /\ ref \in [Entry -> 0 .. Cardinality(Task)]
          /\ loading \in [Entry -> BOOLEAN]
          /\ loaded \in [Entry -> BOOLEAN]
          /\ buf \in [Entry -> Buffer \cup {None}]
          /\ heap \subseteq Buffer
          /\ content \in [Buffer -> Block \cup {None}]
          /\ pc \in [Task -> Labels]
          /\ want \in [Task -> Block \cup {None}]
          /\ slot \in [Task -> Entry]
          /\ tmp \in [Task -> Nat]
          /\ mine \in [Task -> Buffer \cup {None}]

\* Labels between the store of ++ref_ and the store of --ref_.
Referring == {"switch", "load", "wait", "reading", "read", "held", "drop", "put",
              "put1", "unref", "unref1"}

Holders(i) == {t \in Task : pc[t] \in Referring /\ slot[t] = i}

\* Every variable keeps its type, and ref_ is the number of tasks that have a
\* reference to the entry: what "lock_ protects all entries' bn_ and ref_" is for.
RefCount == TypeOK /\ \A i \in Entry : ref[i] = Cardinality(Holders(i))

\* No block is cached twice, no buffer is shared or free while in an entry, and one
\* task at a time reads a block from the disk into it: two tasks never work on
\* different copies of a block.
OneCopy ==
    /\ \A i, j \in Entry : i # j /\ bn[i] # None => bn[i] # bn[j]
    /\ \A i, j \in Entry : i # j /\ buf[i] # None => buf[i] # buf[j]
    /\ \A i \in Entry : buf[i] \notin heap
    /\ \A i \in Entry :
         LET readers == {t \in Task : pc[t] \in {"reading", "read"} /\ slot[t] = i}
         IN  /\ Cardinality(readers) <= 1
             /\ loading[i] <=> (readers # {})

\* From its get_disk_block to its put_block a task can rely on its buffer: it is
\* the block asked for, fully read, and it stays so whatever other tasks do.
HeldBlock ==
    \A t \in Task : pc[t] \in {"held", "drop", "put", "put1"} =>
        /\ bn[slot[t]] = want[t] /\ buf[slot[t]] = mine[t]
        /\ mine[t] \in Buffer \ heap
        /\ content[mine[t]] = want[t]

\* If the disk answers every read, every get_disk_block and every put_block returns,
\* although the locks nest and tasks wait for each other's reads.
GetReturns ==
    (\A t \in Task : []<>(pc[t] # "reading")) =>
        \A t \in Task : (pc[t] \in Labels \ {"idle", "held"}) ~> (pc[t] \in {"idle", "held"})
=============================================================================
