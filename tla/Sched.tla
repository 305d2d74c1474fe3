------------------------------- MODULE Sched -------------------------------
(***************************************************************************)
(* Processes of the Chickadee kernel: how they are made (process_setup,    *)
(* fork in kernel.cc), stopped (the timer interrupt, SYSCALL_YIELD,        *)
(* SYSCALL_PAUSE, a page fault; kernel.cc and k-exception.S) and run       *)
(* again (cpustate::schedule and enqueue in k-cpu.cc, proc::resume).       *)
(*                                                                         *)
(* A CPU is in user mode, in one of the two places where the kernel        *)
(* enables interrupts ("pause", and "window" in proc::yield), or in a      *)
(* section with interrupts masked.  A system call that waits, for a line   *)
(* from the keyboard or for the disk, is such a section: waiter::block is  *)
(* empty, so it spins ("read") and its CPU runs nothing else until the     *)
(* input comes.  A run queue is read when its lock is taken and written    *)
(* back when it is released (q is the copy), so that the lock matters.     *)
(***************************************************************************)
EXTENDS Integers, Sequences, FiniteSets

CONSTANTS ncpu,        \* CPUs
          NPROC,       \* slots of ptable; slot 0 is never used
          None,        \* nullptr
          Calls,       \* what each process does: "window" is yield, "read" waits; "pause", "fork", "fault"
          KallocFails  \* whether memory may run out

ASSUME SchedAssumption ==
    /\ ncpu \in Nat \ {0} /\ NPROC \in Nat \ {0, 1}
    /\ None \notin Int \cup {"user", "pause", "window"}
    /\ Calls \in [1 .. NPROC - 1 -> SUBSET {"window", "pause", "fork", "read", "fault"}]
    /\ KallocFails \in BOOLEAN

Cpu == 0 .. ncpu - 1
Pid == 1 .. NPROC - 1
Idle(c) == -1 - c                    \* idle_task_ of CPU c
Proc == Pid \cup {Idle(c) : c \in Cpu}
Home(p) == p % ncpu                  \* the CPU of process p

VARIABLES ptable,      \* the slots in use
          ptable_lock, \* the CPU that holds it
          current,     \* current_ of each CPU
          runq,        \* runq_
          runq_lock,   \* runq_lock_: the CPU that holds it
          state,       \* state_ of each process
          regs,        \* regs_: where the saved registers continue
          yields,      \* yields_ # nullptr
          at,          \* where each CPU is
          yfrom,       \* yielding_from
          new,         \* newPID
          q,           \* the run queue this CPU works on
          panicking

procs == <<state, regs, yields>>
cpus  == <<at, yfrom, new, q>>
vars  == <<ptable, ptable_lock, current, runq, runq_lock, procs, cpus, panicking>>

\* CPU 0 is in process_setup(1), with ptable_lock; the others enter schedule.
Init == /\ ptable = {1} /\ ptable_lock = 0
        /\ current = [c \in Cpu |-> None]
        /\ runq = [c \in Cpu |-> << >>]
        /\ runq_lock = [c \in Cpu |-> None]
        /\ state = [p \in Proc |-> IF p = 1 THEN "runnable" ELSE "blank"]
        /\ regs = [p \in Proc |-> IF p = 1 THEN "user" ELSE None]
        /\ yields = [p \in Proc |-> FALSE]
        /\ at = [c \in Cpu |-> IF c = 0 THEN "enqueue" ELSE "schedule"]
        /\ yfrom = [c \in Cpu |-> None]
        /\ new = [c \in Cpu |-> IF c = 0 THEN 1 ELSE None]
        /\ q = [c \in Cpu |-> << >>]
        /\ panicking = FALSE

Goto(c, l) == at' = [at EXCEPT ![c] = l]

Interruptible(c) == at[c] \in {"user", "pause", "window"}

\* Contents of a run queue; whether runq_links_ of p is linked.
Elements(s) == {s[i] : i \in 1 .. Len(s)}
Linked(p) == \E c \in Cpu : p \in Elements(runq[c])

\* What CPU c's queue is after enqueue(p), given current_ and the queue.
Enqueued(s, cur, p) == IF cur # p /\ ~Linked(p) THEN Append(s, p) ELSE s

-----------------------------------------------------------------------------
(* Ways into the kernel *)

\* Mutant of Timer: the interrupted registers are not recorded.
MutTimer(c) ==
    /\ Interruptible(c) /\ ~panicking
    /\ yfrom' = [yfrom EXCEPT ![c] = current[c]]
    /\ \/ Goto(c, "schedule")
       \/ c = 0 /\ Goto(c, "memshow")
    /\ UNCHANGED <<ptable, ptable_lock, current, runq, runq_lock, procs,
                   new, q, panicking>>

\* Timer interrupt; on CPU 0 it may draw the memory viewer first.
Timer(c) ==
    /\ Interruptible(c) /\ ~panicking
    /\ regs' = [regs EXCEPT ![current[c]] = at[c]]
    /\ yfrom' = [yfrom EXCEPT ![c] = current[c]]
    /\ \/ Goto(c, "schedule")
       \/ c = 0 /\ Goto(c, "memshow")
    /\ UNCHANGED <<ptable, ptable_lock, current, runq, runq_lock, state, yields,
                   new, q, panicking>>

\* A system call that only moves the CPU: yield, pause, fork and those that wait.
Enter(c, l) ==
    /\ at[c] = "user" /\ current[c] \in Pid /\ l \in Calls[current[c]] /\ ~panicking
    /\ Goto(c, l)
    /\ UNCHANGED <<ptable, ptable_lock, current, runq, runq_lock, procs,
                   yfrom, new, q, panicking>>

EndPause(c) ==
    /\ at[c] = "pause"
    /\ Goto(c, "user")
    /\ UNCHANGED <<ptable, ptable_lock, current, runq, runq_lock, procs,
                   yfrom, new, q, panicking>>

\* The line, or the disk's answer, is there.
EndRead(c) ==
    /\ at[c] = "read"
    /\ Goto(c, "user")
    /\ UNCHANGED <<ptable, ptable_lock, current, runq, runq_lock, procs,
                   yfrom, new, q, panicking>>

\* Page fault of a process: it is marked as broken and yields.
PageFault(c) ==
    /\ at[c] = "user" /\ current[c] \in Pid /\ "fault" \in Calls[current[c]] /\ ~panicking
    /\ state' = [state EXCEPT ![current[c]] = "broken"]
    /\ Goto(c, "window")
    /\ UNCHANGED <<ptable, ptable_lock, current, runq, runq_lock, regs, yields,
                   yfrom, new, q, panicking>>

\* proc::yield after it let delayed interrupts happen.
YieldSave(c) ==
    /\ at[c] = "window"
    /\ yields' = [yields EXCEPT ![current[c]] = TRUE]
    /\ yfrom' = [yfrom EXCEPT ![c] = current[c]]
    /\ Goto(c, "schedule")
    /\ UNCHANGED <<ptable, ptable_lock, current, runq, runq_lock, state, regs,
                   new, q, panicking>>

\* Mutant of Memshow: reads ptable without its lock.
MutMemshow(c) ==
    /\ at[c] = "memshow"
    /\ Goto(c, "show")
    /\ UNCHANGED <<ptable_lock, ptable, current, runq, runq_lock, procs, yfrom, new, q, panicking>>

Memshow(c) ==
    /\ at[c] = "memshow" /\ ptable_lock = None
    /\ ptable_lock' = c
    /\ Goto(c, "show")
    /\ UNCHANGED <<ptable, current, runq, runq_lock, procs, yfrom, new, q, panicking>>

EndMemshow(c) ==
    /\ at[c] = "show"
    /\ ptable_lock' = None
    /\ Goto(c, "schedule")
    /\ UNCHANGED <<ptable, current, runq, runq_lock, procs, yfrom, new, q, panicking>>

-----------------------------------------------------------------------------
(* cpustate::schedule *)

\* Make the idle task the first time; do not run it twice in a row.
Schedule(c) ==
    /\ at[c] = "schedule"
    /\ \/ /\ state[Idle(c)] = "blank"
          /\ state' = [state EXCEPT ![Idle(c)] = "runnable"]
          /\ regs' = [regs EXCEPT ![Idle(c)] = "user"]
          /\ UNCHANGED yfrom
       \/ /\ state[Idle(c)] # "blank"
          /\ yfrom' = [yfrom EXCEPT ![c] = IF current[c] = Idle(c) THEN Idle(c) ELSE @]
          /\ UNCHANGED <<state, regs>>
    /\ Goto(c, "loop")
    /\ UNCHANGED <<ptable, ptable_lock, current, runq, runq_lock, yields, new, q, panicking>>

TryCurrent(c) == /\ current[c] # None
                 /\ state[current[c]] = "runnable"
                 /\ current[c] # yfrom[c]

\* proc::resume: continue at the yieldstate if there is one, else at the regstate.
Resume(c) ==
    LET p == current[c] IN
    /\ at[c] = "loop" /\ TryCurrent(c) /\ ~panicking
    /\ \/ /\ yields[p]
          /\ yields' = [yields EXCEPT ![p] = FALSE]
          /\ Goto(c, "user")
          /\ UNCHANGED regs
       \/ /\ ~yields[p] /\ regs[p] # None
          /\ Goto(c, regs[p])
          /\ regs' = [regs EXCEPT ![p] = None]
          /\ UNCHANGED yields
    /\ UNCHANGED <<ptable, ptable_lock, current, runq, runq_lock, state,
                   yfrom, new, q, panicking>>

\* Mutant of Requeue: does not wait for the queue's lock.
MutRequeueLock(c) ==
    /\ at[c] = "loop" /\ ~TryCurrent(c)
    /\ runq_lock' = [runq_lock EXCEPT ![c] = c]
    /\ q' = [q EXCEPT ![c] =
                IF current[c] # None /\ state[current[c]] = "runnable"
                THEN Enqueued(runq[c], None, current[c]) ELSE runq[c]]
    /\ current' = [current EXCEPT ![c] = None]
    /\ yfrom' = [yfrom EXCEPT ![c] = IF current[c] = None THEN @ ELSE None]
    /\ Goto(c, "pop")
    /\ UNCHANGED <<ptable, ptable_lock, runq, procs, new, panicking>>

\* Mutant of Requeue: the process goes to the front of the queue.
MutRequeueFront(c) ==
    /\ at[c] = "loop" /\ ~TryCurrent(c)
    /\ runq_lock[c] = None
    /\ runq_lock' = [runq_lock EXCEPT ![c] = c]
    /\ q' = [q EXCEPT ![c] =
                IF current[c] # None /\ state[current[c]] = "runnable"
                THEN <<current[c]>> \o runq[c] ELSE runq[c]]
    /\ current' = [current EXCEPT ![c] = None]
    /\ yfrom' = [yfrom EXCEPT ![c] = IF current[c] = None THEN @ ELSE None]
    /\ Goto(c, "pop")
    /\ UNCHANGED <<ptable, ptable_lock, runq, procs, new, panicking>>

\* Lock the run queue and put the process that ran until now at its end.
Requeue(c) ==
    /\ at[c] = "loop" /\ ~TryCurrent(c)
    /\ runq_lock[c] = None
    /\ runq_lock' = [runq_lock EXCEPT ![c] = c]
    /\ q' = [q EXCEPT ![c] =
                IF current[c] # None /\ state[current[c]] = "runnable"
                THEN Enqueued(runq[c], None, current[c]) ELSE runq[c]]
    /\ current' = [current EXCEPT ![c] = None]
    /\ yfrom' = [yfrom EXCEPT ![c] = IF current[c] = None THEN @ ELSE None]
    /\ Goto(c, "pop")
    /\ UNCHANGED <<ptable, ptable_lock, runq, procs, new, panicking>>

\* Take the head of the run queue, the idle task if it is empty; unlock.
Pop(c) ==
    /\ at[c] = "pop"
    /\ \/ /\ q[c] # << >>
          /\ current' = [current EXCEPT ![c] = Head(q[c])]
          /\ runq' = [runq EXCEPT ![c] = Tail(q[c])]
       \/ /\ q[c] = << >>
          /\ current' = [current EXCEPT ![c] = Idle(c)]
          /\ runq' = [runq EXCEPT ![c] = << >>]
    /\ runq_lock' = [runq_lock EXCEPT ![c] = None]
    /\ q' = [q EXCEPT ![c] = << >>]
    /\ Goto(c, "loop")
    /\ UNCHANGED <<ptable, ptable_lock, procs, yfrom, new, panicking>>

-----------------------------------------------------------------------------
(* proc::fork; process_setup ends with the same enqueueing *)

\* Mutant of ForkLock: scans the table without its lock.
MutForkLock(c) ==
    /\ at[c] = "fork"
    /\ \E i \in Pid \ ptable : /\ \A j \in Pid \ ptable : i <= j
                              /\ new' = [new EXCEPT ![c] = i]
    /\ Goto(c, "alloc")
    /\ UNCHANGED <<ptable, ptable_lock, current, runq, runq_lock, procs, yfrom, q, panicking>>

\* Lock ptable and choose the first free PID.
ForkLock(c) ==
    /\ at[c] = "fork" /\ ptable_lock = None
    /\ \E i \in Pid \ ptable : /\ \A j \in Pid \ ptable : i <= j
                              /\ new' = [new EXCEPT ![c] = i]
    /\ ptable_lock' = c
    /\ Goto(c, "alloc")
    /\ UNCHANGED <<ptable, current, runq, runq_lock, procs, yfrom, q, panicking>>

OutOfPids(c) ==
    /\ at[c] = "fork" /\ ptable_lock = None
    /\ Pid \ ptable = {}
    /\ Goto(c, "user")
    /\ UNCHANGED <<ptable, ptable_lock, current, runq, runq_lock, procs, yfrom, new, q, panicking>>

ForkAlloc(c) ==
    /\ at[c] = "alloc"
    /\ ptable' = ptable \cup {new[c]}
    /\ Goto(c, "copy")
    /\ UNCHANGED <<ptable_lock, current, runq, runq_lock, procs, yfrom, new, q, panicking>>

\* assert(p && npt), or assert(childPhysicalAddressK), fails.
NoMemory(c) ==
    /\ at[c] \in {"alloc", "copy"} /\ KallocFails
    /\ panicking' = TRUE
    /\ Goto(c, "panic")
    /\ UNCHANGED <<ptable, ptable_lock, current, runq, runq_lock, procs, yfrom, new, q>>

\* init_user and the copy of the parent's memory and registers.
ForkCopy(c) ==
    /\ at[c] = "copy"
    /\ state' = [state EXCEPT ![new[c]] = "runnable"]
    /\ regs' = [regs EXCEPT ![new[c]] = "user"]
    /\ yields' = [yields EXCEPT ![new[c]] = FALSE]
    /\ Goto(c, "enqueue")
    /\ UNCHANGED <<ptable, ptable_lock, current, runq, runq_lock, yfrom, new, q, panicking>>

LockRunq(c) ==
    LET h == Home(new[c]) IN
    /\ at[c] = "enqueue" /\ runq_lock[h] = None
    /\ runq_lock' = [runq_lock EXCEPT ![h] = c]
    /\ q' = [q EXCEPT ![c] = runq[h]]
    /\ Goto(c, "push")
    /\ UNCHANGED <<ptable, ptable_lock, current, runq, procs, yfrom, new, panicking>>

Push(c) ==
    LET h == Home(new[c]) IN
    /\ at[c] = "push"
    /\ runq' = [runq EXCEPT ![h] = Enqueued(q[c], current[h], new[c])]
    /\ runq_lock' = [runq_lock EXCEPT ![h] = None]
    /\ q' = [q EXCEPT ![c] = << >>]
    /\ Goto(c, "made")
    /\ UNCHANGED <<ptable, ptable_lock, current, procs, yfrom, new, panicking>>

\* fork returns to the parent, or kernel_start enters schedule.
Made(c) ==
    /\ at[c] = "made"
    /\ ptable_lock' = None
    /\ new' = [new EXCEPT ![c] = None]
    /\ \/ /\ current[c] # None
          /\ Goto(c, "user")
       \/ /\ current[c] = None
          /\ Goto(c, "schedule")
    /\ UNCHANGED <<ptable, current, runq, runq_lock, procs, yfrom, q, panicking>>

-----------------------------------------------------------------------------

Program(c) == \/ Enter(c, "window") \/ Enter(c, "pause") \/ Enter(c, "fork")
              \/ Enter(c, "read") \/ PageFault(c)

Kernel(c) == \/ EndPause(c) \/ YieldSave(c) \/ Memshow(c) \/ EndMemshow(c)
             \/ Schedule(c) \/ Resume(c) \/ Requeue(c) \/ Pop(c)
             \/ ForkLock(c) \/ OutOfPids(c) \/ ForkAlloc(c) \/ ForkCopy(c)
             \/ LockRunq(c) \/ Push(c) \/ Made(c)

Next == \E c \in Cpu : Timer(c) \/ Program(c) \/ EndRead(c) \/ Kernel(c) \/ NoMemory(c)

Spec == Init /\ [][Next]_vars

\* Kernel code keeps running; a pending timer interrupt is delivered when interrupts are
\* enabled; the delay of SYSCALL_PAUSE and the instruction in yield's window do not start
\* again when they are interrupted.  A lock that is taken again and again (a run queue's
\* by schedule, ptable's by the memory viewer) is in the end got by a fork; forks are too
\* few to keep schedule and the viewer from theirs.  That input comes (EndRead) is not
\* up to the kernel.
Fairness ==
    /\ \A c \in Cpu :
        /\ WF_vars(Kernel(c))
        /\ SF_vars(LockRunq(c) \/ ForkLock(c) \/ OutOfPids(c))
        /\ SF_vars(Timer(c))
    /\ \A p \in Pid :
        SF_vars(\E c \in Cpu : current[c] = p /\ (EndPause(c) \/ YieldSave(c)))

FairSpec == Spec /\ Fairness

-----------------------------------------------------------------------------
(* Properties *)

Labels == {"user", "pause", "window", "memshow", "show", "schedule", "loop", "pop",
           "fork", "alloc", "copy", "enqueue", "push", "made", "read", "panic"}

\* Every variable keeps its type.
TypeOK == /\ ptable \subseteq Pid
          /\ ptable_lock \in Cpu \cup {None}
          /\ current \in [Cpu -> Proc \cup {None}]
          /\ runq \in [Cpu -> Seq(Proc)] /\ q \in [Cpu -> Seq(Proc)]
          /\ runq_lock \in [Cpu -> Cpu \cup {None}]
          /\ state \in [Proc -> {"blank", "runnable", "broken"}]
          /\ regs \in [Proc -> {None, "user", "pause", "window"}]
          /\ yields \in [Proc -> BOOLEAN]
          /\ at \in [Cpu -> Labels]
          /\ yfrom \in [Cpu -> Proc \cup {None}]
          /\ new \in [Cpu -> Pid \cup {None}]
          /\ panicking \in BOOLEAN

\* The run queue of c as the holder of its lock sees it.
Queue(c) == IF at[c] = "pop" THEN q[c] ELSE runq[c]

\* Where p is: <<c, 0>> if it is c's current_, <<c, i>> if it is i-th in c's queue.
Places(p) == {x \in Cpu \X (0 .. NPROC + 1) :
                 \/ x[2] = 0 /\ current[x[1]] = p
                 \/ x[2] \in DOMAIN Queue(x[1]) /\ Queue(x[1])[x[2]] = p}

InFork(p) == \E c \in Cpu : new[c] = p /\ at[c] \in {"alloc", "copy", "enqueue", "push", "panic"}

Executing(p) == \E c \in Cpu : /\ current[c] = p
                               /\ at[c] \notin {"memshow", "show", "schedule", "loop"}

\* No process is lost or run twice: a task is the current one of at most one CPU or
\* on at most one run queue, once, and a runnable process that is made is somewhere.
NoProcessLost ==
    /\ \A p \in Proc : Cardinality(Places(p)) <= 1
    /\ \A p \in Pid : state[p] = "runnable" /\ ~InFork(p) => Places(p) # {}

\* proc::resumable's assertion "at most one at a time", and enqueue's: a runnable
\* task has one saved state exactly when no CPU executes it, and what runs in user mode
\* is runnable, so a process that faulted never gets back there.
Resumable ==
    /\ \A p \in Proc : state[p] = "runnable" =>
         IF Executing(p) THEN regs[p] = None /\ ~yields[p]
                         ELSE (regs[p] # None) # yields[p]
    /\ \A c \in Cpu : at[c] = "user" => state[current[c]] = "runnable"

\* The memory viewer, in CPU 0's timer interrupt, never sees a process that a fork
\* on another CPU has entered in the table and not yet initialized.
ShownComplete ==
    \A c \in Cpu : at[c] = "show" => \A p \in ptable : state[p] # "blank"

\* fork never makes a process out of one that exists: each child is its own.
FreshChild ==
    [][\A c \in Cpu : at[c] = "copy" /\ at'[c] = "enqueue" => state[new[c]] = "blank"]_vars

\* Round robin: if no call waits for ever, for a line or for the disk, every process
\* runs again and again until it or the kernel breaks; so every fork returns, whatever
\* the other CPUs and the memory viewer do.
EveryoneRuns ==
    (\A c \in Cpu : []<>(at[c] # "read")) =>
        \A p \in Pid : []<>(p \in ptable => \/ state[p] = "broken" \/ panicking
                                            \/ \E c \in Cpu : current[c] = p /\ at[c] = "user")
=============================================================================
