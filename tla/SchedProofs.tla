----------------------------- MODULE SchedProofs -----------------------------
(***************************************************************************)
(* Proofs that, for any number of CPUs and process slots, ptable_lock      *)
(* makes proc::fork atomic for everyone who looks at the process table:    *)
(* each child is a new process, and the memory viewer sees no process that *)
(* is not initialized; and that the run queues lose and repeat no process  *)
(* and each process that does not execute has one saved state.             *)
(***************************************************************************)
EXTENDS Sched, FiniteSetTheorems, TLAPS

\* Process numbers: None is no process, an idle task is not a PID, and CPU 0 exists.
LEMMA Numbers ==
    /\ None \notin Proc /\ None \notin Cpu /\ None \notin Pid
    /\ \A c \in Cpu : Idle(c) \in Proc /\ Idle(c) \notin Pid
    /\ Pid \subseteq Proc
    /\ 0 \in Cpu /\ 1 \in Pid
    /\ \A p \in Pid : Home(p) \in Cpu
<1>1. ncpu \in Nat \ {0} /\ NPROC \in Nat \ {0, 1} /\ None \notin Int
  BY SchedAssumption
<1>2. Cpu \subseteq Int /\ Pid \subseteq Int
  BY <1>1 DEF Cpu, Pid
<1>3. \A c \in Cpu : Idle(c) \in Proc /\ Idle(c) \notin Pid /\ Idle(c) \in Int
  BY <1>1 DEF Cpu, Pid, Idle, Proc
<1>4. \A p \in Proc : p \in Pid \/ \E c \in Cpu : p = Idle(c)
  BY DEF Proc
<1>5. None \notin Proc /\ None \notin Cpu /\ None \notin Pid
  BY <1>1, <1>2, <1>3, <1>4
<1>6. 0 \in Cpu /\ 1 \in Pid
  BY <1>1, SMT DEF Cpu, Pid
<1>7. \A p \in Pid : Home(p) \in Cpu
  BY <1>1, SMT DEF Cpu, Pid, Home
<1> QED BY <1>3, <1>5, <1>6, <1>7 DEF Proc

\* What CPU c does to its queue keeps it a queue of processes.
LEMMA EnqueuedType ==
    ASSUME NEW s \in Seq(Proc), NEW cur, NEW p \in Proc
    PROVE  Enqueued(s, cur, p) \in Seq(Proc)
BY DEF Enqueued

-----------------------------------------------------------------------------
(* Type correctness *)

\* A CPU in a fork has chosen a PID, and one that is not choosing what to run
\* executes a process - except CPU 0 while it sets up the first.
Located ==
    \A c \in Cpu :
        /\ at[c] \in {"alloc", "copy", "enqueue", "push"} => new[c] \in Pid
        /\ at[c] \in {"user", "pause", "window", "memshow", "show", "fork", "read"} => current[c] \in Proc

\* The boot CPU's start has the types.
LEMMA InitTypes == Init => TypeOK /\ Located
<1> SUFFICES ASSUME Init PROVE TypeOK /\ Located OBVIOUS
<1> USE Numbers
<1>1. << >> \in Seq(Proc)
  OBVIOUS
<1>2. TypeOK
  BY <1>1 DEF Init, TypeOK, Labels
<1>3. Located
  BY DEF Init, Located
<1> QED BY <1>2, <1>3

\* Every label a CPU goes to is one.
LEMMA GotoType ==
    ASSUME TypeOK, NEW c \in Cpu, NEW l \in Labels, Goto(c, l)
    PROVE  at' \in [Cpu -> Labels]
BY DEF TypeOK, Goto

\* Every step keeps the types.
LEMMA TypeStep == TypeOK /\ Located /\ [Next]_vars => TypeOK'
<1> SUFFICES ASSUME TypeOK, Located, [Next]_vars PROVE TypeOK' OBVIOUS
<1>1. CASE UNCHANGED vars
  BY <1>1 DEF vars, procs, cpus, TypeOK
<1>2. ASSUME NEW c \in Cpu, Timer(c) PROVE TypeOK'
  <2>1. \E l \in Labels : Goto(c, l)
    BY <1>2 DEF Timer, Interruptible, Labels
  <2>2. at' \in [Cpu -> Labels]
    BY <2>1, GotoType
  <2> QED BY <1>2, <2>2, Numbers DEF Timer, Interruptible, TypeOK, Located, procs
<1>3. ASSUME NEW c \in Cpu, Enter(c, "window") \/ Enter(c, "pause") \/ Enter(c, "fork") \/ Enter(c, "read") PROVE TypeOK'
  <2>1. \E l \in Labels : Goto(c, l)
    BY <1>3 DEF Enter, Labels
  <2>2. at' \in [Cpu -> Labels]
    BY <2>1, GotoType
  <2> QED BY <1>3, <2>2, Numbers DEF Enter, TypeOK, Located, procs
<1>4. ASSUME NEW c \in Cpu, PageFault(c) PROVE TypeOK'
  <2>1. \E l \in Labels : Goto(c, l)
    BY <1>4 DEF PageFault, Labels
  <2>2. at' \in [Cpu -> Labels]
    BY <2>1, GotoType
  <2> QED BY <1>4, <2>2, Numbers DEF PageFault, TypeOK, Located, procs
<1>5. ASSUME NEW c \in Cpu, NoMemory(c) PROVE TypeOK'
  <2>1. \E l \in Labels : Goto(c, l)
    BY <1>5 DEF NoMemory, Labels
  <2>2. at' \in [Cpu -> Labels]
    BY <2>1, GotoType
  <2> QED BY <1>5, <2>2, Numbers DEF NoMemory, TypeOK, Located, procs
<1>6. ASSUME NEW c \in Cpu, EndPause(c) \/ EndRead(c) \/ YieldSave(c) PROVE TypeOK'
  <2>1. \E l \in Labels : Goto(c, l)
    BY <1>6 DEF EndPause, EndRead, YieldSave, Labels
  <2>2. at' \in [Cpu -> Labels]
    BY <2>1, GotoType
  <2> QED BY <1>6, <2>2, Numbers DEF EndPause, EndRead, YieldSave, TypeOK, Located, procs
<1>7. ASSUME NEW c \in Cpu, Memshow(c) \/ EndMemshow(c) PROVE TypeOK'
  <2>1. \E l \in Labels : Goto(c, l)
    BY <1>7 DEF Memshow, EndMemshow, Labels
  <2>2. at' \in [Cpu -> Labels]
    BY <2>1, GotoType
  <2> QED BY <1>7, <2>2, Numbers DEF Memshow, EndMemshow, TypeOK, Located, procs
<1>8. ASSUME NEW c \in Cpu, Schedule(c) PROVE TypeOK'
  <2>1. \E l \in Labels : Goto(c, l)
    BY <1>8 DEF Schedule, Labels
  <2>2. at' \in [Cpu -> Labels]
    BY <2>1, GotoType
  <2>3. /\ state' \in [Proc -> {"blank", "runnable", "broken"}]
        /\ regs' \in [Proc -> {None, "user", "pause", "window"}]
    BY <1>8 DEF Schedule, TypeOK
  <2>4. yfrom' \in [Cpu -> Proc \cup {None}]
    BY <1>8, Numbers DEF Schedule, TypeOK
  <2> QED BY <1>8, <2>2, <2>3, <2>4 DEF Schedule, TypeOK
<1>9. ASSUME NEW c \in Cpu, Resume(c) PROVE TypeOK'
  <2>1. \E l \in Labels : Goto(c, l)
    BY <1>9 DEF Resume, TryCurrent, Labels, TypeOK
  <2>2. at' \in [Cpu -> Labels]
    BY <2>1, GotoType
  <2> QED BY <1>9, <2>2, Numbers DEF Resume, TryCurrent, TypeOK, Located, procs
<1>10. ASSUME NEW c \in Cpu, Requeue(c) PROVE TypeOK'
  <2>1. \E l \in Labels : Goto(c, l)
    BY <1>10 DEF Requeue, Labels
  <2>2. at' \in [Cpu -> Labels]
    BY <2>1, GotoType
  <2> QED BY <1>10, <2>2, Numbers, EnqueuedType DEF Requeue, TypeOK, Located, procs
<1>11. ASSUME NEW c \in Cpu, Pop(c) PROVE TypeOK'
  <2>1. \E l \in Labels : Goto(c, l)
    BY <1>11 DEF Pop, Labels
  <2>2. at' \in [Cpu -> Labels]
    BY <2>1, GotoType
  <2>3. /\ runq[c] \in Seq(Proc) /\ q[c] \in Seq(Proc)
        /\ q[c] # << >> => Head(q[c]) \in Proc /\ Tail(q[c]) \in Seq(Proc)
        /\ << >> \in Seq(Proc)
    BY DEF TypeOK
  <2>4. \E p \in Proc : current' = [current EXCEPT ![c] = p]
    BY <1>11, <2>3, Numbers DEF Pop
  <2>5. runq' \in [Cpu -> Seq(Proc)] /\ q' \in [Cpu -> Seq(Proc)]
    BY <1>11, <2>3 DEF Pop, TypeOK
  <2>6. current' \in [Cpu -> Proc \cup {None}]
    BY <2>4 DEF TypeOK
  <2> QED BY <1>11, <2>2, <2>5, <2>6 DEF Pop, TypeOK, procs
<1>12. ASSUME NEW c \in Cpu, ForkLock(c) \/ OutOfPids(c) PROVE TypeOK'
  <2>1. \E l \in Labels : Goto(c, l)
    BY <1>12 DEF ForkLock, OutOfPids, Labels
  <2>2. at' \in [Cpu -> Labels]
    BY <2>1, GotoType
  <2>3. new' \in [Cpu -> Pid \cup {None}]
    BY <1>12 DEF ForkLock, OutOfPids, TypeOK
  <2>4. ptable_lock' \in Cpu \cup {None}
    BY <1>12 DEF ForkLock, OutOfPids, TypeOK
  <2>5. UNCHANGED <<ptable, current, runq, runq_lock, state, regs, yields, yfrom, q, panicking>>
    BY <1>12 DEF ForkLock, OutOfPids, procs
  <2> QED BY <2>2, <2>3, <2>4, <2>5 DEF TypeOK
<1>13. ASSUME NEW c \in Cpu, ForkAlloc(c) PROVE TypeOK'
  <2>1. \E l \in Labels : Goto(c, l)
    BY <1>13 DEF ForkAlloc, Labels
  <2>2. at' \in [Cpu -> Labels]
    BY <2>1, GotoType
  <2> QED BY <1>13, <2>2, Numbers DEF ForkAlloc, TypeOK, Located, procs
<1>14. ASSUME NEW c \in Cpu, ForkCopy(c) PROVE TypeOK'
  <2>1. \E l \in Labels : Goto(c, l)
    BY <1>14 DEF ForkCopy, Labels
  <2>2. at' \in [Cpu -> Labels]
    BY <2>1, GotoType
  <2> QED BY <1>14, <2>2, Numbers DEF ForkCopy, TypeOK, Located, procs
<1>15. ASSUME NEW c \in Cpu, LockRunq(c) PROVE TypeOK'
  <2>1. \E l \in Labels : Goto(c, l)
    BY <1>15 DEF LockRunq, Labels
  <2>2. at' \in [Cpu -> Labels]
    BY <2>1, GotoType
  <2> QED BY <1>15, <2>2, Numbers DEF LockRunq, TypeOK, Located, procs
<1>16. ASSUME NEW c \in Cpu, Push(c) PROVE TypeOK'
  <2>1. \E l \in Labels : Goto(c, l)
    BY <1>16 DEF Push, Labels
  <2>2. at' \in [Cpu -> Labels]
    BY <2>1, GotoType
  <2> DEFINE h == Home(new[c])
  <2>3. new[c] \in Pid /\ h \in Cpu
    BY <1>16, Numbers DEF Push, Located
  <2>4. Enqueued(q[c], current[h], new[c]) \in Seq(Proc)
    BY <2>3, EnqueuedType, Numbers DEF TypeOK
  <2>5. runq' \in [Cpu -> Seq(Proc)]
    BY <1>16, <2>4 DEF Push, TypeOK
  <2>6. q' \in [Cpu -> Seq(Proc)]
    BY <1>16 DEF Push, TypeOK
  <2>7. runq_lock' \in [Cpu -> Cpu \cup {None}]
    BY <1>16 DEF Push, TypeOK
  <2> QED BY <1>16, <2>2, <2>5, <2>6, <2>7 DEF Push, TypeOK, procs
<1>17. ASSUME NEW c \in Cpu, Made(c) PROVE TypeOK'
  <2>1. \E l \in Labels : Goto(c, l)
    BY <1>17 DEF Made, Labels
  <2>2. at' \in [Cpu -> Labels]
    BY <2>1, GotoType
  <2> QED BY <1>17, <2>2, Numbers DEF Made, TypeOK, Located, procs
<1> QED BY <1>1, <1>2, <1>3, <1>4, <1>5, <1>6, <1>7, <1>8, <1>9, <1>10, <1>11, <1>12, <1>13, <1>14, <1>15, <1>16, <1>17 DEF Next, Program, Kernel

\* Every step keeps where CPUs are.
LEMMA LocatedStep == TypeOK /\ Located /\ [Next]_vars => Located'
<1> SUFFICES ASSUME TypeOK, Located, [Next]_vars PROVE Located' OBVIOUS
<1> USE Numbers DEF TypeOK, Located, Goto, procs, cpus
<1>1. CASE UNCHANGED vars
  BY <1>1 DEF vars
<1>2. ASSUME NEW c \in Cpu, Timer(c) PROVE Located'
  BY <1>2 DEF Timer, Interruptible
<1>3. ASSUME NEW c \in Cpu, Enter(c, "window") \/ Enter(c, "pause") \/ Enter(c, "fork") \/ Enter(c, "read") PROVE Located'
  BY <1>3 DEF Enter
<1>4. ASSUME NEW c \in Cpu, PageFault(c) PROVE Located'
  BY <1>4 DEF PageFault
<1>5. ASSUME NEW c \in Cpu, NoMemory(c) PROVE Located'
  BY <1>5 DEF NoMemory
<1>6. ASSUME NEW c \in Cpu, EndPause(c) \/ EndRead(c) \/ YieldSave(c) PROVE Located'
  BY <1>6 DEF EndPause, EndRead, YieldSave
<1>7. ASSUME NEW c \in Cpu, Memshow(c) \/ EndMemshow(c) PROVE Located'
  BY <1>7 DEF Memshow, EndMemshow
<1>8. ASSUME NEW c \in Cpu, Schedule(c) PROVE Located'
  BY <1>8 DEF Schedule
<1>9. ASSUME NEW c \in Cpu, Resume(c) PROVE Located'
  <2>1. current[c] \in Proc /\ UNCHANGED <<current, new>>
    BY <1>9 DEF Resume, TryCurrent
  <2>2. Goto(c, "user") \/ Goto(c, "pause") \/ Goto(c, "window")
    BY <1>9, <2>1 DEF Resume
  <2> QED BY <2>1, <2>2
<1>10. ASSUME NEW c \in Cpu, Requeue(c) PROVE Located'
  BY <1>10 DEF Requeue
<1>11. ASSUME NEW c \in Cpu, Pop(c) PROVE Located'
  BY <1>11 DEF Pop
<1>12. ASSUME NEW c \in Cpu, ForkLock(c) \/ OutOfPids(c) PROVE Located'
  BY <1>12 DEF ForkLock, OutOfPids
<1>13. ASSUME NEW c \in Cpu, ForkAlloc(c) PROVE Located'
  BY <1>13 DEF ForkAlloc
<1>14. ASSUME NEW c \in Cpu, ForkCopy(c) PROVE Located'
  BY <1>14 DEF ForkCopy
<1>15. ASSUME NEW c \in Cpu, LockRunq(c) PROVE Located'
  BY <1>15 DEF LockRunq
<1>16. ASSUME NEW c \in Cpu, Push(c) PROVE Located'
  BY <1>16 DEF Push
<1>17. ASSUME NEW c \in Cpu, Made(c) PROVE Located'
  BY <1>17 DEF Made
<1> QED BY <1>1, <1>2, <1>3, <1>4, <1>5, <1>6, <1>7, <1>8, <1>9, <1>10, <1>11, <1>12, <1>13, <1>14, <1>15, <1>16, <1>17 DEF Next, Program, Kernel

-----------------------------------------------------------------------------
(* ptable_lock.  A process is in one of four stages: not in the table (blank), *)
(* entered by a fork that still holds the lock (blank), made, or never         *)
(* finished because its fork stopped the kernel, with the lock held for ever.  *)

\* Who works on the table, or stopped while working on it, holds its lock.
Locked ==
    \A c \in Cpu :
        at[c] \in {"show", "alloc", "copy", "enqueue", "push", "made", "panic"} => ptable_lock = c

\* What is outside the table is blank, and what is blank in the table is a fork's child.
Staged ==
    /\ \A p \in Pid \ ptable : state[p] = "blank"
    /\ \A c \in Cpu : at[c] = "alloc" => new[c] \notin ptable
    /\ \A c \in Cpu : at[c] = "copy" => new[c] \in ptable /\ state[new[c]] = "blank"
    /\ \A p \in ptable : state[p] = "blank" =>
           \E c \in Cpu : at[c] \in {"copy", "panic"} /\ new[c] = p

\* A CPU that executes a process, and not schedule, executes one that is made.
Alive ==
    \A c \in Cpu :
        at[c] \in {"user", "pause", "window", "fork", "read", "alloc", "copy", "enqueue", "push", "made"}
            /\ current[c] # None => state[current[c]] # "blank"

IInv == TypeOK /\ Located /\ Locked /\ Staged /\ Alive

\* Every step keeps that the lock's holders hold it: the others wait for None.
LEMMA LockedStep == TypeOK /\ Located /\ Locked /\ [Next]_vars => Locked'
<1> SUFFICES ASSUME TypeOK, Located, Locked, [Next]_vars PROVE Locked' OBVIOUS
<1> USE Numbers DEF TypeOK, Located, Locked, Goto, procs, cpus
<1>1. CASE UNCHANGED vars
  BY <1>1 DEF vars
<1>2. ASSUME NEW c \in Cpu, Timer(c) PROVE Locked'
  BY <1>2 DEF Timer, Interruptible
<1>3. ASSUME NEW c \in Cpu, Enter(c, "window") \/ Enter(c, "pause") \/ Enter(c, "fork") \/ Enter(c, "read") PROVE Locked'
  BY <1>3 DEF Enter
<1>4. ASSUME NEW c \in Cpu, PageFault(c) PROVE Locked'
  BY <1>4 DEF PageFault
<1>5. ASSUME NEW c \in Cpu, NoMemory(c) PROVE Locked'
  BY <1>5 DEF NoMemory
<1>6. ASSUME NEW c \in Cpu, EndPause(c) \/ EndRead(c) \/ YieldSave(c) PROVE Locked'
  BY <1>6 DEF EndPause, EndRead, YieldSave
<1>7. ASSUME NEW c \in Cpu, Memshow(c) \/ EndMemshow(c) PROVE Locked'
  BY <1>7 DEF Memshow, EndMemshow
<1>8. ASSUME NEW c \in Cpu, Schedule(c) PROVE Locked'
  BY <1>8 DEF Schedule
<1>9. ASSUME NEW c \in Cpu, Resume(c) PROVE Locked'
  <2>1. Goto(c, "user") \/ Goto(c, "pause") \/ Goto(c, "window")
    BY <1>9 DEF Resume, TryCurrent
  <2>2. UNCHANGED ptable_lock
    BY <1>9 DEF Resume
  <2> QED BY <2>1, <2>2
<1>10. ASSUME NEW c \in Cpu, Requeue(c) PROVE Locked'
  BY <1>10 DEF Requeue
<1>11. ASSUME NEW c \in Cpu, Pop(c) PROVE Locked'
  BY <1>11 DEF Pop
<1>12. ASSUME NEW c \in Cpu, ForkLock(c) \/ OutOfPids(c) PROVE Locked'
  BY <1>12 DEF ForkLock, OutOfPids
<1>13. ASSUME NEW c \in Cpu, ForkAlloc(c) PROVE Locked'
  BY <1>13 DEF ForkAlloc
<1>14. ASSUME NEW c \in Cpu, ForkCopy(c) PROVE Locked'
  BY <1>14 DEF ForkCopy
<1>15. ASSUME NEW c \in Cpu, LockRunq(c) PROVE Locked'
  BY <1>15 DEF LockRunq
<1>16. ASSUME NEW c \in Cpu, Push(c) PROVE Locked'
  BY <1>16 DEF Push
<1>17. ASSUME NEW c \in Cpu, Made(c) PROVE Locked'
  BY <1>17 DEF Made
<1> QED BY <1>1, <1>2, <1>3, <1>4, <1>5, <1>6, <1>7, <1>8, <1>9, <1>10, <1>11, <1>12, <1>13, <1>14, <1>15, <1>16, <1>17 DEF Next, Program, Kernel

\* Every step keeps that processes which execute are made: resume demands it, and only a fork's child is blank.
LEMMA AliveStep == TypeOK /\ Located /\ Locked /\ Staged /\ Alive /\ [Next]_vars => Alive'
<1> SUFFICES ASSUME TypeOK, Located, Locked, Staged, Alive, [Next]_vars PROVE Alive' OBVIOUS
<1> USE Numbers DEF TypeOK, Located, Alive, Goto, procs, cpus
<1>1. CASE UNCHANGED vars
  BY <1>1 DEF vars
<1>2. ASSUME NEW c \in Cpu, Timer(c) PROVE Alive'
  BY <1>2 DEF Timer, Interruptible
<1>3. ASSUME NEW c \in Cpu, Enter(c, "window") \/ Enter(c, "pause") \/ Enter(c, "fork") \/ Enter(c, "read") PROVE Alive'
  BY <1>3 DEF Enter
<1>4. ASSUME NEW c \in Cpu, PageFault(c) PROVE Alive'
  BY <1>4 DEF PageFault
<1>5. ASSUME NEW c \in Cpu, NoMemory(c) PROVE Alive'
  BY <1>5 DEF NoMemory
<1>6. ASSUME NEW c \in Cpu, EndPause(c) \/ EndRead(c) \/ YieldSave(c) PROVE Alive'
  BY <1>6 DEF EndPause, EndRead, YieldSave
<1>7. ASSUME NEW c \in Cpu, Memshow(c) \/ EndMemshow(c) PROVE Alive'
  BY <1>7 DEF Memshow, EndMemshow
<1>8. ASSUME NEW c \in Cpu, Schedule(c) PROVE Alive'
  BY <1>8 DEF Schedule
<1>9. ASSUME NEW c \in Cpu, Resume(c) PROVE Alive'
  BY <1>9 DEF Resume, TryCurrent
<1>10. ASSUME NEW c \in Cpu, Requeue(c) PROVE Alive'
  BY <1>10 DEF Requeue
<1>11. ASSUME NEW c \in Cpu, Pop(c) PROVE Alive'
  BY <1>11 DEF Pop
<1>12. ASSUME NEW c \in Cpu, ForkLock(c) \/ OutOfPids(c) PROVE Alive'
  BY <1>12 DEF ForkLock, OutOfPids
<1>13. ASSUME NEW c \in Cpu, ForkAlloc(c) PROVE Alive'
  BY <1>13 DEF ForkAlloc
<1>14. ASSUME NEW c \in Cpu, ForkCopy(c) PROVE Alive'
  BY <1>14 DEF ForkCopy
<1>15. ASSUME NEW c \in Cpu, LockRunq(c) PROVE Alive'
  BY <1>15 DEF LockRunq
<1>16. ASSUME NEW c \in Cpu, Push(c) PROVE Alive'
  BY <1>16 DEF Push
<1>17. ASSUME NEW c \in Cpu, Made(c) PROVE Alive'
  BY <1>17 DEF Made
<1> QED BY <1>1, <1>2, <1>3, <1>4, <1>5, <1>6, <1>7, <1>8, <1>9, <1>10, <1>11, <1>12, <1>13, <1>14, <1>15, <1>16, <1>17 DEF Next, Program, Kernel

\* The stages depend on these variables alone.
LEMMA StagedStutter ==
    ASSUME Staged, UNCHANGED <<ptable, at, new, state>>
    PROVE  Staged'
BY DEF Staged

\* A step of a CPU that neither enters nor leaves a fork's work on the table, and
\* makes or unmakes nothing, keeps the stages.
LEMMA StagedKept ==
    ASSUME TypeOK, Staged, NEW c \in Cpu,
           at[c] \notin {"copy", "panic"}, at'[c] \notin {"alloc", "copy"},
           \A d \in Cpu : d # c => at'[d] = at[d] /\ new'[d] = new[d],
           UNCHANGED ptable,
           \A p \in Pid : state'[p] = "blank" <=> state[p] = "blank"
    PROVE  Staged'
<1>1. \A p \in Pid \ ptable' : state'[p] = "blank"
  BY DEF Staged
<1>2. \A d \in Cpu : at'[d] = "alloc" => new'[d] \notin ptable'
  BY DEF Staged
<1>3. ASSUME NEW d \in Cpu, at'[d] = "copy"
      PROVE  new'[d] \in ptable' /\ state'[new'[d]] = "blank"
  <2>1. at[d] = "copy" /\ new'[d] = new[d]
    BY <1>3
  <2>2. new[d] \in ptable /\ state[new[d]] = "blank"
    BY <2>1 DEF Staged
  <2> QED BY <2>1, <2>2 DEF TypeOK
<1>4. ASSUME NEW p \in ptable', state'[p] = "blank"
      PROVE  \E d \in Cpu : at'[d] \in {"copy", "panic"} /\ new'[d] = p
  <2>1. p \in ptable /\ state[p] = "blank"
    BY <1>4 DEF TypeOK
  <2>2. PICK d \in Cpu : at[d] \in {"copy", "panic"} /\ new[d] = p
    BY <2>1 DEF Staged
  <2> QED BY <2>2
<1> QED BY <1>1, <1>2, <1>3, <1>4 DEF Staged

\* Every step keeps the stages; only a fork moves a PID from one to the next.
LEMMA StagedStep == TypeOK /\ Located /\ Locked /\ Staged /\ Alive /\ [Next]_vars => Staged'
<1> SUFFICES ASSUME TypeOK, Located, Locked, Staged, Alive, [Next]_vars PROVE Staged' OBVIOUS
<1> USE Numbers DEF TypeOK, Located, Goto, procs, cpus
<1>1. CASE UNCHANGED vars
  <2>1. UNCHANGED <<ptable, at, new, state>>
    BY <1>1 DEF vars
  <2> QED BY <2>1, StagedStutter
<1>2. ASSUME NEW c \in Cpu, Timer(c) PROVE Staged'
  <2>1. at[c] \notin {"copy", "panic"} /\ at'[c] \notin {"alloc", "copy"}
    BY <1>2 DEF Timer, Interruptible
  <2>2. \A d \in Cpu : d # c => at'[d] = at[d] /\ new'[d] = new[d]
    BY <1>2 DEF Timer, Interruptible
  <2>3. UNCHANGED ptable /\ \A p \in Pid : state'[p] = "blank" <=> state[p] = "blank"
    BY <1>2 DEF Timer, Interruptible
  <2> QED BY <2>1, <2>2, <2>3, StagedKept
<1>3. ASSUME NEW c \in Cpu, Enter(c, "window") \/ Enter(c, "pause") \/ Enter(c, "fork") \/ Enter(c, "read") PROVE Staged'
  <2>1. at[c] \notin {"copy", "panic"} /\ at'[c] \notin {"alloc", "copy"}
    BY <1>3 DEF Enter
  <2>2. \A d \in Cpu : d # c => at'[d] = at[d] /\ new'[d] = new[d]
    BY <1>3 DEF Enter
  <2>3. UNCHANGED ptable /\ \A p \in Pid : state'[p] = "blank" <=> state[p] = "blank"
    BY <1>3 DEF Enter
  <2> QED BY <2>1, <2>2, <2>3, StagedKept
<1>4. ASSUME NEW c \in Cpu, PageFault(c) PROVE Staged'
  <2>1. at[c] \notin {"copy", "panic"} /\ at'[c] \notin {"alloc", "copy"}
    BY <1>4 DEF PageFault
  <2>2. \A d \in Cpu : d # c => at'[d] = at[d] /\ new'[d] = new[d]
    BY <1>4 DEF PageFault
  <2>3. UNCHANGED ptable /\ \A p \in Pid : state'[p] = "blank" <=> state[p] = "blank"
    BY <1>4 DEF PageFault, Alive
  <2> QED BY <2>1, <2>2, <2>3, StagedKept
<1>5. ASSUME NEW c \in Cpu, NoMemory(c) PROVE Staged'
  <2>1. \A p \in Pid \ ptable' : state'[p] = "blank"
    BY <1>5 DEF NoMemory, Staged
  <2>2. \A d \in Cpu : at'[d] = "alloc" => new'[d] \notin ptable'
    BY <1>5 DEF NoMemory, Staged, Locked
  <2>3. \A d \in Cpu : at'[d] = "copy" => new'[d] \in ptable' /\ state'[new'[d]] = "blank"
    BY <1>5 DEF NoMemory, Staged, Locked
  <2>4. ASSUME NEW p \in ptable', state'[p] = "blank"
        PROVE  \E d \in Cpu : at'[d] \in {"copy", "panic"} /\ new'[d] = p
    <3>1. p \in ptable /\ state[p] = "blank"
      BY <1>5, <2>4 DEF NoMemory
    <3>2. PICK d \in Cpu : at[d] \in {"copy", "panic"} /\ new[d] = p
      BY <3>1 DEF Staged
    <3> QED BY <1>5, <3>2 DEF NoMemory
  <2> QED BY <2>1, <2>2, <2>3, <2>4 DEF Staged
<1>6. ASSUME NEW c \in Cpu, EndPause(c) \/ EndRead(c) \/ YieldSave(c) PROVE Staged'
  <2>1. at[c] \notin {"copy", "panic"} /\ at'[c] \notin {"alloc", "copy"}
    BY <1>6 DEF EndPause, EndRead, YieldSave
  <2>2. \A d \in Cpu : d # c => at'[d] = at[d] /\ new'[d] = new[d]
    BY <1>6 DEF EndPause, EndRead, YieldSave
  <2>3. UNCHANGED ptable /\ \A p \in Pid : state'[p] = "blank" <=> state[p] = "blank"
    BY <1>6 DEF EndPause, EndRead, YieldSave
  <2> QED BY <2>1, <2>2, <2>3, StagedKept
<1>7. ASSUME NEW c \in Cpu, Memshow(c) \/ EndMemshow(c) PROVE Staged'
  <2>1. at[c] \notin {"copy", "panic"} /\ at'[c] \notin {"alloc", "copy"}
    BY <1>7 DEF Memshow, EndMemshow
  <2>2. \A d \in Cpu : d # c => at'[d] = at[d] /\ new'[d] = new[d]
    BY <1>7 DEF Memshow, EndMemshow
  <2>3. UNCHANGED ptable /\ \A p \in Pid : state'[p] = "blank" <=> state[p] = "blank"
    BY <1>7 DEF Memshow, EndMemshow
  <2> QED BY <2>1, <2>2, <2>3, StagedKept
<1>8. ASSUME NEW c \in Cpu, Schedule(c) PROVE Staged'
  <2>1. at[c] \notin {"copy", "panic"} /\ at'[c] \notin {"alloc", "copy"}
    BY <1>8 DEF Schedule
  <2>2. \A d \in Cpu : d # c => at'[d] = at[d] /\ new'[d] = new[d]
    BY <1>8 DEF Schedule
  <2>3. UNCHANGED ptable /\ \A p \in Pid : state'[p] = "blank" <=> state[p] = "blank"
    BY <1>8 DEF Schedule
  <2> QED BY <2>1, <2>2, <2>3, StagedKept
<1>9. ASSUME NEW c \in Cpu, Resume(c) PROVE Staged'
  <2>1. at[c] \notin {"copy", "panic"} /\ at'[c] \notin {"alloc", "copy"}
    BY <1>9 DEF Resume, TryCurrent
  <2>2. \A d \in Cpu : d # c => at'[d] = at[d] /\ new'[d] = new[d]
    BY <1>9 DEF Resume, TryCurrent
  <2>3. UNCHANGED ptable /\ \A p \in Pid : state'[p] = "blank" <=> state[p] = "blank"
    BY <1>9 DEF Resume, TryCurrent
  <2> QED BY <2>1, <2>2, <2>3, StagedKept
<1>10. ASSUME NEW c \in Cpu, Requeue(c) PROVE Staged'
  <2>1. at[c] \notin {"copy", "panic"} /\ at'[c] \notin {"alloc", "copy"}
    BY <1>10 DEF Requeue
  <2>2. \A d \in Cpu : d # c => at'[d] = at[d] /\ new'[d] = new[d]
    BY <1>10 DEF Requeue
  <2>3. UNCHANGED ptable /\ \A p \in Pid : state'[p] = "blank" <=> state[p] = "blank"
    BY <1>10 DEF Requeue
  <2> QED BY <2>1, <2>2, <2>3, StagedKept
<1>11. ASSUME NEW c \in Cpu, Pop(c) PROVE Staged'
  <2>1. at[c] \notin {"copy", "panic"} /\ at'[c] \notin {"alloc", "copy"}
    BY <1>11 DEF Pop
  <2>2. \A d \in Cpu : d # c => at'[d] = at[d] /\ new'[d] = new[d]
    BY <1>11 DEF Pop
  <2>3. UNCHANGED ptable /\ \A p \in Pid : state'[p] = "blank" <=> state[p] = "blank"
    BY <1>11 DEF Pop
  <2> QED BY <2>1, <2>2, <2>3, StagedKept
<1>12. ASSUME NEW c \in Cpu, ForkLock(c) \/ OutOfPids(c) PROVE Staged'
  <2>1. \A p \in Pid \ ptable' : state'[p] = "blank"
    BY <1>12 DEF ForkLock, OutOfPids, Staged
  <2>2. \A d \in Cpu : at'[d] = "alloc" => new'[d] \notin ptable'
    BY <1>12 DEF ForkLock, OutOfPids, Staged, Locked
  <2>3. \A d \in Cpu : at'[d] = "copy" => new'[d] \in ptable' /\ state'[new'[d]] = "blank"
    BY <1>12 DEF ForkLock, OutOfPids, Staged, Locked
  <2>4. ASSUME NEW p \in ptable', state'[p] = "blank"
        PROVE  \E d \in Cpu : at'[d] \in {"copy", "panic"} /\ new'[d] = p
    <3>1. p \in ptable /\ state[p] = "blank"
      BY <1>12, <2>4 DEF ForkLock, OutOfPids
    <3>2. PICK d \in Cpu : at[d] \in {"copy", "panic"} /\ new[d] = p
      BY <3>1 DEF Staged
    <3> QED BY <1>12, <3>2 DEF ForkLock, OutOfPids
  <2> QED BY <2>1, <2>2, <2>3, <2>4 DEF Staged
<1>13. ASSUME NEW c \in Cpu, ForkAlloc(c) PROVE Staged'
  <2>1. \A p \in Pid \ ptable' : state'[p] = "blank"
    BY <1>13 DEF ForkAlloc, Staged
  <2>2. \A d \in Cpu : at'[d] = "alloc" => new'[d] \notin ptable'
    BY <1>13 DEF ForkAlloc, Staged, Locked
  <2>3. \A d \in Cpu : at'[d] = "copy" => new'[d] \in ptable' /\ state'[new'[d]] = "blank"
    BY <1>13 DEF ForkAlloc, Staged, Locked
  <2>4. ASSUME NEW p \in ptable', state'[p] = "blank"
        PROVE  \E d \in Cpu : at'[d] \in {"copy", "panic"} /\ new'[d] = p
    <3>1. CASE p = new[c]
      BY <1>13, <3>1 DEF ForkAlloc
    <3>2. CASE p # new[c]
      <4>1. p \in ptable /\ state[p] = "blank"
        BY <1>13, <2>4, <3>2 DEF ForkAlloc
      <4>2. PICK d \in Cpu : at[d] \in {"copy", "panic"} /\ new[d] = p
        BY <4>1 DEF Staged
      <4> QED BY <1>13, <4>2 DEF ForkAlloc
    <3> QED BY <3>1, <3>2
  <2> QED BY <2>1, <2>2, <2>3, <2>4 DEF Staged
<1>14. ASSUME NEW c \in Cpu, ForkCopy(c) PROVE Staged'
  <2>1. \A p \in Pid \ ptable' : state'[p] = "blank"
    BY <1>14 DEF ForkCopy, Staged
  <2>2. \A d \in Cpu : at'[d] = "alloc" => new'[d] \notin ptable'
    BY <1>14 DEF ForkCopy, Staged, Locked
  <2>3. \A d \in Cpu : at'[d] = "copy" => new'[d] \in ptable' /\ state'[new'[d]] = "blank"
    BY <1>14 DEF ForkCopy, Staged, Locked
  <2>4. ASSUME NEW p \in ptable', state'[p] = "blank"
        PROVE  \E d \in Cpu : at'[d] \in {"copy", "panic"} /\ new'[d] = p
    <3>1. p \in ptable /\ state[p] = "blank" /\ p # new[c]
      BY <1>14, <2>4 DEF ForkCopy
    <3>2. PICK d \in Cpu : at[d] \in {"copy", "panic"} /\ new[d] = p
      BY <3>1 DEF Staged
    <3> QED BY <1>14, <3>1, <3>2 DEF ForkCopy
  <2> QED BY <2>1, <2>2, <2>3, <2>4 DEF Staged
<1>15. ASSUME NEW c \in Cpu, LockRunq(c) PROVE Staged'
  <2>1. at[c] \notin {"copy", "panic"} /\ at'[c] \notin {"alloc", "copy"}
    BY <1>15 DEF LockRunq
  <2>2. \A d \in Cpu : d # c => at'[d] = at[d] /\ new'[d] = new[d]
    BY <1>15 DEF LockRunq
  <2>3. UNCHANGED ptable /\ \A p \in Pid : state'[p] = "blank" <=> state[p] = "blank"
    BY <1>15 DEF LockRunq
  <2> QED BY <2>1, <2>2, <2>3, StagedKept
<1>16. ASSUME NEW c \in Cpu, Push(c) PROVE Staged'
  <2>1. at[c] \notin {"copy", "panic"} /\ at'[c] \notin {"alloc", "copy"}
    BY <1>16 DEF Push
  <2>2. \A d \in Cpu : d # c => at'[d] = at[d] /\ new'[d] = new[d]
    BY <1>16 DEF Push
  <2>3. UNCHANGED ptable /\ \A p \in Pid : state'[p] = "blank" <=> state[p] = "blank"
    BY <1>16 DEF Push
  <2> QED BY <2>1, <2>2, <2>3, StagedKept
<1>17. ASSUME NEW c \in Cpu, Made(c) PROVE Staged'
  <2>1. at[c] \notin {"copy", "panic"} /\ at'[c] \notin {"alloc", "copy"}
    BY <1>17 DEF Made
  <2>2. \A d \in Cpu : d # c => at'[d] = at[d] /\ new'[d] = new[d]
    BY <1>17 DEF Made
  <2>3. UNCHANGED ptable /\ \A p \in Pid : state'[p] = "blank" <=> state[p] = "blank"
    BY <1>17 DEF Made
  <2> QED BY <2>1, <2>2, <2>3, StagedKept
<1> QED BY <1>1, <1>2, <1>3, <1>4, <1>5, <1>6, <1>7, <1>8, <1>9, <1>10, <1>11, <1>12, <1>13, <1>14, <1>15, <1>16, <1>17 DEF Next, Program, Kernel

\* The inductive invariant holds at the start.
LEMMA InitIInv == Init => IInv
<1> SUFFICES ASSUME Init PROVE IInv OBVIOUS
<1> USE Numbers DEF Init
<1>1. TypeOK /\ Located
  BY InitTypes
<1>2. Locked
  BY DEF Locked
<1>3. Staged
  BY DEF Staged
<1>4. Alive
  BY DEF Alive
<1> QED BY <1>1, <1>2, <1>3, <1>4 DEF IInv

\* Every step keeps the inductive invariant.
LEMMA StepIInv == IInv /\ [Next]_vars => IInv'
BY TypeStep, LocatedStep, LockedStep, StagedStep, AliveStep DEF IInv

\* The inductive invariant always holds.
LEMMA Invariance == Spec => []IInv
BY InitIInv, StepIInv, PTL DEF Spec

-----------------------------------------------------------------------------
(* Tasks and run queues.  runq_lock keeps a fork that pushes and the CPU that *)
(* requeues and pops apart; a task belongs to one CPU, so what that CPU runs  *)
(* and queues is all there is to say about where the task is.                 *)

\* The tasks CPU c runs: the processes with its number, and its idle task.
Of(c) == {p \in Pid : Home(p) = c} \cup {Idle(c)}

\* The CPU that took a run queue's lock still holds it, and the copy that a fork works on is the queue.
RunqLocked ==
    \A c \in Cpu :
        /\ at[c] = "pop" => runq_lock[c] = c
        /\ at[c] = "push" => /\ runq_lock[Home(new[c])] = c
                             /\ q[c] = runq[Home(new[c])]

\* A CPU runs and queues its own tasks only.
Homed ==
    \A c \in Cpu : /\ current[c] \in Of(c) \cup {None}
                   /\ Elements(runq[c]) \subseteq Of(c)
                   /\ Elements(Queue(c)) \subseteq Of(c)

\* No task is twice in s.
Distinct(s) == \A i, j \in 1 .. Len(s) : s[i] = s[j] => i = j

\* A task is queued once, and not while it is the current one.
Once ==
    \A c \in Cpu : /\ Distinct(Queue(c))
                   /\ current[c] \notin Elements(Queue(c))
                   /\ at[c] = "pop" => current[c] = None

\* What is current, queued or about to be queued is made; so is the idle task before schedule runs it.
Known ==
    \A c \in Cpu : /\ current[c] # None => state[current[c]] # "blank"
                   /\ \A p \in Elements(Queue(c)) : state[p] # "blank"
                   /\ at[c] \in {"loop", "pop"} => state[Idle(c)] # "blank"
                   /\ at[c] \in {"enqueue", "push"} => state[new[c]] # "blank"

\* A fork's child is on no CPU and in no queue until the fork puts it there.
Absent ==
    \A c \in Cpu : at[c] \in {"enqueue", "push"} =>
        \A d \in Cpu : new[c] # current[d] /\ new[c] \notin Elements(Queue(d))

\* A runnable process that is no longer in its fork is current or queued.
Present ==
    \A p \in Pid : state[p] = "runnable" /\ ~InFork(p) =>
        \E c \in Cpu : current[c] = p \/ p \in Elements(Queue(c))

\* A runnable task has one saved state, or none while a CPU executes it.
Saved ==
    /\ \A p \in Proc : state[p] = "blank" => yields[p] = FALSE
    /\ \A p \in Proc : state[p] = "runnable" =>
         IF Executing(p) THEN regs[p] = None /\ yields[p] = FALSE
                         ELSE (regs[p] # None) <=> (yields[p] = FALSE)

\* What executes is runnable, but for a process that faulted and is about to yield.
Runs ==
    \A c \in Cpu :
        at[c] \in {"user", "pause", "fork", "read", "alloc", "copy", "enqueue", "push", "made"}
            /\ current[c] # None => state[current[c]] = "runnable"

\* The invariant about tasks.  It is inductive together with IInv, whose ptable_lock
\* keeps two forks from queueing one child.
Placed == /\ RunqLocked /\ Homed /\ Once /\ Known
          /\ Absent /\ Present /\ Saved /\ Runs

\* Where a CPU has a current task and does not execute it.
Masked == {"memshow", "show", "schedule", "loop"}

\* No task belongs to two CPUs.
LEMMA Owners ==
    ASSUME NEW c \in Cpu
    PROVE  /\ Of(c) \subseteq Proc /\ Idle(c) \in Of(c) /\ None \notin Of(c)
           /\ \A d \in Cpu : c # d => Of(c) \cap Of(d) = {}
           /\ \A d \in Cpu : Idle(c) = Idle(d) => c = d
           /\ \A p \in Pid : p \in Of(c) => Home(p) = c
<1>1. Cpu \subseteq Int /\ \A d \in Cpu : d >= 0
  BY SchedAssumption, SMT DEF Cpu
<1>2. Pid \subseteq Int /\ \A p \in Pid : p > 0
  BY SchedAssumption, SMT DEF Pid
<1>3. \A d \in Cpu : Idle(d) \notin Pid /\ Idle(d) = -1 - d
  BY <1>1, <1>2, SMT DEF Idle
<1>4. \A d \in Cpu : Idle(c) = Idle(d) => c = d
  BY <1>1, <1>3, SMT
<1>5. Of(c) \subseteq Proc /\ Idle(c) \in Of(c)
  BY DEF Of, Proc
<1> QED BY <1>3, <1>4, <1>5, Numbers DEF Of

\* Appending to a queue adds the task, and keeps a queue without it free of repetitions.
LEMMA Appended ==
    ASSUME NEW s \in Seq(Proc), NEW p \in Proc
    PROVE  /\ Elements(Append(s, p)) = Elements(s) \cup {p}
           /\ Distinct(s) /\ p \notin Elements(s) => Distinct(Append(s, p))
<1>1. /\ Append(s, p) \in Seq(Proc) /\ Len(s) \in Nat
      /\ Len(Append(s, p)) = Len(s) + 1
      /\ \A i \in 1 .. Len(s) : Append(s, p)[i] = s[i]
      /\ Append(s, p)[Len(s) + 1] = p
  OBVIOUS
<1>2. 1 .. Len(s) + 1 = 1 .. Len(s) \cup {Len(s) + 1} /\ Len(s) + 1 \notin 1 .. Len(s)
  BY <1>1, SMT
<1> DEFINE a == Append(s, p)
<1> HIDE DEF a
<1>3. /\ Len(a) = Len(s) + 1 /\ a[Len(s) + 1] = p
      /\ \A i \in 1 .. Len(s) : a[i] = s[i]
  BY <1>1 DEF a
<1>4. Elements(a) = Elements(s) \cup {p}
  BY <1>2, <1>3 DEF Elements
<1>5. Distinct(s) /\ p \notin Elements(s) => Distinct(a)
  BY <1>2, <1>3 DEF Elements, Distinct
<1> QED BY <1>4, <1>5 DEF a

\* Taking the head off a queue removes that task and no other.
LEMMA Popped ==
    ASSUME NEW s \in Seq(Proc), s # << >>
    PROVE  /\ Elements(s) = Elements(Tail(s)) \cup {Head(s)}
           /\ Distinct(s) => Distinct(Tail(s)) /\ Head(s) \notin Elements(Tail(s))
<1>1. /\ Tail(s) \in Seq(Proc) /\ Len(s) \in Nat /\ Len(s) >= 1
      /\ Len(Tail(s)) = Len(s) - 1
      /\ \A i \in 1 .. Len(s) - 1 : Tail(s)[i] = s[i + 1]
      /\ Head(s) = s[1]
  OBVIOUS
<1> DEFINE t == Tail(s)
<1> HIDE DEF t
<1>2. /\ Len(t) = Len(s) - 1 /\ Head(s) = s[1]
      /\ \A i \in 1 .. Len(t) : t[i] = s[i + 1] /\ i + 1 \in 1 .. Len(s)
  BY <1>1 DEF t
<1>3. 1 \in 1 .. Len(s) /\ \A i \in 1 .. Len(s) : i = 1 \/ (i - 1 \in 1 .. Len(t) /\ i = (i - 1) + 1)
  BY <1>1, <1>2, SMT
<1>4. \A i \in 1 .. Len(t) : i \in Int /\ i + 1 # 1
  BY <1>1, <1>2, SMT
<1>5. Elements(s) \subseteq Elements(t) \cup {Head(s)}
  <2> SUFFICES ASSUME NEW i \in 1 .. Len(s), i # 1 PROVE s[i] \in Elements(t)
    BY <1>2 DEF Elements
  <2>1. i - 1 \in 1 .. Len(t) /\ s[i] = t[i - 1]
    BY <1>2, <1>3
  <2> QED BY <2>1 DEF Elements
<1>6. Elements(t) \cup {Head(s)} \subseteq Elements(s)
  BY <1>2, <1>3 DEF Elements
<1>7. ASSUME Distinct(s) PROVE Distinct(t) /\ Head(s) \notin Elements(t)
  <2>1. \A i, j \in 1 .. Len(t) : t[i] = t[j] => i + 1 = j + 1
    BY <1>2, <1>7 DEF Distinct
  <2>2. Distinct(t)
    BY <2>1, <1>4, SMT DEF Distinct
  <2>3. \A i \in 1 .. Len(t) : t[i] # s[1]
    BY <1>2, <1>3, <1>4, <1>7 DEF Distinct
  <2> QED BY <2>2, <2>3, <1>2 DEF Elements
<1> QED BY <1>5, <1>6, <1>7 DEF t

\* The empty queue.
LEMMA EmptyQueue == Elements(<< >>) = {} /\ Distinct(<< >>)
BY DEF Elements, Distinct

\* A CPU has fewer than NPROC processes and an idle task, so its queue is no longer than NPROC.
LEMMA Bounded ==
    ASSUME NEW s \in Seq(Proc), NEW c \in Cpu, Distinct(s), Elements(s) \subseteq Of(c)
    PROVE  Len(s) <= NPROC
<1>1. Pid \subseteq 1 .. NPROC - 1 /\ NPROC \in Nat /\ NPROC >= 2
  BY SchedAssumption, SMT DEF Pid
<1>2. IsFiniteSet(1 .. NPROC - 1) /\ Cardinality(1 .. NPROC - 1) = NPROC - 1
  BY <1>1, FS_Interval, SMT
<1> DEFINE T == (1 .. NPROC - 1) \cup {Idle(c)}
<1>3. IsFiniteSet(T) /\ Cardinality(T) <= NPROC
  <2>1. Cardinality(T) = IF Idle(c) \in 1 .. NPROC - 1 THEN NPROC - 1 ELSE NPROC - 1 + 1
    BY <1>2, FS_AddElement
  <2>2. IsFiniteSet(T)
    BY <1>2, FS_AddElement
  <2> QED BY <2>1, <2>2, <1>1
<1>4. Len(s) \in Nat /\ \A i \in 1 .. Len(s) : s[i] \in T
  <2>1. Of(c) \subseteq T
    BY <1>1 DEF Of
  <2>2. \A i \in 1 .. Len(s) : s[i] \in Elements(s)
    BY DEF Elements
  <2> QED BY <2>1, <2>2
<1>5. s \in [1 .. Len(s) -> T]
  BY <1>4
<1>6. s \in Injection(1 .. Len(s), T)
  BY <1>5 DEF Distinct, Injection, IsInjective
<1>7. IsFiniteSet(1 .. Len(s)) /\ Cardinality(1 .. Len(s)) = Len(s)
  BY <1>4, FS_Interval, SMT
<1>8. Cardinality(1 .. Len(s)) <= Cardinality(T)
  BY <1>3, <1>6, FS_Injection
<1> HIDE DEF T
<1>9. Cardinality(T) \in Nat
  BY <1>3, FS_CardinalityType
<1> QED BY <1>1, <1>3, <1>4, <1>7, <1>8, <1>9, SMT

\* A task of CPU c is executed by c or not at all.
LEMMA ExecutingAt ==
    ASSUME Homed, NEW c \in Cpu, NEW p \in Of(c)
    PROVE  Executing(p) <=> (current[c] = p /\ at[c] \notin Masked)
<1>1. \A d \in Cpu : current[d] = p => d = c
  BY Owners DEF Homed
<1> QED BY <1>1 DEF Executing, Masked

\* Every task is some CPU's.
LEMMA Owned == \A p \in Proc : \E c \in Cpu : p \in Of(c)
<1>1. \A p \in Pid : Home(p) \in Cpu /\ p \in Of(Home(p))
  BY Numbers DEF Of
<1>2. \A c \in Cpu : Idle(c) \in Of(c)
  BY Owners
<1> QED BY <1>1, <1>2 DEF Proc

\* A step that touches no run queue and is outside the sections that do keeps where tasks are.
LEMMA Quiet ==
    ASSUME IInv, Placed, NEW c \in Cpu, UNCHANGED <<current, runq, runq_lock, q>>,
           at[c] \notin {"enqueue", "pop", "push"}, at'[c] \notin {"enqueue", "pop", "push"},
           \A d \in Cpu : d # c => at'[d] = at[d] /\ new'[d] = new[d]
    PROVE  /\ \A d \in Cpu : Queue(d)' = Queue(d)
           /\ RunqLocked' /\ Homed' /\ Once' /\ Absent'
<1>1. \A d \in Cpu : Queue(d)' = Queue(d)
  BY DEF Queue
<1>2. RunqLocked'
  BY DEF Placed, RunqLocked
<1>3. Homed'
  BY <1>1 DEF Placed, Homed
<1>4. Once'
  BY <1>1 DEF Placed, Once
<1>5. Absent'
  BY <1>1 DEF Placed, Absent
<1> QED BY <1>1, <1>2, <1>3, <1>4, <1>5

\* Such a step keeps that what is queued is made, if it unmakes nothing.
LEMMA KnownKept ==
    ASSUME Placed, UNCHANGED current, \A d \in Cpu : Queue(d)' = Queue(d),
           NEW c \in Cpu, \A d \in Cpu : d # c => at'[d] = at[d] /\ new'[d] = new[d],
           \A p \in Proc : state[p] # "blank" => state'[p] # "blank",
           at'[c] \in {"loop", "pop"} => state'[Idle(c)] # "blank",
           at'[c] \in {"enqueue", "push"} => state'[new'[c]] # "blank", IInv
    PROVE  Known'
<1>0. \A d \in Cpu : at[d] \in {"enqueue", "push"} => new[d] \in Proc
  BY Numbers DEF IInv, Located
<1>1. \A d \in Cpu : current[d] \in Proc \cup {None} /\ Elements(Queue(d)) \subseteq Proc /\ Idle(d) \in Proc
  BY Owners DEF Placed, Homed
<1> QED BY <1>0, <1>1 DEF Placed, Known

\* Such a step loses no process, if it makes none and ends no fork.
LEMMA PresentKept ==
    ASSUME Placed, UNCHANGED current, \A d \in Cpu : Queue(d)' = Queue(d),
           \A p \in Pid : state'[p] = "runnable" => state[p] = "runnable",
           \A p \in Pid : InFork(p) => InFork(p)'
    PROVE  Present'
BY DEF Placed, Present

\* A step that saves and uses up nothing keeps what is saved, if the same tasks execute.
LEMMA SavedKept ==
    ASSUME Placed, UNCHANGED procs, \A p \in Proc : Executing(p)' <=> Executing(p)
    PROVE  Saved'
BY DEF Placed, Saved, procs

\* A timer interrupt saves where the process that ran was.
LEMMA TimerPlaced == ASSUME IInv, Placed, NEW c \in Cpu, Timer(c) PROVE Placed'
<1> USE DEF Goto
<1>0. TypeOK /\ Located /\ Placed
  BY DEF IInv
<1>1. /\ UNCHANGED <<current, runq, runq_lock, q>>
      /\ at[c] \notin {"enqueue", "pop", "push"} /\ at'[c] \notin {"enqueue", "pop", "push"}
      /\ \A d \in Cpu : d # c => at'[d] = at[d] /\ new'[d] = new[d]
  BY <1>0 DEF TypeOK, Timer, Interruptible
<1>2. (\A d \in Cpu : Queue(d)' = Queue(d)) /\ RunqLocked' /\ Homed' /\ Once' /\ Absent'
  BY <1>1, Quiet
<1>3. Known'
  <2>1. \A p \in Proc : state[p] # "blank" => state'[p] # "blank"
    BY <1>0 DEF TypeOK, Timer, Interruptible, procs
  <2>2. at'[c] \notin {"loop", "pop"}
    BY <1>0 DEF TypeOK, Timer, Interruptible
  <2> QED BY <1>1, <1>2, <2>1, <2>2, KnownKept
<1>4. Present'
  <2>1. \A p \in Pid : state'[p] = "runnable" => state[p] = "runnable"
    BY <1>0, Numbers DEF TypeOK, Timer, Interruptible, procs
  <2>2. \A p \in Pid : InFork(p) => InFork(p)'
    BY <1>0 DEF TypeOK, Timer, Interruptible, InFork
  <2> QED BY <1>1, <1>2, <2>1, <2>2, PresentKept
<1>5. Saved'
  <2>1. \A d \in Cpu : \A p \in Of(d) :
            /\ Executing(p) <=> (current[d] = p /\ at[d] \notin Masked)
            /\ Executing(p)' <=> (current'[d] = p /\ at'[d] \notin Masked)
    <3>1. ASSUME NEW d \in Cpu, NEW p \in Of(d)
          PROVE  Executing(p)' <=> (current'[d] = p /\ at'[d] \notin Masked)
      <4>1. \A e \in Cpu : current'[e] = p => e = d
        BY <1>2, Owners DEF Homed
      <4> QED BY <4>1 DEF Executing, Masked
    <3> QED BY <1>0, <3>1, ExecutingAt DEF Placed
  <2>2. ASSUME NEW p \in Proc PROVE state'[p] = "blank" => yields'[p] = FALSE
    BY <1>0, Numbers DEF TypeOK, Timer, Interruptible, Placed, Saved, procs
  <2>3. ASSUME NEW p \in Proc, state'[p] = "runnable"
        PROVE  IF Executing(p)' THEN regs'[p] = None /\ yields'[p] = FALSE
                                ELSE (regs'[p] # None) <=> (yields'[p] = FALSE)
    <3>1. PICK d \in Cpu : p \in Of(d)
      BY Owned
    <3>2. /\ Executing(p) <=> (current[d] = p /\ at[d] \notin Masked)
          /\ Executing(p)' <=> (current'[d] = p /\ at'[d] \notin Masked)
      BY <2>1, <3>1
    <3>3. CASE p = current[c]
      <4>1. d = c
        BY <1>0, <3>1, <3>3, Owners DEF Placed, Homed
      <4>2. Executing(p) /\ ~Executing(p)' /\ state[p] = "runnable"
        BY <1>0, <2>3, <3>2, <3>3, <4>1 DEF TypeOK, Timer, Interruptible, Masked
      <4>3. yields[p] = FALSE /\ yields'[p] = yields[p]
        BY <1>0, <4>2 DEF Timer, Placed, Saved
      <4>5. regs'[p] = at[c] /\ at[c] # None
        BY <1>0, <3>3, SchedAssumption DEF TypeOK, Timer, Interruptible
      <4> QED BY <4>2, <4>3, <4>5
    <3>4. CASE p # current[c]
      BY <1>0, <2>3, <3>2, <3>4, Numbers DEF TypeOK, Timer, Interruptible, Placed, Saved, Masked, procs
    <3> QED BY <3>3, <3>4
  <2> QED BY <2>2, <2>3 DEF Saved
<1>6. Runs'
  BY <1>0 DEF TypeOK, Timer, Interruptible, Placed, Runs, procs
<1> QED BY <1>2, <1>3, <1>4, <1>5, <1>6 DEF Placed

\* A system call moves only its CPU.
LEMMA EnterPlaced == ASSUME IInv, Placed, NEW c \in Cpu, NEW l \in {"window", "pause", "fork", "read"}, Enter(c, l) PROVE Placed'
<1> USE DEF Goto
<1>0. TypeOK /\ Located /\ Placed
  BY DEF IInv
<1>1. /\ UNCHANGED <<current, runq, runq_lock, q>>
      /\ at[c] \notin {"enqueue", "pop", "push"} /\ at'[c] \notin {"enqueue", "pop", "push"}
      /\ \A d \in Cpu : d # c => at'[d] = at[d] /\ new'[d] = new[d]
  BY <1>0 DEF TypeOK, Enter, Interruptible
<1>2. (\A d \in Cpu : Queue(d)' = Queue(d)) /\ RunqLocked' /\ Homed' /\ Once' /\ Absent'
  BY <1>1, Quiet
<1>3. Known'
  <2>1. \A p \in Proc : state[p] # "blank" => state'[p] # "blank"
    BY <1>0 DEF TypeOK, Enter, Interruptible, procs
  <2>2. at'[c] \notin {"loop", "pop"}
    BY <1>0 DEF TypeOK, Enter, Interruptible
  <2> QED BY <1>1, <1>2, <2>1, <2>2, KnownKept
<1>4. Present'
  <2>1. \A p \in Pid : state'[p] = "runnable" => state[p] = "runnable"
    BY <1>0, Numbers DEF TypeOK, Enter, Interruptible, procs
  <2>2. \A p \in Pid : InFork(p) => InFork(p)'
    BY <1>0 DEF TypeOK, Enter, Interruptible, InFork
  <2> QED BY <1>1, <1>2, <2>1, <2>2, PresentKept
<1>5. Saved'
  <2>1. \A d \in Cpu : current'[d] = current[d] /\ (at'[d] \in Masked <=> at[d] \in Masked)
    BY <1>0 DEF TypeOK, Enter, Masked
  <2>2. \A p \in Proc : Executing(p)' <=> Executing(p)
    BY <2>1 DEF Executing, Masked
  <2> QED BY <2>2, SavedKept DEF Enter
<1>6. Runs'
  BY <1>0 DEF TypeOK, Enter, Placed, Runs, procs
<1> QED BY <1>2, <1>3, <1>4, <1>5, <1>6 DEF Placed

\* So does the end of a pause.
LEMMA EndPausePlaced == ASSUME IInv, Placed, NEW c \in Cpu, EndPause(c) PROVE Placed'
<1> USE DEF Goto
<1>0. TypeOK /\ Located /\ Placed
  BY DEF IInv
<1>1. /\ UNCHANGED <<current, runq, runq_lock, q>>
      /\ at[c] \notin {"enqueue", "pop", "push"} /\ at'[c] \notin {"enqueue", "pop", "push"}
      /\ \A d \in Cpu : d # c => at'[d] = at[d] /\ new'[d] = new[d]
  BY <1>0 DEF TypeOK, EndPause, Interruptible
<1>2. (\A d \in Cpu : Queue(d)' = Queue(d)) /\ RunqLocked' /\ Homed' /\ Once' /\ Absent'
  BY <1>1, Quiet
<1>3. Known'
  <2>1. \A p \in Proc : state[p] # "blank" => state'[p] # "blank"
    BY <1>0 DEF TypeOK, EndPause, Interruptible, procs
  <2>2. at'[c] \notin {"loop", "pop"}
    BY <1>0 DEF TypeOK, EndPause, Interruptible
  <2> QED BY <1>1, <1>2, <2>1, <2>2, KnownKept
<1>4. Present'
  <2>1. \A p \in Pid : state'[p] = "runnable" => state[p] = "runnable"
    BY <1>0, Numbers DEF TypeOK, EndPause, Interruptible, procs
  <2>2. \A p \in Pid : InFork(p) => InFork(p)'
    BY <1>0 DEF TypeOK, EndPause, Interruptible, InFork
  <2> QED BY <1>1, <1>2, <2>1, <2>2, PresentKept
<1>5. Saved'
  <2>1. \A d \in Cpu : current'[d] = current[d] /\ (at'[d] \in Masked <=> at[d] \in Masked)
    BY <1>0 DEF TypeOK, EndPause, Masked
  <2>2. \A p \in Proc : Executing(p)' <=> Executing(p)
    BY <2>1 DEF Executing, Masked
  <2> QED BY <2>2, SavedKept DEF EndPause
<1>6. Runs'
  BY <1>0 DEF TypeOK, EndPause, Interruptible, Placed, Runs, procs
<1> QED BY <1>2, <1>3, <1>4, <1>5, <1>6 DEF Placed

\* So does the end of one that waited.
LEMMA EndReadPlaced == ASSUME IInv, Placed, NEW c \in Cpu, EndRead(c) PROVE Placed'
<1> USE DEF Goto
<1>0. TypeOK /\ Located /\ Placed
  BY DEF IInv
<1>1. /\ UNCHANGED <<current, runq, runq_lock, q>>
      /\ at[c] \notin {"enqueue", "pop", "push"} /\ at'[c] \notin {"enqueue", "pop", "push"}
      /\ \A d \in Cpu : d # c => at'[d] = at[d] /\ new'[d] = new[d]
  BY <1>0 DEF TypeOK, EndRead, Interruptible
<1>2. (\A d \in Cpu : Queue(d)' = Queue(d)) /\ RunqLocked' /\ Homed' /\ Once' /\ Absent'
  BY <1>1, Quiet
<1>3. Known'
  <2>1. \A p \in Proc : state[p] # "blank" => state'[p] # "blank"
    BY <1>0 DEF TypeOK, EndRead, Interruptible, procs
  <2>2. at'[c] \notin {"loop", "pop"}
    BY <1>0 DEF TypeOK, EndRead, Interruptible
  <2> QED BY <1>1, <1>2, <2>1, <2>2, KnownKept
<1>4. Present'
  <2>1. \A p \in Pid : state'[p] = "runnable" => state[p] = "runnable"
    BY <1>0, Numbers DEF TypeOK, EndRead, Interruptible, procs
  <2>2. \A p \in Pid : InFork(p) => InFork(p)'
    BY <1>0 DEF TypeOK, EndRead, Interruptible, InFork
  <2> QED BY <1>1, <1>2, <2>1, <2>2, PresentKept
<1>5. Saved'
  <2>1. \A d \in Cpu : current'[d] = current[d] /\ (at'[d] \in Masked <=> at[d] \in Masked)
    BY <1>0 DEF TypeOK, EndRead, Masked
  <2>2. \A p \in Proc : Executing(p)' <=> Executing(p)
    BY <2>1 DEF Executing, Masked
  <2> QED BY <2>2, SavedKept DEF EndRead
<1>6. Runs'
  BY <1>0 DEF TypeOK, EndRead, Interruptible, Placed, Runs, procs
<1> QED BY <1>2, <1>3, <1>4, <1>5, <1>6 DEF Placed

\* A process that faults is no longer runnable.
LEMMA PageFaultPlaced == ASSUME IInv, Placed, NEW c \in Cpu, PageFault(c) PROVE Placed'
<1> USE DEF Goto
<1>0. TypeOK /\ Located /\ Placed
  BY DEF IInv
<1>1. /\ UNCHANGED <<current, runq, runq_lock, q>>
      /\ at[c] \notin {"enqueue", "pop", "push"} /\ at'[c] \notin {"enqueue", "pop", "push"}
      /\ \A d \in Cpu : d # c => at'[d] = at[d] /\ new'[d] = new[d]
  BY <1>0 DEF TypeOK, PageFault, Interruptible
<1>2. (\A d \in Cpu : Queue(d)' = Queue(d)) /\ RunqLocked' /\ Homed' /\ Once' /\ Absent'
  BY <1>1, Quiet
<1>3. Known'
  <2>1. \A p \in Proc : state[p] # "blank" => state'[p] # "blank"
    BY <1>0 DEF TypeOK, PageFault, Interruptible, procs
  <2>2. at'[c] \notin {"loop", "pop"}
    BY <1>0 DEF TypeOK, PageFault, Interruptible
  <2> QED BY <1>1, <1>2, <2>1, <2>2, KnownKept
<1>4. Present'
  <2>1. \A p \in Pid : state'[p] = "runnable" => state[p] = "runnable"
    BY <1>0, Numbers DEF TypeOK, PageFault, Interruptible, procs
  <2>2. \A p \in Pid : InFork(p) => InFork(p)'
    BY <1>0 DEF TypeOK, PageFault, Interruptible, InFork
  <2> QED BY <1>1, <1>2, <2>1, <2>2, PresentKept
<1>5. Saved'
  <2>1. \A d \in Cpu : \A p \in Of(d) :
            /\ Executing(p) <=> (current[d] = p /\ at[d] \notin Masked)
            /\ Executing(p)' <=> (current'[d] = p /\ at'[d] \notin Masked)
    <3>1. ASSUME NEW d \in Cpu, NEW p \in Of(d)
          PROVE  Executing(p)' <=> (current'[d] = p /\ at'[d] \notin Masked)
      <4>1. \A e \in Cpu : current'[e] = p => e = d
        BY <1>2, Owners DEF Homed
      <4> QED BY <4>1 DEF Executing, Masked
    <3> QED BY <1>0, <3>1, ExecutingAt DEF Placed
  <2>2. ASSUME NEW p \in Proc PROVE state'[p] = "blank" => yields'[p] = FALSE
    BY <1>0, Numbers DEF TypeOK, PageFault, Interruptible, Placed, Saved, procs
  <2>3. ASSUME NEW p \in Proc, state'[p] = "runnable"
        PROVE  IF Executing(p)' THEN regs'[p] = None /\ yields'[p] = FALSE
                                ELSE (regs'[p] # None) <=> (yields'[p] = FALSE)
    <3>1. PICK d \in Cpu : p \in Of(d)
      BY Owned
    <3>2. /\ Executing(p) <=> (current[d] = p /\ at[d] \notin Masked)
          /\ Executing(p)' <=> (current'[d] = p /\ at'[d] \notin Masked)
      BY <2>1, <3>1
    <3>3. CASE p = current[c]
      <4>1. d = c
        BY <1>0, <3>1, <3>3, Owners DEF Placed, Homed
      <4> QED BY <1>0, <2>3, <3>3, Numbers DEF TypeOK, PageFault
    <3>4. CASE p # current[c]
      BY <1>0, <2>3, <3>2, <3>4, Numbers DEF TypeOK, PageFault, Interruptible, Placed, Saved, Masked, procs
    <3> QED BY <3>3, <3>4
  <2> QED BY <2>2, <2>3 DEF Saved
<1>6. Runs'
  <2>1. \A d \in Cpu : d # c => current[d] # current[c]
    BY <1>0, Numbers, Owners DEF PageFault, Placed, Homed
  <2> QED BY <1>0, <2>1 DEF TypeOK, PageFault, Placed, Runs
<1> QED BY <1>2, <1>3, <1>4, <1>5, <1>6 DEF Placed

\* proc::yield saves the process that yields.
LEMMA YieldSavePlaced == ASSUME IInv, Placed, NEW c \in Cpu, YieldSave(c) PROVE Placed'
<1> USE DEF Goto
<1>0. TypeOK /\ Located /\ Placed
  BY DEF IInv
<1>1. /\ UNCHANGED <<current, runq, runq_lock, q>>
      /\ at[c] \notin {"enqueue", "pop", "push"} /\ at'[c] \notin {"enqueue", "pop", "push"}
      /\ \A d \in Cpu : d # c => at'[d] = at[d] /\ new'[d] = new[d]
  BY <1>0 DEF TypeOK, YieldSave, Interruptible
<1>2. (\A d \in Cpu : Queue(d)' = Queue(d)) /\ RunqLocked' /\ Homed' /\ Once' /\ Absent'
  BY <1>1, Quiet
<1>3. Known'
  <2>1. \A p \in Proc : state[p] # "blank" => state'[p] # "blank"
    BY <1>0 DEF TypeOK, YieldSave, Interruptible, procs
  <2>2. at'[c] \notin {"loop", "pop"}
    BY <1>0 DEF TypeOK, YieldSave, Interruptible
  <2> QED BY <1>1, <1>2, <2>1, <2>2, KnownKept
<1>4. Present'
  <2>1. \A p \in Pid : state'[p] = "runnable" => state[p] = "runnable"
    BY <1>0, Numbers DEF TypeOK, YieldSave, Interruptible, procs
  <2>2. \A p \in Pid : InFork(p) => InFork(p)'
    BY <1>0 DEF TypeOK, YieldSave, Interruptible, InFork
  <2> QED BY <1>1, <1>2, <2>1, <2>2, PresentKept
<1>5. Saved'
  <2>1. \A d \in Cpu : \A p \in Of(d) :
            /\ Executing(p) <=> (current[d] = p /\ at[d] \notin Masked)
            /\ Executing(p)' <=> (current'[d] = p /\ at'[d] \notin Masked)
    <3>1. ASSUME NEW d \in Cpu, NEW p \in Of(d)
          PROVE  Executing(p)' <=> (current'[d] = p /\ at'[d] \notin Masked)
      <4>1. \A e \in Cpu : current'[e] = p => e = d
        BY <1>2, Owners DEF Homed
      <4> QED BY <4>1 DEF Executing, Masked
    <3> QED BY <1>0, <3>1, ExecutingAt DEF Placed
  <2>2. ASSUME NEW p \in Proc PROVE state'[p] = "blank" => yields'[p] = FALSE
    BY <1>0, Numbers DEF TypeOK, Located, YieldSave, Placed, Known, Saved
  <2>3. ASSUME NEW p \in Proc, state'[p] = "runnable"
        PROVE  IF Executing(p)' THEN regs'[p] = None /\ yields'[p] = FALSE
                                ELSE (regs'[p] # None) <=> (yields'[p] = FALSE)
    <3>1. PICK d \in Cpu : p \in Of(d)
      BY Owned
    <3>2. /\ Executing(p) <=> (current[d] = p /\ at[d] \notin Masked)
          /\ Executing(p)' <=> (current'[d] = p /\ at'[d] \notin Masked)
      BY <2>1, <3>1
    <3>3. CASE p = current[c]
      <4>1. d = c
        BY <1>0, <3>1, <3>3, Owners DEF Placed, Homed
      <4>2. Executing(p) /\ ~Executing(p)' /\ state[p] = "runnable"
        BY <1>0, <2>3, <3>2, <3>3, <4>1 DEF TypeOK, YieldSave, Masked
      <4>3. yields'[p] = TRUE /\ regs'[p] = regs[p] /\ regs[p] = None
        BY <1>0, <3>3, <4>2, Numbers DEF TypeOK, YieldSave, Placed, Saved
      <4> QED BY <4>2, <4>3
    <3>4. CASE p # current[c]
      BY <1>0, <2>3, <3>2, <3>4, Numbers DEF TypeOK, YieldSave, Interruptible, Placed, Saved, Masked, procs
    <3> QED BY <3>3, <3>4
  <2> QED BY <2>2, <2>3 DEF Saved
<1>6. Runs'
  BY <1>0 DEF TypeOK, YieldSave, Interruptible, Placed, Runs, procs
<1> QED BY <1>2, <1>3, <1>4, <1>5, <1>6 DEF Placed

\* The memory viewer touches no task.
LEMMA MemshowPlaced == ASSUME IInv, Placed, NEW c \in Cpu, Memshow(c) PROVE Placed'
<1> USE DEF Goto
<1>0. TypeOK /\ Located /\ Placed
  BY DEF IInv
<1>1. /\ UNCHANGED <<current, runq, runq_lock, q>>
      /\ at[c] \notin {"enqueue", "pop", "push"} /\ at'[c] \notin {"enqueue", "pop", "push"}
      /\ \A d \in Cpu : d # c => at'[d] = at[d] /\ new'[d] = new[d]
  BY <1>0 DEF TypeOK, Memshow, Interruptible
<1>2. (\A d \in Cpu : Queue(d)' = Queue(d)) /\ RunqLocked' /\ Homed' /\ Once' /\ Absent'
  BY <1>1, Quiet
<1>3. Known'
  <2>1. \A p \in Proc : state[p] # "blank" => state'[p] # "blank"
    BY <1>0 DEF TypeOK, Memshow, Interruptible, procs
  <2>2. at'[c] \notin {"loop", "pop"}
    BY <1>0 DEF TypeOK, Memshow, Interruptible
  <2> QED BY <1>1, <1>2, <2>1, <2>2, KnownKept
<1>4. Present'
  <2>1. \A p \in Pid : state'[p] = "runnable" => state[p] = "runnable"
    BY <1>0, Numbers DEF TypeOK, Memshow, Interruptible, procs
  <2>2. \A p \in Pid : InFork(p) => InFork(p)'
    BY <1>0 DEF TypeOK, Memshow, Interruptible, InFork
  <2> QED BY <1>1, <1>2, <2>1, <2>2, PresentKept
<1>5. Saved'
  <2>1. \A d \in Cpu : current'[d] = current[d] /\ (at'[d] \in Masked <=> at[d] \in Masked)
    BY <1>0 DEF TypeOK, Memshow, Masked
  <2>2. \A p \in Proc : Executing(p)' <=> Executing(p)
    BY <2>1 DEF Executing, Masked
  <2> QED BY <2>2, SavedKept DEF Memshow
<1>6. Runs'
  BY <1>0 DEF TypeOK, Memshow, Interruptible, Placed, Runs, procs
<1> QED BY <1>2, <1>3, <1>4, <1>5, <1>6 DEF Placed

\* Nor does its end.
LEMMA EndMemshowPlaced == ASSUME IInv, Placed, NEW c \in Cpu, EndMemshow(c) PROVE Placed'
<1> USE DEF Goto
<1>0. TypeOK /\ Located /\ Placed
  BY DEF IInv
<1>1. /\ UNCHANGED <<current, runq, runq_lock, q>>
      /\ at[c] \notin {"enqueue", "pop", "push"} /\ at'[c] \notin {"enqueue", "pop", "push"}
      /\ \A d \in Cpu : d # c => at'[d] = at[d] /\ new'[d] = new[d]
  BY <1>0 DEF TypeOK, EndMemshow, Interruptible
<1>2. (\A d \in Cpu : Queue(d)' = Queue(d)) /\ RunqLocked' /\ Homed' /\ Once' /\ Absent'
  BY <1>1, Quiet
<1>3. Known'
  <2>1. \A p \in Proc : state[p] # "blank" => state'[p] # "blank"
    BY <1>0 DEF TypeOK, EndMemshow, Interruptible, procs
  <2>2. at'[c] \notin {"loop", "pop"}
    BY <1>0 DEF TypeOK, EndMemshow, Interruptible
  <2> QED BY <1>1, <1>2, <2>1, <2>2, KnownKept
<1>4. Present'
  <2>1. \A p \in Pid : state'[p] = "runnable" => state[p] = "runnable"
    BY <1>0, Numbers DEF TypeOK, EndMemshow, Interruptible, procs
  <2>2. \A p \in Pid : InFork(p) => InFork(p)'
    BY <1>0 DEF TypeOK, EndMemshow, Interruptible, InFork
  <2> QED BY <1>1, <1>2, <2>1, <2>2, PresentKept
<1>5. Saved'
  <2>1. \A d \in Cpu : current'[d] = current[d] /\ (at'[d] \in Masked <=> at[d] \in Masked)
    BY <1>0 DEF TypeOK, EndMemshow, Masked
  <2>2. \A p \in Proc : Executing(p)' <=> Executing(p)
    BY <2>1 DEF Executing, Masked
  <2> QED BY <2>2, SavedKept DEF EndMemshow
<1>6. Runs'
  BY <1>0 DEF TypeOK, EndMemshow, Interruptible, Placed, Runs, procs
<1> QED BY <1>2, <1>3, <1>4, <1>5, <1>6 DEF Placed

\* schedule makes the idle task once, while nobody executes it.
LEMMA SchedulePlaced == ASSUME IInv, Placed, NEW c \in Cpu, Schedule(c) PROVE Placed'
<1> USE DEF Goto
<1>0. TypeOK /\ Located /\ Placed
  BY DEF IInv
<1>1. /\ UNCHANGED <<current, runq, runq_lock, q>>
      /\ at[c] \notin {"enqueue", "pop", "push"} /\ at'[c] \notin {"enqueue", "pop", "push"}
      /\ \A d \in Cpu : d # c => at'[d] = at[d] /\ new'[d] = new[d]
  BY <1>0 DEF TypeOK, Schedule, Interruptible
<1>2. (\A d \in Cpu : Queue(d)' = Queue(d)) /\ RunqLocked' /\ Homed' /\ Once' /\ Absent'
  BY <1>1, Quiet
<1>3. Known'
  <2>1. \A p \in Proc : state[p] # "blank" => state'[p] # "blank"
    BY <1>0 DEF TypeOK, Schedule
  <2>2. state'[Idle(c)] # "blank"
    BY <1>0, Numbers DEF TypeOK, Schedule
  <2> QED BY <1>1, <1>2, <2>1, <2>2, KnownKept
<1>4. Present'
  <2>1. \A p \in Pid : state'[p] = "runnable" => state[p] = "runnable"
    BY <1>0, Numbers DEF TypeOK, Schedule, Interruptible, procs
  <2>2. \A p \in Pid : InFork(p) => InFork(p)'
    BY <1>0 DEF TypeOK, Schedule, Interruptible, InFork
  <2> QED BY <1>1, <1>2, <2>1, <2>2, PresentKept
<1>5. Saved'
  <2>1. \A d \in Cpu : \A p \in Of(d) :
            /\ Executing(p) <=> (current[d] = p /\ at[d] \notin Masked)
            /\ Executing(p)' <=> (current'[d] = p /\ at'[d] \notin Masked)
    <3>1. ASSUME NEW d \in Cpu, NEW p \in Of(d)
          PROVE  Executing(p)' <=> (current'[d] = p /\ at'[d] \notin Masked)
      <4>1. \A e \in Cpu : current'[e] = p => e = d
        BY <1>2, Owners DEF Homed
      <4> QED BY <4>1 DEF Executing, Masked
    <3> QED BY <1>0, <3>1, ExecutingAt DEF Placed
  <2>2. ASSUME NEW p \in Proc PROVE state'[p] = "blank" => yields'[p] = FALSE
    BY <1>0, Numbers DEF TypeOK, Schedule, Interruptible, Placed, Saved, procs
  <2>3. ASSUME NEW p \in Proc, state'[p] = "runnable"
        PROVE  IF Executing(p)' THEN regs'[p] = None /\ yields'[p] = FALSE
                                ELSE (regs'[p] # None) <=> (yields'[p] = FALSE)
    <3>1. PICK d \in Cpu : p \in Of(d)
      BY Owned
    <3>2. /\ Executing(p) <=> (current[d] = p /\ at[d] \notin Masked)
          /\ Executing(p)' <=> (current'[d] = p /\ at'[d] \notin Masked)
      BY <2>1, <3>1
    <3>3. CASE p = current[c]
      <4>1. d = c
        BY <1>0, <3>1, <3>3, Owners DEF Placed, Homed
      <4>2. state[p] # "blank"
        BY <1>0, <3>3, Numbers DEF Placed, Known
      <4>3. state[p] = "runnable" /\ regs'[p] = regs[p] /\ yields'[p] = yields[p]
        BY <1>0, <2>3, <4>2, Numbers DEF TypeOK, Schedule
      <4>4. ~Executing(p) /\ ~Executing(p)'
        BY <1>0, <3>2, <4>1 DEF TypeOK, Schedule, Masked
      <4> QED BY <1>0, <4>3, <4>4 DEF Placed, Saved
    <3>4. CASE p # current[c]
      <4>1. Executing(p)' <=> Executing(p)
        BY <1>0, <3>2, <3>4 DEF TypeOK, Schedule, Masked
      <4>2. CASE p = Idle(c) /\ state[p] = "blank"
        <5>1. ~Executing(p)
          BY <1>0, <3>2, <4>2, Numbers DEF Placed, Known
        <5>2. regs'[p] = "user" /\ yields'[p] = FALSE
          BY <1>0, <4>2, Numbers DEF TypeOK, Schedule, Placed, Saved
        <5> QED BY <4>1, <5>1, <5>2, SchedAssumption
      <4>3. CASE ~(p = Idle(c) /\ state[p] = "blank")
        <5>1. state[p] = "runnable" /\ regs'[p] = regs[p] /\ yields'[p] = yields[p]
          BY <1>0, <2>3, <4>3, Numbers DEF TypeOK, Schedule
        <5> QED BY <1>0, <4>1, <5>1 DEF Placed, Saved
      <4> QED BY <4>2, <4>3
    <3> QED BY <3>3, <3>4
  <2> QED BY <2>2, <2>3 DEF Saved
<1>6. Runs'
  BY <1>0 DEF TypeOK, Schedule, Interruptible, Placed, Runs, procs
<1> QED BY <1>2, <1>3, <1>4, <1>5, <1>6 DEF Placed

\* resume uses up what was saved.
LEMMA ResumePlaced == ASSUME IInv, Placed, NEW c \in Cpu, Resume(c) PROVE Placed'
<1> USE DEF Goto
<1>0. TypeOK /\ Located /\ Placed
  BY DEF IInv
<1>7. current[c] \in Proc /\ state[current[c]] = "runnable" /\ at[c] = "loop"
  BY <1>0 DEF TypeOK, Resume, TryCurrent
<1>8. /\ \E l \in {"user", "pause", "window"} : at' = [at EXCEPT ![c] = l]
      /\ UNCHANGED <<current, runq, runq_lock, q, state, new>>
  BY <1>0, <1>7 DEF TypeOK, Resume
<1>1. /\ UNCHANGED <<current, runq, runq_lock, q>>
      /\ at[c] \notin {"enqueue", "pop", "push"} /\ at'[c] \notin {"enqueue", "pop", "push"}
      /\ \A d \in Cpu : d # c => at'[d] = at[d] /\ new'[d] = new[d]
  BY <1>0, <1>7, <1>8 DEF TypeOK
<1>2. (\A d \in Cpu : Queue(d)' = Queue(d)) /\ RunqLocked' /\ Homed' /\ Once' /\ Absent'
  BY <1>1, Quiet
<1>3. Known'
  <2>1. \A p \in Proc : state[p] # "blank" => state'[p] # "blank"
    BY <1>0 DEF TypeOK, Resume, Interruptible, procs
  <2>2. at'[c] \notin {"loop", "pop"}
    BY <1>0, <1>7, <1>8 DEF TypeOK
  <2> QED BY <1>1, <1>2, <2>1, <2>2, KnownKept
<1>4. Present'
  <2>1. \A p \in Pid : state'[p] = "runnable" => state[p] = "runnable"
    BY <1>0, Numbers DEF TypeOK, Resume, Interruptible, procs
  <2>2. \A p \in Pid : InFork(p) => InFork(p)'
    BY <1>0 DEF TypeOK, Resume, Interruptible, InFork
  <2> QED BY <1>1, <1>2, <2>1, <2>2, PresentKept
<1>5. Saved'
  <2>1. \A d \in Cpu : \A p \in Of(d) :
            /\ Executing(p) <=> (current[d] = p /\ at[d] \notin Masked)
            /\ Executing(p)' <=> (current'[d] = p /\ at'[d] \notin Masked)
    <3>1. ASSUME NEW d \in Cpu, NEW p \in Of(d)
          PROVE  Executing(p)' <=> (current'[d] = p /\ at'[d] \notin Masked)
      <4>1. \A e \in Cpu : current'[e] = p => e = d
        BY <1>2, Owners DEF Homed
      <4> QED BY <4>1 DEF Executing, Masked
    <3> QED BY <1>0, <3>1, ExecutingAt DEF Placed
  <2>2. ASSUME NEW p \in Proc PROVE state'[p] = "blank" => yields'[p] = FALSE
    BY <1>0, Numbers DEF TypeOK, Resume, Interruptible, Placed, Saved, procs
  <2>3. ASSUME NEW p \in Proc, state'[p] = "runnable"
        PROVE  IF Executing(p)' THEN regs'[p] = None /\ yields'[p] = FALSE
                                ELSE (regs'[p] # None) <=> (yields'[p] = FALSE)
    <3>1. PICK d \in Cpu : p \in Of(d)
      BY Owned
    <3>2. /\ Executing(p) <=> (current[d] = p /\ at[d] \notin Masked)
          /\ Executing(p)' <=> (current'[d] = p /\ at'[d] \notin Masked)
      BY <2>1, <3>1
    <3>3. CASE p = current[c]
      <4>1. d = c
        BY <1>0, <3>1, <3>3, Owners DEF Placed, Homed
      <4>2. ~Executing(p) /\ Executing(p)' /\ state[p] = "runnable"
        BY <1>0, <2>3, <3>2, <3>3, <4>1 DEF TypeOK, Resume, Masked
      <4>3. (regs[p] # None) <=> (yields[p] = FALSE)
        BY <1>0, <4>2 DEF Placed, Saved
      <4>4. CASE yields[p] = TRUE
        BY <1>0, <3>3, <4>2, <4>3, <4>4 DEF TypeOK, Resume
      <4>5. CASE yields[p] = FALSE
        BY <1>0, <3>3, <4>2, <4>3, <4>5 DEF TypeOK, Resume
      <4> QED BY <1>0, <4>4, <4>5 DEF TypeOK
    <3>4. CASE p # current[c]
      BY <1>0, <2>3, <3>2, <3>4, Numbers DEF TypeOK, Resume, Interruptible, Placed, Saved, Masked, procs
    <3> QED BY <3>3, <3>4
  <2> QED BY <2>2, <2>3 DEF Saved
<1>6. Runs'
  BY <1>0, <1>7, <1>8 DEF TypeOK, Placed, Runs
<1> QED BY <1>2, <1>3, <1>4, <1>5, <1>6 DEF Placed

\* Locking the table touches no task.
LEMMA ForkLockPlaced == ASSUME IInv, Placed, NEW c \in Cpu, ForkLock(c) PROVE Placed'
<1> USE DEF Goto
<1>0. TypeOK /\ Located /\ Placed
  BY DEF IInv
<1>1. /\ UNCHANGED <<current, runq, runq_lock, q>>
      /\ at[c] \notin {"enqueue", "pop", "push"} /\ at'[c] \notin {"enqueue", "pop", "push"}
      /\ \A d \in Cpu : d # c => at'[d] = at[d] /\ new'[d] = new[d]
  BY <1>0 DEF TypeOK, ForkLock, Interruptible
<1>2. (\A d \in Cpu : Queue(d)' = Queue(d)) /\ RunqLocked' /\ Homed' /\ Once' /\ Absent'
  BY <1>1, Quiet
<1>3. Known'
  <2>1. \A p \in Proc : state[p] # "blank" => state'[p] # "blank"
    BY <1>0 DEF TypeOK, ForkLock, Interruptible, procs
  <2>2. at'[c] \notin {"loop", "pop"}
    BY <1>0 DEF TypeOK, ForkLock, Interruptible
  <2> QED BY <1>1, <1>2, <2>1, <2>2, KnownKept
<1>4. Present'
  <2>1. \A p \in Pid : state'[p] = "runnable" => state[p] = "runnable"
    BY <1>0, Numbers DEF TypeOK, ForkLock, Interruptible, procs
  <2>2. \A p \in Pid : InFork(p) => InFork(p)'
    BY <1>0 DEF TypeOK, ForkLock, Interruptible, InFork
  <2> QED BY <1>1, <1>2, <2>1, <2>2, PresentKept
<1>5. Saved'
  <2>1. \A d \in Cpu : current'[d] = current[d] /\ (at'[d] \in Masked <=> at[d] \in Masked)
    BY <1>0 DEF TypeOK, ForkLock, Masked
  <2>2. \A p \in Proc : Executing(p)' <=> Executing(p)
    BY <2>1 DEF Executing, Masked
  <2> QED BY <2>2, SavedKept DEF ForkLock
<1>6. Runs'
  BY <1>0 DEF TypeOK, ForkLock, Interruptible, Placed, Runs, procs
<1> QED BY <1>2, <1>3, <1>4, <1>5, <1>6 DEF Placed

\* Nor does giving up.
LEMMA OutOfPidsPlaced == ASSUME IInv, Placed, NEW c \in Cpu, OutOfPids(c) PROVE Placed'
<1> USE DEF Goto
<1>0. TypeOK /\ Located /\ Placed
  BY DEF IInv
<1>1. /\ UNCHANGED <<current, runq, runq_lock, q>>
      /\ at[c] \notin {"enqueue", "pop", "push"} /\ at'[c] \notin {"enqueue", "pop", "push"}
      /\ \A d \in Cpu : d # c => at'[d] = at[d] /\ new'[d] = new[d]
  BY <1>0 DEF TypeOK, OutOfPids, Interruptible
<1>2. (\A d \in Cpu : Queue(d)' = Queue(d)) /\ RunqLocked' /\ Homed' /\ Once' /\ Absent'
  BY <1>1, Quiet
<1>3. Known'
  <2>1. \A p \in Proc : state[p] # "blank" => state'[p] # "blank"
    BY <1>0 DEF TypeOK, OutOfPids, Interruptible, procs
  <2>2. at'[c] \notin {"loop", "pop"}
    BY <1>0 DEF TypeOK, OutOfPids, Interruptible
  <2> QED BY <1>1, <1>2, <2>1, <2>2, KnownKept
<1>4. Present'
  <2>1. \A p \in Pid : state'[p] = "runnable" => state[p] = "runnable"
    BY <1>0, Numbers DEF TypeOK, OutOfPids, Interruptible, procs
  <2>2. \A p \in Pid : InFork(p) => InFork(p)'
    BY <1>0 DEF TypeOK, OutOfPids, Interruptible, InFork
  <2> QED BY <1>1, <1>2, <2>1, <2>2, PresentKept
<1>5. Saved'
  <2>1. \A d \in Cpu : current'[d] = current[d] /\ (at'[d] \in Masked <=> at[d] \in Masked)
    BY <1>0 DEF TypeOK, OutOfPids, Masked
  <2>2. \A p \in Proc : Executing(p)' <=> Executing(p)
    BY <2>1 DEF Executing, Masked
  <2> QED BY <2>2, SavedKept DEF OutOfPids
<1>6. Runs'
  BY <1>0 DEF TypeOK, OutOfPids, Interruptible, Placed, Runs, procs
<1> QED BY <1>2, <1>3, <1>4, <1>5, <1>6 DEF Placed

\* Nor does entering the child.
LEMMA ForkAllocPlaced == ASSUME IInv, Placed, NEW c \in Cpu, ForkAlloc(c) PROVE Placed'
<1> USE DEF Goto
<1>0. TypeOK /\ Located /\ Placed
  BY DEF IInv
<1>1. /\ UNCHANGED <<current, runq, runq_lock, q>>
      /\ at[c] \notin {"enqueue", "pop", "push"} /\ at'[c] \notin {"enqueue", "pop", "push"}
      /\ \A d \in Cpu : d # c => at'[d] = at[d] /\ new'[d] = new[d]
  BY <1>0 DEF TypeOK, ForkAlloc, Interruptible
<1>2. (\A d \in Cpu : Queue(d)' = Queue(d)) /\ RunqLocked' /\ Homed' /\ Once' /\ Absent'
  BY <1>1, Quiet
<1>3. Known'
  <2>1. \A p \in Proc : state[p] # "blank" => state'[p] # "blank"
    BY <1>0 DEF TypeOK, ForkAlloc, Interruptible, procs
  <2>2. at'[c] \notin {"loop", "pop"}
    BY <1>0 DEF TypeOK, ForkAlloc, Interruptible
  <2> QED BY <1>1, <1>2, <2>1, <2>2, KnownKept
<1>4. Present'
  <2>1. \A p \in Pid : state'[p] = "runnable" => state[p] = "runnable"
    BY <1>0, Numbers DEF TypeOK, ForkAlloc, Interruptible, procs
  <2>2. \A p \in Pid : InFork(p) => InFork(p)'
    BY <1>0 DEF TypeOK, ForkAlloc, Interruptible, InFork
  <2> QED BY <1>1, <1>2, <2>1, <2>2, PresentKept
<1>5. Saved'
  <2>1. \A d \in Cpu : current'[d] = current[d] /\ (at'[d] \in Masked <=> at[d] \in Masked)
    BY <1>0 DEF TypeOK, ForkAlloc, Masked
  <2>2. \A p \in Proc : Executing(p)' <=> Executing(p)
    BY <2>1 DEF Executing, Masked
  <2> QED BY <2>2, SavedKept DEF ForkAlloc
<1>6. Runs'
  BY <1>0 DEF TypeOK, ForkAlloc, Interruptible, Placed, Runs, procs
<1> QED BY <1>2, <1>3, <1>4, <1>5, <1>6 DEF Placed

\* When the kernel panics the child stays in its fork.
LEMMA NoMemoryPlaced == ASSUME IInv, Placed, NEW c \in Cpu, NoMemory(c) PROVE Placed'
<1> USE DEF Goto
<1>0. TypeOK /\ Located /\ Placed
  BY DEF IInv
<1>1. /\ UNCHANGED <<current, runq, runq_lock, q>>
      /\ at[c] \notin {"enqueue", "pop", "push"} /\ at'[c] \notin {"enqueue", "pop", "push"}
      /\ \A d \in Cpu : d # c => at'[d] = at[d] /\ new'[d] = new[d]
  BY <1>0 DEF TypeOK, NoMemory, Interruptible
<1>2. (\A d \in Cpu : Queue(d)' = Queue(d)) /\ RunqLocked' /\ Homed' /\ Once' /\ Absent'
  BY <1>1, Quiet
<1>3. Known'
  <2>1. \A p \in Proc : state[p] # "blank" => state'[p] # "blank"
    BY <1>0 DEF TypeOK, NoMemory, Interruptible, procs
  <2>2. at'[c] \notin {"loop", "pop"}
    BY <1>0 DEF TypeOK, NoMemory, Interruptible
  <2> QED BY <1>1, <1>2, <2>1, <2>2, KnownKept
<1>4. Present'
  <2>1. \A p \in Pid : state'[p] = "runnable" => state[p] = "runnable"
    BY <1>0, Numbers DEF TypeOK, NoMemory, Interruptible, procs
  <2>2. \A p \in Pid : InFork(p) => InFork(p)'
    BY <1>0 DEF TypeOK, NoMemory, Interruptible, InFork
  <2> QED BY <1>1, <1>2, <2>1, <2>2, PresentKept
<1>5. Saved'
  <2>1. \A d \in Cpu : current'[d] = current[d] /\ (at'[d] \in Masked <=> at[d] \in Masked)
    BY <1>0 DEF TypeOK, NoMemory, Masked
  <2>2. \A p \in Proc : Executing(p)' <=> Executing(p)
    BY <2>1 DEF Executing, Masked
  <2> QED BY <2>2, SavedKept DEF NoMemory
<1>6. Runs'
  BY <1>0 DEF TypeOK, NoMemory, Interruptible, Placed, Runs, procs
<1> QED BY <1>2, <1>3, <1>4, <1>5, <1>6 DEF Placed

\* fork ends when its child is on a queue.
LEMMA MadePlaced == ASSUME IInv, Placed, NEW c \in Cpu, Made(c) PROVE Placed'
<1> USE DEF Goto
<1>0. TypeOK /\ Located /\ Placed
  BY DEF IInv
<1>1. /\ UNCHANGED <<current, runq, runq_lock, q>>
      /\ at[c] \notin {"enqueue", "pop", "push"} /\ at'[c] \notin {"enqueue", "pop", "push"}
      /\ \A d \in Cpu : d # c => at'[d] = at[d] /\ new'[d] = new[d]
  BY <1>0 DEF TypeOK, Made, Interruptible
<1>2. (\A d \in Cpu : Queue(d)' = Queue(d)) /\ RunqLocked' /\ Homed' /\ Once' /\ Absent'
  BY <1>1, Quiet
<1>3. Known'
  <2>1. \A p \in Proc : state[p] # "blank" => state'[p] # "blank"
    BY <1>0 DEF TypeOK, Made, Interruptible, procs
  <2>2. at'[c] \notin {"loop", "pop"}
    BY <1>0 DEF TypeOK, Made, Interruptible
  <2> QED BY <1>1, <1>2, <2>1, <2>2, KnownKept
<1>4. Present'
  <2>1. \A p \in Pid : state'[p] = "runnable" => state[p] = "runnable"
    BY <1>0, Numbers DEF TypeOK, Made, Interruptible, procs
  <2>2. \A p \in Pid : InFork(p) => InFork(p)'
    BY <1>0 DEF TypeOK, Made, Interruptible, InFork
  <2> QED BY <1>1, <1>2, <2>1, <2>2, PresentKept
<1>5. Saved'
  <2>1. \A d \in Cpu : current'[d] = current[d]
                        /\ (current[d] = None \/ (at'[d] \in Masked <=> at[d] \in Masked))
    BY <1>0 DEF TypeOK, Made, Masked
  <2>2. \A p \in Proc : Executing(p)' <=> Executing(p)
    BY <2>1, Numbers DEF Executing, Masked
  <2> QED BY <2>2, SavedKept DEF Made
<1>6. Runs'
  BY <1>0 DEF TypeOK, Made, Interruptible, Placed, Runs, procs
<1> QED BY <1>2, <1>3, <1>4, <1>5, <1>6 DEF Placed

\* fork's child is made while it is on no queue.
LEMMA ForkCopyPlaced == ASSUME IInv, Placed, NEW c \in Cpu, ForkCopy(c) PROVE Placed'
<1>0. TypeOK /\ Located /\ Staged /\ Placed
  BY DEF IInv
<1> PICK n \in Pid : n = new[c]
  BY <1>0 DEF Located, ForkCopy
<1>1. /\ UNCHANGED <<current, runq, runq_lock, q, new>>
      /\ at[c] = "copy" /\ at' = [at EXCEPT ![c] = "enqueue"]
      /\ n = new[c] /\ n \in Proc /\ state[n] = "blank"
      /\ state' = [state EXCEPT ![n] = "runnable"]
      /\ regs' = [regs EXCEPT ![n] = "user"]
      /\ yields' = [yields EXCEPT ![n] = FALSE]
  BY <1>0, Numbers DEF Located, Staged, ForkCopy, Goto
<1>2. \A d \in Cpu : Queue(d)' = Queue(d)
  BY <1>0, <1>1 DEF TypeOK, Queue
<1>3. \A d \in Cpu : n # current[d] /\ n \notin Elements(Queue(d))
  BY <1>0, <1>1, Numbers DEF Placed, Known
<1>4. RunqLocked'
  BY <1>0, <1>1 DEF TypeOK, Placed, RunqLocked
<1>5. Homed'
  BY <1>0, <1>1, <1>2 DEF Placed, Homed
<1>6. Once'
  BY <1>0, <1>1, <1>2 DEF TypeOK, Placed, Once
<1>7. Known'
  <2>1. \A p \in Proc : state[p] # "blank" => state'[p] # "blank"
    BY <1>0, <1>1 DEF TypeOK
  <2>2. state'[n] # "blank" /\ \A d \in Cpu : d # c => at'[d] = at[d]
    BY <1>0, <1>1 DEF TypeOK
  <2>3. at'[c] = "enqueue"
    BY <1>0, <1>1 DEF TypeOK
  <2> QED BY <1>0, <1>1, <1>2, <2>1, <2>2, <2>3, KnownKept
<1>8. Absent'
  <2>1. new'[c] = n
    BY <1>1
  <2> QED BY <1>0, <1>1, <1>2, <1>3, <2>1 DEF TypeOK, Placed, Absent
<1>9. Present'
  <2>1. \A p \in Pid : InFork(p) => InFork(p)'
    BY <1>0, <1>1 DEF TypeOK, InFork
  <2>2. InFork(n)'
    BY <1>0, <1>1 DEF TypeOK, InFork
  <2>3. \A p \in Pid : p # n => state'[p] = state[p]
    BY <1>0, <1>1 DEF TypeOK
  <2> QED BY <1>0, <1>1, <1>2, <2>1, <2>2, <2>3 DEF Placed, Present
<1>10. Saved'
  <2>1. \A p \in Proc : Executing(p)' <=> Executing(p)
    BY <1>0, <1>1 DEF TypeOK, Executing
  <2>2. ~Executing(n)
    BY <1>3 DEF Executing
  <2>3. \A p \in Proc : p # n => UNCHANGED <<state[p], regs[p], yields[p]>>
    BY <1>0, <1>1 DEF TypeOK
  <2>4. state'[n] = "runnable" /\ regs'[n] = "user" /\ yields'[n] = FALSE
    BY <1>0, <1>1 DEF TypeOK
  <2> QED BY <1>0, <2>1, <2>2, <2>3, <2>4, SchedAssumption DEF Placed, Saved
<1>11. Runs'
  BY <1>0, <1>1, <1>3 DEF TypeOK, Placed, Runs
<1> QED BY <1>4, <1>5, <1>6, <1>7, <1>8, <1>9, <1>10, <1>11 DEF Placed

\* fork takes the lock and copies the queue of its child's CPU.
LEMMA LockRunqPlaced == ASSUME IInv, Placed, NEW c \in Cpu, LockRunq(c) PROVE Placed'
<1> DEFINE h == Home(new[c])
<1>0. TypeOK /\ Located /\ Placed
  BY DEF IInv
<1>1. /\ UNCHANGED <<current, runq, new, procs>>
      /\ at[c] = "enqueue" /\ at' = [at EXCEPT ![c] = "push"]
      /\ h \in Cpu /\ runq_lock[h] = None
      /\ runq_lock' = [runq_lock EXCEPT ![h] = c]
      /\ q' = [q EXCEPT ![c] = runq[h]]
  BY <1>0, Numbers DEF Located, LockRunq, Goto
<1>2. \A d \in Cpu : Queue(d)' = Queue(d)
  BY <1>0, <1>1 DEF TypeOK, Queue
<1>3. RunqLocked'
  <2>1. runq_lock'[Home(new'[c])] = c /\ q'[c] = runq'[Home(new'[c])]
    BY <1>0, <1>1 DEF TypeOK
  <2> HIDE DEF h
  <2>2. at'[c] = "push" /\ \A d \in Cpu : d # c => at'[d] = at[d] /\ q'[d] = q[d]
    BY <1>0, <1>1 DEF TypeOK
  <2>3. \A d \in Cpu : runq_lock[d] # None => runq_lock'[d] = runq_lock[d]
    BY <1>0, <1>1 DEF TypeOK
  <2>4. \A d \in Cpu : at[d] = "push" => Home(new[d]) \in Cpu
    BY <1>0, Numbers DEF Located
  <2> QED BY <1>0, <1>1, <2>1, <2>2, <2>3, <2>4, Numbers DEF Placed, RunqLocked
<1> HIDE DEF h
<1>4. Homed'
  BY <1>0, <1>1, <1>2 DEF Placed, Homed
<1>5. Once'
  BY <1>0, <1>1, <1>2 DEF TypeOK, Placed, Once
<1>6. Known'
  <2>1. at'[c] = "push" /\ state'[new'[c]] # "blank" /\ \A d \in Cpu : d # c => at'[d] = at[d]
    BY <1>0, <1>1 DEF TypeOK, Placed, Known, procs
  <2> QED BY <1>0, <1>1, <1>2, <2>1, KnownKept DEF procs
<1>7. Absent'
  BY <1>0, <1>1, <1>2 DEF TypeOK, Placed, Absent
<1>8. Present'
  <2>1. \A p \in Pid : InFork(p) => InFork(p)'
    BY <1>0, <1>1 DEF TypeOK, InFork
  <2> QED BY <1>0, <1>1, <1>2, <2>1, PresentKept DEF procs
<1>9. Saved'
  <2>1. \A p \in Proc : Executing(p)' <=> Executing(p)
    BY <1>0, <1>1 DEF TypeOK, Executing
  <2> QED BY <1>1, <2>1, SavedKept
<1>10. Runs'
  BY <1>0, <1>1 DEF TypeOK, Placed, Runs, procs
<1> QED BY <1>3, <1>4, <1>5, <1>6, <1>7, <1>8, <1>9, <1>10 DEF Placed

\* fork appends its child to the queue it locked, which no one else changed since.
LEMMA PushPlaced == ASSUME IInv, Placed, NEW c \in Cpu, Push(c) PROVE Placed'
<1>0. TypeOK /\ Located /\ Locked /\ Placed
  BY DEF IInv
<1> PICK n \in Pid : n = new[c]
  BY <1>0 DEF Located, Push
<1> PICK h \in Cpu : h = Home(n)
  BY Numbers
<1>1. /\ UNCHANGED <<current, new, procs, ptable_lock>>
      /\ at[c] = "push" /\ at' = [at EXCEPT ![c] = "made"]
      /\ n = new[c] /\ h = Home(n) /\ n \in Proc /\ n \in Of(h)
      /\ runq' = [runq EXCEPT ![h] = Enqueued(q[c], current[h], n)]
      /\ runq_lock' = [runq_lock EXCEPT ![h] = None]
      /\ q' = [q EXCEPT ![c] = << >>]
  BY <1>0, Numbers DEF Located, Push, Goto, Of
<1>2. runq_lock[h] = c /\ q[c] = runq[h]
  BY <1>0, <1>1 DEF Placed, RunqLocked
<1>3. at[h] # "pop" /\ Queue(h) = runq[h]
  BY <1>0, <1>1, <1>2 DEF Placed, RunqLocked, Queue
<1>4. current[h] # n /\ n \notin Elements(runq[h])
  BY <1>0, <1>1, <1>3 DEF Placed, Absent
<1>5. ~Linked(n)
  BY <1>0, <1>1, <1>4, Owners DEF Linked, Placed, Homed
<1>6. runq' = [runq EXCEPT ![h] = Append(runq[h], n)]
  BY <1>1, <1>2, <1>4, <1>5 DEF Enqueued
<1>7. /\ \A d \in Cpu : d # h => Queue(d)' = Queue(d) /\ runq'[d] = runq[d]
      /\ Queue(h)' = Append(Queue(h), n) /\ runq'[h] = Append(Queue(h), n)
  <2>1. at'[h] # "pop" /\ runq'[h] = Append(Queue(h), n)
    BY <1>0, <1>1, <1>3, <1>6 DEF TypeOK
  <2>2. \A d \in Cpu : d # h => Queue(d)' = Queue(d) /\ runq'[d] = runq[d]
    BY <1>0, <1>1, <1>6 DEF TypeOK, Queue
  <2> QED BY <2>1, <2>2 DEF Queue
<1>8. Queue(h) \in Seq(Proc)
  BY <1>0, <1>1 DEF TypeOK, Queue
<1>9. /\ Elements(Queue(h)') = Elements(Queue(h)) \cup {n}
      /\ Distinct(Queue(h)')
      /\ Elements(runq'[h]) = Elements(Queue(h)')
  BY <1>0, <1>1, <1>3, <1>4, <1>7, <1>8, Appended DEF Placed, Once
<1>10. \A d \in Cpu : d # c => at[d] \notin {"enqueue", "push"}
  BY <1>0, <1>1 DEF Locked
<1>11. RunqLocked'
  <2>1. \A d \in Cpu : d # c => at'[d] = at[d]
    BY <1>0, <1>1 DEF TypeOK
  <2>2. at'[c] = "made" /\ \A d \in Cpu : at[d] = "pop" => d # h
    BY <1>0, <1>1, <1>3 DEF TypeOK
  <2> QED BY <1>0, <1>1, <1>10, <2>1, <2>2 DEF TypeOK, Placed, RunqLocked
<1>12. Homed'
  BY <1>0, <1>1, <1>7, <1>9 DEF Placed, Homed
<1>13. Once'
  <2>1. \A d \in Cpu : Distinct(Queue(d)')
    BY <1>0, <1>7, <1>9 DEF Placed, Once
  <2>2. \A d \in Cpu : current'[d] \notin Elements(Queue(d)')
    BY <1>0, <1>1, <1>4, <1>7, <1>9 DEF Placed, Once
  <2>3. \A d \in Cpu : at'[d] = "pop" => current'[d] = None
    BY <1>0, <1>1 DEF TypeOK, Placed, Once
  <2> QED BY <2>1, <2>2, <2>3 DEF Once
<1>14. state[n] # "blank"
  BY <1>0, <1>1 DEF Placed, Known
<1>15. Known'
  <2>1. state' = state /\ current' = current /\ new' = new
    BY <1>1 DEF procs
  <2>2. \A d \in Cpu : at'[d] = at[d] \/ at'[d] = "made"
    BY <1>0, <1>1 DEF TypeOK
  <2>3. \A d \in Cpu : Elements(Queue(d)') \subseteq Elements(Queue(d)) \cup {n}
    BY <1>7, <1>9
  <2>4. Known
    BY <1>0 DEF Placed
  <2>5. \A d \in Cpu : \A p \in Elements(Queue(d)') : state[p] # "blank"
    BY <1>14, <2>3, <2>4 DEF Known
  <2> QED BY <2>1, <2>2, <2>4, <2>5 DEF Known
<1>16. Absent'
  BY <1>0, <1>1, <1>10 DEF TypeOK, Absent
<1>17. Present'
  <2>1. \A p \in Pid : p # n /\ InFork(p) => InFork(p)'
    BY <1>0, <1>1 DEF TypeOK, InFork
  <2>2. n \in Elements(Queue(h)')
    BY <1>9
  <2>3. \A d \in Cpu : Elements(Queue(d)) \subseteq Elements(Queue(d)')
    BY <1>7, <1>9
  <2> QED BY <1>0, <1>1, <2>1, <2>2, <2>3 DEF Placed, Present, procs
<1>18. Saved'
  <2>1. \A p \in Proc : Executing(p)' <=> Executing(p)
    BY <1>0, <1>1 DEF TypeOK, Executing
  <2> QED BY <1>1, <2>1, SavedKept
<1>19. Runs'
  BY <1>0, <1>1 DEF TypeOK, Placed, Runs, procs
<1> QED BY <1>11, <1>12, <1>13, <1>15, <1>16, <1>17, <1>18, <1>19 DEF Placed

\* schedule puts what ran at the end of its own queue, where it was not.
LEMMA RequeuePlaced == ASSUME IInv, Placed, NEW c \in Cpu, Requeue(c) PROVE Placed'
<1> DEFINE p0 == current[c]
           back == p0 # None /\ state[p0] = "runnable"
<1>0. TypeOK /\ Located /\ Placed
  BY DEF IInv
<1>1. /\ UNCHANGED <<runq, procs, new>>
      /\ at[c] = "loop" /\ at' = [at EXCEPT ![c] = "pop"]
      /\ runq_lock[c] = None /\ runq_lock' = [runq_lock EXCEPT ![c] = c]
      /\ q' = [q EXCEPT ![c] = IF back THEN Enqueued(runq[c], None, p0) ELSE runq[c]]
      /\ current' = [current EXCEPT ![c] = None]
      /\ p0 \in Of(c) \cup {None} /\ (back => p0 \in Proc)
  BY <1>0, Owners DEF Requeue, Goto, Placed, Homed
<1>2. Queue(c) = runq[c] /\ p0 \notin Elements(runq[c])
  BY <1>0, <1>1 DEF Placed, Once, Queue
<1> HIDE DEF p0
<1>3. p0 # None => ~Linked(p0)
  BY <1>0, <1>1, <1>2, Owners DEF Linked, Placed, Homed
<1>4. q'[c] = IF back THEN Append(Queue(c), p0) ELSE Queue(c)
  BY <1>0, <1>1, <1>2, <1>3, Numbers DEF Enqueued, TypeOK
<1>5. /\ \A d \in Cpu : d # c => Queue(d)' = Queue(d) /\ current'[d] = current[d] /\ at'[d] = at[d]
      /\ Queue(c)' = q'[c] /\ current'[c] = None /\ at'[c] = "pop"
  BY <1>0, <1>1 DEF TypeOK, Queue
<1>6. Queue(c) \in Seq(Proc)
  BY <1>0 DEF TypeOK, Queue
<1>7. /\ Elements(Queue(c)') = Elements(Queue(c)) \cup (IF back THEN {p0} ELSE {})
      /\ Distinct(Queue(c)')
  BY <1>0, <1>1, <1>2, <1>4, <1>5, <1>6, Appended DEF Placed, Once
<1> HIDE DEF back
<1>8. \A d \in Cpu : Elements(Queue(d)') \subseteq Elements(Queue(d)) \cup ({current[d]} \ {None})
  BY <1>5, <1>7 DEF back, p0
<1>9. RunqLocked'
  <2>1. \A d \in Cpu : d # c => at'[d] = at[d] /\ q'[d] = q[d]
    BY <1>0, <1>1 DEF TypeOK
  <2>2. \A d \in Cpu : runq_lock[d] # None => runq_lock'[d] = runq_lock[d]
    BY <1>0, <1>1 DEF TypeOK
  <2>3. at'[c] = "pop" /\ runq_lock'[c] = c
    BY <1>0, <1>1 DEF TypeOK
  <2>4. \A d \in Cpu : at[d] = "push" => Home(new[d]) \in Cpu
    BY <1>0, Numbers DEF Located
  <2> QED BY <1>0, <1>1, <2>1, <2>2, <2>3, <2>4, Numbers DEF Placed, RunqLocked
<1>10. Homed'
  <2>1. \A d \in Cpu : current'[d] \in Of(d) \cup {None}
    BY <1>0, <1>5 DEF Placed, Homed
  <2>2. \A d \in Cpu : Elements(runq'[d]) \subseteq Of(d)
    BY <1>0, <1>1 DEF Placed, Homed
  <2>3. \A d \in Cpu : Elements(Queue(d)') \subseteq Of(d)
    BY <1>0, <1>8 DEF Placed, Homed
  <2> QED BY <2>1, <2>2, <2>3 DEF Homed
<1>11. Once'
  <2>1. None \notin Elements(Queue(c)')
    BY <1>10, Owners DEF Homed
  <2> QED BY <1>0, <1>5, <1>7, <2>1 DEF Placed, Once
<1>12. Known'
  BY <1>0, <1>1, <1>5, <1>8, Numbers DEF Placed, Known, procs
<1>13. Absent'
  BY <1>0, <1>1, <1>5, <1>8, Numbers DEF TypeOK, Located, Placed, Absent
<1>14. Present'
  <2>1. \A p \in Pid : InFork(p) => InFork(p)'
    BY <1>0, <1>1, <1>5 DEF InFork
  <2>2. \A p \in Pid : state[p] = "runnable" /\ current[c] = p => p \in Elements(Queue(c)')
    BY <1>7, Numbers DEF back, p0
  <2>3. \A d \in Cpu : Elements(Queue(d)) \subseteq Elements(Queue(d)')
    BY <1>5, <1>7
  <2> QED BY <1>0, <1>1, <1>5, <2>1, <2>2, <2>3 DEF Placed, Present, procs
<1>15. Saved'
  <2>1. \A p \in Proc : Executing(p)' <=> Executing(p)
    BY <1>0, <1>1, <1>5, Numbers DEF Executing
  <2> QED BY <1>1, <2>1, SavedKept
<1>16. Runs'
  BY <1>0, <1>1, <1>5 DEF TypeOK, Placed, Runs, procs
<1> QED BY <1>9, <1>10, <1>11, <1>12, <1>13, <1>14, <1>15, <1>16 DEF Placed

\* schedule takes the head of its queue, or the idle task when that is in no queue.
LEMMA PopPlaced == ASSUME IInv, Placed, NEW c \in Cpu, Pop(c) PROVE Placed'
<1> DEFINE s == Queue(c)
           p0 == current'[c]
<1>0. TypeOK /\ Located /\ Placed
  BY DEF IInv
<1>1. /\ UNCHANGED <<procs, new>>
      /\ at[c] = "pop" /\ at' = [at EXCEPT ![c] = "loop"]
      /\ runq_lock' = [runq_lock EXCEPT ![c] = None]
      /\ q' = [q EXCEPT ![c] = << >>]
      /\ s = q[c] /\ s \in Seq(Proc)
  BY <1>0 DEF TypeOK, Pop, Goto, Queue
<1>2. /\ \A d \in Cpu : d # c => Queue(d)' = Queue(d) /\ current'[d] = current[d] /\ at'[d] = at[d]
                                 /\ runq'[d] = runq[d]
      /\ at'[c] = "loop" /\ Queue(c)' = runq'[c]
  BY <1>0, <1>1 DEF TypeOK, Pop, Queue
<1>3. \/ s # << >> /\ p0 = Head(s) /\ runq'[c] = Tail(s)
      \/ s = << >> /\ p0 = Idle(c) /\ runq'[c] = << >>
  BY <1>0, <1>1 DEF TypeOK, Pop
<1>4. /\ p0 \in Of(c) /\ p0 \in Elements(s) \cup {Idle(c)}
      /\ Elements(s) \subseteq Elements(runq'[c]) \cup {p0}
      /\ Elements(runq'[c]) \subseteq Elements(s)
      /\ Distinct(runq'[c]) /\ p0 \notin Elements(runq'[c])
  <2> HIDE DEF p0, s
  <2>1. Distinct(s) /\ Elements(s) \subseteq Of(c) /\ Idle(c) \in Of(c)
    BY <1>0, Owners DEF Placed, Once, Homed, s
  <2>2. CASE s # << >> /\ p0 = Head(s) /\ runq'[c] = Tail(s)
    BY <1>1, <2>1, <2>2, Popped
  <2>3. CASE s = << >> /\ p0 = Idle(c) /\ runq'[c] = << >>
    BY <2>1, <2>3, EmptyQueue
  <2> QED BY <1>3, <2>2, <2>3
<1>5. current[c] = None
  BY <1>0, <1>1 DEF Placed, Once
<1>6. state[p0] # "blank" /\ state[Idle(c)] # "blank" /\ p0 \in Proc
  BY <1>0, <1>1, <1>4, Owners DEF Placed, Known
<1> HIDE DEF p0
<1>7. RunqLocked'
  <2>1. \A d \in Cpu : d # c => at'[d] = at[d] /\ q'[d] = q[d]
    BY <1>0, <1>1 DEF TypeOK
  <2>2. \A d \in Cpu : d # c => runq_lock'[d] = runq_lock[d]
    BY <1>0, <1>1 DEF TypeOK
  <2>3. runq_lock[c] = c
    BY <1>0, <1>1 DEF Placed, RunqLocked
  <2>4. \A d \in Cpu : at[d] = "push" => Home(new[d]) \in Cpu /\ Home(new[d]) # c
    BY <1>0, <1>1, <2>3, Numbers DEF Located, Placed, RunqLocked
  <2> QED BY <1>0, <1>1, <1>2, <2>1, <2>2, <2>4 DEF Placed, RunqLocked
<1>8. Homed'
  <2>1. \A d \in Cpu : current'[d] \in Of(d) \cup {None}
    BY <1>0, <1>2, <1>4 DEF Placed, Homed, p0
  <2>2. \A d \in Cpu : Elements(runq'[d]) \subseteq Of(d)
    BY <1>0, <1>2, <1>4 DEF Placed, Homed
  <2>3. \A d \in Cpu : Elements(Queue(d)') \subseteq Of(d)
    BY <1>0, <1>2, <2>2 DEF Placed, Homed
  <2> QED BY <2>1, <2>2, <2>3 DEF Homed
<1>9. Once'
  BY <1>0, <1>2, <1>4 DEF Placed, Once, p0
<1> HIDE DEF s
<1>10. Known'
  BY <1>0, <1>1, <1>2, <1>4, <1>6 DEF Placed, Known, procs, p0, s
<1>11. Absent'
  <2>1. \A d \in Cpu : at'[d] \in {"enqueue", "push"} => /\ d # c /\ new[d] \in Pid
                                                         /\ new[d] # p0
                                                         /\ new[d] \notin Elements(runq'[c])
    BY <1>0, <1>2, <1>4, Numbers DEF Located, Placed, Absent, s
  <2> QED BY <1>0, <1>1, <1>2, <2>1 DEF Placed, Absent, p0
<1>12. Present'
  <2>1. \A p \in Pid : InFork(p) => InFork(p)'
    BY <1>0, <1>1, <1>2 DEF InFork
  <2>2. \A p \in Pid : p \in Elements(Queue(c)) => current'[c] = p \/ p \in Elements(Queue(c)')
    BY <1>2, <1>4 DEF s, p0
  <2>3. \A p \in Pid : current[c] # p
    BY <1>5, Numbers
  <2> QED BY <1>0, <1>1, <1>2, <2>1, <2>2, <2>3 DEF Placed, Present, procs
<1>13. Saved'
  <2>1. \A d \in Cpu : d # c => current[d] # p0
    BY <1>0, <1>4, Owners DEF Placed, Homed
  <2>2. \A p \in Proc : Executing(p)' <=> Executing(p)
    BY <1>1, <1>2, <1>5, Numbers DEF Executing
  <2> QED BY <1>1, <2>2, SavedKept
<1>14. Runs'
  BY <1>0, <1>1, <1>2 DEF Placed, Runs, procs
<1> QED BY <1>7, <1>8, <1>9, <1>10, <1>11, <1>12, <1>13, <1>14 DEF Placed

\* A stuttering step keeps it all.
LEMMA PlacedStutter == ASSUME Placed, UNCHANGED vars PROVE Placed'
<1> USE DEF vars, procs, cpus
<1>1. \A c \in Cpu : Queue(c)' = Queue(c)
  BY DEF Queue
<1>2. (\A p \in Proc : Executing(p)' <=> Executing(p)) /\ \A p \in Pid : InFork(p)' <=> InFork(p)
  BY DEF Executing, InFork
<1>3. RunqLocked' /\ Homed' /\ Once' /\ Known' /\ Absent' /\ Runs'
  BY <1>1 DEF Placed, RunqLocked, Homed, Once, Known, Absent, Runs
<1>4. Present' /\ Saved'
  BY <1>1, <1>2 DEF Placed, Present, Saved
<1> QED BY <1>3, <1>4 DEF Placed

\* Every step keeps the invariant about tasks.
LEMMA PlacedStep == IInv /\ Placed /\ [Next]_vars => Placed'
<1> SUFFICES ASSUME IInv, Placed, [Next]_vars PROVE Placed' OBVIOUS
<1>1. CASE UNCHANGED vars
  BY <1>1, PlacedStutter
<1>2. ASSUME NEW c \in Cpu, Timer(c) \/ Program(c) \/ EndRead(c) \/ NoMemory(c) PROVE Placed'
  BY <1>2, TimerPlaced, EnterPlaced, PageFaultPlaced, EndReadPlaced, NoMemoryPlaced DEF Program
<1>3. ASSUME NEW c \in Cpu, Kernel(c) PROVE Placed'
  BY <1>3, EndPausePlaced, YieldSavePlaced, MemshowPlaced, EndMemshowPlaced, SchedulePlaced,
     ResumePlaced, RequeuePlaced, PopPlaced, ForkLockPlaced, OutOfPidsPlaced, ForkAllocPlaced,
     ForkCopyPlaced, LockRunqPlaced, PushPlaced, MadePlaced DEF Kernel
<1> QED BY <1>1, <1>2, <1>3 DEF Next

\* It holds when the CPUs start: only process 1 is made, and it is still in its fork.
LEMMA InitPlaced == Init => Placed
<1> SUFFICES ASSUME Init PROVE Placed OBVIOUS
<1>1. TypeOK
  BY InitTypes
<1>2. \A c \in Cpu : Queue(c) = << >> /\ runq[c] = << >> /\ current[c] = None
                     /\ at[c] \in {"enqueue", "schedule"}
  BY DEF Init, Queue
<1>3. RunqLocked /\ Homed /\ Once
  BY <1>2, EmptyQueue, Owners DEF RunqLocked, Homed, Once
<1>4. Known /\ Absent /\ Runs
  BY <1>2, EmptyQueue, Numbers DEF Init, Known, Absent, Runs
<1>5. Present
  BY Numbers DEF Init, Present, InFork
<1>6. Saved
  <2>1. \A p \in Proc : ~Executing(p)
    BY <1>2, Numbers DEF Executing
  <2> QED BY <2>1, Numbers, SchedAssumption DEF Init, Saved
<1> QED BY <1>3, <1>4, <1>5, <1>6 DEF Placed

\* It always holds.
LEMMA PlacedAlways == Spec => []Placed
BY InitPlaced, PlacedStep, Invariance, PTL DEF Spec

-----------------------------------------------------------------------------

\* Type correctness, for any number of CPUs and slots of ptable, and whether or not memory runs out.
THEOREM SchedTypes == Spec => []TypeOK
<1>1. IInv => TypeOK
  BY DEF IInv
<1> QED BY <1>1, Invariance, PTL

\* The memory viewer sees no process that a fork on another CPU has not finished.
THEOREM ViewerSeesComplete == Spec => []ShownComplete
<1>1. IInv => ShownComplete
  <2> SUFFICES ASSUME IInv, NEW c \in Cpu, at[c] = "show", NEW p \in ptable, state[p] = "blank"
               PROVE  FALSE
    BY DEF ShownComplete
  <2>1. PICK d \in Cpu : at[d] \in {"copy", "panic"} /\ new[d] = p
    BY DEF IInv, Staged
  <2>2. ptable_lock = c /\ ptable_lock = d
    BY <2>1 DEF IInv, Locked
  <2> QED BY <2>1, <2>2
<1> QED BY <1>1, Invariance, PTL

\* fork never makes a process out of one that exists, however many CPUs fork at once.
THEOREM ChildIsFresh == Spec => FreshChild
<1>1. IInv => \A c \in Cpu : at[c] = "copy" /\ at'[c] = "enqueue" => state[new[c]] = "blank"
  BY DEF IInv, Staged
<1> QED BY <1>1, Invariance, PTL DEF FreshChild

\* No task is ever current twice, queued twice or both, and no runnable process is
\* dropped, for any number of CPUs and processes that fork, yield, fault and are interrupted.
THEOREM NoneLost == Spec => []NoProcessLost
<1>1. IInv /\ Placed => NoProcessLost
  <2> SUFFICES ASSUME IInv, Placed PROVE NoProcessLost OBVIOUS
  <2>1. ASSUME NEW p \in Proc PROVE Cardinality(Places(p)) <= 1
    <3>1. \A x, y \in Places(p) : x = y
      <4> SUFFICES ASSUME NEW x \in Places(p), NEW y \in Places(p) PROVE x = y OBVIOUS
      <4>1. /\ x = <<x[1], x[2]>> /\ x[1] \in Cpu
            /\ y = <<y[1], y[2]>> /\ y[1] \in Cpu
        BY DEF Places
      <4>2. /\ \/ x[2] = 0 /\ current[x[1]] = p
               \/ x[2] \in DOMAIN Queue(x[1]) /\ Queue(x[1])[x[2]] = p
            /\ \/ y[2] = 0 /\ current[y[1]] = p
               \/ y[2] \in DOMAIN Queue(y[1]) /\ Queue(y[1])[y[2]] = p
        BY DEF Places
      <4>3. \A c \in Cpu : DOMAIN Queue(c) = 1 .. Len(Queue(c))
        BY DEF IInv, TypeOK, Queue
      <4>4. /\ (x[2] = 0 /\ current[x[1]] = p) \/ p \in Elements(Queue(x[1]))
            /\ (y[2] = 0 /\ current[y[1]] = p) \/ p \in Elements(Queue(y[1]))
        BY <4>1, <4>2, <4>3 DEF Elements
      <4>5. p \in Of(x[1]) /\ p \in Of(y[1])
        BY <4>1, <4>4, Numbers DEF Placed, Homed
      <4>6. x[1] = y[1]
        BY <4>1, <4>5, Owners
      <4>7. x[2] = y[2]
        <5>1. p \in Elements(Queue(x[1])) => current[x[1]] # p
          BY <4>1 DEF Placed, Once
        <5>2. Distinct(Queue(x[1]))
          BY <4>1 DEF Placed, Once
        <5> QED BY <4>1, <4>2, <4>3, <4>6, <5>1, <5>2 DEF Distinct, Elements
      <4> QED BY <4>1, <4>6, <4>7
    <3>2. CASE Places(p) = {}
      BY <3>2, FS_EmptySet
    <3>3. CASE Places(p) # {}
      <4>1. PICK x \in Places(p) : TRUE
        BY <3>3
      <4>2. Places(p) = {x}
        BY <3>1, <4>1
      <4> QED BY <4>2, FS_Singleton
    <3> QED BY <3>2, <3>3
  <2>2. ASSUME NEW p \in Pid, state[p] = "runnable", ~InFork(p) PROVE Places(p) # {}
    <3>1. PICK c \in Cpu : current[c] = p \/ p \in Elements(Queue(c))
      BY <2>2 DEF Placed, Present
    <3>2. CASE current[c] = p
      <4>1. <<c, 0>> \in Cpu \X (0 .. NPROC + 1)
        BY SchedAssumption
      <4> QED BY <3>2, <4>1 DEF Places
    <3>3. CASE p \in Elements(Queue(c))
      <4>1. Queue(c) \in Seq(Proc) /\ Len(Queue(c)) <= NPROC
        BY Bounded DEF IInv, TypeOK, Queue, Placed, Once, Homed
      <4>2. PICK i \in 1 .. Len(Queue(c)) : Queue(c)[i] = p
        BY <3>3 DEF Elements
      <4>3. i \in DOMAIN Queue(c) /\ i \in 0 .. NPROC + 1
        BY <4>1, <4>2, SchedAssumption
      <4>4. <<c, i>> \in Cpu \X (0 .. NPROC + 1)
        BY <4>3
      <4>5. <<c, i>> \in Places(p)
        BY <4>2, <4>3, <4>4 DEF Places
      <4> QED BY <4>5
    <3> QED BY <3>1, <3>2, <3>3
  <2> QED BY <2>1, <2>2 DEF NoProcessLost
<1> QED BY <1>1, Invariance, PlacedAlways, PTL

\* proc::resume always finds exactly one saved state: a task that is interrupted inside
\* yield, and saved again when it goes on, never has two, and none is resumed without one.
THEOREM OneSavedState == Spec => []Resumable
<1>1. IInv /\ Placed => Resumable
  <2> SUFFICES ASSUME IInv, Placed PROVE Resumable OBVIOUS
  <2>1. \A c \in Cpu : at[c] = "user" => state[current[c]] = "runnable"
    BY Numbers DEF IInv, Located, Placed, Runs
  <2>2. ASSUME NEW p \in Proc, state[p] = "runnable"
        PROVE  IF Executing(p) THEN regs[p] = None /\ ~yields[p]
                               ELSE (regs[p] # None) # yields[p]
    <3>1. yields[p] \in BOOLEAN
      BY DEF IInv, TypeOK
    <3>2. CASE Executing(p)
      BY <2>2, <3>2 DEF Placed, Saved
    <3>3. CASE ~Executing(p)
      <4>1. (regs[p] # None) <=> (yields[p] = FALSE)
        BY <2>2, <3>3 DEF Placed, Saved
      <4> QED BY <3>1, <3>3, <4>1
    <3> QED BY <3>2, <3>3
  <2> QED BY <2>1, <2>2 DEF Resumable
<1> QED BY <1>1, Invariance, PlacedAlways, PTL
=============================================================================
