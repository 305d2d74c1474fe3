------------------------------ MODULE Keyboard ------------------------------
(***************************************************************************)
(* The keyboard of the Chickadee kernel: keyboardstate (k-devices.cc), its *)
(* interrupt handler, and SYSCALL_READ (kernel.cc).                        *)
(*                                                                         *)
(* Keyboard interrupts are delivered to CPU 0 (init_hardware).  A system   *)
(* call runs with interrupts masked and its irqstate is restored as it was *)
(* saved, so a CPU that is inside SYSCALL_READ takes no interrupt; and as  *)
(* waiter::prepare, block, clear and wake have empty bodies, block_until   *)
(* is a loop that releases and retakes keyboardstate::lock_.               *)
(***************************************************************************)
EXTENDS Integers, Sequences

CONSTANTS CPU,       \* the processors
          IrqCPU,    \* the one keyboard interrupts are routed to, CPU 0
          N,         \* sizeof(buf_)
          Keys,      \* the keys users press
          ReadSizes, \* the sizes passed to SYSCALL_READ
          DevMax     \* bound: keys waiting in the keyboard controller

Char == {"a", "q", "^C", "^D", "^H", "^Q", "\n", "\r", "modifier"}
NoCPU == "no cpu"

ASSUME KeyboardAssumption ==
    /\ N \in Nat \ {0}
    /\ IrqCPU \in CPU /\ NoCPU \notin CPU
    /\ Keys \subseteq Char
    /\ ReadSizes \subseteq Nat
    /\ DevMax \in Nat

VARIABLES lock,   \* lock_: the CPU that holds it, or NoCPU
          buf,    \* buf_
          pos,    \* pos_: next position to read
          len,    \* len_: number of characters in the buffer
          eol,    \* eol_: number of characters up to the latest line end
          state,  \* state_: "boot" or "input"
          on,     \* FALSE after poweroff()
          dev,    \* keys pending in the keyboard controller
          pc,     \* what each CPU is doing
          sz,     \* the size its SYSCALL_READ was given
          got     \* the characters its SYSCALL_READ has stored so far

kbd  == <<buf, pos, len, eol, state>>
proc == <<pc, sz, got>>
vars == <<lock, kbd, on, dev, proc>>

Slot == 0 .. (N - 1)

\* Characters that end a line.  A carriage return is stored as a newline.
EndsLine == {"\n", "^D"}

Init == /\ lock = NoCPU
        /\ buf \in [Slot -> {"a"}]
        /\ pos = 0 /\ len = 0 /\ eol = 0
        /\ state = "boot"
        /\ on = TRUE
        /\ dev = <<>>
        /\ pc = [c \in CPU |-> "user"]
        /\ sz = [c \in CPU |-> 0]
        /\ got = [c \in CPU |-> <<>>]

\* A key is pressed.
Press(k) == /\ on
            /\ Len(dev) < DevMax
            /\ dev' = Append(dev, k)
            /\ UNCHANGED <<lock, kbd, on, proc>>

-----------------------------------------------------------------------------
(* keyboardstate::handle_interrupt *)

\* The interrupt is taken when the CPU runs with interrupts enabled.
IrqEnter == /\ on
            /\ pc[IrqCPU] = "user"
            /\ dev # <<>>
            /\ pc' = [pc EXCEPT ![IrqCPU] = "irq"]
            /\ UNCHANGED <<lock, kbd, on, dev, sz, got>>

IrqLock == /\ on
           /\ pc[IrqCPU] = "irq"
           /\ lock = NoCPU
           /\ lock' = IrqCPU
           /\ pc' = [pc EXCEPT ![IrqCPU] = "chars"]
           /\ UNCHANGED <<kbd, on, dev, sz, got>>

\* normal_char: store ch if there is room.
Store(ch) ==
    IF len < N
    THEN /\ buf' = [buf EXCEPT ![(pos + len) % N] = ch]
         /\ len' = len + 1
         /\ eol' = IF ch \in EndsLine THEN len + 1 ELSE eol
         /\ UNCHANGED <<pos, state, on>>
    ELSE UNCHANGED <<kbd, on>>

\* Mutant of Erase: tests for an empty buffer, not for an empty line.
MutErase == /\ len' = IF 0 < len THEN len - 1 ELSE len
            /\ UNCHANGED <<buf, pos, eol, state, on>>

\* Ctrl-H takes back a character of the line being typed.
Erase == /\ len' = IF eol < len THEN len - 1 ELSE len
         /\ UNCHANGED <<buf, pos, eol, state, on>>

PowerOff == /\ on' = FALSE
            /\ UNCHANGED kbd

\* One round of the loop over keyboard_readc().
IrqChar ==
    /\ on
    /\ pc[IrqCPU] = "chars"
    /\ dev # <<>>
    /\ dev' = Tail(dev)
    /\ LET ch == Head(dev)
           fatal == ch = "^Q" \/ (ch \in {"^C", "q"} /\ state # "input")
       IN  \/ ch = "modifier" /\ UNCHANGED <<kbd, on>>
           \/ ch = "^H" /\ Erase
           \/ fatal /\ PowerOff
           \/ /\ ch \notin {"modifier", "^H"} /\ ~fatal
              /\ Store(IF ch = "\r" THEN "\n" ELSE ch)
    /\ UNCHANGED <<lock, proc>>

\* No character is left: unlock, acknowledge, and wake_all, whose queue is empty.
IrqReturn == /\ on
             /\ pc[IrqCPU] = "chars"
             /\ dev = <<>>
             /\ lock' = NoCPU
             /\ pc' = [pc EXCEPT ![IrqCPU] = "user"]
             /\ UNCHANGED <<kbd, on, dev, sz, got>>

-----------------------------------------------------------------------------
(* SYSCALL_READ *)

Read(c, n) == /\ on
              /\ pc[c] = "user"
              /\ pc' = [pc EXCEPT ![c] = "lock"]
              /\ sz' = [sz EXCEPT ![c] = n]
              /\ got' = [got EXCEPT ![c] = <<>>]
              /\ UNCHANGED <<lock, kbd, on, dev>>

\* kbd.lock_.lock(), on entry or again after a wait: from the first read on,
\* `q' does not power off.
ReadLock(c) == /\ on
               /\ pc[c] = "lock"
               /\ lock = NoCPU
               /\ lock' = c
               /\ state' = "input"
               /\ pc' = [pc EXCEPT ![c] = "check"]
               /\ UNCHANGED <<buf, pos, len, eol, on, dev, sz, got>>

\* Mutant of ReadCheck: waits for a buffer without an unfinished line.
MutReadCheckAll(c) ==
    /\ on
    /\ pc[c] = "check"
    /\ IF sz[c] = 0 \/ (eol # 0 /\ eol = len)
       THEN /\ pc' = [pc EXCEPT ![c] = "copy"]
            /\ UNCHANGED lock
       ELSE /\ pc' = [pc EXCEPT ![c] = "lock"]
            /\ lock' = NoCPU
    /\ UNCHANGED <<kbd, on, dev, sz, got>>

\* block_until: the predicate holds, or the lock is released for another round.
ReadCheck(c) ==
    /\ on
    /\ pc[c] = "check"
    /\ IF sz[c] = 0 \/ eol # 0
       THEN /\ pc' = [pc EXCEPT ![c] = "copy"]
            /\ UNCHANGED lock
       ELSE /\ pc' = [pc EXCEPT ![c] = "lock"]
            /\ lock' = NoCPU
    /\ UNCHANGED <<kbd, on, dev, sz, got>>

\* Mutant of Consume: eol_ is not moved with pos_.
MutConsume == /\ pos' = (pos + 1) % N
              /\ len' = len - 1
              /\ UNCHANGED <<buf, eol, state>>

\* consume(1)
Consume == /\ pos' = (pos + 1) % N
           /\ len' = len - 1
           /\ eol' = eol - 1
           /\ UNCHANGED <<buf, state>>

MoreToRead(c) == eol # 0 /\ Len(got[c]) < sz[c]

\* The loop stores the next character of a finished line.
ReadCopy(c) ==
    /\ on
    /\ pc[c] = "copy"
    /\ MoreToRead(c) /\ buf[pos] # "^D"
    /\ got' = [got EXCEPT ![c] = Append(@, buf[pos])]
    /\ Consume
    /\ UNCHANGED <<lock, on, dev, pc, sz>>

\* The loop ends and the system call returns.  Ctrl-D means end of file: it is
\* consumed by a read that has nothing else to return.
ReadReturn(c) ==
    /\ on
    /\ pc[c] = "copy"
    /\ \/ /\ ~MoreToRead(c)
          /\ UNCHANGED kbd
       \/ /\ MoreToRead(c) /\ buf[pos] = "^D"
          /\ IF got[c] = <<>> THEN Consume ELSE UNCHANGED kbd
    /\ lock' = NoCPU
    /\ pc' = [pc EXCEPT ![c] = "user"]
    /\ UNCHANGED <<on, dev, sz, got>>

-----------------------------------------------------------------------------

Irq == IrqEnter \/ IrqLock \/ IrqChar \/ IrqReturn

ReadStep(c) == ReadLock(c) \/ ReadCheck(c) \/ ReadCopy(c) \/ ReadReturn(c)

Next == \/ \E k \in Keys : Press(k)
        \/ Irq
        \/ \E c \in CPU, n \in ReadSizes : Read(c, n)
        \/ \E c \in CPU : ReadStep(c)

Spec == Init /\ [][Next]_vars

\* CPUs run; a pending interrupt is taken when interrupts are enabled again; a
\* lock released again and again is in the end obtained by a CPU spinning on it;
\* keys do not come as fast as the handler's loop reads them for ever.
Fairness == /\ SF_vars(IrqEnter)
            /\ SF_vars(IrqLock)
            /\ WF_vars(IrqChar)
            /\ SF_vars(IrqReturn)
            /\ \A c \in CPU : /\ SF_vars(ReadLock(c))
                              /\ WF_vars(ReadCheck(c) \/ ReadCopy(c) \/ ReadReturn(c))

FairSpec == Spec /\ Fairness

-----------------------------------------------------------------------------
(* Properties *)

Critical == {"chars", "check", "copy"}

\* Every variable keeps its type; the bounds are check_invariants()'s.
TypeOK == /\ lock \in CPU \cup {NoCPU}
          /\ buf \in [Slot -> Char]
          /\ pos \in Slot
          /\ len \in 0 .. N
          /\ eol \in 0 .. N
          /\ state \in {"boot", "input"}
          /\ on \in BOOLEAN
          /\ dev \in Seq(Keys)
          /\ pc \in [CPU -> {"user", "irq", "lock"} \cup Critical]
          /\ sz \in [CPU -> Nat]
          /\ got \in [CPU -> Seq(Char)]

\* lock_ is held by exactly the CPU inside a critical section of
\* handle_interrupt or SYSCALL_READ, and only IrqCPU runs the handler.
LockHeld == /\ \A c \in CPU : (pc[c] \in Critical) <=> (lock = c)
            /\ \A c \in CPU : pc[c] \in {"irq", "chars"} => c = IrqCPU

\* eol_ marks the end of a line that is really in the buffer: the character
\* before it ends a line and none after it does.  So the read loop, which tests
\* only eol_ # 0, never runs past the last finished line, and Ctrl-H never takes
\* back a character of one.
LineEnd == /\ eol <= len
           /\ eol # 0 => buf[(pos + eol - 1) % N] \in EndsLine
           /\ \A i \in eol .. (len - 1) : buf[(pos + i) % N] \notin EndsLine

\* A CPU waiting in SYSCALL_READ while a finished line is in the buffer gets it,
\* or another reader does.
LineReachesReader ==
    \A c \in CPU : (pc[c] \in {"lock", "check"} /\ eol # 0)
                       ~> (pc[c] = "user" \/ eol = 0 \/ ~on)

\* SYSCALL_READ's comment, "block until a line is available": the key that ends
\* a line, pressed while a reader waits on an empty buffer, reaches the buffer.
KeyReachesReader ==
    \A c \in CPU : (pc[c] \in {"lock", "check"} /\ sz[c] # 0 /\ len = 0 /\ dev = <<"\r">>)
                       ~> (pc[c] = "user" \/ eol # 0 \/ ~on)

\* A reader is served: it gets a line that is there, and the key that ends one
\* reaches it as long as the CPU that takes the interrupt keeps leaving its system
\* calls.  A read on that CPU itself masks the interrupt and waits for ever.
ReaderServed == LineReachesReader /\ ([]<>(pc[IrqCPU] = "user") => KeyReachesReader)

\* The keyboard is a line discipline (LineBuffer): finished lines are read in
\* the order they were typed, and only the unfinished line can be edited.
Line == INSTANCE LineBuffer WITH
            Cap    <- N,
            done   <- [i \in 1 .. eol |-> buf[(pos + i - 1) % N]],
            typing <- [i \in 1 .. (len - eol) |-> buf[(pos + eol + i - 1) % N]],
            taken  <- got

ImplementsLineBuffer == Line!Spec
=============================================================================
