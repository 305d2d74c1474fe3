--------------------------- MODULE KeyboardProofs ---------------------------
(***************************************************************************)
(* Proofs that the keyboard's counters always describe its ring buffer and *)
(* that its lock excludes, and that the keyboard implements LineBuffer,    *)
(* for every buffer size and set of CPUs.                                  *)
(***************************************************************************)
EXTENDS Keyboard, SequenceTheorems, TLAPS

-----------------------------------------------------------------------------
(* Arithmetic of the ring *)

\* An offset of at most one turn wraps at most once.
LEMMA ModOnce ==
    ASSUME NEW n \in Nat \ {0}, NEW x \in 0 .. (2 * n - 1)
    PROVE  x % n = IF x < n THEN x ELSE x - n
<1>1. CASE x < n BY <1>1, SMT
<1>2. CASE x >= n BY <1>2, SMT
<1> QED BY <1>1, <1>2, SMT

\* The slot k places after p.
LEMMA RingSlot ==
    ASSUME NEW p \in Slot, NEW k \in 0 .. N
    PROVE  /\ (p + k) % N = IF p + k < N THEN p + k ELSE p + k - N
           /\ (p + k) % N \in Slot
<1>1. N \in Nat \ {0} /\ p + k \in 0 .. (2 * N - 1)
  BY KeyboardAssumption, SMT DEF Slot
<1>2. \A x \in 0 .. (2 * N - 1) : x % N = IF x < N THEN x ELSE x - N
  BY <1>1, ModOnce
<1> QED BY <1>1, <1>2, SMT DEF Slot

\* Different offsets below N are different slots.
LEMMA RingDistinct ==
    ASSUME NEW p \in Slot, NEW j \in 0 .. (N - 1), NEW k \in 0 .. (N - 1), j # k
    PROVE  (p + j) % N # (p + k) % N
<1>1. j \in 0 .. N /\ k \in 0 .. N /\ N \in Nat
  BY KeyboardAssumption, SMT
<1>2. (p + j) % N = IF p + j < N THEN p + j ELSE p + j - N
  BY <1>1, RingSlot
<1>3. (p + k) % N = IF p + k < N THEN p + k ELSE p + k - N
  BY <1>1, RingSlot
<1> QED BY <1>1, <1>2, <1>3, SMT DEF Slot

\* After p has moved on by one, offset k names what offset k + 1 named.
LEMMA RingShift ==
    ASSUME NEW p \in Slot, NEW k \in 0 .. (N - 1)
    PROVE  (((p + 1) % N) + k) % N = (p + (k + 1)) % N
<1> DEFINE q == (p + 1) % N
<1>1. k \in 0 .. N /\ k + 1 \in 0 .. N /\ 1 \in 0 .. N /\ N \in Nat
  BY KeyboardAssumption, SMT
<1>2. q = (IF p + 1 < N THEN p + 1 ELSE p + 1 - N) /\ q \in Slot
  BY <1>1, RingSlot
<1>3. (p + (k + 1)) % N = IF p + (k + 1) < N THEN p + (k + 1) ELSE p + (k + 1) - N
  BY <1>1, RingSlot
<1> HIDE DEF q
<1>4. (q + k) % N = IF q + k < N THEN q + k ELSE q + k - N
  BY <1>1, <1>2, RingSlot
<1>5. (q + k) % N = (p + (k + 1)) % N
  BY <1>1, <1>2, <1>3, <1>4, SMT DEF Slot
<1> QED BY <1>5 DEF q

-----------------------------------------------------------------------------
(* The inductive invariant *)

Inv == TypeOK /\ LockHeld /\ LineEnd

\* The keyboard starts empty and unlocked.
LEMMA InitInv == Init => Inv
<1> SUFFICES ASSUME Init PROVE Inv OBVIOUS
<1>1. TypeOK
  BY KeyboardAssumption, SMT DEF Init, TypeOK, Slot, Char, Critical
<1>2. LockHeld
  BY KeyboardAssumption, SMT DEF Init, LockHeld, Critical
<1>3. LineEnd
  BY KeyboardAssumption, SMT DEF Init, LineEnd
<1> QED BY <1>1, <1>2, <1>3 DEF Inv

\* Storing a character keeps the ring consistent.
LEMMA StoreInv ==
    ASSUME TypeOK, LineEnd, NEW ch \in Char, Store(ch)
    PROVE  /\ LineEnd'
           /\ buf' \in [Slot -> Char] /\ pos' \in Slot
           /\ len' \in 0 .. N /\ eol' \in 0 .. N
           /\ state' = state /\ on' = on
<1> USE DEF TypeOK
<1>1. CASE len < N
  <2> DEFINE s == (pos + len) % N
  <2>1. s \in Slot
    BY <1>1, RingSlot, KeyboardAssumption
  <2>2. /\ buf' = [buf EXCEPT ![s] = ch]
        /\ len' = len + 1 /\ pos' = pos /\ state' = state /\ on' = on
        /\ eol' = IF ch \in EndsLine THEN len + 1 ELSE eol
    BY <1>1 DEF Store
  <2>3. ASSUME NEW i \in 0 .. (len - 1)
        PROVE  buf'[(pos + i) % N] = buf[(pos + i) % N]
    <3>1. len \in 0 .. (N - 1) /\ i \in 0 .. (N - 1) /\ i # len /\ i \in 0 .. N
      BY <1>1, KeyboardAssumption, SMT
    <3>2. (pos + i) % N # s /\ (pos + i) % N \in Slot
      BY <3>1, RingDistinct, RingSlot
    <3> HIDE DEF s
    <3> QED BY <2>2, <3>2
  <2>4. buf'[s] = ch
    BY <2>1, <2>2
  <2> HIDE DEF s
  <2>5. eol' <= len'
    BY <2>2, KeyboardAssumption, SMT DEF LineEnd
  <2>6. eol' # 0 => buf'[(pos' + eol' - 1) % N] \in EndsLine
    <3>1. CASE ch \in EndsLine
      <4>1. pos' + eol' - 1 = pos + len
        BY <3>1, <2>2, KeyboardAssumption, SMT DEF Slot
      <4> QED BY <4>1, <3>1, <2>4 DEF s
    <3>2. CASE ch \notin EndsLine /\ eol # 0
      <4>1. eol - 1 \in 0 .. (len - 1) /\ pos' + eol' - 1 = pos + (eol - 1)
        BY <3>2, <2>2, KeyboardAssumption, SMT DEF LineEnd, Slot
      <4>2. pos + eol - 1 = pos + (eol - 1)
        BY KeyboardAssumption, SMT DEF Slot
      <4> QED BY <4>1, <4>2, <2>3, <3>2 DEF LineEnd
    <3> QED BY <3>1, <3>2, <2>2
  <2>7. \A i \in eol' .. (len' - 1) : buf'[(pos' + i) % N] \notin EndsLine
    <3> TAKE i \in eol' .. (len' - 1)
    <3>1. CASE ch \in EndsLine
      BY <3>1, <2>2, KeyboardAssumption, SMT
    <3>2. CASE ch \notin EndsLine /\ i = len
      BY <3>2, <2>2, <2>4 DEF s
    <3>3. CASE ch \notin EndsLine /\ i # len
      <4>1. i \in eol .. (len - 1) /\ i \in 0 .. (len - 1)
        BY <3>3, <2>2, KeyboardAssumption, SMT
      <4> QED BY <4>1, <2>2, <2>3 DEF LineEnd
    <3> QED BY <3>1, <3>2, <3>3
  <2>8. buf' \in [Slot -> Char]
    BY <2>2
  <2>9. len' \in 0 .. N /\ eol' \in 0 .. N
    BY <1>1, <2>2, KeyboardAssumption, SMT
  <2> QED BY <2>2, <2>5, <2>6, <2>7, <2>8, <2>9 DEF LineEnd
<1>2. CASE ~(len < N)
  BY <1>2, KeyboardAssumption DEF Store, kbd, LineEnd
<1> QED BY <1>1, <1>2

\* So does consuming one while a finished line is there.
LEMMA ConsumeInv ==
    ASSUME TypeOK, LineEnd, eol # 0, Consume
    PROVE  /\ LineEnd'
           /\ buf' = buf /\ pos' \in Slot /\ state' = state
           /\ len' \in 0 .. N /\ eol' \in 0 .. N
<1> USE DEF TypeOK
<1>1. /\ pos' = (pos + 1) % N /\ len' = len - 1 /\ eol' = eol - 1
      /\ buf' = buf /\ state' = state
  BY DEF Consume
<1>2. pos' \in Slot
  BY <1>1, RingSlot, KeyboardAssumption
<1>3. eol' <= len' /\ len' \in 0 .. N /\ eol' \in 0 .. N
  BY <1>1, KeyboardAssumption, SMT DEF LineEnd
<1>4. ASSUME NEW i \in 0 .. (N - 1)
      PROVE  (pos' + i) % N = (pos + (i + 1)) % N
  BY <1>1, RingShift
<1>5. eol' # 0 => buf'[(pos' + eol' - 1) % N] \in EndsLine
  <2> SUFFICES ASSUME eol' # 0
               PROVE  buf'[(pos' + eol' - 1) % N] \in EndsLine
    OBVIOUS
  <2>1. /\ eol' - 1 \in 0 .. (N - 1)
        /\ pos' + eol' - 1 = pos' + (eol' - 1)
        /\ pos + ((eol' - 1) + 1) = pos + eol - 1
    BY <1>1, <1>2, <1>3, KeyboardAssumption, SMT DEF Slot
  <2>2. (pos' + eol' - 1) % N = (pos + eol - 1) % N
    BY <1>4, <2>1
  <2> QED BY <2>2, <1>1 DEF LineEnd
<1>6. \A i \in eol' .. (len' - 1) : buf'[(pos' + i) % N] \notin EndsLine
  <2> TAKE i \in eol' .. (len' - 1)
  <2>1. i \in 0 .. (N - 1) /\ i + 1 \in eol .. (len - 1)
    BY <1>1, <1>3, KeyboardAssumption, SMT
  <2>2. (pos' + i) % N = (pos + (i + 1)) % N
    BY <1>4, <2>1
  <2> QED BY <1>1, <2>1, <2>2 DEF LineEnd
<1> QED BY <1>1, <1>2, <1>3, <1>5, <1>6 DEF LineEnd

\* Each action keeps every variable's type.
LEMMA TypeStep == TypeOK /\ LineEnd /\ [Next]_vars => TypeOK'
<1> SUFFICES ASSUME TypeOK, LineEnd, [Next]_vars PROVE TypeOK' OBVIOUS
<1> USE KeyboardAssumption DEF TypeOK, Critical
<1>1. CASE UNCHANGED vars
  BY <1>1 DEF vars, kbd, proc
<1>2. ASSUME NEW k \in Keys, Press(k) PROVE TypeOK'
  BY <1>2 DEF Press, kbd, proc
<1>3. CASE IrqEnter
  BY <1>3 DEF IrqEnter, kbd
<1>4. CASE IrqLock
  BY <1>4 DEF IrqLock, kbd
<1>5. CASE IrqChar
  <2>1. dev' \in Seq(Keys) /\ UNCHANGED <<lock, proc>>
    BY <1>5 DEF IrqChar
  <2>2. Head(dev) \in Char
    BY <1>5 DEF IrqChar
  <2>3. CASE UNCHANGED <<kbd, on>>
    BY <2>1, <2>3 DEF kbd, proc
  <2>4. CASE Erase
    BY <2>1, <2>4, SMT DEF Erase, LineEnd, proc
  <2>5. CASE PowerOff
    BY <2>1, <2>5 DEF PowerOff, kbd, proc
  <2>6. ASSUME NEW ch \in Char, Store(ch) PROVE TypeOK'
    BY <2>1, <2>6, StoreInv DEF proc
  <2>7. \/ UNCHANGED <<kbd, on>> \/ Erase \/ PowerOff
        \/ \E ch \in Char : Store(ch)
    BY <1>5, <2>2 DEF IrqChar, Char
  <2> QED BY <2>3, <2>4, <2>5, <2>6, <2>7
<1>6. CASE IrqReturn
  BY <1>6 DEF IrqReturn, kbd
<1>7. ASSUME NEW c \in CPU, NEW n \in ReadSizes, Read(c, n) PROVE TypeOK'
  BY <1>7 DEF Read, kbd
<1>8. ASSUME NEW c \in CPU, ReadLock(c) PROVE TypeOK'
  BY <1>8 DEF ReadLock
<1>9. ASSUME NEW c \in CPU, ReadCheck(c) PROVE TypeOK'
  BY <1>9 DEF ReadCheck, kbd
<1>10. ASSUME NEW c \in CPU, ReadCopy(c) PROVE TypeOK'
  <2>1. eol # 0 /\ Consume /\ UNCHANGED <<lock, on, dev, pc, sz>>
    BY <1>10 DEF ReadCopy, MoreToRead
  <2>2. got' \in [CPU -> Seq(Char)]
    BY <1>10 DEF ReadCopy
  <2> QED BY <2>1, <2>2, ConsumeInv
<1>11. ASSUME NEW c \in CPU, ReadReturn(c) PROVE TypeOK'
  <2>1. /\ lock' = NoCPU /\ pc' = [pc EXCEPT ![c] = "user"]
        /\ UNCHANGED <<on, dev, sz, got>>
    BY <1>11 DEF ReadReturn
  <2>2. UNCHANGED kbd \/ (eol # 0 /\ Consume)
    BY <1>11 DEF ReadReturn, MoreToRead
  <2> QED BY <2>1, <2>2, ConsumeInv DEF kbd
<1> QED BY <1>1, <1>2, <1>3, <1>4, <1>5, <1>6, <1>7, <1>8, <1>9, <1>10, <1>11
        DEF Next, Irq, ReadStep

\* A lock is taken only when it is free and released only by its holder.
LEMMA LockStep == TypeOK /\ LockHeld /\ [Next]_vars => LockHeld'
<1> SUFFICES ASSUME TypeOK, LockHeld, [Next]_vars PROVE LockHeld' OBVIOUS
<1> USE KeyboardAssumption DEF TypeOK, LockHeld, Critical
<1>1. CASE UNCHANGED <<lock, pc>>
  BY <1>1
<1>2. CASE IrqEnter
  BY <1>2 DEF IrqEnter
<1>3. CASE IrqLock
  BY <1>3 DEF IrqLock
<1>4. CASE IrqReturn
  BY <1>4 DEF IrqReturn
<1>5. ASSUME NEW c \in CPU, NEW n \in ReadSizes, Read(c, n) PROVE LockHeld'
  BY <1>5 DEF Read
<1>6. ASSUME NEW c \in CPU, ReadLock(c) PROVE LockHeld'
  BY <1>6 DEF ReadLock
<1>7. ASSUME NEW c \in CPU, ReadCheck(c) PROVE LockHeld'
  <2>1. pc[c] = "check" /\ lock = c
    BY <1>7 DEF ReadCheck
  <2>2. \/ pc' = [pc EXCEPT ![c] = "copy"] /\ lock' = lock
        \/ pc' = [pc EXCEPT ![c] = "lock"] /\ lock' = NoCPU
    BY <1>7 DEF ReadCheck
  <2> QED BY <2>1, <2>2
<1>8. ASSUME NEW c \in CPU, ReadReturn(c) PROVE LockHeld'
  BY <1>8 DEF ReadReturn
<1>9. \/ UNCHANGED <<lock, pc>> \/ IrqEnter \/ IrqLock \/ IrqReturn
      \/ \E c \in CPU : \/ \E n \in ReadSizes : Read(c, n)
                       \/ ReadLock(c) \/ ReadCheck(c) \/ ReadReturn(c)
  BY DEF Next, Irq, ReadStep, vars, proc, Press, IrqChar, ReadCopy
<1> QED BY <1>1, <1>2, <1>3, <1>4, <1>5, <1>6, <1>7, <1>8, <1>9

\* Only storing, erasing and consuming touch the ring.
LEMMA LineStep == TypeOK /\ LineEnd /\ [Next]_vars => LineEnd'
<1> SUFFICES ASSUME TypeOK, LineEnd, [Next]_vars PROVE LineEnd' OBVIOUS
<1>1. CASE UNCHANGED <<buf, pos, len, eol>>
  BY <1>1 DEF LineEnd
<1>2. CASE Erase
  <2>1. /\ buf' = buf /\ pos' = pos /\ eol' = eol
        /\ len' = IF eol < len THEN len - 1 ELSE len
    BY <1>2 DEF Erase
  <2>2. eol' <= len' /\ eol' .. (len' - 1) \subseteq eol .. (len - 1)
    BY <2>1, KeyboardAssumption, SMT DEF TypeOK, LineEnd
  <2> QED BY <2>1, <2>2 DEF LineEnd
<1>3. ASSUME NEW ch \in Char, Store(ch) PROVE LineEnd'
  BY <1>3, StoreInv
<1>4. CASE eol # 0 /\ Consume
  BY <1>4, ConsumeInv
<1>5. \/ UNCHANGED <<buf, pos, len, eol>> \/ Erase
      \/ \E ch \in Char : Store(ch)
      \/ eol # 0 /\ Consume
  <2>1. CASE IrqChar
    <3>1. Head(dev) \in Char
      BY <2>1, KeyboardAssumption DEF IrqChar, TypeOK
    <3> QED BY <2>1, <3>1 DEF IrqChar, PowerOff, kbd, Char
  <2>2. CASE ~IrqChar
    BY <2>2 DEF Next, Irq, ReadStep, vars, kbd, Press, IrqEnter, IrqLock, IrqReturn,
                Read, ReadLock, ReadCheck, ReadCopy, ReadReturn, MoreToRead
  <2> QED BY <2>1, <2>2
<1> QED BY <1>1, <1>2, <1>3, <1>4, <1>5

-----------------------------------------------------------------------------
(* The line discipline.  The ring holds the finished lines and then the one   *)
(* being typed; each action on the ring is one of LineBuffer on the two.      *)

\* The finished lines and the unfinished one, as LineBuffer has them.
Done == [i \in 1 .. eol |-> buf[(pos + i - 1) % N]]
Typing == [i \in 1 .. (len - eol) |-> buf[(pos + eol + i - 1) % N]]

\* Both are sequences of characters, and no longer together than the ring.
LEMMA LinesType ==
    ASSUME TypeOK, LineEnd
    PROVE  /\ Done \in Seq(Char) /\ Len(Done) = eol
           /\ Typing \in Seq(Char) /\ Len(Typing) = len - eol
           /\ \A i \in 1 .. eol : i - 1 \in 0 .. (N - 1) /\ Done[i] = buf[(pos + (i - 1)) % N]
           /\ \A i \in 1 .. (len - eol) : /\ eol + (i - 1) \in 0 .. (N - 1)
                                        /\ Typing[i] = buf[(pos + (eol + (i - 1))) % N]
<1>1. N \in Nat \ {0} /\ pos \in Slot /\ eol \in 0 .. N /\ len \in 0 .. N /\ eol <= len
      /\ Slot \subseteq Int /\ N \in Int
  BY KeyboardAssumption, SMT DEF TypeOK, LineEnd, Slot
<1>2. ASSUME NEW i \in 1 .. eol
      PROVE  /\ i - 1 \in 0 .. (N - 1) /\ pos + i - 1 = pos + (i - 1)
             /\ buf[(pos + (i - 1)) % N] \in Char
  <2>1. i - 1 \in 0 .. (N - 1) /\ i - 1 \in 0 .. N /\ pos + i - 1 = pos + (i - 1)
    BY <1>1, SMT
  <2>2. (pos + (i - 1)) % N \in Slot
    BY <1>1, <2>1, RingSlot
  <2> QED BY <2>1, <2>2 DEF TypeOK
<1>3. ASSUME NEW i \in 1 .. (len - eol)
      PROVE  /\ eol + (i - 1) \in 0 .. (N - 1) /\ pos + eol + i - 1 = pos + (eol + (i - 1))
             /\ buf[(pos + (eol + (i - 1))) % N] \in Char
  <2>1. eol + (i - 1) \in 0 .. (N - 1) /\ eol + (i - 1) \in 0 .. N
        /\ pos + eol + i - 1 = pos + (eol + (i - 1))
    BY <1>1, SMT
  <2>2. (pos + (eol + (i - 1))) % N \in Slot
    BY <1>1, <2>1, RingSlot
  <2> QED BY <2>1, <2>2 DEF TypeOK
<1>4. /\ \A i \in 1 .. eol : Done[i] = buf[(pos + (i - 1)) % N]
      /\ \A i \in 1 .. eol : Done[i] \in Char
  BY <1>2 DEF Done
<1>5. /\ \A i \in 1 .. (len - eol) : Typing[i] = buf[(pos + (eol + (i - 1))) % N]
      /\ \A i \in 1 .. (len - eol) : Typing[i] \in Char
  BY <1>3 DEF Typing
<1>6. Done \in [1 .. eol -> Char] /\ eol \in Nat
  <2>1. Done = [i \in 1 .. eol |-> Done[i]]
    BY DEF Done
  <2> QED BY <1>1, <1>4, <2>1, SMT
<1>7. Typing \in [1 .. (len - eol) -> Char] /\ len - eol \in Nat
  BY <1>1, <1>5 DEF Typing
<1>8. Done \in Seq(Char) /\ Len(Done) = eol
  BY <1>6, IsASeq, LenProperties
<1>9. Typing \in Seq(Char) /\ Len(Typing) = len - eol
  BY <1>7, IsASeq, LenProperties
<1> QED BY <1>2, <1>3, <1>4, <1>5, <1>8, <1>9

\* A character that ends no line is appended to the line being typed.  One that
\* does moves the whole line, with it, to the finished ones.
LEMMA StoreTypes ==
    ASSUME TypeOK, LineEnd, NEW ch \in Char, Store(ch), len < N
    PROVE  /\ ch \notin EndsLine => Done' = Done /\ Typing' = Append(Typing, ch)
           /\ ch \in EndsLine => Done' = Done \o Append(Typing, ch) /\ Typing' = << >>
<1> DEFINE s == (pos + len) % N
<1>1. N \in Nat \ {0} /\ pos \in Slot /\ eol \in 0 .. N /\ len \in 0 .. (N - 1) /\ eol <= len
      /\ Slot \subseteq Int /\ N \in Int /\ len \in 0 .. N
  BY KeyboardAssumption, SMT DEF TypeOK, LineEnd, Slot
<1>2. /\ buf' = [buf EXCEPT ![s] = ch]
      /\ len' = len + 1 /\ pos' = pos
      /\ eol' = IF ch \in EndsLine THEN len + 1 ELSE eol
  BY DEF Store
<1>3. s \in Slot /\ buf'[s] = ch
  BY <1>1, <1>2, RingSlot DEF TypeOK
<1>4. ASSUME NEW j \in 0 .. (N - 1), j # len PROVE buf'[(pos + j) % N] = buf[(pos + j) % N]
  <2>1. (pos + j) % N # s
    BY <1>1, <1>4, RingDistinct
  <2>2. j \in 0 .. N
    BY <1>1, SMT
  <2>3. (pos + j) % N \in Slot
    BY <1>1, <2>2, RingSlot
  <2> HIDE DEF s
  <2> QED BY <1>2, <2>1, <2>3 DEF TypeOK
<1>5. /\ Done \in Seq(Char) /\ Len(Done) = eol
      /\ Typing \in Seq(Char) /\ Len(Typing) = len - eol
      /\ \A i \in 1 .. eol : i - 1 \in 0 .. (N - 1) /\ Done[i] = buf[(pos + (i - 1)) % N]
      /\ \A i \in 1 .. (len - eol) : /\ eol + (i - 1) \in 0 .. (N - 1)
                                   /\ Typing[i] = buf[(pos + (eol + (i - 1))) % N]
  BY LinesType
<1> DEFINE a == Append(Typing, ch)
<1>6. /\ a \in Seq(Char) /\ Len(a) = len - eol + 1
      /\ \A i \in 1 .. (len - eol) : a[i] = Typing[i]
      /\ a[len - eol + 1] = ch
  BY <1>5, AppendProperties
<1> HIDE DEF a, s
<1>7. \A i \in 1 .. (len - eol) + 1 : a[i] = buf'[(pos + (eol + (i - 1))) % N]
  <2> TAKE i \in 1 .. (len - eol) + 1
  <2>1. CASE i \in 1 .. (len - eol)
    <3>1. eol + (i - 1) # len
      BY <1>1, <2>1, SMT
    <3> QED BY <1>4, <1>5, <1>6, <2>1, <3>1
  <2>2. CASE i = len - eol + 1
    <3>1. pos + (eol + (i - 1)) = pos + len
      BY <1>1, <2>2, SMT
    <3> QED BY <1>3, <1>6, <2>2, <3>1 DEF s
  <2>3. i \in 1 .. (len - eol) \/ i = len - eol + 1
    BY <1>1, SMT
  <2> QED BY <2>1, <2>2, <2>3
<1>8. \A i \in 1 .. eol : Done[i] = buf'[(pos + (i - 1)) % N]
  <2> TAKE i \in 1 .. eol
  <2>1. i - 1 # len
    BY <1>1, SMT
  <2> QED BY <1>4, <1>5, <2>1
<1>9. ASSUME ch \notin EndsLine PROVE Done' = Done /\ Typing' = a
  <2>1. eol' = eol /\ len' - eol' = len - eol + 1
    BY <1>1, <1>2, <1>9, SMT
  <2>2. \A i \in 1 .. eol : pos + i - 1 = pos + (i - 1)
    BY <1>1, SMT
  <2>3. \A i \in 1 .. (len - eol + 1) : pos + eol + i - 1 = pos + (eol + (i - 1))
    BY <1>1, SMT
  <2>4. Done' = [i \in 1 .. eol |-> buf'[(pos + (i - 1)) % N]]
    BY <1>2, <2>1, <2>2 DEF Done
  <2>5. Typing' = [i \in 1 .. (len - eol + 1) |-> buf'[(pos + (eol + (i - 1))) % N]]
    BY <1>2, <2>1, <2>3 DEF Typing
  <2>6. DOMAIN Done = 1 .. eol /\ Done = [i \in 1 .. eol |-> Done[i]]
    BY DEF Done
  <2>7. DOMAIN a = 1 .. (len - eol + 1) /\ a = [i \in 1 .. (len - eol + 1) |-> a[i]]
    BY <1>6, LenProperties
  <2> QED BY <1>7, <1>8, <2>4, <2>5, <2>6, <2>7
<1>10. ASSUME ch \in EndsLine PROVE Done' = Done \o a /\ Typing' = << >>
  <2>1. eol' = len + 1 /\ len' - eol' = 0
    BY <1>1, <1>2, <1>10, SMT
  <2>2. \A i \in 1 .. (len + 1) : pos + i - 1 = pos + (i - 1)
    BY <1>1, SMT
  <2>3. Done' = [i \in 1 .. (len + 1) |-> buf'[(pos + (i - 1)) % N]]
    BY <1>2, <2>1, <2>2 DEF Done
  <2>4. Typing' = << >>
    BY <2>1 DEF Typing
  <2> DEFINE d == Done \o a
  <2>5. /\ d \in Seq(Char) /\ Len(d) = eol + (len - eol + 1)
        /\ \A i \in 1 .. (eol + (len - eol + 1)) : d[i] = IF i <= eol THEN Done[i] ELSE a[i - eol]
    <3>1. /\ d \in Seq(Char) /\ Len(d) = Len(Done) + Len(a)
          /\ \A i \in 1 .. (Len(Done) + Len(a)) : d[i] = IF i <= Len(Done) THEN Done[i] ELSE a[i - Len(Done)]
      BY <1>5, <1>6, ConcatProperties
    <3> HIDE DEF d
    <3>2. Len(Done) + Len(a) = eol + (len - eol + 1)
      BY <1>5, <1>6
    <3> QED BY <1>5, <3>1, <3>2
  <2> HIDE DEF d
  <2>6. eol + (len - eol + 1) = len + 1
    BY <1>1, SMT
  <2>7. d = [i \in 1 .. (len + 1) |-> d[i]]
    BY <2>5, <2>6, LenProperties
  <2>8. ASSUME NEW i \in 1 .. (len + 1) PROVE d[i] = buf'[(pos + (i - 1)) % N]
    <3>1. CASE i <= eol
      <4>1. i \in 1 .. eol
        BY <1>1, <3>1, SMT
      <4> QED BY <1>8, <2>5, <2>6, <3>1, <4>1
    <3>2. CASE ~(i <= eol)
      <4>1. i - eol \in 1 .. (len - eol) + 1 /\ pos + (eol + ((i - eol) - 1)) = pos + (i - 1)
        BY <1>1, <3>2, SMT
      <4>2. a[i - eol] = buf'[(pos + (i - 1)) % N]
        BY <1>7, <4>1
      <4> QED BY <2>5, <2>6, <3>2, <4>2
    <3> QED BY <3>1, <3>2
  <2>9. d = Done'
    BY <2>3, <2>7, <2>8
  <2> QED BY <2>4, <2>9 DEF d
<1> QED BY <1>9, <1>10 DEF a

\* Ctrl-H takes the last character of the line being typed.
LEMMA EraseTypes ==
    ASSUME TypeOK, LineEnd, Erase
    PROVE  \/ Done' = Done /\ Typing' = Typing
           \/ /\ Typing # << >> /\ Done' = Done
              /\ Typing' = SubSeq(Typing, 1, Len(Typing) - 1)
<1>1. N \in Nat \ {0} /\ pos \in Slot /\ eol \in 0 .. N /\ len \in 0 .. N /\ eol <= len
      /\ Slot \subseteq Int /\ N \in Int
  BY KeyboardAssumption, SMT DEF TypeOK, LineEnd, Slot
<1>2. buf' = buf /\ pos' = pos /\ eol' = eol /\ len' = IF eol < len THEN len - 1 ELSE len
  BY DEF Erase
<1>3. Done' = Done
  BY <1>2 DEF Done
<1>4. CASE ~(eol < len)
  BY <1>2, <1>3, <1>4 DEF Typing
<1>5. CASE eol < len
  <2>1. Typing \in Seq(Char) /\ Len(Typing) = len - eol /\ Len(Typing) \in 1 .. N
    BY <1>1, <1>5, LinesType, SMT
  <2>2. Typing # << >>
    BY <2>1, SMT
  <2> DEFINE t == SubSeq(Typing, 1, Len(Typing) - 1)
  <2>3. len' - eol' = Len(Typing) - 1
    BY <1>1, <1>2, <1>5, <2>1, SMT
  <2>4. /\ t \in Seq(Char) /\ Len(t) = Len(Typing) - 1
        /\ \A i \in 1 .. (Len(Typing) - 1) : t[i] = Typing[i]
    BY <2>1
  <2> HIDE DEF t
  <2>5. t = [i \in 1 .. (Len(Typing) - 1) |-> Typing[i]]
    BY <2>4, LenProperties
  <2>6. \A i \in 1 .. (Len(Typing) - 1) : i \in 1 .. (len - eol)
    BY <1>1, <2>1, SMT
  <2>7. \A i \in 1 .. (Len(Typing) - 1) : Typing[i] = buf[(pos + eol + i - 1) % N]
    BY <2>6 DEF Typing
  <2>8. Typing' = [i \in 1 .. (Len(Typing) - 1) |-> buf[(pos + eol + i - 1) % N]]
    BY <1>2, <2>3 DEF Typing
  <2>9. Typing' = t
    BY <2>5, <2>7, <2>8
  <2> QED BY <1>3, <2>2, <2>9 DEF t
<1> QED BY <1>4, <1>5

\* consume(1) takes the head of the finished lines.
LEMMA ConsumeTypes ==
    ASSUME TypeOK, LineEnd, eol # 0, Consume
    PROVE  /\ Done # << >> /\ Head(Done) = buf[pos]
           /\ Done' = Tail(Done) /\ Typing' = Typing
<1>1. N \in Nat \ {0} /\ pos \in Slot /\ eol \in 1 .. N /\ len \in 1 .. N /\ eol <= len
      /\ Slot \subseteq Int /\ N \in Int
  BY KeyboardAssumption, SMT DEF TypeOK, LineEnd, Slot
<1>2. /\ pos' = (pos + 1) % N /\ len' = len - 1 /\ eol' = eol - 1 /\ buf' = buf
  BY DEF Consume
<1>3. pos' \in Slot
  BY <1>1, <1>2, RingSlot
<1>4. \A i \in 0 .. (N - 1) : (pos' + i) % N = (pos + (i + 1)) % N
  BY <1>1, <1>2, RingShift
<1>5. Done \in Seq(Char) /\ Len(Done) = eol /\ \A i \in 1 .. eol : Done[i] = buf[(pos + (i - 1)) % N]
  BY LinesType
<1>6. Done # << >>
  BY <1>1, <1>5, SMT
<1>7. Head(Done) = buf[pos]
  <2>1. (pos + (1 - 1)) % N = pos /\ 1 \in 1 .. eol
    BY <1>1, SMT DEF Slot
  <2>2. Head(Done) = Done[1]
    BY <1>5, <1>6
  <2> QED BY <1>5, <2>1, <2>2
<1>8. Done' = Tail(Done)
  <2> DEFINE t == Tail(Done)
  <2>1. /\ t \in Seq(Char) /\ Len(t) = eol - 1 /\ \A i \in 1 .. (eol - 1) : t[i] = Done[i + 1]
    BY <1>5, <1>6
  <2> HIDE DEF t
  <2>2. t = [i \in 1 .. (eol - 1) |-> t[i]]
    BY <2>1, LenProperties
  <2>3. ASSUME NEW i \in 1 .. (eol - 1) PROVE t[i] = buf[(pos' + i - 1) % N]
    <3>1. /\ i - 1 \in 0 .. (N - 1) /\ i + 1 \in 1 .. eol
          /\ pos' + i - 1 = pos' + (i - 1) /\ pos + ((i + 1) - 1) = pos + ((i - 1) + 1)
      BY <1>1, <1>3, SMT
    <3> QED BY <1>4, <1>5, <2>1, <3>1
  <2>4. Done' = [i \in 1 .. (eol - 1) |-> buf[(pos' + i - 1) % N]]
    BY <1>2 DEF Done
  <2> QED BY <2>2, <2>3, <2>4 DEF t
<1>9. Typing' = Typing
  <2>1. len' - eol' = len - eol
    BY <1>1, <1>2, SMT
  <2>2. ASSUME NEW i \in 1 .. (len - eol)
        PROVE  (pos' + eol' + i - 1) % N = (pos + eol + i - 1) % N
    <3>1. /\ (eol - 1) + (i - 1) \in 0 .. (N - 1)
          /\ pos' + eol' + i - 1 = pos' + ((eol - 1) + (i - 1))
          /\ pos + eol + i - 1 = pos + (((eol - 1) + (i - 1)) + 1)
      BY <1>1, <1>2, <1>3, SMT
    <3> QED BY <1>4, <3>1
  <2>3. Typing' = [i \in 1 .. (len - eol) |-> buf[(pos' + eol' + i - 1) % N]]
    BY <1>2, <2>1 DEF Typing
  <2> QED BY <2>2, <2>3 DEF Typing
<1> QED BY <1>6, <1>7, <1>8, <1>9

\* The keyboard starts with no line.
LEMMA LineInit == Init => Line!Init
<1> SUFFICES ASSUME Init PROVE Line!Init OBVIOUS
<1>1. eol = 0 /\ len - eol = 0 /\ got = [c \in CPU |-> << >>]
  BY DEF Init
<1>2. Done = << >> /\ Typing = << >>
  BY <1>1 DEF Done, Typing
<1> QED BY <1>1, <1>2 DEF Line!Init, Done, Typing

\* Every step of the keyboard is a step of the line discipline, or none.
LEMMA LineNext == TypeOK /\ LineEnd /\ [Next]_vars => [Line!Next]_(Line!lvars)
<1> SUFFICES ASSUME TypeOK, LineEnd, [Next]_vars PROVE [Line!Next]_(Line!lvars) OBVIOUS
<1>0. Line!lvars = <<Done, Typing, got>>
  BY DEF Line!lvars, Done, Typing
<1>1. CASE UNCHANGED <<buf, pos, len, eol, got>>
  <2>1. Done' = Done /\ Typing' = Typing
    BY <1>1 DEF Done, Typing
  <2> QED BY <1>0, <1>1, <2>1 DEF Line!lvars, Done, Typing
<1>2. CASE Erase /\ UNCHANGED got
  <2>1. CASE Done' = Done /\ Typing' = Typing
    BY <1>2, <2>1 DEF Line!lvars, Done, Typing
  <2>2. CASE /\ Typing # << >> /\ Done' = Done
             /\ Typing' = SubSeq(Typing, 1, Len(Typing) - 1)
    <3>1. Line!Erase
      BY <1>2, <2>2 DEF Line!Erase, Done, Typing
    <3> QED BY <3>1 DEF Line!Next
  <2> QED BY <1>2, <2>1, <2>2, EraseTypes
<1>3. ASSUME NEW ch \in Char, Store(ch), UNCHANGED got PROVE [Line!Next]_(Line!lvars)
  <2>1. CASE len < N
    <3>1. Len(Done) + Len(Typing) < N
      BY <2>1, LinesType, KeyboardAssumption, SMT DEF TypeOK, LineEnd
    <3>2. /\ ch \notin EndsLine => Done' = Done /\ Typing' = Append(Typing, ch)
          /\ ch \in EndsLine => Done' = Done \o Append(Typing, ch) /\ Typing' = << >>
      BY <1>3, <2>1, StoreTypes
    <3>3. Line!Type(ch)
      BY <1>3, <3>1, <3>2 DEF Line!Type, Done, Typing
    <3> QED BY <3>3 DEF Line!Next
  <2>2. CASE ~(len < N)
    <3>1. UNCHANGED <<buf, pos, len, eol>>
      BY <1>3, <2>2 DEF Store, kbd
    <3> QED BY <1>1, <1>3, <3>1
  <2> QED BY <2>1, <2>2
<1>4. ASSUME NEW c \in CPU, eol # 0, Consume, buf[pos] # "^D",
             got' = [got EXCEPT ![c] = Append(@, buf[pos])]
      PROVE  [Line!Next]_(Line!lvars)
  <2>1. /\ Done # << >> /\ Head(Done) = buf[pos]
        /\ Done' = Tail(Done) /\ Typing' = Typing
    BY <1>4, ConsumeTypes
  <2>2. Line!Take(c)
    BY <1>4, <2>1 DEF Line!Take, Done, Typing
  <2> QED BY <2>2 DEF Line!Next
<1>5. ASSUME NEW c \in CPU, eol # 0, Consume, buf[pos] = "^D", got[c] = << >>, UNCHANGED got
      PROVE  [Line!Next]_(Line!lvars)
  <2>1. /\ Done # << >> /\ Head(Done) = buf[pos]
        /\ Done' = Tail(Done) /\ Typing' = Typing
    BY <1>5, ConsumeTypes
  <2>2. Line!TakeEOF(c)
    BY <1>5, <2>1 DEF Line!TakeEOF, Done, Typing
  <2> QED BY <2>2 DEF Line!Next
<1>6. ASSUME NEW c \in CPU, UNCHANGED <<buf, pos, len, eol>>, got' = [got EXCEPT ![c] = << >>]
      PROVE  [Line!Next]_(Line!lvars)
  <2>1. Done' = Done /\ Typing' = Typing
    BY <1>6 DEF Done, Typing
  <2>2. Line!BeginRead(c)
    BY <1>6, <2>1 DEF Line!BeginRead, Done, Typing
  <2> QED BY <2>2 DEF Line!Next
<1>7. CASE IrqChar
  <2>1. Head(dev) \in Char
    BY <1>7, KeyboardAssumption DEF IrqChar, TypeOK
  <2>2. \/ UNCHANGED <<buf, pos, len, eol, got>>
        \/ Erase /\ UNCHANGED got
        \/ \E ch \in Char : Store(ch) /\ UNCHANGED got
    BY <1>7, <2>1 DEF IrqChar, PowerOff, kbd, proc, Char
  <2> QED BY <1>1, <1>2, <1>3, <2>2
<1>8. ASSUME NEW c \in CPU, ReadCopy(c) PROVE [Line!Next]_(Line!lvars)
  BY <1>4, <1>8 DEF ReadCopy, MoreToRead
<1>9. ASSUME NEW c \in CPU, ReadReturn(c) PROVE [Line!Next]_(Line!lvars)
  <2>1. \/ UNCHANGED <<buf, pos, len, eol, got>>
        \/ eol # 0 /\ Consume /\ buf[pos] = "^D" /\ got[c] = << >> /\ UNCHANGED got
    BY <1>9 DEF ReadReturn, MoreToRead, kbd
  <2> QED BY <1>1, <1>5, <2>1
<1>10. ASSUME NEW c \in CPU, NEW n \in ReadSizes, Read(c, n) PROVE [Line!Next]_(Line!lvars)
  <2>1. UNCHANGED <<buf, pos, len, eol>> /\ got' = [got EXCEPT ![c] = << >>]
    BY <1>10 DEF Read, kbd
  <2> QED BY <1>6, <2>1
<1>11. \/ UNCHANGED <<buf, pos, len, eol, got>> \/ IrqChar
       \/ \E c \in CPU : ReadCopy(c) \/ ReadReturn(c) \/ \E n \in ReadSizes : Read(c, n)
  BY DEF Next, Irq, ReadStep, vars, kbd, proc, Press, IrqEnter, IrqLock, IrqReturn, ReadLock, ReadCheck
<1> QED BY <1>1, <1>7, <1>8, <1>9, <1>10, <1>11

-----------------------------------------------------------------------------

\* The counters and the lock are consistent in every state.
LEMMA Invariance == Spec => []Inv
<1>1. Inv /\ [Next]_vars => Inv'
  BY TypeStep, LockStep, LineStep DEF Inv
<1> QED BY InitInv, <1>1, PTL DEF Spec

\* The counters of keyboardstate never leave the bounds check_invariants() states.
THEOREM KeyboardTypes == Spec => []TypeOK
<1>1. Inv => TypeOK BY DEF Inv
<1> QED BY Invariance, <1>1, PTL

\* keyboardstate::lock_ excludes the handler and every reader from each other.
THEOREM KeyboardMutex == Spec => []LockHeld
<1>1. Inv => LockHeld BY DEF Inv
<1> QED BY Invariance, <1>1, PTL

\* eol_ always marks the end of the last finished line in the buffer.
THEOREM KeyboardLineEnd == Spec => []LineEnd
<1>1. Inv => LineEnd BY DEF Inv
<1> QED BY Invariance, <1>1, PTL

\* The keyboard is the line discipline LineBuffer: a reader takes the characters of
\* finished lines, all of them and in the order they were typed, Ctrl-H takes back
\* characters of the unfinished line alone, and what does not fit is dropped.
THEOREM KeyboardIsLineBuffer == Spec => ImplementsLineBuffer
<1>1. Inv /\ [Next]_vars => [Line!Next]_(Line!lvars)
  BY LineNext DEF Inv
<1> QED BY LineInit, <1>1, Invariance, PTL DEF Spec, ImplementsLineBuffer, Line!Spec
=============================================================================
