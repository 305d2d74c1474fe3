----------------------------- MODULE LineBuffer -----------------------------
(***************************************************************************)
(* What the keyboard promises: a queue of finished lines, the line still   *)
(* being typed, and what each reader has taken.  Keys typed when Cap       *)
(* characters are waiting are dropped.                                     *)
(***************************************************************************)
EXTENDS Integers, Sequences

CONSTANTS CPU, Cap, Char, EndsLine

VARIABLES done,    \* the characters of finished lines
          typing,  \* the line being typed
          taken    \* what each reader has taken since its read began

lvars == <<done, typing, taken>>

Init == done = <<>> /\ typing = <<>> /\ taken = [c \in CPU |-> <<>>]

Type(k) ==
    /\ Len(done) + Len(typing) < Cap
    /\ IF k \in EndsLine
       THEN /\ done' = done \o Append(typing, k)
            /\ typing' = <<>>
       ELSE /\ typing' = Append(typing, k)
            /\ UNCHANGED done
    /\ UNCHANGED taken

Erase == /\ typing # <<>>
         /\ typing' = SubSeq(typing, 1, Len(typing) - 1)
         /\ UNCHANGED <<done, taken>>

BeginRead(c) == /\ taken' = [taken EXCEPT ![c] = <<>>]
                /\ UNCHANGED <<done, typing>>

Take(c) == /\ done # <<>> /\ Head(done) # "^D"
           /\ taken' = [taken EXCEPT ![c] = Append(@, Head(done))]
           /\ done' = Tail(done)
           /\ UNCHANGED typing

\* A reader that has taken nothing consumes an end of file.
TakeEOF(c) == /\ done # <<>> /\ Head(done) = "^D"
              /\ taken[c] = <<>>
              /\ done' = Tail(done)
              /\ UNCHANGED <<typing, taken>>

Next == \/ \E k \in Char : Type(k)
        \/ Erase
        \/ \E c \in CPU : BeginRead(c) \/ Take(c) \/ TakeEOF(c)

Spec == Init /\ [][Next]_lvars
=============================================================================
