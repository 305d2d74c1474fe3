------------------------------ MODULE Sections ------------------------------
(***************************************************************************)
(* The sections of a presentation.  A deck is a row of columns.  A column  *)
(* is a slide of its own, or a stack of vertical slides.  Stack[x] is the  *)
(* number of vertical slides of the column x, 0 when it is no stack.  A    *)
(* slide is the pair <<h, v>> of its indices.                              *)
(***************************************************************************)
EXTENDS Integers, FiniteSets

CONSTANTS
    Width,          \* number of columns
    Stack           \* vertical slides of each column

Columns == 0 .. Width - 1

ASSUME SectionsAssumption == Width \in Nat \ {0} /\ Stack \in [Columns -> Nat]

IsStack(x) == Stack[x] > 0
Heights(x) == 0 .. (IF IsStack(x) THEN Stack[x] - 1 ELSE 0)
Slides == UNION {{x} \X Heights(x) : x \in Columns}
Children == {s \in Slides : IsStack(s[1])}

\* Document order.
Before(s, t) == s[1] < t[1] \/ (s[1] = t[1] /\ s[2] < t[2])
=============================================================================
