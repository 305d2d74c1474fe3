------------------------------- MODULE Sprouts -------------------------------
(***************************************************************************)
(* The game of Sprouts.  Two players in turn draw a line between circles;  *)
(* an accepted line gets a new circle at its middle, and a circle takes    *)
(* three lines.  A player may also mark a circle as dead.  The drawing     *)
(* itself is left out: of the accepted lines only how often they cross the *)
(* outline of each circle is kept, of the line that is being drawn the     *)
(* circle it starts in, the circle it is in and the outlines it has        *)
(* crossed.  Whether it meets another line, or its new circle another      *)
(* circle or a line too many, may come out either way.                     *)
(***************************************************************************)
EXTENDS Integers, FiniteSets, Sequences

CONSTANTS
    nodes,          \* circles at the start
    MaxCuts,        \* outlines a line may cross
    MaxLeftovers    \* rejected new circles counted in workcircles

ASSUME SproutsAssumption == nodes \in Nat \ {0} /\ MaxCuts \in Nat \ {0, 1} /\ MaxLeftovers \in Nat

maxGame == 3 * nodes - 1

VARIABLES
    joins,          \* of each circle, the intersections with the accepted paths
    colour,         \* of each circle: "brown", "green" or "black"
    workcircles,    \* the circle each was made for, 0 when it was rejected
    deadNodes,      \* how often each circle is in the list
    turn,
    pen             \* the path that is being drawn, or none

vars == <<joins, colour, workcircles, deadNodes, turn, pen>>

Outside == 0
Circles == DOMAIN joins
Lines == Len(joins) - nodes      \* each accepted path has made a circle
NoPen == [from |-> Outside, at |-> Outside, cuts |-> <<>>, down |-> FALSE]
Over == turn >= maxGame

\* Every variable keeps its type.
TypeOK ==
    /\ joins \in Seq(Nat) /\ Lines \in Nat
    /\ colour \in [Circles -> {"brown", "green", "black"}] /\ deadNodes \in [Circles -> Nat]
    /\ workcircles \in Seq(Circles \cup {0})
    /\ turn \in 0 .. 3 * maxGame
    /\ pen \in [from : Circles \cup {Outside}, at : Circles \cup {Outside},
                cuts : Seq(Circles), down : BOOLEAN]
-----------------------------------------------------------------------------
Times(q, x) == Cardinality({i \in DOMAIN q : q[i] = x})

\* How many a list of counts counts in all.
Total(f) == Cardinality(UNION {{i} \X (1 .. f[i]) : i \in DOMAIN f})

\* Mutant of GameOver: one end that is left counts as enough.
MutGameOver(js, dead, t, cuts) ==
    LET crosses == [c \in DOMAIN js |-> js[c] + Times(cuts, c)]
        ofDead == [c \in DOMAIN js |-> dead[c] * crosses[c]]
    IN  \/ t = maxGame
        \/ Total(crosses) - Total(ofDead) = 3 * Len(js) - 3 * Total(dead)

\* The pen's path is one of the paths: it counts as far as it is drawn.
GameOver(js, dead, t, cuts) ==
    LET crosses == [c \in DOMAIN js |-> js[c] + Times(cuts, c)]
        ofDead == [c \in DOMAIN js |-> dead[c] * crosses[c]]
        intersections == Total(crosses) - Total(ofDead)
        completion == 3 * Len(js) - 3 * Total(dead)
    IN  t = maxGame \/ intersections \in {completion, completion - 1}

\* A game that ends goes past its last turn.
After(t, over) == IF over THEN t + maxGame ELSE t

PathsChecker(clear, twice) == pen.from # Outside /\ pen.at # Outside /\ clear /\ twice

\* Mutant of CirclesChecker: does not count the lines of a circle.
MutCirclesChecker(js, apart, alone) == apart /\ alone

CirclesChecker(js, apart, alone) == apart /\ alone /\ \A c \in DOMAIN js : js[c] <= 3
Coloured(js, cols) == [c \in DOMAIN cols |-> IF js[c] = 3 THEN "green" ELSE cols[c]]

\* A path from one circle to another, or to the same, and the circle that
\* it makes, which it crosses twice.
Joined(from, to) ==
    Append([c \in Circles |-> joins[c] + Times(<<from, to>>, c)], 2)
-----------------------------------------------------------------------------
Init ==
    /\ joins = [i \in 1 .. nodes |-> 0] /\ colour = [i \in 1 .. nodes |-> "brown"]
    /\ workcircles = [i \in 1 .. nodes |-> i]
    /\ deadNodes = [i \in 1 .. nodes |-> 0] /\ turn = 0 /\ pen = NoPen

OnMouseDown(c) ==
    /\ ~Over /\ ~pen.down
    /\ pen' = [NoPen EXCEPT !.from = c, !.at = c, !.down = TRUE]
    /\ UNCHANGED <<joins, colour, workcircles, deadNodes, turn>>

\* The path leaves the circle it is in, or enters one.  The circle of workcircles
\* at the same place decides where the path's points go inside it, which is
\* geometry: with the wrong one there, once a move was rejected, the path may cross
\* the outlines in other ways, of which the run has all up to MaxCuts.
OnMouseDrag(c) ==
    /\ ~Over /\ pen.down /\ Len(pen.cuts) < MaxCuts
    /\ pen.at \in {Outside, c}
    /\ pen' = [pen EXCEPT !.at = IF @ = c THEN Outside ELSE c, !.cuts = Append(@, c)]
    /\ UNCHANGED <<joins, colour, workcircles, deadNodes, turn>>

\* simplify() redraws the path between its ends: whether the curve then
\* crosses exactly two outlines may come out either way, but a path that
\* never left its circle crosses none.
OnMouseUp(clear, twice, apart, alone) ==
    /\ ~Over /\ pen.down /\ (twice => pen.cuts # <<>>)
    /\ pen' = NoPen
    /\ IF ~PathsChecker(clear, twice) THEN UNCHANGED <<joins, colour, workcircles, deadNodes, turn>>
       ELSE LET js == Joined(pen.from, pen.at)
            IN  IF ~CirclesChecker(js, apart, alone)
                THEN /\ Len(workcircles) < Len(joins) + MaxLeftovers
                     /\ workcircles' = Append(workcircles, 0)
                     /\ UNCHANGED <<joins, colour, deadNodes, turn>>
                ELSE /\ joins' = js /\ workcircles' = Append(workcircles, Len(js))
                     /\ colour' = Coloured(js, Append(colour, "brown"))
                     /\ deadNodes' = Append(deadNodes, 0)
                     /\ turn' = After(turn + 1, GameOver(js, deadNodes', turn + 1, <<>>))

\* The space key kills the brown circle under the mouse, at whose place the
\* pen was put down while a path is being drawn.  A key pressed after the end
\* adds maxGame to the turn each time: two such ends are counted.
OnKeyDown(c) ==
    /\ turn <= 2 * maxGame
    /\ pen.down /\ ~Over => c = pen.from
    /\ LET kills == c # Outside /\ colour[c] = "brown"
       IN  /\ deadNodes' = IF kills THEN [deadNodes EXCEPT ![c] = @ + 1] ELSE deadNodes
           /\ colour' = IF kills THEN [colour EXCEPT ![c] = "black"] ELSE colour
    /\ turn' = After(turn, GameOver(joins, deadNodes', turn, pen.cuts))
    /\ UNCHANGED <<joins, workcircles, pen>>

Next ==
    \/ \E c \in Circles \cup {Outside} : OnMouseDown(c) \/ OnKeyDown(c)
    \/ \E c \in Circles : OnMouseDrag(c)
    \/ \E clear, twice, apart, alone \in BOOLEAN : OnMouseUp(clear, twice, apart, alone)

Spec == Init /\ [][Next]_vars
-----------------------------------------------------------------------------
\* The ends that a circle still has room for; a dead circle has none.
Room(c) == IF deadNodes[c] > 0 THEN 0 ELSE 3 - joins[c]
Lives == Total([c \in Circles |-> Room(c)])

\* As long as no move was rejected, the invisible circle at a circle's place is the
\* one that was made for it (sprouts.js:76); a rejected one is left over (:354).
Centred ==
    /\ Len(workcircles) >= Len(joins)
    /\ Len(workcircles) = Len(joins) => \A c \in Circles : workcircles[c] = c

\* Every variable keeps its type, every circle has at most three lines and is
\* green when it has three, each accepted line has used up one of the ends there
\* were, and no circle is dead twice, whatever was drawn, rejected and marked in
\* between (onMouseUp, sprouts.js:338-375).  A game lasts 3n - 1 lines at most:
\* it is over with the last one there can be (maxGame, sprouts.js:117).  Until a
\* move is rejected every circle is paired with its own invisible one.
BoardLegal ==
    /\ TypeOK
    /\ \A c \in Circles : joins[c] <= 3 /\ deadNodes[c] <= 1
    /\ Total([c \in Circles |-> 3 - joins[c]]) = 3 * nodes - Lines
    /\ \A c \in Circles : colour[c] = "green" <=> joins[c] = 3
    /\ Lines <= maxGame /\ (Lines = maxGame => Over)
    /\ Centred

\* An accepted line, and a circle marked while nothing is being drawn, end
\* the game exactly when fewer than two ends are left for the next line
\* (gameoverChecker, sprouts.js:290-308).
EndsWhenStuck ==
    [][~Over /\ ~pen'.down /\ deadNodes' # deadNodes
        => (Over' <=> Lives' < 2)]_vars
=============================================================================
