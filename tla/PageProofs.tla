----------------------------- MODULE PageProofs ------------------------------
(***************************************************************************)
(* TimersMatch and EnterVisitsNext hold for every set of slides and words, *)
(* every place a word is found at and any number of waiting timers.        *)
(* SectionsCover holds for every markdown text, StartAfterScripts and      *)
(* PagesComplete for every list of scripts that is as the assumptions of   *)
(* Loader ask.                                                             *)
(***************************************************************************)
EXTENDS Page, SequenceTheorems, WellFoundedInduction, FiniteSetTheorems, TLAPS

\* The place in the list of matches is behind the one shown last.
Placed == /\ currentMatchedIndex \in Nat
          /\ matchedSlides # <<>> => currentMatchedIndex <= Len(matchedSlides)

IInv == TimersMatch /\ Placed
-----------------------------------------------------------------------------
\* The page starts with every widget at rest.
LEMMA PageStart == Init /\ PageInit => IInv
<1> SUFFICES ASSUME Init, PageInit PROVE IInv
  OBVIOUS
<1>1. slide \in Shown
  BY PageAssumption DEF PageInit, Min
<1>2. matchedSlides = <<>> /\ <<>> \in Seq(Shown)
  BY DEF PageInit
<1>3. 0 \in 0 .. MaxFrames
  BY PageAssumption
<1>4. WidgetsOK
  BY <1>1, <1>2, <1>3 DEF PageInit, WidgetsOK
<1>5. Placed
  BY <1>2 DEF PageInit, Placed
<1> QED
  BY <1>4, <1>5 DEF PageInit, IInv, TimersMatch
-----------------------------------------------------------------------------
(***************************************************************************)
(* The steps of each widget.                                               *)
(***************************************************************************)
\* The scripts of the page and the widgets have nothing in common.
LEMMA Elsewhere == IInv /\ UNCHANGED pageVars => IInv'
  BY DEF IInv, TimersMatch, WidgetsOK, Placed, pageVars, overlayVars, playerVars, searchVars,
         zoomVars

\* Opening and closing keeps a timer on its way to an overlay that is not visible.
LEMMA OverlaySteps == IInv /\ Overlays => IInv'
<1> SUFFICES ASSUME IInv, Overlays PROVE IInv'
  OBVIOUS
<1>1. /\ overlay \in {"none", "preview", "help"} /\ overlayTimers \in 0 .. MaxFrames
      /\ (overlay # "none" /\ overlayTimers = 0 => visible) /\ (visible => overlay # "none")
      /\ MaxFrames \in Nat
  BY PageAssumption DEF IInv, TimersMatch, WidgetsOK
<1>2. UNCHANGED <<slide, playerVars, searchVars, zoomVars>>
  BY DEF Overlays, LinkClick, ToggleHelp, CloseClick, OverlayTimer, EscapeDown, OnlyOverlay
<1>3. ASSUME NEW kind \in {"preview", "help"}, Open(kind)
      PROVE  /\ overlay' \in {"none", "preview", "help"} /\ overlayTimers' \in 0 .. MaxFrames
             /\ (overlay' # "none" /\ overlayTimers' = 0 => visible')
             /\ (visible' => overlay' # "none")
  BY <1>1, <1>3 DEF Open
<1>4. ASSUME CloseOverlay \/ UNCHANGED overlayVars
      PROVE  /\ overlay' \in {"none", "preview", "help"} /\ overlayTimers' \in 0 .. MaxFrames
             /\ (overlay' # "none" /\ overlayTimers' = 0 => visible')
             /\ (visible' => overlay' # "none")
  BY <1>1, <1>4 DEF CloseOverlay, overlayVars
<1>5. ASSUME OverlayTimer
      PROVE  /\ overlay' \in {"none", "preview", "help"} /\ overlayTimers' \in 0 .. MaxFrames
             /\ (overlay' # "none" /\ overlayTimers' = 0 => visible')
             /\ (visible' => overlay' # "none")
  <2>1. visible' = (overlay # "none") /\ overlay' = overlay
    BY <1>5 DEF OverlayTimer
  <2>2. overlayTimers' \in 0 .. MaxFrames
    BY <1>1, <1>5 DEF OverlayTimer
  <2> QED
    BY <1>1, <2>1, <2>2
<1>6. \/ \E kind \in {"preview", "help"} : Open(kind)
      \/ CloseOverlay \/ UNCHANGED overlayVars \/ OverlayTimer
  BY DEF Overlays, LinkClick, ToggleHelp, CloseClick, EscapeDown
<1>7. /\ overlay' \in {"none", "preview", "help"} /\ overlayTimers' \in 0 .. MaxFrames
      /\ (overlay' # "none" /\ overlayTimers' = 0 => visible') /\ (visible' => overlay' # "none")
  BY <1>3, <1>4, <1>5, <1>6
<1> QED
  BY <1>2, <1>7 DEF IInv, TimersMatch, WidgetsOK, Placed, playerVars, searchVars, zoomVars

\* A player that plays has asked for a frame, or asks for one in the step.
LEMMA PlayerSteps == IInv /\ Player => IInv'
<1> SUFFICES ASSUME IInv, Player PROVE IInv'
  OBVIOUS
<1>1. /\ frames \in 0 .. MaxFrames /\ oldFrames \in 0 .. MaxFrames /\ MaxFrames \in Nat
      /\ (playing => frames > 0)
  BY PageAssumption DEF IInv, TimersMatch, WidgetsOK
<1>2. UNCHANGED <<slide, overlayVars, searchVars, zoomVars>>
  BY DEF Player, Frame, OldFrame, SetPlaying, NewPlayer, OnlyPlayer
<1>3. /\ frames' \in 0 .. MaxFrames /\ oldFrames' \in 0 .. MaxFrames
      /\ (playing' => frames' > 0)
  <2>1. CASE Frame
    BY <1>1, <2>1 DEF Frame, Animate
  <2>2. CASE OldFrame
    BY <1>1, <2>2 DEF OldFrame
  <2>3. ASSUME NEW value \in BOOLEAN, SetPlaying(value)
        PROVE  /\ frames' \in 0 .. MaxFrames /\ oldFrames' \in 0 .. MaxFrames
               /\ (playing' => frames' > 0)
    BY <1>1, <2>3 DEF SetPlaying, Animate
  <2>4. ASSUME NEW value \in BOOLEAN, NewPlayer(value)
        PROVE  /\ frames' \in 0 .. MaxFrames /\ oldFrames' \in 0 .. MaxFrames
               /\ (playing' => frames' > 0)
    BY <1>1, <2>4 DEF NewPlayer
  <2> QED
    BY <2>1, <2>2, <2>3, <2>4 DEF Player
<1> QED
  BY <1>2, <1>3 DEF IInv, TimersMatch, WidgetsOK, Placed, overlayVars, searchVars, zoomVars

\* Panning starts with a zoom and ends with it.
LEMMA ZoomSteps == IInv /\ Zoom => IInv'
<1> SUFFICES ASSUME IInv, Zoom PROVE IInv'
  OBVIOUS
<1>1. /\ level \in {1, 2} /\ pan \in {"off", "waiting", "on"} /\ (pan # "off" => level # 1)
  BY DEF IInv, TimersMatch, WidgetsOK
<1>2. UNCHANGED <<slide, overlayVars, playerVars, searchVars>>
  BY DEF Zoom, ZoomClick, ZoomTo, EngagePan, EscapeUp, OnlyZoom
<1>3. level' \in {1, 2} /\ pan' \in {"off", "waiting", "on"} /\ (pan' # "off" => level' # 1)
  BY <1>1 DEF Zoom, ZoomClick, ZoomTo, EngagePan, EscapeUp, To, Out, zoomVars
<1> QED
  BY <1>2, <1>3 DEF IInv, TimersMatch, WidgetsOK, Placed, overlayVars, playerVars, searchVars

\* A search puts the place behind the match it shows.
LEMMA SearchSteps == IInv /\ Search => IInv'
<1> SUFFICES ASSUME IInv, Search PROVE IInv'
  OBVIOUS
<1>1. /\ slide \in Shown /\ box \in Words \cup {Blank} /\ matchedSlides \in Seq(Shown)
      /\ currentMatchedIndex \in Nat
      /\ (matchedSlides # <<>> => currentMatchedIndex <= Len(matchedSlides))
  BY DEF IInv, TimersMatch, WidgetsOK, Placed
<1>2. UNCHANGED <<overlayVars, playerVars, zoomVars>>
  BY DEF Search, EnterKey, IconClick, DoSearch, CloseSearch, TypeWord, PasteWord, Navigate,
         OnlySearch
<1> DEFINE SearchOK == /\ slide' \in Shown /\ box' \in Words \cup {Blank}
                       /\ matchedSlides' \in Seq(Shown) /\ currentMatchedIndex' \in Nat
                       /\ (matchedSlides' # <<>> => currentMatchedIndex' <= Len(matchedSlides'))
<1>3. ASSUME DoSearch PROVE SearchOK
  <2> DEFINE again == searchboxDirty
             found == IF again THEN Found(box) ELSE matchedSlides
             from  == IF again /\ box # Blank THEN 0 ELSE currentMatchedIndex
             at    == Wrapped(found, from)
  <2>1. /\ matchedSlides' = found /\ box' = box
        /\ IF found = <<>> THEN currentMatchedIndex' = from /\ UNCHANGED slide
           ELSE currentMatchedIndex' = at + 1 /\ slide' = found[at + 1]
    BY <1>3 DEF DoSearch
  <2>2. Found(box) \in Seq(Shown)
    <3>1. <<>> \in Seq(Shown)
      OBVIOUS
    <3>2. box # Blank => Matches[box] \in Seq(Shown)
      BY <1>1, PageAssumption
    <3> QED
      BY <3>1, <3>2 DEF Found
  <2>3. found \in Seq(Shown)
    BY <1>1, <2>2
  <2>4. from \in Nat
    BY <1>1
  <2> HIDE DEF found, from
  <2>5. CASE found = <<>>
    BY <1>1, <2>1, <2>4, <2>5, <2>3
  <2>6. CASE found # <<>>
    <3>1. Len(found) \in Nat /\ Len(found) > 0
      BY <2>3, <2>6
    <3>2. at \in Nat /\ at + 1 \in 1 .. Len(found)
      BY <2>4, <3>1 DEF Wrapped
    <3>3. found[at + 1] \in Shown
      BY <2>3, <3>2
    <3> HIDE DEF at
    <3> QED
      BY <1>1, <2>1, <2>3, <2>6, <3>1, <3>2, <3>3
  <2> QED
    BY <2>5, <2>6
<1>4. ASSUME ~DoSearch PROVE SearchOK
  <2>1. CASE CloseSearch
    BY <1>1, <2>1 DEF CloseSearch
  <2>2. ASSUME NEW w \in Words \cup {Blank}, TypeWord(w) \/ PasteWord(w) PROVE SearchOK
    BY <1>1, <2>2 DEF TypeWord, PasteWord
  <2>3. ASSUME NEW s \in Shown, Navigate(s) PROVE SearchOK
    BY <1>1, <2>3 DEF Navigate, searchVars
  <2> HIDE DEF SearchOK
  <2> QED
    BY <1>4, <2>1, <2>2, <2>3 DEF Search, EnterKey, IconClick
<1>5. SearchOK
  BY <1>3, <1>4
<1> QED
  BY <1>2, <1>5 DEF IInv, TimersMatch, WidgetsOK, Placed, overlayVars, playerVars, zoomVars

\* The widgets keep the invariant, the scripts of the page do not touch it.
LEMMA PageStep == IInv /\ [PageNext]_vars => IInv'
<1> SUFFICES ASSUME IInv, [PageNext]_vars PROVE IInv'
  OBVIOUS
<1>1. CASE UNCHANGED vars
  BY <1>1, Elsewhere DEF vars
<1>2. CASE Loading /\ UNCHANGED pageVars
  BY <1>2, Elsewhere
<1>3. CASE Using
  BY <1>3, OverlaySteps, PlayerSteps, SearchSteps, ZoomSteps DEF Using
<1> QED
  BY <1>1, <1>2, <1>3 DEF PageNext

\* The invariant holds in every reachable state.
LEMMA PageInvariant == PageSpec => []IInv
  BY PageStart, PageStep, PTL DEF PageSpec
-----------------------------------------------------------------------------
\* In every page the timers of the widgets act on what they were set for.
THEOREM TimersMatchAlways == PageSpec => []TimersMatch
<1>1. IInv => TimersMatch
  BY DEF IInv
<1> QED
  BY <1>1, PageInvariant, PTL

\* Return shows the next match of any word with any number of matches, and the
\* first one after the last.
THEOREM EnterVisitsNextAlways == PageSpec => EnterVisitsNext
<1> DEFINE A == EnterKey /\ ~searchboxDirty /\ matchedSlides # <<>> =>
                   LET n == Len(matchedSlides)
                       here == IF currentMatchedIndex = 0 THEN n ELSE currentMatchedIndex
                   IN  slide' = matchedSlides[(here % n) + 1]
<1>1. IInv => A
  <2> SUFFICES ASSUME IInv, EnterKey, ~searchboxDirty, matchedSlides # <<>>
               PROVE  LET n == Len(matchedSlides)
                          here == IF currentMatchedIndex = 0 THEN n ELSE currentMatchedIndex
                      IN  slide' = matchedSlides[(here % n) + 1]
    OBVIOUS
  <2> DEFINE n == Len(matchedSlides)
             here == IF currentMatchedIndex = 0 THEN n ELSE currentMatchedIndex
             at == Wrapped(matchedSlides, currentMatchedIndex)
  <2>1. /\ matchedSlides \in Seq(Shown) /\ currentMatchedIndex \in Nat
        /\ currentMatchedIndex <= n
    BY DEF IInv, TimersMatch, WidgetsOK, Placed
  <2>2. n \in Nat /\ n > 0
    BY <2>1
  <2>3. slide' = matchedSlides[at + 1]
    BY DEF EnterKey, DoSearch
  <2>4. here \in 1 .. n /\ at = IF n <= currentMatchedIndex THEN 0 ELSE currentMatchedIndex
    BY <2>1, <2>2 DEF Wrapped
  <2> HIDE DEF n, at
  <2>5. at = here % n
    BY <2>1, <2>2, <2>4
  <2> QED
    BY <2>3, <2>5 DEF n
<1>2. PageSpec => [][A]_vars
  BY <1>1, PageInvariant, PTL DEF PageSpec
<1> QED
  BY <1>2 DEF EnterVisitsNext
-----------------------------------------------------------------------------
(***************************************************************************)
(* Recursive functions.  What one computes is proved by way of the least   *)
(* number at which it would go wrong.                                      *)
(***************************************************************************)
\* The pairs of numbers in their order.
Less == {ss \in Nat \X Nat : ss[1] < ss[2]}

\* The numbers are in a well-founded order.
LEMMA LessWellFounded == IsWellFoundedOn(Less, Nat)
BY NatLessThanWellFounded DEF OpToRel, Less

\* A set of numbers that is not empty has a least one.
LEMMA Least ==
    ASSUME NEW S, S \subseteq Nat, S # {}
    PROVE  \E x \in S : \A y \in S : x <= y
<1>1. ASSUME NEW x \in Nat, NEW y \in Nat, y < x PROVE <<y, x>> \in Less
  <2>1. <<y, x>> \in Nat \X Nat /\ <<y, x>>[1] < <<y, x>>[2]
    BY <1>1
  <2>2. QED  BY <2>1, Zenon DEF Less
<1>2. PICK x \in S : \A y \in S : <<y, x>> \notin Less
  BY LessWellFounded, WFMin
<1>3. x \in Nat /\ \A y \in S : ~(y < x)
  BY <1>1, <1>2
<1>4. QED  BY <1>3

\* What holds of 0 and, with a number, of the next one up to n, holds up to n.
LEMMA UpTo ==
    ASSUME NEW n \in Nat, NEW Good, 0 \in Good,
           \A i \in 1 .. n : i - 1 \in Good => i \in Good
    PROVE  0 .. n \subseteq Good
<1> SUFFICES ASSUME (0 .. n) \ Good # {} PROVE FALSE
  OBVIOUS
<1>1. PICK x \in (0 .. n) \ Good : \A y \in (0 .. n) \ Good : x <= y
  <2>1. (0 .. n) \ Good \subseteq Nat
    OBVIOUS
  <2>2. QED  BY <2>1, Least
<1>2. x \in 1 .. n /\ x - 1 \in 0 .. n /\ ~(x <= x - 1)
  BY <1>1
<1>3. QED  BY <1>1, <1>2

\* g starts with base and takes step st at each number up to n.
Repeats(g, n, base, st) == g[0] = base /\ \A i \in 1 .. n : g[i] = st[<<i, g[i - 1]>>]

\* A step that is a function on X can be repeated from any base.
LEMMA Recursion ==
    ASSUME NEW n \in Nat, NEW X, NEW base \in X, NEW st \in [(1 .. n) \X X -> X]
    PROVE  \E g \in [0 .. n -> X] : Repeats(g, n, base, st)
<1> DEFINE goes(g, k) == /\ g \in [0 .. k -> X] /\ g[0] = base
                         /\ \A i \in 1 .. k : g[i] = st[<<i, g[i - 1]>>]
           Good == {k \in 0 .. n : \E g : goes(g, k)}
<1>1. 0 \in Good
  <2>1. goes([i \in 0 .. 0 |-> base], 0)
    OBVIOUS
  <2> HIDE DEF goes
  <2>2. (\E g : goes(g, 0)) /\ 0 \in 0 .. n
    BY <2>1
  <2>3. QED  BY <2>2
<1>2. ASSUME NEW k \in 1 .. n, k - 1 \in Good PROVE k \in Good
  <2>1. PICK g : goes(g, k - 1)
    BY <1>2
  <2> DEFINE last == st[<<k, g[k - 1]>>]
             h == [i \in 0 .. k |-> IF i = k THEN last ELSE g[i]]
  <2>2. g[k - 1] \in X
    BY <2>1
  <2>3. last \in X
    BY <2>2
  <2> HIDE DEF last
  <2>4. h \in [0 .. k -> X] /\ h[0] = base
    BY <2>1, <2>3
  <2>5. ASSUME NEW i \in 1 .. k PROVE h[i] = st[<<i, h[i - 1]>>]
    <3>1. h[i - 1] = g[i - 1]
      BY <2>5
    <3>2. CASE i = k
      <4>1. h[k] = last
        OBVIOUS
      <4>2. last = st[<<k, g[k - 1]>>]
        BY DEF last
      <4>3. QED  BY <3>1, <3>2, <4>1, <4>2
    <3>3. CASE i # k
      <4>1. i \in 1 .. k - 1
        BY <2>5, <3>3
      <4>2. g[i] = st[<<i, g[i - 1]>>]
        BY <2>1, <4>1
      <4>3. h[i] = g[i]
        BY <3>3
      <4>4. QED  BY <3>1, <4>2, <4>3
    <3>4. QED  BY <3>2, <3>3
  <2> HIDE DEF h
  <2>6. goes(h, k)
    BY <2>4, <2>5
  <2> HIDE DEF goes
  <2>7. QED  BY <2>6
<1> HIDE DEF Good
<1>3. 0 .. n \subseteq Good
  BY <1>1, <1>2, UpTo
<1>4. n \in Good
  BY <1>3
<1>5. PICK g : goes(g, n)
  BY <1>4 DEF Good
<1>6. Repeats(g, n, base, st) /\ g \in [0 .. n -> X]
  BY <1>5 DEF Repeats
<1>7. QED  BY <1>6
-----------------------------------------------------------------------------
\* flatten is what its recursion says.
LEMMA FlatIs ==
    ASSUME NEW ss \in Seq(Seq(Nat)), NEW n \in Nat, n = Len(ss), n > 0
    PROVE  \E g \in [1 .. n -> Seq(Nat)] :
              /\ \A i \in 1 .. n : g[i] = IF i = 1 THEN ss[i] ELSE g[i - 1] \o ss[i]
              /\ FlattenSeq(ss) = g[n]
<1> DEFINE obeys(f) == f = [i \in 1 .. n |-> IF i = 1 THEN ss[i] ELSE f[i - 1] \o ss[i]]
           st == [ix \in (1 .. n) \X Seq(Nat) |-> ix[2] \o ss[ix[1]]]
           f == CHOOSE g : obeys(g)
<1>1. n \in Nat /\ \A i \in 1 .. n : ss[i] \in Seq(Nat)
  OBVIOUS
<1>2. st \in [(1 .. n) \X Seq(Nat) -> Seq(Nat)]
  BY <1>1, ConcatProperties
<1>3. \A i \in 1 .. n, x \in Seq(Nat) : st[<<i, x>>] = x \o ss[i]
  OBVIOUS
<1>4. <<>> \in Seq(Nat)
  OBVIOUS
<1> HIDE DEF st
<1>5. PICK g \in [0 .. n -> Seq(Nat)] : Repeats(g, n, <<>>, st)
  BY <1>2, <1>4, Recursion
<1>6. ASSUME NEW i \in 1 .. n
      PROVE  g[i] = g[i - 1] \o ss[i] /\ g[i] \in Seq(Nat) /\ g[i - 1] \in Seq(Nat)
  <2>1. i \in 0 .. n /\ i - 1 \in 0 .. n
    OBVIOUS
  <2>2. g[i] \in Seq(Nat) /\ g[i - 1] \in Seq(Nat)
    BY <1>5, <2>1
  <2>3. g[i] = st[<<i, g[i - 1]>>]
    BY <1>5 DEF Repeats
  <2>4. QED  BY <1>3, <2>2, <2>3
<1> DEFINE h == [i \in 1 .. n |-> g[i]]
<1>7. obeys(h)
  <2>1. ASSUME NEW i \in 1 .. n PROVE h[i] = IF i = 1 THEN ss[i] ELSE h[i - 1] \o ss[i]
    <3>1. CASE i = 1
      <4>4. 1 \in 1 .. n /\ 1 - 1 = 0
        BY <3>1
      <4>1. g[1] = g[1 - 1] \o ss[1]
        BY <1>6, <4>4
      <4>2. <<>> \o ss[1] = ss[1]
        BY <1>1, <3>1, ConcatEmptySeq
      <4>3. QED  BY <1>5, <3>1, <4>1, <4>2, <4>4 DEF Repeats
    <3>2. CASE i # 1
      <4>1. i - 1 \in 1 .. n
        BY <3>2
      <4>2. QED  BY <1>6, <3>2, <4>1
    <3>3. QED  BY <3>1, <3>2
  <2>2. QED  BY <2>1
<1>8. FlattenSeq(ss) = f[n]
  <2>1. FlattenSeq(ss) = (CHOOSE z : z = [i \in 1 .. Len(ss) |-> IF i = 1 THEN ss[i]
                                                       ELSE z[i - 1] \o ss[i]])[Len(ss)]
    BY DEF FlattenSeq
  <2>2. QED  BY <2>1
<1> HIDE DEF h
<1>9. obeys(f)
  <2> HIDE DEF obeys
  <2>1. QED  BY <1>7
<1> HIDE DEF f
<1>10. \A i \in 1 .. n : f[i] = IF i = 1 THEN ss[i] ELSE f[i - 1] \o ss[i]
  BY <1>9
<1>11. ASSUME NEW i \in 1 .. n PROVE f[i] \in Seq(Nat)
  <2> DEFINE Good == {k \in 0 .. n : k = 0 \/ f[k] \in Seq(Nat)}
  <2>1. 0 \in Good
    OBVIOUS
  <2>2. ASSUME NEW k \in 1 .. n, k - 1 \in Good PROVE k \in Good
    <3>1. CASE k = 1
      BY <1>1, <1>10, <3>1
    <3>2. CASE k # 1
      <4>1. f[k - 1] \in Seq(Nat) /\ ss[k] \in Seq(Nat)
        BY <1>1, <2>2, <3>2
      <4>2. f[k] = f[k - 1] \o ss[k]
        BY <1>10, <3>2
      <4>3. f[k - 1] \o ss[k] \in Seq(Nat)
        BY <4>1, ConcatProperties
      <4>4. k \in 0 .. n
        OBVIOUS
      <4>5. QED  BY <4>2, <4>3, <4>4
    <3>3. QED  BY <3>1, <3>2
  <2> HIDE DEF Good
  <2>3. 0 .. n \subseteq Good
    BY <1>1, <2>1, <2>2, UpTo
  <2>4. i \in Good /\ i # 0
    BY <2>3
  <2>5. QED  BY <2>4 DEF Good
<1>12. f \in [1 .. n -> Seq(Nat)]
  BY <1>9, <1>11
<1>13. QED  BY <1>8, <1>10, <1>12

\* Flattening takes one sequence after the other.
LEMMA FlatStep ==
    ASSUME NEW ss \in Seq(Seq(Nat)), NEW tt \in Seq(Seq(Nat)), Len(ss) = Len(tt) + 1,
           \A i \in 1 .. Len(tt) : tt[i] = ss[i]
    PROVE  /\ FlattenSeq(ss) = FlattenSeq(tt) \o ss[Len(ss)]
           /\ FlattenSeq(tt) \in Seq(Nat)
<1>1. PICK n \in Nat : n = Len(tt)
  OBVIOUS
<1>2. n + 1 \in Nat /\ n + 1 = Len(ss) /\ n + 1 > 0 /\ ss[n + 1] \in Seq(Nat)
      /\ \A i \in 1 .. n : tt[i] = ss[i]
  BY <1>1
<1>3. PICK g \in [1 .. n + 1 -> Seq(Nat)] :
         /\ \A i \in 1 .. n + 1 : g[i] = IF i = 1 THEN ss[i] ELSE g[i - 1] \o ss[i]
         /\ FlattenSeq(ss) = g[n + 1]
  BY <1>2, FlatIs
<1>4. CASE n = 0
  <2>1. Len(tt) = 0 /\ tt = <<>>
    BY <1>1, <1>4, EmptySeq
  <2>5. FlattenSeq(tt) = <<>>
    BY <2>1 DEF FlattenSeq
  <2>2. FlattenSeq(ss) = ss[1]
    BY <1>3, <1>4
  <2>3. <<>> \o ss[1] = ss[1] /\ <<>> \in Seq(Nat)
    BY <1>2, <1>4, ConcatEmptySeq
  <2>4. QED  BY <1>2, <1>4, <2>5, <2>2, <2>3
<1>5. CASE n # 0
  <2>1. PICK h \in [1 .. n -> Seq(Nat)] :
           /\ \A i \in 1 .. n : h[i] = IF i = 1 THEN tt[i] ELSE h[i - 1] \o tt[i]
           /\ FlattenSeq(tt) = h[n]
    <3>1. n > 0
      BY <1>5
    <3>2. QED  BY <1>1, <3>1, FlatIs
  <2> DEFINE Good == {k \in 0 .. n : k = 0 \/ g[k] = h[k]}
  <2>2. 0 \in Good
    OBVIOUS
  <2>3. ASSUME NEW k \in 1 .. n, k - 1 \in Good PROVE k \in Good
    <3>1. k \in 1 .. n + 1 /\ tt[k] = ss[k]
      BY <1>2
    <3>2. g[k] = (IF k = 1 THEN ss[k] ELSE g[k - 1] \o ss[k])
          /\ h[k] = (IF k = 1 THEN ss[k] ELSE h[k - 1] \o ss[k])
      BY <1>3, <2>1, <3>1
    <3>3. k # 1 => g[k - 1] = h[k - 1]
      BY <2>3
    <3>4. g[k] = h[k]
      BY <3>2, <3>3
    <3>5. QED  BY <3>4
  <2> HIDE DEF Good
  <2>4. 0 .. n \subseteq Good
    BY <2>2, <2>3, UpTo
  <2>5. n \in Good
    BY <2>4
  <2>6. g[n] = h[n]
    BY <1>5, <2>5 DEF Good
  <2>7. g[n + 1] = g[n] \o ss[n + 1]
    <3>1. n + 1 \in 1 .. n + 1 /\ n + 1 # 1 /\ (n + 1) - 1 = n
      BY <1>5
    <3>2. g[n + 1] = IF n + 1 = 1 THEN ss[n + 1] ELSE g[(n + 1) - 1] \o ss[n + 1]
      BY ONLY <1>3, <3>1
    <3>3. QED  BY <3>1, <3>2
  <2>8. h[n] \in Seq(Nat)
    BY <1>5, <2>1
  <2>9. QED  BY <1>2, <1>3, <2>1, <2>6, <2>7, <2>8
<1>6. QED  BY <1>4, <1>5
-----------------------------------------------------------------------------
(***************************************************************************)
(* The scripts.                                                            *)
(***************************************************************************)
\* The scripts of q are in the order of config.dependencies.
InOrder(q) == \A k, l \in 1 .. Len(q) : k < l => Precedes(q[k], q[l])

\* Nothing precedes itself, nor what it comes after.
LEMMA OneWay == \A s, t : ~Precedes(s, s) /\ (Precedes(s, t) => ~Precedes(t, s))
<1>1. Dependencies \in Seq(Scripts) /\ IsInjective(Dependencies)
  BY LoaderAssumption
<1>2. \A a, b \in 1 .. Len(Dependencies) : Dependencies[a] = Dependencies[b] => a = b
  BY <1>1 DEF IsInjective
<1>3. QED  BY <1>1, <1>2 DEF Precedes

\* q is what the loop has pushed after i dependencies.
Pushing(q, i, set) ==
    /\ q \in Seq(Scripts) /\ InOrder(q)
    /\ \A k \in 1 .. Len(q) : \E j \in 1 .. i : q[k] = Dependencies[j] /\ Dependencies[j] \in set
    /\ \A j \in 1 .. i : Dependencies[j] \in set => \E k \in 1 .. Len(q) : q[k] = Dependencies[j]

\* The loop pushes what is in set, in order.
LEMMA PushedIs ==
    ASSUME NEW set, set \subseteq Scripts
    PROVE  /\ Pushed(set) \in Seq(Scripts) /\ InOrder(Pushed(set))
           /\ Range(Pushed(set)) = set
<1> DEFINE D == Dependencies
           take(q, i) == IF D[i] \in set THEN Append(q, D[i]) ELSE q
           obeys(f) == f = [i \in 0 .. Len(Dependencies) |->
                               IF i = 0 THEN <<>> ELSE IF Dependencies[i] \in set
                               THEN Append(f[i - 1], Dependencies[i]) ELSE f[i - 1]]
           f == CHOOSE g : obeys(g)
<1>1. D \in Seq(Scripts) /\ Scripts = {D[i] : i \in 1 .. Len(D)}
  <2>1. D \in Seq(Scripts)
    BY LoaderAssumption
  <2>2. DOMAIN D = 1 .. Len(D)
    BY <2>1
  <2>3. QED  BY <2>1, <2>2 DEF Scripts, Range
<1>2. PICK n \in Nat : n = Len(D)
  BY <1>1
<1>3. \A i \in 1 .. n : D[i] \in Scripts
  BY <1>1, <1>2
<1> DEFINE st == [iq \in (1 .. n) \X Seq(Scripts) |-> take(iq[2], iq[1])]
<1>4. st \in [(1 .. n) \X Seq(Scripts) -> Seq(Scripts)]
      /\ \A i \in 1 .. n, q \in Seq(Scripts) : st[<<i, q>>] = take(q, i)
  BY <1>3
<1>5. <<>> \in Seq(Scripts)
  OBVIOUS
<1> HIDE DEF st, take
<1>6. PICK g \in [0 .. n -> Seq(Scripts)] : Repeats(g, n, <<>>, st)
  BY <1>4, <1>5, Recursion
<1>7. ASSUME NEW i \in 0 .. n
      PROVE  g[i] = (IF i = 0 THEN <<>> ELSE take(g[i - 1], i)) /\ g[i] \in Seq(Scripts)
  <2>1. i # 0 => i \in 1 .. n /\ i - 1 \in 0 .. n
    OBVIOUS
  <2>2. i # 0 => g[i] = st[<<i, g[i - 1]>>] /\ g[i - 1] \in Seq(Scripts)
    BY <1>6, <2>1 DEF Repeats
  <2>3. QED  BY <1>4, <1>6, <2>1, <2>2 DEF Repeats
<1>8. obeys(g)
  <2>1. \A i \in 0 .. n : g[i] = IF i = 0 THEN <<>> ELSE take(g[i - 1], i)
    BY <1>7
  <2>2. QED  BY <1>2, <2>1 DEF take
<1>9. Pushed(set) = f[n]
  BY <1>2 DEF Pushed
<1>10. obeys(f)
  <2> HIDE DEF obeys
  <2>1. QED  BY <1>8
<1> HIDE DEF f
<1>11. \A i \in 0 .. n : f[i] = IF i = 0 THEN <<>> ELSE take(f[i - 1], i)
  BY <1>2, <1>10 DEF take
<1> DEFINE Good == {i \in 0 .. n : Pushing(f[i], i, set)}
<1>12. 0 \in Good
  <2>1. f[0] = <<>>
    BY <1>11
  <2>2. Pushing(<<>>, 0, set)
    BY <1>5 DEF Pushing, InOrder
  <2>3. QED  BY <2>1, <2>2
<1>13. ASSUME NEW i \in 1 .. n, i - 1 \in Good PROVE i \in Good
  <2>1. f[i] = take(f[i - 1], i) /\ Pushing(f[i - 1], i - 1, set) /\ D[i] \in Scripts
    <3>1. i \in 0 .. n /\ i # 0
      OBVIOUS
    <3>2. QED  BY <1>3, <1>11, <1>13, <3>1
  <2>2. CASE D[i] \notin set
    <3>1. f[i] = f[i - 1]
      BY <2>1, <2>2 DEF take
    <3>2. \A j \in 1 .. i : j \in 1 .. i - 1 \/ j = i
      OBVIOUS
    <3>3. Pushing(f[i - 1], i, set)
      <4>1. 1 .. i - 1 \subseteq 1 .. i
        OBVIOUS
      <4>2. \A j \in 1 .. i : D[j] \in set => j \in 1 .. i - 1
        BY <2>2, <3>2
      <4> HIDE DEF D
      <4> DEFINE q == f[i - 1]
      <4>3. Pushing(q, i - 1, set)
        BY <2>1
      <4> HIDE DEF q
      <4>4. Pushing(q, i, set)
        BY <4>1, <4>2, <4>3 DEF Pushing, D
      <4>5. QED  BY <4>4 DEF q
    <3>4. QED  BY <3>1, <3>3
  <2>3. CASE D[i] \in set
    <3> DEFINE q == f[i - 1]
               r == f[i]
    <3>1. r = Append(q, D[i]) /\ q \in Seq(Scripts)
      BY <2>1, <2>3 DEF take, Pushing
    <3>2. PICK m \in Nat : m = Len(q)
      BY <3>1
    <3>3. /\ r \in Seq(Scripts) /\ Len(r) = m + 1 /\ r[m + 1] = D[i]
          /\ \A k \in 1 .. m : r[k] = q[k]
      BY <2>1, <3>1, <3>2
    <3>4. /\ InOrder(q)
          /\ \A k \in 1 .. m : \E j \in 1 .. i - 1 : q[k] = D[j] /\ D[j] \in set
          /\ \A j \in 1 .. i - 1 : D[j] \in set => \E k \in 1 .. m : q[k] = D[j]
      BY <2>1, <3>2 DEF Pushing
    <3> HIDE DEF q, r
    <3>5. InOrder(r)
      <4>1. ASSUME NEW k \in 1 .. m + 1, NEW l \in 1 .. m + 1, k < l PROVE Precedes(r[k], r[l])
        <5>1. k \in 1 .. m /\ (l \in 1 .. m \/ l = m + 1)
          BY <4>1
        <5>2. CASE l \in 1 .. m
          BY <3>2, <3>3, <3>4, <4>1, <5>1, <5>2 DEF InOrder
        <5>3. CASE l = m + 1
          <6>1. PICK j \in 1 .. i - 1 : q[k] = D[j]
            BY <3>4, <5>1
          <6>2. j \in 1 .. n /\ i \in 1 .. n /\ j < i
            OBVIOUS
          <6>3. QED  BY <1>2, <3>3, <5>1, <5>3, <6>1, <6>2 DEF Precedes
        <5>4. QED  BY <5>1, <5>2, <5>3
      <4>2. QED  BY <3>3, <4>1 DEF InOrder
    <3>6. ASSUME NEW k \in 1 .. m + 1 PROVE \E j \in 1 .. i : r[k] = D[j] /\ D[j] \in set
      <4>1. CASE k = m + 1
        BY <2>3, <3>3, <4>1
      <4>2. CASE k # m + 1
        <5>1. k \in 1 .. m
          BY <4>2
        <5>2. PICK j \in 1 .. i - 1 : q[k] = D[j] /\ D[j] \in set
          BY <3>4, <5>1
        <5>3. QED  BY <3>3, <5>1, <5>2
      <4>3. QED  BY <4>1, <4>2
    <3>7. ASSUME NEW j \in 1 .. i, D[j] \in set PROVE \E k \in 1 .. m + 1 : r[k] = D[j]
      <4>1. CASE j = i
        BY <3>3, <4>1
      <4>2. CASE j # i
        <5>1. PICK k \in 1 .. m : q[k] = D[j]
          BY <3>4, <3>7, <4>2
        <5>2. QED  BY <3>3, <5>1
      <4>3. QED  BY <4>1, <4>2
    <3>8. Pushing(r, i, set)
      BY <3>3, <3>5, <3>6, <3>7 DEF Pushing
    <3>9. i \in 0 .. n
      OBVIOUS
    <3>10. QED  BY <3>8, <3>9 DEF r
  <2>4. QED  BY <2>2, <2>3
<1> HIDE DEF Good
<1>14. 0 .. n \subseteq Good
  BY <1>12, <1>13, UpTo
<1>15. n \in Good
  BY <1>14
<1> DEFINE q == Pushed(set)
<1>16. Pushing(q, n, set)
  BY <1>9, <1>15 DEF Good
<1> HIDE DEF q
<1>17. q \in Seq(Scripts) /\ InOrder(q)
       /\ (\A k \in 1 .. Len(q) : q[k] \in set)
       /\ \A s \in set : \E k \in 1 .. Len(q) : q[k] = s
  <2>1. \A s \in set : \E j \in 1 .. n : D[j] = s
    BY <1>1, <1>2
  <2>2. QED  BY <1>16, <2>1 DEF Pushing
<1>18. Range(q) = {q[k] : k \in 1 .. Len(q)}
  <2>1. DOMAIN q = 1 .. Len(q)
    BY <1>17
  <2>2. QED  BY <2>1 DEF Range
<1>19. Range(q) = set
  BY <1>17, <1>18
<1>20. QED  BY <1>17, <1>19 DEF q
-----------------------------------------------------------------------------
(***************************************************************************)
(* The sections of a markdown text.                                        *)
(***************************************************************************)
Section == [stack : BOOLEAN, slides : Seq(Nat)]

\* What a row of sections is made of.
LEMMA SectionParts ==
    ASSUME NEW c \in Seq(Section), NEW k \in 1 .. Len(c)
    PROVE  c[k] \in Section /\ c[k].slides \in Seq(Nat) /\ c[k].stack \in BOOLEAN
<1>1. c[k] \in Section
  BY ElementOfSeq
<1>2. QED  BY <1>1 DEF Section

\* The sequences that Pieces flattens.
LEMMA SlidesOf ==
    ASSUME NEW c \in Seq(Section)
    PROVE  /\ [k \in DOMAIN c |-> c[k].slides] \in Seq(Seq(Nat))
           /\ Len([k \in DOMAIN c |-> c[k].slides]) = Len(c)
           /\ \A k \in 1 .. Len(c) : [j \in DOMAIN c |-> c[j].slides][k] = c[k].slides
<1>1. DOMAIN c = 1 .. Len(c) /\ Len(c) \in Nat
  OBVIOUS
<1>2. \A k \in 1 .. Len(c) : c[k].slides \in Seq(Nat)
  BY SectionParts
<1>3. QED  BY <1>1, <1>2

\* A section that is added comes after the pieces of the others.
LEMMA PiecesAppend ==
    ASSUME NEW c \in Seq(Section), NEW s \in Section
    PROVE  /\ Append(c, s) \in Seq(Section) /\ Len(Append(c, s)) = Len(c) + 1
           /\ Append(c, s)[Len(c) + 1] = s /\ \A k \in 1 .. Len(c) : Append(c, s)[k] = c[k]
           /\ Pieces(c) \in Seq(Nat) /\ Pieces(Append(c, s)) = Pieces(c) \o s.slides
<1> DEFINE e == Append(c, s)
           tt == [k \in DOMAIN c |-> c[k].slides]
           ss == [k \in DOMAIN e |-> e[k].slides]
<1>1. PICK n \in Nat : n = Len(c)
  OBVIOUS
<1>2. /\ e \in Seq(Section) /\ Len(e) = n + 1 /\ e[n + 1] = s
      /\ \A k \in 1 .. n : e[k] = c[k]
  BY <1>1
<1>3. tt \in Seq(Seq(Nat)) /\ Len(tt) = n /\ \A k \in 1 .. n : tt[k] = c[k].slides
  BY <1>1, SlidesOf
<1>4. ss \in Seq(Seq(Nat)) /\ Len(ss) = n + 1 /\ \A k \in 1 .. n + 1 : ss[k] = e[k].slides
  BY <1>2, SlidesOf
<1> HIDE DEF e
<1>5. Pieces(c) = FlattenSeq(tt) /\ Pieces(e) = FlattenSeq(ss)
  BY DEF Pieces
<1> HIDE DEF tt, ss
<1>6. ASSUME NEW k \in 1 .. n PROVE tt[k] = ss[k]
  <2>1. k \in 1 .. n + 1
    OBVIOUS
  <2>2. tt[k] = c[k].slides /\ ss[k] = e[k].slides /\ e[k] = c[k]
    BY <1>2, <1>3, <1>4, <2>1
  <2>3. QED  BY <2>2
<1>7. ss[n + 1] = s.slides
  BY <1>2, <1>4
<1>8. FlattenSeq(ss) = FlattenSeq(tt) \o ss[n + 1] /\ FlattenSeq(tt) \in Seq(Nat)
  BY <1>3, <1>4, <1>6, FlatStep
<1>9. QED  BY <1>1, <1>2, <1>5, <1>7, <1>8 DEF e

\* A piece that is added to the last section comes after all the others.
LEMMA PiecesJoin ==
    ASSUME NEW c \in Seq(Section), Len(c) > 0, NEW i \in Nat
    PROVE  /\ ToStack(c, i) \in Seq(Section) /\ Len(ToStack(c, i)) = Len(c)
           /\ \A k \in 1 .. Len(c) : k # Len(c) => ToStack(c, i)[k] = c[k]
           /\ ToStack(c, i)[Len(c)].slides = Append(c[Len(c)].slides, i)
           /\ ToStack(c, i)[Len(c)].stack = c[Len(c)].stack
           /\ Pieces(ToStack(c, i)) = Append(Pieces(c), i) /\ Pieces(c) \in Seq(Nat)
<1>1. PICK n \in Nat : n + 1 = Len(c)
  <2>1. Len(c) - 1 \in Nat /\ (Len(c) - 1) + 1 = Len(c)
    OBVIOUS
  <2>2. QED  BY <2>1
<1> DEFINE s == c[n + 1]
           z == [s EXCEPT !.slides = Append(@, i)]
           e == ToStack(c, i)
           front == [k \in 1 .. n |-> c[k].slides]
           tt == [k \in DOMAIN c |-> c[k].slides]
           ss == [k \in DOMAIN e |-> e[k].slides]
<1>2. s \in Section /\ s.slides \in Seq(Nat)
  <2>1. n + 1 \in 1 .. Len(c)
    BY <1>1
  <2>2. QED  BY <2>1, SectionParts
<1>4. e = [c EXCEPT ![n + 1] = z]
  <2>1. e = [c EXCEPT ![Len(c)] = [c[Len(c)] EXCEPT !.slides = Append(c[Len(c)].slides, i)]]
    BY DEF ToStack
  <2>2. z = [c[n + 1] EXCEPT !.slides = Append(c[n + 1].slides, i)]
    OBVIOUS
  <2> HIDE DEF e, z
  <2>3. QED  BY <1>1, <2>1, <2>2
<1> HIDE DEF s
<1>3. z \in Section /\ z.slides = Append(s.slides, i) /\ z.stack = s.stack
  <2>1. Append(s.slides, i) \in Seq(Nat)
    BY <1>2
  <2>2. DOMAIN s = {"stack", "slides"}
    BY <1>2 DEF Section
  <2>3. z.slides = Append(s.slides, i) /\ z.stack = s.stack
    BY <2>2
  <2>4. QED  BY <1>2, <2>1, <2>3 DEF Section
<1> HIDE DEF e, z
<1>5. /\ e \in Seq(Section) /\ Len(e) = n + 1 /\ e[n + 1] = z
      /\ \A k \in 1 .. n : e[k] = c[k]
  <2>1. n + 1 \in 1 .. Len(c)
    BY <1>1
  <2>2. e \in Seq(Section) /\ Len(e) = Len(c)
        /\ \A j \in 1 .. Len(c) : e[j] = IF j = n + 1 THEN z ELSE c[j]
    BY <1>3, <1>4, <2>1, ExceptSeq
  <2>3. QED  BY <1>1, <2>1, <2>2
<1>6. front \in Seq(Seq(Nat)) /\ Len(front) = n /\ \A k \in 1 .. n : front[k] = c[k].slides
  <2>1. \A k \in 1 .. n : k \in 1 .. Len(c)
    BY <1>1
  <2>2. \A k \in 1 .. n : c[k].slides \in Seq(Nat)
    BY <2>1, SectionParts
  <2>3. QED  BY <2>2
<1>7. tt \in Seq(Seq(Nat)) /\ Len(tt) = n + 1 /\ \A k \in 1 .. n + 1 : tt[k] = c[k].slides
  BY <1>1, SlidesOf
<1>8. ss \in Seq(Seq(Nat)) /\ Len(ss) = n + 1 /\ \A k \in 1 .. n + 1 : ss[k] = e[k].slides
  BY <1>5, SlidesOf
<1>9. Pieces(c) = FlattenSeq(tt) /\ Pieces(e) = FlattenSeq(ss)
  BY DEF Pieces
<1> HIDE DEF front, tt, ss
<1>10. ASSUME NEW k \in 1 .. n PROVE front[k] = tt[k] /\ front[k] = ss[k]
  <2>1. k \in 1 .. n + 1
    OBVIOUS
  <2>2. front[k] = c[k].slides /\ tt[k] = c[k].slides /\ ss[k] = e[k].slides /\ e[k] = c[k]
    BY <1>5, <1>6, <1>7, <1>8, <2>1
  <2>3. QED  BY <2>2
<1>11. tt[n + 1] = s.slides /\ ss[n + 1] = Append(s.slides, i)
  <2>1. n + 1 \in 1 .. n + 1
    OBVIOUS
  <2>2. tt[n + 1] = c[n + 1].slides /\ ss[n + 1] = e[n + 1].slides
    BY <1>7, <1>8, <2>1
  <2>3. QED  BY <1>3, <1>5, <2>2 DEF s
<1>12. /\ FlattenSeq(tt) = FlattenSeq(front) \o s.slides
       /\ FlattenSeq(ss) = FlattenSeq(front) \o Append(s.slides, i)
       /\ FlattenSeq(front) \in Seq(Nat)
  <2>1. FlattenSeq(tt) = FlattenSeq(front) \o tt[n + 1] /\ FlattenSeq(front) \in Seq(Nat)
    BY <1>6, <1>7, <1>10, FlatStep
  <2>2. FlattenSeq(ss) = FlattenSeq(front) \o ss[n + 1]
    BY <1>6, <1>8, <1>10, FlatStep
  <2>3. QED  BY <1>11, <2>1, <2>2
<1>13. Pieces(e) = Append(Pieces(c), i) /\ Pieces(c) \in Seq(Nat)
  <2> DEFINE a == FlattenSeq(front)
             b == s.slides
  <2>1. a \in Seq(Nat) /\ b \in Seq(Nat)
    BY <1>2, <1>12
  <2>2. Pieces(c) = a \o b /\ Pieces(e) = a \o Append(b, i)
    BY <1>9, <1>12
  <2> HIDE DEF a, b
  <2>3. a \o Append(b, i) = Append(a \o b, i) /\ a \o b \in Seq(Nat)
    <3>1. /\ a \o b \in Seq(Nat) /\ Append(b, i) \in Seq(Nat) /\ Append(a \o b, i) \in Seq(Nat)
          /\ a \o Append(b, i) \in Seq(Nat)
      BY <2>1
    <3>2. QED  BY <2>1, <3>1
  <2>4. QED  BY <2>2, <2>3
<1>14. QED
  <2>1. \A k \in 1 .. n + 1 : k # n + 1 => e[k] = c[k]
    BY <1>5
  <2>2. e \in Seq(Section) /\ Len(e) = n + 1 /\ e[n + 1].slides = Append(s.slides, i)
        /\ e[n + 1].stack = s.stack
    BY <1>3, <1>5
  <2>3. QED  BY <1>1, <1>13, <2>1, <2>2 DEF e, s

\* Piece x is on a slide of section k.
In(c, k, x) == \E l \in 1 .. Len(c[k].slides) : c[k].slides[l] = x

\* The sections that pieces 1 to i make, of which the last is open when a
\* vertical separator follows.
Made(seps, c, i) ==
    /\ c \in Seq(Section) /\ Pieces(c) = [j \in 1 .. i |-> j]
    /\ \A k \in 1 .. Len(c) : Len(c[k].slides) > 0 /\ \A x : In(c, k, x) => x \in 1 .. i
    /\ i > 0 => Len(c) > 0 /\ In(c, Len(c), i)
    /\ \A j \in 1 .. i - 1 :
          seps[j] = "v" <=> \E k \in 1 .. Len(c) : In(c, k, j) /\ In(c, k, j + 1)
    /\ \A k \in 1 .. Len(c) : k < Len(c) \/ i = 0 \/ seps[i] = "h"
          => (c[k].stack <=> Len(c[k].slides) > 1)
    /\ i > 0 /\ seps[i] = "v" => c[Len(c)].stack

\* Before the first piece there is no section.
LEMMA MadeNone == \A seps : Made(seps, <<>>, 0)
<1>1. <<>> \in Seq(Section) /\ Len(<<>>) = 0
  OBVIOUS
<1>2. Pieces(<<>>) = [j \in 1 .. 0 |-> j]
  <2>1. [k \in DOMAIN <<>> |-> <<>>[k].slides] = <<>>
    BY <1>1, SlidesOf, EmptySeq
  <2>2. FlattenSeq(<<>>) = <<>>
    BY DEF FlattenSeq
  <2>3. <<>> = [j \in 1 .. 0 |-> j]
    OBVIOUS
  <2>4. QED  BY <2>1, <2>2, <2>3 DEF Pieces
<1>3. QED  BY <1>1, <1>2 DEF Made

\* The numbers up to i, and then i + 1.
LEMMA Counting ==
    ASSUME NEW i \in Nat
    PROVE  /\ Append([j \in 1 .. i |-> j], i + 1) = [j \in 1 .. i + 1 |-> j]
           /\ [j \in 1 .. i |-> j] \o <<i + 1>> = [j \in 1 .. i + 1 |-> j]
<1> DEFINE s == [j \in 1 .. i |-> j]
           t == [j \in 1 .. i + 1 |-> j]
<1>1. s \in Seq(Nat) /\ t \in Seq(Nat) /\ Len(s) = i /\ Len(t) = i + 1
  OBVIOUS
<1>2. Append(s, i + 1) \in Seq(Nat) /\ Len(Append(s, i + 1)) = i + 1
      /\ \A j \in 1 .. i + 1 : Append(s, i + 1)[j] = t[j]
  BY <1>1
<1>3. Append(s, i + 1) = t
  BY <1>1, <1>2, SeqEqual
<1>4. s \o <<i + 1>> = Append(s, i + 1)
  BY <1>1, AppendIsConcat
<1>5. QED  BY <1>3, <1>4

\* A piece that follows a horizontal separator, or none, begins a section.
LEMMA Begins ==
    ASSUME NEW n \in Nat, NEW seps \in [1 .. n -> {"h", "v"}], NEW c, NEW i \in Nat,
           i + 1 \in 1 .. n, Made(seps, c, i), i = 0 \/ seps[i] = "h",
           NEW b \in BOOLEAN, b <=> seps[i + 1] = "v"
    PROVE  Made(seps, Append(c, [stack |-> b, slides |-> <<i + 1>>]), i + 1)
<1> DEFINE s == [stack |-> b, slides |-> <<i + 1>>]
           e == Append(c, s)
<1>1. s \in Section /\ Len(s.slides) = 1 /\ s.slides[1] = i + 1 /\ s.stack = b /\ i \in Nat
      /\ s.slides = <<i + 1>>
  BY DEF Section
<1> HIDE DEF s
<1>2. c \in Seq(Section) /\ Pieces(c) = [j \in 1 .. i |-> j]
  BY DEF Made
<1>3. PICK m \in Nat : m = Len(c)
  BY <1>2
<1>4. /\ e \in Seq(Section) /\ Len(e) = m + 1 /\ e[m + 1] = s /\ \A k \in 1 .. m : e[k] = c[k]
      /\ Pieces(e) = [j \in 1 .. i |-> j] \o <<i + 1>>
  <2>1. /\ e \in Seq(Section) /\ Len(e) = Len(c) + 1 /\ e[Len(c) + 1] = s
        /\ (\A k \in 1 .. Len(c) : e[k] = c[k]) /\ Pieces(e) = Pieces(c) \o s.slides
    BY <1>1, <1>2, PiecesAppend
  <2> HIDE DEF e
  <2>2. QED  BY <1>1, <1>2, <1>3, <2>1
<1>5. Pieces(e) = [j \in 1 .. i + 1 |-> j]
  BY <1>1, <1>4, Counting
<1>6. /\ \A k \in 1 .. m : Len(c[k].slides) > 0 /\ \A x : In(c, k, x) => x \in 1 .. i
      /\ \A j \in 1 .. i - 1 :
            seps[j] = "v" <=> \E k \in 1 .. m : In(c, k, j) /\ In(c, k, j + 1)
      /\ \A k \in 1 .. m : c[k].stack <=> Len(c[k].slides) > 1
  BY <1>3 DEF Made
<1> HIDE DEF e
<1>7. \A k \in 1 .. m : \A x : In(e, k, x) <=> In(c, k, x)
  BY <1>4 DEF In
<1>16. Len(e[m + 1].slides) = 1 /\ e[m + 1].slides[1] = i + 1 /\ e[m + 1].stack = b
  <2>1. e[m + 1] = s
    BY <1>4
  <2>2. QED  BY <1>1, <2>1
<1>8. ASSUME NEW x PROVE In(e, m + 1, x) <=> x = i + 1
  <2>1. In(e, m + 1, x) <=> \E l \in 1 .. 1 : e[m + 1].slides[l] = x
    BY <1>16 DEF In
  <2>2. \A l \in 1 .. 1 : l = 1
    OBVIOUS
  <2>3. QED  BY <1>16, <2>1, <2>2
<1>9. \A k \in 1 .. m + 1 : k \in 1 .. m \/ k = m + 1
  OBVIOUS
<1>10. ASSUME NEW k \in 1 .. m + 1
       PROVE  Len(e[k].slides) > 0 /\ \A x : In(e, k, x) => x \in 1 .. i + 1
  <2>1. CASE k \in 1 .. m
    BY <1>4, <1>6, <1>7, <2>1
  <2>2. CASE k = m + 1
    BY <1>1, <1>16, <1>8, <2>2
  <2>3. QED  BY <1>9, <2>1, <2>2
<1>11. ASSUME NEW j \in 1 .. i
       PROVE  seps[j] = "v" <=> \E k \in 1 .. m + 1 : In(e, k, j) /\ In(e, k, j + 1)
  <2>1. ~(In(e, m + 1, j) /\ In(e, m + 1, j + 1))
    BY <1>8
  <2>2. (\E k \in 1 .. m + 1 : In(e, k, j) /\ In(e, k, j + 1))
           <=> \E k \in 1 .. m : In(c, k, j) /\ In(c, k, j + 1)
    BY <1>7, <1>9, <2>1
  <2>3. CASE j = i
    <3>1. \A k \in 1 .. m : ~In(c, k, j + 1)
      BY <1>1, <1>6, <2>3
    <3>2. seps[j] # "v"
      BY <2>3
    <3>3. QED  BY <2>2, <3>1, <3>2
  <2>4. CASE j # i
    <3>1. j \in 1 .. i - 1
      BY <2>4
    <3>2. QED  BY <1>6, <2>2, <3>1
  <2>5. QED  BY <2>3, <2>4
<1>12. ASSUME NEW k \in 1 .. m + 1, k < m + 1 \/ seps[i + 1] = "h"
       PROVE  e[k].stack <=> Len(e[k].slides) > 1
  <2>1. CASE k \in 1 .. m
    BY <1>4, <1>6, <2>1
  <2>2. CASE k = m + 1
    <3>1. seps[i + 1] = "h"
      BY <1>12, <2>2
    <3>2. ~b
      BY <3>1
    <3>3. e[k].stack = b /\ Len(e[k].slides) = 1
      BY <1>16, <2>2
    <3>4. QED  BY <3>2, <3>3
  <2>3. QED  BY <1>9, <2>1, <2>2
<1>13. m + 1 > 0 /\ In(e, m + 1, i + 1) /\ (seps[i + 1] = "v" => e[m + 1].stack) /\ i + 1 # 0
       /\ (i + 1) - 1 = i
  BY <1>1, <1>4, <1>8
<1>14. Made(seps, e, i + 1)
  BY <1>4, <1>5, <1>10, <1>11, <1>12, <1>13 DEF Made
<1>15. QED  BY <1>14 DEF e, s

\* A piece that follows a vertical separator joins the section that is open.
LEMMA Joins ==
    ASSUME NEW n \in Nat, NEW seps \in [1 .. n -> {"h", "v"}], NEW c, NEW i \in 1 .. n - 1,
           Made(seps, c, i), seps[i] = "v"
    PROVE  Made(seps, ToStack(c, i + 1), i + 1)
<1> DEFINE e == ToStack(c, i + 1)
<1>1. /\ c \in Seq(Section) /\ Pieces(c) = [j \in 1 .. i |-> j] /\ Len(c) > 0 /\ i \in Nat
      /\ In(c, Len(c), i) /\ c[Len(c)].stack
  BY DEF Made
<1>2. PICK m \in Nat : m = Len(c) /\ m > 0
  BY <1>1
<1> DEFINE old == c[m].slides
<1>3. old \in Seq(Nat) /\ Len(old) > 0
  <2>1. m \in 1 .. Len(c)
    BY <1>2
  <2>2. QED  BY <1>1, <2>1, SectionParts DEF Made
<1>4. /\ e \in Seq(Section) /\ Len(e) = m /\ \A k \in 1 .. m : k # m => e[k] = c[k]
      /\ e[m].slides = Append(old, i + 1) /\ e[m].stack = c[m].stack
      /\ Pieces(e) = Append([j \in 1 .. i |-> j], i + 1)
  BY <1>1, <1>2, PiecesJoin
<1>5. Pieces(e) = [j \in 1 .. i + 1 |-> j]
  BY <1>1, <1>4, Counting
<1>6. /\ \A k \in 1 .. m : Len(c[k].slides) > 0 /\ \A x : In(c, k, x) => x \in 1 .. i
      /\ \A j \in 1 .. i - 1 :
            seps[j] = "v" <=> \E k \in 1 .. m : In(c, k, j) /\ In(c, k, j + 1)
      /\ \A k \in 1 .. m : k < m => (c[k].stack <=> Len(c[k].slides) > 1)
      /\ In(c, m, i) /\ c[m].stack
  BY <1>1, <1>2 DEF Made
<1> HIDE DEF e
<1>7. \A k \in 1 .. m : k # m => \A x : In(e, k, x) <=> In(c, k, x)
  BY <1>4 DEF In
<1>8. ASSUME NEW x PROVE In(e, m, x) <=> In(c, m, x) \/ x = i + 1
  <2>1. PICK z \in Nat : z = Len(old)
    BY <1>3
  <2>2. /\ Len(e[m].slides) = z + 1 /\ e[m].slides[z + 1] = i + 1
        /\ \A l \in 1 .. z : e[m].slides[l] = old[l]
    BY <1>3, <1>4, <2>1
  <2>3. \A l \in 1 .. z + 1 : l \in 1 .. z \/ l = z + 1
    OBVIOUS
  <2>4. In(e, m, x) <=> \E l \in 1 .. z + 1 : e[m].slides[l] = x
    BY <2>2 DEF In
  <2>5. In(c, m, x) <=> \E l \in 1 .. z : old[l] = x
    BY <2>1 DEF In
  <2>6. 1 .. z \subseteq 1 .. z + 1 /\ z + 1 \in 1 .. z + 1
    OBVIOUS
  <2>7. QED  BY <2>2, <2>3, <2>4, <2>5, <2>6
<1>9. Len(e[m].slides) > 1
  BY <1>3, <1>4
<1>10. ASSUME NEW k \in 1 .. m
       PROVE  Len(e[k].slides) > 0 /\ \A x : In(e, k, x) => x \in 1 .. i + 1
  <2>1. CASE k # m
    BY <1>4, <1>6, <1>7, <2>1
  <2>2. CASE k = m
    BY <1>6, <1>8, <1>9, <2>2
  <2>3. QED  BY <2>1, <2>2
<1>11. ASSUME NEW j \in 1 .. i
       PROVE  seps[j] = "v" <=> \E k \in 1 .. m : In(e, k, j) /\ In(e, k, j + 1)
  <2>1. CASE j = i
    <3>1. In(e, m, j) /\ In(e, m, j + 1) /\ m \in 1 .. m
      BY <1>2, <1>6, <1>8, <2>1
    <3>2. QED  BY <2>1, <3>1
  <2>2. CASE j # i
    <3>1. j \in 1 .. i - 1 /\ j # i + 1 /\ j + 1 # i + 1
      BY <2>2
    <3>2. \A k \in 1 .. m : (In(e, k, j) <=> In(c, k, j)) /\ (In(e, k, j + 1) <=> In(c, k, j + 1))
      BY <1>7, <1>8, <3>1
    <3>3. QED  BY <1>6, <3>1, <3>2
  <2>3. QED  BY <2>1, <2>2
<1>12. ASSUME NEW k \in 1 .. m
       PROVE  e[k].stack <=> Len(e[k].slides) > 1
  <2>1. CASE k # m
    BY <1>4, <1>6, <2>1
  <2>2. CASE k = m
    BY <1>4, <1>6, <1>9, <2>2
  <2>3. QED  BY <2>1, <2>2
<1>13. m > 0 /\ In(e, m, i + 1) /\ e[m].stack /\ i + 1 # 0 /\ (i + 1) - 1 = i
  BY <1>1, <1>2, <1>4, <1>6, <1>8
<1>14. Made(seps, e, i + 1)
  BY <1>4, <1>5, <1>10, <1>11, <1>12, <1>13 DEF Made
<1>15. QED  BY <1>14 DEF e

\* Slidify makes all the pieces.
LEMMA SlidifyMakes ==
    ASSUME NEW seps \in Seq({"h", "v"})
    PROVE  \E e : /\ e \in [1 .. Len(seps) + 1 -> {"h", "v"}]
                  /\ \A i \in 1 .. Len(seps) : e[i] = seps[i]
                  /\ e[Len(seps) + 1] = "h" /\ Made(e, Slidify(seps), Len(seps) + 1)
<1>1. PICK n \in Nat : n = Len(seps)
  OBVIOUS
<1> DEFINE e == [i \in 1 .. n + 1 |-> IF i = n + 1 THEN "h" ELSE seps[i]]
           was(i) == i = 0 \/ seps[i] = "h"
           turn(c, i) == Separated(c, i, e[i] = "h", was(i - 1))
           obeys(f) == f = [i \in 0 .. n |-> IF i = 0 THEN <<>>
                               ELSE Separated(f[i - 1], i, seps[i] = "h", was(i - 1))]
           f == CHOOSE g : obeys(g)
           st == [ic \in (1 .. n) \X Seq(Section) |->
                     IF turn(ic[2], ic[1]) \in Seq(Section) THEN turn(ic[2], ic[1]) ELSE <<>>]
<1>2. /\ e \in [1 .. n + 1 -> {"h", "v"}] /\ e[n + 1] = "h"
      /\ \A i \in 1 .. n : e[i] = seps[i]
  BY <1>1
<1> HIDE DEF e
<1>3. ASSUME NEW i \in 0 .. n, NEW c, Made(e, c, i) PROVE Made(e, turn(c, i + 1), i + 1)
  <2>1. was(i) <=> i = 0 \/ e[i] = "h"
    BY <1>2
  <2>2. i + 1 \in 1 .. n + 1 /\ (i + 1) - 1 = i
    OBVIOUS
  <2>3. CASE was(i)
    <3> DEFINE b == ~(e[i + 1] = "h")
    <3>1. turn(c, i + 1) = Append(c, [stack |-> b, slides |-> <<i + 1>>])
      BY <2>2, <2>3 DEF Separated, Piece
    <3>2. /\ n + 1 \in Nat /\ i \in Nat /\ (i = 0 \/ e[i] = "h") /\ b \in BOOLEAN
          /\ (b <=> e[i + 1] = "v")
      BY <1>2, <2>1, <2>2, <2>3
    <3> HIDE DEF b
    <3>3. Made(e, Append(c, [stack |-> b, slides |-> <<i + 1>>]), i + 1)
      BY ONLY <1>2, <1>3, <2>2, <3>2, Begins
    <3>4. QED  BY <3>1, <3>3
  <2>5. CASE ~was(i)
    <3>1. turn(c, i + 1) = ToStack(c, i + 1)
      BY <2>2, <2>5 DEF Separated
    <3>2. i \in 1 .. n /\ e[i] = "v"
      BY <1>2, <2>1, <2>5
    <3>3. QED  BY <1>2, <1>3, <3>1, <3>2, Joins
  <2>6. QED  BY <2>3, <2>5
<1>4. st \in [(1 .. n) \X Seq(Section) -> Seq(Section)] /\ <<>> \in Seq(Section)
  <2>1. <<>> \in Seq(Section)
    OBVIOUS
  <2> HIDE DEF turn
  <2>2. QED  BY <2>1
<1>5. \A i \in 1 .. n, c \in Seq(Section) :
         turn(c, i) \in Seq(Section) => st[<<i, c>>] = turn(c, i)
  <2> HIDE DEF turn
  <2>1. QED  OBVIOUS
<1> HIDE DEF st, turn
<1>6. PICK g \in [0 .. n -> Seq(Section)] : Repeats(g, n, <<>>, st)
  BY <1>4, Recursion
<1>7. ASSUME NEW i \in 1 .. n, Made(e, g[i - 1], i - 1)
      PROVE  g[i] = turn(g[i - 1], i) /\ Made(e, g[i], i)
  <2>1. i - 1 \in 0 .. n /\ (i - 1) + 1 = i
    OBVIOUS
  <2>2. Made(e, turn(g[i - 1], i), i)
    BY <1>3, <1>7, <2>1
  <2>3. turn(g[i - 1], i) \in Seq(Section) /\ g[i - 1] \in Seq(Section)
    BY <1>7, <2>2 DEF Made
  <2>4. g[i] = st[<<i, g[i - 1]>>]
    BY <1>6 DEF Repeats
  <2>5. g[i] = turn(g[i - 1], i)
    BY <1>5, <2>3, <2>4
  <2>6. QED  BY <2>2, <2>5
<1>8. ASSUME NEW i \in 0 .. n PROVE Made(e, g[i], i)
  <2> DEFINE Good == {k \in 0 .. n : Made(e, g[k], k)}
  <2>1. 0 \in Good
    BY <1>6, MadeNone DEF Repeats
  <2>2. ASSUME NEW k \in 1 .. n, k - 1 \in Good PROVE k \in Good
    <3>1. Made(e, g[k], k)
      BY <1>7, <2>2
    <3>2. QED  BY <3>1
  <2> HIDE DEF Good
  <2>3. 0 .. n \subseteq Good
    BY <2>1, <2>2, UpTo
  <2>4. i \in Good
    BY <2>3
  <2>5. QED  BY <2>4 DEF Good
<1>9. \A i \in 1 .. n : \A c : turn(c, i) = Separated(c, i, seps[i] = "h", was(i - 1))
  BY <1>2 DEF turn
<1> HIDE DEF was
<1>10. obeys(g)
  <2>1. ASSUME NEW i \in 0 .. n
        PROVE  g[i] = IF i = 0 THEN <<>> ELSE Separated(g[i - 1], i, seps[i] = "h", was(i - 1))
    <3>1. CASE i = 0
      BY <1>6, <3>1 DEF Repeats
    <3>2. CASE i # 0
      <4>1. i \in 1 .. n /\ i - 1 \in 0 .. n
        BY <3>2
      <4>2. Made(e, g[i - 1], i - 1)
        BY <1>8, <4>1
      <4>3. g[i] = turn(g[i - 1], i)
        BY <1>7, <4>1, <4>2
      <4>4. QED  BY <1>9, <3>2, <4>1, <4>3
    <3>3. QED  BY <3>1, <3>2
  <2>2. QED  BY <2>1
<1>11. Slidify(seps) = IF was(n) THEN Append(f[n], Piece(n + 1, FALSE)) ELSE ToStack(f[n], n + 1)
  <2>1. (n + 1) - 1 = n
    OBVIOUS
  <2>2. QED  BY <1>1, <2>1 DEF Slidify, was
<1>12. obeys(f)
  <2> HIDE DEF obeys
  <2>1. QED  BY <1>10
<1> HIDE DEF f
<1>13. \A i \in 0 .. n :
          f[i] = IF i = 0 THEN <<>> ELSE Separated(f[i - 1], i, seps[i] = "h", was(i - 1))
  BY <1>12
<1>14. Made(e, f[n], n)
  <2> DEFINE Good == {k \in 0 .. n : Made(e, f[k], k)}
  <2>1. 0 \in Good
    <3>1. f[0] = <<>>
      BY <1>13
    <3>2. QED  BY <3>1, MadeNone
  <2>2. ASSUME NEW k \in 1 .. n, k - 1 \in Good PROVE k \in Good
    <3>1. k \in 0 .. n /\ k # 0 /\ k - 1 \in 0 .. n /\ (k - 1) + 1 = k
      OBVIOUS
    <3>2. f[k] = turn(f[k - 1], k)
      BY <1>9, <1>13, <3>1
    <3>3. Made(e, f[k], k)
      BY <1>3, <2>2, <3>1, <3>2
    <3>4. QED  BY <3>1, <3>3
  <2> HIDE DEF Good
  <2>3. 0 .. n \subseteq Good
    BY <2>1, <2>2, UpTo
  <2>4. n \in Good
    BY <2>3
  <2>5. QED  BY <2>4 DEF Good
<1>15. turn(f[n], n + 1) = Slidify(seps)
  <2>1. (n + 1) - 1 = n
    OBVIOUS
  <2>2. QED  BY <1>2, <1>11, <2>1 DEF turn, Separated, Piece
<1>16. Made(e, Slidify(seps), n + 1)
  BY <1>3, <1>14, <1>15
<1>17. QED  BY <1>1, <1>2, <1>16

\* The sections hold the pieces in order, one of them on each slide, and two neighbours share a
\* stack when a vertical separator is between them.
Covers(seps, sections) ==
    /\ Pieces(sections) = [i \in 1 .. Len(seps) + 1 |-> i]
    /\ \A i \in DOMAIN seps :
          seps[i] = "v" <=>
              \E k \in DOMAIN sections : {i, i + 1} \subseteq Range(sections[k].slides)
    /\ \A k \in DOMAIN sections : sections[k].stack <=> Len(sections[k].slides) > 1

\* The sections that slidify makes of a text cover it.
LEMMA SlidifyCovers ==
    ASSUME NEW seps \in Seq({"h", "v"}), NEW sections, sections = Slidify(seps)
    PROVE  Covers(seps, sections)
<1>1. PICK n \in Nat : n = Len(seps) /\ DOMAIN seps = 1 .. n
  OBVIOUS
<1>2. PICK e \in [1 .. n + 1 -> {"h", "v"}] :
         (\A i \in 1 .. n : e[i] = seps[i]) /\ e[n + 1] = "h" /\ Made(e, sections, n + 1)
  BY <1>1, SlidifyMakes
<1>3. /\ sections \in Seq(Section) /\ Pieces(sections) = [i \in 1 .. n + 1 |-> i]
      /\ \A j \in 1 .. n :
            e[j] = "v" <=> \E k \in 1 .. Len(sections) : In(sections, k, j) /\ In(sections, k, j + 1)
      /\ \A k \in 1 .. Len(sections) : sections[k].stack <=> Len(sections[k].slides) > 1
  <2>1. (n + 1) - 1 = n
    OBVIOUS
  <2>2. QED  BY <1>2, <2>1 DEF Made
<1>4. DOMAIN sections = 1 .. Len(sections)
  BY <1>3
<1>5. ASSUME NEW k \in 1 .. Len(sections), NEW x PROVE In(sections, k, x) <=> x \in Range(sections[k].slides)
  <2>1. sections[k].slides \in Seq(Nat)
    BY <1>3, SectionParts
  <2>2. DOMAIN sections[k].slides = 1 .. Len(sections[k].slides)
    BY <2>1
  <2>3. QED  BY <2>2 DEF In, Range
<1>6. ASSUME NEW i \in 1 .. n
      PROVE  seps[i] = "v" <=> \E k \in DOMAIN sections : {i, i + 1} \subseteq Range(sections[k].slides)
  <2>1. \A k \in 1 .. Len(sections) : In(sections, k, i) /\ In(sections, k, i + 1)
                                    <=> {i, i + 1} \subseteq Range(sections[k].slides)
    BY <1>5
  <2>2. QED  BY <1>2, <1>3, <1>4, <2>1
<1>7. \A i \in DOMAIN seps :
         seps[i] = "v" <=> \E k \in DOMAIN sections : {i, i + 1} \subseteq Range(sections[k].slides)
  BY <1>1, <1>6
<1>8. QED  BY <1>1, <1>3, <1>4, <1>7 DEF Covers
-----------------------------------------------------------------------------
(***************************************************************************)
(* The start of the page.                                                  *)
(***************************************************************************)
SyncSet == Wanted \ Async

\* What head.js has yet to settle is wanted, and in order.
Requested == /\ requested \in Seq(Scripts) /\ InOrder(requested)
             /\ \A i \in 1 .. Len(requested) : requested[i] \in Wanted \ settled

\* The callbacks that have run are those of the scripts that have.
Called == called = settled /\ settled \subseteq Wanted

Waits(s) == s \in settled \/ \E i \in 1 .. Len(requested) : requested[i] = s

\* Before the start every synchronous script is settled or requested, and the
\* count is that of the requested; after it the asynchronous ones follow.
Staged ==
    /\ ~initialized => requested = <<>> /\ settled = {} /\ scriptsToPreload = 0 /\ ~loaded
    /\ initialized /\ ~loaded =>
          /\ scriptsToPreload = Len(requested) /\ Len(requested) > 0
          /\ settled \cap Async = {} /\ \A s \in SyncSet : Waits(s)
          /\ \A i \in 1 .. Len(requested) : requested[i] \notin Async
    /\ loaded =>
          /\ initialized /\ scriptsToPreload <= 0 /\ SyncSet \subseteq settled
          /\ \A i \in 1 .. Len(requested) : requested[i] \in Async

LoadInv == TypeOK /\ Requested /\ Called /\ Staged

\* The switches of a page, and its lists of scripts.
Switches == /\ initialized \in BOOLEAN /\ printing \in BOOLEAN /\ loaded \in BOOLEAN
            /\ readyTimer \in BOOLEAN /\ ready \in BOOLEAN /\ windowLoaded \in BOOLEAN
            /\ eventsAreBound \in BOOLEAN /\ keyboard \in BOOLEAN /\ keys \in BOOLEAN
ScriptLists == /\ requested \in Seq(Scripts) /\ settled \subseteq Scripts
               /\ failed \subseteq settled /\ late \subseteq failed
               /\ called \subseteq Scripts /\ scriptsToPreload \in Int

\* The type invariant in two parts, before a step and after it.
LEMMA Typed ==
    (TypeOK <=> Switches /\ ScriptLists) /\ (TypeOK' <=> Switches' /\ ScriptLists')
<1>1. (\A b \in {initialized, printing, loaded, readyTimer, ready, windowLoaded,
                 eventsAreBound, keyboard, keys} : b \in BOOLEAN) <=> Switches
  BY Zenon DEF Switches
<1>2. (\A b \in {initialized', printing', loaded', readyTimer', ready', windowLoaded',
                 eventsAreBound', keyboard', keys'} : b \in BOOLEAN) <=> Switches'
  BY Zenon DEF Switches
<1>3. QED  BY <1>1, <1>2 DEF TypeOK, ScriptLists

\* The scripts of the two lists.
LEMMA Lists ==
    /\ SyncScripts \in Seq(Scripts) /\ InOrder(SyncScripts) /\ Range(SyncScripts) = SyncSet
    /\ AsyncScripts \in Seq(Scripts) /\ InOrder(AsyncScripts)
    /\ \A i \in 1 .. Len(SyncScripts) : SyncScripts[i] \in SyncSet
    /\ \A s \in SyncSet : \E i \in 1 .. Len(SyncScripts) : SyncScripts[i] = s
    /\ \A i \in 1 .. Len(AsyncScripts) : AsyncScripts[i] \in Wanted \cap Async
<1>1. SyncSet \subseteq Scripts /\ Wanted \cap Async \subseteq Scripts
  BY DEF SyncSet, Wanted
<1>2. SyncScripts = Pushed(SyncSet) /\ AsyncScripts = Pushed(Wanted \cap Async)
  BY DEF SyncScripts, AsyncScripts, SyncSet
<1>3. /\ SyncScripts \in Seq(Scripts) /\ InOrder(SyncScripts) /\ Range(SyncScripts) = SyncSet
      /\ AsyncScripts \in Seq(Scripts) /\ InOrder(AsyncScripts)
      /\ Range(AsyncScripts) = Wanted \cap Async
  BY <1>1, <1>2, PushedIs
<1>4. DOMAIN SyncScripts = 1 .. Len(SyncScripts) /\ DOMAIN AsyncScripts = 1 .. Len(AsyncScripts)
  BY <1>3
<1>5. QED  BY <1>3, <1>4 DEF Range

\* Nothing is requested before the page calls initialize().
LEMMA LoadStart == Init => LoadInv
<1> SUFFICES ASSUME Init PROVE LoadInv
  OBVIOUS
<1>1. <<>> \in Seq(Scripts) /\ Len(<<>>) = 0
  OBVIOUS
<1>2. TypeOK
  <2>1. Switches
    BY DEF Init, Switches
  <2>2. ScriptLists
    BY <1>1 DEF Init, ScriptLists
  <2>3. QED  BY <2>1, <2>2, Typed
<1>3. Requested /\ Called /\ Staged
  BY <1>1 DEF Init, Requested, InOrder, Called, Staged
<1>4. QED  BY <1>2, <1>3 DEF LoadInv

\* initialize() requests the synchronous scripts, or starts when there are none.
LEMMA InitializeStep == LoadInv /\ Initialize => LoadInv'
<1> SUFFICES ASSUME LoadInv, Initialize PROVE LoadInv'
  OBVIOUS
<1>1. /\ initialized' = TRUE /\ scriptsToPreload' = Len(SyncScripts) /\ settled = {} /\ ~loaded
      /\ UNCHANGED <<printing, settled, failed, late, called, ready, windowLoaded, keyboard>>
  BY DEF LoadInv, Staged, Initialize
<1>2. TypeOK'
  <2>1. Switches /\ ScriptLists
    BY Typed DEF LoadInv
  <2>2. Switches'
    BY <2>1 DEF Switches, Initialize, Start, NoStart
  <2>3. requested' \in Seq(Scripts)
    BY Lists DEF Initialize
  <2>4. ScriptLists'
    BY <1>1, <2>1, <2>3, Lists DEF ScriptLists
  <2>5. QED  BY <2>2, <2>4, Typed
<1>3. CASE SyncScripts # <<>>
  <2>1. requested' = SyncScripts /\ loaded' = loaded /\ Len(SyncScripts) > 0
    BY <1>3, Lists, EmptySeq DEF Initialize, NoStart
  <2>2. Requested' /\ Called'
    BY <1>1, <2>1, Lists DEF LoadInv, Requested, InOrder, Called, SyncSet
  <2>3. Staged'
    BY <1>1, <2>1, Lists DEF Staged, Waits, SyncSet
  <2>4. QED  BY <1>2, <2>2, <2>3 DEF LoadInv
<1>4. CASE SyncScripts = <<>>
  <2>1. requested' = AsyncScripts /\ loaded' = TRUE /\ Len(SyncScripts) = 0
    BY <1>4 DEF Initialize, Start
  <2>2. SyncSet = {}
    BY <2>1, Lists
  <2>3. Requested' /\ Called'
    BY <1>1, <2>1, Lists DEF LoadInv, Requested, InOrder, Called
  <2>4. Staged'
    BY <1>1, <2>1, <2>2, Lists DEF Staged
  <2>5. QED  BY <1>2, <2>3, <2>4 DEF LoadInv
<1>5. QED  BY <1>3, <1>4

\* A script that settles wakes its own callback only.
LEMMA SettleStep ==
    ASSUME LabelsMatch, LoadInv, NEW ok \in BOOLEAN, Settle(ok)
    PROVE  LoadInv'
<1> DEFINE s == Head(requested)
           calls == {t \in Wanted \ called : Label[t] = File[s]}
           left == scriptsToPreload - Cardinality(calls)
<1>1. /\ requested \in Seq(Scripts) /\ requested # <<>> /\ InOrder(requested) /\ called = settled
      /\ \A i \in 1 .. Len(requested) : requested[i] \in Wanted \ settled
      /\ scriptsToPreload \in Int
  BY DEF Settle, LoadInv, Requested, Called, TypeOK
<1>2. PICK n \in Nat : Len(requested) = n + 1
  <2>1. Len(requested) \in Nat \ {0}
    BY <1>1, EmptySeq
  <2>2. Len(requested) - 1 \in Nat /\ Len(requested) = (Len(requested) - 1) + 1
    BY <2>1
  <2>3. QED  BY <2>2
<1> DEFINE rest == Tail(requested)
<1>3. /\ s = requested[1] /\ rest \in Seq(Scripts) /\ Len(rest) = n
      /\ \A i \in 1 .. n : rest[i] = requested[i + 1]
  BY <1>1, <1>2
<1>4. s \in Wanted \ settled /\ s \in Scripts /\ Wanted \subseteq Scripts
  BY <1>1, <1>2, <1>3 DEF Wanted
<1>5. calls = {s}
  <2>1. \A t \in Wanted : Label[t] = File[s] <=> t = s
    BY <1>4 DEF LabelsMatch
  <2>2. QED  BY <1>1, <1>4, <2>1
<1>6. left = scriptsToPreload - 1
  BY <1>5, FS_Singleton
<1>7. /\ settled' = settled \cup {s} /\ called' = called \cup calls /\ scriptsToPreload' = left
      /\ requested' = IF Proceeds(left) THEN rest \o AsyncScripts ELSE rest
      /\ loaded' = IF Proceeds(left) THEN TRUE ELSE loaded
      /\ failed' = (IF ok THEN failed ELSE failed \cup {s}) /\ initialized' = initialized
      /\ UNCHANGED <<printing, late, ready, windowLoaded, keyboard>>
  BY DEF Settle, Start, NoStart
<1>8. Switches' /\ ScriptLists
  <2>1. Switches /\ ScriptLists
    BY Typed DEF LoadInv
  <2>2. Switches'
    BY <2>1 DEF Switches, Settle, Start, NoStart
  <2>3. QED  BY <2>1, <2>2
<1> HIDE DEF s, calls, left, rest
<1>9. /\ InOrder(rest)
      /\ \A i \in 1 .. n : rest[i] \in Wanted /\ rest[i] \notin settled /\ rest[i] # s
  <2>1. \A i \in 1 .. n : i + 1 \in 1 .. n + 1 /\ 1 < i + 1
    OBVIOUS
  <2>2. \A i \in 1 .. n : Precedes(s, rest[i])
    BY <1>1, <1>2, <1>3, <2>1 DEF InOrder
  <2>3. \A i \in 1 .. n : rest[i] # s
    BY <2>2, OneWay
  <2>4. InOrder(rest)
    <3>1. ASSUME NEW k \in 1 .. n, NEW l \in 1 .. n, k < l PROVE Precedes(rest[k], rest[l])
      <4>1. k + 1 \in 1 .. n + 1 /\ l + 1 \in 1 .. n + 1 /\ k + 1 < l + 1
        BY <3>1
      <4>2. Precedes(requested[k + 1], requested[l + 1])
        BY <1>1, <1>2, <4>1 DEF InOrder
      <4>3. QED  BY <1>3, <4>2
    <3>2. QED  BY <1>3, <3>1 DEF InOrder
  <2>5. QED  BY <1>1, <1>2, <1>3, <2>1, <2>3, <2>4
<1>10. Called'
  BY <1>1, <1>4, <1>5, <1>7 DEF LoadInv, Called
<1>11. initialized
  BY <1>1 DEF LoadInv, Staged
<1>12. /\ settled' \subseteq Scripts /\ failed' \subseteq settled' /\ late' \subseteq failed'
       /\ called' \subseteq Scripts /\ scriptsToPreload' \in Int
  <2>1. failed \subseteq settled /\ late \subseteq failed /\ settled \subseteq Scripts /\ called \subseteq Scripts
    BY <1>8 DEF ScriptLists
  <2>2. settled' \subseteq Scripts /\ called' \subseteq Scripts
    BY <1>4, <1>5, <1>7, <2>1
  <2>3. failed' \subseteq settled' /\ late' \subseteq failed'
    BY <1>7, <2>1
  <2>4. QED  BY <1>1, <1>6, <1>7, <2>2, <2>3
<1>13. CASE Proceeds(left)
  <2>1. ~loaded /\ scriptsToPreload = n + 1 /\ n = 0
    BY <1>1, <1>2, <1>6, <1>11, <1>13 DEF LoadInv, Staged, Proceeds
  <2>2. rest = <<>>
    BY <1>3, <2>1, EmptySeq
  <2>3. requested' = AsyncScripts
    BY <1>7, <1>13, <2>2, Lists, ConcatEmptySeq
  <2>4. settled \cap Async = {} /\ (\A t \in SyncSet : Waits(t)) /\ s \notin Async
    BY <1>2, <1>3, <1>11, <2>1 DEF LoadInv, Staged
  <2>5. SyncSet \subseteq settled'
    BY <1>2, <1>3, <1>7, <2>1, <2>4 DEF Waits
  <2>6. Requested'
    BY <1>7, <2>3, <2>4, Lists DEF Requested, InOrder
  <2>7. Staged'
    BY <1>1, <1>6, <1>7, <1>11, <1>13, <2>1, <2>3, <2>5, Lists DEF Staged
  <2>8. TypeOK'
    <3>1. ScriptLists'
      <4>1. requested' \in Seq(Scripts)
        BY <2>3, Lists
      <4>2. QED  BY <1>12, <4>1 DEF ScriptLists
    <3>2. QED  BY <1>8, <3>1, Typed
  <2>9. QED  BY <1>10, <2>6, <2>7, <2>8 DEF LoadInv
<1>14. CASE ~Proceeds(left)
  <2>1. requested' = rest /\ loaded' = loaded
    BY <1>7, <1>14
  <2>2. Requested'
    BY <1>3, <1>7, <1>9, <2>1 DEF Requested, InOrder
  <2>3. TypeOK'
    <3>1. ScriptLists'
      <4>1. requested' \in Seq(Scripts)
        BY <1>3, <2>1
      <4>2. QED  BY <1>12, <4>1 DEF ScriptLists
    <3>2. QED  BY <1>8, <3>1, Typed
  <2>4. CASE loaded
    <3>1. Staged'
      <4>1. \A i \in 1 .. n : i + 1 \in 1 .. n + 1
        OBVIOUS
      <4>2. \A i \in 1 .. n : rest[i] \in Async
        BY <1>2, <1>3, <2>4, <4>1 DEF LoadInv, Staged
      <4>3. scriptsToPreload' <= 0 /\ SyncSet \subseteq settled'
        BY <1>1, <1>6, <1>7, <2>4 DEF LoadInv, Staged
      <4>4. QED  BY <1>3, <1>7, <1>11, <2>1, <2>4, <4>2, <4>3 DEF Staged
    <3>2. QED  BY <1>10, <2>2, <2>3, <3>1 DEF LoadInv
  <2>5. CASE ~loaded
    <3>1. /\ scriptsToPreload = n + 1 /\ settled \cap Async = {} /\ (\A t \in SyncSet : Waits(t))
          /\ \A i \in 1 .. n + 1 : requested[i] \notin Async
      BY <1>2, <1>11, <2>5 DEF LoadInv, Staged
    <3>2. scriptsToPreload' = n /\ n > 0
      BY <1>6, <1>7, <1>14, <3>1 DEF Proceeds
    <3>3. ASSUME NEW t \in SyncSet PROVE t \in settled' \/ \E i \in 1 .. n : rest[i] = t
      <4>1. CASE t \in settled
        BY <1>7, <4>1
      <4>2. ASSUME NEW i \in 1 .. n + 1, requested[i] = t
            PROVE  t \in settled' \/ \E j \in 1 .. n : rest[j] = t
        <5>1. CASE i = 1
          BY <1>3, <1>7, <4>2, <5>1
        <5>2. CASE i # 1
          <6>1. i - 1 \in 1 .. n /\ (i - 1) + 1 = i
            BY <5>2
          <6>2. rest[i - 1] = t
            BY <1>3, <4>2, <6>1
          <6>3. QED  BY <6>1, <6>2
        <5>3. QED  BY <5>1, <5>2
      <4>3. QED  BY <1>2, <3>1, <4>1, <4>2 DEF Waits
    <3>4. \A i \in 1 .. n : rest[i] \notin Async
      <4>1. \A i \in 1 .. n : i + 1 \in 1 .. n + 1
        OBVIOUS
      <4>2. QED  BY <1>3, <3>1, <4>1
    <3>5. settled' \cap Async = {}
      BY <1>3, <1>7, <3>1
    <3>6. Staged'
      <4>1. ASSUME NEW t \in SyncSet PROVE Waits(t)'
        <5>1. t \in settled' \/ \E i \in 1 .. n : rest[i] = t
          BY <3>3, <4>1
        <5>2. t \in settled' \/ \E i \in 1 .. Len(requested') : requested'[i] = t
          BY <1>3, <2>1, <5>1
        <5>3. QED  BY <5>2 DEF Waits
      <4>2. initialized' /\ ~loaded' /\ Len(requested') = n
        <5>1. initialized'
          <6>1. initialized' = initialized
            BY <1>7
          <6>2. QED  BY ONLY <1>11, <6>1, Zenon
        <5>2. ~loaded'
          <6>1. loaded' = loaded
            BY <2>1
          <6>2. QED  BY ONLY <2>5, <6>1, Zenon
        <5>3. QED  BY <1>3, <2>1, <5>1, <5>2
      <4>3. \A i \in 1 .. Len(requested') : requested'[i] \notin Async
        BY <1>3, <2>1, <3>4
      <4>4. \A t \in SyncSet' : Waits(t)'
        BY <4>1 DEF SyncSet
      <4>5. QED  BY <3>2, <3>5, <4>2, <4>3, <4>4 DEF Staged
    <3>7. QED  BY <1>10, <2>2, <2>3, <3>6 DEF LoadInv
  <2>6. QED  BY <2>4, <2>5
<1>15. QED  BY <1>13, <1>14

\* The visitor's steps leave the loading alone.
LEMMA UsingElsewhere == Using => UNCHANGED loaderVars
  BY DEF Using, Overlays, LinkClick, ToggleHelp, CloseClick, OverlayTimer, EscapeDown,
         OnlyOverlay, Player, Frame, OldFrame, SetPlaying, NewPlayer, OnlyPlayer, Search,
         EnterKey, IconClick, DoSearch, CloseSearch, TypeWord, PasteWord, Navigate, OnlySearch,
         Zoom, ZoomClick, ZoomTo, EngagePan, EscapeUp, OnlyZoom

\* What leaves the scripts and the start alone keeps the invariant.
LEMMA Kept ==
    ASSUME LoadInv, Switches', initialized' = initialized, loaded' = loaded,
           UNCHANGED <<requested, settled, failed, called, scriptsToPreload>>,
           late' \subseteq failed
    PROVE  LoadInv'
<1>1. ScriptLists'
  BY Typed DEF LoadInv, ScriptLists
<1>2. Requested' /\ Called'
  BY DEF LoadInv, Requested, InOrder, Called
<1>3. Staged'
  BY DEF LoadInv, Staged, Waits, SyncSet
<1>4. QED  BY <1>1, <1>2, <1>3, Typed DEF LoadInv

\* Every step of the page keeps the invariant.
LEMMA LoadStep == LabelsMatch /\ LoadInv /\ [PageNext]_vars => LoadInv'
<1> SUFFICES ASSUME LabelsMatch, LoadInv, [PageNext]_vars PROVE LoadInv'
  OBVIOUS
<1>1. Switches /\ late \subseteq failed
  BY Typed DEF LoadInv, ScriptLists
<1>2. CASE UNCHANGED loaderVars
  BY <1>1, <1>2, Kept DEF loaderVars, Switches
<1>3. CASE ReadyTimer
  BY <1>1, <1>3, Kept DEF ReadyTimer, Switches
<1>4. CASE WindowLoad
  BY <1>1, <1>4, Kept DEF WindowLoad, Switches
<1>5. ASSUME NEW on \in BOOLEAN, Configure(on) PROVE LoadInv'
  BY <1>1, <1>5, Kept DEF Configure, Switches
<1>6. ASSUME NEW s \in Scripts, RunsLate(s) PROVE LoadInv'
  <2>1. late' \subseteq failed
    BY <1>6, Typed DEF LoadInv, ScriptLists, RunsLate
  <2>2. QED  BY <1>1, <1>6, <2>1, Kept DEF RunsLate, Switches
<1>7. Loading \/ UNCHANGED loaderVars
  BY UsingElsewhere DEF PageNext, vars
<1>8. QED
  BY <1>2, <1>3, <1>4, <1>5, <1>6, <1>7, InitializeStep, SettleStep DEF Loading

\* The loading is sound in every reachable state.
LEMMA LoadInvariant == ASSUME LabelsMatch PROVE PageSpec => []LoadInv
<1>1. LoadInv /\ [PageNext]_vars => LoadInv'
  BY LoadStep
<1>2. QED  BY <1>1, LoadStart, PTL DEF PageSpec
-----------------------------------------------------------------------------
\* When each script wakes its own callback, the page starts when all the synchronous
\* ones have settled and no sooner, however many there are of each kind and
\* whichever fail.
THEOREM ScriptsBeforeStart == ASSUME LabelsMatch PROVE PageSpec => []StartAfterScripts
<1>1. LoadInv => StartAfterScripts
  <2> SUFFICES ASSUME LoadInv PROVE StartAfterScripts
    OBVIOUS
  <2>1. TypeOK /\ loaded \in BOOLEAN /\ initialized \in BOOLEAN
    BY Typed DEF LoadInv, Switches
  <2>2. loaded => initialized /\ SyncSet \subseteq settled
    BY DEF LoadInv, Staged
  <2>3. ~(initialized /\ ~loaded /\ SyncSet \subseteq settled)
    <3> SUFFICES ASSUME initialized, ~loaded, SyncSet \subseteq settled PROVE FALSE
      OBVIOUS
    <3>1. Len(requested) > 0 /\ \A i \in 1 .. Len(requested) : requested[i] \notin Async
      BY DEF LoadInv, Staged
    <3>2. 1 \in 1 .. Len(requested)
      BY <3>1 DEF LoadInv, Requested
    <3>3. requested[1] \in Wanted \ settled /\ requested[1] \notin Async
      BY <3>1, <3>2 DEF LoadInv, Requested
    <3>4. QED  BY <3>3 DEF SyncSet
  <2>4. QED  BY <2>1, <2>2, <2>3, Lists DEF StartAfterScripts
<1>2. QED  BY <1>1, LoadInvariant, PTL
-----------------------------------------------------------------------------
(***************************************************************************)
(* The markdown text and its sections.                                     *)
(***************************************************************************)
DocOK == text \in Texts /\ (doc = <<>> \/ doc = ProcessSlides(text))

\* Only the markdown plugin makes sections, of the text there is.
LEMMA DocInvariant == PageSpec => []DocOK
<1>1. Init => DocOK
  BY DEF Init, DocOK
<1>2. DocOK /\ [PageNext]_vars => DocOK'
  <2> SUFFICES ASSUME DocOK, [PageNext]_vars PROVE DocOK'
    OBVIOUS
  <2>1. CASE UNCHANGED <<text, doc>>
    BY <2>1 DEF DocOK
  <2>2. ASSUME text' = text, doc' = doc \/ doc' = ProcessSlides(text) PROVE DocOK'
    BY <2>2 DEF DocOK, ProcessSlides
  <2>3. \/ \E ok \in BOOLEAN : Settle(ok)
        \/ \E s \in Scripts : RunsLate(s)
        \/ UNCHANGED <<text, doc>>
    <3>1. CASE UNCHANGED loaderVars
      BY <3>1 DEF loaderVars
    <3>2. CASE Loading
      BY <3>2 DEF Loading, Initialize, ReadyTimer, WindowLoad, Configure
    <3>3. QED  BY <3>1, <3>2, UsingElsewhere DEF PageNext, vars
  <2>4. QED  BY <2>1, <2>2, <2>3 DEF Settle, RunsLate, MadeBy
<1>3. QED  BY <1>1, <1>2, PTL DEF PageSpec

\* The sections of every text, with any number of separators, cover it.
THEOREM SectionsAlwaysCover == PageSpec => []SectionsCover
<1>1. DocOK => SectionsCover
  <2> SUFFICES ASSUME DocOK, doc # <<>> PROVE Covers(text, doc)
    BY Zenon DEF SectionsCover, Covers
  <2>1. text \in Seq({"h", "v"}) /\ doc = Slidify(text)
    BY LoaderAssumption DEF DocOK, ProcessSlides
  <2>2. QED  BY <2>1, SlidifyCovers
<1>2. QED  BY <1>1, DocInvariant, PTL

\* The markdown plugin settles after marked, and the pages of a PDF are those
\* of the sections, unless the plugin runs when they have been laid out.
Printed ==
    /\ Markdown \in settled => Marked \in settled
    /\ Markdown \in settled \ failed /\ Marked \notin failed => doc = ProcessSlides(text)
    /\ printing /\ loaded /\ windowLoaded /\ Markdown \notin late => pages = Pieces(doc)

\* Markdown is the next script only when marked has settled and the page has
\* not started.
LEMMA MarkdownWaits ==
    ASSUME MarkedFirst, LoadInv, requested # <<>>, Head(requested) = Markdown
    PROVE  ~loaded /\ Marked \in settled
<1>1. requested \in Seq(Scripts) /\ InOrder(requested)
      /\ \A i \in 1 .. Len(requested) : requested[i] \in Wanted \ settled
  BY DEF LoadInv, Requested
<1>2. PICK n \in Nat : n = Len(requested) /\ n > 0
  BY <1>1, EmptySeq
<1>3. requested[1] = Markdown /\ 1 \in 1 .. n
  BY <1>1, <1>2
<1>4. Markdown \in Wanted
  BY <1>1, <1>2, <1>3
<1>5. Markdown \notin Async /\ Marked \in SyncSet /\ Precedes(Marked, Markdown)
  BY <1>4 DEF MarkedFirst, SyncSet
<1>6. ~loaded
  BY <1>2, <1>3, <1>5 DEF LoadInv, Staged
<1>7. initialized
  BY <1>2 DEF LoadInv, Staged
<1>8. Waits(Marked)
  BY <1>5, <1>6, <1>7 DEF LoadInv, Staged
<1>9. ASSUME NEW i \in 1 .. n, requested[i] = Marked PROVE FALSE
  <2>1. CASE i = 1
    BY <1>3, <1>5, <1>9, <2>1, OneWay
  <2>2. CASE i # 1
    <3>1. 1 < i
      BY <2>2
    <3>2. Precedes(Markdown, Marked)
      BY <1>1, <1>2, <1>3, <1>9, <3>1 DEF InOrder
    <3>3. QED  BY <1>5, <3>2, OneWay
  <2>3. QED  BY <2>1, <2>2
<1>10. QED  BY <1>2, <1>6, <1>8, <1>9 DEF Waits

\* A script that settles.
LEMMA PrintedSettle ==
    ASSUME MarkedFirst, LoadInv, Printed, NEW ok \in BOOLEAN, Settle(ok)
    PROVE  Printed'
<1> DEFINE s == Head(requested)
           calls == {t \in Wanted \ called : Label[t] = File[s]}
           left == scriptsToPreload - Cardinality(calls)
           made == IF ok THEN MadeBy(s) ELSE doc
<1>1. /\ requested # <<>> /\ settled' = settled \cup {s} /\ doc' = made /\ text' = text
      /\ failed' = (IF ok THEN failed ELSE failed \cup {s})
      /\ printing' = printing /\ windowLoaded' = windowLoaded /\ late' = late
      /\ IF Proceeds(left) THEN Start(made) ELSE NoStart
  BY DEF Settle
<1>2. s = Markdown => ~loaded /\ Marked \in settled
  BY <1>1, MarkdownWaits
<1> HIDE DEF s, left
<1>3. Markdown \in settled' => Marked \in settled'
  BY <1>1, <1>2 DEF Printed
<1>4. ASSUME Markdown \in settled' \ failed', Marked \notin failed' PROVE doc' = ProcessSlides(text)
  <2>1. Marked \notin failed
    BY <1>1, <1>4
  <2>2. CASE s = Markdown
    <3>1. ok
      BY <1>1, <1>4, <2>2
    <3>2. Marked \in Ran
      BY <1>2, <2>1, <2>2 DEF Ran
    <3>3. QED  BY <1>1, <2>2, <3>1, <3>2 DEF MadeBy
  <2>3. CASE s # Markdown
    <3>1. Markdown \in settled \ failed
      BY <1>1, <1>4, <2>3
    <3>2. doc = ProcessSlides(text)
      BY <2>1, <3>1 DEF Printed
    <3>3. QED  BY <1>1, <2>3, <3>2 DEF MadeBy
  <2>4. QED  BY <2>2, <2>3
<1>5. ASSUME printing', loaded', windowLoaded', Markdown \notin late' PROVE pages' = Pieces(doc')
  <2>1. printing /\ windowLoaded
    BY <1>1, <1>5
  <2> HIDE DEF made
  <2>2. CASE Proceeds(left)
    BY <1>1, <2>1, <2>2 DEF Start, SetupPDF
  <2>3. CASE ~Proceeds(left)
    <3>1. loaded /\ pages' = pages
      BY <1>1, <1>5, <2>3 DEF NoStart
    <3>2. doc' = doc
      BY <1>1, <1>2, <3>1 DEF made, MadeBy
    <3>3. pages = Pieces(doc)
      BY <1>1, <1>5, <2>1, <3>1 DEF Printed
    <3>4. QED  BY <3>1, <3>2, <3>3
  <2>4. QED  BY <2>2, <2>3
<1>6. doc' = doc \/ doc' = ProcessSlides(text)
  BY <1>1 DEF MadeBy
<1>7. ProcessSlides(text)' = ProcessSlides(text)
  BY <1>1
<1>8. Pieces(doc)' = Pieces(doc')
  BY DEF Pieces
<1>9. QED  BY <1>3, <1>4, <1>5, <1>7, <1>8 DEF Printed

\* Every step keeps it.
LEMMA PrintedStep == MarkedFirst /\ LoadInv /\ Printed /\ [PageNext]_vars => Printed'
<1> SUFFICES ASSUME MarkedFirst, LoadInv, Printed, [PageNext]_vars PROVE Printed'
  OBVIOUS
<1>1. ASSUME UNCHANGED <<settled, failed, late, text, doc>>,
             printing' /\ loaded' /\ windowLoaded' /\ Markdown \notin late => pages' = Pieces(doc)
      PROVE  Printed'
  BY <1>1 DEF Printed
<1>2. CASE UNCHANGED loaderVars
  BY <1>1, <1>2 DEF loaderVars, Printed
<1>3. CASE Initialize
  <2>1. ~loaded
    BY <1>3 DEF LoadInv, Staged, Initialize
  <2>2. QED  BY <1>1, <1>3, <2>1 DEF Initialize, Start, NoStart, SetupPDF
<1>4. CASE ReadyTimer
  BY <1>1, <1>4 DEF ReadyTimer, Printed
<1>5. CASE WindowLoad
  BY <1>1, <1>5 DEF WindowLoad, SetupPDF
<1>6. ASSUME NEW on \in BOOLEAN, Configure(on) PROVE Printed'
  BY <1>1, <1>6 DEF Configure, Printed
<1>7. ASSUME NEW s \in Scripts, RunsLate(s) PROVE Printed'
  <2>1. /\ s \in failed /\ late' = late \cup {s} /\ (s # Markdown => doc' = doc)
        /\ UNCHANGED <<settled, failed, text, printing, loaded, windowLoaded, pages>>
    BY <1>7 DEF RunsLate, MadeBy
  <2>2. ProcessSlides(text)' = ProcessSlides(text) /\ Pieces(doc)' = Pieces(doc')
    BY <2>1 DEF ProcessSlides, Pieces
  <2>3. QED  BY <2>1, <2>2 DEF Printed
<1>8. Loading \/ UNCHANGED loaderVars
  BY UsingElsewhere DEF PageNext, vars
<1>9. QED
  BY <1>2, <1>3, <1>4, <1>5, <1>6, <1>7, <1>8, PrintedSettle DEF Loading

\* On a page that loads marked and then markdown before it starts, and gets them
\* in time, a PDF has every piece of any text on a page of its own.
THEOREM PagesAlwaysComplete ==
    ASSUME LabelsMatch, MarkedFirst PROVE PageSpec => []PagesComplete
<1>1. Init => Printed
  BY DEF Init, Printed
<1>2. LoadInv /\ Printed /\ [PageNext]_vars => Printed'
  BY PrintedStep
<1>3. PageSpec => []Printed
  BY <1>1, <1>2, LoadInvariant, PTL DEF PageSpec
<1>4. LoadInv /\ DocOK /\ Printed => PagesComplete
  <2> SUFFICES ASSUME LoadInv, DocOK, Printed, printing, loaded, windowLoaded,
                      Markdown \in settled \ failed, Marked \notin failed
               PROVE  pages = [i \in 1 .. Len(text) + 1 |-> i]
    BY DEF PagesComplete
  <2>1. text \in Seq({"h", "v"})
    BY LoaderAssumption DEF DocOK
  <2>2. Markdown \notin late
    BY Typed DEF LoadInv, ScriptLists
  <2>3. doc = Slidify(text) /\ pages = Pieces(doc)
    BY <2>2 DEF Printed, ProcessSlides
  <2>4. Covers(text, doc)
    BY <2>1, <2>3, SlidifyCovers
  <2>5. QED  BY <2>3, <2>4 DEF Covers
<1>5. QED  BY <1>3, <1>4, DocInvariant, LoadInvariant, PTL
=============================================================================
