---------------------------- MODULE RevealProofs ----------------------------
(***************************************************************************)
(* What holds of a running presentation, and of those who follow it,       *)
(* whatever its slides, fragments and configuration are.  The state of a   *)
(* deck is one record that its functions hand on.  The first part is one   *)
(* lemma for each function: which fields it leaves alone (SameBut), and    *)
(* that a deck which was sound is sound after it.  Every handler is a      *)
(* composition of these functions, so each action keeps the invariants by  *)
(* the lemmas about the functions it calls.                                *)
(***************************************************************************)
EXTENDS Reveal, Mirror, FiniteSetTheorems, SequenceTheorems, TLAPS

Fields == {"cfg", "h", "v", "cur", "prevV", "hcls", "vcls", "shown", "curf", "overview",
           "paused", "homing", "auto", "autoPaused", "timer", "player", "state", "classes",
           "hash", "events", "controls", "progress", "number", "noted", "out"}

\* e is a deck that differs from d in the fields F at most.
SameBut(d, e, F) == DOMAIN d = Fields /\ DOMAIN e = Fields /\ \A k \in Fields \ F : e[k] = d[k]

\* The fields that slide, fragments, classes, counts, arrows and URL do not
\* hang on.
Loose == {"prevV", "overview", "paused", "homing", "auto", "autoPaused", "timer", "player",
          "state", "classes", "out"}

\* A deck whose auto-slide is configured to false never sets the delay.
LooseOK(d) ==
    /\ d.prevV \in [Columns -> Nat]
    /\ d.overview \in BOOLEAN /\ d.paused \in BOOLEAN /\ d.homing \in BOOLEAN
    /\ d.auto \in BOOLEAN /\ d.autoPaused \in BOOLEAN
    /\ d.timer \in BOOLEAN /\ d.player \in BOOLEAN
    /\ d.cfg.autoSlide = "false" => d.auto = FALSE

Classes == {"none", "past", "present", "future"}

FirmOK(d) ==
    /\ DOMAIN d = Fields /\ d.cfg \in ConfigType
    /\ <<d.h, d.v>> \in Slides /\ d.cur \in {<<d.h, d.v>>, NoSlide}
    /\ d.shown \in [Slides -> Nat] /\ d.curf \in Int
    /\ \A s \in Slides : d.shown[s] <= Frags[s]
    /\ d.vcls \in [Children -> Classes]
    /\ d.hash \in HashType /\ d.events \in 0 .. MaxEvents

\* The slides of the stacks that are marked as present.
Present(d) == {s \in Children : d.vcls[s] = "present"}

\* slide() may be called: the deck has its type, and no slide is marked as
\* present but the current one, if there is one yet.
Ready(d) == FirmOK(d) /\ LooseOK(d) /\ Present(d) = {d.cur} \cap Children

Ordered(d) ==
    \A s \in Slides : /\ Before(s, d.cur) => d.shown[s] = Frags[s]
                      /\ Before(d.cur, s) => d.shown[s] = 0

Earlier(s) == {t \in Slides : Before(t, s)}

Counted(d) ==
    /\ d.progress = <<Cardinality(Earlier(d.cur)), d.shown[d.cur]>>
    /\ d.number = <<Cardinality(Earlier(d.cur)) + 1, d.h, d.v>> /\ d.noted = d.cur

InColumn(d) == d.hcls = [x \in Columns |-> Side(x, d.h, d.cfg.rtl)]

Armed(d) == d.controls = EnabledControls(d)

\* A slide is shown, with everything that slide() keeps about it.
Shows(d) == d.cur = <<d.h, d.v>> /\ InColumn(d) /\ Ordered(d) /\ Counted(d) /\ Armed(d)

UrlOK(d) == d.cfg.history /\ d.events = 0 => d.hash.at = d.cur

Steady(d) == Ready(d) /\ Shows(d) /\ UrlOK(d)

TimerOK(d) ==
    LET stopped == d.paused \/ d.overview \/ d.autoPaused
    IN  /\ d.timer => ~stopped
        /\ d.auto /\ ~stopped /\ ~IsLastSlide(d) => d.timer

\* What every function that a handler calls does with a deck that was steady.
Keeps(d, e) == Steady(e) /\ (TimerOK(d) => TimerOK(e))
-----------------------------------------------------------------------------
(***************************************************************************)
(* The presentation.                                                       *)
(***************************************************************************)
\* A pair is a slide when its parts are indices of the presentation.
LEMMA SlidePairs ==
    /\ Width \in Nat \ {0} /\ Columns = 0 .. Width - 1 /\ \A x \in Columns : Stack[x] \in Nat
    /\ \A x, y : <<x, y>> \in Slides <=> x \in Columns /\ y \in Heights(x)
    /\ \A s \in Slides : s = <<s[1], s[2]>> /\ s[1] \in Columns /\ s[2] \in Heights(s[1])
                         /\ s[1] \in Nat /\ s[2] \in Nat
    /\ NoSlide \notin Slides /\ <<0, 0>> \in Slides /\ Children \subseteq Slides
<1>1. Width \in Nat \ {0} /\ Columns = 0 .. Width - 1 /\ \A x \in Columns : Stack[x] \in Nat
  BY SectionsAssumption DEF Columns
<1>2. \A x \in Columns : Heights(x) \subseteq Nat /\ 0 \in Heights(x)
  BY <1>1 DEF Heights, IsStack
<1>3. \A x, y : <<x, y>> \in Slides <=> x \in Columns /\ y \in Heights(x)
  BY DEF Slides
<1>4. \A s \in Slides : s = <<s[1], s[2]>> /\ s[1] \in Columns /\ s[2] \in Heights(s[1])
  BY DEF Slides
<1>5. \A s \in Slides : s[1] \in Nat /\ s[2] \in Nat
  BY <1>1, <1>2, <1>4
<1>6. NoSlide \notin Slides
  BY <1>5 DEF NoSlide
<1>7. <<0, 0>> \in Slides
  BY <1>1, <1>2, <1>3
<1>8. QED  BY <1>1, <1>3, <1>4, <1>5, <1>6, <1>7 DEF Children

\* The slides are in one order.
LEMMA OneOrder ==
    ASSUME NEW s \in Slides, NEW t \in Slides
    PROVE  /\ ~(Before(s, t) /\ Before(t, s)) /\ ~Before(s, s)
           /\ s = t \/ Before(s, t) \/ Before(t, s)
<1>1. s = <<s[1], s[2]>> /\ t = <<t[1], t[2]>> /\ s[1] \in Nat /\ s[2] \in Nat
      /\ t[1] \in Nat /\ t[2] \in Nat
  BY SlidePairs
<1>2. QED  BY <1>1 DEF Before

\* Every slide has a number of groups of fragments.
LEMMA FragsType == Frags \in [Slides -> Nat]
<1> SUFFICES ASSUME NEW s \in Slides PROVE Frags[s] \in Nat
  BY DEF Frags
<1> DEFINE sorted == SortFragments(Given[s])
<1>1. Given[s] \in Seq(Nat \cup {-1})
  BY DeckAssumption
<1>2. DOMAIN sorted = DOMAIN Given[s]
  BY DEF SortFragments
<1>3. IsFiniteSet(DOMAIN sorted)
  <2>1. DOMAIN Given[s] = 1 .. Len(Given[s]) /\ Len(Given[s]) \in Nat
    BY <1>1
  <2>2. QED  BY <1>2, <2>1, FS_Interval
<1> DEFINE groups == {sorted[i] : i \in DOMAIN sorted}
<1>4. sorted \in Surjection(DOMAIN sorted, groups)
  <2>1. sorted = [i \in DOMAIN sorted |-> sorted[i]]
    BY DEF SortFragments
  <2>2. sorted \in [DOMAIN sorted -> groups]
    <3> HIDE DEF sorted
    <3> QED  BY <2>1
  <2> HIDE DEF sorted
  <2>3. QED  BY <2>2 DEF Surjection
<1>5. IsFiniteSet(groups)
  BY <1>3, <1>4, FS_Surjection
<1>6. Frags[s] = Cardinality(groups)
  BY DEF Frags
<1>7. QED  BY <1>5, <1>6, FS_CardinalityType
-----------------------------------------------------------------------------
(***************************************************************************)
(* Fields.                                                                 *)
(***************************************************************************)

\* The fields two steps in a row leave alone.
LEMMA SameTrans ==
    ASSUME NEW d, NEW e, NEW g, NEW F, NEW G, SameBut(d, e, F), SameBut(e, g, G)
    PROVE  SameBut(d, g, F \cup G)
BY DEF SameBut

\* A deck that differs in some fields differs in more at most.
LEMMA SameMore ==
    ASSUME NEW d, NEW e, NEW F, NEW G, SameBut(d, e, F), F \subseteq G
    PROVE  SameBut(d, e, G)
BY DEF SameBut

\* A deck differs from itself in nothing.
LEMMA SameRefl ==
    ASSUME NEW d, NEW F, DOMAIN d = Fields PROVE SameBut(d, d, F)
BY DEF SameBut

\* The arrows hang on where the deck is and what it shows there.
LEMMA SameControls ==
    ASSUME NEW d, NEW e, e.h = d.h, e.v = d.v, e.cur = d.cur, e.shown = d.shown, e.cfg = d.cfg
    PROVE  EnabledControls(e) = EnabledControls(d)
<1>1. Routes(e) = Routes(d) /\ IsVertical(e.cur) = IsVertical(d.cur)
      /\ HasPrevFragment(e) = HasPrevFragment(d) /\ HasNextFragment(e) = HasNextFragment(d)
  BY DEF Routes, HasPrevFragment, HasNextFragment
<1>2. QED  BY <1>1 DEF EnabledControls

\* What hangs on the firm fields is kept when only loose ones change.
LEMMA LooseKeeps ==
    ASSUME NEW d, NEW e, SameBut(d, e, Loose), LooseOK(e)
    PROVE  (Ready(d) => Ready(e)) /\ (Steady(d) => Steady(e))
<1>1. DOMAIN e = Fields /\ e.cfg = d.cfg /\ e.h = d.h /\ e.v = d.v /\ e.cur = d.cur
      /\ e.shown = d.shown /\ e.curf = d.curf /\ e.vcls = d.vcls /\ e.hcls = d.hcls
      /\ e.hash = d.hash /\ e.events = d.events
      /\ e.progress = d.progress /\ e.number = d.number /\ e.noted = d.noted
      /\ e.controls = d.controls
  BY DEF SameBut, Fields, Loose
<1>2. FirmOK(d) => FirmOK(e)
  BY <1>1 DEF FirmOK
<1>3. Present(e) = Present(d)
  BY <1>1 DEF Present
<1>4. Ready(d) => Ready(e)
  BY <1>1, <1>2, <1>3 DEF Ready
<1>5. Shows(d) => Shows(e)
  BY <1>1, SameControls DEF Shows, InColumn, Ordered, Counted, Armed
<1>6. UrlOK(d) => UrlOK(e)
  BY <1>1 DEF UrlOK
<1>7. QED  BY <1>4, <1>5, <1>6 DEF Steady

\* A steady deck shows a slide.
LEMMA SteadyCur ==
    ASSUME NEW d, Steady(d)
    PROVE  /\ d.cur = <<d.h, d.v>> /\ d.cur \in Slides /\ d.cur # NoSlide
           /\ d.cur[1] = d.h /\ d.cur[2] = d.v /\ DOMAIN d = Fields
           /\ d.h \in Columns /\ d.v \in Heights(d.h) /\ d.h \in Nat /\ d.v \in Nat
<1>1. d.cur = <<d.h, d.v>> /\ d.cur \in Slides /\ DOMAIN d = Fields
  BY DEF Steady, Ready, FirmOK, Shows
<1>2. QED  BY <1>1, SlidePairs

\* Sending an event changes nothing but what was sent, and neither does
\* forgetting it.
LEMMA DispatchKeeps ==
    ASSUME NEW d, DOMAIN d = Fields, NEW type, NEW sent
    PROVE  /\ SameBut(d, Dispatch(d, type), {"out"})
           /\ SameBut(d, [d EXCEPT !.out = sent], {"out"})
BY DEF SameBut, Dispatch, Fields

\* What only changes out keeps everything.
LEMMA OutKeeps ==
    ASSUME NEW d, NEW e, SameBut(d, e, {"out"})
    PROVE  (Ready(d) => Ready(e)) /\ (Steady(d) => Steady(e)) /\ (TimerOK(d) => TimerOK(e))
<1>1. SameBut(d, e, Loose)
  BY SameMore DEF Loose
<1>2. e.cfg = d.cfg /\ e.prevV = d.prevV /\ e.overview = d.overview /\ e.paused = d.paused
      /\ e.homing = d.homing /\ e.auto = d.auto /\ e.autoPaused = d.autoPaused
      /\ e.timer = d.timer /\ e.player = d.player /\ e.cur = d.cur
  BY DEF SameBut, Fields
<1>3. LooseOK(d) => LooseOK(e)
  BY <1>2 DEF LooseOK
<1>4. TimerOK(d) => TimerOK(e)
  BY <1>2 DEF TimerOK, IsLastSlide
<1>5. QED  BY <1>1, <1>3, <1>4, LooseKeeps DEF Steady, Ready
-----------------------------------------------------------------------------
(***************************************************************************)
(* Auto-sliding.                                                           *)
(***************************************************************************)
\* cueAutoSlide leaves the timer as it should be.
LEMMA CueKeeps ==
    ASSUME NEW d, Ready(d)
    PROVE  LET e == CueAutoSlide(d)
           IN  /\ SameBut(d, e, {"auto", "timer"}) /\ Ready(e) /\ (Steady(d) => Steady(e))
               /\ d.cur # NoSlide => TimerOK(e)
<1> DEFINE e == CueAutoSlide(d)
<1>1. DOMAIN d = Fields /\ LooseOK(d)
  BY DEF Ready, FirmOK
<1>2. SameBut(d, e, {"auto", "timer"})
  BY <1>1 DEF SameBut, CueAutoSlide, CancelAutoSlide, Fields
<1>3. e.cfg = d.cfg /\ e.prevV = d.prevV /\ e.overview = d.overview /\ e.paused = d.paused
      /\ e.homing = d.homing /\ e.autoPaused = d.autoPaused /\ e.player = d.player
      /\ e.cur = d.cur
  BY <1>2 DEF SameBut, Fields
<1>4. AutoDelay(d) \in BOOLEAN /\ MayAutoSlide(d) \in BOOLEAN
  BY DEF AutoDelay, MayAutoSlide
<1>5. IF d.cur = NoSlide \/ d.cfg.autoSlide = "false"
      THEN e.timer = FALSE /\ e.auto = d.auto
      ELSE e.timer = MayAutoSlide(d) /\ e.auto = AutoDelay(d)
  BY <1>1 DEF CueAutoSlide, CancelAutoSlide, Fields
<1>6. LooseOK(e)
  BY <1>1, <1>3, <1>4, <1>5 DEF LooseOK
<1>7. SameBut(d, e, Loose)
  BY <1>2, SameMore DEF Loose
<1>8. Ready(e) /\ (Steady(d) => Steady(e))
  BY <1>6, <1>7, LooseKeeps
<1>9. d.cur # NoSlide => TimerOK(e)
  <2>1. IsLastSlide(e) = IsLastSlide(d)
    BY <1>3 DEF IsLastSlide
  <2>2. CASE d.cfg.autoSlide = "false"
    BY <1>1, <1>5, <2>2 DEF TimerOK, LooseOK
  <2>3. CASE d.cfg.autoSlide # "false"
    BY <1>1, <1>3, <1>5, <2>1, <2>3 DEF TimerOK, LooseOK, MayAutoSlide
  <2>4. QED  BY <2>2, <2>3
<1>10. QED  BY <1>2, <1>8, <1>9

\* A record of a deck that differs in loose flags.
LEMMA CancelKeeps ==
    ASSUME NEW d, Ready(d)
    PROVE  LET e == CancelAutoSlide(d)
           IN  SameBut(d, e, {"timer"}) /\ Ready(e) /\ (Steady(d) => Steady(e)) /\ e.timer = FALSE
<1> DEFINE e == CancelAutoSlide(d)
<1>1. DOMAIN d = Fields /\ LooseOK(d)
  BY DEF Ready, FirmOK
<1>2. SameBut(d, e, {"timer"}) /\ e.timer = FALSE
  BY <1>1 DEF SameBut, CancelAutoSlide, Fields
<1>3. LooseOK(e)
  BY <1>1 DEF LooseOK, CancelAutoSlide, Fields
<1>4. SameBut(d, e, Loose)
  BY <1>2, SameMore DEF Loose
<1>5. QED  BY <1>2, <1>3, <1>4, LooseKeeps

\* The user stops the auto-slide.
LEMMA PauseAutoKeeps ==
    ASSUME NEW d, Steady(d)
    PROVE  Keeps(d, PauseAutoSlide(d))
<1> DEFINE e == [CancelAutoSlide(d) EXCEPT !.autoPaused = TRUE]
<1>1. DOMAIN d = Fields /\ LooseOK(d)
  BY DEF Steady, Ready, FirmOK
<1>2. SameBut(d, e, {"timer", "autoPaused"}) /\ e.timer = FALSE /\ e.autoPaused = TRUE
  BY <1>1 DEF SameBut, CancelAutoSlide, Fields
<1>3. LooseOK(e)
  BY <1>1 DEF LooseOK, CancelAutoSlide, Fields
<1>4. SameBut(d, e, Loose)
  BY <1>2, SameMore DEF Loose
<1>5. Steady(e)
  BY <1>3, <1>4, LooseKeeps
<1>6. TimerOK(e)
  BY <1>2 DEF TimerOK
<1>7. QED  BY <1>5, <1>6 DEF PauseAutoSlide, Keeps

\* The user lets it go on.
LEMMA ResumeAutoKeeps ==
    ASSUME NEW d, Steady(d)
    PROVE  Keeps(d, ResumeAutoSlide(d))
<1> DEFINE e == [d EXCEPT !.autoPaused = FALSE]
<1>1. DOMAIN d = Fields /\ LooseOK(d)
  BY DEF Steady, Ready, FirmOK
<1>2. SameBut(d, e, {"autoPaused"})
  BY <1>1 DEF SameBut, Fields
<1>3. LooseOK(e)
  BY <1>1 DEF LooseOK, Fields
<1>4. SameBut(d, e, Loose)
  BY <1>2, SameMore DEF Loose
<1>5. Steady(e) /\ Ready(e) /\ e.cur # NoSlide
  BY <1>3, <1>4, LooseKeeps, SteadyCur DEF Steady
<1>6. Steady(CueAutoSlide(e)) /\ TimerOK(CueAutoSlide(e))
  BY <1>5, CueKeeps
<1>7. QED  BY <1>6 DEF ResumeAutoSlide, Keeps

\* Stopping the auto-slide and letting it go on again.
LEMMA ToggleAutoKeeps ==
    ASSUME NEW d, Steady(d), NEW on \in BOOLEAN
    PROVE  Keeps(d, ToggleAutoSlide(d, on))
BY PauseAutoKeeps, ResumeAutoKeeps DEF ToggleAutoSlide

\* What every key, touch and click does first.
LEMMA InputKeeps ==
    ASSUME NEW d, Steady(d)
    PROVE  Keeps(d, OnUserInput(d))
BY PauseAutoKeeps DEF OnUserInput, Keeps
-----------------------------------------------------------------------------
(***************************************************************************)
(* The URL, the counts and the arrows.                                     *)
(***************************************************************************)
\* A hash that is set is that of the deck, or its event is waiting.
LEMMA HashKeeps ==
    ASSUME NEW d, DOMAIN d = Fields, d.events \in 0 .. MaxEvents, NEW hash
    PROVE  LET e == SetHash(d, hash)
           IN  /\ SameBut(d, e, {"hash", "events"}) /\ e.hash = hash
               /\ e.events \in 0 .. MaxEvents /\ (d.hash # hash => e.events > 0)
<1> DEFINE e == SetHash(d, hash)
<1>1. SameBut(d, e, {"hash", "events"})
  BY DEF SameBut, SetHash, Fields
<1>2. e.hash = hash
  BY DEF SetHash, Fields
<1>3. e.events = IF d.hash = hash THEN d.events
                 ELSE IF d.events < MaxEvents THEN d.events + 1 ELSE d.events
  BY DEF SetHash, Fields
<1>4. e.events \in 0 .. MaxEvents /\ (d.hash # hash => e.events > 0)
  BY <1>3, MaxEventsAssumption
<1>5. QED  BY <1>1, <1>2, <1>4

\* writeURL.
LEMMA WriteKeeps ==
    ASSUME NEW d, Ready(d)
    PROVE  LET e == WriteURL(d)
           IN  /\ SameBut(d, e, {"hash", "events"}) /\ Ready(e)
               /\ d.cur # NoSlide => UrlOK(e)
               /\ Shows(d) => Shows(e)
<1> DEFINE hash == IF d.cur \in Named THEN NameHash(d.cur) ELSE IndexHash(d.h, d.v)
           e == WriteURL(d)
<1>1. DOMAIN d = Fields /\ FirmOK(d) /\ LooseOK(d)
  BY DEF Ready, FirmOK
<1>2. d.cur # NoSlide => hash \in HashType /\ hash.at = d.cur
  <2>1. SUFFICES ASSUME d.cur = <<d.h, d.v>> PROVE hash \in HashType /\ hash.at = d.cur
    BY <1>1 DEF FirmOK
  <2>2. d.h \in Int /\ d.v \in Int
    BY <1>1, SlidePairs DEF FirmOK
  <2>3. QED  BY <2>1, <2>2 DEF HashType, NameHash, IndexHash
<1>3. e = IF ~d.cfg.history \/ d.cur = NoSlide THEN d ELSE SetHash(d, hash)
  BY DEF WriteURL
<1>4. SameBut(d, e, {"hash", "events"}) /\ e.events \in 0 .. MaxEvents /\ e.hash \in HashType
  <2>1. CASE ~d.cfg.history \/ d.cur = NoSlide
    BY <1>1, <1>3, <2>1, SameRefl DEF FirmOK
  <2>2. CASE ~(~d.cfg.history \/ d.cur = NoSlide)
    <3>1. e = SetHash(d, hash) /\ hash \in HashType
      BY <1>2, <1>3, <2>2
    <3> HIDE DEF hash, e
    <3>2. QED  BY <1>1, <3>1, HashKeeps DEF FirmOK
  <2>3. QED  BY <2>1, <2>2
<1>5. e.cfg = d.cfg /\ e.h = d.h /\ e.v = d.v /\ e.cur = d.cur /\ e.shown = d.shown
      /\ e.curf = d.curf /\ e.vcls = d.vcls /\ e.hcls = d.hcls /\ e.prevV = d.prevV
      /\ e.overview = d.overview /\ e.paused = d.paused /\ e.homing = d.homing
      /\ e.auto = d.auto /\ e.autoPaused = d.autoPaused /\ e.timer = d.timer
      /\ e.player = d.player /\ e.progress = d.progress /\ e.number = d.number
      /\ e.noted = d.noted /\ e.controls = d.controls
  BY <1>4 DEF SameBut, Fields
<1>6. DOMAIN e = Fields
  BY <1>4 DEF SameBut
<1>7. FirmOK(e)
  BY <1>1, <1>4, <1>5, <1>6 DEF FirmOK
<1>8. LooseOK(e) /\ Present(e) = Present(d)
  BY <1>1, <1>5 DEF LooseOK, Present
<1>9. d.cur # NoSlide => UrlOK(e)
  <2>1. SUFFICES ASSUME d.cur # NoSlide, d.cfg.history PROVE e.hash.at = e.cur
    BY <1>5 DEF UrlOK
  <2>2. e.hash = hash
    BY <1>1, <1>3, <2>1, HashKeeps DEF FirmOK
  <2>3. QED  BY <1>2, <1>5, <2>1, <2>2
<1>10. Shows(d) => Shows(e)
  BY <1>5, SameControls DEF Shows, InColumn, Ordered, Counted, Armed
<1>11. QED  BY <1>4, <1>5, <1>7, <1>8, <1>9, <1>10 DEF Ready

\* A deck whose classes mark the current slide.
Marks(d) == /\ d.cur = <<d.h, d.v>> /\ d.cur \in Slides /\ InColumn(d)
            /\ Present(d) = {d.cur} \cap Children

\* getSlidePastCount, which reads the classes, counts the slides before the
\* current one.
LEMMA PastIsEarlier ==
    ASSUME NEW d, Marks(d)
    PROVE  PastCount(d) = Cardinality(Earlier(d.cur))
<1> DEFINE past == {s \in Slides :
                      /\ \A t \in Slides : (t = s \/ Before(t, s)) => ~Marked(d, t)
                      /\ \A x \in Columns : x < s[1] => d.hcls[x] # "present"}
<1>1. d.cur = <<d.h, d.v>> /\ d.cur \in Slides /\ d.cur[1] = d.h /\ d.cur[2] = d.v
      /\ d.h \in Columns /\ d.v \in Heights(d.h) /\ d.h \in Nat /\ d.v \in Nat
  BY SlidePairs DEF Marks
<1>2. \A x \in Columns : d.hcls[x] = "present" <=> x = d.h
  BY DEF Marks, InColumn, Side
<1>3. \A t \in Slides : Marked(d, t) <=> t = d.cur
  <2>1. TAKE t \in Slides
  <2>2. t = <<t[1], t[2]>> /\ t[1] \in Columns /\ t[2] \in Heights(t[1])
    BY SlidePairs
  <2>3. CASE IsStack(t[1])
    <3>1. t \in Children
      BY <2>3 DEF Children
    <3>2. Marked(d, t) <=> t \in Present(d)
      BY <2>3, <3>1 DEF Marked, Present
    <3>3. QED  BY <3>1, <3>2 DEF Marks
  <2>4. CASE ~IsStack(t[1])
    <3>1. Marked(d, t) <=> t[1] = d.h
      BY <1>2, <2>2, <2>4 DEF Marked
    <3>2. t[2] = 0
      BY <2>2, <2>4 DEF Heights
    <3>3. t[1] = d.h => d.v = 0
      BY <1>1, <2>4 DEF Heights
    <3>4. QED  BY <1>1, <2>2, <3>1, <3>2, <3>3
  <2>5. QED  BY <2>3, <2>4
<1>4. past = Earlier(d.cur)
  <2>1. SUFFICES ASSUME NEW s \in Slides PROVE s \in past <=> Before(s, d.cur)
    BY DEF Earlier
  <2>2. s[1] \in Nat /\ s[2] \in Nat /\ s[1] \in Columns
    BY SlidePairs
  <2>3. CASE Before(s, d.cur)
    <3>1. \A t \in Slides : (t = s \/ Before(t, s)) => t # d.cur
      BY <1>1, <2>3, OneOrder
    <3>2. \A x \in Columns : x < s[1] => x # d.h
      BY <1>1, <2>2, <2>3, SlidePairs DEF Before
    <3>3. QED  BY <1>2, <1>3, <2>3, <3>1, <3>2
  <2>4. CASE ~Before(s, d.cur)
    <3>1. d.cur = s \/ Before(d.cur, s)
      BY <1>1, <2>4, OneOrder
    <3>2. QED  BY <1>1, <1>3, <2>4, <3>1
  <2>5. QED  BY <2>3, <2>4
<1>5. PastCount(d) = Cardinality(past)
  BY DEF PastCount
<1>6. QED  BY <1>4, <1>5

\* Updating the arrows, the progress, the number and the notes.
LEMMA UpdateFields ==
    ASSUME NEW d, DOMAIN d = Fields
    PROVE  /\ SameBut(d, UpdateControls(d), {"controls"})
           /\ UpdateControls(d).controls = EnabledControls(d)
           /\ SameBut(d, UpdateProgress(d), {"progress"})
           /\ UpdateProgress(d).progress =
                  <<PastCount(d), IF d.cur = NoSlide THEN 0 ELSE d.shown[d.cur]>>
           /\ SameBut(d, UpdateSlideNumber(d), {"number"})
           /\ UpdateSlideNumber(d).number = <<PastCount(d) + 1, d.h, d.v>>
           /\ SameBut(d, UpdateNotes(d), {"noted"}) /\ UpdateNotes(d).noted = d.cur
<1>1. SameBut(d, UpdateControls(d), {"controls"})
      /\ UpdateControls(d).controls = EnabledControls(d)
  BY DEF SameBut, UpdateControls, Fields
<1>2. SameBut(d, UpdateProgress(d), {"progress"})
      /\ UpdateProgress(d).progress =
             <<PastCount(d), IF d.cur = NoSlide THEN 0 ELSE d.shown[d.cur]>>
  BY DEF SameBut, UpdateProgress, Fields
<1>3. SameBut(d, UpdateSlideNumber(d), {"number"})
      /\ UpdateSlideNumber(d).number = <<PastCount(d) + 1, d.h, d.v>>
  BY DEF SameBut, UpdateSlideNumber, Fields
<1>4. SameBut(d, UpdateNotes(d), {"noted"}) /\ UpdateNotes(d).noted = d.cur
  BY DEF SameBut, UpdateNotes, Fields
<1>5. QED  BY <1>1, <1>2, <1>3, <1>4

\* What slide() and sync() update at their end.
Updated(d) == UpdateNotes(UpdateSlideNumber(UpdateProgress(UpdateControls(d))))
Updates == {"controls", "progress", "number", "noted"}

\* Afterwards the counts and the arrows are those of the current slide.
LEMMA UpdatedKeeps ==
    ASSUME NEW d, DOMAIN d = Fields
    PROVE  LET e == Updated(d)
           IN  SameBut(d, e, Updates) /\ Armed(e) /\ (Marks(d) => Counted(e))
<1> DEFINE a == UpdateControls(d)
           b == UpdateProgress(a)
           c == UpdateSlideNumber(b)
           e == UpdateNotes(c)
<1>1. SameBut(d, a, {"controls"}) /\ DOMAIN a = Fields /\ a.controls = EnabledControls(d)
  BY UpdateFields DEF SameBut
<1>2. SameBut(a, b, {"progress"}) /\ DOMAIN b = Fields
      /\ b.progress = <<PastCount(a), IF a.cur = NoSlide THEN 0 ELSE a.shown[a.cur]>>
  <2> HIDE DEF a
  <2>1. QED  BY <1>1, UpdateFields DEF SameBut
<1>3. SameBut(b, c, {"number"}) /\ DOMAIN c = Fields
      /\ c.number = <<PastCount(b) + 1, b.h, b.v>>
  <2> HIDE DEF a, b
  <2>1. QED  BY <1>2, UpdateFields DEF SameBut
<1>4. SameBut(c, e, {"noted"}) /\ e.noted = c.cur
  <2> HIDE DEF a, b, c
  <2>1. QED  BY <1>3, UpdateFields DEF SameBut
<1> HIDE DEF a, b, c, e
<1>5. SameBut(d, e, Updates)
  BY <1>1, <1>2, <1>3, <1>4 DEF SameBut, Updates
<1>6. ASSUME Marks(d) PROVE Counted(e)
  <2>1. Marks(a) /\ Marks(b)
    <3>1. a.cur = d.cur /\ a.h = d.h /\ a.v = d.v /\ a.hcls = d.hcls /\ a.vcls = d.vcls
          /\ a.cfg = d.cfg
      BY <1>1 DEF SameBut, Fields
    <3>2. b.cur = d.cur /\ b.h = d.h /\ b.v = d.v /\ b.hcls = d.hcls /\ b.vcls = d.vcls
          /\ b.cfg = d.cfg
      BY <1>2, <3>1 DEF SameBut, Fields
    <3>3. QED  BY <1>6, <3>1, <3>2 DEF Marks, InColumn, Present
  <2>2. e.cur = a.cur /\ e.cur = b.cur /\ e.h = b.h /\ e.v = b.v /\ e.shown = a.shown
        /\ e.noted = e.cur /\ e.number = c.number /\ e.progress = b.progress
    BY <1>2, <1>3, <1>4 DEF SameBut, Fields
  <2>3. a.cur # NoSlide
    BY <2>1, SlidePairs DEF Marks
  <2>4. PastCount(a) = Cardinality(Earlier(e.cur)) /\ PastCount(b) = Cardinality(Earlier(e.cur))
    BY <2>1, <2>2, PastIsEarlier
  <2>5. QED  BY <1>2, <1>3, <2>2, <2>3, <2>4 DEF Counted
<1>7. Armed(e)
  <2>1. e.controls = a.controls /\ e.h = d.h /\ e.v = d.v /\ e.cur = d.cur
        /\ e.shown = d.shown /\ e.cfg = d.cfg
    BY <1>1, <1>2, <1>3, <1>4 DEF SameBut, Fields
  <2>2. QED  BY <1>1, <2>1, SameControls DEF Armed
<1>8. QED  BY <1>5, <1>6, <1>7 DEF Updated, e, a, b, c
-----------------------------------------------------------------------------
(***************************************************************************)
(* Fragments.                                                              *)
(***************************************************************************)
\* Only the fragments of the current slide change.
LEMMA FragmentFields ==
    ASSUME NEW d, DOMAIN d = Fields, d.cur \in Slides, d.shown \in [Slides -> Nat],
           d.curf \in Int, NEW index \in Int
    PROVE  LET e == NavigateFragment(d, index)
           IN  /\ SameBut(d, e, {"shown", "curf", "out", "controls", "progress"})
               /\ e.shown \in [Slides -> Nat] /\ e.curf \in Int
               /\ \A s \in Slides \ {d.cur} : e.shown[s] = d.shown[s]
               /\ e.shown[d.cur] <= Frags[d.cur] \/ e = d
               /\ \/ e = d
                  \/ e.progress = <<PastCount(e), e.shown[e.cur]>> /\ Armed(e)
<1> DEFINE a == ShowGroups(d, index)
           b == AnnounceFragments(d, a)
           c == UpdateControls(b)
           e == UpdateProgress(c)
<1>1. SameBut(d, a, {"shown", "curf"}) /\ a.shown \in [Slides -> Nat] /\ a.curf \in Int
      /\ (\A s \in Slides \ {d.cur} : a.shown[s] = d.shown[s])
      /\ a.shown[d.cur] <= Frags[d.cur]
  <2>1. Frags[d.cur] \in Nat
    BY FragsType
  <2>2. SameBut(d, a, {"shown", "curf"})
    BY DEF SameBut, ShowGroups, Fields
  <2>3. a.curf \in Int
    BY <2>1 DEF ShowGroups, Fields
  <2> DEFINE n == IF index < 0 THEN 0
                  ELSE IF index >= Frags[d.cur] THEN Frags[d.cur] ELSE index + 1
  <2>4. n \in Nat /\ n <= Frags[d.cur]
    BY <2>1
  <2>5. a.shown = [d.shown EXCEPT ![d.cur] = n]
    BY DEF ShowGroups, Fields
  <2> HIDE DEF n
  <2>6. QED  BY <2>2, <2>3, <2>4, <2>5
<1>2. SameBut(a, b, {"out"})
  <2>1. DOMAIN a = Fields
    BY <1>1 DEF SameBut
  <2> HIDE DEF a
  <2>2. QED  BY <2>1, DispatchKeeps, SameRefl DEF AnnounceFragments
<1>3. SameBut(b, c, {"controls"}) /\ DOMAIN c = Fields /\ c.controls = EnabledControls(b)
  <2> HIDE DEF a, b
  <2>1. QED  BY <1>2, UpdateFields DEF SameBut
<1>4. SameBut(c, e, {"progress"})
      /\ e.progress = <<PastCount(c), IF c.cur = NoSlide THEN 0 ELSE c.shown[c.cur]>>
  <2> HIDE DEF a, b, c
  <2>1. QED  BY <1>3, UpdateFields
<1> HIDE DEF a, b, c, e
<1>5. SameBut(d, e, {"shown", "curf", "out", "controls", "progress"})
  BY <1>1, <1>2, <1>3, <1>4 DEF SameBut
<1>6. e.shown = a.shown /\ e.curf = a.curf /\ e.shown = c.shown /\ e.cur = c.cur /\ e.cur = d.cur
      /\ e.vcls = c.vcls /\ e.hcls = c.hcls
  BY <1>1, <1>2, <1>3, <1>4 DEF SameBut, Fields
<1>7. e.progress = <<PastCount(e), e.shown[e.cur]>> /\ Armed(e)
  <2>0. Armed(e)
    <3>1. e.controls = c.controls /\ e.h = b.h /\ e.v = b.v /\ e.cur = b.cur
          /\ e.shown = b.shown /\ e.cfg = b.cfg
      BY <1>3, <1>4 DEF SameBut, Fields
    <3>2. QED  BY <1>3, <3>1, SameControls DEF Armed
  <2>1. c.cur # NoSlide
    BY <1>6, SlidePairs
  <2>2. \A t : Marked(c, t) <=> Marked(e, t)
    BY <1>6 DEF Marked
  <2>3. PastCount(c) = PastCount(e)
    BY <1>6, <2>2 DEF PastCount
  <2>4. QED  BY <1>4, <1>6, <2>0, <2>1, <2>3
<1>8. NavigateFragment(d, index) = d \/ NavigateFragment(d, index) = e
  BY DEF NavigateFragment, e, c, b, a
<1>9. QED  BY <1>1, <1>5, <1>6, <1>7, <1>8, SameRefl

\* navigateFragment keeps what slide() has made.
LEMMA FragmentKeeps ==
    ASSUME NEW d, Steady(d), NEW index \in Int
    PROVE  Keeps(d, NavigateFragment(d, index))
<1> DEFINE e == NavigateFragment(d, index)
<1>1. FirmOK(d) /\ LooseOK(d) /\ d.shown \in [Slides -> Nat] /\ d.curf \in Int
      /\ Present(d) = {d.cur} \cap Children /\ Shows(d) /\ UrlOK(d)
  BY DEF Steady, Ready, FirmOK
<1>2. d.cur = <<d.h, d.v>> /\ d.cur \in Slides /\ d.cur # NoSlide /\ DOMAIN d = Fields
  BY SteadyCur
<1> HIDE DEF e
<1>3. /\ SameBut(d, e, {"shown", "curf", "out", "controls", "progress"})
      /\ e.shown \in [Slides -> Nat] /\ e.curf \in Int
      /\ \A s \in Slides \ {d.cur} : e.shown[s] = d.shown[s]
      /\ e.shown[d.cur] <= Frags[d.cur] \/ e = d
      /\ e = d \/ (e.progress = <<PastCount(e), e.shown[e.cur]>> /\ Armed(e))
  BY <1>1, <1>2, FragmentFields DEF e
<1>4. DOMAIN e = Fields /\ e.cfg = d.cfg /\ e.h = d.h /\ e.v = d.v /\ e.cur = d.cur
      /\ e.vcls = d.vcls /\ e.hcls = d.hcls /\ e.hash = d.hash /\ e.events = d.events
      /\ e.prevV = d.prevV /\ e.overview = d.overview /\ e.paused = d.paused
      /\ e.homing = d.homing /\ e.auto = d.auto /\ e.autoPaused = d.autoPaused
      /\ e.timer = d.timer /\ e.player = d.player /\ e.number = d.number /\ e.noted = d.noted
  BY <1>3 DEF SameBut, Fields
<1>5. FirmOK(e)
  BY <1>1, <1>3, <1>4 DEF FirmOK
<1>6. LooseOK(e) /\ UrlOK(e) /\ Present(e) = Present(d) /\ InColumn(e)
  BY <1>1, <1>4 DEF LooseOK, UrlOK, Present, Shows, InColumn
<1>7. Ordered(e)
  BY <1>1, <1>2, <1>3, <1>4, OneOrder DEF Shows, Ordered
<1>8. Marks(e)
  BY <1>1, <1>2, <1>4, <1>6 DEF Marks
<1>9. Counted(e) /\ Armed(e)
  <2>1. CASE e = d
    BY <1>1, <2>1 DEF Shows
  <2>2. CASE e.progress = <<PastCount(e), e.shown[e.cur]>> /\ Armed(e)
    BY <1>1, <1>4, <1>8, <2>2, PastIsEarlier DEF Shows, Counted
  <2>3. QED  BY <1>3, <2>1, <2>2
<1>10. Steady(e)
  BY <1>1, <1>2, <1>4, <1>5, <1>6, <1>7, <1>9 DEF Steady, Ready, Shows
<1>11. TimerOK(d) => TimerOK(e)
  BY <1>4 DEF TimerOK, IsLastSlide
<1>12. QED  BY <1>10, <1>11 DEF Keeps, e
-----------------------------------------------------------------------------
(***************************************************************************)
(* slide().                                                                *)
(***************************************************************************)
\* An index is brought into its range.
LEMMA BoundedIn ==
    ASSUME NEW d, d.cfg \in ConfigType, NEW i \in Int, NEW n \in Nat
    PROVE  IF n = 0 THEN Bounded(d, i, n) = 0 ELSE Bounded(d, i, n) \in 0 .. n - 1
<1>1. n # 0 => i % n \in 0 .. n - 1
  OBVIOUS
<1>2. QED  BY <1>1 DEF Bounded

\* The deck at the slide that slide() was asked for.
There(d, h, v) == AtSlide(ApplyStates(UpdateSlides(SetPreviousV(d), h, v)))
ThereFields == {"prevV", "h", "v", "hcls", "vcls", "shown", "curf", "state", "classes", "cur"}

\* The classes of the stacks' slides when slide() has marked those of the new
\* column.
Remarked(d, t) == [s \in Children |-> IF s[1] = t.h THEN Side(s[2], t.v, FALSE) ELSE d.vcls[s]]

\* The slide that slide() shows for two indices, and the fragments it leaves.
GoesTo(d, h, v) == LET x == Bounded(d, h, Width) IN <<x, Bounded(d, v, Stack[x])>>
ShownAt(d, s) == [t \in Slides |-> IF Before(t, s) THEN Frags[t]
                                   ELSE IF t = s THEN d.shown[t] ELSE 0]

\* It is a slide, its column is marked, and the fragments before and after it
\* are shown and hidden.
LEMMA ThereIs ==
    ASSUME NEW d, Ready(d), NEW h \in Int, NEW v \in Int
    PROVE  LET t == There(d, h, v)
           IN  /\ SameBut(d, t, ThereFields) /\ t.prevV \in [Columns -> Nat]
               /\ <<t.h, t.v>> \in Slides /\ t.cur = <<t.h, t.v>>
               /\ InColumn(t) /\ Ordered(t)
               /\ t.shown \in [Slides -> Nat] /\ t.curf \in Int
               /\ \A s \in Slides : t.shown[s] <= Frags[s]
               /\ t.vcls \in [Children -> Classes]
               /\ t.vcls = Remarked(d, t)
               /\ t.cur = GoesTo(d, h, v) /\ t.shown = ShownAt(d, t.cur)
               /\ t.prevV = SetPreviousV(d).prevV
               /\ t.curf = -1 \/ (t.cur = d.cur /\ t.curf = d.curf)
<1> DEFINE a == SetPreviousV(d)
           b == UpdateSlides(a, h, v)
           c == ApplyStates(b)
           t == AtSlide(c)
<1>1. DOMAIN d = Fields /\ FirmOK(d) /\ LooseOK(d)
  BY DEF Ready, FirmOK
<1>2. SameBut(d, a, {"prevV"}) /\ a.prevV \in [Columns -> Nat]
  <2>1. CASE IsVertical(d.cur)
    <3>1. d.cur = <<d.h, d.v>> /\ d.v \in Nat
      BY <1>1, <2>1, SlidePairs DEF FirmOK, IsVertical
    <3>2. SameBut(d, a, {"prevV"})
      BY <1>1, <2>1 DEF SetPreviousV, SameBut, Fields
    <3>3. a.prevV = [d.prevV EXCEPT ![d.cur[1]] = d.v]
      BY <1>1, <2>1 DEF SetPreviousV, Fields
    <3>4. QED  BY <1>1, <3>1, <3>2, <3>3 DEF LooseOK
  <2>2. CASE ~IsVertical(d.cur)
    BY <1>1, <2>2, SameRefl DEF SetPreviousV, LooseOK
  <2>3. QED  BY <2>1, <2>2
<1> HIDE DEF a
<1>3. DOMAIN a = Fields /\ a.cfg = d.cfg /\ a.cfg \in ConfigType /\ a.shown = d.shown
      /\ a.vcls = d.vcls /\ a.curf = d.curf /\ a.cur = d.cur
  BY <1>1, <1>2 DEF SameBut, Fields, FirmOK
<1> DEFINE x == Bounded(a, h, Width)
           y == Bounded(a, v, Stack[x])
<1>4. <<x, y>> \in Slides
  <2>1. x \in Columns
    BY <1>3, BoundedIn, SlidePairs
  <2> HIDE DEF x
  <2>2. Stack[x] \in Nat
    BY <2>1, SlidePairs
  <2>3. y \in Heights(x)
    BY <1>3, <2>2, BoundedIn DEF Heights, IsStack
  <2> HIDE DEF y
  <2>4. QED  BY <2>1, <2>3, SlidePairs
<1>5. /\ SameBut(a, b, {"h", "v", "hcls", "vcls", "shown", "curf"})
      /\ b.h = x /\ b.v = y /\ b.hcls = [k \in Columns |-> Side(k, x, a.cfg.rtl)]
      /\ b.vcls = [s \in Children |-> IF s[1] = x THEN Side(s[2], y, FALSE) ELSE a.vcls[s]]
      /\ b.shown = [s \in Slides |-> IF Before(s, <<x, y>>) THEN Frags[s]
                                     ELSE IF s = <<x, y>> THEN a.shown[s] ELSE 0]
      /\ b.curf = IF <<x, y>> = a.cur THEN a.curf ELSE -1
  <2>1. SameBut(a, b, {"h", "v", "hcls", "vcls", "shown", "curf"})
    BY <1>3 DEF UpdateSlides, SameBut, Fields
  <2>2. b.h = x /\ b.v = y /\ b.hcls = [k \in Columns |-> Side(k, x, a.cfg.rtl)]
        /\ b.vcls = [s \in Children |-> IF s[1] = x THEN Side(s[2], y, FALSE) ELSE a.vcls[s]]
    BY <1>3 DEF UpdateSlides, Fields
  <2>3. b.shown = [s \in Slides |-> IF Before(s, <<x, y>>) THEN Frags[s]
                                    ELSE IF s = <<x, y>> THEN a.shown[s] ELSE 0]
        /\ b.curf = IF <<x, y>> = a.cur THEN a.curf ELSE -1
    BY <1>3 DEF UpdateSlides, Fields
  <2>4. QED  BY <2>1, <2>2, <2>3
<1> HIDE DEF b, x, y
<1>6. SameBut(b, c, {"state", "classes"})
  <2>1. DOMAIN b = Fields
    BY <1>5 DEF SameBut
  <2>2. QED  BY <2>1 DEF ApplyStates, SameBut, Fields
<1> HIDE DEF c
<1>7. SameBut(c, t, {"cur"}) /\ t.cur = <<c.h, c.v>>
  <2>1. DOMAIN c = Fields
    BY <1>6 DEF SameBut
  <2>2. QED  BY <2>1 DEF AtSlide, SameBut, Fields
<1> HIDE DEF t
<1>8. SameBut(d, t, ThereFields)
  BY <1>2, <1>5, <1>6, <1>7 DEF SameBut, ThereFields
<1>9. t.prevV = a.prevV /\ t.h = x /\ t.v = y /\ t.cur = <<x, y>> /\ t.hcls = b.hcls
      /\ t.vcls = b.vcls /\ t.shown = b.shown /\ t.curf = b.curf /\ t.cfg = a.cfg
  BY <1>5, <1>6, <1>7 DEF SameBut, Fields
<1>10. InColumn(t)
  BY <1>5, <1>9 DEF InColumn
<1>11. Ordered(t)
  BY <1>4, <1>5, <1>9, OneOrder DEF Ordered
<1>12. t.shown \in [Slides -> Nat] /\ \A s \in Slides : t.shown[s] <= Frags[s]
  BY <1>1, <1>3, <1>5, <1>9, FragsType DEF FirmOK
<1>13. t.curf \in Int
  BY <1>1, <1>3, <1>5, <1>9 DEF FirmOK
<1>14. t.vcls = Remarked(d, t)
  BY <1>3, <1>5, <1>9 DEF Remarked
<1>15. t.vcls \in [Children -> Classes]
  <2>1. \A s \in Children : d.vcls[s] \in Classes
    BY <1>1 DEF FirmOK
  <2>2. \A s \in Children : Side(s[2], t.v, FALSE) \in Classes
    BY DEF Side, Classes
  <2>3. QED  BY <1>14, <2>1, <2>2 DEF Remarked
<1>16. There(d, h, v) = t
  BY DEF There, t, c, b, a
<1>17. <<t.h, t.v>> \in Slides /\ t.cur = <<t.h, t.v>> /\ t.prevV \in [Columns -> Nat]
  BY <1>2, <1>4, <1>9
<1>18. t.cur = GoesTo(d, h, v) /\ t.shown = ShownAt(d, t.cur)
  <2>1. x = Bounded(d, h, Width) /\ y = Bounded(d, v, Stack[x])
    BY <1>3 DEF x, y, Bounded
  <2>2. t.cur = GoesTo(d, h, v)
    BY <1>9, <2>1 DEF GoesTo
  <2>3. t.shown = ShownAt(d, t.cur)
    BY <1>3, <1>5, <1>9 DEF ShownAt
  <2>4. QED  BY <2>2, <2>3
<1>19. t.prevV = SetPreviousV(d).prevV
  BY <1>9 DEF a
<1>20. t.curf = -1 \/ (t.cur = d.cur /\ t.curf = d.curf)
  BY <1>3, <1>5, <1>9
<1>21. QED  BY <1>8, <1>10, <1>11, <1>12, <1>13, <1>14, <1>15, <1>16, <1>17, <1>18, <1>19, <1>20

\* A slide that is left loses its class, so that only the new one is marked.
LEMMA ChangedIs ==
    ASSUME NEW d, Ready(d), NEW n, DOMAIN n = Fields, n.homing \in BOOLEAN,
           <<n.h, n.v>> \in Slides, n.cur = <<n.h, n.v>>,
           n.vcls \in [Children -> Classes],
           n.vcls = Remarked(d, n)
    PROVE  LET g == SlideChanged(d, n)
           IN  /\ SameBut(n, g, {"out", "vcls", "homing"}) /\ g.homing \in BOOLEAN
               /\ g.vcls \in [Children -> Classes] /\ Present(g) = {g.cur} \cap Children
<1> DEFINE sent == Dispatch(n, "slidechanged")
           left == LeaveSlide(sent, d.cur)
<1>1. FirmOK(d) /\ d.vcls \in [Children -> Classes] /\ Present(d) = {d.cur} \cap Children
      /\ d.cur \in {<<d.h, d.v>>, NoSlide}
  BY DEF Ready, FirmOK
<1>2. \A s \in Children : s = <<s[1], s[2]>>
  BY SlidePairs
<1>3. \A s \in Children : s[1] = n.h => (n.vcls[s] = "present" <=> s = n.cur)
  <2>1. TAKE s \in Children
  <2>2. HAVE s[1] = n.h
  <2>3. n.vcls[s] = Side(s[2], n.v, FALSE)
    BY <2>2 DEF Remarked
  <2>4. QED  BY <1>2, <2>2, <2>3 DEF Side
<1>4. \A s \in Children : s[1] # n.h => (n.vcls[s] = "present" <=> s = d.cur)
  <2>1. TAKE s \in Children
  <2>2. HAVE s[1] # n.h
  <2>3. n.vcls[s] = d.vcls[s]
    BY <2>2 DEF Remarked
  <2>4. d.vcls[s] = "present" <=> s = d.cur
    BY <1>1 DEF Present
  <2>5. QED  BY <2>3, <2>4
<1>5. \A s \in Children : s = n.cur => s[1] = n.h
  OBVIOUS
<1>6. CASE n.h = d.h /\ n.v = d.v
  <2>1. SlideChanged(d, n) = n
    BY <1>6 DEF SlideChanged
  <2>2. \A s \in Children : s = d.cur => s[1] = n.h
    <3>1. \A s \in Children : s # NoSlide
      BY SlidePairs
    <3>2. QED  BY <1>1, <1>6, <3>1
  <2>3. Present(n) = {n.cur} \cap Children
    BY <1>3, <1>4, <1>5, <2>2 DEF Present
  <2>4. QED  BY <2>1, <2>3, SameRefl
<1>7. CASE ~(n.h = d.h /\ n.v = d.v)
  <2>1. SlideChanged(d, n) = left
    BY <1>7 DEF SlideChanged
  <2>2. SameBut(n, sent, {"out"}) /\ DOMAIN sent = Fields
    BY DispatchKeeps DEF SameBut
  <2> HIDE DEF sent
  <2>3. sent.vcls = n.vcls /\ sent.homing = n.homing /\ sent.cur = n.cur
    BY <2>2 DEF SameBut, Fields
  <2>4. CASE d.cur = NoSlide
    <3>1. left = sent
      BY <2>4 DEF LeaveSlide
    <3>2. \A s \in Children : s # d.cur
      BY <2>4, SlidePairs
    <3>3. Present(left) = {left.cur} \cap Children
      <4>1. left.vcls = n.vcls /\ left.cur = n.cur
        BY <2>3, <3>1
      <4>2. \A s \in Children : n.vcls[s] = "present" <=> s = n.cur
        BY <1>3, <1>4, <1>5, <3>2
      <4> HIDE DEF left
      <4>3. QED  BY <4>1, <4>2 DEF Present
    <3>4. SameBut(n, left, {"out", "vcls", "homing"})
      BY <2>2, <3>1, SameMore
    <3>5. left.vcls = n.vcls /\ left.homing = n.homing
      BY <2>3, <3>1
    <3> HIDE DEF left
    <3>6. QED  BY <2>1, <3>3, <3>4, <3>5
  <2>5. CASE d.cur # NoSlide
    <3>1. d.cur = <<d.h, d.v>> /\ d.cur # n.cur
      BY <1>1, <1>7, <2>5
    <3>2. SameBut(sent, left, {"vcls", "homing"})
      BY <2>2, <2>5 DEF LeaveSlide, SameBut, Fields
    <3>3. left.vcls = [s \in Children |-> IF s = d.cur /\ n.vcls[s] = "present" THEN "none"
                                          ELSE n.vcls[s]]
      BY <2>2, <2>3, <2>5 DEF LeaveSlide, Fields
    <3>4. left.homing = (n.homing \/ sent.hcls[0] = "present")
      BY <2>2, <2>3, <2>5 DEF LeaveSlide, Fields
    <3>5. left.homing \in BOOLEAN
      BY <3>4
    <3>6. SameBut(n, left, {"out", "vcls", "homing"}) /\ left.cur = n.cur
      BY <2>2, <3>2 DEF SameBut, Fields
    <3> HIDE DEF left
    <3>7. left.vcls \in [Children -> Classes]
      BY <3>3 DEF Classes
    <3>8. Present(left) = {left.cur} \cap Children
      <4>1. \A s \in Children : left.vcls[s] = "present" <=> (n.vcls[s] = "present" /\ s # d.cur)
        BY <3>3
      <4>2. \A s \in Children : left.vcls[s] = "present" <=> s = n.cur
        <5>1. TAKE s \in Children
        <5>2. CASE s[1] = n.h
          BY <1>3, <3>1, <4>1, <5>2
        <5>3. CASE s[1] # n.h
          BY <1>4, <1>5, <4>1, <5>3
        <5>4. QED  BY <5>2, <5>3
      <4>3. QED  BY <3>6, <4>2 DEF Present
    <3>9. QED  BY <2>1, <3>5, <3>6, <3>7, <3>8
  <2>6. QED  BY <2>4, <2>5
<1>8. QED  BY <1>6, <1>7

\* An index of a column is entered at an index.
LEMMA PreviousIn ==
    ASSUME NEW d, d.prevV \in [Columns -> Nat], NEW h
    PROVE  PreviousV(d, h) \in Int
<1>1. \A x \in Columns : StartV[x] \in Int
  BY DeckAssumption
<1>2. QED  BY <1>1 DEF PreviousV

\* slide() leaves a steady deck, with the timer as it should be, whatever the
\* indices are and whatever the deck was, as long as no slide but the current
\* one was marked: none of what it keeps is taken over from before.
LEMMA SlideKeeps ==
    ASSUME NEW d, Ready(d), NEW h \in Int, NEW v \in Int, NEW f \in Int
    PROVE  Steady(Slide(d, h, v, f)) /\ TimerOK(Slide(d, h, v, f))
<1> DEFINE to == IF v = Undefined /\ ~d.overview THEN PreviousV(d, h) ELSE v
           hh == IF h = Undefined THEN d.h ELSE h
           vv == IF to = Undefined THEN d.v ELSE to
           t == There(d, hh, vv)
           n == IF f = Undefined THEN t ELSE NavigateFragment(t, f)
           g == SlideChanged(d, n)
           u == Updated(g)
           w == WriteURL(UpdateNotes(UpdateSlideNumber(UpdateProgress(UpdateControls(g)))))
<1>1. DOMAIN d = Fields /\ FirmOK(d) /\ LooseOK(d) /\ d.cfg \in ConfigType
      /\ d.homing \in BOOLEAN
  BY DEF Ready, FirmOK, LooseOK
<1>2. hh \in Int /\ vv \in Int
  <2>1. d.h \in Int /\ d.v \in Int
    BY <1>1, SlidePairs DEF FirmOK
  <2>2. to \in Int
    BY <1>1, PreviousIn DEF LooseOK
  <2>3. QED  BY <2>1, <2>2
<1> HIDE DEF hh, vv
<1>3. /\ SameBut(d, t, ThereFields) /\ t.prevV \in [Columns -> Nat]
      /\ <<t.h, t.v>> \in Slides /\ t.cur = <<t.h, t.v>> /\ InColumn(t) /\ Ordered(t)
      /\ t.shown \in [Slides -> Nat] /\ t.curf \in Int /\ t.vcls \in [Children -> Classes]
      /\ (\A s \in Slides : t.shown[s] <= Frags[s])
      /\ t.vcls = Remarked(d, t)
  BY <1>2, ThereIs
<1> HIDE DEF t
<1>4. /\ SameBut(t, n, {"shown", "curf", "out", "controls", "progress"})
      /\ n.shown \in [Slides -> Nat] /\ n.curf \in Int
      /\ (\A s \in Slides \ {t.cur} : n.shown[s] = t.shown[s])
      /\ \A s \in Slides : n.shown[s] <= Frags[s]
  <2>1. DOMAIN t = Fields
    BY <1>3 DEF SameBut
  <2>2. CASE f = Undefined
    BY <1>3, <2>1, <2>2, SameRefl
  <2>3. CASE f # Undefined
    <3>1. n = NavigateFragment(t, f)
      BY <2>3
    <3> HIDE DEF n
    <3>2. /\ SameBut(t, n, {"shown", "curf", "out", "controls", "progress"})
          /\ n.shown \in [Slides -> Nat] /\ n.curf \in Int
          /\ \A s \in Slides \ {t.cur} : n.shown[s] = t.shown[s]
          /\ n.shown[t.cur] <= Frags[t.cur] \/ n = t
      BY <1>3, <2>1, <3>1, FragmentFields
    <3>3. \A s \in Slides : n.shown[s] <= Frags[s]
      BY <1>3, <3>2
    <3>4. QED  BY <3>2, <3>3
  <2>4. QED  BY <2>2, <2>3
<1> HIDE DEF n
<1>5. DOMAIN n = Fields /\ n.cfg = d.cfg /\ n.h = t.h /\ n.v = t.v /\ n.cur = t.cur
      /\ n.hcls = t.hcls /\ n.vcls = t.vcls /\ n.prevV = t.prevV /\ n.hash = d.hash
      /\ n.events = d.events /\ n.overview = d.overview /\ n.paused = d.paused
      /\ n.homing = d.homing /\ n.auto = d.auto /\ n.autoPaused = d.autoPaused
      /\ n.timer = d.timer /\ n.player = d.player /\ t.cfg = d.cfg
  BY <1>3, <1>4 DEF SameBut, Fields, ThereFields
<1>6. SameBut(n, g, {"out", "vcls", "homing"}) /\ g.homing \in BOOLEAN
      /\ g.vcls \in [Children -> Classes] /\ Present(g) = {g.cur} \cap Children
  <2>1. n.vcls = Remarked(d, n)
    BY <1>3, <1>5 DEF Remarked
  <2>2. QED  BY <1>1, <1>3, <1>5, <2>1, ChangedIs
<1> HIDE DEF g
<1>7. SameBut(g, u, Updates) /\ Armed(u) /\ (Marks(g) => Counted(u))
  <2>1. DOMAIN g = Fields
    BY <1>6 DEF SameBut
  <2> HIDE DEF u
  <2>2. QED  BY <2>1, UpdatedKeeps DEF u
<1>8. w = WriteURL(u)
  BY DEF Updated
<1> HIDE DEF u, w
<1>9. DOMAIN g = Fields /\ g.cfg = d.cfg /\ g.h = t.h /\ g.v = t.v /\ g.cur = t.cur
      /\ g.hcls = t.hcls
  BY <1>5, <1>6 DEF SameBut, Fields
<1>10. DOMAIN u = Fields /\ u.cfg = d.cfg /\ u.h = t.h /\ u.v = t.v /\ u.cur = t.cur
       /\ u.hcls = t.hcls /\ u.vcls = g.vcls /\ u.prevV = t.prevV /\ u.hash = d.hash
       /\ u.events = d.events /\ u.overview = d.overview /\ u.paused = d.paused
       /\ u.homing = g.homing /\ u.auto = d.auto /\ u.autoPaused = d.autoPaused
       /\ u.timer = d.timer /\ u.player = d.player /\ u.shown = n.shown /\ u.curf = n.curf
  BY <1>5, <1>6, <1>7 DEF SameBut, Fields, Updates
<1>11. Marks(g)
  BY <1>3, <1>5, <1>6, <1>9 DEF Marks, InColumn
<1>12. FirmOK(u)
  BY <1>1, <1>3, <1>4, <1>6, <1>10 DEF FirmOK
<1>13. LooseOK(u)
  BY <1>1, <1>3, <1>6, <1>10 DEF LooseOK
<1>14. Present(u) = {u.cur} \cap Children
  BY <1>6, <1>9, <1>10 DEF Present
<1>15. Ordered(u)
  BY <1>3, <1>4, <1>10, OneOrder DEF Ordered
<1>16. InColumn(u)
  BY <1>3, <1>5, <1>10 DEF InColumn
<1>17. Ready(u) /\ Shows(u) /\ u.cur # NoSlide
  BY <1>3, <1>7, <1>10, <1>11, <1>12, <1>13, <1>14, <1>15, <1>16, SlidePairs DEF Ready, Shows
<1>18. Steady(w) /\ Ready(w) /\ w.cur # NoSlide
  <2>1. SameBut(u, w, {"hash", "events"}) /\ Ready(w) /\ UrlOK(w) /\ Shows(w)
    BY <1>8, <1>17, WriteKeeps
  <2>2. w.cur = u.cur
    BY <2>1 DEF SameBut, Fields
  <2>3. QED  BY <1>17, <2>1, <2>2 DEF Steady
<1>19. Steady(CueAutoSlide(w)) /\ TimerOK(CueAutoSlide(w))
  BY <1>18, CueKeeps
<1>20. Slide(d, h, v, f) = CueAutoSlide(w)
  BY DEF Slide, There, w, g, n, t, hh, vv
<1>21. QED  BY <1>19, <1>20

\* slide() is one of the functions that keep a deck.
LEMMA SlideStays ==
    ASSUME NEW d, Steady(d), NEW c, NEW h \in Int, NEW v \in Int, NEW f \in Int
    PROVE  Keeps(c, Slide(d, h, v, f))
BY SlideKeeps DEF Steady, Keeps

\* The argument that was left out is an index like others.
LEMMA UndefinedInt == Undefined \in Int
BY DEF Undefined

\* readURL: the hash is that of the slide, or the slide is changed.
LEMMA ReadKeeps ==
    ASSUME NEW d, Ready(d), d.cur = NoSlide \/ (Shows(d) /\ d.cur # NoSlide)
    PROVE  LET e == ReadURL(d)
           IN  Steady(e) /\ (d.cur = NoSlide \/ TimerOK(d) => TimerOK(e))
<1>1. d.hash \in HashType /\ d.h \in Int /\ d.v \in Int
  BY SlidePairs DEF Ready, FirmOK
<1>2. CASE d.hash.kind = "name"
  <2>1. d.hash.at \in Named \cup {NoSlide}
    BY <1>1, <1>2 DEF HashType
  <2>2. CASE d.hash.at = NoSlide
    <3>1. ReadURL(d) = Slide(d, d.h, d.v, Undefined)
      BY <1>2, <2>2 DEF ReadURL
    <3>2. QED  BY <1>1, <3>1, SlideKeeps, UndefinedInt
  <2>3. CASE d.hash.at # NoSlide
    <3> DEFINE h == d.hash.at[1]
               v == IF IsStack(d.hash.at[1]) THEN d.hash.at[2] ELSE Undefined
    <3>1. ReadURL(d) = Slide(d, h, v, Undefined)
      BY <1>2, <2>3 DEF ReadURL
    <3>2. d.hash.at \in Slides
      BY <2>1, <2>3, DeckAssumption
    <3>3. h \in Int /\ v \in Int
      BY <3>2, SlidePairs, UndefinedInt
    <3> HIDE DEF h, v
    <3>4. QED  BY <3>1, <3>3, SlideKeeps, UndefinedInt
  <2>4. QED  BY <2>2, <2>3
<1>3. CASE d.hash.kind # "name"
  <2>1. d.hash.at \in Int \X Int
    BY <1>1, <1>3 DEF HashType
  <2>2. CASE d.cur = NoSlide \/ d.hash.at # <<d.h, d.v>>
    <3> DEFINE h == d.hash.at[1]
               v == d.hash.at[2]
    <3>1. ReadURL(d) = Slide(d, h, v, Undefined)
      BY <1>3, <2>2 DEF ReadURL
    <3>2. h \in Int /\ v \in Int
      BY <2>1
    <3> HIDE DEF h, v
    <3>3. QED  BY <3>1, <3>2, SlideKeeps, UndefinedInt
  <2>3. CASE ~(d.cur = NoSlide \/ d.hash.at # <<d.h, d.v>>)
    <3>1. ReadURL(d) = d
      BY <1>3, <2>3 DEF ReadURL
    <3>2. Shows(d) /\ UrlOK(d)
      BY <2>3 DEF Shows, UrlOK
    <3>3. QED  BY <2>3, <3>1, <3>2 DEF Steady
  <2>4. QED  BY <2>2, <2>3
<1>4. QED  BY <1>2, <1>3
-----------------------------------------------------------------------------
(***************************************************************************)
(* The overview and the pause.                                             *)
(***************************************************************************)

\* The overview is shown, and auto-slide waits.
LEMMA ActivateKeeps ==
    ASSUME NEW d, Steady(d) PROVE Keeps(d, ActivateOverview(d))
<1> DEFINE a == [d EXCEPT !.overview = TRUE]
           e == CancelAutoSlide(a)
<1>1. DOMAIN d = Fields /\ LooseOK(d)
  BY DEF Steady, Ready, FirmOK
<1>2. SameBut(d, a, {"overview"}) /\ a.overview = TRUE /\ LooseOK(a)
  BY <1>1 DEF SameBut, LooseOK, Fields
<1>3. Steady(a)
  <2>1. SameBut(d, a, Loose)
    BY <1>2, SameMore DEF Loose
  <2>2. QED  BY <1>2, <2>1, LooseKeeps
<1> HIDE DEF a
<1>4. Steady(e) /\ e.overview = TRUE /\ e.timer = FALSE
  <2>1. Steady(e) /\ SameBut(a, e, {"timer"}) /\ e.timer = FALSE
    BY <1>3, CancelKeeps DEF Steady
  <2>2. QED  BY <1>2, <2>1 DEF SameBut, Fields
<1>5. TimerOK(e)
  BY <1>4 DEF TimerOK
<1> HIDE DEF e
<1>6. DOMAIN e = Fields
  BY <1>4, SteadyCur
<1>7. Steady(Dispatch(e, "overviewshown")) /\ TimerOK(Dispatch(e, "overviewshown"))
  BY <1>4, <1>5, <1>6, DispatchKeeps, OutKeeps
<1>8. ActivateOverview(d) = IF d.overview THEN d ELSE Dispatch(e, "overviewshown")
  BY DEF ActivateOverview, e, a
<1>9. QED  BY <1>7, <1>8 DEF Keeps

\* Closing the overview shows the current slide again.
LEMMA DeactivateKeeps ==
    ASSUME NEW d, Steady(d) PROVE Keeps(d, DeactivateOverview(d))
<1> DEFINE a == [d EXCEPT !.overview = FALSE]
           b == Slide(a, d.h, d.v, Undefined)
           c == CueAutoSlide(b)
<1>1. DOMAIN d = Fields /\ LooseOK(d) /\ d.h \in Int /\ d.v \in Int
  BY SteadyCur DEF Steady, Ready
<1>2. SameBut(d, a, {"overview"}) /\ LooseOK(a)
  BY <1>1 DEF SameBut, LooseOK, Fields
<1>3. Ready(a)
  <2>1. SameBut(d, a, Loose)
    BY <1>2, SameMore DEF Loose
  <2>2. QED  BY <1>2, <2>1, LooseKeeps DEF Steady
<1> HIDE DEF a
<1>4. Steady(b)
  BY <1>1, <1>3, SlideKeeps, UndefinedInt
<1> HIDE DEF b
<1>5. Steady(c) /\ TimerOK(c)
  BY <1>4, CueKeeps, SteadyCur DEF Steady
<1> HIDE DEF c
<1>6. Steady(Dispatch(c, "overviewhidden")) /\ TimerOK(Dispatch(c, "overviewhidden"))
  BY <1>5, SteadyCur, DispatchKeeps, OutKeeps
<1>7. DeactivateOverview(d) = Dispatch(c, "overviewhidden")
  BY DEF DeactivateOverview, c, b, a
<1>8. QED  BY <1>6, <1>7 DEF Keeps

\* The overview is opened and closed.
LEMMA OverviewKeeps ==
    ASSUME NEW d, Steady(d), NEW on PROVE Keeps(d, ToggleOverview(d, on))
BY ActivateKeeps, DeactivateKeeps DEF ToggleOverview

\* Pausing cancels the timer, and the end of the pause sets it again.
LEMMA PauseKeeps ==
    ASSUME NEW d, Steady(d), NEW on PROVE Keeps(d, TogglePause(d, on))
<1> DEFINE a(b) == [d EXCEPT !.paused = b]
           p == CancelAutoSlide(a(TRUE))
           r == CueAutoSlide(a(FALSE))
<1>1. DOMAIN d = Fields /\ LooseOK(d)
  BY DEF Steady, Ready, FirmOK
<1>2. \A b \in BOOLEAN : Steady(a(b)) /\ a(b).paused = b
  <2>1. TAKE b \in BOOLEAN
  <2>2. SameBut(d, a(b), {"paused"}) /\ a(b).paused = b /\ LooseOK(a(b))
    BY <1>1 DEF SameBut, LooseOK, Fields
  <2> HIDE DEF a
  <2>3. SameBut(d, a(b), Loose)
    BY <2>2, SameMore DEF Loose
  <2>4. QED  BY <2>2, <2>3, LooseKeeps
<1> HIDE DEF a
<1>3. Steady(p) /\ TimerOK(p)
  <2>1. Steady(a(TRUE)) /\ a(TRUE).paused = TRUE
    BY <1>2
  <2>2. Steady(p) /\ SameBut(a(TRUE), p, {"timer"}) /\ p.timer = FALSE
    BY <2>1, CancelKeeps DEF Steady
  <2>3. p.paused = TRUE
    BY <2>1, <2>2 DEF SameBut, Fields
  <2>4. QED  BY <2>2, <2>3 DEF TimerOK
<1>4. Steady(r) /\ TimerOK(r)
  <2>1. Steady(a(FALSE))
    BY <1>2
  <2>2. QED  BY <2>1, CueKeeps, SteadyCur DEF Steady
<1> HIDE DEF p, r
<1>5. \A type : /\ Steady(Dispatch(p, type)) /\ TimerOK(Dispatch(p, type))
                /\ Steady(Dispatch(r, type)) /\ TimerOK(Dispatch(r, type))
  BY <1>3, <1>4, SteadyCur, DispatchKeeps, OutKeeps
<1>6. TogglePause(d, on) \in {p, r, Dispatch(p, "paused"), Dispatch(r, "resumed")}
  BY DEF TogglePause, Pause, Resume, p, r, a
<1>7. QED  BY <1>3, <1>4, <1>5, <1>6 DEF Keeps

\* setState.
LEMMA SetStateKeeps ==
    ASSUME NEW d, Steady(d), NEW s \in StateType PROVE Keeps(d, SetState(d, s))
<1> DEFINE a == Slide(d, s.indexh, s.indexv, s.indexf)
           b == SetPaused(a, s.paused)
<1>1. Steady(a) /\ TimerOK(a)
  BY SlideKeeps DEF StateType, Steady
<1> HIDE DEF a
<1>2. Steady(b) /\ TimerOK(b)
  BY <1>1, PauseKeeps DEF SetPaused, Keeps
<1> HIDE DEF b
<1>3. Steady(SetOverview(b, s.overview)) /\ TimerOK(SetOverview(b, s.overview))
  BY <1>2, OverviewKeeps DEF SetOverview, Keeps
<1>4. SetState(d, s) = SetOverview(b, s.overview)
  BY DEF SetState, SetPosition, b, a
<1>5. QED  BY <1>3, <1>4 DEF Keeps
-----------------------------------------------------------------------------
(***************************************************************************)
(* Navigation.                                                             *)
(***************************************************************************)

\* A method that does nothing.
LEMMA KeepsRefl == ASSUME NEW d, Steady(d) PROVE Keeps(d, d)
BY DEF Keeps

\* Two functions that are called one after the other keep what each keeps.
LEMMA KeepsTrans ==
    ASSUME NEW c, NEW d, NEW e, Keeps(c, d), Keeps(d, e) PROVE Keeps(c, e)
BY DEF Keeps

\* A step of the fragments keeps the deck sound.
LEMMA StepKeeps ==
    ASSUME NEW d, Steady(d) PROVE Keeps(d, NextFragment(d)) /\ Keeps(d, PreviousFragment(d))
<1>1. d.shown[d.cur] \in Nat
  BY SteadyCur DEF Steady, Ready, FirmOK
<1>2. d.shown[d.cur] \in Int /\ d.shown[d.cur] - 2 \in Int
  BY <1>1
<1>3. Keeps(d, NavigateFragment(d, d.shown[d.cur]))
      /\ Keeps(d, NavigateFragment(d, d.shown[d.cur] - 2))
  BY <1>2, FragmentKeeps
<1>4. QED  BY <1>3, KeepsRefl DEF NextFragment, PreviousFragment

\* So does the fragment step that the arrows begin with.
LEMMA AfterKeeps ==
    ASSUME NEW d, Steady(d), NEW forward PROVE Keeps(d, AfterFragments(d, forward))
BY StepKeeps, KeepsRefl DEF AfterFragments

\* An arrow ends where its fragments left the deck or at another slide.
LEMMA OrSlideKeeps ==
    ASSUME NEW c, NEW d, NEW e, Keeps(c, e), NEW route, NEW h \in Int, NEW v \in Int
    PROVE  Keeps(c, OrSlide(d, e, route, h, v))
<1>1. Keeps(c, Slide(e, h, v, Undefined))
  BY SlideStays, UndefinedInt DEF Keeps
<1>2. QED  BY <1>1 DEF OrSlide

\* The four ways on from a slide.
LEMMA SidewaysKeeps ==
    ASSUME NEW d, Steady(d)
    PROVE  /\ Keeps(d, NavigateLeft(d)) /\ Keeps(d, NavigateRight(d))
           /\ Keeps(d, NavigateUp(d)) /\ Keeps(d, NavigateDown(d))
<1>1. d.h \in Int /\ d.v \in Int /\ d.h - 1 \in Int /\ d.h + 1 \in Int
      /\ d.v - 1 \in Int /\ d.v + 1 \in Int
  BY SteadyCur
<1>2. \A forward : Keeps(d, AfterFragments(d, forward))
  BY AfterKeeps
<1>3. Keeps(d, NavigateLeft(d))
  BY <1>1, <1>2, OrSlideKeeps, UndefinedInt DEF NavigateLeft
<1>4. Keeps(d, NavigateRight(d))
  BY <1>1, <1>2, OrSlideKeeps, UndefinedInt DEF NavigateRight
<1>5. Keeps(d, NavigateUp(d))
  BY <1>1, <1>2, OrSlideKeeps DEF NavigateUp
<1>6. Keeps(d, NavigateDown(d))
  BY <1>1, <1>2, OrSlideKeeps DEF NavigateDown
<1>7. QED  BY <1>3, <1>4, <1>5, <1>6

\* The columns marked as past are those before the deck's.
LEMMA PassedIs ==
    ASSUME NEW d, Steady(d) PROVE PassedColumns(d) = {x \in Columns : x < d.h}
<1>1. d.h \in Nat /\ \A x \in Columns : x \in Nat
  BY SteadyCur, SlidePairs
<1>2. \A x \in Columns : d.hcls[x] = Side(x, d.h, d.cfg.rtl)
  BY DEF Steady, Shows, InColumn
<1>3. d.cfg.rtl \in BOOLEAN
  BY DEF Steady, Ready, FirmOK, ConfigType
<1>4. \A x \in Columns : d.hcls[x] = (IF d.cfg.rtl THEN "future" ELSE "past") <=> x < d.h
  <2>1. TAKE x \in Columns
  <2> DEFINE before == x < d.h
  <2>2. before \in BOOLEAN /\ (x = d.h => ~before)
    BY <1>1
  <2>3. d.hcls[x] = IF x = d.h THEN "present"
                    ELSE IF before # d.cfg.rtl THEN "past" ELSE "future"
    BY <1>2 DEF Side
  <2> HIDE DEF before
  <2>4. d.hcls[x] = (IF d.cfg.rtl THEN "future" ELSE "past") <=> before
    BY <1>3, <2>2, <2>3
  <2>5. QED  BY <2>4 DEF before
<1>5. QED  BY <1>4 DEF PassedColumns

\* The last of them is the one before the deck's: its height is a vertical index.
LEMMA LastOfIn ==
    ASSUME NEW d, Steady(d), PassedColumns(d) # {}
    PROVE  /\ d.h > 0 /\ d.h - 1 \in Columns /\ LastOf(PassedColumns(d)) \in Int
           /\ LastOf(PassedColumns(d)) = IF Stack[d.h - 1] = 1 THEN Undefined
                                         ELSE Stack[d.h - 1] - 1
<1> DEFINE passed == PassedColumns(d)
           last == CHOOSE x \in passed : \A y \in passed : y <= x
<1>1. d.h \in Columns /\ d.h \in Nat /\ Columns = 0 .. Width - 1 /\ Width \in Nat
      /\ \A x \in Columns : Stack[x] \in Nat
  BY SteadyCur, SlidePairs
<1>2. passed = {x \in Columns : x < d.h}
  BY PassedIs
<1>3. d.h > 0
  BY <1>1, <1>2
<1>4. d.h - 1 \in passed /\ \A y \in passed : y <= d.h - 1
  BY <1>1, <1>2, <1>3
<1>5. last \in passed /\ d.h - 1 <= last
  <2> HIDE DEF passed
  <2>1. QED  BY <1>4
<1>6. last = d.h - 1
  BY <1>1, <1>2, <1>5
<1>7. Stack[last] \in Nat
  BY <1>1, <1>2, <1>5
<1> HIDE DEF last
<1>8. LastOf(passed) = IF Stack[last] = 1 THEN Undefined ELSE Stack[last] - 1
  BY DEF LastOf, last
<1>9. QED  BY <1>2, <1>3, <1>4, <1>6, <1>7, <1>8, UndefinedInt

\* Back and on.
LEMMA PrevNextKeeps ==
    ASSUME NEW d, Steady(d) PROVE Keeps(d, NavigatePrev(d)) /\ Keeps(d, NavigateNext(d))
<1>1. ASSUME NEW e, Keeps(d, e) PROVE Keeps(d, PrevSlide(d, e))
  <2>1. Steady(e)
    BY <1>1 DEF Keeps
  <2>2. Keeps(d, NavigateUp(e))
    BY <1>1, <2>1, SidewaysKeeps, KeepsTrans
  <2>3. ASSUME PassedColumns(e) # {}
        PROVE  Keeps(d, Slide(e, e.h - 1, LastOf(PassedColumns(e)), Undefined))
    <3>1. e.h - 1 \in Int
      BY <2>1, SteadyCur
    <3>2. QED  BY <2>1, <2>3, <3>1, LastOfIn, SlideStays, UndefinedInt
  <2>4. QED  BY <1>1, <2>2, <2>3 DEF PrevSlide
<1>2. ASSUME NEW e, Keeps(d, e) PROVE Keeps(d, NextSlide(d, e))
  <2>1. Steady(e)
    BY <1>2 DEF Keeps
  <2>2. Keeps(d, NavigateDown(e)) /\ Keeps(d, NavigateLeft(e)) /\ Keeps(d, NavigateRight(e))
    BY <1>2, <2>1, SidewaysKeeps, KeepsTrans
  <2>3. QED  BY <1>2, <2>2 DEF NextSlide
<1>3. QED  BY <1>1, <1>2, StepKeeps DEF NavigatePrev, NavigateNext
-----------------------------------------------------------------------------
(***************************************************************************)
(* The task queued on the way home, the user's hash, the configuration and *)
(* the start.                                                              *)
(***************************************************************************)

\* The task queued on the way home forgets where each stack was.
LEMMA ResetKeeps ==
    ASSUME NEW d, Steady(d) PROVE Keeps(d, ResetStacks(d))
<1> DEFINE e == ResetStacks(d)
<1>1. DOMAIN d = Fields /\ LooseOK(d)
  BY DEF Steady, Ready, FirmOK
<1>2. SameBut(d, e, {"prevV", "homing"})
  BY <1>1 DEF ResetStacks, SameBut, Fields
<1>3. e.prevV = [x \in Columns |-> 0] /\ e.homing = FALSE
  BY <1>1 DEF ResetStacks, Fields
<1>4. e.cfg = d.cfg /\ e.overview = d.overview /\ e.paused = d.paused /\ e.auto = d.auto
      /\ e.autoPaused = d.autoPaused /\ e.timer = d.timer /\ e.player = d.player
      /\ e.cur = d.cur
  BY <1>2 DEF SameBut, Fields
<1> HIDE DEF e
<1>5. LooseOK(e)
  <2>1. e.prevV \in [Columns -> Nat]
    BY <1>3
  <2>2. e.homing \in BOOLEAN
    BY <1>3
  <2>3. QED  BY <1>1, <1>4, <2>1, <2>2 DEF LooseOK
<1>6. Steady(e)
  <2>1. SameBut(d, e, Loose)
    BY <1>2, SameMore DEF Loose
  <2>2. QED  BY <1>5, <2>1, LooseKeeps
<1>7. TimerOK(d) => TimerOK(e)
  BY <1>4 DEF TimerOK, IsLastSlide
<1>8. QED  BY <1>6, <1>7 DEF Keeps, e

\* The event of a hash that the user typed is waiting.
LEMMA TypedKeeps ==
    ASSUME NEW d, Steady(d), NEW hash \in HashType, d.hash # hash
    PROVE  Keeps(d, SetHash(d, hash))
<1> DEFINE e == SetHash(d, hash)
<1>1. FirmOK(d) /\ LooseOK(d) /\ DOMAIN d = Fields /\ Present(d) = {d.cur} \cap Children
      /\ Shows(d)
  BY DEF Steady, Ready, FirmOK
<1>2. SameBut(d, e, {"hash", "events"}) /\ e.hash = hash /\ e.events \in 0 .. MaxEvents
      /\ e.events > 0
  BY <1>1, HashKeeps DEF FirmOK
<1> HIDE DEF e
<1>3. DOMAIN e = Fields /\ e.cfg = d.cfg /\ e.h = d.h /\ e.v = d.v /\ e.cur = d.cur
      /\ e.shown = d.shown /\ e.curf = d.curf /\ e.vcls = d.vcls /\ e.hcls = d.hcls
      /\ e.prevV = d.prevV /\ e.overview = d.overview /\ e.paused = d.paused
      /\ e.homing = d.homing /\ e.auto = d.auto /\ e.autoPaused = d.autoPaused
      /\ e.timer = d.timer /\ e.player = d.player /\ e.progress = d.progress
      /\ e.number = d.number /\ e.noted = d.noted /\ e.controls = d.controls
  BY <1>2 DEF SameBut, Fields
<1>4. FirmOK(e)
  BY <1>1, <1>2, <1>3 DEF FirmOK
<1>5. LooseOK(e) /\ Present(e) = Present(d)
  BY <1>1, <1>3 DEF LooseOK, Present
<1>6. Shows(e)
  BY <1>1, <1>3, SameControls DEF Shows, InColumn, Ordered, Counted, Armed
<1>7. UrlOK(e)
  BY <1>2 DEF UrlOK
<1>8. TimerOK(d) => TimerOK(e)
  BY <1>3 DEF TimerOK, IsLastSlide
<1>9. QED  BY <1>1, <1>3, <1>4, <1>5, <1>6, <1>7, <1>8 DEF Keeps, Steady, Ready, e

\* The updates at the end of sync() keep the rest.
LEMMA SyncedKeeps ==
    ASSUME NEW d, Ready(d)
    PROVE  LET e == Updated(d)
           IN  /\ Ready(e) /\ e.cur = d.cur
               /\ d.cur = <<d.h, d.v>> /\ InColumn(d) /\ Ordered(d) /\ UrlOK(d) => Steady(e)
               /\ TimerOK(d) => TimerOK(e)
<1> DEFINE e == Updated(d)
<1>1. FirmOK(d) /\ LooseOK(d) /\ DOMAIN d = Fields /\ Present(d) = {d.cur} \cap Children
  BY DEF Ready, FirmOK
<1>2. SameBut(d, e, Updates) /\ Armed(e) /\ (Marks(d) => Counted(e))
  BY <1>1, UpdatedKeeps
<1> HIDE DEF e
<1>3. DOMAIN e = Fields /\ e.cfg = d.cfg /\ e.h = d.h /\ e.v = d.v /\ e.cur = d.cur
      /\ e.shown = d.shown /\ e.curf = d.curf /\ e.vcls = d.vcls /\ e.hcls = d.hcls
      /\ e.prevV = d.prevV /\ e.overview = d.overview /\ e.paused = d.paused
      /\ e.homing = d.homing /\ e.auto = d.auto /\ e.autoPaused = d.autoPaused
      /\ e.timer = d.timer /\ e.player = d.player /\ e.hash = d.hash /\ e.events = d.events
  BY <1>2 DEF SameBut, Fields, Updates
<1>4. FirmOK(e)
  BY <1>1, <1>3 DEF FirmOK
<1>5. LooseOK(e) /\ Present(e) = Present(d)
  BY <1>1, <1>3 DEF LooseOK, Present
<1>6. ASSUME d.cur = <<d.h, d.v>>, InColumn(d), Ordered(d), UrlOK(d) PROVE Steady(e)
  <2>1. Marks(d)
    BY <1>1, <1>6 DEF FirmOK, Marks
  <2>2. InColumn(e) /\ Ordered(e) /\ UrlOK(e) /\ e.cur = <<e.h, e.v>>
    BY <1>3, <1>6 DEF InColumn, Ordered, UrlOK
  <2>3. QED  BY <1>1, <1>2, <1>3, <1>4, <1>5, <2>1, <2>2 DEF Steady, Ready, Shows
<1>7. TimerOK(d) => TimerOK(e)
  BY <1>3 DEF TimerOK, IsLastSlide
<1>8. QED  BY <1>1, <1>3, <1>4, <1>5, <1>6, <1>7 DEF Ready, e

\* configure(), whether a slide is shown yet or not.  Once it is the direction
\* is not configured again.
LEMMA ConfigureKeeps ==
    ASSUME NEW d, Ready(d), NEW cfg \in ConfigType
    PROVE  LET e == Configure(d, cfg)
           IN  /\ Ready(e) /\ e.cur = d.cur
               /\ Steady(d) /\ cfg.rtl = d.cfg.rtl => Keeps(d, e)
<1> DEFINE player == Cardinality(Slides) > 1 /\ cfg.autoSlide = "set" /\ cfg.stoppable
           a == [d EXCEPT !.cfg = cfg, !.player = player,
                          !.autoPaused = IF player THEN FALSE ELSE d.autoPaused]
           b == [a EXCEPT !.auto = a.cfg.autoSlide = "set"]
           c == CueAutoSlide(b)
           w == WriteURL(c)
           e == Updated(w)
<1>1. FirmOK(d) /\ LooseOK(d) /\ DOMAIN d = Fields /\ Present(d) = {d.cur} \cap Children
  BY DEF Ready, FirmOK
<1>2. player \in BOOLEAN
  <2>1. cfg.stoppable \in BOOLEAN
    BY DEF ConfigType
  <2>2. QED  OBVIOUS
<1> HIDE DEF player
<1>3. SameBut(d, a, {"cfg", "player", "autoPaused"}) /\ a.cfg = cfg
      /\ a.player \in BOOLEAN /\ a.autoPaused \in BOOLEAN
  <2>1. SameBut(d, a, {"cfg", "player", "autoPaused"})
    BY <1>1 DEF SameBut, Fields
  <2>2. a.cfg = cfg /\ a.player = player
        /\ a.autoPaused = IF player THEN FALSE ELSE d.autoPaused
    BY <1>1 DEF Fields
  <2>3. d.autoPaused \in BOOLEAN
    BY <1>1 DEF LooseOK
  <2> HIDE DEF a
  <2>4. QED  BY <1>2, <2>1, <2>2, <2>3
<1> HIDE DEF a
<1>4. SameBut(a, b, {"auto"}) /\ b.auto = (a.cfg.autoSlide = "set")
  BY <1>3 DEF SameBut, Fields
<1> HIDE DEF b
<1>5. DOMAIN b = Fields /\ b.cfg = cfg /\ b.h = d.h /\ b.v = d.v /\ b.cur = d.cur
      /\ b.shown = d.shown /\ b.curf = d.curf /\ b.vcls = d.vcls /\ b.hcls = d.hcls
      /\ b.prevV = d.prevV /\ b.overview = d.overview /\ b.paused = d.paused
      /\ b.homing = d.homing /\ b.auto = (cfg.autoSlide = "set") /\ b.autoPaused = a.autoPaused
      /\ b.timer = d.timer /\ b.player = a.player /\ b.hash = d.hash /\ b.events = d.events
      /\ b.hcls = d.hcls
  BY <1>3, <1>4 DEF SameBut, Fields
<1>6. FirmOK(b)
  BY <1>1, <1>5 DEF FirmOK
<1>7. LooseOK(b)
  BY <1>1, <1>3, <1>5 DEF LooseOK
<1>8. Ready(b)
  BY <1>1, <1>5, <1>6, <1>7 DEF Ready, Present
<1>9. Ready(c) /\ SameBut(b, c, {"auto", "timer"}) /\ (b.cur # NoSlide => TimerOK(c))
  BY <1>8, CueKeeps
<1> HIDE DEF c
<1>10. Ready(w) /\ SameBut(c, w, {"hash", "events"}) /\ (c.cur # NoSlide => UrlOK(w))
  BY <1>9, WriteKeeps
<1> HIDE DEF w
<1>11. c.cur = d.cur /\ w.cur = d.cur /\ w.h = d.h /\ w.v = d.v /\ w.hcls = b.hcls
       /\ w.shown = d.shown /\ w.cfg = cfg /\ w.paused = c.paused /\ w.overview = c.overview
       /\ w.autoPaused = c.autoPaused /\ w.auto = c.auto /\ w.timer = c.timer
  BY <1>5, <1>9, <1>10 DEF SameBut, Fields
<1>12. ASSUME Steady(d), cfg.rtl = d.cfg.rtl PROVE Keeps(d, e)
  <2>1. w.cur = <<w.h, w.v>> /\ d.cur # NoSlide
    BY <1>11, <1>12, SteadyCur
  <2>2. InColumn(w) /\ Ordered(w)
    BY <1>5, <1>11, <1>12 DEF Steady, Shows, InColumn, Ordered
  <2>3. UrlOK(w)
    BY <1>10, <1>11, <2>1
  <2>4. TimerOK(w)
    BY <1>5, <1>9, <1>11, <2>1 DEF TimerOK, IsLastSlide
  <2>5. QED  BY <1>10, <2>1, <2>2, <2>3, <2>4, SyncedKeeps DEF Keeps
<1> HIDE DEF e
<1>13. Configure(d, cfg) = e
  BY DEF Configure, Sync, Updated, e, w, c, b, a, player
<1>14. Ready(e) /\ e.cur = w.cur
  BY <1>10, SyncedKeeps DEF e
<1>15. QED  BY <1>11, <1>12, <1>13, <1>14

\* The deck as start() finds it.
LEMMA FreshReady ==
    ASSUME NEW cfg \in ConfigType, NEW hash \in HashType PROVE Ready(FreshDeck(cfg, hash))
<1> DEFINE d == FreshDeck(cfg, hash)
<1>1. DOMAIN d = Fields
  BY DEF FreshDeck, Fields
<1>2. d.cfg = cfg /\ d.h = 0 /\ d.v = 0 /\ d.cur = NoSlide /\ d.prevV = [x \in Columns |-> 0]
      /\ d.vcls = ResetVerticalSlides /\ d.shown = [s \in Slides |-> 0] /\ d.curf = -1
      /\ d.hash = hash /\ d.events = 0
  BY DEF FreshDeck
<1>3. d.overview = FALSE /\ d.paused = FALSE /\ d.homing = FALSE /\ d.auto = FALSE
      /\ d.autoPaused = FALSE /\ d.timer = FALSE /\ d.player = FALSE
  BY DEF FreshDeck
<1> HIDE DEF d
<1>4. LooseOK(d)
  <2>1. d.prevV \in [Columns -> Nat]
    BY <1>2
  <2>2. QED  BY <1>3, <2>1 DEF LooseOK
<1>5. d.vcls \in [Children -> Classes] /\ \A s \in Children : d.vcls[s] # "present"
  BY <1>2 DEF ResetVerticalSlides, Classes
<1>6. FirmOK(d)
  <2>1. d.shown \in [Slides -> Nat] /\ \A s \in Slides : d.shown[s] <= Frags[s]
    BY <1>2, FragsType
  <2>2. d.events \in 0 .. MaxEvents
    BY <1>2, MaxEventsAssumption
  <2>3. <<d.h, d.v>> \in Slides
    BY <1>2, SlidePairs
  <2>4. QED  BY <1>1, <1>2, <1>5, <2>1, <2>2, <2>3 DEF FirmOK
<1>7. Present(d) = {d.cur} \cap Children
  BY <1>2, <1>5, SlidePairs DEF Present
<1>8. QED  BY <1>4, <1>6, <1>7 DEF Ready, d

\* start() shows a slide.
LEMMA StartSteady ==
    ASSUME NEW cfg \in ConfigType, NEW hash \in HashType
    PROVE  Steady(Start(cfg, hash)) /\ TimerOK(Start(cfg, hash))
<1> DEFINE d == FreshDeck(cfg, hash)
           c == Configure(d, cfg)
           r == ReadURL(c)
<1>1. Ready(d)
  BY FreshReady
<1>2. d.cur = NoSlide
  BY DEF FreshDeck
<1> HIDE DEF d
<1>3. Ready(c) /\ c.cur = NoSlide
  BY <1>1, <1>2, ConfigureKeeps
<1> HIDE DEF c
<1>4. Steady(r) /\ TimerOK(r)
  BY <1>3, ReadKeeps
<1> HIDE DEF r
<1>5. Steady([r EXCEPT !.out = <<>>]) /\ TimerOK([r EXCEPT !.out = <<>>])
  BY <1>4, SteadyCur, DispatchKeeps, OutKeeps
<1>6. QED  BY <1>5 DEF Start, r, c, d
-----------------------------------------------------------------------------
(***************************************************************************)
(* Where the deck goes.                                                    *)
(***************************************************************************)
\* Without a fragment index slide() shows the slide of its indices, with the
\* fragments before it shown and its own as they were, and the stack that is
\* left remembers where it was.
LEMMA SlideGoes ==
    ASSUME NEW d, Ready(d), NEW h \in Int, h # Undefined, NEW v \in Int
    PROVE  LET to == IF v = Undefined /\ ~d.overview THEN PreviousV(d, h) ELSE v
               e  == Slide(d, h, v, Undefined)
           IN  /\ e.cur = GoesTo(d, h, IF to = Undefined THEN d.v ELSE to)
               /\ e.shown = ShownAt(d, e.cur) /\ e.prevV = SetPreviousV(d).prevV
               /\ e.cfg = d.cfg /\ e.overview = d.overview
<1> DEFINE to == IF v = Undefined /\ ~d.overview THEN PreviousV(d, h) ELSE v
           vv == IF to = Undefined THEN d.v ELSE to
           t == There(d, h, vv)
           g == SlideChanged(d, t)
           u == Updated(g)
           w == WriteURL(u)
           e == CueAutoSlide(w)
<1>1. DOMAIN d = Fields /\ FirmOK(d) /\ LooseOK(d)
  BY DEF Ready, FirmOK
<1>2. vv \in Int
  <2>1. d.v \in Int
    BY <1>1, SlidePairs DEF FirmOK
  <2>2. to \in Int
    BY <1>1, PreviousIn DEF LooseOK
  <2>3. QED  BY <2>1, <2>2
<1> HIDE DEF vv
<1>3. SameBut(d, t, ThereFields) /\ t.cur = GoesTo(d, h, vv) /\ t.shown = ShownAt(d, t.cur)
      /\ t.prevV = SetPreviousV(d).prevV
  BY <1>2, ThereIs
<1>4. DOMAIN t = Fields
  BY <1>3 DEF SameBut
<1> HIDE DEF t
<1>5. SameBut(t, g, {"out", "vcls", "homing"})
  BY <1>4 DEF SlideChanged, LeaveSlide, Dispatch, SameBut, Fields
<1>6. DOMAIN g = Fields
  BY <1>5 DEF SameBut
<1> HIDE DEF g
<1>7. SameBut(g, u, Updates)
  BY <1>6, UpdatedKeeps
<1>8. DOMAIN u = Fields
  BY <1>7 DEF SameBut
<1> HIDE DEF u
<1>9. SameBut(u, w, {"hash", "events"})
  BY <1>8 DEF WriteURL, SetHash, SameBut, Fields
<1>10. DOMAIN w = Fields
  BY <1>9 DEF SameBut
<1> HIDE DEF w
<1>11. SameBut(w, e, {"auto", "timer"})
  BY <1>10 DEF CueAutoSlide, CancelAutoSlide, SameBut, Fields
<1> HIDE DEF e
<1>12. e.cur = t.cur /\ e.shown = t.shown /\ e.prevV = t.prevV /\ e.cfg = d.cfg
       /\ e.overview = d.overview
  BY <1>3, <1>5, <1>7, <1>9, <1>11 DEF SameBut, Fields, ThereFields, Updates
<1>13. Slide(d, h, v, Undefined) = e
  BY DEF Slide, There, Updated, e, w, u, g, t, vv
<1>14. QED  BY <1>3, <1>12, <1>13 DEF vv

\* What is left of the fragments of the current slide after a step of them.
LEMMA StepIs ==
    ASSUME NEW d, Steady(d)
    PROVE  LET fields == {"shown", "curf", "out", "controls", "progress"}
               n == NextFragment(d)
               p == PreviousFragment(d)
               k == d.shown[d.cur]
           IN  /\ SameBut(d, n, fields) /\ SameBut(d, p, fields)
               /\ n.shown = [d.shown EXCEPT ![d.cur] = IF k < Frags[d.cur] THEN k + 1 ELSE k]
               /\ p.shown = [d.shown EXCEPT ![d.cur] = IF k > 0 THEN k - 1 ELSE k]
<1> DEFINE k == d.shown[d.cur]
           m == Frags[d.cur]
<1>1. d.cur \in Slides /\ d.cur # NoSlide /\ DOMAIN d = Fields /\ d.shown \in [Slides -> Nat]
      /\ d.curf \in Int /\ k \in Nat /\ m \in Nat /\ k <= m
  BY SteadyCur, FragsType DEF Steady, Ready, FirmOK
<1>2. ASSUME NEW i \in Int
      PROVE  /\ SameBut(d, NavigateFragment(d, i),
                        {"shown", "curf", "out", "controls", "progress"})
             /\ NavigateFragment(d, i).shown
                    = [d.shown EXCEPT ![d.cur] = IF m = 0 THEN k ELSE IF i < 0 THEN 0
                                                 ELSE IF i >= m THEN m ELSE i + 1]
  <2> DEFINE a == ShowGroups(d, i)
             b == AnnounceFragments(d, a)
  <2>1. SameBut(d, NavigateFragment(d, i), {"shown", "curf", "out", "controls", "progress"})
    BY <1>1, FragmentFields
  <2>2. CASE m = 0
    <3>1. NavigateFragment(d, i) = d
      BY <2>2 DEF NavigateFragment
    <3>2. d.shown = [d.shown EXCEPT ![d.cur] = k]
      BY <1>1
    <3>3. QED  BY <2>1, <2>2, <3>1, <3>2
  <2>3. CASE m # 0
    <3>1. NavigateFragment(d, i) = UpdateProgress(UpdateControls(b))
      BY <1>1, <2>3 DEF NavigateFragment
    <3>2. DOMAIN a = Fields
          /\ a.shown = [d.shown EXCEPT ![d.cur] = IF i < 0 THEN 0
                                                  ELSE IF i >= m THEN m ELSE i + 1]
      BY <1>1 DEF ShowGroups, Fields
    <3> HIDE DEF a
    <3>3. DOMAIN b = Fields /\ b.shown = a.shown
      BY <3>2 DEF AnnounceFragments, Dispatch, Fields
    <3> HIDE DEF b
    <3>4. UpdateProgress(UpdateControls(b)).shown = a.shown
      BY <3>3 DEF UpdateProgress, UpdateControls, Fields
    <3>5. QED  BY <2>1, <2>3, <3>1, <3>2, <3>4
  <2>4. QED  BY <2>2, <2>3
<1>3. NextFragment(d) = NavigateFragment(d, k) /\ PreviousFragment(d) = NavigateFragment(d, k - 2)
      /\ k \in Int /\ k - 2 \in Int
  BY <1>1 DEF NextFragment, PreviousFragment
<1>4. (IF m = 0 THEN k ELSE IF k < 0 THEN 0 ELSE IF k >= m THEN m ELSE k + 1)
      = IF k < m THEN k + 1 ELSE k
  BY <1>1
<1>5. (IF m = 0 THEN k ELSE IF k - 2 < 0 THEN 0 ELSE IF k - 2 >= m THEN m ELSE k - 2 + 1)
      = IF k > 0 THEN k - 1 ELSE k
  BY <1>1
<1>6. QED  BY <1>2, <1>3, <1>4, <1>5

\* An index in its range stays, and a step beside it is another one.
LEMMA BoundedMoves ==
    ASSUME NEW d, d.cfg \in ConfigType, NEW n \in Nat, NEW i \in 0 .. n - 1
    PROVE  /\ Bounded(d, i, n) = i
           /\ i > 0 => Bounded(d, i - 1, n) = i - 1
           /\ i < n - 1 => Bounded(d, i + 1, n) = i + 1
           /\ d.cfg.loop /\ n > 1 => Bounded(d, i - 1, n) # i /\ Bounded(d, i + 1, n) # i
<1>1. ASSUME NEW k \in 0 .. n - 1 PROVE Bounded(d, k, n) = k
  <2>1. k % n = k /\ n # 0
    OBVIOUS
  <2>2. QED  BY <2>1 DEF Bounded
<1>2. n > 1 => (i - 1) % n # i /\ (i + 1) % n # i
  OBVIOUS
<1>3. d.cfg.loop /\ n > 1 => Bounded(d, i - 1, n) # i /\ Bounded(d, i + 1, n) # i
  BY <1>2 DEF Bounded
<1>4. QED  BY <1>1, <1>3

\* A step of the fragments of a slide moves the deck there, or none of it.
LEMMA StepFields ==
    ASSUME NEW d, Steady(d), NEW e \in {NextFragment(d), PreviousFragment(d)}
    PROVE  /\ Steady(e) /\ e.cur = d.cur /\ e.h = d.h /\ e.v = d.v /\ e.cfg = d.cfg
           /\ e.overview = d.overview /\ e.prevV = d.prevV /\ Routes(e) = Routes(d)
           /\ \A s \in Slides \ {d.cur} : e.shown[s] = d.shown[s]
           /\ Stepped(d, e) <=> e.shown[d.cur] # d.shown[d.cur]
           /\ e = NextFragment(d) => (Stepped(d, e) <=> HasNextFragment(d))
           /\ e = PreviousFragment(d) => (Stepped(d, e) <=> HasPrevFragment(d))
           /\ ~Stepped(d, e) => e.shown = d.shown
<1> DEFINE k == d.shown[d.cur]
<1>1. d.cur \in Slides /\ d.cur # NoSlide /\ d.shown \in [Slides -> Nat] /\ k \in Nat
      /\ Frags[d.cur] \in Nat /\ k <= Frags[d.cur]
  BY SteadyCur, FragsType DEF Steady, Ready, FirmOK
<1>2. SameBut(d, e, {"shown", "curf", "out", "controls", "progress"})
  BY StepIs
<1>3. e.cur = d.cur /\ e.h = d.h /\ e.v = d.v /\ e.cfg = d.cfg /\ e.overview = d.overview
      /\ e.prevV = d.prevV
  BY <1>2 DEF SameBut, Fields
<1>4. Routes(e) = Routes(d)
  BY <1>3 DEF Routes
<1>5. Stepped(d, e) <=> e.shown[d.cur] # d.shown[d.cur]
  BY <1>1 DEF Stepped
<1>6. \E n \in Nat : e.shown = [d.shown EXCEPT ![d.cur] = n]
  <2>1. (IF k < Frags[d.cur] THEN k + 1 ELSE k) \in Nat /\ (IF k > 0 THEN k - 1 ELSE k) \in Nat
    BY <1>1
  <2>2. QED  BY <2>1, StepIs
<1>7. (\A s \in Slides \ {d.cur} : e.shown[s] = d.shown[s])
      /\ (~Stepped(d, e) => e.shown = d.shown)
  BY <1>1, <1>5, <1>6
<1>8. e = NextFragment(d) => (Stepped(d, e) <=> HasNextFragment(d))
  <2> DEFINE m == IF k < Frags[d.cur] THEN k + 1 ELSE k
  <2>0. NextFragment(d).shown = [d.shown EXCEPT ![d.cur] = m]
    BY StepIs
  <2>1. e = NextFragment(d) => e.shown[d.cur] = m
    <3> HIDE DEF m
    <3>1. QED  BY <1>1, <2>0
  <2>2. QED  BY <1>1, <1>5, <2>1 DEF HasNextFragment
<1>9. e = PreviousFragment(d) => (Stepped(d, e) <=> HasPrevFragment(d))
  <2>1. e = PreviousFragment(d) => e.shown[d.cur] = IF k > 0 THEN k - 1 ELSE k
    BY <1>1, StepIs
  <2>2. QED  BY <1>1, <1>5, <2>1 DEF HasPrevFragment
<1>10. Steady(e)
  BY StepKeeps DEF Keeps
<1>11. QED  BY <1>3, <1>4, <1>5, <1>7, <1>8, <1>9, <1>10
-----------------------------------------------------------------------------
(***************************************************************************)
(* What the listeners of a deck are told.                                  *)
(***************************************************************************)
EventTypes == {"slidechanged", "fragmentshown", "fragmenthidden", "overviewshown",
               "overviewhidden", "paused", "resumed"}
Event == [type : EventTypes, state : StateType]

\* The fields of a deck that its state is read from, and those it has sent.
Read == {"h", "v", "cur", "shown", "curf", "paused", "overview", "out"}

\* The state can be read: a slide is shown, and the fragment that is current
\* there, if one is, is the last of those that are visible.
Legible(d) ==
    /\ DOMAIN d = Fields /\ d.cur = <<d.h, d.v>> /\ d.cur \in Slides
    /\ d.shown \in [Slides -> Nat] /\ d.shown[d.cur] <= Frags[d.cur]
    /\ d.curf \in {-1, d.shown[d.cur] - 1}
    /\ d.paused \in BOOLEAN /\ d.overview \in BOOLEAN
    /\ d.out \in Seq(Event)

\* The last of the events that were sent had the state that the deck has, and
\* without one the state is what it was.
Told(was, d) ==
    Legible(d) /\ IF d.out = <<>> THEN GetState(d) = was
                  ELSE d.out[Len(d.out)].state = GetState(d)

\* e has the state of d, and has sent what d has sent.
Quiet(d, e) == DOMAIN d = Fields /\ DOMAIN e = Fields /\ \A k \in Read : e[k] = d[k]

\* The state of a deck.
LEMMA StateOf ==
    ASSUME NEW d, Legible(d)
    PROVE  /\ GetState(d) = [indexh |-> d.h, indexv |-> d.v,
                             indexf |-> IF Frags[d.cur] = 0 THEN Undefined
                                        ELSE d.shown[d.cur] - 1,
                             paused |-> d.paused, overview |-> d.overview]
           /\ GetState(d) \in StateType /\ d.cur # NoSlide
<1>1. d.cur # NoSlide /\ d.h \in Int /\ d.v \in Int
  BY SlidePairs DEF Legible
<1>2. d.shown[d.cur] \in Nat /\ Frags[d.cur] \in Nat
  BY FragsType DEF Legible
<1>3. FragmentIndex(d) = IF Frags[d.cur] = 0 THEN Undefined ELSE d.shown[d.cur] - 1
  BY <1>1, <1>2 DEF FragmentIndex, Legible
<1>4. FragmentIndex(d) \in Int
  BY <1>2, <1>3, UndefinedInt
<1>5. QED  BY <1>1, <1>3, <1>4 DEF GetState, StateType, Legible

\* A deck has sent nothing that its listeners must be told.
LEMMA QuietTold ==
    ASSUME NEW d, NEW e, Quiet(d, e)
    PROVE  /\ Legible(d) => Legible(e) /\ GetState(e) = GetState(d)
           /\ \A was : Told(was, d) => Told(was, e)
<1>1. e.h = d.h /\ e.v = d.v /\ e.cur = d.cur /\ e.shown = d.shown /\ e.curf = d.curf
      /\ e.paused = d.paused /\ e.overview = d.overview /\ e.out = d.out
      /\ DOMAIN d = Fields /\ DOMAIN e = Fields
  BY DEF Quiet, Read
<1>2. Legible(d) => Legible(e)
  BY <1>1 DEF Legible
<1>3. FragmentIndex(e) = FragmentIndex(d)
  BY <1>1 DEF FragmentIndex
<1>4. GetState(e) = GetState(d)
  BY <1>1, <1>3 DEF GetState
<1>5. QED  BY <1>1, <1>2, <1>4 DEF Told

\* Fields that the state is not read from may change.
LEMMA SameQuiet ==
    ASSUME NEW d, NEW e, NEW F, SameBut(d, e, F), F \cap Read = {}
    PROVE  Quiet(d, e)
<1>1. Read \subseteq Fields
  BY DEF Read, Fields
<1>2. QED  BY <1>1 DEF SameBut, Quiet

\* One deck after another.
LEMMA QuietTrans ==
    ASSUME NEW d, NEW e, NEW g, Quiet(d, e), Quiet(e, g) PROVE Quiet(d, g)
BY DEF Quiet

\* Whatever the listeners were told before, they are told the state now.
LEMMA SentTold ==
    ASSUME NEW d, Legible(d), NEW type \in EventTypes
    PROVE  LET e == Dispatch(d, type)
           IN  /\ Legible(e) /\ GetState(e) = GetState(d) /\ \A was : Told(was, e)
               /\ SameBut(d, e, {"out"})
<1> DEFINE e == Dispatch(d, type)
           sent == [type |-> type, state |-> GetState(d)]
<1>1. DOMAIN d = Fields /\ d.out \in Seq(Event) /\ GetState(d) \in StateType
  BY StateOf DEF Legible
<1>2. sent \in Event
  BY <1>1 DEF Event
<1>3. SameBut(d, e, {"out"}) /\ e.out = Append(d.out, sent)
  BY <1>1 DEF Dispatch, SameBut, Fields
<1> DEFINE out == Append(d.out, sent)
<1>4. out \in Seq(Event) /\ out # <<>> /\ out[Len(out)] = sent
  <2> HIDE DEF sent
  <2>1. QED  BY <1>1, <1>2
<1> HIDE DEF e, sent, out
<1>5. e.h = d.h /\ e.v = d.v /\ e.cur = d.cur /\ e.shown = d.shown /\ e.curf = d.curf
      /\ e.paused = d.paused /\ e.overview = d.overview /\ e.out = out /\ DOMAIN e = Fields
  BY <1>3 DEF SameBut, Fields, out
<1>6. Legible(e)
  BY <1>4, <1>5 DEF Legible
<1>7. FragmentIndex(e) = FragmentIndex(d)
  BY <1>5 DEF FragmentIndex
<1>8. GetState(e) = GetState(d)
  BY <1>5, <1>7 DEF GetState
<1>9. e.out[Len(e.out)].state = GetState(e) /\ e.out # <<>>
  BY <1>4, <1>5, <1>8 DEF sent
<1>10. QED  BY <1>3, <1>6, <1>8, <1>9 DEF Told, e
-----------------------------------------------------------------------------
\* navigateFragment tells of the fragments it shows and hides.
LEMMA FragmentTold ==
    ASSUME NEW d, Legible(d), NEW index \in Int
    PROVE  LET e == NavigateFragment(d, index)
           IN  /\ Legible(e) /\ \A was : Told(was, d) => Told(was, e)
               /\ e.h = d.h /\ e.v = d.v /\ e.paused = d.paused /\ e.overview = d.overview
               /\ Frags[d.cur] # 0 /\ index \in -1 .. Frags[d.cur] - 1
                     => e.shown[d.cur] = index + 1
<1> DEFINE a == ShowGroups(d, index)
           b == AnnounceFragments(d, a)
           c == UpdateProgress(UpdateControls(b))
           m == Frags[d.cur]
           n == IF index < 0 THEN 0 ELSE IF index >= m THEN m ELSE index + 1
           f == IF index \in 0 .. m - 1 THEN index ELSE -1
<1>1. DOMAIN d = Fields /\ d.cur \in Slides /\ d.shown \in [Slides -> Nat] /\ m \in Nat
      /\ d.cur # NoSlide /\ d.shown[d.cur] \in Nat /\ d.shown[d.cur] <= m
  BY FragsType, SlidePairs DEF Legible
<1>2. n \in Nat /\ n <= m /\ f \in {-1, n - 1}
  BY <1>1
<1>3. SameBut(d, a, {"shown", "curf"}) /\ a.shown = [d.shown EXCEPT ![d.cur] = n] /\ a.curf = f
  <2>1. SameBut(d, a, {"shown", "curf"})
    BY <1>1 DEF ShowGroups, SameBut, Fields
  <2>2. a.shown = [d.shown EXCEPT ![d.cur] = n]
    BY <1>1 DEF ShowGroups, Fields
  <2>3. a.curf = f
    BY <1>1 DEF ShowGroups, Fields
  <2>4. QED  BY <2>1, <2>2, <2>3
<1>4. m # 0 /\ index \in -1 .. m - 1 => n = index + 1
  BY <1>1
<1> HIDE DEF a, n, f
<1>5. a.h = d.h /\ a.v = d.v /\ a.cur = d.cur /\ a.paused = d.paused /\ a.overview = d.overview
      /\ a.out = d.out /\ DOMAIN a = Fields
  BY <1>3 DEF SameBut, Fields
<1>6. a.shown \in [Slides -> Nat] /\ a.shown[a.cur] = n
  BY <1>1, <1>2, <1>3, <1>5
<1>7. Legible(a)
  BY <1>2, <1>3, <1>5, <1>6 DEF Legible
<1>8. Legible(b) /\ (\A was : Told(was, d) => Told(was, b))
      /\ b.h = a.h /\ b.v = a.v /\ b.paused = a.paused /\ b.overview = a.overview
      /\ b.shown = a.shown
  <2>1. CASE a.shown[a.cur] = d.shown[a.cur]
    <3>1. b = a
      BY <2>1 DEF AnnounceFragments
    <3>2. GetState(a) = GetState(d)
      BY <1>5, <1>7, <2>1, StateOf
    <3>3. QED  BY <1>5, <1>7, <3>1, <3>2 DEF Told
  <2>2. CASE a.shown[a.cur] # d.shown[a.cur]
    <3>1. b \in {Dispatch(a, "fragmenthidden"), Dispatch(a, "fragmentshown")}
      BY <2>2 DEF AnnounceFragments
    <3>2. "fragmenthidden" \in EventTypes /\ "fragmentshown" \in EventTypes
      BY DEF EventTypes
    <3>3. SameBut(a, b, {"out"}) /\ Legible(b) /\ \A was : Told(was, b)
      BY <1>7, <3>1, <3>2, SentTold
    <3>4. b.h = a.h /\ b.v = a.v /\ b.paused = a.paused /\ b.overview = a.overview
          /\ b.shown = a.shown
      BY <3>3 DEF SameBut, Fields
    <3>5. QED  BY <3>3, <3>4
  <2>3. QED  BY <2>1, <2>2
<1> HIDE DEF b
<1>9. Quiet(b, c)
  <2>1. DOMAIN b = Fields
    BY <1>8 DEF Legible
  <2>2. SameBut(b, UpdateControls(b), {"controls"})
    BY <2>1, UpdateFields
  <2>3. SameBut(UpdateControls(b), c, {"progress"})
    BY <2>2, UpdateFields DEF SameBut
  <2>4. SameBut(b, c, {"controls", "progress"})
    BY <2>2, <2>3 DEF SameBut
  <2>5. {"controls", "progress"} \cap Read = {}
    BY DEF Read
  <2>6. QED  BY <2>4, <2>5, SameQuiet
<1> HIDE DEF c
<1>10. c.h = b.h /\ c.v = b.v /\ c.paused = b.paused /\ c.overview = b.overview
       /\ c.shown = b.shown
  BY <1>9 DEF Quiet, Read
<1>11. Legible(c) /\ \A was : Told(was, d) => Told(was, c)
  BY <1>8, <1>9, QuietTold
<1>12. NavigateFragment(d, index) = IF m = 0 THEN d ELSE c
  BY <1>1 DEF NavigateFragment, c, b, a
<1>13. m # 0 /\ index \in -1 .. m - 1 => c.shown[d.cur] = index + 1
  BY <1>4, <1>5, <1>6, <1>8, <1>10
<1>14. c.h = d.h /\ c.v = d.v /\ c.paused = d.paused /\ c.overview = d.overview
  BY <1>5, <1>8, <1>10
<1> HIDE DEF m
<1>15. CASE m = 0
  BY <1>12, <1>15 DEF m
<1>16. CASE m # 0
  <2>1. NavigateFragment(d, index) = c
    BY <1>12, <1>16
  <2>2. QED  BY ONLY <1>11, <1>13, <1>14, <2>1 DEF m
<1>17. QED  BY <1>15, <1>16

-----------------------------------------------------------------------------
\* What slide() does when it has arrived is no news.
Settled(g) ==
    CueAutoSlide(WriteURL(UpdateNotes(UpdateSlideNumber(UpdateProgress(UpdateControls(g))))))

\* Nothing that slide() brings up to date on its way out is read by the state.
LEMMA SettledQuiet ==
    ASSUME NEW g, DOMAIN g = Fields PROVE Quiet(g, Settled(g)) /\ Settled(g).cfg = g.cfg
<1> DEFINE u == Updated(g)
           w == WriteURL(u)
           e == CueAutoSlide(w)
<1>1. SameBut(g, u, Updates) /\ DOMAIN u = Fields
  BY UpdatedKeeps DEF SameBut
<1> HIDE DEF u
<1>2. SameBut(u, w, {"hash", "events"}) /\ DOMAIN w = Fields
  <2>1. SameBut(u, w, {"hash", "events"})
    BY <1>1 DEF WriteURL, SetHash, SameBut, Fields
  <2>2. QED  BY <2>1 DEF SameBut
<1> HIDE DEF w
<1>3. SameBut(w, e, {"auto", "timer"})
  BY <1>2 DEF CueAutoSlide, CancelAutoSlide, SameBut, Fields
<1> HIDE DEF e
<1>4. Quiet(g, u) /\ Quiet(u, w) /\ Quiet(w, e)
  <2>1. Updates \cap Read = {} /\ {"hash", "events"} \cap Read = {}
        /\ {"auto", "timer"} \cap Read = {}
    BY DEF Updates, Read
  <2>2. QED  BY <1>1, <1>2, <1>3, <2>1, SameQuiet
<1>5. Quiet(g, e)
  BY <1>4, QuietTrans
<1>6. e.cfg = g.cfg
  BY <1>1, <1>2, <1>3 DEF SameBut, Fields, Updates
<1>7. Settled(g) = e
  BY DEF Settled, Updated, e, w, u
<1>8. QED  BY <1>5, <1>6, <1>7

\* slide() tells of the slide that it comes to, and of the fragments that it
\* shows and hides where it is.
LEMMA SlideTold ==
    ASSUME NEW d, Ready(d), d.curf \in {-1, d.shown[<<d.h, d.v>>] - 1}, d.out \in Seq(Event),
           NEW h \in Int, NEW v \in Int, NEW f \in Int
    PROVE  LET e == Slide(d, h, v, f)
           IN  /\ Legible(e) /\ \A was : Told(was, d) => Told(was, e)
               /\ e.paused = d.paused /\ e.overview = d.overview
               /\ h # Undefined /\ v # Undefined => e.cur = GoesTo(d, h, v)
               /\ f # Undefined /\ Frags[e.cur] # 0 /\ f \in -1 .. Frags[e.cur] - 1
                     => e.shown[e.cur] = f + 1
               /\ f = Undefined => e.shown[e.cur] = d.shown[e.cur]
<1> DEFINE to == IF v = Undefined /\ ~d.overview THEN PreviousV(d, h) ELSE v
           hh == IF h = Undefined THEN d.h ELSE h
           vv == IF to = Undefined THEN d.v ELSE to
           t == There(d, hh, vv)
           n == IF f = Undefined THEN t ELSE NavigateFragment(t, f)
           g == SlideChanged(d, n)
           e == Settled(g)
<1>1. DOMAIN d = Fields /\ FirmOK(d) /\ LooseOK(d) /\ d.cfg \in ConfigType
      /\ d.paused \in BOOLEAN /\ d.overview \in BOOLEAN /\ <<d.h, d.v>> \in Slides
  BY DEF Ready, FirmOK, LooseOK
<1>2. hh \in Int /\ vv \in Int
  <2>1. d.h \in Int /\ d.v \in Int
    BY <1>1, SlidePairs DEF FirmOK
  <2>2. to \in Int
    BY <1>1, PreviousIn DEF LooseOK
  <2>3. QED  BY <2>1, <2>2
<1>3. h # Undefined /\ v # Undefined => hh = h /\ vv = v
  OBVIOUS
<1> HIDE DEF hh, vv
<1>4. /\ SameBut(d, t, ThereFields) /\ <<t.h, t.v>> \in Slides /\ t.cur = <<t.h, t.v>>
      /\ t.shown \in [Slides -> Nat] /\ (\A s \in Slides : t.shown[s] <= Frags[s])
      /\ t.cur = GoesTo(d, hh, vv) /\ t.shown = ShownAt(d, t.cur)
      /\ t.curf = -1 \/ (t.cur = d.cur /\ t.curf = d.curf)
  BY <1>2, ThereIs
<1> HIDE DEF t
<1>5. t.paused = d.paused /\ t.overview = d.overview /\ t.out = d.out /\ DOMAIN t = Fields
  BY <1>4 DEF SameBut, Fields, ThereFields
<1>6. t.shown[t.cur] = d.shown[t.cur]
  <2>1. ~Before(t.cur, t.cur)
    BY <1>4, OneOrder
  <2>2. QED  BY <1>4, <2>1 DEF ShownAt
<1>7. Legible(t)
  <2>1. t.curf \in {-1, t.shown[t.cur] - 1}
    <3>1. t.cur = d.cur => d.cur = <<d.h, d.v>>
      BY <1>1, <1>4, SlidePairs DEF FirmOK
    <3>2. QED  BY <1>4, <1>6, <3>1
  <2>2. QED  BY <1>1, <1>4, <1>5, <2>1 DEF Legible
<1>8. /\ Legible(n) /\ (\A was : Told(was, t) => Told(was, n))
      /\ n.h = t.h /\ n.v = t.v /\ n.paused = t.paused /\ n.overview = t.overview
      /\ f # Undefined /\ Frags[t.cur] # 0 /\ f \in -1 .. Frags[t.cur] - 1
            => n.shown[t.cur] = f + 1
      /\ f = Undefined => n.shown[t.cur] = t.shown[t.cur]
  <2>1. CASE f = Undefined
    BY <1>7, <2>1
  <2>2. CASE f # Undefined
    <3>1. n = NavigateFragment(t, f)
      BY <2>2
    <3> HIDE DEF n
    <3>2. QED  BY <1>7, <2>2, <3>1, FragmentTold
  <2>3. QED  BY <2>1, <2>2
<1> HIDE DEF n
<1>9. n.cur = t.cur /\ DOMAIN n = Fields
  BY <1>4, <1>8 DEF Legible
<1>10. /\ Legible(g) /\ (\A was : Told(was, d) => Told(was, g))
       /\ g.cur = t.cur /\ g.shown = n.shown /\ g.paused = n.paused /\ g.overview = n.overview
  <2>1. CASE n.h = d.h /\ n.v = d.v
    <3>1. g = n
      BY <2>1 DEF SlideChanged
    <3>2. ASSUME NEW was, Told(was, d) PROVE Told(was, t)
      <4>1. t.h = d.h /\ t.v = d.v /\ t.cur = d.cur
        BY <1>4, <1>8, <2>1, <3>2 DEF Told, Legible
      <4>2. GetState(t) = GetState(d)
        BY <1>5, <1>6, <1>7, <3>2, <4>1, StateOf DEF Told
      <4>3. QED  BY <1>5, <1>7, <3>2, <4>2 DEF Told
    <3>3. QED  BY <1>8, <1>9, <3>1, <3>2
  <2>2. CASE ~(n.h = d.h /\ n.v = d.v)
    <3> DEFINE sent == Dispatch(n, "slidechanged")
    <3>1. Legible(sent) /\ (\A was : Told(was, sent)) /\ SameBut(n, sent, {"out"})
      BY <1>8, SentTold DEF EventTypes
    <3> HIDE DEF sent
    <3>2. DOMAIN sent = Fields
      BY <3>1 DEF Legible
    <3>3. g = LeaveSlide(sent, d.cur)
      BY <2>2 DEF SlideChanged, sent
    <3> HIDE DEF g
    <3>4. SameBut(sent, g, {"vcls", "homing"})
      BY <3>2, <3>3 DEF LeaveSlide, SameBut, Fields
    <3>5. Quiet(sent, g)
      <4>1. {"vcls", "homing"} \cap Read = {}
        BY DEF Read
      <4>2. QED  BY <3>4, <4>1, SameQuiet
    <3>6. Legible(g) /\ \A was : Told(was, g)
      BY <3>1, <3>5, QuietTold
    <3>7. g.cur = n.cur /\ g.shown = n.shown /\ g.paused = n.paused /\ g.overview = n.overview
      BY <3>1, <3>4 DEF SameBut, Fields
    <3>8. QED  BY <1>9, <3>6, <3>7
  <2>3. QED  BY <2>1, <2>2
<1> HIDE DEF g
<1>11. Quiet(g, e)
  BY <1>10, SettledQuiet DEF Legible
<1> HIDE DEF e
<1>12. e.cur = g.cur /\ e.shown = g.shown /\ e.paused = g.paused /\ e.overview = g.overview
  BY <1>11 DEF Quiet, Read
<1>13. Legible(e) /\ \A was : Told(was, d) => Told(was, e)
  BY <1>10, <1>11, QuietTold
<1>14. Slide(d, h, v, f) = e
  BY DEF Slide, There, Settled, e, g, n, t, hh, vv
<1>15. e.paused = d.paused /\ e.overview = d.overview /\ e.cur = t.cur
       /\ e.shown[e.cur] = n.shown[t.cur]
  BY <1>5, <1>8, <1>10, <1>12
<1>16. h # Undefined /\ v # Undefined => e.cur = GoesTo(d, h, v)
  BY <1>3, <1>4, <1>15
<1>17. QED  BY ONLY <1>6, <1>8, <1>13, <1>14, <1>15, <1>16
-----------------------------------------------------------------------------
\* Every function that a handler calls leaves a deck whose state its listeners
\* were told, if they were told it before.
Clear(d) == Steady(d) /\ Legible(d)
Tells(d, e) == Clear(e) /\ \A was : Told(was, d) => Told(was, e)

\* A handler that does nothing has nothing to tell.
LEMMA TellsRefl == ASSUME NEW d, Clear(d) PROVE Tells(d, d)
BY DEF Tells

\* What two steps of a handler tell is told when one follows the other.
LEMMA TellsTrans ==
    ASSUME NEW c, NEW d, NEW e, Tells(c, d), Tells(d, e) PROVE Tells(c, e)
BY DEF Tells

\* slide(), from a deck that a slide is shown on.
LEMMA SlideTells ==
    ASSUME NEW d, Clear(d), NEW h \in Int, NEW v \in Int, NEW f \in Int
    PROVE  LET e == Slide(d, h, v, f)
           IN  /\ Tells(d, e) /\ e.paused = d.paused /\ e.overview = d.overview
               /\ h # Undefined /\ v # Undefined => e.cur = GoesTo(d, h, v)
               /\ f # Undefined /\ Frags[e.cur] # 0 /\ f \in -1 .. Frags[e.cur] - 1
                     => e.shown[e.cur] = f + 1
               /\ f = Undefined => e.shown[e.cur] = d.shown[e.cur]
<1>1. Ready(d) /\ d.curf \in {-1, d.shown[<<d.h, d.v>>] - 1} /\ d.out \in Seq(Event)
  BY DEF Clear, Steady, Legible
<1>2. Steady(Slide(d, h, v, f))
  BY <1>1, SlideKeeps
<1>3. QED  BY <1>1, <1>2, SlideTold DEF Tells, Clear

\* The steps of the fragments.
LEMMA StepTells ==
    ASSUME NEW d, Clear(d) PROVE Tells(d, NextFragment(d)) /\ Tells(d, PreviousFragment(d))
<1>1. d.shown[d.cur] \in Int /\ d.shown[d.cur] - 2 \in Int
  <2>1. d.shown[d.cur] \in Nat
    BY DEF Clear, Legible
  <2>2. QED  BY <2>1
<1>2. Steady(NextFragment(d)) /\ Steady(PreviousFragment(d))
  BY StepKeeps DEF Clear, Keeps
<1>3. \A was : Told(was, d) => Told(was, d)
  OBVIOUS
<1>4. ASSUME NEW i \in Int, NEW e, e = NavigateFragment(d, i)
      PROVE  Legible(e) /\ \A was : Told(was, d) => Told(was, e)
  BY <1>4, FragmentTold DEF Clear
<1>5. d.cur # NoSlide
  BY SlidePairs DEF Clear, Legible
<1>6. NextFragment(d) = NavigateFragment(d, d.shown[d.cur])
      /\ PreviousFragment(d) = NavigateFragment(d, d.shown[d.cur] - 2)
  BY <1>5 DEF NextFragment, PreviousFragment
<1>7. QED  BY <1>1, <1>2, <1>4, <1>6 DEF Tells, Clear

\* What a step of the fragments leaves has been told, when it ends the handler.
LEMMA AfterTells ==
    ASSUME NEW d, Clear(d), NEW forward PROVE Tells(d, AfterFragments(d, forward))
BY StepTells, TellsRefl DEF AfterFragments

\* An arrow ends where its fragments left the deck or at another slide.
LEMMA OrSlideTells ==
    ASSUME NEW c, NEW d, NEW e, Tells(c, e), NEW route, NEW h \in Int, NEW v \in Int
    PROVE  Tells(c, OrSlide(d, e, route, h, v))
<1>1. Tells(e, Slide(e, h, v, Undefined))
  BY SlideTells, UndefinedInt DEF Tells
<1>2. Tells(c, Slide(e, h, v, Undefined))
  BY <1>1, TellsTrans
<1>3. QED  BY <1>2 DEF OrSlide

\* The four ways on from a slide.
LEMMA SidewaysTells ==
    ASSUME NEW d, Clear(d)
    PROVE  /\ Tells(d, NavigateLeft(d)) /\ Tells(d, NavigateRight(d))
           /\ Tells(d, NavigateUp(d)) /\ Tells(d, NavigateDown(d))
<1>1. d.h \in Int /\ d.v \in Int /\ d.h - 1 \in Int /\ d.h + 1 \in Int
      /\ d.v - 1 \in Int /\ d.v + 1 \in Int
  BY SteadyCur DEF Clear
<1>2. \A forward : Tells(d, AfterFragments(d, forward))
  BY AfterTells
<1>3. Tells(d, NavigateLeft(d))
  BY <1>1, <1>2, OrSlideTells, UndefinedInt DEF NavigateLeft
<1>4. Tells(d, NavigateRight(d))
  BY <1>1, <1>2, OrSlideTells, UndefinedInt DEF NavigateRight
<1>5. Tells(d, NavigateUp(d))
  BY <1>1, <1>2, OrSlideTells DEF NavigateUp
<1>6. Tells(d, NavigateDown(d))
  BY <1>1, <1>2, OrSlideTells DEF NavigateDown
<1>7. QED  BY <1>3, <1>4, <1>5, <1>6

\* Back and on.
LEMMA PrevNextTells ==
    ASSUME NEW d, Clear(d) PROVE Tells(d, NavigatePrev(d)) /\ Tells(d, NavigateNext(d))
<1>1. ASSUME NEW e, Tells(d, e) PROVE Tells(d, PrevSlide(d, e))
  <2>1. Clear(e) /\ Steady(e)
    BY <1>1 DEF Tells, Clear
  <2>2. Tells(d, NavigateUp(e))
    BY <1>1, <2>1, SidewaysTells, TellsTrans
  <2>3. ASSUME PassedColumns(e) # {}
        PROVE  Tells(d, Slide(e, e.h - 1, LastOf(PassedColumns(e)), Undefined))
    <3>1. e.h - 1 \in Int /\ LastOf(PassedColumns(e)) \in Int
      BY <2>1, <2>3, SteadyCur, LastOfIn
    <3>2. Tells(e, Slide(e, e.h - 1, LastOf(PassedColumns(e)), Undefined))
      BY <2>1, <3>1, SlideTells, UndefinedInt
    <3>3. QED  BY <1>1, <3>2, TellsTrans
  <2>4. QED  BY <1>1, <2>2, <2>3 DEF PrevSlide
<1>2. ASSUME NEW e, Tells(d, e) PROVE Tells(d, NextSlide(d, e))
  <2>1. Clear(e)
    BY <1>2 DEF Tells
  <2>2. Tells(d, NavigateDown(e)) /\ Tells(d, NavigateLeft(e)) /\ Tells(d, NavigateRight(e))
    BY <1>2, <2>1, SidewaysTells, TellsTrans
  <2>3. QED  BY <1>2, <2>2 DEF NextSlide
<1>3. QED  BY <1>1, <1>2, StepTells DEF NavigatePrev, NavigateNext

\* The task queued on the way home is no news.
LEMMA ResetTells ==
    ASSUME NEW d, Clear(d)
    PROVE  Tells(d, ResetStacks(d)) /\ GetState(ResetStacks(d)) = GetState(d)
<1>1. DOMAIN d = Fields
  BY DEF Clear, Legible
<1>2. SameBut(d, ResetStacks(d), {"prevV", "homing"})
  BY <1>1 DEF ResetStacks, SameBut, Fields
<1>3. {"prevV", "homing"} \cap Read = {}
  BY DEF Read
<1>4. Quiet(d, ResetStacks(d))
  BY <1>2, <1>3, SameQuiet
<1>5. Steady(ResetStacks(d))
  BY ResetKeeps DEF Clear, Keeps
<1>6. QED  BY <1>4, <1>5, QuietTold DEF Clear, Tells

\* The pause changes nothing else of the state.
LEMMA PauseTells ==
    ASSUME NEW d, Clear(d), NEW on \in BOOLEAN
    PROVE  LET e == SetPaused(d, on)
               t == TogglePause(d, ~d.paused)
           IN  /\ Tells(d, e) /\ Tells(d, t)
               /\ e.cur = d.cur /\ e.shown = d.shown /\ e.overview = d.overview
               /\ e.paused = on
<1> DEFINE a(b) == [d EXCEPT !.paused = b]
           p == CancelAutoSlide(a(TRUE))
           r == CueAutoSlide(a(FALSE))
           t == TogglePause(d, ~d.paused)
<1>1. DOMAIN d = Fields /\ Legible(d) /\ d.paused \in BOOLEAN
  BY DEF Clear, Legible
<1>2. \A b \in BOOLEAN : SameBut(d, a(b), {"paused"}) /\ a(b).paused = b
  BY <1>1 DEF SameBut, Fields
<1> HIDE DEF a
<1>3. SameBut(a(TRUE), p, {"auto", "timer"}) /\ SameBut(a(FALSE), r, {"auto", "timer"})
  <2>1. DOMAIN a(TRUE) = Fields /\ DOMAIN a(FALSE) = Fields
    BY <1>2 DEF SameBut
  <2>2. QED  BY <2>1 DEF CancelAutoSlide, CueAutoSlide, SameBut, Fields
<1> HIDE DEF p, r
<1>4. /\ p.h = d.h /\ p.v = d.v /\ p.cur = d.cur /\ p.shown = d.shown /\ p.curf = d.curf
      /\ p.overview = d.overview /\ p.out = d.out /\ p.paused = TRUE /\ DOMAIN p = Fields
      /\ r.h = d.h /\ r.v = d.v /\ r.cur = d.cur /\ r.shown = d.shown /\ r.curf = d.curf
      /\ r.overview = d.overview /\ r.out = d.out /\ r.paused = FALSE /\ DOMAIN r = Fields
  <2>1. SameBut(d, a(TRUE), {"paused"}) /\ a(TRUE).paused = TRUE
        /\ SameBut(d, a(FALSE), {"paused"}) /\ a(FALSE).paused = FALSE
    BY <1>2
  <2>2. QED  BY <1>3, <2>1 DEF SameBut, Fields
<1>5. Legible(p) /\ Legible(r)
  BY <1>1, <1>4 DEF Legible
<1>6. t = IF d.paused THEN Dispatch(r, "resumed") ELSE Dispatch(p, "paused")
  BY <1>1 DEF TogglePause, Pause, Resume, p, r, a
<1> HIDE DEF t
<1>7. ASSUME NEW q \in {p, r}, NEW type \in {"paused", "resumed"}, t = Dispatch(q, type)
      PROVE  /\ Legible(t) /\ (\A was : Told(was, t))
             /\ t.cur = d.cur /\ t.shown = d.shown /\ t.overview = d.overview
             /\ t.paused = q.paused
  <2>1. Legible(q)
    BY <1>5
  <2>2. type \in EventTypes
    BY DEF EventTypes
  <2>3. Legible(t) /\ (\A was : Told(was, t)) /\ SameBut(q, t, {"out"})
    BY <1>7, <2>1, <2>2, SentTold
  <2>4. t.cur = q.cur /\ t.shown = q.shown /\ t.overview = q.overview /\ t.paused = q.paused
    BY <2>3 DEF SameBut, Fields
  <2>5. QED  BY <1>4, <2>3, <2>4
<1>8. /\ Legible(t) /\ (\A was : Told(was, t))
      /\ t.cur = d.cur /\ t.shown = d.shown /\ t.overview = d.overview
      /\ t.paused = ~d.paused
  <2>1. CASE d.paused
    BY <1>4, <1>6, <1>7, <2>1
  <2>2. CASE ~d.paused
    BY <1>4, <1>6, <1>7, <2>2
  <2>3. QED  BY <2>1, <2>2
<1>9. Steady(t)
  BY PauseKeeps DEF Clear, Keeps, t
<1>10. Tells(d, t)
  BY <1>8, <1>9 DEF Tells, Clear
<1>11. SetPaused(d, on) = IF on # d.paused THEN t ELSE d
  <2>1. on # d.paused => on = ~d.paused
    BY <1>1
  <2>2. QED  BY <2>1 DEF SetPaused, t
<1>12. CASE on = d.paused
  <2>1. SetPaused(d, on) = d
    BY <1>11, <1>12
  <2>2. QED  BY <1>10, <1>12, <2>1, TellsRefl DEF t
<1>13. CASE on # d.paused
  <2>1. SetPaused(d, on) = t /\ t.paused = on
    <3>1. on = ~d.paused
      BY <1>1, <1>13
    <3>2. QED  BY <1>8, <1>11, <1>13, <3>1
  <2>2. QED  BY <1>8, <1>10, <2>1 DEF t
<1>14. QED  BY <1>12, <1>13
-----------------------------------------------------------------------------
\* The indices of a slide lead to it.
LEMMA GoesThere ==
    ASSUME NEW d, d.cfg \in ConfigType, NEW h, NEW v, <<h, v>> \in Slides
    PROVE  GoesTo(d, h, v) = <<h, v>>
<1>1. h \in Columns /\ v \in Heights(h) /\ Columns = 0 .. Width - 1 /\ Width \in Nat
      /\ Stack[h] \in Nat
  BY SlidePairs
<1>2. Bounded(d, h, Width) = h
  BY <1>1, BoundedMoves
<1>3. Bounded(d, v, Stack[h]) = v
  <2>1. CASE Stack[h] = 0
    BY <1>1, <2>1 DEF Bounded, Heights, IsStack
  <2>2. CASE Stack[h] # 0
    <3>1. v \in 0 .. Stack[h] - 1
      BY <1>1, <2>2 DEF Heights, IsStack
    <3>2. QED  BY <1>1, <3>1, BoundedMoves
  <2>3. QED  BY <2>1, <2>2
<1>4. QED  BY <1>2, <1>3 DEF GoesTo

\* The overview comes and goes without moving the deck.
LEMMA OverviewTells ==
    ASSUME NEW d, Clear(d), NEW on \in BOOLEAN
    PROVE  LET e == SetOverview(d, on)
               t == ToggleOverview(d, ~d.overview)
           IN  /\ Tells(d, e) /\ Tells(d, t)
               /\ e.cur = d.cur /\ e.shown[e.cur] = d.shown[d.cur] /\ e.paused = d.paused
               /\ e.overview = on
<1> DEFINE o == [d EXCEPT !.overview = TRUE]
           c == [d EXCEPT !.overview = FALSE]
           x == CancelAutoSlide(o)
           s == Slide(c, d.h, d.v, Undefined)
           y == CueAutoSlide(s)
           t == ToggleOverview(d, ~d.overview)
<1>1. DOMAIN d = Fields /\ Legible(d) /\ d.overview \in BOOLEAN /\ Steady(d)
      /\ d.h \in Int /\ d.v \in Int /\ d.h # Undefined /\ d.v # Undefined
      /\ d.cur = <<d.h, d.v>> /\ d.cur \in Slides /\ d.cfg \in ConfigType
  <2>1. d.h \in Nat /\ d.v \in Nat
    BY SteadyCur DEF Clear
  <2>2. d.cfg \in ConfigType
    BY DEF Clear, Steady, Ready, FirmOK
  <2>3. QED  BY <2>1, <2>2 DEF Clear, Legible, Undefined
<1>2. ASSUME NEW b \in BOOLEAN, NEW a, a = [d EXCEPT !.overview = b]
      PROVE  SameBut(d, a, {"overview"}) /\ a.overview = b /\ Legible(a) /\ Ready(a)
  <2>1. SameBut(d, a, {"overview"}) /\ a.overview = b
    BY <1>1, <1>2 DEF SameBut, Fields
  <2>2. a.h = d.h /\ a.v = d.v /\ a.cur = d.cur /\ a.shown = d.shown
        /\ a.curf = d.curf /\ a.paused = d.paused /\ a.out = d.out
        /\ DOMAIN a = Fields
    BY <2>1 DEF SameBut, Fields
  <2>3. Legible(a)
    BY <1>1, <2>1, <2>2 DEF Legible
  <2>4. LooseOK(a)
    <3>1. LooseOK(d)
      BY <1>1 DEF Steady, Ready
    <3>2. a.prevV = d.prevV /\ a.homing = d.homing /\ a.auto = d.auto
          /\ a.autoPaused = d.autoPaused /\ a.timer = d.timer /\ a.player = d.player
          /\ a.cfg = d.cfg
      BY <2>1 DEF SameBut, Fields
    <3>3. QED  BY <2>1, <2>2, <3>1, <3>2 DEF LooseOK
  <2>5. SameBut(d, a, Loose)
    BY <2>1, SameMore DEF Loose
  <2>6. Ready(a)
    BY <1>1, <2>4, <2>5, LooseKeeps DEF Steady
  <2>7. QED  BY <2>1, <2>3, <2>6
<1>3. SameBut(d, o, {"overview"}) /\ o.overview = TRUE /\ Legible(o)
      /\ SameBut(d, c, {"overview"}) /\ c.overview = FALSE /\ Legible(c)
      /\ Ready(c)
  BY <1>2
<1> HIDE DEF o, c
<1>4. x.cur = d.cur /\ x.shown = d.shown /\ x.paused = d.paused /\ x.overview = TRUE /\ Legible(x)
  <2>1. DOMAIN o = Fields
    BY <1>3 DEF SameBut
  <2>2. SameBut(o, x, {"timer"})
    BY <2>1 DEF CancelAutoSlide, SameBut, Fields
  <2>3. {"timer"} \cap Read = {}
    BY DEF Read
  <2>4. Legible(x)
    BY <1>3, <2>2, <2>3, SameQuiet, QuietTold
  <2> HIDE DEF x
  <2>5. QED  BY <1>3, <2>2, <2>4 DEF SameBut, Fields
<1>5. s.cur = d.cur /\ s.shown[s.cur] = d.shown[d.cur] /\ s.paused = d.paused
      /\ s.overview = FALSE /\ Legible(s) /\ Steady(s)
  <2>1. c.cur = d.cur /\ c.shown = d.shown /\ c.paused = d.paused
        /\ c.h = d.h /\ c.v = d.v /\ c.curf = d.curf
        /\ c.out = d.out /\ c.cfg = d.cfg
    BY <1>3 DEF SameBut, Fields
  <2>2. c.curf \in {-1, c.shown[<<c.h, c.v>>] - 1}
        /\ c.out \in Seq(Event)
    BY <1>1, <2>1 DEF Legible
  <2>3. /\ Legible(s) /\ s.paused = c.paused /\ s.overview = c.overview
        /\ s.cur = GoesTo(c, d.h, d.v) /\ s.shown[s.cur] = c.shown[s.cur]
    BY <1>1, <1>3, <2>2, UndefinedInt, SlideTold
  <2>4. Steady(s)
    BY <1>1, <1>3, UndefinedInt, SlideKeeps
  <2>5. GoesTo(c, d.h, d.v) = d.cur
    BY <1>1, <2>1, GoesThere
  <2>6. QED  BY <1>3, <2>1, <2>3, <2>4, <2>5
<1> HIDE DEF s
<1>6. y.cur = d.cur /\ y.shown[y.cur] = d.shown[d.cur] /\ y.paused = d.paused
      /\ y.overview = FALSE /\ Legible(y)
  <2>1. DOMAIN s = Fields
    BY <1>5 DEF Legible
  <2>2. SameBut(s, y, {"auto", "timer"})
    BY <2>1 DEF CueAutoSlide, CancelAutoSlide, SameBut, Fields
  <2>3. {"auto", "timer"} \cap Read = {}
    BY DEF Read
  <2>4. Legible(y)
    BY <1>5, <2>2, <2>3, SameQuiet, QuietTold
  <2> HIDE DEF y
  <2>5. QED  BY <1>5, <2>2, <2>4 DEF SameBut, Fields
<1>7. t = IF d.overview THEN Dispatch(y, "overviewhidden") ELSE Dispatch(x, "overviewshown")
  BY <1>1 DEF ToggleOverview, ActivateOverview, DeactivateOverview, x, y, s, o, c
<1> HIDE DEF t, x, y
<1>8. ASSUME NEW q \in {x, y}, NEW type \in {"overviewhidden", "overviewshown"},
             t = Dispatch(q, type)
      PROVE  /\ Legible(t) /\ (\A was : Told(was, t))
             /\ t.cur = d.cur /\ t.shown[t.cur] = d.shown[d.cur] /\ t.paused = d.paused
             /\ t.overview = q.overview
  <2>1. Legible(q)
    BY <1>4, <1>6
  <2>2. type \in EventTypes
    BY DEF EventTypes
  <2>3. Legible(t) /\ (\A was : Told(was, t)) /\ SameBut(q, t, {"out"})
    BY <1>8, <2>1, <2>2, SentTold
  <2>4. t.cur = q.cur /\ t.shown = q.shown /\ t.overview = q.overview /\ t.paused = q.paused
    BY <2>3 DEF SameBut, Fields
  <2>5. q.cur = d.cur /\ q.shown[q.cur] = d.shown[d.cur] /\ q.paused = d.paused
    BY <1>4, <1>6
  <2>6. QED  BY <2>3, <2>4, <2>5
<1>9. /\ Legible(t) /\ (\A was : Told(was, t))
      /\ t.cur = d.cur /\ t.shown[t.cur] = d.shown[d.cur] /\ t.paused = d.paused
      /\ t.overview = ~d.overview
  <2>1. CASE d.overview
    BY <1>6, <1>7, <1>8, <2>1
  <2>2. CASE ~d.overview
    BY <1>4, <1>7, <1>8, <2>2
  <2>3. QED  BY <2>1, <2>2
<1>10. Steady(t)
  BY OverviewKeeps DEF Clear, Keeps, t
<1>11. Tells(d, t)
  BY <1>9, <1>10 DEF Tells, Clear
<1>12. SetOverview(d, on) = IF on # d.overview THEN t ELSE d
  <2>1. on # d.overview => on = ~d.overview
    BY <1>1
  <2>2. QED  BY <2>1 DEF SetOverview, t
<1>13. CASE on = d.overview
  <2>1. SetOverview(d, on) = d
    BY <1>12, <1>13
  <2>2. QED  BY <1>11, <1>13, <2>1, TellsRefl DEF t
<1>14. CASE on # d.overview
  <2>1. SetOverview(d, on) = t /\ t.overview = on
    <3>1. on = ~d.overview
      BY <1>1, <1>14
    <3>2. QED  BY <1>9, <1>12, <1>14, <3>1
  <2>2. QED  BY <1>9, <1>11, <2>1 DEF t
<1>15. QED  BY <1>13, <1>14

\* Another window moves the deck.
LEMMA SetPositionTells ==
    ASSUME NEW d, Clear(d), NEW s, s.indexh \in Int, s.indexv \in Int, s.indexf \in Int,
           s.paused \in BOOLEAN
    PROVE  Tells(d, SetPosition(d, s))
<1> DEFINE a == Slide(d, s.indexh, s.indexv, s.indexf)
<1>1. Tells(d, a)
  BY SlideTells
<1> HIDE DEF a
<1>2. Tells(a, SetPaused(a, s.paused))
  BY <1>1, PauseTells DEF Tells
<1>3. Tells(d, SetPaused(a, s.paused))
  BY <1>1, <1>2, TellsTrans
<1>4. QED  BY <1>3 DEF SetPosition, a

\* A deck that is given the state of another one has that state.
LEMMA SetStateGives ==
    ASSUME NEW d, Clear(d), NEW m, Clear(m)
    PROVE  LET e == SetState(d, GetState(m)) IN Clear(e) /\ GetState(e) = GetState(m)
<1> DEFINE s == GetState(m)
           f == IF Frags[m.cur] = 0 THEN Undefined ELSE m.shown[m.cur] - 1
           a == Slide(d, s.indexh, s.indexv, s.indexf)
           b == SetPaused(a, s.paused)
           e == SetOverview(b, s.overview)
<1>1. m.h \in Int /\ m.v \in Int /\ m.h # Undefined /\ m.v # Undefined
      /\ m.cur = <<m.h, m.v>> /\ m.cur \in Slides
      /\ m.paused \in BOOLEAN /\ m.overview \in BOOLEAN
      /\ m.shown[m.cur] \in Nat /\ m.shown[m.cur] <= Frags[m.cur] /\ Frags[m.cur] \in Nat
  <2>1. m.h \in Nat /\ m.v \in Nat
    BY SteadyCur DEF Clear
  <2>2. QED  BY <2>1, FragsType DEF Clear, Legible, Undefined
<1>2. s.indexh = m.h /\ s.indexv = m.v /\ s.indexf = f /\ s.paused = m.paused
      /\ s.overview = m.overview /\ f \in Int
  <2>1. f \in Int
    BY <1>1, UndefinedInt
  <2>2. s = [indexh |-> m.h, indexv |-> m.v, indexf |-> f, paused |-> m.paused,
             overview |-> m.overview]
    BY StateOf DEF Clear
  <2>3. QED  BY <2>1, <2>2
<1> HIDE DEF s
<1>3. Frags[m.cur] # 0 => f # Undefined /\ f \in -1 .. Frags[m.cur] - 1 /\ f + 1 = m.shown[m.cur]
  BY <1>1 DEF Undefined
<1>4. d.cfg \in ConfigType
  BY DEF Clear, Steady, Ready, FirmOK
<1>5. GoesTo(d, m.h, m.v) = m.cur
  BY <1>1, <1>4, GoesThere
<1> HIDE DEF f
<1>6. Clear(a) /\ a.cur = m.cur /\ (Frags[m.cur] # 0 => a.shown[a.cur] = m.shown[m.cur])
  BY <1>1, <1>2, <1>3, <1>5, SlideTells DEF Tells
<1> HIDE DEF a
<1>7. Clear(b) /\ b.cur = a.cur /\ b.shown = a.shown /\ b.paused = m.paused
  BY <1>1, <1>2, <1>6, PauseTells DEF Tells
<1> HIDE DEF b
<1>8. Clear(e) /\ e.cur = b.cur /\ e.shown[e.cur] = b.shown[b.cur] /\ e.paused = b.paused
      /\ e.overview = m.overview
  <2>1. s.overview \in BOOLEAN
    BY <1>1, <1>2
  <2>2. /\ Tells(b, e) /\ e.cur = b.cur /\ e.shown[e.cur] = b.shown[b.cur]
        /\ e.paused = b.paused /\ e.overview = s.overview
    BY <1>7, <2>1, OverviewTells
  <2>3. QED  BY <1>2, <2>2 DEF Tells
<1> HIDE DEF e
<1>9. e.cur = m.cur /\ e.h = m.h /\ e.v = m.v
  <2>1. e.cur = m.cur
    BY <1>6, <1>7, <1>8
  <2>2. e.cur = <<e.h, e.v>>
    BY <1>8 DEF Clear, Legible
  <2>3. QED  BY <1>1, <2>1, <2>2
<1>10. GetState(e) = GetState(m)
  BY <1>6, <1>7, <1>8, <1>9, StateOf DEF Clear
<1>11. SetState(d, GetState(m)) = e
  BY DEF SetState, SetPosition, e, b, a, s
<1>12. QED  BY <1>8, <1>10, <1>11
-----------------------------------------------------------------------------
\* setState leaves a deck whose state can be read, whatever the state is.
LEMMA SetStateClear ==
    ASSUME NEW d, Clear(d), NEW s \in StateType PROVE Clear(SetState(d, s))
<1>1. s.indexh \in Int /\ s.indexv \in Int /\ s.indexf \in Int /\ s.paused \in BOOLEAN
      /\ s.overview \in BOOLEAN
  BY DEF StateType
<1>2. Clear(SetPosition(d, s))
  BY <1>1, SetPositionTells DEF Tells
<1>3. Clear(SetOverview(SetPosition(d, s), s.overview))
  BY <1>1, <1>2, OverviewTells DEF Tells
<1>4. QED  BY <1>3 DEF SetState

\* When a handler has ended what it sent is forgotten, and the state stays.
LEMMA Forgotten ==
    ASSUME NEW d, Clear(d)
    PROVE  LET e == [d EXCEPT !.out = <<>>]
           IN  /\ Clear(e) /\ e.out = <<>> /\ GetState(e) = GetState(d)
<1> DEFINE e == [d EXCEPT !.out = <<>>]
<1>1. DOMAIN d = Fields
  BY DEF Clear, Legible
<1>2. SameBut(d, e, {"out"}) /\ e.out = <<>>
  BY <1>1 DEF SameBut, Fields
<1>3. Steady(e)
  BY <1>2, OutKeeps DEF Clear
<1> HIDE DEF e
<1>4. e.h = d.h /\ e.v = d.v /\ e.cur = d.cur /\ e.shown = d.shown /\ e.curf = d.curf
      /\ e.paused = d.paused /\ e.overview = d.overview /\ DOMAIN e = Fields
  BY <1>2 DEF SameBut, Fields
<1>5. Legible(e)
  <2>1. e.out \in Seq(Event)
    BY <1>2
  <2>2. QED  BY <1>4, <2>1 DEF Clear, Legible
<1>6. GetState(e) = GetState(d)
  BY <1>4, <1>5, StateOf DEF Clear
<1>7. QED  BY <1>2, <1>3, <1>5, <1>6 DEF Clear, e

\* A deck starts with a state that can be read.
LEMMA StartClear ==
    ASSUME NEW cfg \in ConfigType
    PROVE  LET d == Start(cfg, IndexHash(0, 0)) IN Clear(d) /\ d.out = <<>>
<1> DEFINE hash == IndexHash(0, 0)
           f == FreshDeck(cfg, hash)
           c == Configure(f, cfg)
           s == Slide(c, 0, 0, Undefined)
<1>1. hash \in HashType
  BY DEF IndexHash, HashType
<1>2. Ready(f) /\ f.cur = NoSlide /\ f.curf = -1 /\ f.out = <<>> /\ f.hash = hash
  BY <1>1, FreshReady DEF FreshDeck
<1> HIDE DEF f
<1>3. DOMAIN f = Fields
  BY <1>2 DEF Ready, FirmOK
<1>4. Ready(c) /\ c.cur = NoSlide
  BY <1>2, ConfigureKeeps
<1> DEFINE player == Cardinality(Slides) > 1 /\ cfg.autoSlide = "set" /\ cfg.stoppable
           a == [f EXCEPT !.cfg = cfg, !.player = player,
                          !.autoPaused = IF player THEN FALSE ELSE f.autoPaused]
           b == [a EXCEPT !.auto = a.cfg.autoSlide = "set"]
           q == CueAutoSlide(b)
           w == WriteURL(q)
<1> HIDE DEF player
<1>5. SameBut(f, a, {"cfg", "player", "autoPaused"})
  BY <1>3 DEF SameBut, Fields
<1> HIDE DEF a
<1>6. SameBut(a, b, {"auto"})
  BY <1>5 DEF SameBut, Fields
<1> HIDE DEF b
<1>7. SameBut(b, q, {"auto", "timer"})
  BY <1>6 DEF CueAutoSlide, CancelAutoSlide, SameBut, Fields
<1> HIDE DEF q
<1>8. w = q
  <2>1. q.cur = f.cur
    BY <1>5, <1>6, <1>7 DEF SameBut, Fields
  <2>2. QED  BY <1>2, <2>1 DEF WriteURL
<1> HIDE DEF w
<1>9. SameBut(w, Updated(w), Updates)
  <2>1. DOMAIN w = Fields
    BY <1>7, <1>8 DEF SameBut
  <2>2. QED  BY <2>1, UpdatedKeeps
<1>10. c = Updated(w)
  BY DEF Configure, Sync, Updated, w, q, b, a, player
<1> HIDE DEF c
<1>11. c.curf = -1 /\ c.out = <<>> /\ c.hash = hash
  BY <1>2, <1>5, <1>6, <1>7, <1>8, <1>9, <1>10 DEF SameBut, Fields, Updates
<1>12. Legible(s)
  <2>1. c.out \in Seq(Event) /\ c.curf \in {-1, c.shown[<<c.h, c.v>>] - 1}
    BY <1>11
  <2>2. QED  BY <1>4, <2>1, UndefinedInt, SlideTold
<1>13. Steady(s)
  BY <1>4, UndefinedInt, SlideKeeps
<1>14. ReadURL(c) = s
  BY <1>4, <1>11 DEF ReadURL, IndexHash
<1> HIDE DEF s
<1>15. Start(cfg, hash) = [s EXCEPT !.out = <<>>]
  BY <1>14 DEF Start, c, f
<1>16. QED  BY <1>12, <1>13, <1>15, Forgotten DEF Clear

-----------------------------------------------------------------------------
(***************************************************************************)
(* The running presentation: its handlers.                                 *)
(***************************************************************************)
\* The inductive invariant: the deck is as slide() leaves it, and the timer of
\* the auto-slide runs when it should.
Sound(d) == Steady(d) /\ TimerOK(d)
IInv == Sound(deck)

\* What keeps a steady deck steady and its timer right keeps it sound.
LEMMA SoundKeeps == ASSUME NEW d, NEW e, Sound(d), Keeps(d, e) PROVE Sound(e)
BY DEF Sound, Keeps

\* What was sent is forgotten, and nothing else.
LEMMA HandledSound == ASSUME NEW d, Sound(d), Handled(d) PROVE IInv'
<1>1. DOMAIN d = Fields
  BY SteadyCur DEF Sound
<1>2. Sound([d EXCEPT !.out = <<>>])
  BY <1>1, DispatchKeeps, OutKeeps DEF Sound
<1>3. QED  BY <1>2 DEF Handled, IInv

\* A key that is taken ends with cueAutoSlide, which puts the timer right.
LEMMA TakenSound == ASSUME NEW d, Steady(d), Taken(d) PROVE IInv'
<1>1. Ready(d) /\ d.cur # NoSlide
  BY SteadyCur DEF Steady
<1>2. Sound(CueAutoSlide(d))
  BY <1>1, CueKeeps DEF Sound
<1>3. QED  BY <1>2, HandledSound DEF Taken

\* Whatever the direction of a move is.
LEMMA MoveKeeps ==
    ASSUME NEW d, Steady(d), NEW dir PROVE Keeps(d, Move(d, dir))
BY SidewaysKeeps, PrevNextKeeps DEF Move

\* The pause that a handler begins with leaves a sound deck.
LEMMA InputSound == ASSUME IInv PROVE Sound(Input)
BY InputKeeps, SoundKeeps DEF IInv, Input, Sound

\* start() leaves a sound deck.
LEMMA InitSound == Init => IInv
<1> SUFFICES ASSUME NEW cfg \in Configs, NEW hash \in Hashes \cup {IndexHash(0, 0)},
                    deck = Start(cfg, hash)
             PROVE  IInv
  BY DEF Init
<1>1. cfg \in ConfigType
  BY RevealAssumption
<1>2. IndexHash(0, 0) \in HashType
  BY DEF IndexHash, HashType
<1>3. hash \in HashType
  BY <1>2, RevealAssumption
<1>4. QED  BY <1>1, <1>3, StartSteady DEF IInv, Sound

\* The keys.
LEMMA KeySound == ASSUME IInv, Key PROVE IInv'
<1>1. Sound(Input) /\ Steady(Input)
  BY InputSound DEF Sound
<1>2. CASE KeyIgnored
  BY <1>1, <1>2, HandledSound DEF KeyIgnored
<1>3. CASE KeyHome
  <2>1. Steady(Slide(Input, 0, Undefined, Undefined))
    BY <1>1, SlideKeeps, UndefinedInt DEF Steady
  <2>2. QED  BY <1>3, <2>1, TakenSound DEF KeyHome
<1>4. CASE KeyEnd
  <2>1. Steady(Slide(Input, MaxIndex, Undefined, Undefined))
    BY <1>1, SlideKeeps, UndefinedInt, RevealAssumption DEF Steady
  <2>2. QED  BY <1>4, <2>1, TakenSound DEF KeyEnd
<1>5. CASE KeyReturn
  <2>1. Steady(IF deck.overview THEN DeactivateOverview(Input) ELSE Input)
    BY <1>1, DeactivateKeeps DEF Keeps
  <2>2. QED  BY <1>5, <2>1, TakenSound DEF KeyReturn
<1>6. CASE KeyPause
  <2>1. Steady(TogglePause(Input, ~deck.paused))
    BY <1>1, PauseKeeps DEF Keeps
  <2>2. QED  BY <1>6, <2>1, TakenSound DEF KeyPause
<1>7. CASE KeySemicolon
  <2>1. Steady(TogglePause(Input, TRUE))
    BY <1>1, PauseKeeps DEF Keeps
  <2>2. QED  BY <1>7, <2>1, TakenSound DEF KeySemicolon
<1>8. CASE KeyAuto
  <2>1. deck.autoPaused \in BOOLEAN
    BY DEF IInv, Sound, Steady, Ready, LooseOK
  <2>2. Steady(IF deck.cfg.stoppable THEN ToggleAutoSlide(Input, deck.autoPaused) ELSE Input)
    BY <1>1, <2>1, ToggleAutoKeeps DEF Keeps
  <2>3. QED  BY <1>8, <2>2, TakenSound DEF KeyAuto
<1>9. CASE KeyEscape
  <2>1. Steady(ToggleOverview(Input, ~deck.overview))
    BY <1>1, OverviewKeeps DEF Keeps
  <2>2. QED  BY <1>1, <1>9, <2>1, TakenSound DEF KeyEscape
<1>10. ASSUME NEW shift \in BOOLEAN, KeySpace(shift) PROVE IInv'
  <2>1. Steady(IF deck.overview THEN DeactivateOverview(Input)
               ELSE IF shift THEN NavigatePrev(Input) ELSE NavigateNext(Input))
    BY <1>1, DeactivateKeeps, PrevNextKeeps DEF Keeps
  <2>2. QED  BY <1>10, <2>1, TakenSound DEF KeySpace
<1>11. ASSUME NEW dir \in Directions, KeyMove(dir) PROVE IInv'
  <2>1. Steady(Move(Input, dir))
    BY <1>1, MoveKeeps DEF Keeps
  <2>2. QED  BY <1>11, <2>1, TakenSound DEF KeyMove
<1>12. QED  BY <1>2, <1>3, <1>4, <1>5, <1>6, <1>7, <1>8, <1>9, <1>10, <1>11 DEF Key

\* Touch.
LEMMA TouchSound == ASSUME IInv, Touch PROVE IInv'
<1>1. Sound(Input) /\ Steady(Input)
  BY InputSound DEF Sound
<1>2. CASE TouchSlack
  BY <1>1, <1>2, HandledSound DEF TouchSlack
<1>3. ASSUME NEW dir, Swipe(dir) PROVE IInv'
  <2>1. Sound(Move(Input, dir))
    BY <1>1, MoveKeeps, SoundKeeps
  <2>2. QED  BY <1>3, <2>1, HandledSound DEF Swipe
<1>4. ASSUME NEW on, Pinch(on) PROVE IInv'
  <2>1. Sound(ToggleOverview(Input, on))
    BY <1>1, OverviewKeeps, SoundKeeps
  <2>2. QED  BY <1>4, <2>1, HandledSound DEF Pinch
<1>5. QED  BY <1>2, <1>3, <1>4 DEF Touch

\* The mouse.
LEMMA MouseSound == ASSUME IInv, Mouse PROVE IInv'
<1>1. Sound(Input) /\ Steady(Input) /\ Sound(deck) /\ Steady(deck)
  BY InputSound DEF Sound, IInv
<1>2. CASE PlayerClick
  <2> DEFINE s == Slide(deck, 0, 0, Undefined)
  <2>1. Sound(ResumeAutoSlide(s))
    <3>1. Sound(s)
      BY <1>1, SlideKeeps, UndefinedInt DEF Steady, Sound
    <3> HIDE DEF s
    <3>2. QED  BY <3>1, ResumeAutoKeeps, SoundKeeps DEF Sound
  <2>2. deck.autoPaused \in BOOLEAN
    BY DEF IInv, Sound, Steady, Ready, LooseOK
  <2>3. Sound(ToggleAutoSlide(deck, deck.autoPaused))
    BY <1>1, <2>2, ToggleAutoKeeps, SoundKeeps
  <2>4. QED  BY <1>2, <2>1, <2>3, HandledSound DEF PlayerClick
<1>3. ASSUME NEW dir, Wheel(dir) PROVE IInv'
  <2>1. Sound(Move(deck, dir))
    BY <1>1, MoveKeeps, SoundKeeps
  <2>2. QED  BY <1>3, <2>1, HandledSound DEF Wheel
<1>4. ASSUME NEW dir, ArrowClick(dir) PROVE IInv'
  <2>1. Sound(Move(Input, dir))
    BY <1>1, MoveKeeps, SoundKeeps
  <2>2. QED  BY <1>4, <2>1, HandledSound DEF ArrowClick
<1>5. ASSUME NEW x \in Columns, ProgressClick(x) PROVE IInv'
  <2> DEFINE i == IF deck.cfg.rtl THEN Width - x ELSE x
  <2>1. i \in Int
    BY SlidePairs
  <2> HIDE DEF i
  <2>2. Sound(Slide(Input, i, Undefined, Undefined))
    BY <1>1, <2>1, SlideKeeps, UndefinedInt DEF Steady, Sound
  <2>3. QED  BY <1>5, <2>2, HandledSound DEF ProgressClick, i
<1>6. ASSUME NEW s \in Slides, OverviewClick(s) PROVE IInv'
  <2> DEFINE o == DeactivateOverview(deck)
  <2>1. s[1] \in Int /\ s[2] \in Int
    BY SlidePairs
  <2>2. Ready(o)
    BY <1>1, DeactivateKeeps DEF Keeps, Steady
  <2> HIDE DEF o
  <2>3. Sound(Slide(o, s[1], s[2], Undefined))
    BY <2>1, <2>2, SlideKeeps, UndefinedInt DEF Sound
  <2>4. QED  BY <1>6, <2>3, HandledSound DEF OverviewClick, o
<1>7. QED  BY <1>2, <1>3, <1>4, <1>5, <1>6 DEF Mouse

\* The timers and the hash.  A hashchange event that is handled leaves a
\* deck whose URL may be another slide's: readURL puts it right.
LEMMA BrowserSound == ASSUME IInv, Browser PROVE IInv'
<1>1. Sound(deck) /\ Steady(deck) /\ Ready(deck) /\ DOMAIN deck = Fields
  BY SteadyCur DEF Sound, IInv, Steady
<1>2. CASE AutoTimer
  <2> DEFINE c == CancelAutoSlide(deck)
             n == NavigateNext(c)
  <2>1. Steady(c)
    BY <1>1, CancelKeeps
  <2> HIDE DEF c
  <2>2. Steady(n)
    BY <2>1, PrevNextKeeps DEF Keeps
  <2>3. Taken(n)
    BY <1>2 DEF AutoTimer, Taken, n, c
  <2> HIDE DEF n
  <2>4. QED  BY <2>2, <2>3, TakenSound
<1>3. CASE HomeReset
  <2>1. Sound(ResetStacks(deck))
    BY <1>1, ResetKeeps, SoundKeeps
  <2>2. QED  BY <1>3, <2>1, HandledSound DEF HomeReset
<1>4. CASE HashChange
  <2> DEFINE d == [deck EXCEPT !.events = @ - 1]
  <2>1. SameBut(deck, d, {"events"}) /\ d.events = deck.events - 1
    BY <1>1 DEF SameBut, Fields
  <2>2. d.events \in 0 .. MaxEvents
    <3>1. deck.events \in 0 .. MaxEvents /\ deck.events > 0
      BY <1>1, <1>4 DEF Ready, FirmOK, HashChange
    <3> HIDE DEF d
    <3>2. QED  BY <2>1, <3>1, MaxEventsAssumption
  <2>3. Handled(ReadURL(d))
    BY <1>4 DEF HashChange
  <2> HIDE DEF d
  <2>4. DOMAIN d = Fields /\ d.cfg = deck.cfg /\ d.h = deck.h /\ d.v = deck.v
        /\ d.cur = deck.cur /\ d.shown = deck.shown /\ d.curf = deck.curf
        /\ d.vcls = deck.vcls /\ d.hcls = deck.hcls /\ d.prevV = deck.prevV
        /\ d.overview = deck.overview /\ d.paused = deck.paused /\ d.homing = deck.homing
        /\ d.auto = deck.auto /\ d.autoPaused = deck.autoPaused /\ d.timer = deck.timer
        /\ d.player = deck.player /\ d.hash = deck.hash /\ d.progress = deck.progress
        /\ d.number = deck.number /\ d.noted = deck.noted /\ d.controls = deck.controls
    BY <2>1 DEF SameBut, Fields
  <2>5. Ready(d)
    <3>1. FirmOK(d)
      BY <1>1, <2>2, <2>4 DEF Ready, FirmOK
    <3>2. LooseOK(d) /\ Present(d) = {d.cur} \cap Children
      BY <1>1, <2>4 DEF Ready, LooseOK, Present
    <3>3. QED  BY <3>1, <3>2 DEF Ready
  <2>6. Shows(d) /\ d.cur # NoSlide
    BY <1>1, <2>4, SteadyCur, SameControls DEF Steady, Shows, InColumn, Ordered, Counted, Armed
  <2>7. TimerOK(d)
    BY <1>1, <2>4 DEF Sound, TimerOK, IsLastSlide
  <2>8. Sound(ReadURL(d))
    BY <2>5, <2>6, <2>7, ReadKeeps DEF Sound
  <2>9. QED  BY <2>3, <2>8, HandledSound
<1>5. ASSUME NEW hash \in Hashes, TypeHash(hash) PROVE IInv'
  <2>1. hash \in HashType
    BY RevealAssumption
  <2>2. Sound(SetHash(deck, hash))
    BY <1>1, <1>5, <2>1, TypedKeeps, SoundKeeps DEF TypeHash
  <2>3. QED  BY <1>5, <2>2, HandledSound DEF TypeHash
<1>6. QED  BY <1>2, <1>3, <1>4, <1>5 DEF Browser

\* The calls of scripts and other windows.
LEMMA ApiSound == ASSUME IInv, Api PROVE IInv'
<1>1. Sound(deck) /\ Steady(deck) /\ Ready(deck) /\ DOMAIN deck = Fields
  BY SteadyCur DEF Sound, IInv, Steady
<1>2. ASSUME NEW dir, ApiMove(dir) PROVE IInv'
  <2>1. Sound(Move(deck, dir))
    BY <1>1, MoveKeeps, SoundKeeps
  <2>2. QED  BY <1>2, <2>1, HandledSound DEF ApiMove
<1>3. ASSUME NEW s \in Slides, NEW f \in {Undefined, 0}, ApiSlide(s, f) PROVE IInv'
  <2>1. s[1] \in Int /\ s[2] \in Int /\ f \in Int
    BY SlidePairs, UndefinedInt
  <2>2. Sound(Slide(deck, s[1], s[2], f))
    BY <1>1, <2>1, SlideKeeps DEF Sound
  <2>3. QED  BY <1>3, <2>2, HandledSound DEF ApiSlide
<1>4. ASSUME NEW on, ApiPause(on) PROVE IInv'
  <2>1. Sound(TogglePause(deck, on))
    BY <1>1, PauseKeeps, SoundKeeps
  <2>2. QED  BY <1>4, <2>1, HandledSound DEF ApiPause
<1>5. ASSUME NEW s \in SentStates, ApiSetState(s) PROVE IInv'
  <2>1. s \in StateType
    BY RevealAssumption
  <2>2. Sound(SetState(deck, s))
    BY <1>1, <2>1, SetStateKeeps, SoundKeeps
  <2>3. QED  BY <1>5, <2>2, HandledSound DEF ApiSetState
<1>6. ASSUME NEW a \in {"zero", "set"}, ApiConfigure(a) PROVE IInv'
  <2> DEFINE cfg == [deck.cfg EXCEPT !.autoSlide = a]
  <2>1. deck.cfg \in ConfigType
    BY <1>1 DEF Ready, FirmOK
  <2>2. cfg \in ConfigType /\ cfg.rtl = deck.cfg.rtl
    BY <2>1 DEF ConfigType
  <2>3. Handled(Configure(deck, cfg))
    BY <1>6 DEF ApiConfigure
  <2> HIDE DEF cfg
  <2>4. Sound(Configure(deck, cfg))
    BY <1>1, <2>2, ConfigureKeeps, SoundKeeps
  <2>5. QED  BY <2>3, <2>4, HandledSound
<1>7. QED  BY <1>2, <1>3, <1>4, <1>5, <1>6 DEF Api

\* The deck is sound in every state: the inductive invariant, and the fact the
\* theorems rest on.
THEOREM AlwaysSound == Spec => []IInv
<1>1. IInv /\ [Next]_deck => IInv'
  <2>1. ASSUME IInv, Next PROVE IInv'
    BY <2>1, KeySound, TouchSound, MouseSound, BrowserSound, ApiSound DEF Next
  <2>2. ASSUME IInv, UNCHANGED deck PROVE IInv'
    BY <2>2 DEF IInv
  <2>3. QED  BY <2>1, <2>2
<1>2. QED  BY InitSound, <1>1, PTL DEF Spec
-----------------------------------------------------------------------------
\* The deck keeps its type, only the current slide is marked as present and
\* the columns on its sides as past and future, whichever handler moved it.
THEOREM OneIsPresent == Spec => []OnePresent
<1>1. ASSUME IInv PROVE OnePresent
  <2>1. Steady(deck) /\ FirmOK(deck) /\ LooseOK(deck) /\ Shows(deck)
        /\ Present(deck) = {deck.cur} \cap Children
    BY <1>1 DEF IInv, Sound, Steady, Ready
  <2>2. deck.cur = <<deck.h, deck.v>> /\ deck.cur \in Slides
    BY <2>1, SteadyCur
  <2>3. TypeOK
    BY <2>1, <2>2 DEF TypeOK, FirmOK, LooseOK
  <2>4. QED  BY <2>1, <2>3 DEF OnePresent, Shows, InColumn, Present
<1>2. QED  BY AlwaysSound, <1>1, PTL

\* Every fragment before the current slide is shown and every one after it
\* hidden, with any number of slides, groups and jumps between them.
THEOREM FragmentsOrdered == Spec => []FragmentsInOrder
<1>1. ASSUME IInv PROVE FragmentsInOrder
  BY <1>1 DEF IInv, Sound, Steady, Shows, Ordered, FragmentsInOrder
<1>2. QED  BY AlwaysSound, <1>1, PTL

\* The progress bar, the number and the notes are those of the current slide.
THEOREM ProgressIsTrue == Spec => []ProgressTrue
<1>1. ASSUME IInv PROVE ProgressTrue
  BY <1>1 DEF IInv, Sound, Steady, Shows, Counted, Earlier, ProgressTrue
<1>2. QED  BY AlwaysSound, <1>1, PTL

\* The timer of the auto-slide runs exactly when it should.
THEOREM TimerTrue == Spec => []AutoSlideRuns
<1>1. ASSUME IInv PROVE AutoSlideRuns
  BY <1>1 DEF IInv, Sound, TimerOK, AutoSlideRuns
<1>2. QED  BY AlwaysSound, <1>1, PTL

\* When no hashchange event waits the URL names the slide that is shown.
THEOREM UrlTrue == Spec => []HashAgrees
<1>1. ASSUME IInv PROVE HashAgrees
  BY <1>1 DEF IInv, Sound, Steady, UrlOK, HashAgrees
<1>2. QED  BY AlwaysSound, <1>1, PTL
-----------------------------------------------------------------------------
(***************************************************************************)
(* Back and forward.                                                       *)
(***************************************************************************)
\* The columns beside the deck's are other ones, if there are any or the deck
\* loops; the rows beside its row are rows of its stack.
LEMMA SideMoves ==
    ASSUME NEW d, Steady(d), d.cfg.loop => Width > 1, NEW v \in Int
    PROVE  /\ d.h > 0 \/ d.cfg.loop => Slide(d, d.h - 1, v, Undefined).cur # d.cur
           /\ d.h < Width - 1 \/ d.cfg.loop => Slide(d, d.h + 1, v, Undefined).cur # d.cur
<1>1. d.h \in 0 .. Width - 1 /\ Width \in Nat /\ d.cur = <<d.h, d.v>> /\ d.v \in Int
      /\ d.cfg \in ConfigType /\ Ready(d)
  <2>1. Ready(d) /\ d.cfg \in ConfigType
    BY DEF Steady, Ready, FirmOK
  <2>2. Width \in Nat \ {0} /\ d.h \in 0 .. Width - 1
    BY SteadyCur, SlidePairs
  <2>3. d.cur = <<d.h, d.v>> /\ d.v \in Nat
    BY SteadyCur
  <2>4. QED  BY <2>1, <2>2, <2>3
<1>2. ASSUME NEW h \in Int, h # Undefined, Bounded(d, h, Width) # d.h
      PROVE  Slide(d, h, v, Undefined).cur # d.cur
  <2> DEFINE to == IF v = Undefined /\ ~d.overview THEN PreviousV(d, h) ELSE v
             vv == IF to = Undefined THEN d.v ELSE to
  <2>1. Slide(d, h, v, Undefined).cur = GoesTo(d, h, vv)
    BY <1>1, <1>2, SlideGoes
  <2> HIDE DEF vv
  <2>2. QED  BY <1>1, <1>2, <2>1 DEF GoesTo
<1>3. d.h - 1 \in Int /\ d.h - 1 # Undefined /\ d.h + 1 \in Int /\ d.h + 1 # Undefined
  BY <1>1 DEF Undefined
<1>4. /\ d.h > 0 => Bounded(d, d.h - 1, Width) = d.h - 1
      /\ d.h < Width - 1 => Bounded(d, d.h + 1, Width) = d.h + 1
      /\ d.cfg.loop /\ Width > 1
            => Bounded(d, d.h - 1, Width) # d.h /\ Bounded(d, d.h + 1, Width) # d.h
  <2>1. d.cfg \in ConfigType /\ Width \in Nat /\ d.h \in 0 .. Width - 1
    BY <1>1
  <2>2. QED  BY ONLY <2>1, BoundedMoves
<1>5. /\ d.h > 0 \/ d.cfg.loop => Bounded(d, d.h - 1, Width) # d.h
      /\ d.h < Width - 1 \/ d.cfg.loop => Bounded(d, d.h + 1, Width) # d.h
  <2>1. d.h - 1 # d.h /\ d.h + 1 # d.h
    BY <1>1
  <2>2. QED  BY <1>4, <2>1, Zenon
<1>6. QED  BY <1>2, <1>3, <1>5

\* slide() goes to the row it is given when its stack has it.
LEMMA RowGoes ==
    ASSUME NEW d, Steady(d), NEW v \in Heights(d.h)
    PROVE  Slide(d, d.h, v, Undefined).cur = <<d.h, v>>
<1>1. d.h \in 0 .. Width - 1 /\ Width \in Nat /\ d.cfg \in ConfigType /\ Ready(d)
      /\ Stack[d.h] \in Nat /\ v \in Int /\ v # Undefined /\ d.h \in Int /\ d.h # Undefined
  BY SteadyCur, SlidePairs DEF Steady, Ready, FirmOK, Heights, IsStack, Undefined
<1>2. Slide(d, d.h, v, Undefined).cur = GoesTo(d, d.h, v)
  BY <1>1, SlideGoes
<1>3. Bounded(d, d.h, Width) = d.h
  BY <1>1, BoundedMoves
<1>4. Bounded(d, v, Stack[d.h]) = v
  <2>1. CASE Stack[d.h] = 0
    BY <1>1, <2>1 DEF Bounded, Heights, IsStack
  <2>2. CASE Stack[d.h] # 0
    <3>1. v \in 0 .. Stack[d.h] - 1
      BY <1>1, <2>2 DEF Heights, IsStack
    <3>2. QED  BY <1>1, <3>1, BoundedMoves
  <2>3. QED  BY <2>1, <2>2
<1>5. QED  BY <1>2, <1>3, <1>4 DEF GoesTo

\* Up and down, where there is a slide, lead to the slide above or below.
LEMMA RowMoves ==
    ASSUME NEW d, Steady(d)
    PROVE  /\ "up" \in Routes(d) => /\ d.v > 0 /\ d.v - 1 \in Heights(d.h)
                                    /\ Slide(d, d.h, d.v - 1, Undefined).cur = <<d.h, d.v - 1>>
           /\ "down" \in Routes(d) => /\ d.v + 1 \in Heights(d.h)
                                      /\ Slide(d, d.h, d.v + 1, Undefined).cur = <<d.h, d.v + 1>>
<1>1. d.v \in Heights(d.h) /\ d.v \in Nat /\ Stack[d.h] \in Nat
  BY SteadyCur, SlidePairs
<1>2. "up" \in Routes(d) => d.v > 0 /\ d.v - 1 \in Heights(d.h)
  BY <1>1 DEF Routes, Heights, IsStack
<1>3. "down" \in Routes(d) => d.v + 1 \in Heights(d.h)
  BY <1>1 DEF Routes, Heights, IsStack
<1>4. QED  BY <1>2, <1>3, RowGoes

\* The fragments that a navigation function steps through, or the slide it
\* goes to, make another position.
LEMMA OrSlideMoves ==
    ASSUME NEW d, Steady(d), NEW e \in {NextFragment(d), PreviousFragment(d)},
           NEW route, NEW h, NEW v,
           Stepped(d, e) \/ (route \in Routes(d) /\ Slide(e, h, v, Undefined).cur # e.cur)
    PROVE  Position(OrSlide(d, e, route, h, v)) # Position(d)
BY StepFields DEF OrSlide, Position

\* The four arrows.
LEMMA FourMove ==
    ASSUME NEW d, Steady(d), d.overview = FALSE, d.cfg.rtl = FALSE, d.cfg.loop => Width > 1
    PROVE  /\ HasPrevFragment(d) \/ "left" \in Routes(d)
                  => Position(NavigateLeft(d)) # Position(d)
           /\ HasPrevFragment(d) \/ "up" \in Routes(d) => Position(NavigateUp(d)) # Position(d)
           /\ HasNextFragment(d) \/ "right" \in Routes(d)
                  => Position(NavigateRight(d)) # Position(d)
           /\ HasNextFragment(d) \/ "down" \in Routes(d)
                  => Position(NavigateDown(d)) # Position(d)
<1> DEFINE n == NextFragment(d)
           p == PreviousFragment(d)
<1>1. AfterFragments(d, TRUE) = n /\ AfterFragments(d, FALSE) = p
  BY DEF AfterFragments
<1>2. Steady(n) /\ n.cur = d.cur /\ n.h = d.h /\ n.v = d.v /\ n.cfg = d.cfg
      /\ Routes(n) = Routes(d) /\ (Stepped(d, n) <=> HasNextFragment(d))
  BY StepFields
<1>3. Steady(p) /\ p.cur = d.cur /\ p.h = d.h /\ p.v = d.v /\ p.cfg = d.cfg
      /\ Routes(p) = Routes(d) /\ (Stepped(d, p) <=> HasPrevFragment(d))
  BY StepFields
<1>4. NavigateLeft(d) = OrSlide(d, p, "left", d.h - 1, Undefined)
      /\ NavigateRight(d) = OrSlide(d, n, "right", d.h + 1, Undefined)
      /\ NavigateUp(d) = OrSlide(d, p, "up", d.h, d.v - 1)
      /\ NavigateDown(d) = OrSlide(d, n, "down", d.h, d.v + 1)
  BY <1>1 DEF NavigateLeft, NavigateRight, NavigateUp, NavigateDown
<1>5. d.cur = <<d.h, d.v>> /\ d.h \in Int /\ d.v \in Int
  BY SteadyCur
<1> HIDE DEF n, p
<1>6. "left" \in Routes(d) => Slide(p, d.h - 1, Undefined, Undefined).cur # p.cur
  BY <1>3, SideMoves, UndefinedInt DEF Routes
<1>7. "right" \in Routes(d) => Slide(n, d.h + 1, Undefined, Undefined).cur # n.cur
  BY <1>2, SideMoves, UndefinedInt DEF Routes
<1>8. "up" \in Routes(d) => Slide(p, d.h, d.v - 1, Undefined).cur # p.cur
  BY <1>3, <1>5, RowMoves
<1>9. "down" \in Routes(d) => Slide(n, d.h, d.v + 1, Undefined).cur # n.cur
  BY <1>2, <1>5, RowMoves
<1>10. QED  BY <1>2, <1>3, <1>4, <1>6, <1>7, <1>8, <1>9, OrSlideMoves DEF n, p

\* Back and on: after the fragments, the row, after the rows, the column.
LEMMA BackAndOn ==
    ASSUME NEW d, Steady(d), d.overview = FALSE, d.cfg.rtl = FALSE, d.cfg.loop => Width > 1
    PROVE  /\ HasPrevFragment(d) \/ "up" \in Routes(d) \/ d.h > 0
                  => Position(NavigatePrev(d)) # Position(d)
           /\ HasNextFragment(d) \/ Routes(d) \cap {"right", "down"} # {}
                  => Position(NavigateNext(d)) # Position(d)
<1>1. ASSUME NEW e \in {NextFragment(d), PreviousFragment(d)}, ~Stepped(d, e)
      PROVE  /\ Steady(e) /\ e.overview = FALSE /\ e.cfg.rtl = FALSE
             /\ (e.cfg.loop => Width > 1) /\ Routes(e) = Routes(d) /\ e.h = d.h
             /\ Position(e) = Position(d)
  BY <1>1, StepFields DEF Position
<1>2. ASSUME HasPrevFragment(d) \/ "up" \in Routes(d) \/ d.h > 0
      PROVE  Position(NavigatePrev(d)) # Position(d)
  <2> DEFINE e == PreviousFragment(d)
  <2>1. CASE Stepped(d, e)
    BY <2>1, StepFields DEF NavigatePrev, PrevSlide, Position
  <2>2. CASE ~Stepped(d, e)
    <3>1. ~HasPrevFragment(d)
      BY <2>2, StepFields
    <3>2. Steady(e) /\ e.overview = FALSE /\ e.cfg.rtl = FALSE /\ (e.cfg.loop => Width > 1)
          /\ Routes(e) = Routes(d) /\ e.h = d.h /\ Position(e) = Position(d)
      BY <1>1, <2>2
    <3>3. NavigatePrev(d) = PrevSlide(d, e)
      BY DEF NavigatePrev
    <3> HIDE DEF e
    <3>4. CASE "up" \in Routes(d)
      <4>1. Position(NavigateUp(e)) # Position(e)
        BY <3>2, <3>4, FourMove
      <4>2. QED  BY <2>2, <3>2, <3>3, <3>4, <4>1 DEF PrevSlide
    <3>5. CASE "up" \notin Routes(d)
      <4>1. d.h > 0 /\ d.h \in Columns /\ d.h - 1 \in Columns
        BY <1>2, <3>1, <3>5, SteadyCur, SlidePairs
      <4>2. PassedColumns(e) # {}
        <5>1. d.h - 1 < d.h
          BY <4>1, SlidePairs
        <5>2. QED  BY <3>2, <4>1, <5>1, PassedIs
      <4>3. LastOf(PassedColumns(e)) \in Int
        BY <3>2, <4>2, LastOfIn
      <4>4. Slide(e, e.h - 1, LastOf(PassedColumns(e)), Undefined).cur # e.cur
        BY <3>2, <4>1, <4>3, SideMoves
      <4>5. NavigatePrev(d) = Slide(e, e.h - 1, LastOf(PassedColumns(e)), Undefined)
        BY <2>2, <3>2, <3>3, <3>5, <4>2 DEF PrevSlide
      <4>6. QED  BY <3>2, <4>4, <4>5 DEF Position
    <3>6. QED  BY <3>4, <3>5
  <2>3. QED  BY <2>1, <2>2
<1>3. ASSUME HasNextFragment(d) \/ Routes(d) \cap {"right", "down"} # {}
      PROVE  Position(NavigateNext(d)) # Position(d)
  <2> DEFINE e == NextFragment(d)
  <2>1. CASE Stepped(d, e)
    BY <2>1, StepFields DEF NavigateNext, NextSlide, Position
  <2>2. CASE ~Stepped(d, e)
    <3>1. ~HasNextFragment(d)
      BY <2>2, StepFields
    <3>2. Steady(e) /\ e.overview = FALSE /\ e.cfg.rtl = FALSE /\ (e.cfg.loop => Width > 1)
          /\ Routes(e) = Routes(d) /\ Position(e) = Position(d)
      BY <1>1, <2>2
    <3>3. NavigateNext(d) = NextSlide(d, e)
      BY DEF NavigateNext
    <3> HIDE DEF e
    <3>4. "down" \in Routes(d) => Position(NavigateDown(e)) # Position(e)
      BY <3>2, FourMove
    <3>5. "right" \in Routes(d) => Position(NavigateRight(e)) # Position(e)
      BY <3>2, FourMove
    <3>6. QED  BY <1>3, <2>2, <3>1, <3>2, <3>3, <3>4, <3>5 DEF NextSlide
  <2>3. QED  BY <2>1, <2>2
<1>4. QED  BY <1>2, <1>3

\* What enables the arrows back and forward.
LEMMA Paired ==
    ASSUME NEW d
    PROVE  /\ "prev" \in EnabledControls(d)
                  => HasPrevFragment(d) \/ Routes(d) \cap {"left", "up"} # {}
           /\ "next" \in EnabledControls(d)
                  => HasNextFragment(d) \/ Routes(d) \cap {"right", "down"} # {}
<1>1. "prev" \notin Routes(d) /\ "next" \notin Routes(d)
  BY DEF Routes
<1>2. QED
  BY <1>1 DEF EnabledControls

\* An arrow that is enabled leads to another position, for every presentation.
THEOREM ArrowsWork == Spec => []EnabledArrowsWork
<1>1. ASSUME IInv PROVE EnabledArrowsWork
  <2> SUFFICES ASSUME deck.overview = FALSE, deck.cfg.rtl = FALSE,
                      deck.cfg.loop => Width > 1,
                      NEW dir \in deck.controls, deck.cfg.loop => dir # "prev"
               PROVE  Position(Move(deck, dir)) # Position(deck)
    <3>1. deck.overview \in BOOLEAN /\ deck.cfg.rtl \in BOOLEAN
      BY <1>1 DEF IInv, Sound, Steady, Ready, LooseOK, FirmOK, ConfigType
    <3>2. QED  BY <3>1 DEF EnabledArrowsWork
  <2>1. Steady(deck) /\ deck.controls = EnabledControls(deck)
    BY <1>1 DEF IInv, Sound, Steady, Shows, Armed
  <2>2. dir \in EnabledControls(deck)
    BY <2>1
  <2>3. CASE dir = "left"
    <3>1. HasPrevFragment(deck) \/ "left" \in Routes(deck)
      BY <2>2, <2>3 DEF EnabledControls
    <3>2. QED  BY <2>1, <2>3, <3>1, FourMove DEF Move
  <2>4. CASE dir = "right"
    <3>1. HasNextFragment(deck) \/ "right" \in Routes(deck)
      BY <2>2, <2>4 DEF EnabledControls
    <3>2. QED  BY <2>1, <2>4, <3>1, FourMove DEF Move
  <2>5. CASE dir = "up"
    <3>1. HasPrevFragment(deck) \/ "up" \in Routes(deck)
      BY <2>2, <2>5 DEF EnabledControls
    <3>2. QED  BY <2>1, <2>5, <3>1, FourMove DEF Move
  <2>6. CASE dir = "down"
    <3>1. HasNextFragment(deck) \/ "down" \in Routes(deck)
      BY <2>2, <2>6 DEF EnabledControls
    <3>2. QED  BY <2>1, <2>6, <3>1, FourMove DEF Move
  <2>7. CASE dir = "prev"
    <3>1. HasPrevFragment(deck) \/ Routes(deck) \cap {"left", "up"} # {}
      BY <2>2, <2>7, Paired
    <3>2. "left" \in Routes(deck) => deck.h > 0
      BY <2>7 DEF Routes
    <3>3. Position(NavigatePrev(deck)) # Position(deck)
      BY <2>1, <3>1, <3>2, BackAndOn
    <3>4. QED  BY <2>7, <3>3 DEF Move
  <2>8. CASE dir = "next"
    <3>1. HasNextFragment(deck) \/ Routes(deck) \cap {"right", "down"} # {}
      BY <2>2, <2>8, Paired
    <3>2. QED  BY <2>1, <2>8, <3>1, BackAndOn DEF Move
  <2>9. QED  BY <2>2, <2>3, <2>4, <2>5, <2>6, <2>7, <2>8 DEF EnabledControls
<1>2. QED  BY AlwaysSound, <1>1, PTL
-----------------------------------------------------------------------------
(***************************************************************************)
(* Back, and on again.                                                     *)
(***************************************************************************)
\* e is where d is: only arrows, counts and what was sent may differ.
AsIs(d, e) == /\ Steady(e) /\ e.cur = d.cur /\ e.h = d.h /\ e.v = d.v /\ e.cfg = d.cfg
              /\ e.overview = d.overview /\ e.prevV = d.prevV /\ e.shown = d.shown
              /\ Routes(e) = Routes(d)

\* Where a slide has no fragment left to show or to hide, a step of them
\* leaves everything as it is.
LEMMA NoStep ==
    ASSUME NEW d, Steady(d)
    PROVE  /\ ~HasNextFragment(d) => AsIs(d, NextFragment(d)) /\ ~Stepped(d, NextFragment(d))
           /\ ~HasPrevFragment(d) => AsIs(d, PreviousFragment(d))
                                     /\ ~Stepped(d, PreviousFragment(d))
BY StepFields DEF AsIs

\* On from a slide whose fragments are all shown: down the stack or to the
\* next column.
LEMMA GoesOn ==
    ASSUME NEW d, Steady(d), d.overview = FALSE, ~HasNextFragment(d)
    PROVE  \E r : /\ AsIs(d, r)
                  /\ "down" \in Routes(d)
                        => NavigateNext(d) = Slide(r, d.h, d.v + 1, Undefined)
                  /\ "down" \notin Routes(d) /\ d.h < Width - 1
                        => NavigateNext(d) = Slide(r, d.h + 1, Undefined, Undefined)
<1> DEFINE e == NextFragment(d)
           r == NextFragment(e)
<1>1. AsIs(d, e) /\ ~Stepped(d, e)
  BY NoStep
<1>2. NavigateNext(d) = NextSlide(d, e)
  BY DEF NavigateNext
<1> HIDE DEF e
<1>3. ~HasNextFragment(e)
  BY <1>1 DEF HasNextFragment, AsIs
<1>4. AsIs(e, r) /\ ~Stepped(e, r)
  BY <1>1, <1>3, NoStep DEF AsIs
<1>5. AfterFragments(e, TRUE) = r
  BY <1>1 DEF AfterFragments, AsIs
<1> HIDE DEF r
<1>6. AsIs(d, r) /\ e.h = d.h /\ e.v = d.v /\ e.cfg = d.cfg /\ Routes(e) = Routes(d)
      /\ Routes(r) = Routes(d)
  BY <1>1, <1>4 DEF AsIs
<1>7. "down" \in Routes(d) => NavigateNext(d) = Slide(r, d.h, d.v + 1, Undefined)
  BY <1>1, <1>2, <1>4, <1>5, <1>6 DEF NextSlide, NavigateDown, OrSlide
<1>8. ASSUME "down" \notin Routes(d), d.h < Width - 1
      PROVE  NavigateNext(d) = Slide(r, d.h + 1, Undefined, Undefined)
  <2>1. d.cfg.rtl \in BOOLEAN
    BY DEF Steady, Ready, FirmOK, ConfigType
  <2>2. CASE d.cfg.rtl = TRUE
    <3>1. "left" \in Routes(d)
      BY <1>8, <2>2 DEF Routes
    <3>2. QED
      BY <1>1, <1>2, <1>4, <1>5, <1>6, <1>8, <2>2, <3>1 DEF NextSlide, NavigateLeft, OrSlide
  <2>3. CASE d.cfg.rtl = FALSE
    <3>1. "right" \in Routes(d)
      BY <1>8, <2>3 DEF Routes
    <3>2. QED
      BY <1>1, <1>2, <1>4, <1>5, <1>6, <1>8, <2>3, <3>1 DEF NextSlide, NavigateRight, OrSlide
  <2>4. QED  BY <2>1, <2>2, <2>3
<1>9. QED  BY <1>6, <1>7, <1>8

\* Back from a slide none of whose fragments is shown: up the stack, to the
\* last slide of the column before, or nowhere.
LEMMA GoesBack ==
    ASSUME NEW d, Steady(d), d.overview = FALSE, ~HasPrevFragment(d)
    PROVE  \E r : /\ AsIs(d, r)
                  /\ "up" \in Routes(d) => NavigatePrev(d) = Slide(r, d.h, d.v - 1, Undefined)
                  /\ "up" \notin Routes(d) /\ PassedColumns(d) # {}
                        => NavigatePrev(d)
                            = Slide(r, d.h - 1, LastOf(PassedColumns(d)), Undefined)
                  /\ "up" \notin Routes(d) /\ PassedColumns(d) = {} => NavigatePrev(d) = r
<1> DEFINE e == PreviousFragment(d)
           r == PreviousFragment(e)
<1>1. AsIs(d, e) /\ ~Stepped(d, e)
  BY NoStep
<1>2. NavigatePrev(d) = PrevSlide(d, e)
  BY DEF NavigatePrev
<1> HIDE DEF e
<1>3. ~HasPrevFragment(e)
  BY <1>1 DEF HasPrevFragment, AsIs
<1>4. AsIs(e, r) /\ ~Stepped(e, r)
  BY <1>1, <1>3, NoStep DEF AsIs
<1>5. AfterFragments(e, FALSE) = r
  BY <1>1 DEF AfterFragments, AsIs
<1> HIDE DEF r
<1>6. AsIs(d, r) /\ e.h = d.h /\ e.v = d.v /\ Routes(e) = Routes(d) /\ Routes(r) = Routes(d)
  BY <1>1, <1>4 DEF AsIs
<1>7. CASE "up" \in Routes(d)
  <2>1. NavigatePrev(d) = Slide(r, d.h, d.v - 1, Undefined)
    BY <1>1, <1>2, <1>4, <1>5, <1>6, <1>7 DEF PrevSlide, NavigateUp, OrSlide
  <2>2. QED  BY <1>6, <1>7, <2>1
<1>8. CASE "up" \notin Routes(d)
  <2>1. PassedColumns(e) = PassedColumns(d)
    BY <1>1, PassedIs DEF AsIs
  <2>2. NavigatePrev(d) = IF PassedColumns(d) = {} THEN e
                          ELSE Slide(e, d.h - 1, LastOf(PassedColumns(d)), Undefined)
    BY <1>1, <1>2, <1>6, <1>8, <2>1 DEF PrevSlide
  <2>3. QED  BY <1>1, <1>8, <2>2
<1>9. QED  BY <1>7, <1>8
\* Where slide() leaves a deck, with all that it needs to come back.
LEMMA Arrives ==
    ASSUME NEW d, Steady(d), d.overview = FALSE, NEW h \in Int, h # Undefined, NEW v \in Int
    PROVE  LET e == Slide(d, h, v, Undefined)
           IN  /\ Steady(e) /\ e.overview = FALSE /\ e.cfg = d.cfg
               /\ e.shown = ShownAt(d, e.cur)
               /\ e.cur = <<e.h, e.v>> /\ e.cur \in Slides
               /\ IsStack(d.h) => e.prevV = [d.prevV EXCEPT ![d.h] = d.v]
<1> DEFINE e == Slide(d, h, v, Undefined)
<1>1. Ready(d) /\ DOMAIN d = Fields
  BY DEF Steady, Ready, FirmOK
<1>2. Steady(e) /\ e.cur = <<e.h, e.v>> /\ e.cur \in Slides
  <2>1. Steady(e)
    BY <1>1, SlideKeeps, UndefinedInt
  <2>2. QED  BY <2>1, SteadyCur
<1>3. e.overview = FALSE /\ e.cfg = d.cfg /\ e.shown = ShownAt(d, e.cur)
      /\ e.prevV = SetPreviousV(d).prevV
  BY <1>1, SlideGoes
<1>4. d.cur # NoSlide /\ d.cur[1] = d.h
  BY SteadyCur
<1>5. IsStack(d.h) => SetPreviousV(d).prevV = [d.prevV EXCEPT ![d.h] = d.v]
  BY <1>1, <1>4 DEF SetPreviousV, IsVertical, Fields
<1>6. QED  BY <1>2, <1>3, <1>5

\* A slide that lies before the one that is left has all its fragments shown.
LEMMA PassedFull ==
    ASSUME NEW d, Steady(d), NEW p, Steady(p), NEW r, r.shown = d.shown,
           p.shown = ShownAt(r, p.cur), Before(p.cur, d.cur)
    PROVE  ~HasNextFragment(p)
<1>1. p.cur \in Slides
  BY SteadyCur
<1>2. d.shown[p.cur] = Frags[p.cur]
  BY <1>1 DEF Steady, Shows, Ordered
<1>3. p.shown[p.cur] = Frags[p.cur]
  BY <1>1, <1>2, OneOrder DEF ShownAt
<1>4. QED  BY <1>1, <1>3, FragsType DEF HasNextFragment

\* A slide without a visible fragment has none when it is come back to.
LEMMA ThereAndBack ==
    ASSUME NEW d, Steady(d), ~HasPrevFragment(d), NEW p, p.cur \in Slides,
           NEW r, p.shown = ShownAt(r, p.cur), Before(p.cur, d.cur),
           NEW q, q.shown = p.shown, NEW b, b.shown = ShownAt(q, b.cur), b.cur = d.cur
    PROVE  Position(b) = Position(d)
<1>1. d.cur \in Slides /\ d.cur # NoSlide /\ d.shown \in [Slides -> Nat]
  BY SteadyCur DEF Steady, Ready, FirmOK
<1>2. d.shown[d.cur] = 0
  BY <1>1 DEF HasPrevFragment
<1>3. p.shown[d.cur] = 0
  BY <1>1, OneOrder DEF ShownAt
<1>4. b.shown[d.cur] = 0
  BY <1>1, <1>3, OneOrder DEF ShownAt
<1>5. QED  BY <1>2, <1>4 DEF Position

\* A fragment that was hidden is shown again.
LEMMA FragmentUndone ==
    ASSUME NEW d, Steady(d), HasPrevFragment(d)
    PROVE  Position(NavigateNext(NavigatePrev(d))) = Position(d)
<1> DEFINE k == d.shown[d.cur]
           p == PreviousFragment(d)
           n == NextFragment(p)
<1>1. d.cur \in Slides /\ d.shown \in [Slides -> Nat] /\ k \in Nat /\ k > 0
      /\ Frags[d.cur] \in Nat /\ k <= Frags[d.cur]
  BY SteadyCur, FragsType DEF Steady, Ready, FirmOK, HasPrevFragment
<1>2. Steady(p) /\ p.cur = d.cur /\ Stepped(d, p)
  BY StepFields
<1>3. p.shown[d.cur] = k - 1
  <2>1. p.shown = [d.shown EXCEPT ![d.cur] = IF k > 0 THEN k - 1 ELSE k]
    BY StepIs
  <2>2. QED  BY <1>1, <2>1
<1>4. p.shown \in [Slides -> Nat]
  BY <1>2 DEF Steady, Ready, FirmOK
<1>5. NavigatePrev(d) = p
  BY <1>2 DEF NavigatePrev, PrevSlide
<1> HIDE DEF p
<1>6. n.shown[d.cur] = k /\ n.cur = d.cur /\ Stepped(p, n)
  <2>1. n.shown = [p.shown EXCEPT ![p.cur] = IF p.shown[p.cur] < Frags[p.cur]
                                             THEN p.shown[p.cur] + 1 ELSE p.shown[p.cur]]
    BY <1>2, StepIs
  <2>2. n.cur = p.cur /\ (Stepped(p, n) <=> n.shown[p.cur] # p.shown[p.cur])
    BY <1>2, StepFields
  <2>3. k - 1 < Frags[d.cur] /\ k - 1 + 1 = k /\ k # k - 1
    BY <1>1
  <2> HIDE DEF n, k
  <2>4. n.shown[d.cur] = k
    BY <1>1, <1>2, <1>3, <1>4, <2>1, <2>3
  <2>5. QED  BY <1>2, <1>3, <2>2, <2>3, <2>4
<1>7. NavigateNext(p) = n
  BY <1>6 DEF NavigateNext, NextSlide
<1>8. QED  BY <1>5, <1>6, <1>7 DEF Position

\* The row of a stack that was left upwards is shown again.
LEMMA RowUndone ==
    ASSUME NEW d, Steady(d), d.overview = FALSE, ~HasPrevFragment(d), "up" \in Routes(d)
    PROVE  Position(NavigateNext(NavigatePrev(d))) = Position(d)
<1>1. PICK r : AsIs(d, r) /\ NavigatePrev(d) = Slide(r, d.h, d.v - 1, Undefined)
  BY GoesBack
<1>2. d.cur = <<d.h, d.v>> /\ d.h \in Int /\ d.h # Undefined /\ d.v \in Int /\ d.v - 1 \in Int
      /\ d.v \in Heights(d.h) /\ d.cur \in Slides /\ Stack[d.h] \in Nat
  BY SteadyCur, SlidePairs DEF Undefined
<1>3. Steady(r) /\ r.overview = FALSE /\ r.h = d.h /\ r.v = d.v /\ r.shown = d.shown
      /\ "up" \in Routes(r)
  BY <1>1 DEF AsIs
<1> DEFINE p == Slide(r, d.h, d.v - 1, Undefined)
<1>4. Steady(p) /\ p.overview = FALSE /\ p.shown = ShownAt(r, p.cur) /\ p.cur = <<p.h, p.v>>
  <2>1. \A h, v \in Int : h # Undefined
            => LET e == Slide(r, h, v, Undefined)
               IN  Steady(e) /\ e.overview = FALSE /\ e.shown = ShownAt(r, e.cur)
                   /\ e.cur = <<e.h, e.v>>
    BY <1>3, Arrives
  <2>2. QED  BY <1>2, <2>1
<1>5. p.cur = <<d.h, d.v - 1>>
  BY <1>3, RowMoves
<1> HIDE DEF p
<1>6. p.h = d.h /\ p.v = d.v - 1
  BY <1>4, <1>5
<1>7. Before(p.cur, d.cur) /\ p.cur # d.cur
  BY <1>2, <1>5 DEF Before
<1>8. "down" \in Routes(p)
  <2>1. d.v < Stack[d.h]
    <3>1. d.v > 0
      BY DEF Routes
    <3>2. QED  BY <1>2, <3>1 DEF Heights, IsStack
  <2>2. QED  BY <1>2, <1>6, <2>1 DEF Routes
<1>9. p.cur \in Slides
  BY <1>4, SteadyCur
<1>10. ~HasNextFragment(p)
  BY <1>3, <1>4, <1>7, PassedFull
<1>11. PICK q : AsIs(p, q) /\ NavigateNext(p) = Slide(q, p.h, p.v + 1, Undefined)
  BY <1>4, <1>8, <1>10, GoesOn
<1>12. Steady(q) /\ q.overview = FALSE /\ q.h = d.h /\ q.v = d.v - 1 /\ q.shown = p.shown
       /\ "down" \in Routes(q) /\ p.v + 1 = d.v /\ q.v + 1 = d.v
  BY <1>2, <1>4, <1>6, <1>8, <1>11 DEF AsIs
<1> DEFINE b == Slide(q, d.h, d.v, Undefined)
<1>13. b.shown = ShownAt(q, b.cur)
  BY <1>2, <1>12, Arrives
<1>14. b.cur = d.cur
  BY <1>2, <1>12, RowMoves
<1> HIDE DEF b
<1>15. Position(b) = Position(d)
  BY <1>4, <1>7, <1>9, <1>12, <1>13, <1>14, ThereAndBack
<1>16. QED  BY <1>1, <1>6, <1>11, <1>12, <1>15 DEF p, b
\* The last slide of the column before: the vertical index that LastOf gives
\* ends at the last row, whatever else a column of one child remembers.
LEMMA BackColumn ==
    ASSUME NEW d, Steady(d), d.overview = FALSE, PassedColumns(d) # {}
    PROVE  LET p == Slide(d, d.h - 1, LastOf(PassedColumns(d)), Undefined)
           IN  /\ Steady(p) /\ p.overview = FALSE /\ p.cfg = d.cfg
               /\ p.shown = ShownAt(d, p.cur)
               /\ p.h = d.h - 1 /\ p.v \in Nat /\ p.v >= Stack[p.h] - 1
               /\ IsStack(d.h) => p.prevV = [d.prevV EXCEPT ![d.h] = d.v]
<1> DEFINE h == d.h - 1
           v == LastOf(PassedColumns(d))
           p == Slide(d, h, v, Undefined)
<1>1. d.h \in Nat /\ d.h > 0 /\ h \in Columns /\ v \in Int
      /\ v = IF Stack[h] = 1 THEN Undefined ELSE Stack[h] - 1
  BY SteadyCur, LastOfIn
<1>2. d.h \in Columns /\ Columns = 0 .. Width - 1 /\ Width \in Nat /\ h \in Int
      /\ h # Undefined /\ Stack[h] \in Nat
  BY <1>1, SteadyCur, SlidePairs DEF Undefined
<1>3. Ready(d) /\ d.cfg \in ConfigType /\ d.v \in Nat /\ d.prevV \in [Columns -> Nat]
  <2>1. d.v \in Nat
    BY SteadyCur
  <2>2. QED  BY <2>1 DEF Steady, Ready, FirmOK, LooseOK
<1> HIDE DEF v, h
<1>4. Steady(p) /\ p.overview = FALSE /\ p.cfg = d.cfg /\ p.shown = ShownAt(d, p.cur)
      /\ p.cur = <<p.h, p.v>> /\ (IsStack(d.h) => p.prevV = [d.prevV EXCEPT ![d.h] = d.v])
  <2>1. \A x, y \in Int : x # Undefined
            => LET e == Slide(d, x, y, Undefined)
               IN  /\ Steady(e) /\ e.overview = FALSE /\ e.cfg = d.cfg
                   /\ e.shown = ShownAt(d, e.cur) /\ e.cur = <<e.h, e.v>>
                   /\ IsStack(d.h) => e.prevV = [d.prevV EXCEPT ![d.h] = d.v]
    BY Arrives
  <2>2. QED  BY <1>1, <1>2, <2>1
<1> DEFINE to == IF v = Undefined /\ ~d.overview THEN PreviousV(d, h) ELSE v
           vv == IF to = Undefined THEN d.v ELSE to
<1>5. p.cur = GoesTo(d, h, vv)
  BY <1>1, <1>2, <1>3, SlideGoes
<1>6. vv \in Int /\ (Stack[h] # 1 => vv = Stack[h] - 1)
  <2>1. to \in Int
    BY <1>1, <1>3, PreviousIn
  <2>2. Stack[h] # 1 => v = Stack[h] - 1 /\ v # Undefined
    BY <1>1, <1>2 DEF Undefined
  <2>3. QED  BY <1>3, <2>1, <2>2
<1> HIDE DEF vv, p
<1>7. Bounded(d, h, Width) = h
  <2>1. h \in 0 .. Width - 1
    BY <1>1, <1>2
  <2>2. h % Width = h /\ Width # 0 /\ ~(h < 0) /\ ~(h >= Width)
    BY <1>2, <2>1
  <2>3. QED  BY <2>2 DEF Bounded
<1>8. p.h = h /\ p.v = Bounded(d, vv, Stack[h])
  BY <1>4, <1>5, <1>7 DEF GoesTo
<1>9. Bounded(d, vv, Stack[h]) \in Nat /\ Bounded(d, vv, Stack[h]) >= Stack[h] - 1
  <2>1. CASE Stack[h] = 0
    <3>1. Bounded(d, vv, 0) = 0
      BY DEF Bounded
    <3>2. QED  BY <2>1, <3>1
  <2>2. CASE Stack[h] = 1
    <3>1. Bounded(d, vv, 1) \in 0 .. 0
      <4>1. IF 1 = 0 THEN Bounded(d, vv, 1) = 0 ELSE Bounded(d, vv, 1) \in 0 .. 1 - 1
        BY <1>3, <1>6, BoundedIn
      <4>2. QED  BY <4>1
    <3>2. QED  BY <2>2, <3>1
  <2>3. CASE Stack[h] > 1
    <3>1. vv = Stack[h] - 1 /\ vv \in 0 .. Stack[h] - 1
      BY <1>2, <1>6, <2>3
    <3>2. Bounded(d, vv, Stack[h]) = vv
      BY <1>2, <1>3, <3>1, BoundedMoves
    <3>3. QED  BY <1>2, <3>1, <3>2
  <2>4. QED  BY <1>2, <2>1, <2>2, <2>3
<1>10. QED  BY <1>4, <1>8, <1>9 DEF p, v, h

\* A column that was left backwards is entered again at its first slide: as a
\* stack it remembers that slide, when no start index tells it another one.
LEMMA ColumnUndone ==
    ASSUME NEW d, Steady(d), d.overview = FALSE, StartV[d.h] < 0, ~HasPrevFragment(d),
           "up" \notin Routes(d), PassedColumns(d) # {}
    PROVE  Position(NavigateNext(NavigatePrev(d))) = Position(d)
<1>1. PICK r : AsIs(d, r)
               /\ NavigatePrev(d) = Slide(r, d.h - 1, LastOf(PassedColumns(d)), Undefined)
  BY GoesBack
<1>2. Steady(r) /\ r.overview = FALSE /\ r.h = d.h /\ r.v = d.v /\ r.shown = d.shown
      /\ r.prevV = d.prevV /\ r.cfg = d.cfg /\ PassedColumns(r) = PassedColumns(d)
  BY <1>1, PassedIs DEF AsIs
<1>3. d.cur = <<d.h, d.v>> /\ d.h \in Columns /\ d.h \in Nat /\ d.h > 0 /\ d.v \in Nat
      /\ d.cur \in Slides
  BY SteadyCur, LastOfIn
<1>4. Width \in Nat /\ Columns = 0 .. Width - 1 /\ Stack[d.h] \in Nat
  BY <1>3, SlidePairs
<1>5. d.v = 0
  BY <1>3 DEF Routes
<1> DEFINE p == Slide(r, d.h - 1, LastOf(PassedColumns(d)), Undefined)
<1>6. /\ Steady(p) /\ p.overview = FALSE /\ p.shown = ShownAt(r, p.cur) /\ p.cfg = d.cfg
      /\ p.h = d.h - 1 /\ p.v \in Nat /\ p.v >= Stack[p.h] - 1
      /\ IsStack(d.h) => p.prevV = [d.prevV EXCEPT ![d.h] = 0]
  <2>1. LET b == Slide(r, r.h - 1, LastOf(PassedColumns(r)), Undefined)
        IN  /\ Steady(b) /\ b.overview = FALSE /\ b.cfg = r.cfg /\ b.shown = ShownAt(r, b.cur)
            /\ b.h = r.h - 1 /\ b.v \in Nat /\ b.v >= Stack[b.h] - 1
            /\ IsStack(r.h) => b.prevV = [r.prevV EXCEPT ![r.h] = r.v]
    BY <1>2, BackColumn
  <2>2. QED  BY <1>2, <1>5, <2>1
<1> HIDE DEF p
<1>7. p.cur = <<p.h, p.v>> /\ p.cur \in Slides
  BY <1>6, SteadyCur
<1>8. Before(p.cur, d.cur)
  BY <1>3, <1>6, <1>7 DEF Before
<1>9. ~HasNextFragment(p)
  BY <1>2, <1>6, <1>8, PassedFull
<1>10. "down" \notin Routes(p)
  <2>1. Stack[p.h] \in Nat
    BY <1>3, <1>4, <1>6, SlidePairs
  <2>2. ~(p.v < Stack[p.h] - 1)
    BY <1>6, <2>1
  <2>3. QED  BY <2>2 DEF Routes
<1>11. p.h < Width - 1 /\ p.h + 1 = d.h
  BY <1>3, <1>4, <1>6
<1>12. PICK q : AsIs(p, q) /\ NavigateNext(p) = Slide(q, p.h + 1, Undefined, Undefined)
  BY <1>6, <1>9, <1>10, <1>11, GoesOn
<1>13. Steady(q) /\ q.overview = FALSE /\ q.shown = p.shown /\ q.prevV = p.prevV
  BY <1>6, <1>12 DEF AsIs
<1> DEFINE b == Slide(q, d.h, Undefined, Undefined)
<1>14. d.h \in Int /\ d.h # Undefined /\ Undefined \in Int
  BY <1>3 DEF Undefined
<1>15. b.shown = ShownAt(q, b.cur)
  BY <1>13, <1>14, Arrives
<1>16. b.cur = d.cur
  <2>1. PreviousV(q, d.h) = 0
    <3>1. CASE IsStack(d.h)
      <4>1. q.prevV = [d.prevV EXCEPT ![d.h] = 0] /\ d.prevV \in [Columns -> Nat]
        BY <1>6, <1>13, <3>1 DEF Steady, Ready, LooseOK
      <4>2. StartV[d.h] \in Int
        BY <1>3, DeckAssumption
      <4>3. QED  BY <1>3, <3>1, <4>1, <4>2 DEF PreviousV
    <3>2. CASE ~IsStack(d.h)
      BY <3>2 DEF PreviousV
    <3>3. QED  BY <3>1, <3>2
  <2>2. Ready(q) /\ q.cfg \in ConfigType
    BY <1>13 DEF Steady, Ready, FirmOK
  <2>3. b.cur = GoesTo(q, d.h, 0)
    <3>1. 0 # Undefined
      BY DEF Undefined
    <3>2. QED  BY <1>13, <1>14, <2>1, <2>2, <3>1, SlideGoes
  <2>4. Bounded(q, d.h, Width) = d.h
    <3>1. d.h \in 0 .. Width - 1
      BY <1>3, <1>4
    <3>2. QED  BY <1>4, <2>2, <3>1, BoundedMoves
  <2>5. Bounded(q, 0, Stack[d.h]) = 0
    <3>1. CASE Stack[d.h] = 0
      BY <3>1 DEF Bounded
    <3>2. CASE Stack[d.h] # 0
      <4>1. 0 \in 0 .. Stack[d.h] - 1
        BY <1>4, <3>2
      <4>2. QED  BY <1>4, <2>2, <4>1, BoundedMoves
    <3>3. QED  BY <3>1, <3>2
  <2>6. QED  BY <1>3, <1>5, <2>3, <2>4, <2>5 DEF GoesTo
<1> HIDE DEF b
<1>17. Position(b) = Position(d)
  <2>1. p.shown = ShownAt(r, p.cur) /\ p.cur \in Slides /\ q.shown = p.shown
    BY <1>6, <1>7, <1>13
  <2>2. QED  BY <1>8, <1>15, <1>16, <2>1, ThereAndBack
<1>18. QED  BY <1>1, <1>11, <1>12, <1>17 DEF p, b

\* After a step back a step forward returns to the same slide with the same
\* fragments, in every presentation, left to right and right to left.
THEOREM StepsUndone == Spec => []PrevUndone
<1>1. ASSUME IInv PROVE PrevUndone
  <2> SUFFICES ASSUME deck.overview = FALSE, StartV[deck.h] < 0,
                      Position(NavigatePrev(deck)) # Position(deck)
               PROVE  Position(NavigateNext(NavigatePrev(deck))) = Position(deck)
    <3>1. deck.overview \in BOOLEAN
      BY <1>1 DEF IInv, Sound, Steady, Ready, LooseOK
    <3>2. QED  BY <3>1 DEF PrevUndone
  <2>1. Steady(deck)
    BY <1>1 DEF IInv, Sound
  <2>2. CASE HasPrevFragment(deck)
    BY <2>1, <2>2, FragmentUndone
  <2>3. CASE ~HasPrevFragment(deck)
    <3>1. CASE "up" \in Routes(deck)
      BY <2>1, <2>3, <3>1, RowUndone
    <3>2. CASE "up" \notin Routes(deck) /\ PassedColumns(deck) # {}
      BY <2>1, <2>3, <3>2, ColumnUndone
    <3>3. CASE "up" \notin Routes(deck) /\ PassedColumns(deck) = {}
      <4>1. Position(NavigatePrev(deck)) = Position(deck)
        BY <2>1, <2>3, <3>3, GoesBack DEF AsIs, Position
      <4>2. QED  BY <4>1
    <3>4. QED  BY <3>1, <3>2, <3>3
  <2>4. QED  BY <2>2, <2>3
<1>2. QED  BY AlwaysSound, <1>1, PTL
-----------------------------------------------------------------------------
(***************************************************************************)
(* Those who follow: queues of the master's posts.                         *)
(***************************************************************************)
Message == [secret : Strangers \cup {Id}, socketId : Strangers \cup {Id}, state : StateType]

\* The posts of the master.
Ours(m) == m.secret = Id /\ m.socketId = Id

NoneOf(q) == \A i \in DOMAIN q : ~Ours(q[i])

\* The last of the master's posts on a queue has the state s.
LastIs(q, s) == \E i \in DOMAIN q : /\ Ours(q[i]) /\ q[i].state = s
                                    /\ \A j \in DOMAIN q : j > i => ~Ours(q[j])

\* The state that comes last on the way to a window.
Ends(q, s) == q # <<>> /\ q[Len(q)] = s

\* A post of the master that joins a queue is the last of them there; a post
\* of somebody else leaves the last of the master's as it was.
LEMMA LastAppend ==
    ASSUME NEW q \in Seq(Message), NEW m \in Message
    PROVE  /\ Ours(m) => LastIs(Append(q, m), m.state) /\ ~NoneOf(Append(q, m))
           /\ ~Ours(m) => /\ NoneOf(Append(q, m)) <=> NoneOf(q)
                          /\ \A s : LastIs(q, s) => LastIs(Append(q, m), s)
<1> DEFINE r == Append(q, m)
<1>1. Len(q) \in Nat /\ DOMAIN q = 1 .. Len(q) /\ DOMAIN r = 1 .. Len(q) + 1
      /\ r[Len(q) + 1] = m /\ \A i \in 1 .. Len(q) : r[i] = q[i]
  OBVIOUS
<1> HIDE DEF r
<1>2. \A i \in DOMAIN r : i \in DOMAIN q \/ i = Len(q) + 1
  BY <1>1
<1>3. Ours(m) => LastIs(r, m.state) /\ ~NoneOf(r)
  <2> SUFFICES ASSUME Ours(m) PROVE LastIs(r, m.state) /\ ~NoneOf(r)
    OBVIOUS
  <2>1. Len(q) + 1 \in DOMAIN r /\ Ours(r[Len(q) + 1]) /\ r[Len(q) + 1].state = m.state
    BY <1>1
  <2>2. \A j \in DOMAIN r : ~(j > Len(q) + 1)
    BY <1>1
  <2>3. QED  BY <2>1, <2>2 DEF LastIs, NoneOf
<1>4. ~Ours(m) => (NoneOf(r) <=> NoneOf(q))
  BY <1>1, <1>2 DEF NoneOf
<1>5. ASSUME ~Ours(m), NEW s, LastIs(q, s) PROVE LastIs(r, s)
  <2>1. PICK i \in DOMAIN q : Ours(q[i]) /\ q[i].state = s
                              /\ \A j \in DOMAIN q : j > i => ~Ours(q[j])
    BY <1>5 DEF LastIs
  <2>2. i \in DOMAIN r /\ Ours(r[i]) /\ r[i].state = s
    BY <1>1, <2>1
  <2>3. \A j \in DOMAIN r : j > i => ~Ours(r[j])
    BY <1>1, <1>2, <1>5, <2>1
  <2>4. QED  BY <2>2, <2>3 DEF LastIs
<1>6. QED  BY <1>3, <1>4, <1>5 DEF r

\* When the first message is taken off, the last of the master's posts is
\* still on the queue, or it was that message.
LEMMA LastTail ==
    ASSUME NEW q \in Seq(Message), q # <<>>
    PROVE  /\ Head(q) \in Message /\ Tail(q) \in Seq(Message)
           /\ NoneOf(q) <=> NoneOf(Tail(q)) /\ ~Ours(Head(q))
           /\ \A s : LastIs(q, s) => \/ LastIs(Tail(q), s)
                                     \/ Ours(Head(q)) /\ Head(q).state = s /\ NoneOf(Tail(q))
<1> DEFINE r == Tail(q)
           m == Head(q)
<1>1. Len(q) \in Nat /\ DOMAIN q = 1 .. Len(q) /\ Len(q) > 0 /\ DOMAIN r = 1 .. Len(q) - 1
      /\ q[1] = m /\ (\A i \in 1 .. Len(q) - 1 : r[i] = q[i + 1])
      /\ m \in Message /\ r \in Seq(Message)
  OBVIOUS
<1> HIDE DEF r, m
<1>2. \A i \in DOMAIN q : i = 1 \/ (i - 1 \in DOMAIN r /\ r[i - 1] = q[i])
  <2>1. TAKE i \in DOMAIN q
  <2>2. i # 1 => i - 1 \in 1 .. Len(q) - 1 /\ (i - 1) + 1 = i
    BY <1>1
  <2>3. QED  BY <1>1, <2>2
<1>3. \A i \in DOMAIN r : i + 1 \in DOMAIN q /\ r[i] = q[i + 1] /\ i \in Int
  BY <1>1
<1>4. 1 \in DOMAIN q
  BY <1>1
<1>5. NoneOf(q) <=> NoneOf(r) /\ ~Ours(m)
  BY <1>1, <1>2, <1>3, <1>4 DEF NoneOf
<1>6. ASSUME NEW s, LastIs(q, s)
      PROVE  LastIs(r, s) \/ (Ours(m) /\ m.state = s /\ NoneOf(r))
  <2>1. PICK i \in DOMAIN q : Ours(q[i]) /\ q[i].state = s
                              /\ \A j \in DOMAIN q : j > i => ~Ours(q[j])
    BY <1>6 DEF LastIs
  <2>2. \A j \in DOMAIN r : j + 1 > i => ~Ours(r[j])
    BY <1>3, <2>1
  <2>3. CASE i = 1
    <3>1. \A j \in DOMAIN r : j + 1 > i
      BY <1>1, <2>3
    <3>2. QED  BY <1>1, <2>1, <2>2, <2>3, <3>1 DEF NoneOf
  <2>4. CASE i # 1
    <3>1. i - 1 \in DOMAIN r /\ r[i - 1] = q[i] /\ i \in Int
      BY <1>1, <1>2, <2>4
    <3>2. \A j \in DOMAIN r : j > i - 1 => j + 1 > i
      BY <1>3, <3>1
    <3>3. QED  BY <2>1, <2>2, <3>1, <3>2 DEF LastIs
  <2>5. QED  BY <2>3, <2>4
<1>7. QED  BY <1>1, <1>5, <1>6 DEF r, m

\* A batch that ends with a post of the master makes that post the last.
LEMMA LastConcat ==
    ASSUME NEW q \in Seq(Message), NEW r \in Seq(Message), r # <<>>, Ours(r[Len(r)])
    PROVE  LastIs(q \o r, r[Len(r)].state) /\ ~NoneOf(q \o r)
<1> DEFINE c == q \o r
           n == Len(q) + Len(r)
<1>1. n \in Nat /\ DOMAIN c = 1 .. n /\ n \in DOMAIN c /\ c[n] = r[Len(r)]
  OBVIOUS
<1> HIDE DEF c, n
<1>2. \A j \in DOMAIN c : ~(j > n)
  BY <1>1
<1>3. QED  BY <1>1, <1>2 DEF LastIs, NoneOf, c

\* What is behind the queue is not last, and not there is nothing.
LEMMA LastNone == ASSUME NEW q, NEW s, LastIs(q, s) PROVE ~NoneOf(q) /\ q # <<>>
BY DEF LastIs, NoneOf

\* A window that is handed a batch ends with the last state of the batch.
LEMMA EndsAppend ==
    ASSUME NEW q \in Seq(StateType), NEW r \in Seq(StateType), r # <<>>
    PROVE  Ends(q \o r, r[Len(r)])
BY DEF Ends

\* When a window takes the first state off, the last is still to come, or it
\* was the one it took.
LEMMA EndsTail ==
    ASSUME NEW q \in Seq(StateType), NEW s, Ends(q, s)
    PROVE  /\ Head(q) \in StateType /\ Tail(q) \in Seq(StateType)
           /\ IF Tail(q) = <<>> THEN Head(q) = s ELSE Ends(Tail(q), s)
<1>1. q # <<>> /\ q[Len(q)] = s
  BY DEF Ends
<1>2. Len(q) \in Nat /\ Len(q) > 0 /\ Head(q) = q[1] /\ Head(q) \in StateType
      /\ Tail(q) \in Seq(StateType) /\ Len(Tail(q)) = Len(q) - 1
      /\ \A i \in 1 .. Len(q) - 1 : Tail(q)[i] = q[i + 1]
  BY <1>1
<1>3. CASE Tail(q) = <<>>
  BY <1>1, <1>2, <1>3
<1>4. CASE Tail(q) # <<>>
  <2>1. Len(q) - 1 \in 1 .. Len(q) - 1 /\ (Len(q) - 1) + 1 = Len(q)
    BY <1>2, <1>4
  <2>2. Tail(q)[Len(Tail(q))] = s
    BY <1>1, <1>2, <2>1
  <2>3. QED  BY <1>2, <1>4, <2>2 DEF Ends
<1>5. QED  BY <1>3, <1>4
-----------------------------------------------------------------------------
(***************************************************************************)
(* The inductive invariant.                                                *)
(***************************************************************************)
\* A deck between two handlers.
Resting(d) == Clear(d) /\ d.out = <<>>

\* What a client hears is the master's.
HeardIsOurs == \A c \in Clients : \A i \in DOMAIN toClient[c] :
                   toClient[c][i].socketId = Id => toClient[c][i].secret = Id

\* The last post on its way to the server has the state of the master.
ServerCurrent == NoneOf(toServer) \/ LastIs(toServer, GetState(master))

\* When none is, the client was not there for the last post, or it has it on
\* its way to it, or it has applied it.
Follows(c) ==
    \/ missed[c] \/ ~NoneOf(toServer) \/ LastIs(toClient[c], GetState(master))
    \/ NoneOf(toClient[c]) /\ (strayed[c] \/ GetState(client[c]) = GetState(master))

ClientsOK ==
    /\ toServer \in Seq(Message) /\ toClient \in [Clients -> Seq(Message)]
    /\ client = [c \in Clients |-> client[c]] /\ \A c \in Clients : Resting(client[c])
    /\ missed \in [Clients -> BOOLEAN] /\ strayed \in [Clients -> BOOLEAN]
    /\ HeardIsOurs /\ ServerCurrent /\ \A c \in Clients : Follows(c)

\* A window was given the state of the master, or it comes last of what is on
\* its way to it.
Current(queue, given) ==
    \/ queue = <<>> /\ given = NoOverview(GetState(master))
    \/ Ends(queue, GetState(master))

NotesOK ==
    /\ openers \in Nat /\ bound \in Nat /\ toNotes \in Seq(StateType)
    /\ notes = "ready" /\ ~reply /\ bound > 0 => Current(toNotes, shown)

RemoteOK ==
    /\ toRemote \in Seq(StateType)
    /\ remote = "ready" /\ ~asking => Current(toRemote, remoteShown)

Followed == Resting(master) /\ ClientsOK /\ NotesOK /\ RemoteOK

\* With nothing on its way, only the branch is left in which the follower has
\* the state of the master.
LEMMA FollowedAgree == ASSUME Followed PROVE ClientsAgree /\ NotesAgree
<1>1. ClientsAgree
  <2> SUFFICES ASSUME NEW c \in Clients, ~missed[c], ~strayed[c],
                      toServer = <<>>, toClient[c] = <<>>
               PROVE  GetState(client[c]) = GetState(master)
    BY DEF ClientsAgree
  <2>1. NoneOf(toServer) /\ ~LastIs(toClient[c], GetState(master))
    BY LastNone DEF NoneOf
  <2>2. QED  BY <2>1 DEF Followed, ClientsOK, Follows
<1>2. NotesAgree
  <2>1. NotesOK /\ RemoteOK
    BY DEF Followed
  <2>2. ~Ends(<<>>, GetState(master))
    BY DEF Ends
  <2>3. QED  BY <2>1, <2>2 DEF NotesOK, RemoteOK, Current, NotesAgree
<1>3. QED  BY <1>1, <1>2

\* When the pages have loaded nobody follows yet, and the decks can be read.
LEMMA InitFollowed == MirrorInit => Followed
<1> SUFFICES ASSUME MirrorInit PROVE Followed
  OBVIOUS
<1>1. Resting(MasterDeck) /\ Resting(ClientDeck)
  BY StartClear, MirrorAssumption DEF MasterDeck, ClientDeck, Resting
<1>2. Resting(master) /\ NoneOf(toServer)
  BY <1>1 DEF MirrorInit, NoneOf
<1>3. HeardIsOurs /\ \A c \in Clients : Follows(c)
  BY DEF MirrorInit, HeardIsOurs, Follows
<1>4. ClientsOK
  BY <1>1, <1>2, <1>3 DEF MirrorInit, ClientsOK, ServerCurrent
<1>5. NotesOK /\ RemoteOK
  BY DEF MirrorInit, NotesOK, RemoteOK
<1>6. QED  BY <1>2, <1>4, <1>5 DEF Followed

\* The last of the posts that all openers hand on is the last post.
LEMMA LastHanded ==
    ASSUME NEW b \in Nat, b > 0, NEW n \in Nat, n > 0
    PROVE  b * n \in Nat /\ b * n > 0 /\ (b * n - 1) \div b = n - 1
<1>1. b * n \in Nat /\ b * n >= b
  OBVIOUS
<1>2. b * n - 1 = b * (n - 1) + (b - 1) /\ b - 1 \in 0 .. b - 1 /\ n - 1 \in Nat
  OBVIOUS
<1>3. (b * n - 1) \div b = n - 1
  BY <1>1, <1>2
<1>4. QED  BY <1>1, <1>3

\* What the master's handlers send, and where it goes.
LEMMA WhatIsSent ==
    ASSUME NEW d, Clear(d), bound \in Nat
    PROVE  /\ Posted(d) \in Seq(Message) /\ Handed(d) \in Seq(StateType)
           /\ Relayed(d) \in Seq(StateType)
           /\ d.out = <<>> => Posted(d) = <<>> /\ Handed(d) = <<>> /\ Relayed(d) = <<>>
           /\ d.out # <<>> =>
                LET s == d.out[Len(d.out)].state
                IN  /\ Posted(d) # <<>> /\ Ours(Posted(d)[Len(Posted(d))])
                    /\ Posted(d)[Len(Posted(d))].state = s
                    /\ notes # "closed" /\ bound > 0 => Ends(Handed(d), s)
                    /\ remote # "closed" => Ends(Relayed(d), s)
<1> DEFINE out == d.out
           n == Len(out)
<1>1. out \in Seq(Event) /\ n \in Nat /\ DOMAIN out = 1 .. n
      /\ \A i \in 1 .. n : out[i].state \in StateType
  <2>1. out \in Seq(Event)
    BY DEF Clear, Legible
  <2>2. \A i \in 1 .. Len(out) : out[i] \in Event
    BY <2>1
  <2>3. QED  BY <2>1, <2>2 DEF Event
<1>2. Posted(d) = [i \in 1 .. n |-> [secret |-> Id, socketId |-> Id, state |-> out[i].state]]
  BY <1>1 DEF Posted, Post
<1>3. Relayed(d) = IF remote = "closed" THEN <<>> ELSE [i \in 1 .. n |-> out[i].state]
  BY <1>1 DEF Relayed
<1>4. Handed(d) = IF notes = "closed" THEN <<>>
                  ELSE [i \in 1 .. bound * n |-> out[1 + (i - 1) \div bound].state]
  BY DEF Handed
<1> HIDE DEF out, n
<1>5. Posted(d) \in Seq(Message) /\ Len(Posted(d)) = n
  <2>1. \A i \in 1 .. n : [secret |-> Id, socketId |-> Id, state |-> out[i].state] \in Message
    BY <1>1 DEF Message
  <2>2. QED  BY <1>1, <1>2, <2>1
<1>6. Relayed(d) \in Seq(StateType) /\ (remote # "closed" => Len(Relayed(d)) = n)
  BY <1>1, <1>3
<1>7. bound * n \in Nat /\ \A i \in 1 .. bound * n : 1 + (i - 1) \div bound \in 1 .. n
  <2>1. bound * n \in Nat
    BY <1>1
  <2>2. ASSUME NEW i \in 1 .. bound * n PROVE 1 + (i - 1) \div bound \in 1 .. n
    <3>1. bound > 0 /\ i - 1 < bound * n /\ i - 1 >= 0
      BY <1>1, <2>1
    <3> DEFINE k == (i - 1) \div bound
    <3>2. k \in Int /\ bound * k <= i - 1 /\ i - 1 < bound * k + bound
      BY <2>1, <3>1
    <3> HIDE DEF k
    <3>3. k >= 0 /\ k < n
      BY <1>1, <3>1, <3>2
    <3>4. QED  BY <1>1, <3>2, <3>3 DEF k
  <2>3. QED  BY <2>1, <2>2
<1>8. Handed(d) \in Seq(StateType) /\ (notes # "closed" => Len(Handed(d)) = bound * n)
  <2>1. CASE notes = "closed"
    BY <1>4, <2>1
  <2>2. CASE notes # "closed"
    <3> DEFINE f == [i \in 1 .. bound * n |-> out[1 + (i - 1) \div bound].state]
    <3>1. \A i \in 1 .. bound * n : out[1 + (i - 1) \div bound].state \in StateType
      BY <1>1, <1>7
    <3>2. f \in Seq(StateType) /\ Len(f) = bound * n
      BY <1>7, <3>1
    <3>3. QED  BY <1>4, <2>2, <3>2
  <2>3. QED  BY <2>1, <2>2
<1>9. ASSUME out = <<>> PROVE Posted(d) = <<>> /\ Handed(d) = <<>> /\ Relayed(d) = <<>>
  <2>1. n = 0
    BY <1>9 DEF n
  <2>2. Len(Posted(d)) = 0 /\ Len(Handed(d)) = 0 /\ Len(Relayed(d)) = 0
    <3>1. bound * n = 0
      BY <2>1
    <3>2. notes = "closed" => Len(Handed(d)) = 0
      BY <1>4
    <3>3. remote = "closed" => Len(Relayed(d)) = 0
      BY <1>3
    <3>4. QED  BY <1>5, <1>6, <1>8, <2>1, <3>1, <3>2, <3>3
  <2>3. QED  BY <1>5, <1>6, <1>8, <2>2, EmptySeq
<1>10. ASSUME out # <<>>
       PROVE  /\ Posted(d) # <<>> /\ Ours(Posted(d)[Len(Posted(d))])
              /\ Posted(d)[Len(Posted(d))].state = out[n].state
              /\ notes # "closed" /\ bound > 0 => Ends(Handed(d), out[n].state)
              /\ remote # "closed" => Ends(Relayed(d), out[n].state)
  <2>1. n > 0 /\ n \in 1 .. n
    <3>1. n # 0
      BY <1>1, <1>10, EmptySeq DEF n
    <3>2. QED  BY <1>1, <3>1
  <2>2. Posted(d) # <<>> /\ Ours(Posted(d)[Len(Posted(d))])
        /\ Posted(d)[Len(Posted(d))].state = out[n].state
    <3>1. Posted(d)[n] = [secret |-> Id, socketId |-> Id, state |-> out[n].state]
      BY <1>2, <2>1
    <3>2. Posted(d) # <<>>
      BY <1>5, <2>1
    <3>3. QED  BY <1>5, <3>1, <3>2 DEF Ours
  <2>3. ASSUME notes # "closed", bound > 0 PROVE Ends(Handed(d), out[n].state)
    <3>1. bound * n \in Nat /\ bound * n > 0 /\ (bound * n - 1) \div bound = n - 1
      BY <1>1, <2>1, <2>3, LastHanded
    <3> DEFINE k == bound * n
    <3>2. k \in 1 .. k /\ Handed(d) = [i \in 1 .. k |-> out[1 + (i - 1) \div bound].state]
          /\ Len(Handed(d)) = k /\ (k - 1) \div bound = n - 1
      BY <1>4, <1>8, <2>3, <3>1
    <3> HIDE DEF k
    <3>3. Handed(d)[k] = out[1 + (k - 1) \div bound].state
      BY <3>2
    <3>4. 1 + (n - 1) = n
      BY <1>1
    <3>5. Handed(d)[k] = out[n].state
      BY <3>2, <3>3, <3>4
    <3>6. Handed(d) # <<>>
      BY <3>2
    <3>7. QED  BY <3>2, <3>5, <3>6 DEF Ends
  <2>4. ASSUME remote # "closed" PROVE Ends(Relayed(d), out[n].state)
    <3>1. Relayed(d)[n] = out[n].state /\ Len(Relayed(d)) = n /\ Relayed(d) # <<>>
      BY <1>3, <1>6, <2>1, <2>4
    <3>2. QED  BY <3>1 DEF Ends
  <2>5. QED  BY <2>2, <2>3, <2>4
<1>11. QED  BY <1>5, <1>6, <1>8, <1>9, <1>10 DEF out, n
-----------------------------------------------------------------------------
\* Each part hangs on the master and on its own variables.
LEMMA PartsStay ==
    ASSUME Followed, UNCHANGED master
    PROVE  /\ Resting(master)'
           /\ UNCHANGED <<serverVars, clientVars>> => ClientsOK'
           /\ UNCHANGED notesVars => NotesOK'
           /\ UNCHANGED remoteVars => RemoteOK'
<1>1. Resting(master)' /\ ClientsOK /\ NotesOK /\ RemoteOK
  BY DEF Followed
<1>2. ASSUME UNCHANGED <<serverVars, clientVars>> PROVE ClientsOK'
  <2>1. HeardIsOurs' /\ ServerCurrent' /\ \A c \in Clients : Follows(c)'
    BY <1>1, <1>2 DEF ClientsOK, HeardIsOurs, ServerCurrent, Follows, serverVars, clientVars
  <2>2. QED  BY <1>1, <1>2, <2>1 DEF ClientsOK, serverVars, clientVars
<1>3. ASSUME UNCHANGED notesVars PROVE NotesOK'
  BY <1>1, <1>3 DEF NotesOK, Current, notesVars
<1>4. ASSUME UNCHANGED remoteVars PROVE RemoteOK'
  BY <1>1, <1>4 DEF RemoteOK, Current, remoteVars
<1>5. QED  BY <1>1, <1>2, <1>3, <1>4

\* A handler of the master: who is told of a new state has it last on its way.
LEMMA DoesFollowed ==
    ASSUME Followed, NEW d, Tells(master, d), MasterDoes(d) PROVE Followed'
<1> DEFINE e == [d EXCEPT !.out = <<>>]
           s == d.out[Len(d.out)].state
<1>1. Resting(master) /\ Clear(master) /\ ClientsOK /\ NotesOK /\ RemoteOK /\ bound \in Nat
  BY DEF Followed, Resting, NotesOK
<1>2. Clear(d) /\ Told(GetState(master), d)
  <2>1. Told(GetState(master), master)
    BY <1>1 DEF Resting, Clear, Told
  <2>2. QED  BY <2>1 DEF Tells
<1>3. master' = e /\ Resting(e) /\ GetState(e) = GetState(d)
  BY <1>2, Forgotten DEF MasterDoes, Resting
<1> HIDE DEF e
<1>4. GetState(master') = GetState(d) /\ Resting(master')
  BY <1>3
<1>5. /\ toServer' = toServer \o Posted(d) /\ toNotes' = toNotes \o Handed(d)
      /\ toRemote' = toRemote \o Relayed(d)
      /\ UNCHANGED <<client, connected, toClient, missed, strayed, notes, openers, bound,
                     shown, remote, remoteShown>>
      /\ reply' = reply /\ asking' = asking
  BY DEF MasterDoes, clientVars
<1>6. /\ Posted(d) \in Seq(Message) /\ Handed(d) \in Seq(StateType)
      /\ Relayed(d) \in Seq(StateType)
      /\ d.out = <<>> => Posted(d) = <<>> /\ Handed(d) = <<>> /\ Relayed(d) = <<>>
      /\ d.out # <<>> =>
           /\ Posted(d) # <<>> /\ Ours(Posted(d)[Len(Posted(d))])
           /\ Posted(d)[Len(Posted(d))].state = s
           /\ notes # "closed" /\ bound > 0 => Ends(Handed(d), s)
           /\ remote # "closed" => Ends(Relayed(d), s)
  BY <1>1, <1>2, WhatIsSent
<1>7. toServer \in Seq(Message) /\ toNotes \in Seq(StateType) /\ toRemote \in Seq(StateType)
  BY <1>1 DEF ClientsOK, NotesOK, RemoteOK
<1>8. toServer' \in Seq(Message) /\ toNotes' \in Seq(StateType) /\ toRemote' \in Seq(StateType)
  BY <1>5, <1>6, <1>7
<1>9. CASE d.out = <<>>
  <2>1. GetState(master') = GetState(master)
    BY <1>2, <1>4, <1>9 DEF Told
  <2>2. UNCHANGED <<toServer, toNotes, toRemote>>
    BY <1>5, <1>6, <1>7, <1>9
  <2>3. ServerCurrent' /\ HeardIsOurs' /\ \A c \in Clients : Follows(c)'
    BY <1>1, <1>5, <2>1, <2>2 DEF ClientsOK, ServerCurrent, HeardIsOurs, Follows
  <2>4. ClientsOK'
    BY <1>1, <1>5, <1>8, <2>3 DEF ClientsOK
  <2>5. NotesOK'
    BY <1>1, <1>5, <2>1, <2>2 DEF NotesOK, Current
  <2>6. RemoteOK'
    BY <1>1, <1>5, <2>1, <2>2 DEF RemoteOK, Current
  <2>7. QED  BY <1>4, <2>4, <2>5, <2>6 DEF Followed
<1>10. CASE d.out # <<>>
  <2>1. GetState(master') = s
    BY <1>2, <1>4, <1>10 DEF Told
  <2>2. LastIs(toServer', s) /\ ~NoneOf(toServer')
    BY <1>5, <1>6, <1>7, <1>10, LastConcat
  <2>3. ServerCurrent' /\ \A c \in Clients : Follows(c)'
    BY <2>1, <2>2 DEF ServerCurrent, Follows
  <2>4. HeardIsOurs'
    BY <1>1, <1>5 DEF ClientsOK, HeardIsOurs
  <2>5. ClientsOK'
    BY <1>1, <1>5, <1>8, <2>3, <2>4 DEF ClientsOK
  <2>6. ASSUME NEW q \in Seq(StateType), NEW r \in Seq(StateType), Ends(r, s)
        PROVE  Ends(q \o r, s)
    BY <2>6, EndsAppend DEF Ends
  <2>7. NotesOK'
    <3>1. notes # "closed" /\ bound > 0 => Ends(toNotes', s)
      BY <1>5, <1>6, <1>7, <1>10, <2>6
    <3>2. notes' = "ready" /\ bound' > 0 => Current(toNotes, shown)'
      BY <1>5, <2>1, <3>1 DEF Current
    <3>3. openers' \in Nat /\ bound' \in Nat
      BY <1>1, <1>5 DEF NotesOK
    <3>4. QED  BY <1>8, <3>2, <3>3 DEF NotesOK
  <2>8. RemoteOK'
    <3>1. remote # "closed" => Ends(toRemote', s)
      BY <1>5, <1>6, <1>7, <1>10, <2>6
    <3>2. remote' = "ready" => Current(toRemote, remoteShown)'
      BY <1>5, <2>1, <3>1 DEF Current
    <3>3. QED  BY <1>8, <3>2 DEF RemoteOK
  <2>9. QED  BY <1>4, <2>5, <2>7, <2>8 DEF Followed
<1>11. QED  BY <1>9, <1>10

\* The master.
LEMMA MasterFollowed == ASSUME Followed, Master PROVE Followed'
<1>1. Clear(master) /\ master.paused \in BOOLEAN /\ master.overview \in BOOLEAN
  BY DEF Followed, Resting, Clear, Legible
<1>2. CASE MasterNext
  BY <1>1, <1>2, PrevNextTells, DoesFollowed DEF MasterNext
<1>3. CASE MasterPrev
  BY <1>1, <1>3, PrevNextTells, DoesFollowed DEF MasterPrev
<1>4. CASE MasterPause
  <2>1. Tells(master, TogglePause(master, ~master.paused))
    BY <1>1, PauseTells
  <2>2. QED  BY <1>4, <2>1, DoesFollowed DEF MasterPause
<1>5. CASE MasterOverview
  <2>1. Tells(master, ToggleOverview(master, ~master.overview))
    BY <1>1, OverviewTells
  <2>2. QED  BY <1>5, <2>1, DoesFollowed DEF MasterOverview
<1>6. CASE MasterHomes
  <2>1. Tells(master, ResetStacks(master))
    BY <1>1, ResetTells
  <2>2. QED  BY <1>6, <2>1, DoesFollowed DEF MasterHomes
<1>7. ASSUME NEW s \in SpeakerStates, SpeakerMoves(s) PROVE Followed'
  <2>1. Tells(master, SetPosition(master, s))
    BY <1>1, SetPositionTells, MirrorAssumption
  <2>2. QED  BY <1>7, <2>1, DoesFollowed DEF SpeakerMoves
<1>8. CASE MasterLoads
  <2> DEFINE m == Post(GetState(master))
  <2>1. GetState(master) \in StateType
    BY <1>1, StateOf DEF Clear
  <2>2. m \in Message /\ Ours(m) /\ m.state = GetState(master)
    BY <2>1 DEF Post, Message, Ours
  <2>3. toServer' = Append(toServer, m) /\ UNCHANGED <<master, clientVars, notesVars, remoteVars>>
    BY <1>8 DEF MasterLoads
  <2> HIDE DEF m
  <2>4. ClientsOK
    BY DEF Followed
  <2>5. toServer' \in Seq(Message) /\ LastIs(toServer', GetState(master)) /\ ~NoneOf(toServer')
    <3>1. toServer \in Seq(Message)
      BY <2>4 DEF ClientsOK
    <3>2. QED  BY <2>2, <2>3, <3>1, LastAppend
  <2>6. ServerCurrent' /\ HeardIsOurs' /\ \A c \in Clients : Follows(c)'
    BY <2>3, <2>4, <2>5 DEF ClientsOK, ServerCurrent, HeardIsOurs, Follows, clientVars
  <2>7. ClientsOK'
    BY <2>3, <2>4, <2>5, <2>6 DEF ClientsOK, clientVars
  <2>8. QED  BY <2>3, <2>7, PartsStay DEF Followed
<1>9. QED  BY <1>2, <1>3, <1>4, <1>5, <1>6, <1>7, <1>8 DEF Master
-----------------------------------------------------------------------------
\* A post of somebody else.
LEMMA StrangerFollowed ==
    ASSUME Followed, NEW x \in Strangers, NEW id \in Strangers \cup {Id}, StrangerPosts(x, id)
    PROVE  Followed'
<1> DEFINE m == [secret |-> x, socketId |-> id, state |-> GetState(MasterDeck)]
<1>1. GetState(MasterDeck) \in StateType
  BY StartClear, StateOf, MirrorAssumption DEF MasterDeck, Clear
<1>2. m \in Message /\ ~Ours(m)
  BY <1>1, MirrorAssumption DEF Message, Ours
<1>3. toServer' = Append(toServer, m) /\ UNCHANGED <<master, clientVars, notesVars, remoteVars>>
  BY DEF StrangerPosts
<1> HIDE DEF m
<1>4. ClientsOK
  BY DEF Followed
<1>5. toServer' \in Seq(Message) /\ (NoneOf(toServer') <=> NoneOf(toServer))
      /\ \A s : LastIs(toServer, s) => LastIs(toServer', s)
  <2>1. toServer \in Seq(Message)
    BY <1>4 DEF ClientsOK
  <2>2. QED  BY <1>2, <1>3, <2>1, LastAppend
<1>6. ServerCurrent' /\ HeardIsOurs' /\ \A c \in Clients : Follows(c)'
  BY <1>3, <1>4, <1>5 DEF ClientsOK, ServerCurrent, HeardIsOurs, Follows, clientVars
<1>7. ClientsOK'
  BY <1>3, <1>4, <1>5, <1>6 DEF ClientsOK, clientVars
<1>8. QED  BY <1>3, <1>7, PartsStay DEF Followed

\* The server sends a post on.  When it is the last of the master's, who is
\* connected has it last on its way.
LEMMA BroadcastFollowed == ASSUME Followed, Broadcast PROVE Followed'
<1> DEFINE m == Head(toServer)
           to == IF m.secret = m.socketId THEN connected ELSE {}
<1>1. ClientsOK /\ toServer \in Seq(Message) /\ toServer # <<>>
      /\ toClient \in [Clients -> Seq(Message)] /\ missed \in [Clients -> BOOLEAN]
      /\ HeardIsOurs /\ ServerCurrent /\ \A c \in Clients : Follows(c)
  BY DEF Followed, ClientsOK, Broadcast
<1>2. /\ m \in Message /\ Tail(toServer) \in Seq(Message)
      /\ NoneOf(toServer) <=> NoneOf(Tail(toServer)) /\ ~Ours(m)
      /\ \A s : LastIs(toServer, s) =>
                   \/ LastIs(Tail(toServer), s)
                   \/ Ours(m) /\ m.state = s /\ NoneOf(Tail(toServer))
  BY <1>1, LastTail
<1>3. /\ toServer' = Tail(toServer)
      /\ toClient' = [c \in Clients |-> IF c \in to THEN Append(toClient[c], m) ELSE toClient[c]]
      /\ missed' = [c \in Clients |-> IF m.socketId = Id /\ m.secret = Id
                                      THEN c \notin connected ELSE missed[c]]
      /\ UNCHANGED <<master, client, connected, strayed, notesVars, remoteVars>>
  BY DEF Broadcast
<1> HIDE DEF m
<1>4. ServerCurrent'
  BY <1>1, <1>2, <1>3 DEF ServerCurrent
<1>5. ASSUME NEW c \in Clients PROVE Follows(c)'
  <2>1. toClient[c] \in Seq(Message) /\ Follows(c)
    BY <1>1
  <2>2. CASE Ours(m)
    <3>1. m.secret = m.socketId /\ to = connected /\ missed'[c] = (c \notin connected)
      BY <1>3, <2>2 DEF Ours
    <3>2. c \notin connected => missed'[c]
      BY <3>1
    <3>3. ASSUME c \in connected, NoneOf(Tail(toServer))
          PROVE  LastIs(toClient'[c], GetState(master))
      <4>1. ~NoneOf(toServer)
        BY <1>2, <2>2
      <4>2. LastIs(toServer, GetState(master))
        BY <1>1, <4>1 DEF ServerCurrent
      <4>3. m.state = GetState(master)
        BY <1>2, <3>3, <4>2, LastNone
      <4>4. toClient'[c] = Append(toClient[c], m)
        BY <1>3, <3>1, <3>3
      <4>5. QED  BY <1>2, <2>1, <2>2, <4>3, <4>4, LastAppend
    <3>4. QED  BY <1>3, <3>2, <3>3 DEF Follows
  <2>3. CASE ~Ours(m)
    <3>1. missed'[c] = missed[c]
      BY <1>3, <2>3 DEF Ours
    <3>2. (NoneOf(toClient'[c]) <=> NoneOf(toClient[c]))
          /\ \A s : LastIs(toClient[c], s) => LastIs(toClient'[c], s)
      <4>1. toClient'[c] = toClient[c] \/ toClient'[c] = Append(toClient[c], m)
        BY <1>3
      <4>2. /\ NoneOf(Append(toClient[c], m)) <=> NoneOf(toClient[c])
            /\ \A s : LastIs(toClient[c], s) => LastIs(Append(toClient[c], m), s)
        BY <1>2, <2>1, <2>3, LastAppend
      <4>3. QED  BY <4>1, <4>2
    <3>3. NoneOf(toServer') <=> NoneOf(toServer)
      BY <1>2, <1>3, <2>3
    <3>4. QED  BY <1>3, <2>1, <3>1, <3>2, <3>3 DEF Follows
  <2>4. QED  BY <2>2, <2>3
<1>6. HeardIsOurs'
  <2> SUFFICES ASSUME NEW c \in Clients, NEW i \in DOMAIN toClient'[c]
               PROVE  toClient'[c][i].socketId = Id => toClient'[c][i].secret = Id
    BY DEF HeardIsOurs
  <2>1. toClient[c] \in Seq(Message)
    BY <1>1
  <2>2. CASE c \in to
    <3>1. toClient'[c] = Append(toClient[c], m) /\ m.secret = m.socketId
      BY <1>3, <2>2
    <3>2. (i \in DOMAIN toClient[c] /\ toClient'[c][i] = toClient[c][i]) \/ toClient'[c][i] = m
      BY <1>2, <2>1, <3>1
    <3>3. QED  BY <1>1, <3>1, <3>2 DEF HeardIsOurs
  <2>3. CASE c \notin to
    <3>1. toClient'[c] = toClient[c]
      BY <1>3, <2>3
    <3>2. QED  BY <1>1, <3>1 DEF HeardIsOurs
  <2>4. QED  BY <2>2, <2>3
<1>7. toClient' \in [Clients -> Seq(Message)]
  <2>1. \A c \in Clients : toClient[c] \in Seq(Message) /\ Append(toClient[c], m) \in Seq(Message)
    BY <1>1, <1>2
  <2>2. QED  BY <1>3, <2>1
<1>8. missed' \in [Clients -> BOOLEAN]
  BY <1>1, <1>3
<1>9. ClientsOK'
  <2>1. toServer' \in Seq(Message)
    BY <1>2, <1>3
  <2>2. client' = client /\ strayed' = strayed
    BY <1>3
  <2>3. QED  BY <1>1, <1>4, <1>5, <1>6, <1>7, <1>8, <2>1, <2>2 DEF ClientsOK
<1>10. QED  BY <1>3, <1>9, PartsStay DEF Followed

\* A client applies what it hears: the state of the last post is the master's.
LEMMA ApplyFollowed == ASSUME Followed, NEW c \in Clients, Apply(c) PROVE Followed'
<1> DEFINE q == toClient[c]
           m == Head(q)
           d == SetState(client[c], m.state)
<1>1. ClientsOK /\ q \in Seq(Message) /\ q # <<>> /\ toClient \in [Clients -> Seq(Message)]
      /\ HeardIsOurs /\ ServerCurrent /\ (\A k \in Clients : Follows(k))
      /\ strayed \in [Clients -> BOOLEAN] /\ Clear(master)
      /\ client = [k \in Clients |-> client[k]] /\ \A k \in Clients : Resting(client[k])
  BY DEF Followed, ClientsOK, Apply, Resting
<1>2. /\ m \in Message /\ Tail(q) \in Seq(Message)
      /\ NoneOf(q) <=> NoneOf(Tail(q)) /\ ~Ours(m)
      /\ \A s : LastIs(q, s) => \/ LastIs(Tail(q), s)
                                \/ Ours(m) /\ m.state = s /\ NoneOf(Tail(q))
  BY <1>1, LastTail
<1>3. UNCHANGED <<master, toServer, connected, missed, notesVars, remoteVars>>
      /\ toClient' = [toClient EXCEPT ![c] = Tail(q)]
  BY DEF Apply
<1>4. Hears(m) <=> Ours(m)
  <2>1. 1 \in DOMAIN q /\ m = q[1]
    BY <1>1
  <2>2. QED  BY <1>1, <2>1 DEF HeardIsOurs, Hears, Ours
<1>5. IF ~Hears(m) THEN UNCHANGED <<client, strayed>>
      ELSE /\ client' = [client EXCEPT ![c] = [d EXCEPT !.out = <<>>]]
           /\ strayed' = [strayed EXCEPT ![c] = FALSE]
  BY DEF Apply
<1>6. Clear(client[c]) /\ m.state \in StateType
  BY <1>1, <1>2 DEF Resting, Message
<1>7. Clear(d) /\ (m.state = GetState(master) => GetState(d) = GetState(master))
  BY <1>1, <1>6, SetStateClear, SetStateGives
<1> DEFINE e == [d EXCEPT !.out = <<>>]
<1>8. Resting(e) /\ (m.state = GetState(master) => GetState(e) = GetState(master))
  <2> HIDE DEF d
  <2>1. QED  BY <1>7, Forgotten DEF Resting
<1> HIDE DEF e, d, m, q
<1>9. (\A k \in Clients : Resting(client'[k])) /\ client' = [k \in Clients |-> client'[k]]
      /\ strayed' \in [Clients -> BOOLEAN]
      /\ (\A k \in Clients \ {c} : client'[k] = client[k])
      /\ (Hears(m) => client'[c] = e)
  <2>1. CASE Hears(m)
    <3>1. client' = [client EXCEPT ![c] = e] /\ strayed' = [strayed EXCEPT ![c] = FALSE]
      BY <1>5, <2>1 DEF e
    <3>2. QED  BY <1>1, <1>8, <3>1
  <2>2. CASE ~Hears(m)
    BY <1>1, <1>5, <2>2
  <2>3. QED  BY <2>1, <2>2
<1>10. \A k \in Clients \ {c} : strayed'[k] = strayed[k]
  BY <1>1, <1>5
<1>11. toClient' \in [Clients -> Seq(Message)] /\ toClient'[c] = Tail(q)
       /\ \A k \in Clients \ {c} : toClient'[k] = toClient[k]
  BY <1>1, <1>2, <1>3
<1>12. HeardIsOurs'
  <2> SUFFICES ASSUME NEW k \in Clients, NEW i \in DOMAIN toClient'[k]
               PROVE  toClient'[k][i].socketId = Id => toClient'[k][i].secret = Id
    BY DEF HeardIsOurs
  <2>1. CASE k = c
    <3>1. i + 1 \in DOMAIN q /\ toClient'[k][i] = q[i + 1]
      BY <1>1, <1>11, <2>1
    <3>2. QED  BY <1>1, <2>1, <3>1 DEF HeardIsOurs, q
  <2>2. CASE k # c
    <3>1. toClient'[k] = toClient[k]
      BY <1>11, <2>2
    <3>2. QED  BY <1>1, <3>1 DEF HeardIsOurs
  <2>3. QED  BY <2>1, <2>2
<1>13. ASSUME NEW k \in Clients PROVE Follows(k)'
  <2>1. CASE k # c
    <3>1. toClient'[k] = toClient[k] /\ client'[k] = client[k]
      BY <1>9, <1>11, <2>1
    <3>2. strayed'[k] = strayed[k] /\ missed' = missed
      BY <1>3, <1>10, <2>1
    <3>3. QED  BY <1>1, <1>3, <3>1, <3>2 DEF Follows
  <2>2. CASE k = c /\ ~Ours(m)
    <3>1. client' = client /\ strayed' = strayed /\ missed' = missed
      BY <1>3, <1>4, <1>5, <2>2
    <3>2. (NoneOf(toClient'[c]) <=> NoneOf(q)) /\ \A s : LastIs(q, s) => LastIs(toClient'[c], s)
      BY <1>2, <1>11, <2>2
    <3>3. QED  BY <1>1, <1>3, <2>2, <3>1, <3>2 DEF Follows, q
  <2>3. CASE k = c /\ Ours(m)
    <3>1. client'[c] = e /\ missed' = missed
      BY <1>3, <1>4, <1>9, <2>3
    <3>2. ~NoneOf(q)
      BY <1>2, <2>3
    <3>3. missed[c] \/ ~NoneOf(toServer) \/ LastIs(q, GetState(master))
      BY <1>1, <3>2 DEF Follows, q
    <3>4. LastIs(q, GetState(master)) => \/ LastIs(toClient'[c], GetState(master))
                                         \/ NoneOf(toClient'[c]) /\ GetState(e) = GetState(master)
      BY <1>2, <1>8, <1>11
    <3>5. QED  BY <1>3, <2>3, <3>1, <3>3, <3>4 DEF Follows
  <2>4. QED  BY <2>1, <2>2, <2>3
<1>14. ServerCurrent' /\ toServer' = toServer /\ missed' = missed
  BY <1>1, <1>3 DEF ServerCurrent
<1>15. ClientsOK'
  BY <1>1, <1>9, <1>11, <1>12, <1>13, <1>14 DEF ClientsOK
<1>16. QED  BY <1>3, <1>15, PartsStay DEF Followed

\* The keys and the timer of a client.
LEMMA ClientFollowed ==
    ASSUME Followed, NEW c \in Clients, ClientStrays(c) \/ ClientHomes(c) PROVE Followed'
<1>1. ClientsOK /\ HeardIsOurs /\ ServerCurrent /\ (\A k \in Clients : Follows(k))
      /\ strayed \in [Clients -> BOOLEAN]
      /\ client = [k \in Clients |-> client[k]] /\ (\A k \in Clients : Resting(client[k]))
      /\ Clear(client[c])
  BY DEF Followed, ClientsOK, Resting
<1>2. ASSUME NEW d, Clear(d), ClientDoes(c, d)
      PROVE  /\ client' = [k \in Clients |-> client'[k]]
             /\ (\A k \in Clients : Resting(client'[k]))
             /\ (\A k \in Clients \ {c} : client'[k] = client[k])
             /\ GetState(client'[c]) = GetState(d)
             /\ UNCHANGED <<master, toServer, connected, toClient, missed, notesVars, remoteVars>>
  <2> DEFINE e == [d EXCEPT !.out = <<>>]
  <2>1. Resting(e) /\ GetState(e) = GetState(d)
    BY <1>2, Forgotten DEF Resting
  <2>2. client' = [client EXCEPT ![c] = e]
        /\ UNCHANGED <<master, toServer, connected, toClient, missed, notesVars, remoteVars>>
    BY <1>2 DEF ClientDoes
  <2> HIDE DEF e
  <2>3. QED  BY <1>1, <2>1, <2>2
<1>3. /\ client' = [k \in Clients |-> client'[k]]
      /\ (\A k \in Clients : Resting(client'[k]))
      /\ (\A k \in Clients \ {c} : client'[k] = client[k])
      /\ UNCHANGED <<master, toServer, connected, toClient, missed, notesVars, remoteVars>>
      /\ strayed' \in [Clients -> BOOLEAN] /\ (\A k \in Clients \ {c} : strayed'[k] = strayed[k])
      /\ strayed'[c] \/ (strayed'[c] = strayed[c] /\ GetState(client'[c]) = GetState(client[c]))
  <2>1. CASE ClientStrays(c)
    <3>1. Clear(NavigateNext(client[c])) /\ ClientDoes(c, NavigateNext(client[c]))
          /\ strayed' = [strayed EXCEPT ![c] = TRUE]
      BY <1>1, <2>1, PrevNextTells DEF Tells, ClientStrays
    <3>2. strayed' \in [Clients -> BOOLEAN] /\ (\A k \in Clients \ {c} : strayed'[k] = strayed[k])
          /\ strayed'[c]
      BY <1>1, <3>1
    <3>3. QED  BY <1>2, <3>1, <3>2
  <2>2. CASE ClientHomes(c)
    <3>1. Clear(ResetStacks(client[c])) /\ ClientDoes(c, ResetStacks(client[c]))
          /\ GetState(ResetStacks(client[c])) = GetState(client[c]) /\ strayed' = strayed
      BY <1>1, <2>2, ResetTells DEF Tells, ClientHomes
    <3>2. QED  BY <1>1, <1>2, <3>1
  <2>3. QED  BY <2>1, <2>2
<1>4. HeardIsOurs' /\ ServerCurrent' /\ toServer' = toServer /\ toClient' = toClient
      /\ missed' = missed
  BY <1>1, <1>3 DEF HeardIsOurs, ServerCurrent
<1>5. ASSUME NEW k \in Clients PROVE Follows(k)'
  <2>1. CASE k # c
    <3>1. client'[k] = client[k] /\ strayed'[k] = strayed[k]
      BY <1>3, <2>1
    <3>2. QED  BY <1>1, <1>3, <3>1 DEF Follows
  <2>2. CASE k = c
    BY <1>1, <1>3, <2>2 DEF Follows
  <2>3. QED  BY <2>1, <2>2
<1>6. ClientsOK'
  BY <1>1, <1>3, <1>4, <1>5 DEF ClientsOK
<1>7. QED  BY <1>3, <1>6, PartsStay DEF Followed

\* Clients come and go.
LEMMA FollowingFollowed == ASSUME Followed, Following PROVE Followed'
<1>1. ASSUME NEW c \in Clients, Connect(c) PROVE Followed'
  <2>1. UNCHANGED <<master, toServer, client, toClient, missed, strayed, notesVars, remoteVars>>
    BY <1>1 DEF Connect
  <2>2. ClientsOK /\ HeardIsOurs /\ ServerCurrent /\ \A k \in Clients : Follows(k)
    BY DEF Followed, ClientsOK
  <2>3. HeardIsOurs' /\ ServerCurrent' /\ \A k \in Clients : Follows(k)'
    BY <2>1, <2>2 DEF HeardIsOurs, ServerCurrent, Follows
  <2>4. ClientsOK'
    BY <2>1, <2>2, <2>3 DEF ClientsOK
  <2>5. QED  BY <2>1, <2>4, PartsStay DEF Followed
<1>2. ASSUME NEW c \in Clients, Disconnect(c) PROVE Followed'
  <2>1. UNCHANGED <<master, toServer, client, strayed, notesVars, remoteVars>>
        /\ toClient' = [toClient EXCEPT ![c] = <<>>] /\ missed' = [missed EXCEPT ![c] = TRUE]
    BY <1>2 DEF Disconnect
  <2>2. ClientsOK /\ HeardIsOurs /\ ServerCurrent /\ (\A k \in Clients : Follows(k))
        /\ toClient \in [Clients -> Seq(Message)] /\ missed \in [Clients -> BOOLEAN]
    BY DEF Followed, ClientsOK
  <2>3. toClient' \in [Clients -> Seq(Message)] /\ missed' \in [Clients -> BOOLEAN]
        /\ toClient'[c] = <<>> /\ missed'[c]
        /\ \A k \in Clients \ {c} : toClient'[k] = toClient[k] /\ missed'[k] = missed[k]
    BY <2>1, <2>2
  <2>4. HeardIsOurs'
    <3>1. \A k \in Clients : toClient'[k] = <<>> \/ toClient'[k] = toClient[k]
      BY <2>3
    <3>2. QED  BY <2>2, <3>1 DEF HeardIsOurs
  <2>5. ServerCurrent'
    BY <2>1, <2>2 DEF ServerCurrent
  <2>6. ASSUME NEW k \in Clients PROVE Follows(k)'
    <3>1. CASE k = c
      BY <2>3, <3>1 DEF Follows
    <3>2. CASE k # c
      BY <2>1, <2>2, <2>3, <3>2 DEF Follows
    <3>3. QED  BY <3>1, <3>2
  <2>7. ClientsOK'
    BY <2>1, <2>2, <2>3, <2>4, <2>5, <2>6 DEF ClientsOK
  <2>8. QED  BY <2>1, <2>7, PartsStay DEF Followed
<1>3. QED  BY <1>1, <1>2, StrangerFollowed, BroadcastFollowed, ApplyFollowed, ClientFollowed
           DEF Following
-----------------------------------------------------------------------------
\* The notes window.
LEMMA SpeakingFollowed == ASSUME Followed, Speaking PROVE Followed'
<1>1. NotesOK /\ Clear(master) /\ GetState(master) \in StateType
      /\ openers \in Nat /\ bound \in Nat /\ toNotes \in Seq(StateType)
  BY StateOf DEF Followed, NotesOK, Resting, Clear
<1>2. ASSUME OnlyNotes, NotesOK' PROVE Followed'
  <2>1. UNCHANGED <<master, serverVars, clientVars, remoteVars>>
    BY <1>2 DEF OnlyNotes
  <2>2. QED  BY <1>2, <2>1, PartsStay DEF Followed
<1>3. CASE OpenNotes
  BY <1>1, <1>2, <1>3 DEF OpenNotes, NotesOK
<1>4. CASE ScriptRuns
  BY <1>1, <1>2, <1>4 DEF ScriptRuns, NotesOK
<1>5. CASE ConnectInterval
  BY <1>1, <1>2, <1>5 DEF ConnectInterval, NotesOK
<1>6. CASE PreviewsReady
  BY <1>1, <1>2, <1>6 DEF PreviewsReady, NotesOK
<1>7. CASE OnConnected
  <2> DEFINE r == [i \in 1 .. openers |-> GetState(master)]
  <2>1. r \in Seq(StateType) /\ Len(r) = openers
    BY <1>1
  <2>2. openers > 0 => r # <<>> /\ r[Len(r)] = GetState(master)
    BY <1>1
  <2>3. bound' = openers /\ notes' = notes /\ openers' = openers /\ OnlyNotes
        /\ toNotes' = IF notes = "closed" THEN toNotes ELSE toNotes \o r
    BY <1>7 DEF OnConnected
  <2> HIDE DEF r
  <2>4. notes = "ready" /\ openers > 0 => Ends(toNotes', GetState(master))
    BY <1>1, <2>1, <2>2, <2>3, EndsAppend
  <2>5. master' = master
    BY <2>3 DEF OnlyNotes
  <2>6. notes' = "ready" /\ bound' > 0 => Current(toNotes, shown)'
    BY <2>3, <2>4, <2>5 DEF Current
  <2>7. NotesOK'
    BY <1>1, <2>1, <2>3, <2>6 DEF NotesOK
  <2>8. QED  BY <1>2, <2>3, <2>7
<1>8. CASE NotesReceive
  <2>1. /\ toNotes # <<>> /\ toNotes' = Tail(toNotes)
        /\ shown' = IF notes = "ready" THEN NoOverview(Head(toNotes)) ELSE shown
        /\ notes' = notes /\ openers' = openers /\ bound' = bound /\ OnlyNotes
    BY <1>8 DEF NotesReceive
  <2>2. master' = master /\ reply' = reply
    BY <1>8 DEF NotesReceive, OnlyNotes
  <2>3. toNotes' \in Seq(StateType)
    BY <1>1, <2>1
  <2>4. ASSUME notes = "ready", Current(toNotes, shown) PROVE Current(toNotes, shown)'
    <3>1. Ends(toNotes, GetState(master))
      BY <2>1, <2>4 DEF Current
    <3>2. IF Tail(toNotes) = <<>> THEN Head(toNotes) = GetState(master)
          ELSE Ends(Tail(toNotes), GetState(master))
      BY <1>1, <3>1, EndsTail
    <3>3. QED  BY <2>1, <2>2, <2>4, <3>2 DEF Current
  <2>5. notes' = "ready" /\ ~reply' /\ bound' > 0 => Current(toNotes, shown)'
    BY <1>1, <2>1, <2>2, <2>4 DEF NotesOK
  <2>6. NotesOK'
    BY <1>1, <2>1, <2>3, <2>5 DEF NotesOK
  <2>7. QED  BY <1>2, <2>1, <2>6
<1>9. CASE CloseNotes
  BY <1>1, <1>2, <1>9 DEF CloseNotes, NotesOK
<1>10. QED  BY <1>3, <1>4, <1>5, <1>6, <1>7, <1>8, <1>9 DEF Speaking

\* The window of the notes server.
LEMMA SubscribingFollowed == ASSUME Followed, Subscribing PROVE Followed'
<1>1. RemoteOK /\ Clear(master) /\ GetState(master) \in StateType /\ toRemote \in Seq(StateType)
  BY StateOf DEF Followed, RemoteOK, Resting, Clear
<1>2. ASSUME OnlyRemote, RemoteOK' PROVE Followed'
  <2>1. UNCHANGED <<master, serverVars, clientVars, notesVars>>
    BY <1>2 DEF OnlyRemote
  <2>2. QED  BY <1>2, <2>1, PartsStay DEF Followed
<1>3. CASE OpenRemote
  BY <1>1, <1>2, <1>3 DEF OpenRemote, RemoteOK
<1>4. CASE RemoteReady
  BY <1>1, <1>2, <1>4 DEF RemoteReady, RemoteOK
<1>5. CASE NewSubscriber
  <2>1. remote' = remote /\ OnlyRemote
        /\ toRemote' = IF remote = "closed" THEN toRemote ELSE Append(toRemote, GetState(master))
    BY <1>5 DEF NewSubscriber
  <2>2. toRemote' \in Seq(StateType)
    BY <1>1, <2>1
  <2>3. remote = "ready" => Ends(toRemote', GetState(master))
    BY <1>1, <2>1 DEF Ends
  <2>4. remote' = "ready" => Current(toRemote, remoteShown)'
    BY <2>1, <2>3 DEF Current, OnlyRemote
  <2>5. RemoteOK'
    BY <2>2, <2>4 DEF RemoteOK
  <2>6. QED  BY <1>2, <2>1, <2>5
<1>6. CASE RemoteReceive
  <2>1. /\ toRemote # <<>> /\ toRemote' = Tail(toRemote)
        /\ remoteShown' = IF remote = "ready" THEN NoOverview(Head(toRemote)) ELSE remoteShown
        /\ remote' = remote /\ OnlyRemote
    BY <1>6 DEF RemoteReceive
  <2>2. master' = master /\ asking' = asking
    BY <1>6 DEF RemoteReceive, OnlyRemote
  <2>3. toRemote' \in Seq(StateType)
    BY <1>1, <2>1
  <2>4. ASSUME remote = "ready", Current(toRemote, remoteShown)
        PROVE  Current(toRemote, remoteShown)'
    <3>1. Ends(toRemote, GetState(master))
      BY <2>1, <2>4 DEF Current
    <3>2. IF Tail(toRemote) = <<>> THEN Head(toRemote) = GetState(master)
          ELSE Ends(Tail(toRemote), GetState(master))
      BY <1>1, <3>1, EndsTail
    <3>3. QED  BY <2>1, <2>2, <2>4, <3>2 DEF Current
  <2>5. remote' = "ready" /\ ~asking' => Current(toRemote, remoteShown)'
    BY <1>1, <2>1, <2>2, <2>4 DEF RemoteOK
  <2>6. RemoteOK'
    BY <2>3, <2>5 DEF RemoteOK
  <2>7. QED  BY <1>2, <2>1, <2>6
<1>7. CASE CloseRemote
  BY <1>1, <1>2, <1>7 DEF CloseRemote, RemoteOK
<1>8. QED  BY <1>3, <1>4, <1>5, <1>6, <1>7 DEF Subscribing

\* Every reachable state has the invariant: each leg of the way to a follower
\* ends with the state of the master, or the follower has it.
THEOREM AlwaysFollowed == MirrorSpec => []Followed
<1>1. Followed /\ [MirrorNext]_vars => Followed'
  <2>1. ASSUME Followed, MirrorNext PROVE Followed'
    BY <2>1, MasterFollowed, FollowingFollowed, SpeakingFollowed, SubscribingFollowed DEF MirrorNext
  <2>2. ASSUME Followed, UNCHANGED vars PROVE Followed'
    BY <2>2, PartsStay DEF Followed, vars
  <2>3. QED  BY <2>1, <2>2
<1>2. QED  BY InitFollowed, <1>1, PTL DEF MirrorSpec

\* A client that was there for the last post, has nothing on its way and was
\* not moved shows what the master shows.
THEOREM ClientsFollow == MirrorSpec => []ClientsAgree
BY AlwaysFollowed, FollowedAgree, PTL

\* A notes window that has connected shows the state of the master when nothing
\* is on its way.
THEOREM NotesFollow == MirrorSpec => []NotesAgree
BY AlwaysFollowed, FollowedAgree, PTL
=============================================================================
