-------------------------------- MODULE Deck --------------------------------
(***************************************************************************)
(* The state of one reveal.js presentation and what its functions do to    *)
(* it.  The functions of reveal.js call one another and run to completion, *)
(* so each is an operator from a deck to the deck it leaves: slide() is    *)
(* Slide(d, h, v, f).  The modules that give the deck its inputs (Reveal)  *)
(* and that hold several decks (Mirror) make actions of these operators.   *)
(*                                                                         *)
(* Fragments are shown by the groups that sortFragments makes: showing     *)
(* group i shows all the groups before it, so a slide keeps the number of  *)
(* its groups that are visible.                                            *)
(***************************************************************************)
EXTENDS Sections, Sequences

CONSTANTS
    StartV,         \* data-start-indexv of each column, -1 when it has none
    Given,          \* data-fragment-index of the fragments of each slide, in
                    \* document order, -1 for those that have none
    FragAuto,       \* data-autoslide on the fragments of each slide
    SlideAuto,      \* data-autoslide on each slide
    StackAuto,      \* data-autoslide on each column
    Named,          \* the slides that have an id
    SlideState,     \* data-state of each slide, "none" when it has none
    StackState      \* data-state of the section of each stack

AutoAttrs == {"none", "zero", "set"}

ASSUME DeckAssumption ==
    /\ StartV \in [Columns -> Int]
    /\ Given \in [Slides -> Seq(Nat \cup {-1})]
    /\ FragAuto \in [Slides -> AutoAttrs]
    /\ SlideAuto \in [Slides -> AutoAttrs]
    /\ StackAuto \in [Columns -> AutoAttrs]
    /\ Named \subseteq Slides
    /\ SlideState \in [Slides -> STRING]
    /\ StackState \in [Columns -> STRING]

\* The groups in which fragments are shown: those with the same index, then
\* each of those without one, numbered without gaps.
SortFragments(given) ==
    LET used == {given[i] : i \in DOMAIN given} \ {-1}
    IN  [i \in DOMAIN given |->
            IF given[i] # -1 THEN Cardinality({k \in used : k < given[i]})
            ELSE Cardinality(used) + Cardinality({j \in 1 .. i - 1 : given[j] = -1})]

\* The number of groups of each slide.
Frags == [s \in Slides |-> LET sorted == SortFragments(Given[s])
                           IN  Cardinality({sorted[i] : i \in DOMAIN sorted})]

\* An argument the caller leaves out; no index is as small.
Undefined == -1000
\* No slide, for currentSlide before the first one is shown.
NoSlide == <<-1, -1>>
\* What a deck may be configured to do.
ConfigType == [loop : BOOLEAN, rtl : BOOLEAN, history : BOOLEAN, stoppable : BOOLEAN,
               autoSlide : {"false", "zero", "set"}]
-----------------------------------------------------------------------------
(***************************************************************************)
(* What the deck is asked for.                                             *)
(***************************************************************************)
IsVertical(s) == s # NoSlide /\ IsStack(s[1])

\* Hidden and visible fragments of the current slide.
HasPrevFragment(d) == d.cur # NoSlide /\ d.shown[d.cur] > 0

\* Mutant of HasNextFragment: counts the last fragment once more.
MutHasNextFragment(d) == d.cur # NoSlide /\ d.shown[d.cur] <= Frags[d.cur]

HasNextFragment(d) == d.cur # NoSlide /\ d.shown[d.cur] < Frags[d.cur]

Routes(d) ==
    LET back == d.h > 0 \/ d.cfg.loop
        on   == d.h < Width - 1 \/ d.cfg.loop
    IN  {r \in {"left", "right", "up", "down"} :
            \/ r = "left"  /\ IF d.cfg.rtl THEN on ELSE back
            \/ r = "right" /\ IF d.cfg.rtl THEN back ELSE on
            \/ r = "up"    /\ d.v > 0
            \/ r = "down"  /\ d.v < Stack[d.h] - 1}

\* While the overview is shown the backgrounds are a sibling after the
\* last column, so no slide of that column counts as the last.
IsLastSlide(d) ==
    /\ d.cur # NoSlide
    /\ d.cur[2] = IF IsStack(d.cur[1]) THEN Stack[d.cur[1]] - 1 ELSE 0
    /\ d.cur[1] = Width - 1
    /\ ~d.overview

\* The vertical index at which a column is entered.
PreviousV(d, x) == IF ~(x \in Columns /\ IsStack(x)) THEN 0
                   ELSE IF StartV[x] >= 0 THEN StartV[x] ELSE d.prevV[x]

FragmentIndex(d) ==
    IF d.cur = NoSlide \/ Frags[d.cur] = 0 THEN Undefined
    ELSE IF d.curf >= 0 THEN d.curf ELSE d.shown[d.cur] - 1

GetState(d) == [indexh |-> d.h, indexv |-> d.v, indexf |-> FragmentIndex(d),
                paused |-> d.paused, overview |-> d.overview]
\* What setState takes.
StateType == [indexh : Int, indexv : Int, indexf : Int, paused : BOOLEAN, overview : BOOLEAN]

\* Slides are counted in document order up to the first one that is marked
\* as present, or to the end of the column that is.
Marked(d, s) == IF IsStack(s[1]) THEN d.vcls[s] = "present" ELSE d.hcls[s[1]] = "present"
PastCount(d) ==
    Cardinality({s \in Slides :
        /\ \A t \in Slides : (t = s \/ Before(t, s)) => ~Marked(d, t)
        /\ \A x \in Columns : x < s[1] => d.hcls[x] # "present"})

\* The arrows that updateControls enables.
EnabledControls(d) ==
    LET routes == Routes(d)
        vertical == IsVertical(d.cur)
        shows(r) == \/ r \in routes
                    \/ r = "prev" /\ routes \cap {"left", "up"} # {}
                    \/ r = "next" /\ routes \cap {"right", "down"} # {}
                    \/ HasPrevFragment(d) /\ r \in {"prev", IF vertical THEN "up" ELSE "left"}
                    \/ HasNextFragment(d) /\ r \in {"next", IF vertical THEN "down" ELSE "right"}
    IN  {r \in {"left", "right", "up", "down", "prev", "next"} : shows(r)}

UpdateControls(d) == [d EXCEPT !.controls = EnabledControls(d)]
UpdateProgress(d) ==
    [d EXCEPT !.progress = <<PastCount(d), IF d.cur = NoSlide THEN 0 ELSE d.shown[d.cur]>>]

\* The number and the notes shown beside the slide.
UpdateSlideNumber(d) == [d EXCEPT !.number = <<PastCount(d) + 1, d.h, d.v>>]
UpdateNotes(d) == [d EXCEPT !.noted = d.cur]

\* The listeners of an event read the state at the moment it is sent.
Dispatch(d, type) == [d EXCEPT !.out = Append(@, [type |-> type, state |-> GetState(d)])]
-----------------------------------------------------------------------------
(***************************************************************************)
(* Auto-sliding.  Of a delay only whether it is zero matters here.         *)
(***************************************************************************)
AutoDelay(d) ==
    LET s == d.cur
        given == IF Frags[s] > 0 /\ FragAuto[s] # "none" THEN FragAuto[s]
                 ELSE IF SlideAuto[s] # "none" THEN SlideAuto[s]
                 ELSE IF IsStack(s[1]) /\ StackAuto[s[1]] # "none" THEN StackAuto[s[1]]
                 ELSE d.cfg.autoSlide
    IN  given = "set"

MayAutoSlide(d) == /\ AutoDelay(d) /\ ~d.autoPaused /\ ~d.paused /\ ~d.overview
                   /\ ~IsLastSlide(d) \/ HasNextFragment(d) \/ d.cfg.loop

CancelAutoSlide(d) == [d EXCEPT !.timer = FALSE]

CueAutoSlide(d) ==
    IF d.cur = NoSlide \/ d.cfg.autoSlide = "false" THEN CancelAutoSlide(d)
    ELSE [d EXCEPT !.auto = AutoDelay(d), !.timer = MayAutoSlide(d)]

PauseAutoSlide(d) == IF d.auto /\ ~d.autoPaused
                     THEN [CancelAutoSlide(d) EXCEPT !.autoPaused = TRUE] ELSE d

ResumeAutoSlide(d) == IF d.auto /\ d.autoPaused
                      THEN CueAutoSlide([d EXCEPT !.autoPaused = FALSE]) ELSE d

ToggleAutoSlide(d, on) == IF on THEN ResumeAutoSlide(d) ELSE PauseAutoSlide(d)

OnUserInput(d) == IF d.cfg.stoppable THEN PauseAutoSlide(d) ELSE d
-----------------------------------------------------------------------------
(***************************************************************************)
(* Fragments.                                                              *)
(***************************************************************************)
\* Only the group at index is current.
ShowGroups(d, index) ==
    LET n == Frags[d.cur]
    IN  [d EXCEPT !.shown[d.cur] = IF index < 0 THEN 0 ELSE IF index >= n THEN n ELSE index + 1,
                  !.curf = IF index \in 0 .. n - 1 THEN index ELSE -1]

AnnounceFragments(old, d) ==
    IF d.shown[d.cur] = old.shown[d.cur] THEN d
    ELSE Dispatch(d, IF d.shown[d.cur] < old.shown[d.cur] THEN "fragmenthidden" ELSE "fragmentshown")

\* Mutant of NavigateFragment: the progress is not updated.
MutNavigateFragment(d, index) ==
    IF d.cur = NoSlide \/ Frags[d.cur] = 0 THEN d
    ELSE UpdateControls(AnnounceFragments(d, ShowGroups(d, index)))

\* Shows the groups up to index and hides the others.  The caller's return
\* value is Stepped(d, result).
NavigateFragment(d, index) ==
    IF d.cur = NoSlide \/ Frags[d.cur] = 0 THEN d
    ELSE UpdateProgress(UpdateControls(AnnounceFragments(d, ShowGroups(d, index))))

Stepped(d, e) == d.cur # NoSlide /\ e.shown[d.cur] # d.shown[d.cur]
NextFragment(d) == IF d.cur = NoSlide THEN d ELSE NavigateFragment(d, d.shown[d.cur])
PreviousFragment(d) == IF d.cur = NoSlide THEN d ELSE NavigateFragment(d, d.shown[d.cur] - 2)
-----------------------------------------------------------------------------
(***************************************************************************)
(* The URL.  A hash is an index pair or the name of a slide; the hash a    *)
(* user types may name a slide that does not exist.                        *)
(***************************************************************************)
IndexHash(h, v) == [kind |-> "index", at |-> <<h, v>>]
NameHash(s) == [kind |-> "name", at |-> s]
MissingHash == NameHash(NoSlide)
HashType == [kind : {"index"}, at : Int \X Int] \cup [kind : {"name"}, at : Named \cup {NoSlide}]

CONSTANT MaxEvents      \* hashchange events counted as waiting

ASSUME MaxEventsAssumption == MaxEvents \in Nat \ {0}

\* Changing the hash makes the browser queue a hashchange event.
SetHash(d, hash) ==
    IF d.hash = hash THEN d
    ELSE [d EXCEPT !.hash = hash, !.events = IF @ < MaxEvents THEN @ + 1 ELSE @]

WriteURL(d) ==
    IF ~d.cfg.history \/ d.cur = NoSlide THEN d
    ELSE SetHash(d, IF d.cur \in Named THEN NameHash(d.cur) ELSE IndexHash(d.h, d.v))
-----------------------------------------------------------------------------
(***************************************************************************)
(* slide() and what it calls.                                              *)
(***************************************************************************)
Bounded(d, i, n) == IF n = 0 THEN 0
                    ELSE IF d.cfg.loop THEN i % n
                    ELSE IF i < 0 THEN 0 ELSE IF i >= n THEN n - 1 ELSE i

Side(i, at, reverse) == IF i = at THEN "present"
                        ELSE IF (i < at) # reverse THEN "past" ELSE "future"

\* Mutant of UpdateSlides: fragments of later slides are left as they are.
MutUpdateSlides(d, h, v) ==
    LET x == Bounded(d, h, Width)
        y == Bounded(d, v, Stack[x])
    IN  [d EXCEPT
            !.h = x, !.v = y,
            !.hcls = [c \in Columns |-> Side(c, x, d.cfg.rtl)],
            !.vcls = [s \in Children |-> IF s[1] = x THEN Side(s[2], y, FALSE) ELSE d.vcls[s]],
            !.shown = [s \in Slides |-> IF Before(s, <<x, y>>) THEN Frags[s] ELSE d.shown[s]],
            !.curf = IF <<x, y>> = d.cur THEN d.curf ELSE -1]

\* updateSlides for the columns and then for the slides of the new column:
\* classes, and every fragment before the new slide shown, every one after
\* it hidden.
UpdateSlides(d, h, v) ==
    LET x == Bounded(d, h, Width)
        y == Bounded(d, v, Stack[x])
    IN  [d EXCEPT
            !.h = x, !.v = y,
            !.hcls = [c \in Columns |-> Side(c, x, d.cfg.rtl)],
            !.vcls = [s \in Children |-> IF s[1] = x THEN Side(s[2], y, FALSE) ELSE d.vcls[s]],
            !.shown = [s \in Slides |-> IF Before(s, <<x, y>>) THEN Frags[s]
                                        ELSE IF s = <<x, y>> THEN d.shown[s] ELSE 0],
            !.curf = IF <<x, y>> = d.cur THEN d.curf ELSE -1]

\* The states of the deck are those of the new stack and slide, in order.
\* The document gets a class for a state that is new and loses the class of
\* one that is over; a state is matched with one earlier occurrence of it.
NewStates(d) ==
    LET stack == IF IsStack(d.h) /\ StackState[d.h] # "none" THEN <<StackState[d.h]>> ELSE <<>>
        own   == SlideState[<<d.h, d.v>>]
    IN  IF own = "none" THEN stack ELSE Append(stack, own)

ApplyStates(d) ==
    LET states == NewStates(d)
        count(q, n) == Cardinality({i \in DOMAIN q : q[i] = n})
        names == d.classes \cup {states[i] : i \in DOMAIN states}
    IN  [d EXCEPT !.state = states,
                  !.classes = {n \in names : \/ count(states, n) > count(d.state, n)
                                             \/ n \in d.classes /\ count(states, n) = count(d.state, n)}]

\* Mutant of LeaveSlide: the slide keeps its class.
MutLeaveSlide(d, old) ==
    IF old = NoSlide THEN d ELSE [d EXCEPT !.homing = @ \/ d.hcls[0] = "present"]

\* The slide that was left loses its present class; arriving at the first
\* column queues the reset of what the stacks remember.
LeaveSlide(d, old) ==
    IF old = NoSlide THEN d
    ELSE [d EXCEPT !.vcls = [s \in Children |-> IF s = old /\ @[s] = "present"
                                                THEN "none" ELSE @[s]],
                   !.homing = @ \/ d.hcls[0] = "present"]

\* The vertical slide of the stack that is left is remembered in it.
SetPreviousV(d) == IF IsVertical(d.cur) THEN [d EXCEPT !.prevV[d.cur[1]] = d.v] ELSE d

AtSlide(d) == [d EXCEPT !.cur = <<d.h, d.v>>]

\* Only a slide with other indices is announced, and the old one left.
SlideChanged(old, d) ==
    IF d.h = old.h /\ d.v = old.v THEN d ELSE LeaveSlide(Dispatch(d, "slidechanged"), old.cur)

Slide(d, h, v, f) ==
    LET to == IF v = Undefined /\ ~d.overview THEN PreviousV(d, h) ELSE v
        there == AtSlide(ApplyStates(UpdateSlides(SetPreviousV(d),
                                                  IF h = Undefined THEN d.h ELSE h,
                                                  IF to = Undefined THEN d.v ELSE to)))
        changed == SlideChanged(d, IF f = Undefined THEN there ELSE NavigateFragment(there, f))
    IN  CueAutoSlide(WriteURL(UpdateNotes(UpdateSlideNumber(UpdateProgress(UpdateControls(changed))))))

\* Mutant of ReadURL: a name that no slide has is left alone.
MutReadURL(d) ==
    IF d.hash.kind = "name"
    THEN IF d.hash.at = NoSlide THEN d
         ELSE Slide(d, d.hash.at[1],
                    IF IsStack(d.hash.at[1]) THEN d.hash.at[2] ELSE Undefined, Undefined)
    ELSE IF d.cur = NoSlide \/ d.hash.at # <<d.h, d.v>>
         THEN Slide(d, d.hash.at[1], d.hash.at[2], Undefined) ELSE d

\* A name that no slide has keeps the slide and rewrites the hash.
ReadURL(d) ==
    IF d.hash.kind = "name"
    THEN IF d.hash.at = NoSlide THEN Slide(d, d.h, d.v, Undefined)
         ELSE Slide(d, d.hash.at[1],
                    IF IsStack(d.hash.at[1]) THEN d.hash.at[2] ELSE Undefined, Undefined)
    ELSE IF d.cur = NoSlide \/ d.hash.at # <<d.h, d.v>>
         THEN Slide(d, d.hash.at[1], d.hash.at[2], Undefined) ELSE d

\* The task queued on the way home.
ResetStacks(d) == [d EXCEPT !.prevV = [x \in Columns |-> 0], !.homing = FALSE]
-----------------------------------------------------------------------------
(***************************************************************************)
(* The overview and the pause.                                             *)
(***************************************************************************)
\* Mutant of ActivateOverview: the auto-slide goes on.
MutActivateOverview(d) ==
    IF d.overview THEN d ELSE Dispatch([d EXCEPT !.overview = TRUE], "overviewshown")

ActivateOverview(d) ==
    IF d.overview THEN d
    ELSE Dispatch(CancelAutoSlide([d EXCEPT !.overview = TRUE]), "overviewshown")

\* Not conditional on the overview being shown.
DeactivateOverview(d) ==
    Dispatch(CueAutoSlide(Slide([d EXCEPT !.overview = FALSE], d.h, d.v, Undefined)),
             "overviewhidden")

ToggleOverview(d, on) == IF on THEN ActivateOverview(d) ELSE DeactivateOverview(d)

Pause(d) == LET p == CancelAutoSlide([d EXCEPT !.paused = TRUE])
            IN  IF d.paused THEN p ELSE Dispatch(p, "paused")
Resume(d) == LET r == CueAutoSlide([d EXCEPT !.paused = FALSE])
             IN  IF d.paused THEN Dispatch(r, "resumed") ELSE r
TogglePause(d, on) == IF on THEN Pause(d) ELSE Resume(d)

SetPaused(d, on) == IF on # d.paused THEN TogglePause(d, on) ELSE d
SetOverview(d, on) == IF on # d.overview THEN ToggleOverview(d, on) ELSE d
\* setState with a state whose overview was taken out, and with a whole one.
SetPosition(d, s) == SetPaused(Slide(d, s.indexh, s.indexv, s.indexf), s.paused)
SetState(d, s) == SetOverview(SetPosition(d, s), s.overview)
-----------------------------------------------------------------------------
(***************************************************************************)
(* Navigation.  Fragments come first, unless the overview is shown.        *)
(***************************************************************************)
AfterFragments(d, forward) ==
    IF d.overview THEN d ELSE IF forward THEN NextFragment(d) ELSE PreviousFragment(d)

\* e is d after its fragments: go on to a slide if none of them changed.
OrSlide(d, e, route, h, v) ==
    IF Stepped(d, e) \/ route \notin Routes(e) THEN e ELSE Slide(e, h, v, Undefined)

NavigateLeft(d) == OrSlide(d, AfterFragments(d, d.cfg.rtl), "left",
                           IF d.cfg.rtl THEN d.h + 1 ELSE d.h - 1, Undefined)
NavigateRight(d) == OrSlide(d, AfterFragments(d, ~d.cfg.rtl), "right",
                            IF d.cfg.rtl THEN d.h - 1 ELSE d.h + 1, Undefined)
NavigateUp(d) == OrSlide(d, AfterFragments(d, FALSE), "up", d.h, d.v - 1)
NavigateDown(d) == OrSlide(d, AfterFragments(d, TRUE), "down", d.h, d.v + 1)

\* The columns marked as past.
PassedColumns(d) == {x \in Columns : d.hcls[x] = IF d.cfg.rtl THEN "future" ELSE "past"}

\* Mutant of LastOf: a stack is entered at its first slide.
MutLastOf(passed) == 0

\* Backwards, the last slide of the last of those columns.  One child gives
\* the vertical index 0, which counts as left out.
LastOf(passed) ==
    LET last == CHOOSE x \in passed : \A y \in passed : y <= x
    IN  IF Stack[last] = 1 THEN Undefined ELSE Stack[last] - 1

PrevSlide(d, e) ==
    IF Stepped(d, e) THEN e
    ELSE IF "up" \in Routes(e) THEN NavigateUp(e)
    ELSE IF PassedColumns(e) = {} THEN e
    ELSE Slide(e, e.h - 1, LastOf(PassedColumns(e)), Undefined)

NextSlide(d, e) ==
    IF Stepped(d, e) THEN e
    ELSE IF "down" \in Routes(e) THEN NavigateDown(e)
    ELSE IF d.cfg.rtl THEN NavigateLeft(e) ELSE NavigateRight(e)

NavigatePrev(d) == PrevSlide(d, PreviousFragment(d))
NavigateNext(d) == NextSlide(d, NextFragment(d))
-----------------------------------------------------------------------------
(***************************************************************************)
(* Configuration.  sync() runs at the end of every configure().            *)
(***************************************************************************)
Sync(d) ==
    LET cued == CueAutoSlide([d EXCEPT !.auto = d.cfg.autoSlide = "set"])
    IN  UpdateNotes(UpdateSlideNumber(UpdateProgress(UpdateControls(WriteURL(cued)))))

\* The player that shows the auto-slide progress is made anew, and with it
\* the user's pause of the auto-slide is forgotten.
Configure(d, cfg) ==
    LET player == /\ Cardinality(Slides) > 1
                  /\ cfg.autoSlide = "set" /\ cfg.stoppable
    IN  Sync([d EXCEPT !.cfg = cfg, !.player = player,
                       !.autoPaused = IF player THEN FALSE ELSE @])

\* Of each stack only the first slide is not marked as coming later.
ResetVerticalSlides == [s \in Children |-> IF s[2] = 0 THEN "none" ELSE "future"]

\* The deck as start() finds it, and as it leaves it.
FreshDeck(cfg, hash) ==
    [cfg |-> cfg, h |-> 0, v |-> 0, cur |-> NoSlide,
     prevV |-> [x \in Columns |-> 0],
     hcls |-> [x \in Columns |-> "none"],
     vcls |-> ResetVerticalSlides,
     shown |-> [s \in Slides |-> 0], curf |-> -1,
     overview |-> FALSE, paused |-> FALSE, homing |-> FALSE,
     auto |-> FALSE, autoPaused |-> FALSE, timer |-> FALSE, player |-> FALSE,
     state |-> <<>>, classes |-> {}, hash |-> hash, events |-> 0, controls |-> {},
     progress |-> <<0, 0>>, number |-> <<0, 0, 0>>, noted |-> NoSlide, out |-> <<>>]

Start(cfg, hash) == [ReadURL(Configure(FreshDeck(cfg, hash), cfg)) EXCEPT !.out = <<>>]
=============================================================================
