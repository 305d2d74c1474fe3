------------------------------- MODULE Reveal -------------------------------
(***************************************************************************)
(* A running reveal.js presentation: the handlers of the keyboard, touch,  *)
(* wheel, mouse and hash events, the timers, and the calls that scripts    *)
(* and other windows make of the Reveal object, each one an action on the  *)
(* deck of module Deck.  A handler runs to completion; what interleaves is *)
(* the handlers, the timers and the queued hashchange events.              *)
(***************************************************************************)
EXTENDS Deck

CONSTANTS
    Configs,        \* the configurations a deck may be started with
    Hashes,         \* the hashes a user may type
    SentStates,     \* the states another window may send
    MaxIndex        \* stands for Number.MAX_VALUE: larger than every index,
                    \* with its remainder modulo Width

ASSUME RevealAssumption ==
    /\ Configs \subseteq ConfigType
    /\ \A hash \in Hashes : hash \in HashType
    /\ \A s \in SentStates : s \in StateType
    /\ MaxIndex \in Int

VARIABLE deck

Directions == {"left", "right", "up", "down", "prev", "next"}

Init ==
    \E cfg \in Configs, hash \in Hashes \cup {IndexHash(0, 0)} : deck = Start(cfg, hash)

\* The state that the step leaves; what was sent is of no use here.
Handled(d) == deck' = [d EXCEPT !.out = <<>>]

Move(d, dir) == IF dir = "left" THEN NavigateLeft(d) ELSE IF dir = "right" THEN NavigateRight(d)
                ELSE IF dir = "up" THEN NavigateUp(d) ELSE IF dir = "down" THEN NavigateDown(d)
                ELSE IF dir = "prev" THEN NavigatePrev(d) ELSE NavigateNext(d)
-----------------------------------------------------------------------------
(***************************************************************************)
(* onDocumentKeyDown.  Every key first pauses the auto-slide; a key that   *)
(* is taken ends with cueAutoSlide.                                        *)
(***************************************************************************)
Input == OnUserInput(deck)
Taken(d) == Handled(CueAutoSlide(d))

\* A key typed into a focused element, with a modifier, or while paused,
\* and the question mark, which toggles the help.
KeyIgnored == Handled(Input)

KeyMove(dir) == ~deck.paused /\ Taken(Move(Input, dir))
KeyHome == ~deck.paused /\ Taken(Slide(Input, 0, Undefined, Undefined))
KeyEnd == ~deck.paused /\ Taken(Slide(Input, MaxIndex, Undefined, Undefined))
\* Space and Return close the overview; with shift, Space goes back.
KeySpace(shift) ==
    /\ ~deck.paused
    /\ Taken(IF deck.overview THEN DeactivateOverview(Input)
             ELSE IF shift THEN NavigatePrev(Input) ELSE NavigateNext(Input))
KeyReturn == /\ ~deck.paused
             /\ Taken(IF deck.overview THEN DeactivateOverview(Input) ELSE Input)
\* b, v, period and slash pause and resume; the semicolon can only pause.
KeyPause == Taken(TogglePause(Input, ~deck.paused))
KeySemicolon == ~deck.paused /\ Taken(TogglePause(Input, TRUE))
KeyAuto == /\ ~deck.paused
           /\ Taken(IF deck.cfg.stoppable THEN ToggleAutoSlide(Input, deck.autoPaused) ELSE Input)
\* Escape closes the preview or the help when one is open (module Page).
KeyEscape == ~deck.paused /\ \/ Taken(ToggleOverview(Input, ~deck.overview))
                             \/ Taken(Input)

Key == \/ KeyIgnored \/ KeyHome \/ KeyEnd \/ KeyReturn \/ KeyPause
       \/ KeySemicolon \/ KeyAuto \/ KeyEscape
       \/ \E shift \in BOOLEAN : KeySpace(shift)
       \/ \E dir \in Directions : KeyMove(dir)
-----------------------------------------------------------------------------
(***************************************************************************)
(* Touch: one movement does one thing, and nothing more until a finger is  *)
(* lifted.  What the touch began with, positions and fingers, is not read  *)
(* by anything else, so a whole gesture is a step.                         *)
(***************************************************************************)
Swipe(dir) == Handled(Move(Input, dir))
Pinch(on) == Handled(ToggleOverview(Input, on))
\* A movement below the threshold, or with another number of fingers.
TouchSlack == Handled(Input)

Touch == \/ TouchSlack
         \/ \E dir \in {"left", "right", "up", "down"} : Swipe(dir)
         \/ \E on \in BOOLEAN : Pinch(on)
-----------------------------------------------------------------------------
(***************************************************************************)
(* The mouse.                                                              *)
(***************************************************************************)
\* At least 600 ms after the wheel's last step, which any step may be.
Wheel(dir) == Handled(Move(deck, dir))

\* A disabled arrow gets no click.
ArrowClick(dir) == dir \in deck.controls /\ Handled(Move(Input, dir))

\* The progress bar, as the column under the mouse.
ProgressClick(x) ==
    Handled(Slide(Input, IF deck.cfg.rtl THEN Width - x ELSE x, Undefined, Undefined))

\* A slide of the overview: a column of its own has no vertical index.
OverviewClick(s) == /\ deck.overview
                    /\ Handled(Slide(DeactivateOverview(deck), s[1], s[2], Undefined))

PlayerClick ==
    /\ deck.player
    /\ Handled(IF IsLastSlide(deck) /\ ~deck.cfg.loop
               THEN ResumeAutoSlide(Slide(deck, 0, 0, Undefined))
               ELSE ToggleAutoSlide(deck, deck.autoPaused))

Mouse == \/ PlayerClick
         \/ \E dir \in {"prev", "next"} : Wheel(dir)
         \/ \E dir \in Directions : ArrowClick(dir)
         \/ \E x \in Columns : ProgressClick(x)
         \/ \E s \in Slides : OverviewClick(s)
-----------------------------------------------------------------------------
(***************************************************************************)
(* The browser: timers and the hash.                                       *)
(***************************************************************************)
AutoTimer == deck.timer /\ Handled(CueAutoSlide(NavigateNext(CancelAutoSlide(deck))))

HomeReset == deck.homing /\ Handled(ResetStacks(deck))

\* The handler reads the hash there is now, not that of the event.
HashChange ==
    deck.events > 0 /\ Handled(ReadURL([deck EXCEPT !.events = @ - 1]))

TypeHash(hash) == deck.hash # hash /\ Handled(SetHash(deck, hash))

Browser == \/ AutoTimer \/ HomeReset \/ HashChange \/ \E hash \in Hashes : TypeHash(hash)
-----------------------------------------------------------------------------
(***************************************************************************)
(* Calls of the Reveal object by scripts and, with postMessage, by other   *)
(* windows.                                                                *)
(***************************************************************************)
ApiMove(dir) == Handled(Move(deck, dir))
ApiSlide(s, f) == Handled(Slide(deck, s[1], s[2], f))
ApiPause(on) == Handled(TogglePause(deck, on))
ApiSetState(s) == Handled(SetState(deck, s))
\* Turning the auto-slide on or off.
ApiConfigure(a) == Handled(Configure(deck, [deck.cfg EXCEPT !.autoSlide = a]))

Api == \/ \E dir \in Directions : ApiMove(dir)
       \/ \E s \in Slides, f \in {Undefined, 0} : ApiSlide(s, f)
       \/ \E on \in BOOLEAN : ApiPause(on)
       \/ \E s \in SentStates : ApiSetState(s)
       \/ \E a \in {"zero", "set"} : deck.cfg.autoSlide # a /\ ApiConfigure(a)

Next == Key \/ Touch \/ Mouse \/ Browser \/ Api

Spec == Init /\ [][Next]_deck
-----------------------------------------------------------------------------
Position(d) == <<d.cur, d.shown[d.cur]>>

\* The deck keeps its type: what it shows is a slide of the presentation.
TypeOK ==
    /\ deck.cfg \in ConfigType
    /\ deck.cur = <<deck.h, deck.v>> /\ deck.cur \in Slides
    /\ deck.shown \in [Slides -> Nat] /\ deck.curf \in Int
    /\ deck.prevV \in [Columns -> Nat]
    /\ \A b \in {deck.overview, deck.paused, deck.homing, deck.auto,
                 deck.autoPaused, deck.timer, deck.player} : b \in BOOLEAN
    /\ deck.hash \in HashType /\ deck.events \in 0 .. MaxEvents

\* The deck keeps its type, and whatever way a slide was reached, it is the
\* only one marked as present, its column is the only present column, and the
\* columns before and after it are marked as past and future: a stack that was
\* left keeps no present slide (slide, reveal.js:2441).
OnePresent ==
    /\ TypeOK
    /\ deck.hcls = [x \in Columns |-> Side(x, deck.h, deck.cfg.rtl)]
    /\ {s \in Children : deck.vcls[s] = "present"} = {deck.cur} \cap Children

\* All the fragments of the slides before the current one are visible and
\* none of those after it, so that going back shows a slide complete and
\* going on shows it from its start (updateSlides, reveal.js:2650-2680).
FragmentsInOrder ==
    \A s \in Slides : /\ Before(s, deck.cur) => deck.shown[s] = Frags[s]
                      /\ Before(deck.cur, s) => deck.shown[s] = 0

\* The progress bar and the slide number count the slides before the current
\* one, the bar the fragments shown on it too, although getSlidePastCount reads
\* them from the classes that earlier calls left (reveal.js:3595-3635); and
\* the number and the notes beside the slide are those of the slide.
ProgressTrue ==
    LET before == Cardinality({s \in Slides : Before(s, deck.cur)})
    IN  /\ deck.progress = <<before, deck.shown[deck.cur]>>
        /\ deck.number = <<before + 1, deck.h, deck.v>> /\ deck.noted = deck.cur

\* An arrow that is enabled leads somewhere: what updateControls computed
\* when it was last called is still what the navigation functions do
\* (reveal.js:2922-2990).  Left to right only: the fragment arrows are not
\* reversed for right to left.  A loop enables the arrow back on the first
\* slide too, where navigatePrev finds nothing to go back to, and the only
\* column of a deck that loops has arrows to itself.
EnabledArrowsWork ==
    ~deck.overview /\ ~deck.cfg.rtl /\ (deck.cfg.loop => Width > 1) =>
        \A dir \in IF deck.cfg.loop THEN deck.controls \ {"prev"} ELSE deck.controls :
            Position(Move(deck, dir)) # Position(deck)

\* After a step back, a step forward returns to the same slide with the same
\* fragments: the vertical index a stack remembers, the fragments shown and
\* the order of the fallbacks of navigatePrev and navigateNext fit together
\* (reveal.js:4290-4345).  Not where the author or the overview chooses
\* another slide to enter a stack at: a stack with a start index is always
\* entered there, and in the overview a column at the row that was left.
PrevUndone ==
    LET p == NavigatePrev(deck)
    IN  ~deck.overview /\ StartV[deck.h] < 0 /\ Position(p) # Position(deck)
            => Position(NavigateNext(p)) = Position(deck)

\* The timer of the auto-slide runs exactly when it should.  No slide changes
\* by itself while the deck is paused, shows its overview, or was stopped by
\* the user: every way into these states cancels the timer and no other
\* handler sets it again; and while none of these holds, no handler loses the
\* timer of a slide that has a delay, until the last slide is reached
\* (reveal.js:4130-4232).
AutoSlideRuns ==
    LET stopped == deck.paused \/ deck.overview \/ deck.autoPaused
    IN  /\ deck.timer => ~stopped
        /\ deck.auto /\ ~stopped /\ ~IsLastSlide(deck) => deck.timer

\* Once the hashchange events have been handled the URL names the slide that
\* is shown, whether the user typed it or a handler wrote it, and an event
\* that comes late moves nothing (readURL, writeURL, reveal.js:3680-3770).
HashAgrees == deck.cfg.history /\ deck.events = 0 => deck.hash.at = deck.cur
=============================================================================
