-------------------------------- MODULE Page --------------------------------
(***************************************************************************)
(* What a visitor of a started reveal.js page opens on top of the slides:  *)
(* the overlays (link preview and help), the player that paints the        *)
(* auto-slide progress, and the search and zoom plugins.  Each keeps its   *)
(* own state and its own timers; they meet in the Escape key, in the       *)
(* overview and in the slide that is shown.                                *)
(***************************************************************************)
EXTENDS Loader

CONSTANTS
    Words,          \* what may be searched for
    Matches,        \* the slides that hold a word, in document order
    Shown,          \* the slides, as numbers
    MaxFrames       \* animation frames and overlay timers counted as waiting

\* The text of an empty search box.
Blank == ""

ASSUME PageAssumption ==
    /\ Shown \subseteq Nat /\ \E s \in Shown : \A t \in Shown : s =< t
    /\ Blank \notin Words /\ Matches \in [Words -> Seq(Shown)]
    /\ MaxFrames \in Nat \ {0, 1}

VARIABLES
    slide,          \* the one that is shown
    overview,
    overlay,        \* "none", "preview" or "help"
    visible,        \* the overlay has its visible class
    overlayTimers,  \* the timers that will give it to the overlay there is
    playing,        \* of the player
    frames,         \* animation frames it has asked for
    oldFrames,      \* and those the players before it have
    box,            \* the text in the search box
    searchboxDirty,
    matchedSlides,
    currentMatchedIndex,
    highlighted,    \* words are marked in the slides
    level,          \* of the zoom
    pan             \* "off", "waiting" for its delay, or "on"

searchVars == <<box, searchboxDirty, matchedSlides, currentMatchedIndex, highlighted>>
overlayVars == <<overlay, visible, overlayTimers>>
playerVars == <<playing, frames, oldFrames>>
zoomVars == <<level, pan>>
pageVars == <<slide, overview, overlayVars, playerVars, searchVars, zoomVars>>
vars == <<loaderVars, pageVars>>

PageInit ==
    /\ slide = Min(Shown) /\ overview = FALSE
    /\ overlay = "none" /\ visible = FALSE /\ overlayTimers = 0
    /\ playing = FALSE /\ frames = 0 /\ oldFrames = 0
    /\ box = Blank /\ searchboxDirty = FALSE
    /\ matchedSlides = <<>> /\ currentMatchedIndex = 0 /\ highlighted = FALSE
    /\ level = 1 /\ pan = "off"
-----------------------------------------------------------------------------
(***************************************************************************)
(* Overlays.                                                               *)
(***************************************************************************)
OnlyOverlay == UNCHANGED <<loaderVars, slide, overview, playerVars, searchVars, zoomVars>>

\* showPreview and showHelp: the overlay that was open is closed, and a
\* timer of 1 ms makes visible whatever overlay is open then.
Open(kind) == /\ overlayTimers < MaxFrames
              /\ overlay' = kind /\ visible' = FALSE /\ overlayTimers' = overlayTimers + 1
CloseOverlay == overlay' = "none" /\ visible' = FALSE /\ UNCHANGED overlayTimers

LinkClick == Open("preview") /\ OnlyOverlay
\* The question mark and the toggleHelp of the Reveal object.
ToggleHelp == /\ IF overlay = "none" THEN Open("help") ELSE CloseOverlay
              /\ OnlyOverlay
CloseClick == overlay # "none" /\ CloseOverlay /\ OnlyOverlay

\* Without an overlay the function throws, and nothing changes.
OverlayTimer == /\ overlayTimers > 0 /\ overlayTimers' = overlayTimers - 1
                /\ visible' = (overlay # "none") /\ UNCHANGED overlay /\ OnlyOverlay

\* Escape or o closes the overlay, or opens and closes the overview.
EscapeDown ==
    /\ keys
    /\ IF overlay # "none" THEN CloseOverlay /\ UNCHANGED overview
       ELSE overview' = ~overview /\ UNCHANGED overlayVars
    /\ UNCHANGED <<loaderVars, slide, playerVars, searchVars, zoomVars>>

Overlays == LinkClick \/ ToggleHelp \/ CloseClick \/ OverlayTimer \/ EscapeDown
-----------------------------------------------------------------------------
(***************************************************************************)
(* The player.                                                             *)
(***************************************************************************)
OnlyPlayer == UNCHANGED <<loaderVars, slide, overview, overlayVars, searchVars, zoomVars>>

\* animate() paints, and asks for the next frame while playing.
Animate(on, n) == frames' = IF on THEN n + 1 ELSE n

\* cueAutoSlide and pauseAutoSlide tell the player; only a player that was
\* not playing starts to animate.
SetPlaying(value) ==
    /\ frames < MaxFrames /\ playing' = value
    /\ IF value /\ ~playing THEN Animate(TRUE, frames) ELSE UNCHANGED frames
    /\ UNCHANGED oldFrames /\ OnlyPlayer

Frame == /\ frames > 0 /\ Animate(playing, frames - 1)
         /\ UNCHANGED <<playing, oldFrames>> /\ OnlyPlayer

\* configure() destroys the player, whose frames still come, and makes
\* another, that cueAutoSlide tells to play or not.
NewPlayer(value) ==
    /\ frames + oldFrames < MaxFrames
    /\ oldFrames' = oldFrames + frames
    /\ playing' = value /\ frames' = (IF value THEN 1 ELSE 0) /\ OnlyPlayer

OldFrame == /\ oldFrames > 0 /\ oldFrames' = oldFrames - 1
            /\ UNCHANGED <<playing, frames>> /\ OnlyPlayer

Player == \/ Frame \/ OldFrame
          \/ \E value \in BOOLEAN : SetPlaying(value) \/ NewPlayer(value)
-----------------------------------------------------------------------------
(***************************************************************************)
(* The search plugin.  Only a key in the box says that its text changed.   *)
(***************************************************************************)
OnlySearch == UNCHANGED <<loaderVars, overview, overlayVars, playerVars, zoomVars>>

TypeWord(w) ==
    /\ box' = w /\ searchboxDirty' = TRUE
    /\ UNCHANGED <<slide, matchedSlides, currentMatchedIndex, highlighted>>
    /\ OnlySearch
\* Pasted with the mouse, or cleared with the cross of the box.
PasteWord(w) ==
    /\ box # w /\ box' = w
    /\ UNCHANGED <<slide, searchboxDirty, matchedSlides, currentMatchedIndex, highlighted>>
    /\ OnlySearch

\* The matches found, the place among them, and whether words are marked.
Found(w) == IF w = Blank THEN <<>> ELSE Matches[w]

\* Mutant of Wrapped: takes the last match for one too many.
MutWrapped(found, from) == IF Len(found) <= from + 1 THEN 0 ELSE from

\* After the last match comes the first.
Wrapped(found, from) == IF Len(found) <= from THEN 0 ELSE from

DoSearch ==
    LET again == searchboxDirty
        found == IF again THEN Found(box) ELSE matchedSlides
        from  == IF again /\ box # Blank THEN 0 ELSE currentMatchedIndex
        at    == Wrapped(found, from)
    IN  /\ matchedSlides' = found
        /\ highlighted' = IF ~again THEN highlighted ELSE found # <<>>
        /\ IF found = <<>> THEN currentMatchedIndex' = from /\ UNCHANGED slide
           ELSE currentMatchedIndex' = at + 1 /\ slide' = found[at + 1]
        /\ UNCHANGED box /\ OnlySearch

\* The Return key takes the change as searched, the icon does not.
EnterKey == DoSearch /\ searchboxDirty' = FALSE
IconClick == DoSearch /\ UNCHANGED searchboxDirty

CloseSearch == /\ highlighted' = FALSE
               /\ UNCHANGED <<slide, box, searchboxDirty, matchedSlides,
                              currentMatchedIndex>>
               /\ OnlySearch

\* The deck moves for another reason.
Navigate(s) == /\ slide' = s
               /\ UNCHANGED searchVars /\ OnlySearch

Search == \/ EnterKey \/ IconClick \/ CloseSearch
          \/ \E w \in Words \cup {Blank} : TypeWord(w) \/ PasteWord(w)
          \/ \E s \in Shown : Navigate(s)
-----------------------------------------------------------------------------
(***************************************************************************)
(* The zoom plugin.                                                        *)
(***************************************************************************)
OnlyZoom == UNCHANGED <<loaderVars, slide, overview, overlayVars, playerVars, searchVars>>

\* Mutant of Out: the delay of the panning goes on.
MutOut == level' = 1 /\ UNCHANGED pan

\* out() stops the delay and the panning.
Out == level' = 1 /\ pan' = "off"

\* to(): a page that is zoomed is zoomed out, whatever was asked for.
To(scale, panning) ==
    IF level # 1 THEN Out
    ELSE IF scale > 1 THEN level' = scale /\ pan' = IF panning THEN "waiting" ELSE pan
    ELSE UNCHANGED zoomVars

\* A click with the modifier, and a script that zooms.
ZoomClick == ~overview /\ To(2, FALSE) /\ OnlyZoom
ZoomTo(scale) == To(scale, TRUE) /\ OnlyZoom
\* After 800 ms.
EngagePan == pan = "waiting" /\ pan' = "on" /\ UNCHANGED level /\ OnlyZoom
EscapeUp == level # 1 /\ Out /\ OnlyZoom

Zoom == \/ ZoomClick \/ EngagePan \/ EscapeUp
        \/ \E scale \in {1, 2} : ZoomTo(scale)

Using == loaded /\ (Overlays \/ Player \/ Search \/ Zoom)

PageNext == (Loading /\ UNCHANGED pageVars) \/ Using
PageSpec == Init /\ PageInit /\ [][PageNext]_vars
-----------------------------------------------------------------------------
\* Every widget keeps its type.
WidgetsOK ==
    /\ slide \in Shown /\ overlay \in {"none", "preview", "help"}
    /\ overlayTimers \in 0 .. MaxFrames /\ frames \in 0 .. MaxFrames
    /\ oldFrames \in 0 .. MaxFrames /\ box \in Words \cup {Blank}
    /\ matchedSlides \in Seq(Shown) /\ level \in {1, 2}
    /\ pan \in {"off", "waiting", "on"}

\* The timers of the widgets are none too many and none too few, in whatever
\* order things are stopped, replaced or closed and the timers fire.  An overlay
\* that is open is visible or a timer will make it so: its own, or that of one
\* closed within the last millisecond, which acts on whichever overlay is there
\* and throws without one (reveal.js:1700, 1767).  While the player plays a frame
\* is on its way (setPlaying, animate, reveal.js:4931-4965), and the page pans
\* only while it is zoomed (zoom.js:228-247).
TimersMatch ==
    /\ WidgetsOK
    /\ overlay # "none" /\ overlayTimers = 0 => visible
    /\ visible => overlay # "none"
    /\ playing => frames > 0
    /\ pan # "off" => level # 1

\* Return goes through the matches of the word in order and from the last
\* back to the first, however the deck was moved in between (doSearch,
\* search.js:128-157).
EnterVisitsNext ==
    [][EnterKey /\ ~searchboxDirty /\ matchedSlides # <<>> =>
          LET n == Len(matchedSlides)
              here == IF currentMatchedIndex = 0 THEN n ELSE currentMatchedIndex
          IN  slide' = matchedSlides[(here % n) + 1]]_vars
=============================================================================
