------------------------------- MODULE Media --------------------------------
(***************************************************************************)
(* The embedded content of a reveal.js deck: which slides are loaded, the  *)
(* video or frame on a slide and the video in its background, when they    *)
(* start and when they stop.  The browser loads a medium in its own time   *)
(* and calls startEmbeddedMedia or startEmbeddedIframe when it is there,   *)
(* on whatever slide the deck is by then.  The way a slide is reached is   *)
(* in module Deck; here slide() goes to any slide.                         *)
(***************************************************************************)
EXTENDS Sections

CONSTANTS
    Kind,           \* of the medium on each slide: "video", "lazy" (a video
                    \* with data-src), "frame", "lazyframe" or "none"
    Autoplay,       \* the slides whose medium has data-autoplay
    Ignored,        \* the slides whose medium has data-ignore
    InFragment,     \* the slides whose medium is inside a fragment
    Filmed,         \* the slides with a background video
    ViewDistance,   \* config.viewDistance
    OverviewDistance

ASSUME MediaAssumption ==
    /\ Kind \in [Slides -> {"video", "lazy", "frame", "lazyframe", "none"}]
    /\ Autoplay \cup Ignored \cup InFragment \cup Filmed \subseteq Slides
    /\ ViewDistance \in Nat \ {0} /\ OverviewDistance \in Nat \ {0}

VARIABLES
    loop,           \* config.loop
    cur,            \* the current slide
    prevV,          \* data-previous-indexv of each column
    homing,         \* the reset of prevV is queued
    inOverview,
    global,         \* config.autoPlayMedia: "null", "true" or "false"
    near,           \* the slides that are displayed
    fragment,       \* the slides whose fragment with the medium is visible
    medium          \* of each slide and each background

mediaVars == <<loop, cur, prevV, homing, inOverview, global, near, fragment, medium>>

OnSlide == {"slide"} \X Slides
Behind == {"background"} \X Filmed
Media == OnSlide \cup Behind
KindOf(e) == IF e \in Behind THEN "video" ELSE Kind[e[2]]
Videos == {e \in Media : KindOf(e) \in {"video", "lazy"}}
Frames == {e \in Media : KindOf(e) \in {"frame", "lazyframe"}}

\* src: has its source; data: what has come of it; waiting: its load event
\* has the start function as listener; playing: was told to play last.
MediumState == [src : BOOLEAN, data : {"none", "loading", "ready"},
                waiting : BOOLEAN, playing : BOOLEAN]
Absent == [src |-> FALSE, data |-> "none", waiting |-> FALSE, playing |-> FALSE]

\* Every variable keeps its type.
MediaTypeOK == /\ loop \in BOOLEAN /\ homing \in BOOLEAN /\ cur \in Slides /\ prevV \in [Columns -> Nat]
               /\ inOverview \in BOOLEAN /\ global \in {"null", "true", "false"}
               /\ near \subseteq Slides /\ fragment \subseteq InFragment
               /\ medium \in [Media -> MediumState]
-----------------------------------------------------------------------------
Abs(n) == IF n < 0 THEN -n ELSE n

\* updateSlidesVisibility: columns count from the current one, the slides of
\* a stack from where it is or was last shown.
View(over) == IF over THEN OverviewDistance ELSE ViewDistance
ColumnDistance(x, at, over) ==
    LET apart == Abs(at[1] - x)
        wrap  == Abs(Width - View(over))
    IN  IF ~loop THEN apart ELSE IF wrap = 0 THEN 0 ELSE apart % wrap
Distance(s, at, pv, over) ==
    ColumnDistance(s[1], at, over)
    + (IF ~IsStack(s[1]) THEN 0 ELSE Abs(s[2] - IF s[1] = at[1] THEN at[2] ELSE pv[s[1]]))
Near(at, pv, over) == {s \in Slides : Distance(s, at, pv, over) < View(over)}
NearColumns(at, over) == {x \in Columns : ColumnDistance(x, at, over) < View(over)}

\* loadSlide gives a lazy video its source, which starts it anew, and a
\* background its video; unloadSlide takes the source of a lazy video away,
\* but not its data.  The section of a stack is loaded before its slides are
\* loaded or unloaded, so the far videos of a near stack are loaded for a
\* moment.
LoadSlides(m, close, columns) ==
    [e \in Media |->
        IF e \in Behind
        THEN IF e[2] \in close /\ ~m[e].src THEN [m[e] EXCEPT !.src = TRUE, !.data = "loading"]
             ELSE m[e]
        ELSE IF KindOf(e) # "lazy" THEN m[e]
        ELSE LET loads == ~m[e].src /\ e[2][1] \in columns
             IN  [m[e] EXCEPT
                    !.src = e[2] \in close,
                    !.data = IF ~loads THEN @ ELSE IF e[2] \in close THEN "loading" ELSE "none",
                    !.playing = @ /\ ~loads]]

\* closestParent( '.present' ) finds the section of a stack as well as that
\* of a slide.
Visible(e, at) == e[2][1] = at[1]

PlaysByItself(e, g) == IF g = "null" THEN e \in Behind \/ e[2] \in Autoplay ELSE g = "true"
Hidden(e, frags) == e \in OnSlide /\ e[2] \in InFragment \ frags

\* startEmbeddedContent on the media es, when the deck is at the slide at.
StartContent(m, es, at, g, frags) ==
    [e \in Media |->
        IF e \notin es \/ Hidden(e, frags) THEN m[e]
        ELSE IF e \in Videos
        THEN IF ~PlaysByItself(e, g) THEN m[e]
             ELSE IF m[e].data # "ready" THEN [m[e] EXCEPT !.waiting = TRUE]
             ELSE [m[e] EXCEPT !.playing = @ \/ Visible(e, at), !.waiting = FALSE]
        ELSE IF e \notin Frames THEN m[e]
        ELSE IF m[e].src THEN [m[e] EXCEPT !.playing = @ \/ Visible(e, at)]
        ELSE [m[e] EXCEPT !.src = TRUE, !.data = "loading", !.waiting = TRUE]]

\* Mutant of StopContent: every lazy frame keeps its page.
MutStopContent(m, es, unload) ==
    [e \in Media |->
        IF e \notin es THEN m[e]
        ELSE IF e \in Videos
        THEN IF e[2] \in Ignored /\ e \in OnSlide THEN m[e] ELSE [m[e] EXCEPT !.playing = FALSE]
        ELSE IF e \notin Frames THEN m[e]
        ELSE [m[e] EXCEPT !.playing = FALSE, !.waiting = FALSE]]

\* stopEmbeddedContent: a video is paused but keeps its listener, a frame
\* loses it, and a lazy frame is unloaded unless the caller keeps it.
StopContent(m, es, unload) ==
    [e \in Media |->
        IF e \notin es THEN m[e]
        ELSE IF e \in Videos
        THEN IF e[2] \in Ignored /\ e \in OnSlide THEN m[e] ELSE [m[e] EXCEPT !.playing = FALSE]
        ELSE IF e \notin Frames THEN m[e]
        ELSE IF KindOf(e) = "lazyframe" /\ unload THEN Absent
        ELSE [m[e] EXCEPT !.playing = FALSE, !.waiting = FALSE]]

SlideMedium(s) == {<<"slide", s>>}
Background(s) == {<<"background", s>>} \cap Behind

\* Mutant of UpdateBackground: starts the new one before it stops the old one.
MutUpdateBackground(m, from, at, g, frags) ==
    StopContent(StartContent(m, Background(at), at, g, frags), Background(from), TRUE)

\* updateBackground stops the previous background and starts the current
\* one, also when they are the same.
UpdateBackground(m, from, at, g, frags) ==
    StartContent(StopContent(m, Background(from), TRUE), Background(at), at, g, frags)

\* The fragments before the new slide are shown and those after it hidden.
Fragments(s, t) == {u \in InFragment : Before(u, t) \/ (u = t /\ u \in fragment)}
-----------------------------------------------------------------------------
Fresh == [e \in Media |-> IF e \in OnSlide /\ KindOf(e) \in {"video", "frame"}
                         THEN [Absent EXCEPT !.src = TRUE, !.data = "loading"] ELSE Absent]

\* start() and the first slide().
MediaInit ==
    /\ loop \in BOOLEAN /\ cur = <<0, 0>> /\ prevV = [x \in Columns |-> 0]
    /\ homing = FALSE /\ inOverview = FALSE /\ global = "null"
    /\ near = Near(cur, prevV, FALSE) /\ fragment = {}
    /\ LET loaded == LoadSlides(Fresh, near, NearColumns(cur, FALSE))
           started == StartContent(loaded, SlideMedium(cur), cur, global, {})
       IN  medium = UpdateBackground(started, cur, cur, global, {})

\* slide(), in its order: visibility, the previous slide stopped and the
\* current one started, then the backgrounds.
SlideTo(s, over) ==
    LET pv    == IF IsStack(cur[1]) THEN [prevV EXCEPT ![cur[1]] = cur[2]] ELSE prevV
        close == Near(s, pv, over)
        frags == Fragments(cur, s)
        m1    == LoadSlides(medium, close, NearColumns(s, over))
        m2    == IF s = cur THEN m1 ELSE StopContent(m1, SlideMedium(cur), TRUE)
        m3    == StartContent(m2, SlideMedium(s), s, global, frags)
    IN  /\ cur' = s /\ prevV' = pv /\ near' = close /\ fragment' = frags
        /\ medium' = UpdateBackground(m3, cur, s, global, frags)
        /\ inOverview' = over /\ homing' = (homing \/ (s # cur /\ s[1] = 0))
        /\ UNCHANGED <<loop, global>>

Slide(s) == SlideTo(s, inOverview)
DeactivateOverview == inOverview /\ SlideTo(cur, FALSE)
ActivateOverview ==
    /\ ~inOverview /\ inOverview' = TRUE
    /\ near' = Near(cur, prevV, TRUE)
    /\ medium' = LoadSlides(medium, near', NearColumns(cur, TRUE))
    /\ UNCHANGED <<loop, cur, prevV, homing, global, fragment>>

\* navigateFragment starts what it shows, and stops nothing it hides.
ShowFragment ==
    /\ cur \in InFragment \ fragment /\ fragment' = fragment \cup {cur}
    /\ medium' = StartContent(medium, SlideMedium(cur), cur, global, fragment')
    /\ UNCHANGED <<loop, cur, prevV, homing, inOverview, global, near>>
HideFragment == /\ cur \in fragment /\ fragment' = fragment \ {cur}
                /\ UNCHANGED <<loop, cur, prevV, homing, inOverview, global, near, medium>>

\* The backgrounds are made anew: their videos are gone.
CreateBackgrounds(m) == [e \in Media |-> IF e \in Behind THEN Absent ELSE m[e]]

\* sync(): the backgrounds, that are loaded again; then the content follows the
\* configuration.
Sync(g) ==
    LET close  == Near(cur, prevV, inOverview)
        loaded == LoadSlides(CreateBackgrounds(medium), close, NearColumns(cur, inOverview))
        behind == StartContent(loaded, Background(cur), cur, g, fragment)
    IN  /\ global' = g /\ near' = close
        /\ medium' = IF g = "false" THEN StopContent(behind, SlideMedium(cur), FALSE)
                     ELSE StartContent(behind, SlideMedium(cur), cur, g, fragment)
        /\ UNCHANGED <<loop, cur, prevV, homing, inOverview, fragment>>

\* The task queued on arriving at the first column.
ForgetStacks == /\ homing /\ homing' = FALSE /\ prevV' = [x \in Columns |-> 0]
                /\ UNCHANGED <<loop, cur, inOverview, global, near, fragment, medium>>

\* loadeddata of a video and load of a frame.  The listener of a video is
\* removed when it has run, that of a frame is not.
Loaded(e) ==
    /\ medium[e].data = "loading"
    /\ medium' = [medium EXCEPT
            ![e].data = "ready",
            ![e].playing = @ \/ (medium[e].waiting /\ Visible(e, cur)),
            ![e].waiting = @ /\ e \in Frames]
    /\ UNCHANGED <<loop, cur, prevV, homing, inOverview, global, near, fragment>>

MediaNext == \/ \E s \in Slides : Slide(s)
             \/ ActivateOverview \/ DeactivateOverview \/ ShowFragment \/ HideFragment
             \/ ForgetStacks
             \/ \E g \in {"null", "true", "false"} : Sync(g)
             \/ \E e \in Videos \cup Frames : Loaded(e)

MediaSpec == MediaInit /\ [][MediaNext]_mediaVars
-----------------------------------------------------------------------------
\* A medium that starts by itself on the current slide, and the background
\* video behind it, play as soon as they have loaded, in whatever order the
\* slide was reached, left, unloaded and reached again and the loading ended.
CurrentPlays ==
    \A e \in SlideMedium(cur) \cup Background(cur) :
        /\ e \in Videos /\ PlaysByItself(e, global) /\ ~Hidden(e, fragment)
        /\ medium[e].data = "ready"
        => medium[e].playing

\* Every variable keeps its type, and a lazy frame is loaded only while its
\* slide is shown: whatever page it holds is gone when the slide is left.
LazyFramesGone ==
    /\ MediaTypeOK
    /\ \A e \in Frames : KindOf(e) = "lazyframe" /\ medium[e].src => e[2] = cur

\* A video on another slide does not play: README.md:828 says that it is
\* paused automatically when the slide is left.
OnlyCurrentPlays ==
    \A e \in Videos : medium[e].playing /\ e[2] \notin Ignored => e[2] = cur
=============================================================================
