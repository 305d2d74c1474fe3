----------------------------- MODULE MediaProofs -----------------------------
(***************************************************************************)
(* LazyFramesGone and CurrentPlays hold for every presentation: any row of *)
(* columns and stacks, any media on them, any view distance.               *)
(***************************************************************************)
EXTENDS Media, TLAPS

\* The parts of the invariant, of media m when the deck is at the slide at.
Typed(m) == m \in [Media -> MediumState]
Lazy(m, at) == \A e \in Frames : KindOf(e) = "lazyframe" /\ m[e].src => e[2] = at
Sourced(m, at) ==
    \A e \in SlideMedium(at) \cup Background(at) :
        (e \in Behind \/ KindOf(e) = "lazy") => m[e].src
Started(m, e, g, frags) ==
    e \in Videos /\ PlaysByItself(e, g) /\ ~Hidden(e, frags)
    => IF m[e].data = "ready" THEN m[e].playing ELSE m[e].waiting
Plays(m, at, g, frags) ==
    \A e \in SlideMedium(at) \cup Background(at) : Started(m, e, g, frags)

\* The inductive invariant.  A medium that has not loaded yet must have its
\* listener, and what is loaded lazily on the current slide must have its
\* source: otherwise opening the overview would load it anew.
IInv == /\ MediaTypeOK /\ Lazy(medium, cur) /\ Sourced(medium, cur)
        /\ Plays(medium, cur, global, fragment)
-----------------------------------------------------------------------------
(***************************************************************************)
(* Slides and media.                                                       *)
(***************************************************************************)
\* A slide is a column and a vertical index.
LEMMA SlideTyped ==
    ASSUME NEW s \in Slides
    PROVE  s[1] \in Columns /\ s[1] \in Int /\ s[2] \in Nat
<1>1. PICK x \in Columns : s \in {x} \X Heights(x)
  BY DEF Slides
<1>2. Width \in Nat /\ Stack \in [Columns -> Nat]
  BY SectionsAssumption
<1> QED
  BY <1>1, <1>2 DEF Columns, Heights, IsStack

\* What stands on a slide is no background, and its place tells which it is.
LEMMA MediaTyped ==
    /\ \A e \in OnSlide : e \notin Behind /\ e[2] \in Slides /\ e = <<"slide", e[2]>>
    /\ \A e \in Behind : e \notin OnSlide /\ e[2] \in Slides /\ e = <<"background", e[2]>>
    /\ \A e \in Frames : e \in OnSlide
    /\ \A s \in Slides : SlideMedium(s) \subseteq OnSlide /\ Background(s) \subseteq Behind
    /\ \A s \in Slides : \A e \in SlideMedium(s) \cup Background(s) : e \in Media /\ e[2] = s
  BY MediaAssumption DEF OnSlide, Behind, Media, Frames, KindOf, SlideMedium, Background

\* The current slide and its column are always near.
LEMMA CurrentNear ==
    ASSUME NEW at \in Slides, NEW pv, NEW over \in BOOLEAN, loop \in BOOLEAN
    PROVE  at \in Near(at, pv, over) /\ at[1] \in NearColumns(at, over)
<1>1. at[1] \in Columns /\ at[1] \in Int /\ at[2] \in Nat
  BY SlideTyped
<1>2. Width \in Nat
  BY SectionsAssumption
<1>3. View(over) \in Nat \ {0}
  BY MediaAssumption DEF View
<1>4. \A n \in Int : Abs(n) \in Nat
  BY DEF Abs
<1>5. Abs(at[1] - at[1]) = 0 /\ Abs(at[2] - at[2]) = 0
  BY <1>1 DEF Abs
<1>6. ColumnDistance(at[1], at, over) = 0
  <2>1. Abs(Width - View(over)) \in Nat
    BY <1>2, <1>3, <1>4
  <2>2. Abs(Width - View(over)) # 0 => 0 % Abs(Width - View(over)) = 0
    BY <2>1
  <2> QED
    BY <2>1, <2>2, <1>5 DEF ColumnDistance
<1>7. Distance(at, at, pv, over) = 0
  BY <1>5, <1>6 DEF Distance
<1> QED
  BY <1>1, <1>3, <1>6, <1>7 DEF Near, NearColumns
-----------------------------------------------------------------------------
(***************************************************************************)
(* What each function of reveal.js does to the parts.                      *)
(***************************************************************************)
\* Loading what is near and unloading the rest.
LEMMA Loads ==
    ASSUME NEW m, Typed(m), NEW close, NEW columns, NEW at \in Slides,
           at \in close, at[1] \in columns
    PROVE  LET n == LoadSlides(m, close, columns)
           IN  /\ Typed(n) /\ Sourced(n, at)
               /\ \A s : Lazy(m, s) => Lazy(n, s)
               /\ Sourced(m, at) =>
                    \A e \in SlideMedium(at) \cup Background(at) : n[e] = m[e]
<1> DEFINE n == LoadSlides(m, close, columns)
<1>1. Typed(n)
  <2>1. SUFFICES ASSUME NEW e \in Media PROVE n[e] \in MediumState
    BY <2>1 DEF Typed, LoadSlides
  <2>2. m[e] \in MediumState
    BY DEF Typed
  <2>3. CASE e \in Behind \/ KindOf(e) # "lazy"
    BY <2>2, <2>3 DEF LoadSlides, MediumState
  <2>4. CASE e \notin Behind /\ KindOf(e) = "lazy"
    <3> DEFINE loads == ~m[e].src /\ e[2][1] \in columns
               data == IF ~loads THEN m[e].data
                       ELSE IF e[2] \in close THEN "loading" ELSE "none"
               playing == m[e].playing /\ ~loads
    <3>1. n[e] = [m[e] EXCEPT !.src = e[2] \in close, !.data = data, !.playing = playing]
      BY <2>4 DEF LoadSlides
    <3>2. data \in {"none", "loading", "ready"}
      BY <2>2 DEF MediumState
    <3>3. (e[2] \in close) \in BOOLEAN /\ playing \in BOOLEAN
      OBVIOUS
    <3> HIDE DEF data, playing, n
    <3> QED
      BY <2>2, <3>1, <3>2, <3>3 DEF MediumState
  <2> QED
    BY <2>3, <2>4
<1>2. \A e \in Frames : n[e] = m[e]
  BY MediaTyped DEF LoadSlides, Frames
<1>3. Sourced(n, at)
  <2>1. SUFFICES ASSUME NEW e \in SlideMedium(at) \cup Background(at),
                        e \in Behind \/ KindOf(e) = "lazy"
                 PROVE  n[e].src
    BY DEF Sourced
  <2>2. e \in Media /\ e[2] = at /\ m[e] \in MediumState
    BY MediaTyped DEF Typed
  <2>3. CASE e \in Behind
    BY <2>2, <2>3 DEF LoadSlides, MediumState
  <2>4. CASE e \notin Behind
    <3>1. KindOf(e) = "lazy"
      BY <2>1, <2>4
    <3>2. \E x, y : n[e] = [m[e] EXCEPT !.src = (e[2] \in close), !.data = x, !.playing = y]
      BY <2>2, <2>4, <3>1 DEF LoadSlides
    <3> HIDE DEF n
    <3> QED
      BY <2>2, <3>2 DEF MediumState
  <2> QED
    BY <2>3, <2>4
<1>4. ASSUME Sourced(m, at), NEW e \in SlideMedium(at) \cup Background(at)
      PROVE  n[e] = m[e]
  <2>1. e \in Media /\ e[2] = at /\ m[e] \in MediumState
    BY MediaTyped DEF Typed
  <2>2. CASE e \in Behind
    BY <1>4, <2>1, <2>2 DEF LoadSlides, Sourced
  <2>3. CASE e \notin Behind /\ KindOf(e) # "lazy"
    BY <2>1, <2>3 DEF LoadSlides
  <2>4. CASE e \notin Behind /\ KindOf(e) = "lazy"
    <3>1. m[e].src = TRUE
      BY <1>4, <2>1, <2>4 DEF Sourced, MediumState
    <3>2. n[e] = [m[e] EXCEPT !.src = (e[2] \in close), !.data = m[e].data,
                              !.playing = (m[e].playing /\ TRUE)]
      BY <2>1, <2>4, <3>1 DEF LoadSlides
    <3>3. (m[e].playing /\ TRUE) = m[e].playing /\ (e[2] \in close) = TRUE
      BY <2>1 DEF MediumState
    <3>4. n[e] = [m[e] EXCEPT !.src = m[e].src, !.data = m[e].data, !.playing = m[e].playing]
      BY <3>1, <3>2, <3>3, <2>1
    <3> HIDE DEF n
    <3> QED
      BY <2>1, <3>4 DEF MediumState
  <2> QED
    BY <2>2, <2>3, <2>4
<1> QED
  BY <1>1, <1>2, <1>3, <1>4 DEF Lazy

\* Starting the media es of the slide at.
LEMMA Starts ==
    ASSUME NEW m, Typed(m), NEW at \in Slides, NEW g, NEW frags, NEW es,
           \A e \in es : e \in Media /\ e[2] = at
    PROVE  LET n == StartContent(m, es, at, g, frags)
           IN  /\ Typed(n)
               /\ Lazy(m, at) => Lazy(n, at)
               /\ Sourced(m, at) => Sourced(n, at)
               /\ \A e \in es : Started(n, e, g, frags)
               /\ \A e \in Media \ es : n[e] = m[e]
<1> DEFINE n == StartContent(m, es, at, g, frags)
<1>1. Typed(n)
  BY DEF Typed, StartContent, MediumState, Visible
<1>2. \A e \in Media \ es : n[e] = m[e]
  BY DEF StartContent
<1>3. \A e \in Media : m[e].src => n[e].src
  BY DEF Typed, StartContent, MediumState
<1>4. Sourced(m, at) => Sourced(n, at)
  BY <1>3, MediaTyped DEF Sourced
<1>5. Lazy(m, at) => Lazy(n, at)
  BY <1>2 DEF Lazy, Frames
<1>6. \A e \in es : Started(n, e, g, frags)
  BY DEF Typed, StartContent, MediumState, Started, Visible
<1> QED
  BY <1>1, <1>2, <1>4, <1>5, <1>6

\* Stopping the media es.
LEMMA Stops ==
    ASSUME NEW m, Typed(m), NEW es, NEW unload \in BOOLEAN
    PROVE  LET n == StopContent(m, es, unload)
           IN  /\ Typed(n)
               /\ \A s : Lazy(m, s) => Lazy(n, s)
               /\ unload => \A e \in es \cap Frames : KindOf(e) = "lazyframe" => ~n[e].src
               /\ \A s \in Slides : Sourced(m, s) => Sourced(n, s)
               /\ \A e \in Media \ es : n[e] = m[e]
<1> DEFINE n == StopContent(m, es, unload)
<1>1. Typed(n)
  BY DEF Typed, StopContent, MediumState, Absent
<1>2. \A e \in Media \ es : n[e] = m[e]
  BY DEF StopContent
<1>3. \A e \in Media : n[e].src => m[e].src
  BY DEF Typed, StopContent, MediumState, Absent
<1>4. \A e \in Media : (e \in Behind \/ KindOf(e) = "lazy") => n[e].src = m[e].src
  BY DEF Typed, StopContent, MediumState, KindOf, Videos, Frames
<1>5. unload => \A e \in es \cap Frames : KindOf(e) = "lazyframe" => ~n[e].src
  BY DEF Typed, StopContent, MediumState, Absent, Frames, Videos
<1> QED
  BY <1>1, <1>2, <1>3, <1>4, <1>5, MediaTyped DEF Lazy, Sourced, Frames

\* Changing the background from that of one slide to that of another, or
\* starting it anew.
LEMMA Updates ==
    ASSUME NEW m, Typed(m), NEW from \in Slides, NEW at \in Slides, NEW g, NEW frags
    PROVE  LET n == UpdateBackground(m, from, at, g, frags)
           IN  /\ Typed(n)
               /\ Lazy(m, at) => Lazy(n, at)
               /\ Sourced(m, at) => Sourced(n, at)
               /\ \A e \in Background(at) : Started(n, e, g, frags)
               /\ \A e \in OnSlide : n[e] = m[e]
<1> DEFINE k == StopContent(m, Background(from), TRUE)
           n == StartContent(k, Background(at), at, g, frags)
<1>1. n = UpdateBackground(m, from, at, g, frags)
  BY DEF UpdateBackground
<1>2. /\ Typed(k) /\ (Lazy(m, at) => Lazy(k, at)) /\ (Sourced(m, at) => Sourced(k, at))
      /\ \A e \in Media \ Background(from) : k[e] = m[e]
  BY Stops
<1>3. \A e \in Background(at) : e \in Media /\ e[2] = at
  BY MediaTyped
<1> HIDE DEF k
<1>4. /\ Typed(n) /\ (Lazy(k, at) => Lazy(n, at)) /\ (Sourced(k, at) => Sourced(n, at))
      /\ \A e \in Background(at) : Started(n, e, g, frags)
      /\ \A e \in Media \ Background(at) : n[e] = k[e]
  BY <1>2, <1>3, Starts
<1>5. \A e \in OnSlide : e \in Media \ Background(from) /\ e \in Media \ Background(at)
  BY MediaTyped DEF Media
<1> HIDE DEF n
<1> QED
  BY <1>1, <1>2, <1>4, <1>5

\* Whether a medium is started depends on its own state only.
LEMMA StartedSame ==
    ASSUME NEW m, NEW n, NEW e, n[e] = m[e], NEW g, NEW frags, Started(m, e, g, frags)
    PROVE  Started(n, e, g, frags)
  BY DEF Started
-----------------------------------------------------------------------------
(***************************************************************************)
(* The initial state and the steps.                                        *)
(***************************************************************************)
\* A presentation has a first slide.
LEMMA FirstSlide == <<0, 0>> \in Slides
<1>1. 0 \in Columns /\ Stack[0] \in Nat
  BY SectionsAssumption DEF Columns
<1>2. 0 \in Heights(0)
  BY <1>1 DEF Heights, IsStack
<1> QED
  BY <1>1, <1>2 DEF Slides

\* start() loads and starts the first slide as slide() would.
LEMMA StartsSound == MediaInit => IInv
<1> SUFFICES ASSUME MediaInit PROVE IInv
  OBVIOUS
<1> DEFINE loaded == LoadSlides(Fresh, near, NearColumns(cur, FALSE))
           started == StartContent(loaded, SlideMedium(cur), cur, global, {})
<1>1. /\ loop \in BOOLEAN /\ homing \in BOOLEAN /\ cur \in Slides /\ inOverview \in BOOLEAN
      /\ prevV \in [Columns -> Nat] /\ global = "null" /\ near \subseteq Slides
      /\ fragment = {} /\ near = Near(cur, prevV, FALSE)
      /\ medium = UpdateBackground(started, cur, cur, global, {})
  BY FirstSlide DEF MediaInit, Near
<1>2. Typed(Fresh)
  BY DEF Fresh, Typed, MediumState, Absent
<1>3. Lazy(Fresh, cur)
  BY DEF Fresh, Lazy, Frames, Absent
<1>4. cur \in near /\ cur[1] \in NearColumns(cur, FALSE)
  BY <1>1, CurrentNear
<1>5. Typed(loaded) /\ Sourced(loaded, cur) /\ Lazy(loaded, cur)
  BY <1>1, <1>2, <1>3, <1>4, Loads
<1>6. \A e \in SlideMedium(cur) : e \in Media /\ e[2] = cur
  BY <1>1, MediaTyped
<1> HIDE DEF loaded
<1>7. /\ Typed(started) /\ Sourced(started, cur) /\ Lazy(started, cur)
      /\ \A e \in SlideMedium(cur) : Started(started, e, global, {})
  BY <1>1, <1>5, <1>6, Starts
<1> HIDE DEF started
<1>8. /\ Typed(medium) /\ Sourced(medium, cur) /\ Lazy(medium, cur)
      /\ \A e \in Background(cur) : Started(medium, e, global, {})
      /\ \A e \in OnSlide : medium[e] = started[e]
  BY <1>1, <1>7, Updates
<1>9. \A e \in SlideMedium(cur) : Started(medium, e, global, {})
  BY <1>1, <1>7, <1>8, MediaTyped, StartedSame
<1> QED
  BY <1>1, <1>8, <1>9 DEF IInv, MediaTypeOK, Typed, Plays

\* slide() in all its parts.
LEMMA SlideStep ==
    ASSUME IInv, NEW s \in Slides, NEW over \in BOOLEAN, SlideTo(s, over)
    PROVE  IInv'
<1> DEFINE pv    == IF IsStack(cur[1]) THEN [prevV EXCEPT ![cur[1]] = cur[2]] ELSE prevV
           close == Near(s, pv, over)
           frags == Fragments(cur, s)
           m1    == LoadSlides(medium, close, NearColumns(s, over))
           m2    == IF s = cur THEN m1 ELSE StopContent(m1, SlideMedium(cur), TRUE)
           m3    == StartContent(m2, SlideMedium(s), s, global, frags)
<1>1. /\ cur' = s /\ prevV' = pv /\ near' = close /\ fragment' = frags /\ inOverview' = over
      /\ medium' = UpdateBackground(m3, cur, s, global, frags)
      /\ homing' = (homing \/ (s # cur /\ s[1] = 0)) /\ loop' = loop /\ global' = global
  BY DEF SlideTo
<1>2. /\ loop \in BOOLEAN /\ homing \in BOOLEAN /\ cur \in Slides /\ prevV \in [Columns -> Nat]
      /\ global \in {"null", "true", "false"} /\ Typed(medium) /\ Lazy(medium, cur)
  BY DEF IInv, MediaTypeOK, Typed
<1>3. /\ pv \in [Columns -> Nat] /\ close \subseteq Slides /\ frags \subseteq InFragment
  <2>1. cur[1] \in Columns /\ cur[2] \in Nat
    BY <1>2, SlideTyped
  <2> QED
    BY <1>2, <2>1 DEF Near, Fragments
<1>4. s \in close /\ s[1] \in NearColumns(s, over)
  BY <1>2, CurrentNear
<1> HIDE DEF pv, close, frags
<1>5. Typed(m1) /\ Sourced(m1, s) /\ Lazy(m1, cur)
  BY <1>2, <1>4, Loads
<1> HIDE DEF m1
<1>6. Typed(m2) /\ Sourced(m2, s) /\ Lazy(m2, s)
  <2>1. CASE s = cur
    BY <1>5, <2>1
  <2>2. CASE s # cur
    <3>1. /\ Typed(m2) /\ Sourced(m2, s) /\ Lazy(m2, cur)
          /\ \A e \in SlideMedium(cur) \cap Frames : KindOf(e) = "lazyframe" => ~m2[e].src
      BY <1>5, <2>2, Stops
    <3>2. \A e \in Frames : e[2] = cur => e \in SlideMedium(cur)
      BY MediaTyped DEF SlideMedium
    <3> HIDE DEF m2
    <3> QED
      BY <3>1, <3>2 DEF Lazy
  <2> QED
    BY <2>1, <2>2
<1> HIDE DEF m2
<1>7. \A e \in SlideMedium(s) : e \in Media /\ e[2] = s
  BY MediaTyped
<1>8. /\ Typed(m3) /\ Sourced(m3, s) /\ Lazy(m3, s)
      /\ \A e \in SlideMedium(s) : Started(m3, e, global, frags)
  BY <1>6, <1>7, Starts
<1> HIDE DEF m3
<1> DEFINE n == UpdateBackground(m3, cur, s, global, frags)
<1>9. /\ Typed(n) /\ Sourced(n, s) /\ Lazy(n, s)
      /\ \A e \in Background(s) : Started(n, e, global, frags)
      /\ \A e \in OnSlide : n[e] = m3[e]
  BY <1>2, <1>8, Updates
<1> HIDE DEF n
<1>10. \A e \in SlideMedium(s) : Started(n, e, global, frags)
  BY <1>8, <1>9, MediaTyped, StartedSame
<1>11. Plays(n, s, global, frags)
  BY <1>9, <1>10 DEF Plays
<1>12. medium' = n
  BY <1>1 DEF n
<1>13. MediaTypeOK'
  BY <1>1, <1>2, <1>3, <1>9, <1>12 DEF MediaTypeOK, Typed
<1>14. Lazy(medium', cur') /\ Sourced(medium', cur') /\ Plays(medium', cur', global', fragment')
  BY <1>1, <1>9, <1>11, <1>12
<1> QED
  BY <1>13, <1>14 DEF IInv, Lazy, Sourced, Plays, Started, SlideMedium, Background, PlaysByItself, Hidden

\* Opening the overview loads other slides and leaves the current one alone.
LEMMA OverviewStep == ASSUME IInv, ActivateOverview PROVE IInv'
<1> DEFINE close == Near(cur, prevV, TRUE)
           n == LoadSlides(medium, close, NearColumns(cur, TRUE))
<1>1. /\ near' = close /\ medium' = n /\ inOverview' = TRUE
      /\ loop' = loop /\ cur' = cur /\ prevV' = prevV /\ homing' = homing
      /\ global' = global /\ fragment' = fragment
  BY DEF ActivateOverview
<1>2. MediaTypeOK /\ Typed(medium) /\ cur \in Slides /\ loop \in BOOLEAN
  BY DEF IInv, MediaTypeOK, Typed
<1>3. cur \in close /\ cur[1] \in NearColumns(cur, TRUE) /\ close \subseteq Slides
  BY <1>2, CurrentNear DEF Near
<1> HIDE DEF close
<1>4. /\ Typed(n) /\ Sourced(n, cur) /\ Lazy(n, cur)
      /\ \A e \in SlideMedium(cur) \cup Background(cur) : n[e] = medium[e]
  BY <1>2, <1>3, Loads DEF IInv
<1> HIDE DEF n
<1>5. Plays(n, cur, global, fragment)
  BY <1>4, StartedSame DEF IInv, Plays
<1>6. MediaTypeOK'
  BY <1>1, <1>2, <1>3, <1>4 DEF MediaTypeOK, Typed
<1> QED
  BY <1>1, <1>4, <1>5, <1>6
     DEF IInv, Lazy, Sourced, Plays, Started, SlideMedium, Background, PlaysByItself, Hidden

\* Showing a fragment starts the medium in it.
LEMMA ShowStep == ASSUME IInv, ShowFragment PROVE IInv'
<1> DEFINE frags == fragment \cup {cur}
           n == StartContent(medium, SlideMedium(cur), cur, global, frags)
<1>1. /\ cur \in InFragment /\ fragment' = frags /\ medium' = n
      /\ loop' = loop /\ cur' = cur /\ prevV' = prevV /\ homing' = homing
      /\ inOverview' = inOverview /\ global' = global /\ near' = near
  BY DEF ShowFragment
<1>2. MediaTypeOK /\ Typed(medium) /\ cur \in Slides /\ frags \subseteq InFragment
  BY <1>1 DEF IInv, MediaTypeOK, Typed
<1>3. /\ Typed(n) /\ Sourced(n, cur) /\ Lazy(n, cur)
      /\ \A e \in SlideMedium(cur) : Started(n, e, global, frags)
      /\ \A e \in Media \ SlideMedium(cur) : n[e] = medium[e]
  BY <1>2, MediaTyped, Starts DEF IInv
<1> HIDE DEF n
<1>4. ASSUME NEW e \in Background(cur) PROVE Started(n, e, global, frags)
  <2>1. e \in Media /\ e \notin SlideMedium(cur) /\ e \notin OnSlide
    BY <1>2, MediaTyped
  <2>2. n[e] = medium[e] /\ Started(medium, e, global, fragment)
    BY <1>3, <2>1 DEF IInv, Plays
  <2> QED
    BY <2>1, <2>2 DEF Started, Hidden
<1>5. Plays(n, cur, global, frags)
  BY <1>3, <1>4 DEF Plays
<1>6. MediaTypeOK'
  BY <1>1, <1>2, <1>3 DEF MediaTypeOK, Typed
<1> QED
  BY <1>1, <1>3, <1>5, <1>6
     DEF IInv, Lazy, Sourced, Plays, Started, SlideMedium, Background, PlaysByItself, Hidden

\* Hiding one only takes the duty to play from its medium.
LEMMA HideStep == ASSUME IInv, HideFragment PROVE IInv'
<1>1. /\ fragment' = fragment \ {cur} /\ medium' = medium
      /\ loop' = loop /\ cur' = cur /\ prevV' = prevV /\ homing' = homing
      /\ inOverview' = inOverview /\ global' = global /\ near' = near
  BY DEF HideFragment
<1>2. MediaTypeOK'
  BY <1>1 DEF IInv, MediaTypeOK
<1>3. Plays(medium, cur, global, fragment')
  BY <1>1 DEF IInv, Plays, Started, Hidden
<1> QED
  BY <1>1, <1>2, <1>3
     DEF IInv, Lazy, Sourced, Plays, Started, SlideMedium, Background, PlaysByItself, Hidden

\* A queued reset touches the stacks only.
LEMMA ForgetStep == ASSUME IInv, ForgetStacks PROVE IInv'
<1>1. /\ homing' = FALSE /\ prevV' = [x \in Columns |-> 0] /\ medium' = medium
      /\ loop' = loop /\ cur' = cur /\ inOverview' = inOverview /\ global' = global
      /\ near' = near /\ fragment' = fragment
  BY DEF ForgetStacks
<1> QED
  BY <1>1 DEF IInv, MediaTypeOK, Lazy, Sourced, Plays, Started, SlideMedium, Background,
              PlaysByItself, Hidden

\* New backgrounds and a new configuration: the backgrounds are loaded and
\* started, then the current medium is stopped or started.
LEMMA ConfigureStep ==
    ASSUME IInv, NEW g \in {"null", "true", "false"}, Sync(g)
    PROVE  IInv'
<1> DEFINE close  == Near(cur, prevV, inOverview)
           made   == CreateBackgrounds(medium)
           loaded == LoadSlides(made, close, NearColumns(cur, inOverview))
           behind == StartContent(loaded, Background(cur), cur, g, fragment)
           n      == IF g = "false" THEN StopContent(behind, SlideMedium(cur), FALSE)
                     ELSE StartContent(behind, SlideMedium(cur), cur, g, fragment)
<1>1. /\ global' = g /\ near' = close /\ medium' = n
      /\ loop' = loop /\ cur' = cur /\ prevV' = prevV /\ homing' = homing
      /\ inOverview' = inOverview /\ fragment' = fragment
  BY DEF Sync
<1>2. MediaTypeOK /\ Typed(medium) /\ cur \in Slides /\ loop \in BOOLEAN /\ inOverview \in BOOLEAN
  BY DEF IInv, MediaTypeOK, Typed
<1>3. Typed(made) /\ Lazy(made, cur)
  BY <1>2 DEF IInv, CreateBackgrounds, Typed, MediumState, Absent, Lazy, Frames
<1>4. cur \in close /\ cur[1] \in NearColumns(cur, inOverview) /\ close \subseteq Slides
  BY <1>2, CurrentNear DEF Near
<1> HIDE DEF made, close
<1>5. Typed(loaded) /\ Sourced(loaded, cur) /\ Lazy(loaded, cur)
  BY <1>2, <1>3, <1>4, Loads
<1> HIDE DEF loaded
<1>6. /\ \A e \in Background(cur) : e \in Media /\ e[2] = cur
      /\ \A e \in SlideMedium(cur) : e \in Media /\ e[2] = cur
      /\ \A e \in Background(cur) : e \in Media \ SlideMedium(cur) /\ e \in Behind
  BY <1>2, MediaTyped
<1>7. /\ Typed(behind) /\ Sourced(behind, cur) /\ Lazy(behind, cur)
      /\ \A e \in Background(cur) : Started(behind, e, g, fragment)
  BY <1>2, <1>5, <1>6, Starts
<1> HIDE DEF behind
<1>8. Typed(n) /\ Sourced(n, cur) /\ Lazy(n, cur) /\ Plays(n, cur, g, fragment)
  <2>1. CASE g = "false"
    <3>1. /\ Typed(n) /\ Sourced(n, cur) /\ Lazy(n, cur)
      BY <1>2, <1>7, <2>1, Stops
    <3>2. \A e : ~PlaysByItself(e, g)
      BY <2>1 DEF PlaysByItself
    <3> QED
      BY <3>1, <3>2 DEF Plays, Started
  <2>2. CASE g # "false"
    <3>1. /\ Typed(n) /\ Sourced(n, cur) /\ Lazy(n, cur)
          /\ \A e \in SlideMedium(cur) : Started(n, e, g, fragment)
          /\ \A e \in Media \ SlideMedium(cur) : n[e] = behind[e]
      BY <1>2, <1>6, <1>7, <2>2, Starts
    <3> HIDE DEF n
    <3>2. \A e \in Background(cur) : Started(n, e, g, fragment)
      BY <1>6, <1>7, <3>1, StartedSame
    <3> QED
      BY <3>1, <3>2 DEF Plays
  <2> QED
    BY <2>1, <2>2
<1> HIDE DEF n
<1>9. MediaTypeOK'
  BY <1>1, <1>2, <1>4, <1>8 DEF MediaTypeOK, Typed
<1> QED
  BY <1>1, <1>8, <1>9
     DEF IInv, Lazy, Sourced, Plays, Started, SlideMedium, Background, PlaysByItself, Hidden

\* A medium that has loaded plays if it was waited for on the current slide.
LEMMA LoadedStep ==
    ASSUME IInv, NEW e \in Videos \cup Frames, Loaded(e)
    PROVE  IInv'
<1>1. /\ medium[e].data = "loading"
      /\ medium' = [medium EXCEPT
            ![e].data = "ready",
            ![e].playing = @ \/ (medium[e].waiting /\ Visible(e, cur)),
            ![e].waiting = @ /\ e \in Frames]
      /\ loop' = loop /\ cur' = cur /\ prevV' = prevV /\ homing' = homing
      /\ inOverview' = inOverview /\ global' = global /\ near' = near /\ fragment' = fragment
  BY DEF Loaded
<1>2. MediaTypeOK /\ Typed(medium) /\ cur \in Slides /\ e \in Media
  BY DEF IInv, MediaTypeOK, Typed, Videos, Frames
<1> DEFINE plays == medium[e].playing \/ (medium[e].waiting /\ Visible(e, cur))
           waits == medium[e].waiting /\ e \in Frames
           r == [medium[e] EXCEPT !.data = "ready", !.playing = plays, !.waiting = waits]
<1>3. medium[e] \in MediumState /\ plays \in BOOLEAN /\ waits \in BOOLEAN
  BY <1>2 DEF Typed, MediumState
<1>4. medium \in [Media -> MediumState]
  BY <1>2 DEF Typed
<1>5. medium' = [medium EXCEPT ![e] = r]
  BY <1>1, <1>2, <1>4
<1> HIDE DEF plays, waits
<1>6. /\ r \in MediumState /\ r.src = medium[e].src /\ r.data = "ready"
      /\ r.waiting = waits /\ r.playing = plays
  BY <1>3 DEF MediumState
<1> HIDE DEF r
<1>7. /\ medium'[e] = r /\ \A x \in Media \ {e} : medium'[x] = medium[x]
      /\ medium' \in [Media -> MediumState]
  BY <1>2, <1>4, <1>5, <1>6
<1>8. /\ medium'[e].src = medium[e].src /\ medium'[e].data = "ready"
      /\ medium'[e].waiting = (medium[e].waiting /\ e \in Frames)
      /\ medium'[e].playing = (medium[e].playing \/ (medium[e].waiting /\ Visible(e, cur)))
      /\ medium[e] \in MediumState
      /\ \A x \in Media \ {e} : medium'[x] = medium[x]
      /\ medium' \in [Media -> MediumState]
  BY <1>3, <1>6, <1>7 DEF plays, waits
<1>9. \A x \in Media : medium'[x].src = medium[x].src
  BY <1>8
<1>10. Lazy(medium', cur)
  BY <1>9 DEF IInv, Lazy, Frames
<1>11. Sourced(medium', cur)
  BY <1>2, <1>9, MediaTyped DEF IInv, Sourced
<1>12. ASSUME NEW x \in SlideMedium(cur) \cup Background(cur)
      PROVE  Started(medium', x, global, fragment)
  <2>1. x \in Media /\ x[2] = cur /\ Started(medium, x, global, fragment)
    BY <1>2, MediaTyped DEF IInv, Plays
  <2>2. CASE x # e
    BY <1>8, <2>1, <2>2, StartedSame
  <2>3. CASE x = e
    BY <1>1, <1>8, <2>1, <2>3 DEF Started, Visible
  <2> QED
    BY <2>2, <2>3
<1>13. MediaTypeOK'
  BY <1>1, <1>2, <1>8 DEF MediaTypeOK
<1> QED
  BY <1>1, <1>10, <1>11, <1>12, <1>13
     DEF IInv, Lazy, Sourced, Plays, Started, SlideMedium, Background, PlaysByItself, Hidden

\* No function of the program breaks the invariant.
LEMMA MediaStep == IInv /\ [MediaNext]_mediaVars => IInv'
<1> SUFFICES ASSUME IInv, [MediaNext]_mediaVars PROVE IInv'
  OBVIOUS
<1>1. inOverview \in BOOLEAN /\ cur \in Slides
  BY DEF IInv, MediaTypeOK
<1>2. ASSUME NEW s \in Slides, Slide(s) PROVE IInv'
  BY <1>1, <1>2, SlideStep DEF Slide
<1>3. CASE ActivateOverview
  BY <1>3, OverviewStep
<1>4. CASE DeactivateOverview
  BY <1>1, <1>4, SlideStep DEF DeactivateOverview
<1>5. CASE ShowFragment
  BY <1>5, ShowStep
<1>6. CASE HideFragment
  BY <1>6, HideStep
<1>7. CASE ForgetStacks
  BY <1>7, ForgetStep
<1>8. ASSUME NEW g \in {"null", "true", "false"}, Sync(g) PROVE IInv'
  BY <1>8, ConfigureStep
<1>9. ASSUME NEW e \in Videos \cup Frames, Loaded(e) PROVE IInv'
  BY <1>9, LoadedStep
<1>10. CASE UNCHANGED mediaVars
  BY <1>10 DEF mediaVars, IInv, MediaTypeOK, Lazy, Sourced, Plays, Started, SlideMedium, Background,
               PlaysByItself, Hidden
<1> QED
  BY <1>2, <1>3, <1>4, <1>5, <1>6, <1>7, <1>8, <1>9, <1>10 DEF MediaNext
-----------------------------------------------------------------------------
\* In every presentation a lazy frame has a page only while its slide is the
\* current one, whatever is loaded, unloaded, opened and configured in between.
THEOREM LazyFramesGoneAlways == MediaSpec => []LazyFramesGone
<1>1. IInv => LazyFramesGone
  BY DEF IInv, Lazy, LazyFramesGone
<1> QED
  BY <1>1, StartsSound, MediaStep, PTL DEF MediaSpec

\* In every presentation a medium of the current slide that starts by itself
\* plays once it has loaded: startEmbeddedContent finds it ready or leaves its
\* listener, and nothing but leaving the slide takes either away.
THEOREM CurrentPlaysAlways == MediaSpec => []CurrentPlays
<1>1. IInv => CurrentPlays
  BY DEF IInv, Plays, Started, CurrentPlays
<1> QED
  BY <1>1, StartsSound, MediaStep, PTL DEF MediaSpec
==============================================================================
