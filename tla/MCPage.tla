------------------------------- MODULE MCPage -------------------------------
(* Two synchronous and two asynchronous scripts, one of them not wanted,    *)
(* and every text of up to four separators.  The visitor's actions do not   *)
(* depend on the text nor on a script that failed: they are explored for    *)
(* one text, when all is well.  The media of the slides (MCMedia) share no   *)
(* variable with all this, so a behaviour is one of the media or one of the  *)
(* rest.                                                                     *)
EXTENDS Page, MCMedia

MCDependencies == <<"marked", "markdown", "search", "notes">>
MCLabel == [s \in Scripts |-> s]
MCTexts == UNION {[1 .. n -> {"h", "v"}] : n \in 0 .. 4}
MCMatches == "common" :> <<1, 2>> @@ "rare" :> <<3>>
MCShown == 1 .. 3

ASSUME MCPageAssumption == LabelsMatch /\ MarkedFirst

VARIABLE part   \* the one that moves

MCVars == <<vars, mediaVars, part>>

\* The widgets that are in use: one or two at a time.
InUse == {w \in {"overlay", "player", "search", "zoom"} :
            \/ w = "overlay" /\ (overlay # "none" \/ overlayTimers > 0)
            \/ w = "player" /\ (playing \/ frames + oldFrames > 0)
            \/ w = "search" /\ (box # Blank \/ matchedSlides # <<>>)
            \/ w = "zoom" /\ level # 1}
AllWell == text = <<"v">> /\ failed = {} /\ ~printing /\ ready /\ windowLoaded
\* The part that does not move has one initial state.
MCInit == /\ Init /\ PageInit /\ MediaInit
          /\ \/ part = "page" /\ ~loop
             \/ part = "media" /\ text = <<>> /\ ~printing /\ ~keyboard
MCNext ==
    /\ \/ part = "media" /\ MediaNext /\ UNCHANGED vars
       \/ part = "page" /\ Loading /\ UNCHANGED <<pageVars, mediaVars>>
       \/ part = "page" /\ AllWell /\ Using /\ Cardinality(InUse') <= 2 /\ UNCHANGED mediaVars
    /\ UNCHANGED part
MCSpec == MCInit /\ [][MCNext]_MCVars /\ LoadFairness
=============================================================================
