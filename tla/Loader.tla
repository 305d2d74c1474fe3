------------------------------- MODULE Loader -------------------------------
(***************************************************************************)
(* How a reveal.js page starts: initialize() loads the dependencies with   *)
(* head.js, the markdown plugin turns the text of the page into sections   *)
(* while it is loaded, and start() goes on once the synchronous scripts    *)
(* are there.  The asynchronous ones follow, and the pages of a PDF are    *)
(* laid out when the window has loaded.                                    *)
(*                                                                         *)
(* A markdown section is the row of separators in its text, "h" or "v"; n  *)
(* separators part the pieces 1 .. n + 1.                                  *)
(***************************************************************************)
EXTENDS Integers, FiniteSets, SequencesExt

CONSTANTS
    Dependencies,   \* config.dependencies: a sequence of scripts
    Async,          \* the scripts with the async flag
    Unwanted,       \* the scripts whose condition is false
    Label,          \* what load() takes from each src: its callback waits for this name
    File,           \* what head.js takes from it: the file name without a query
    Texts           \* the separators a section may hold

\* The two scripts whose effect matters here.
Marked == "marked"
Markdown == "markdown"
Scripts == Range(Dependencies)

ASSUME LoaderAssumption ==
    /\ Dependencies \in Seq(Scripts) /\ IsInjective(Dependencies)
    /\ Async \subseteq Scripts /\ Unwanted \subseteq Scripts
    /\ Label \in [Scripts -> STRING] /\ File \in [Scripts -> STRING]
    /\ Texts \subseteq Seq({"h", "v"})

VARIABLES
    initialized,
    printing,       \* the page was opened with ?print-pdf
    requested,      \* the scripts head.js inserted, in order, not yet settled
    settled,        \* the scripts that have run or failed
    failed,         \* those that failed, or did not come in seven seconds
    late,           \* those of them that came, and ran, after all
    called,         \* the scripts whose head.ready function has run
    scriptsToPreload,
    loaded,         \* start() has run
    readyTimer,     \* the event is queued
    ready,
    windowLoaded,
    eventsAreBound,
    keyboard,       \* config.keyboard
    keys,           \* onDocumentKeyDown is bound
    text,           \* of the markdown section
    doc,            \* the sections made of it, <<>> before
    pages           \* of the PDF, <<>> before

loaderVars == <<initialized, printing, requested, settled, failed, late, called, scriptsToPreload,
                loaded, readyTimer, ready, windowLoaded, eventsAreBound, keyboard, keys,
                text, doc, pages>>
-----------------------------------------------------------------------------
(***************************************************************************)
(* slidify.                                                                *)
(***************************************************************************)
\* The section that piece i begins.
Piece(i, stack) == [stack |-> stack, slides |-> <<i>>]

\* Adds piece i to the stack that is open, the last one.
ToStack(sections, i) ==
    [sections EXCEPT ![Len(sections)].slides = Append(@, i)]

\* Mutant of Separated: a stack is begun as a slide.
MutSeparated(sections, i, horizontal, wasHorizontal) ==
    IF wasHorizontal THEN Append(sections, Piece(i, FALSE)) ELSE ToStack(sections, i)

\* One turn of the loop: the separator ends piece i, which begins a section
\* unless a vertical one was before it.
Separated(sections, i, horizontal, wasHorizontal) ==
    IF wasHorizontal THEN Append(sections, Piece(i, ~horizontal)) ELSE ToStack(sections, i)

\* The sections after the first i separators, and the last of them.
Slidify(seps) ==
    LET was(i) == i = 0 \/ seps[i] = "h"
        cut[i \in 0 .. Len(seps)] ==
            IF i = 0 THEN <<>> ELSE Separated(cut[i - 1], i, seps[i] = "h", was(i - 1))
        rest == Len(seps) + 1
    IN  IF was(rest - 1) THEN Append(cut[rest - 1], Piece(rest, FALSE))
        ELSE ToStack(cut[rest - 1], rest)

\* processSlides and convertSlides: a section without separators becomes one
\* slide.
ProcessSlides(seps) == Slidify(seps)

Pieces(sections) == FlattenSeq([i \in DOMAIN sections |-> sections[i].slides])
-----------------------------------------------------------------------------
Wanted == Scripts \ Unwanted

\* The loop of load() pushes the dependencies in set.
Pushed(set) ==
    LET pushed[i \in 0 .. Len(Dependencies)] ==
            IF i = 0 THEN <<>>
            ELSE IF Dependencies[i] \in set THEN Append(pushed[i - 1], Dependencies[i])
            ELSE pushed[i - 1]
    IN  pushed[Len(Dependencies)]

SyncScripts == Pushed(Wanted \ Async)
AsyncScripts == Pushed(Wanted \cap Async)

Init ==
    /\ initialized = FALSE /\ printing \in BOOLEAN /\ requested = <<>>
    /\ settled = {} /\ failed = {} /\ late = {} /\ called = {} /\ scriptsToPreload = 0
    /\ loaded = FALSE /\ readyTimer = FALSE /\ ready = FALSE /\ windowLoaded = FALSE
    /\ eventsAreBound = FALSE /\ keyboard \in BOOLEAN /\ keys = FALSE
    /\ text \in Texts /\ doc = <<>> /\ pages = <<>>

\* setupPDF: every slide that is no stack gets a page, in document order.
SetupPDF(sections) == Pieces(sections)

\* Mutant of Start: the ready event is sent only when the window has loaded.
MutStart(sections) ==
    /\ loaded' = TRUE /\ readyTimer' = windowLoaded
    /\ eventsAreBound' = ~printing /\ keys' = (keyboard /\ ~printing)
    /\ pages' = IF printing /\ windowLoaded THEN SetupPDF(sections) ELSE pages

\* start(), with the sections there are by then: configure() binds the
\* events, which printing takes off again.
Start(sections) ==
    /\ loaded' = TRUE /\ readyTimer' = TRUE
    /\ eventsAreBound' = ~printing /\ keys' = (keyboard /\ ~printing)
    /\ pages' = IF printing /\ windowLoaded THEN SetupPDF(sections) ELSE pages

NoStart == UNCHANGED <<loaded, readyTimer, eventsAreBound, keys, pages>>

\* initialize() and load(): with no synchronous script it proceeds at once.
Initialize ==
    /\ ~initialized /\ initialized' = TRUE
    /\ scriptsToPreload' = Len(SyncScripts)
    /\ IF SyncScripts # <<>> THEN requested' = SyncScripts /\ NoStart
       ELSE requested' = AsyncScripts /\ Start(doc)
    /\ UNCHANGED <<printing, settled, failed, late, called, ready, windowLoaded, keyboard, text, doc>>

\* Mutant of Proceeds: does not wait for the other scripts.
MutProceeds(left) == scriptsToPreload > 0

\* The count reaches zero.
Proceeds(left) == scriptsToPreload > 0 /\ left <= 0

\* The scripts that have run.
Ran == (settled \ failed) \cup late

\* Markdown is made into sections when its script runs, if marked has run.
MadeBy(s) == IF s = Markdown /\ Marked \in Ran THEN ProcessSlides(text) ELSE doc

\* The first of the requested scripts has run, or has failed, which head.js
\* does not tell apart: the functions waiting for its file name are called,
\* each lowers the count, and the one that brings it to zero proceeds.  A
\* callback of the page's own does not throw.
Settle(ok) ==
    LET s     == Head(requested)
        calls == {t \in Wanted \ called : Label[t] = File[s]}
        left  == scriptsToPreload - Cardinality(calls)
        made  == IF ok THEN MadeBy(s) ELSE doc
    IN  /\ requested # <<>>
        /\ requested' = IF Proceeds(left) THEN Tail(requested) \o AsyncScripts ELSE Tail(requested)
        /\ settled' = settled \cup {s}
        /\ failed' = IF ok THEN failed ELSE failed \cup {s}
        /\ called' = called \cup calls /\ scriptsToPreload' = left /\ doc' = made
        /\ IF Proceeds(left) THEN Start(made) ELSE NoStart
        /\ UNCHANGED <<initialized, printing, late, ready, windowLoaded, keyboard, text>>

\* A script that head.js gave up runs after all, before all scripts inserted
\* after it or not at all: head.js has them run in that order.
Inserted == SyncScripts \o AsyncScripts

RunsLate(s) ==
    /\ s \in failed \ late /\ late' = late \cup {s}
    /\ \A t \in Ran : \E i, j \in DOMAIN Inserted : i < j /\ Inserted[i] = t /\ Inserted[j] = s
    /\ doc' = MadeBy(s)
    /\ UNCHANGED <<initialized, printing, requested, settled, failed, called, scriptsToPreload,
                   loaded, readyTimer, ready, windowLoaded, eventsAreBound, keyboard, keys, text,
                   pages>>

ReadyTimer ==
    /\ readyTimer /\ readyTimer' = FALSE /\ ready' = TRUE
    /\ UNCHANGED <<initialized, printing, requested, settled, failed, late, called, scriptsToPreload,
                   loaded, windowLoaded, eventsAreBound, keyboard, keys, text, doc, pages>>

\* Mutant of WindowLoad: the PDF is not laid out.
MutWindowLoad ==
    /\ ~windowLoaded /\ windowLoaded' = TRUE
    /\ UNCHANGED <<initialized, printing, requested, settled, failed, late, called, scriptsToPreload,
                   loaded, readyTimer, ready, eventsAreBound, keyboard, keys, text, doc, pages>>

\* The load event of the window lays the PDF out if start() has asked for it.
WindowLoad ==
    /\ ~windowLoaded /\ windowLoaded' = TRUE
    /\ pages' = IF loaded /\ printing THEN SetupPDF(doc) ELSE pages
    /\ UNCHANGED <<initialized, printing, requested, settled, failed, late, called, scriptsToPreload,
                   loaded, readyTimer, ready, eventsAreBound, keyboard, keys, text, doc>>

\* configure() by a script; before start() it only keeps the options.  It
\* binds the events also when they were taken off for printing.
Configure(on) ==
    /\ keyboard' = on
    /\ IF loaded THEN eventsAreBound' = TRUE /\ keys' = on
       ELSE UNCHANGED <<eventsAreBound, keys>>
    /\ UNCHANGED <<initialized, printing, requested, settled, failed, late, called, scriptsToPreload,
                   loaded, readyTimer, ready, windowLoaded, text, doc, pages>>

Loading == \/ Initialize \/ ReadyTimer \/ WindowLoad
           \/ \E ok \in BOOLEAN : Settle(ok)
           \/ \E s \in Scripts : RunsLate(s)
           \/ \E on \in BOOLEAN : Configure(on)

\* A page calls initialize(); head.js gives a script up after seven seconds.
LoadFairness == /\ WF_loaderVars(Initialize) /\ WF_loaderVars(ReadyTimer)
                /\ WF_loaderVars(WindowLoad) /\ WF_loaderVars(\E ok \in BOOLEAN : Settle(ok))
-----------------------------------------------------------------------------
(***************************************************************************)
(* What the theorems ask of config.dependencies.                           *)
(***************************************************************************)
\* A script wakes its own callback and no other: no two dependencies have one
\* file name, and no src has a query, which load() keeps and head.js does not.
LabelsMatch == \A s, t \in Scripts : Label[t] = File[s] <=> s = t

\* Script s comes before script t in config.dependencies.
Precedes(s, t) == \E a, b \in 1 .. Len(Dependencies) :
                     a < b /\ Dependencies[a] = s /\ Dependencies[b] = t

\* A page with markdown loads both scripts before it starts, marked first
\* (README.md:108 and 366).
MarkedFirst ==
    Markdown \in Wanted =>
        {Marked, Markdown} \subseteq Wanted \ Async /\ Precedes(Marked, Markdown)
-----------------------------------------------------------------------------
\* Every variable keeps its type.
TypeOK ==
    /\ \A b \in {initialized, printing, loaded, readyTimer, ready, windowLoaded,
                 eventsAreBound, keyboard, keys} : b \in BOOLEAN
    /\ requested \in Seq(Scripts) /\ settled \subseteq Scripts /\ failed \subseteq settled
    /\ late \subseteq failed /\ called \subseteq Scripts /\ scriptsToPreload \in Int

\* Every variable keeps its type, and start() runs when all the synchronous
\* scripts have, and no sooner: the calls that the asynchronous scripts make to
\* the same counter neither bring it to zero early nor a second time (load,
\* reveal.js:403-432).
StartAfterScripts ==
    /\ TypeOK
    /\ loaded <=> initialized /\ Range(SyncScripts) \subseteq settled

\* The sections cover the text: every piece is in one of them, in order, and
\* two neighbours share a stack exactly when a vertical separator is between
\* them (slidify, markdown.js:138-180).
SectionsCover ==
    doc # <<>> =>
        /\ Pieces(doc) = [i \in 1 .. Len(text) + 1 |-> i]
        /\ \A i \in DOMAIN text :
               text[i] = "v" <=> \E k \in DOMAIN doc : {i, i + 1} \subseteq Range(doc[k].slides)
        /\ \A k \in DOMAIN doc : doc[k].stack <=> Len(doc[k].slides) > 1

\* A PDF has every piece on a page of its own, whichever of start() and the
\* load event comes last, if the two scripts come within their seven seconds.
PagesComplete ==
    printing /\ loaded /\ windowLoaded /\ Markdown \in settled \ failed /\ Marked \notin failed
    => pages = [i \in 1 .. Len(text) + 1 |-> i]

\* The page gets ready whatever script fails, if each wakes its own callback.
GetsReady == <>ready
=============================================================================
