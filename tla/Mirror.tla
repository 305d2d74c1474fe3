------------------------------- MODULE Mirror -------------------------------
(***************************************************************************)
(* A presentation that others follow.  The multiplex plugin posts the      *)
(* state of the master deck to a server, which hands it to every client    *)
(* that is connected; a client applies it with setState.  The notes plugin *)
(* posts it to the speaker window it has opened, the notes server to one   *)
(* that may be on another machine.  Every deck, master or client, is a     *)
(* deck of module Deck.                                                    *)
(***************************************************************************)
EXTENDS Deck

CONSTANTS
    Clients,
    MasterConfig,
    ClientConfig,
    Id,             \* the socket id of the master, made from its secret
    Strangers,      \* the ids of other masters of the same server
    SpeakerStates,  \* what the speaker window may ask the master for
    MaxInFlight,    \* messages counted on the way to one receiver
    MaxOpeners      \* times the notes are opened onto one window

ASSUME MirrorAssumption ==
    /\ MasterConfig \in ConfigType /\ ClientConfig \in ConfigType
    /\ Id \notin Strangers
    /\ \A s \in SpeakerStates : /\ s.indexh \in Int /\ s.indexv \in Int
                                /\ s.indexf \in Int /\ s.paused \in BOOLEAN
    /\ MaxInFlight \in Nat \ {0} /\ MaxOpeners \in Nat \ {0}

VARIABLES
    master,
    toServer,       \* multiplex-statechanged, on its way
    client,
    connected,
    toClient,       \* what the server has sent to each client
    missed,         \* the server had no post for the client since it connected
    strayed,        \* the client has moved since it applied a state
    notes,          \* the notes window
    openers,        \* calls of openNotes that hold this window
    bound,          \* those of them that post to it
    reply,          \* its "connected" is on its way
    toNotes,
    shown,          \* the state it was last given
    remote,         \* the window that follows through the notes server
    asking,         \* its "new-subscriber" is on its way
    toRemote,
    remoteShown

serverVars == <<toServer>>
clientVars == <<client, connected, toClient, missed, strayed>>
notesVars == <<notes, openers, bound, reply, toNotes, shown>>
remoteVars == <<remote, asking, toRemote, remoteShown>>
vars == <<master, serverVars, clientVars, notesVars, remoteVars>>

\* No state given.
Nothing == [indexh |-> -1]

\* The decks as their pages load.
MasterDeck == Start(MasterConfig, IndexHash(0, 0))
ClientDeck == Start(ClientConfig, IndexHash(0, 0))

MirrorInit ==
    /\ master = MasterDeck /\ toServer = <<>>
    /\ client = [c \in Clients |-> ClientDeck]
    /\ connected = {} /\ toClient = [c \in Clients |-> <<>>]
    /\ missed = [c \in Clients |-> TRUE] /\ strayed = [c \in Clients |-> FALSE]
    /\ notes = "closed" /\ openers = 0 /\ bound = 0 /\ reply = FALSE
    /\ toNotes = <<>> /\ shown = Nothing
    /\ remote = "closed" /\ asking = FALSE /\ toRemote = <<>> /\ remoteShown = Nothing
-----------------------------------------------------------------------------
(***************************************************************************)
(* The master.  post() of each plugin is a listener of the seven events    *)
(* that the deck sends, and reads the state while the handler that sent    *)
(* the event is still running.                                             *)
(***************************************************************************)
Post(state) == [secret |-> Id, socketId |-> Id, state |-> state]

Posted(d) == [i \in DOMAIN d.out |-> Post(d.out[i].state)]

\* Each opener that is bound posts each event to a window that is there.
Handed(d) == IF notes = "closed" THEN <<>>
            ELSE [i \in 1 .. bound * Len(d.out) |-> d.out[1 + (i - 1) \div bound].state]

\* The server of the notes sends a post on to whoever is connected: one that
\* comes before the window is lost.
Relayed(d) == IF remote = "closed" THEN <<>> ELSE [i \in DOMAIN d.out |-> d.out[i].state]

MasterDoes(d) ==
    /\ master' = [d EXCEPT !.out = <<>>]
    /\ toServer' = toServer \o Posted(d) /\ Len(toServer') <= MaxInFlight
    /\ toNotes' = toNotes \o Handed(d)    /\ Len(toNotes') <= MaxInFlight
    /\ toRemote' = toRemote \o Relayed(d) /\ Len(toRemote') <= MaxInFlight
    /\ UNCHANGED <<clientVars, notes, openers, bound, reply, shown, remote, asking, remoteShown>>

MasterNext == MasterDoes(NavigateNext(master))
MasterPrev == MasterDoes(NavigatePrev(master))
MasterPause == MasterDoes(TogglePause(master, ~master.paused))
MasterOverview == MasterDoes(ToggleOverview(master, ~master.overview))
\* Another window sets the state: the slide previews of both notes windows
\* send back where the speaker went, without the overview.
SpeakerMoves(s) == MasterDoes(SetPosition(master, s))

\* A page posts when it has loaded, whatever its state is then.
MasterLoads ==
    /\ Len(toServer) < MaxInFlight
    /\ toServer' = Append(toServer, Post(GetState(master)))
    /\ UNCHANGED <<master, clientVars, notesVars, remoteVars>>

\* The timer that a deck starts on arriving at its first column.
MasterHomes == master.homing /\ MasterDoes(ResetStacks(master))

Master == \/ MasterNext \/ MasterPrev \/ MasterPause \/ MasterOverview
          \/ MasterLoads \/ MasterHomes
          \/ \E s \in SpeakerStates : SpeakerMoves(s)
-----------------------------------------------------------------------------
(***************************************************************************)
(* The server and the clients.                                             *)
(***************************************************************************)
\* Somebody else posts, to his own clients or to those of the master.
StrangerPosts(x, id) ==
    /\ Len(toServer) < MaxInFlight
    /\ toServer' = Append(toServer, [secret |-> x, socketId |-> id, state |-> GetState(MasterDeck)])
    /\ UNCHANGED <<master, clientVars, notesVars, remoteVars>>

\* The server passes on what comes with the secret of its id, to everyone
\* who is connected, whatever id he listens to.
Broadcast ==
    /\ toServer # <<>> /\ toServer' = Tail(toServer)
    /\ LET m == Head(toServer)
           to == IF m.secret = m.socketId THEN connected ELSE {}
       IN  /\ toClient' = [c \in Clients |-> IF c \in to THEN Append(toClient[c], m) ELSE toClient[c]]
           /\ missed' = [c \in Clients |-> IF m.socketId = Id /\ m.secret = Id
                                           THEN c \notin connected ELSE missed[c]]
           /\ \A c \in Clients : Len(toClient'[c]) <= MaxInFlight
    /\ UNCHANGED <<master, client, connected, strayed, notesVars, remoteVars>>

\* Mutant of Hears: the id is not looked at.
MutHears(m) == TRUE

\* A client hears its own id only.
Hears(m) == m.socketId = Id

Apply(c) ==
    /\ toClient[c] # <<>> /\ toClient' = [toClient EXCEPT ![c] = Tail(@)]
    /\ IF ~Hears(Head(toClient[c])) THEN UNCHANGED <<client, strayed>>
       ELSE /\ client' = [client EXCEPT ![c] = [SetState(@, Head(toClient[c]).state)
                                                   EXCEPT !.out = <<>>]]
            /\ strayed' = [strayed EXCEPT ![c] = FALSE]
    /\ UNCHANGED <<master, toServer, connected, missed, notesVars, remoteVars>>

Connect(c) == /\ c \notin connected /\ connected' = connected \cup {c}
              /\ UNCHANGED <<master, toServer, client, toClient, missed, strayed, notesVars,
                             remoteVars>>

\* What was on its way is lost.
Disconnect(c) ==
    /\ c \in connected /\ connected' = connected \ {c}
    /\ toClient' = [toClient EXCEPT ![c] = <<>>] /\ missed' = [missed EXCEPT ![c] = TRUE]
    /\ UNCHANGED <<master, toServer, client, strayed, notesVars, remoteVars>>

\* A client has the keys of any deck, and its own timer.
ClientDoes(c, d) ==
    /\ client' = [client EXCEPT ![c] = [d EXCEPT !.out = <<>>]]
    /\ UNCHANGED <<master, toServer, connected, toClient, missed, notesVars, remoteVars>>
ClientStrays(c) == /\ ClientDoes(c, NavigateNext(client[c]))
                   /\ strayed' = [strayed EXCEPT ![c] = TRUE]
ClientHomes(c) == client[c].homing /\ ClientDoes(c, ResetStacks(client[c])) /\ UNCHANGED strayed

Following == \/ Broadcast
             \/ \E x \in Strangers, id \in Strangers \cup {Id} : StrangerPosts(x, id)
             \/ \E c \in Clients : \/ Apply(c) \/ Connect(c) \/ Disconnect(c)
                                   \/ ClientStrays(c) \/ ClientHomes(c)
-----------------------------------------------------------------------------
(***************************************************************************)
(* The notes window: "loading" until its script listens, "listening" until *)
(* it is sent a "connect", "starting" until the slide previews are ready.  *)
(***************************************************************************)
OnlyNotes == UNCHANGED <<master, serverVars, clientVars, remoteVars>>

\* The window has a name: one that is open is loaded again.
OpenNotes ==
    /\ openers < MaxOpeners /\ notes' = "loading"
    /\ openers' = openers + 1 /\ toNotes' = <<>> /\ shown' = Nothing
    /\ UNCHANGED <<bound, reply>> /\ OnlyNotes

ScriptRuns == notes = "loading" /\ notes' = "listening"
              /\ UNCHANGED <<openers, bound, reply, toNotes, shown>> /\ OnlyNotes

\* Every 500 ms an opener that had no answer tries again.
ConnectInterval == /\ openers > bound /\ notes = "listening" /\ notes' = "starting"
                   /\ UNCHANGED <<openers, bound, reply, toNotes, shown>> /\ OnlyNotes

PreviewsReady == /\ notes = "starting" /\ notes' = "ready" /\ reply' = TRUE
                 /\ UNCHANGED <<openers, bound, toNotes, shown>> /\ OnlyNotes

\* Mutant of OnConnected: binds, and leaves the first post to the next event.
MutOnConnected ==
    /\ reply /\ reply' = FALSE
    /\ bound' = openers
    /\ UNCHANGED <<notes, openers, shown, toNotes>> /\ OnlyNotes

\* "connected": every opener hears it, binds and posts the state.
OnConnected ==
    /\ reply /\ reply' = FALSE
    /\ bound' = openers /\ Len(toNotes) + openers <= MaxInFlight
    /\ toNotes' = IF notes = "closed" THEN toNotes
                  ELSE toNotes \o [i \in 1 .. openers |-> GetState(master)]
    /\ UNCHANGED <<notes, openers, shown>> /\ OnlyNotes

\* The notes take the overview out of every state they are sent.
NoOverview(s) == [indexh |-> s.indexh, indexv |-> s.indexv, indexf |-> s.indexf,
                  paused |-> s.paused]

\* A window that is not ready has nowhere to show the state.
NotesReceive ==
    /\ toNotes # <<>> /\ toNotes' = Tail(toNotes)
    /\ shown' = IF notes = "ready" THEN NoOverview(Head(toNotes)) ELSE shown
    /\ UNCHANGED <<notes, openers, bound, reply>> /\ OnlyNotes

CloseNotes ==
    /\ notes # "closed" /\ notes' = "closed" /\ openers' = 0 /\ bound' = 0
    /\ toNotes' = <<>> /\ shown' = Nothing /\ UNCHANGED reply /\ OnlyNotes

Speaking == \/ OpenNotes \/ ScriptRuns \/ ConnectInterval \/ PreviewsReady
            \/ OnConnected \/ NotesReceive \/ CloseNotes

(***************************************************************************)
(* The window of the notes server.  It hears the posts from the moment it  *)
(* is there, and asks for one when its slide preview is ready.             *)
(***************************************************************************)
OnlyRemote == UNCHANGED <<master, serverVars, clientVars, notesVars>>

OpenRemote == /\ remote = "closed" /\ remote' = "loading"
              /\ UNCHANGED <<asking, toRemote, remoteShown>> /\ OnlyRemote

RemoteReady == /\ remote = "loading" /\ remote' = "ready" /\ asking' = TRUE
               /\ UNCHANGED <<toRemote, remoteShown>> /\ OnlyRemote

\* Mutant of NewSubscriber: nothing is posted.
MutNewSubscriber == /\ asking /\ asking' = FALSE
                    /\ UNCHANGED <<remote, toRemote, remoteShown>> /\ OnlyRemote

\* "new-subscriber": the master posts its state once more.
NewSubscriber ==
    /\ asking /\ asking' = FALSE
    /\ toRemote' = IF remote = "closed" THEN toRemote ELSE Append(toRemote, GetState(master))
    /\ Len(toRemote') <= MaxInFlight
    /\ UNCHANGED <<remote, remoteShown>> /\ OnlyRemote

RemoteReceive ==
    /\ toRemote # <<>> /\ toRemote' = Tail(toRemote)
    /\ remoteShown' = IF remote = "ready" THEN NoOverview(Head(toRemote)) ELSE remoteShown
    /\ UNCHANGED <<remote, asking>> /\ OnlyRemote

CloseRemote == /\ remote # "closed" /\ remote' = "closed"
               /\ toRemote' = <<>> /\ remoteShown' = Nothing
               /\ UNCHANGED asking /\ OnlyRemote

Subscribing == OpenRemote \/ RemoteReady \/ NewSubscriber \/ RemoteReceive \/ CloseRemote

MirrorNext == Master \/ Following \/ Speaking \/ Subscribing

MirrorSpec == MirrorInit /\ [][MirrorNext]_vars
-----------------------------------------------------------------------------
\* A client that was connected for the last post, has nothing on its way and
\* was not moved shows what the master shows: slide, fragment, pause and
\* overview.  The states posted in the middle of a handler, the order in
\* which setState applies the parts, and the posts of other masters do not
\* leave it anywhere else (client.js:6-12, reveal.js:3932-3949).
ClientsAgree ==
    \A c \in Clients :
        /\ ~missed[c] /\ ~strayed[c]
        /\ toServer = <<>> /\ toClient[c] = <<>>
        => GetState(client[c]) = GetState(master)

\* A notes window that has connected shows the state of the master, but for
\* the overview, when nothing is on its way, whether it was opened by the
\* master or follows through the notes server, though the first state and the
\* events that follow come by two ways, and may come before the window has its
\* slide preview (notes.js:106-120, notes-server/client.js:44-60).
NotesAgree ==
    /\ notes = "ready" /\ bound > 0 /\ ~reply /\ toNotes = <<>> =>
           shown = NoOverview(GetState(master))
    /\ remote = "ready" /\ ~asking /\ toRemote = <<>> =>
           remoteShown = NoOverview(GetState(master))
=============================================================================
