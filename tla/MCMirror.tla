------------------------------ MODULE MCMirror ------------------------------
(* A stack of two, with a fragment on its first slide, and a column; one    *)
(* client and one stranger.                                                 *)
EXTENDS Mirror, TLC

MCStack == 0 :> 2 @@ 1 :> 0
MCStartV == [x \in Columns |-> -1]
MCGiven == <<0, 0>> :> <<-1>> @@ <<0, 1>> :> <<>> @@ <<1, 0>> :> <<>>
NoAuto == [s \in Slides |-> "none"]
NoStackAuto == [x \in Columns |-> "none"]
NoNames == {}
MCConfig == [loop |-> FALSE, rtl |-> FALSE, history |-> FALSE, autoSlide |-> "zero", stoppable |-> TRUE]
MCSpeakerStates == {[indexh |-> 0, indexv |-> 1, indexf |-> Undefined, paused |-> FALSE]}

\* One of the two windows is open, or clients have come: they share nothing
\* but the master.
NoClient == connected = {} /\ client = [c \in Clients |-> ClientDeck]
OneAudience == Cardinality({i \in 1 .. 3 : \/ i = 1 /\ notes # "closed"
                                           \/ i = 2 /\ remote # "closed"
                                           \/ i = 3 /\ ~NoClient}) <= 1
\* A stranger's post is on its way only while a client is connected.
StrangersHeard == connected = {} => \A i \in DOMAIN toServer : toServer[i].secret = Id
\* At most two things a follower waits for: messages on any leg, the
\* next state after it has strayed, and the timers.
One(b) == IF b THEN 1 ELSE 0
FewPending == \A c \in Clients :
    Len(toServer) + Len(toClient[c]) + Len(toNotes) + Len(toRemote) + One(strayed[c])
        + One(client[c].homing) + One(master.homing) <= 2
=============================================================================
