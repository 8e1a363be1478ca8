--------------------------- MODULE ProctorSockets ---------------------------
(***************************************************************************)
(* The signalling rooms of live proctoring (backend/websocket_server.py):  *)
(* a socket is authenticated when it connects, joins the room of its       *)
(* assessment, relays to the other side, and is forgotten when the server  *)
(* notices that it is gone.                                                *)
(*                                                                         *)
(* A handler changes the three tables under one lock and yields nowhere    *)
(* between its sections, so it is one step, except connect, which asks the *)
(* database first and may be overtaken by the disconnect of its own socket *)
(* (a ping unanswered, a close in another request).  A socket id is fresh  *)
(* for each connection; here one is used again once it is forgotten        *)
(* everywhere.                                                             *)
(***************************************************************************)
EXTENDS FiniteSets

CONSTANTS
    Sids,        \* socket ids
    Candidates,  \* identities: the candidate of an assessment, ...
    Staff,       \* ... a member of staff at an assessment
    RoomOf,      \* the assessment each identity is for
    NoOne        \* no identity, no socket

Identities == Candidates \cup Staff
Rooms == {RoomOf[i] : i \in Identities}

ASSUME IdentityAssumption ==
    /\ Candidates \cap Staff = {}
    /\ NoOne \notin Identities \cup Sids
    /\ DOMAIN RoomOf = Identities

VARIABLES
    opener,      \* who opened each socket
    phase,       \* its handshake
    lost,        \* sockets whose client is gone
    gone,        \* sockets disconnected before their connect returned
    authenticated, \* authenticated_sockets: the identity of each
    joined,      \* connections: sockets that joined
    candidateOf, \* active_rooms: the candidate's socket of each room ...
    staffOf,     \* ... and its interviewers'
    relayed      \* the last relay: its sender and recipients

tableVars == <<authenticated, joined, candidateOf, staffOf>>
socketVars == <<opener, phase, lost, gone, tableVars, relayed>>

Phases == {"free", "verifying", "verified", "open"}
Silence == [from |-> NoOne, to |-> {}]

SocketInit ==
    /\ opener = [s \in Sids |-> NoOne]
    /\ phase = [s \in Sids |-> "free"]
    /\ lost = {}
    /\ gone = {}
    /\ authenticated = [s \in Sids |-> NoOne]
    /\ joined = {}
    /\ candidateOf = [r \in Rooms |-> NoOne]
    /\ staffOf = [r \in Rooms |-> {}]
    /\ relayed = Silence

\* The identity's connection is refused, or over.
Free(s) ==
    /\ opener' = [opener EXCEPT ![s] = NoOne]
    /\ phase' = [phase EXCEPT ![s] = "free"]
    /\ lost' = lost \ {s}
    /\ gone' = gone \ {s}

-----------------------------------------------------------------------------
\* connect: verify against the database, then register under the lock

Connect(s, i) ==
    /\ phase[s] = "free"
    /\ authenticated[s] = NoOne
    /\ opener' = [opener EXCEPT ![s] = i]
    /\ phase' = [phase EXCEPT ![s] = "verifying"]
    /\ UNCHANGED <<lost, gone, tableVars, relayed>>

Verify(s, authorised) ==
    /\ phase[s] = "verifying"
    /\ IF authorised
         THEN phase' = [phase EXCEPT ![s] = "verified"] /\ UNCHANGED <<opener, lost, gone>>
         ELSE Free(s)
    /\ UNCHANGED <<tableVars, relayed>>

Registered(i) == \E s \in Sids : authenticated[s] = i

\* Slip: whether the identity is connected already is not looked at.
RegisterAgain(s) ==
    /\ phase[s] = "verified"
    /\ phase' = [phase EXCEPT ![s] = "open"]
    /\ authenticated' = [authenticated EXCEPT ![s] = opener[s]]
    /\ UNCHANGED <<opener, lost, gone, joined, candidateOf, staffOf, relayed>>

\* A second socket of an identity is refused.
Register(s) ==
    /\ phase[s] = "verified"
    /\ IF Registered(opener[s])
         THEN Free(s) /\ UNCHANGED authenticated
         ELSE /\ phase' = [phase EXCEPT ![s] = "open"]
              /\ authenticated' = [authenticated EXCEPT ![s] = opener[s]]
              /\ UNCHANGED <<opener, lost, gone>>
    /\ UNCHANGED <<joined, candidateOf, staffOf, relayed>>

-----------------------------------------------------------------------------
\* Joining a room

JoinAsCandidate(s) ==
    LET r == RoomOf[authenticated[s]]
    IN  /\ phase[s] = "open" /\ s \notin lost
        /\ authenticated[s] \in Candidates
        /\ s \notin joined
        /\ candidateOf[r] \notin joined
        /\ candidateOf' = [candidateOf EXCEPT ![r] = s]
        /\ joined' = joined \cup {s}
        /\ UNCHANGED <<opener, phase, lost, gone, authenticated, staffOf, relayed>>

JoinAsInterviewer(s) ==
    LET r == RoomOf[authenticated[s]]
    IN  /\ phase[s] = "open" /\ s \notin lost
        /\ authenticated[s] \in Staff
        /\ s \notin joined
        /\ staffOf' = [staffOf EXCEPT ![r] = @ \cup {s}]
        /\ joined' = joined \cup {s}
        /\ UNCHANGED <<opener, phase, lost, gone, authenticated, candidateOf, relayed>>

-----------------------------------------------------------------------------
\* Relaying: to the other side of the room the sender is in

\* webrtc_offer, and ice_candidate for interviewers
RelayToStaff(s) ==
    \E r \in Rooms :
        /\ s \in joined \ lost
        /\ authenticated[s] \in Candidates
        /\ candidateOf[r] = s
        /\ relayed' = [from |-> s, to |-> staffOf[r]]
        /\ UNCHANGED <<opener, phase, lost, gone, tableVars>>

\* Slip: the sender's own room is not looked at.
RelayAnywhere(s) ==
    \E r \in Rooms :
        /\ s \in joined \ lost
        /\ authenticated[s] \in Staff
        /\ relayed' = [from |-> s, to |-> {candidateOf[r]} \ {NoOne}]
        /\ UNCHANGED <<opener, phase, lost, gone, tableVars>>

\* webrtc_answer, and ice_candidate for the candidate
RelayToCandidate(s) ==
    \E r \in Rooms :
        /\ s \in joined \ lost
        /\ authenticated[s] \in Staff
        /\ s \in staffOf[r]
        /\ relayed' = [from |-> s, to |-> {candidateOf[r]} \ {NoOne}]
        /\ UNCHANGED <<opener, phase, lost, gone, tableVars>>

-----------------------------------------------------------------------------
\* The end of a connection

\* The client closes, or its network is gone.
Lose(s) ==
    /\ phase[s] # "free"
    /\ s \notin lost
    /\ lost' = lost \cup {s}
    /\ UNCHANGED <<opener, phase, gone, tableVars, relayed>>

\* The library closes a socket once, even while its connect is still running,
\* which goes on all the same.
Close(s) ==
    /\ s \in lost \ gone
    /\ phase[s] # "free"
    /\ IF phase[s] = "open"
         THEN Free(s)
         ELSE gone' = gone \cup {s} /\ UNCHANGED <<opener, phase, lost>>

LeaveRoom(s) ==
    /\ joined' = joined \ {s}
    /\ candidateOf' = [r \in Rooms |-> IF candidateOf[r] = s THEN NoOne ELSE candidateOf[r]]
    /\ staffOf' = [r \in Rooms |-> staffOf[r] \ {s}]
    /\ relayed' = Silence

\* Slip: the identity of a socket that went stays registered.
DisconnectKeepingIdentity(s) == Close(s) /\ LeaveRoom(s) /\ UNCHANGED authenticated

\* disconnect: the socket leaves all three tables, as far as it is in them; one
\* whose connect has not registered it yet is in none.
Disconnect(s) ==
    /\ Close(s)
    /\ LeaveRoom(s)
    /\ authenticated' = [authenticated EXCEPT ![s] = NoOne]

\* A restart of the process forgets everyone.
RestartServer ==
    /\ opener' = [s \in Sids |-> NoOne]
    /\ phase' = [s \in Sids |-> "free"]
    /\ lost' = {}
    /\ gone' = {}
    /\ authenticated' = [s \in Sids |-> NoOne]
    /\ joined' = {}
    /\ candidateOf' = [r \in Rooms |-> NoOne]
    /\ staffOf' = [r \in Rooms |-> {}]
    /\ relayed' = Silence

Handle(s) ==
    \/ Register(s) \/ JoinAsCandidate(s) \/ JoinAsInterviewer(s)
    \/ RelayToStaff(s) \/ RelayToCandidate(s)
    \/ Lose(s) \/ Disconnect(s)

SocketNext ==
    \/ \E s \in Sids :
         \/ \E i \in Identities : Connect(s, i)
         \/ \E authorised \in BOOLEAN : Verify(s, authorised)
         \/ Handle(s)
    \/ RestartServer

-----------------------------------------------------------------------------

SocketTypeOK ==
    /\ opener \in [Sids -> Identities \cup {NoOne}]
    /\ phase \in [Sids -> Phases]
    /\ lost \in SUBSET Sids
    /\ gone \in SUBSET lost
    /\ authenticated \in [Sids -> Identities \cup {NoOne}]
    /\ joined \in SUBSET Sids
    /\ candidateOf \in [Rooms -> Sids \cup {NoOne}]
    /\ staffOf \in [Rooms -> SUBSET Sids]
    /\ relayed \in [from : Sids \cup {NoOne}, to : SUBSET Sids]

\* The three tables agree however connects, joins and disconnects of several
\* sockets interleave: a room holds joined sockets of its own assessment
\* only, every joined socket is in the room of its identity, and an identity
\* is authenticated on one socket at most.
RoomsMatchConnections ==
    /\ \A s, t \in Sids : authenticated[s] = authenticated[t] => s = t \/ authenticated[s] = NoOne
    /\ \A r \in Rooms : candidateOf[r] # NoOne =>
         /\ candidateOf[r] \in joined
         /\ authenticated[candidateOf[r]] \in {i \in Candidates : RoomOf[i] = r}
    /\ \A r \in Rooms : \A s \in staffOf[r] :
         s \in joined /\ authenticated[s] \in {i \in Staff : RoomOf[i] = r}
    /\ \A s \in joined : \E r \in Rooms : s = candidateOf[r] \/ s \in staffOf[r]

\* What is relayed stays in one assessment and crosses to its other side:
\* sender and recipients are authenticated for the same room, one of them as
\* its candidate.
RelayStaysInRoom ==
    \A t \in relayed.to :
        /\ {authenticated[relayed.from], authenticated[t]} \subseteq Identities
        /\ RoomOf[authenticated[relayed.from]] = RoomOf[authenticated[t]]
        /\ authenticated[relayed.from] \in Candidates <=> authenticated[t] \in Staff

\* A client whose connection breaks once connect has returned is not locked
\* out: the dead socket is forgotten, and until then only that socket keeps a
\* new one from registering (connect refuses a second socket of an identity).
LostAreForgotten ==
    \A s \in Sids : (s \in lost \ gone /\ phase[s] = "open")
                      ~> (s \notin lost /\ authenticated[s] = NoOne)

\* Whenever the connection breaks, connect running or not: "Automatic cleanup
\* runs when participants disconnect" (docs/ARCHITECTURE.md).
CleanedUpOnDisconnect ==
    \A s \in Sids : (s \in lost) ~> (s \notin lost /\ authenticated[s] = NoOne)
=============================================================================
