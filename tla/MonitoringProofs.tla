-------------------------- MODULE MonitoringProofs --------------------------
(***************************************************************************)
(* Proofs of the properties of Monitoring for any reports, sockets, staff  *)
(* and casts.                                                              *)
(*                                                                         *)
(* Each part has an invariant, and a step of the whole is a step of each   *)
(* part or leaves it alone.  The signalling tables agree because a socket  *)
(* is in them exactly while it is open under its opener's identity; tokens *)
(* are current because the start times that versions are made of are never *)
(* given twice, though they are written out of order.                      *)
(***************************************************************************)
EXTENDS Monitoring, ProctoringProofs

-----------------------------------------------------------------------------
\* The signalling rooms

\* A socket has an identity exactly while it is open, and it is its opener's;
\* and only sockets relay.
OpenAsOpener ==
    /\ \A s \in Sids : phase[s] # "free" => opener[s] \in Identities
    /\ \A s \in Sids : authenticated[s] = IF phase[s] = "open" THEN opener[s] ELSE NoOne
    /\ relayed.to = {} \/ relayed.from \in Sids

SocketInv == SocketTypeOK /\ OpenAsOpener /\ RoomsMatchConnections /\ RelayStaysInRoom

LEMMA People ==
  /\ Candidates \cap Staff = {} /\ NoOne \notin Identities /\ NoOne \notin Sids
  /\ \A i \in Identities : RoomOf[i] \in Rooms
BY IdentityAssumption DEF Identities, Rooms

LEMMA SocketInvInit == SocketInit => SocketInv
<1> SUFFICES ASSUME SocketInit PROVE SocketInv
  OBVIOUS
<1>1. SocketTypeOK
  BY DEF SocketInit, SocketTypeOK, Phases, Silence
<1>2. OpenAsOpener
  BY DEF SocketInit, OpenAsOpener, Silence
<1>3. RoomsMatchConnections /\ RelayStaysInRoom
  BY DEF SocketInit, RoomsMatchConnections, RelayStaysInRoom, Silence
<1> QED
  BY <1>1, <1>2, <1>3 DEF SocketInv

\* A step that leaves the tables and the last relay alone
LEMMA HandshakeKeeps ==
  ASSUME SocketInv, UNCHANGED <<tableVars, relayed>>, lost' \in SUBSET Sids, gone' \in SUBSET lost',
         NEW s \in Sids, NEW o \in Identities \cup {NoOne}, NEW h \in Phases \ {"open"},
         opener' = [opener EXCEPT ![s] = o], phase' = [phase EXCEPT ![s] = h],
         phase[s] # "open", h # "free" => o \in Identities
  PROVE  SocketInv'
<1>0. UNCHANGED <<authenticated, joined, candidateOf, staffOf, relayed>>
  BY DEF tableVars
<1>1. SocketTypeOK'
  BY <1>0 DEF SocketInv, SocketTypeOK
<1>2. OpenAsOpener'
  BY <1>0 DEF SocketInv, SocketTypeOK, OpenAsOpener
<1>3. RoomsMatchConnections' /\ RelayStaysInRoom'
  BY <1>0 DEF SocketInv, RoomsMatchConnections, RelayStaysInRoom
<1> QED
  BY <1>1, <1>2, <1>3 DEF SocketInv

LEMMA ConnectKeeps ==
  ASSUME SocketInv, NEW s \in Sids, NEW i \in Identities, Connect(s, i)
  PROVE  SocketInv'
<1>1. lost' \in SUBSET Sids /\ gone' \in SUBSET lost'
  BY DEF Connect, SocketInv, SocketTypeOK
<1> QED
  BY <1>1, HandshakeKeeps DEF Connect, Phases

LEMMA FreeKeeps ==
  ASSUME SocketInv, NEW s \in Sids, phase[s] # "open", Free(s), UNCHANGED <<tableVars, relayed>>
  PROVE  SocketInv'
<1>1. lost' \in SUBSET Sids /\ gone' \in SUBSET lost'
  BY DEF Free, SocketInv, SocketTypeOK
<1> QED
  BY <1>1, HandshakeKeeps DEF Free, Phases

LEMMA VerifyKeeps ==
  ASSUME SocketInv, NEW s \in Sids, NEW ok, Verify(s, ok)
  PROVE  SocketInv'
<1>1. CASE ok
  <2>1. lost' \in SUBSET Sids /\ gone' \in SUBSET lost' /\ opener[s] \in Identities
    BY <1>1 DEF Verify, SocketInv, SocketTypeOK, OpenAsOpener
  <2>2. opener' = [opener EXCEPT ![s] = opener[s]]
    BY <1>1 DEF Verify, SocketInv, SocketTypeOK
  <2> QED
    BY <1>1, <2>1, <2>2, HandshakeKeeps DEF Verify, Phases
<1>2. CASE ~ok
  BY <1>2, FreeKeeps DEF Verify
<1> QED
  BY <1>1, <1>2

LEMMA RegisterKeeps ==
  ASSUME SocketInv, NEW s \in Sids, Register(s)
  PROVE  SocketInv'
<1>1. CASE Registered(opener[s])
  BY <1>1, FreeKeeps DEF Register, tableVars
<1>2. CASE ~Registered(opener[s])
  <2>0. /\ authenticated[s] = NoOne /\ opener[s] \in Identities /\ opener[s] # NoOne
        /\ \A t \in Sids : authenticated[t] # opener[s]
    BY <1>2, People DEF Register, SocketInv, OpenAsOpener, Registered
  <2>1. /\ \A t \in Sids : phase'[t] = IF t = s THEN "open" ELSE phase[t]
        /\ \A t \in Sids : authenticated'[t] = IF t = s THEN opener[s] ELSE authenticated[t]
        /\ UNCHANGED <<opener, lost, gone, joined, candidateOf, staffOf, relayed>>
    BY <1>2 DEF Register, SocketInv, SocketTypeOK
  <2>2. SocketTypeOK'
    BY <1>2, <2>0 DEF Register, SocketInv, SocketTypeOK, Phases
  <2>3. OpenAsOpener'
    BY <2>0, <2>1 DEF SocketInv, OpenAsOpener
  <2>4. /\ s \notin joined /\ \A r \in Rooms : candidateOf[r] # s /\ s \notin staffOf[r]
    BY <2>0, People DEF SocketInv, SocketTypeOK, RoomsMatchConnections, Identities
  <2>5. RoomsMatchConnections'
    BY <2>0, <2>1, <2>4 DEF SocketInv, SocketTypeOK, RoomsMatchConnections
  <2>6. RelayStaysInRoom'
    <3>1. \A t \in relayed.to : relayed.from # s /\ t # s
      BY <2>0, People DEF SocketInv, RelayStaysInRoom
    <3>2. \A t \in relayed.to : authenticated'[t] = authenticated[t]
                                /\ authenticated'[relayed.from] = authenticated[relayed.from]
      BY <1>2, <3>1 DEF Register, SocketInv, SocketTypeOK, OpenAsOpener
    <3> QED
      BY <2>1, <3>2 DEF SocketInv, RelayStaysInRoom
  <2> QED
    BY <2>2, <2>3, <2>5, <2>6 DEF SocketInv
<1> QED
  BY <1>1, <1>2

LEMMA JoinAsCandidateKeeps ==
  ASSUME SocketInv, NEW s \in Sids, JoinAsCandidate(s)
  PROVE  SocketInv'
<1> DEFINE r == RoomOf[authenticated[s]]
<1>1. r \in Rooms /\ authenticated[s] \in Candidates /\ s \notin joined
  BY People DEF JoinAsCandidate, Identities
<1>2. candidateOf[r] = NoOne
  BY <1>1 DEF JoinAsCandidate, SocketInv, RoomsMatchConnections
<1>3. /\ \A q \in Rooms : candidateOf'[q] = IF q = r THEN s ELSE candidateOf[q]
      /\ joined' = joined \cup {s}
      /\ UNCHANGED <<opener, phase, lost, gone, authenticated, staffOf, relayed>>
  BY DEF JoinAsCandidate, SocketInv, SocketTypeOK
<1>4. SocketTypeOK'
  BY <1>1 DEF JoinAsCandidate, SocketInv, SocketTypeOK
<1>5. OpenAsOpener' /\ RelayStaysInRoom'
  BY <1>3 DEF SocketInv, OpenAsOpener, RelayStaysInRoom
<1>6. RoomsMatchConnections'
  <2> HIDE DEF r
  <2>1. \A t \in joined : \E q \in Rooms : t = candidateOf'[q] \/ t \in staffOf'[q]
    BY <1>2, <1>3, People DEF SocketInv, SocketTypeOK, RoomsMatchConnections
  <2>2. authenticated[s] \in {i \in Candidates : RoomOf[i] = r}
    BY <1>1 DEF r
  <2> QED
    BY <1>1, <1>3, <2>1, <2>2 DEF SocketInv, SocketTypeOK, RoomsMatchConnections
<1> QED
  BY <1>4, <1>5, <1>6 DEF SocketInv

LEMMA JoinAsInterviewerKeeps ==
  ASSUME SocketInv, NEW s \in Sids, JoinAsInterviewer(s)
  PROVE  SocketInv'
<1> DEFINE r == RoomOf[authenticated[s]]
<1>1. r \in Rooms /\ authenticated[s] \in Staff /\ s \notin joined
  BY People DEF JoinAsInterviewer, Identities
<1>2. /\ \A q \in Rooms : staffOf'[q] = IF q = r THEN staffOf[q] \cup {s} ELSE staffOf[q]
      /\ joined' = joined \cup {s}
      /\ UNCHANGED <<opener, phase, lost, gone, authenticated, candidateOf, relayed>>
  BY DEF JoinAsInterviewer, SocketInv, SocketTypeOK
<1>3. SocketTypeOK'
  BY <1>1 DEF JoinAsInterviewer, SocketInv, SocketTypeOK
<1>4. OpenAsOpener' /\ RelayStaysInRoom'
  BY <1>2 DEF SocketInv, OpenAsOpener, RelayStaysInRoom
<1>5. RoomsMatchConnections'
  <2> HIDE DEF r
  <2>1. authenticated[s] \in {i \in Staff : RoomOf[i] = r}
    BY <1>1 DEF r
  <2>2. \A q \in Rooms : \A t \in staffOf'[q] :
          t \in joined' /\ authenticated'[t] \in {i \in Staff : RoomOf[i] = q}
    <3>1. \A q \in Rooms : \A t \in staffOf[q] :
            t \in joined' /\ authenticated'[t] \in {i \in Staff : RoomOf[i] = q}
      BY <1>2 DEF SocketInv, RoomsMatchConnections
    <3>2. s \in joined' /\ authenticated'[s] \in {i \in Staff : RoomOf[i] = r}
      BY <1>2, <2>1
    <3>3. \A q \in Rooms : \A t \in staffOf'[q] : t \in staffOf[q] \/ (q = r /\ t = s)
      BY <1>2
    <3> QED
      BY <3>1, <3>2, <3>3
  <2>3. \A t \in joined' : \E q \in Rooms : t = candidateOf'[q] \/ t \in staffOf'[q]
    <3>1. s \in staffOf'[r]
      BY <1>1, <1>2
    <3>2. \A t \in joined : \E q \in Rooms : t = candidateOf'[q] \/ t \in staffOf'[q]
      BY <1>2 DEF SocketInv, RoomsMatchConnections
    <3> QED
      BY <1>1, <1>2, <3>1, <3>2
  <2> QED
    BY <1>2, <2>2, <2>3 DEF SocketInv, RoomsMatchConnections
<1> QED
  BY <1>3, <1>4, <1>5 DEF SocketInv

\* A relay leaves the tables alone and stays in the room.
LEMMA RelayKeeps ==
  ASSUME SocketInv, NEW s \in Sids, RelayToStaff(s) \/ RelayToCandidate(s)
  PROVE  SocketInv'
<1>0. UNCHANGED <<opener, phase, lost, gone, authenticated, joined, candidateOf, staffOf>>
  BY DEF RelayToStaff, RelayToCandidate, tableVars
<1>1. OpenAsOpener' /\ RoomsMatchConnections'
  <2>1. relayed'.from \in Sids
    BY DEF RelayToStaff, RelayToCandidate
  <2> QED
    BY <1>0, <2>1 DEF SocketInv, OpenAsOpener, RoomsMatchConnections
<1>2. CASE RelayToStaff(s)
  <2>1. PICK r \in Rooms : /\ authenticated[s] \in Candidates /\ candidateOf[r] = s
                           /\ relayed' = [from |-> s, to |-> staffOf[r]]
    BY <1>2 DEF RelayToStaff
  <2>2. SocketTypeOK'
    BY <1>0, <2>1 DEF SocketInv, SocketTypeOK
  <2>3. RoomOf[authenticated[s]] = r /\ \A t \in staffOf[r] : authenticated[t] \in Staff /\ RoomOf[authenticated[t]] = r
    BY <2>1, People DEF SocketInv, RoomsMatchConnections
  <2>4. RelayStaysInRoom'
    BY <1>0, <2>1, <2>3 DEF RelayStaysInRoom, Identities
  <2> QED
    BY <1>1, <2>2, <2>4 DEF SocketInv
<1>3. CASE RelayToCandidate(s)
  <2>1. PICK r \in Rooms : /\ authenticated[s] \in Staff /\ s \in staffOf[r]
                           /\ relayed' = [from |-> s, to |-> {candidateOf[r]} \ {NoOne}]
    BY <1>3 DEF RelayToCandidate
  <2>2. SocketTypeOK'
    BY <1>0, <2>1 DEF SocketInv, SocketTypeOK
  <2>3. /\ RoomOf[authenticated[s]] = r /\ authenticated[s] \notin Candidates
        /\ candidateOf[r] # NoOne => /\ authenticated[candidateOf[r]] \in Candidates
                                     /\ authenticated[candidateOf[r]] \notin Staff
                                     /\ RoomOf[authenticated[candidateOf[r]]] = r
    BY <2>1, People DEF SocketInv, RoomsMatchConnections
  <2>4. RelayStaysInRoom'
    BY <1>0, <2>1, <2>3 DEF RelayStaysInRoom, Identities
  <2> QED
    BY <1>1, <2>2, <2>4 DEF SocketInv
<1> QED
  BY <1>2, <1>3

LEMMA LoseKeeps ==
  ASSUME SocketInv, NEW s \in Sids, Lose(s)
  PROVE  SocketInv'
<1>0. /\ UNCHANGED <<opener, phase, gone, authenticated, joined, candidateOf, staffOf, relayed>>
      /\ lost' = lost \cup {s}
  BY DEF Lose, tableVars
<1> QED
  BY <1>0 DEF SocketInv, SocketTypeOK, OpenAsOpener, RoomsMatchConnections, RelayStaysInRoom

\* A socket that is open is closed and leaves the tables.
LEMMA DisconnectOpenKeeps ==
  ASSUME SocketInv, NEW s \in Sids, Disconnect(s), phase[s] = "open"
  PROVE  SocketInv'
<1>1. /\ \A t \in Sids : phase'[t] = IF t = s THEN "free" ELSE phase[t]
      /\ \A t \in Sids : opener'[t] = IF t = s THEN NoOne ELSE opener[t]
      /\ \A t \in Sids : authenticated'[t] = IF t = s THEN NoOne ELSE authenticated[t]
      /\ \A r \in Rooms : candidateOf'[r] = IF candidateOf[r] = s THEN NoOne ELSE candidateOf[r]
      /\ \A r \in Rooms : staffOf'[r] = staffOf[r] \ {s}
      /\ joined' = joined \ {s} /\ relayed' = Silence
  BY DEF Disconnect, Close, LeaveRoom, Free, SocketInv, SocketTypeOK
<1>2. SocketTypeOK'
  BY DEF Disconnect, Close, LeaveRoom, Free, SocketInv, SocketTypeOK, Phases, Silence
<1>3. OpenAsOpener'
  BY <1>1 DEF SocketInv, OpenAsOpener, Silence
<1>4. RelayStaysInRoom'
  BY <1>1 DEF RelayStaysInRoom, Silence
<1>5. RoomsMatchConnections'
  <2>1. \A t, u \in Sids : authenticated'[t] = authenticated'[u] => t = u \/ authenticated'[t] = NoOne
    BY <1>1 DEF SocketInv, RoomsMatchConnections
  <2>2. \A r \in Rooms : candidateOf'[r] # NoOne =>
          /\ candidateOf'[r] \in joined'
          /\ authenticated'[candidateOf'[r]] \in {i \in Candidates : RoomOf[i] = r}
    BY <1>1 DEF SocketInv, SocketTypeOK, RoomsMatchConnections
  <2>3. \A r \in Rooms : \A t \in staffOf'[r] :
          t \in joined' /\ authenticated'[t] \in {i \in Staff : RoomOf[i] = r}
    BY <1>1 DEF SocketInv, SocketTypeOK, RoomsMatchConnections
  <2>4. \A t \in joined' : \E r \in Rooms : t = candidateOf'[r] \/ t \in staffOf'[r]
    BY <1>1 DEF SocketInv, SocketTypeOK, RoomsMatchConnections
  <2> QED
    BY <2>1, <2>2, <2>3, <2>4 DEF RoomsMatchConnections
<1> QED
  BY <1>2, <1>3, <1>4, <1>5 DEF SocketInv

\* One that is still connecting is in no table, and goes on.
LEMMA DisconnectEarlyKeeps ==
  ASSUME SocketInv, NEW s \in Sids, Disconnect(s), phase[s] # "open"
  PROVE  SocketInv'
<1>1. /\ authenticated[s] = NoOne /\ s \notin joined
      /\ \A r \in Rooms : candidateOf[r] # s /\ s \notin staffOf[r]
  BY People DEF SocketInv, SocketTypeOK, OpenAsOpener, RoomsMatchConnections, Identities
<1>2. /\ UNCHANGED <<opener, phase, lost>> /\ gone' \in SUBSET lost' /\ relayed' = Silence
      /\ UNCHANGED <<authenticated, joined, candidateOf, staffOf>>
  BY <1>1 DEF Disconnect, Close, LeaveRoom, SocketInv, SocketTypeOK
<1>3. SocketTypeOK'
  BY <1>2 DEF SocketInv, SocketTypeOK, Silence
<1>4. OpenAsOpener' /\ RoomsMatchConnections' /\ RelayStaysInRoom'
  BY <1>2 DEF SocketInv, OpenAsOpener, RoomsMatchConnections, RelayStaysInRoom, Silence
<1> QED
  BY <1>3, <1>4 DEF SocketInv

LEMMA DisconnectKeeps ==
  ASSUME SocketInv, NEW s \in Sids, Disconnect(s)
  PROVE  SocketInv'
BY DisconnectOpenKeeps, DisconnectEarlyKeeps

SocketStep ==
    \/ \E s \in Sids : \/ \E i \in Identities : Connect(s, i)
                       \/ Authenticate(s) \/ Handle(s)
    \/ RestartServer

LEMMA SocketInvNext ==
  ASSUME SocketInv, SocketStep \/ UNCHANGED socketVars
  PROVE  SocketInv'
<1>1. ASSUME NEW s \in Sids, (\E i \in Identities : Connect(s, i)) \/ Authenticate(s) \/ Handle(s)
      PROVE  SocketInv'
  BY <1>1, ConnectKeeps, VerifyKeeps, RegisterKeeps, JoinAsCandidateKeeps, JoinAsInterviewerKeeps,
     RelayKeeps, LoseKeeps, DisconnectKeeps DEF Authenticate, Handle
<1>2. CASE RestartServer
  <2>1. SocketInit'
    BY <1>2 DEF RestartServer, SocketInit
  <2>2. SocketTypeOK' /\ OpenAsOpener'
    BY <2>1 DEF SocketInit, SocketTypeOK, Phases, Silence, OpenAsOpener
  <2>3. RoomsMatchConnections' /\ RelayStaysInRoom'
    BY <2>1 DEF SocketInit, RoomsMatchConnections, RelayStaysInRoom, Silence
  <2> QED
    BY <2>2, <2>3 DEF SocketInv
<1>3. CASE UNCHANGED socketVars
  BY <1>3 DEF socketVars, tableVars, SocketInv, SocketTypeOK, OpenAsOpener, RoomsMatchConnections,
     RelayStaysInRoom
<1> QED
  BY <1>1, <1>2, <1>3 DEF SocketStep

-----------------------------------------------------------------------------
\* Accounts and tokens

\* Requests under way start at times no version and no session has.
Pending(r) == request[r] # Nothing
Unused(v) == \A r \in Slots : Pending(r) => request[r].start # v

\* What a login has read is of now or of another version.
Faithful(u, x) ==
    x # Nothing => /\ x.version \in Nat /\ x.version <= stamp /\ Unused(x.version)
                   /\ x.version = version[u] => x.generation = generation[u]

AccountFunctions ==
    /\ stamp \in Nat
    /\ role = [u \in Users |-> role[u]] /\ scope = [u \in Users |-> scope[u]]
    /\ version = [u \in Users |-> version[u]] /\ generation = [u \in Users |-> generation[u]]
    /\ login = [u \in Users |-> login[u]] /\ token = [u \in Users |-> token[u]]
    /\ request = [r \in Slots |-> request[r]]

AccountsInv ==
    /\ AccountFunctions
    /\ \A u \in Users : /\ version[u] \in Nat /\ version[u] <= stamp /\ Unused(version[u])
                        /\ Faithful(u, login[u]) /\ Faithful(u, token[u])
    /\ \A r \in Slots : Pending(r) =>
         request[r].start \in Nat /\ request[r].start <= stamp /\ request[r].target \in Users
    /\ \A r, q \in Slots : Pending(r) /\ Pending(q) /\ r # q => request[r].start # request[q].start

LEMMA AccountsInvInit == AccountsInit => AccountsInv
<1> SUFFICES ASSUME AccountsInit PROVE AccountsInv
  OBVIOUS
<1>1. AccountFunctions
  BY AccountsAssumption DEF AccountsInit, AccountFunctions
<1>2. \A r \in Slots : ~Pending(r)
  BY DEF AccountsInit, Pending
<1> QED
  BY <1>1, <1>2 DEF AccountsInit, AccountsInv, Unused, Faithful

LEMMA LoginKeeps ==
  ASSUME AccountsInv, NEW u \in Users, LoginStep(u)
  PROVE  AccountsInv'
<1>0. UNCHANGED <<role, scope, version, generation, request, stamp>>
  BY DEF LoginStep, ReadAccount, IssueToken, RestartAccounts, staffVars, accountVars
<1>1. AccountFunctions'
  BY <1>0 DEF AccountsInv, AccountFunctions, LoginStep, ReadAccount, IssueToken
<1>2. \A v \in Users : Faithful(v, login[v]) /\ Faithful(v, token[v]) /\ Unused(version[v])
                       /\ version[v] \in Nat /\ version[v] <= stamp
  BY DEF AccountsInv
<1>3. CASE ReadAccount(u)
  <2>1. /\ \A v \in Users \ {u} : login'[v] = login[v]
        /\ login'[u] = [role |-> role[u], version |-> version[u], generation |-> generation[u]]
        /\ token' = token
    BY <1>3 DEF ReadAccount, AccountsInv, AccountFunctions
  <2>2. \A v \in Users : Faithful(v, login'[v]) /\ Faithful(v, token'[v])
    BY <1>2, <2>1 DEF Faithful
  <2> QED
    BY <1>0, <1>1, <1>2, <2>2 DEF AccountsInv, Faithful, Unused, Pending
<1>4. CASE IssueToken(u)
  <2>1. /\ \A v \in Users \ {u} : login'[v] = login[v] /\ token'[v] = token[v]
        /\ login'[u] = Nothing /\ token'[u] = login[u]
    BY <1>4 DEF IssueToken, AccountsInv, AccountFunctions
  <2>2. \A v \in Users : Faithful(v, login'[v]) /\ Faithful(v, token'[v])
    BY <1>2, <2>1 DEF Faithful
  <2> QED
    BY <1>0, <1>1, <1>2, <2>2 DEF AccountsInv, Faithful, Unused, Pending
<1> QED
  BY <1>3, <1>4 DEF LoginStep

\* A request starts at a new time.
LEMMA BeginKeeps ==
  ASSUME AccountsInv, NEW r \in Slots, NEW u \in Users, NEW t \in Users, NEW op, Begin(r, u, t, op)
  PROVE  AccountsInv'
<1>0. UNCHANGED <<role, scope, version, generation, login, token>> /\ stamp' = stamp + 1
  BY DEF Begin, accountVars
<1>1. AccountFunctions'
  <2>1. stamp' \in Nat
    BY <1>0 DEF AccountsInv, AccountFunctions
  <2>2. request' = [q \in Slots |-> request'[q]]
    BY DEF AccountsInv, AccountFunctions, Begin
  <2> QED
    BY <1>0, <2>1, <2>2 DEF AccountsInv, AccountFunctions
<1>2. /\ request'[r].start = stamp + 1 /\ request'[r].target = t
      /\ \A q \in Slots \ {r} : request'[q] = request[q]
  BY DEF Begin, AccountsInv, AccountFunctions
<1>3. stamp \in Nat /\ stamp' \in Nat /\ stamp <= stamp' /\ \A v \in Nat : v <= stamp => v <= stamp' /\ v # stamp'
  BY <1>0 DEF AccountsInv, AccountFunctions
<1>4. ASSUME NEW v \in Nat, v <= stamp, Unused(v) PROVE Unused(v)'
  BY <1>0, <1>2, <1>3, <1>4 DEF Unused, Pending
<1>5. ASSUME NEW v \in Users, NEW x, Faithful(v, x) PROVE Faithful(v, x)'
  BY <1>0, <1>3, <1>4, <1>5 DEF Faithful
<1>6. \A v \in Users : /\ version'[v] \in Nat /\ version'[v] <= stamp' /\ Unused(version[v])'
                       /\ Faithful(v, login[v])' /\ Faithful(v, token[v])'
  BY <1>0, <1>3, <1>4, <1>5 DEF AccountsInv
<1>7. \A q \in Slots : Pending(q)' =>
        request'[q].start \in Nat /\ request'[q].start <= stamp' /\ request'[q].target \in Users
  BY <1>0, <1>2, <1>3 DEF AccountsInv, Pending
<1>8. \A q, p \in Slots : Pending(q)' /\ Pending(p)' /\ q # p => request'[q].start # request'[p].start
  BY <1>0, <1>2, <1>3 DEF AccountsInv, Pending
<1> QED
  BY <1>1, <1>6, <1>7, <1>8 DEF AccountsInv

\* A request ends, having changed its target to a version of its own or
\* nothing.
LEMMA LeaveKeeps ==
  ASSUME AccountsInv, NEW r \in Slots, Pending(r), Leave(r),
         NEW newRole, NEW newScope, Change(r, newRole, newScope) \/ UNCHANGED accountVars
  PROVE  AccountsInv'
<1>0. /\ UNCHANGED <<login, token, stamp>> /\ request'[r] = Nothing
      /\ \A q \in Slots \ {r} : request'[q] = request[q]
  BY DEF Leave, AccountsInv, AccountFunctions
<1>1. AccountFunctions'
  BY <1>0 DEF AccountsInv, AccountFunctions, Leave, Change, accountVars
<1>2. request[r].target \in Users /\ request[r].start \in Nat /\ request[r].start <= stamp
  BY DEF AccountsInv
<1>3. ASSUME NEW v, Unused(v) PROVE Unused(v)'
  BY <1>0, <1>3 DEF Unused, Pending
<1>4. \A q \in Slots : Pending(q)' => request'[q].start # request[r].start
  BY <1>0 DEF Pending, AccountsInv
<1>5. ASSUME NEW v \in Users
      PROVE  \/ version'[v] = version[v] /\ generation'[v] = generation[v]
             \/ version'[v] = request[r].start
  BY <1>2 DEF Change, accountVars, AccountsInv, AccountFunctions
<1>6. ASSUME NEW v \in Users, NEW x, Faithful(v, x) PROVE Faithful(v, x)'
  <2>1. x # Nothing => x.version # request[r].start
    BY <1>6 DEF Faithful, Unused
  <2> QED
    BY <1>0, <1>3, <1>5, <1>6, <2>1 DEF Faithful
<1>7. \A v \in Users : /\ version'[v] \in Nat /\ version'[v] <= stamp' /\ Unused(version[v])'
                       /\ Faithful(v, login[v])' /\ Faithful(v, token[v])'
  <2>1. ASSUME NEW v \in Users PROVE Faithful(v, login[v])' /\ Faithful(v, token[v])'
    BY <1>0, <1>6 DEF AccountsInv
  <2>2. ASSUME NEW v \in Users PROVE version'[v] \in Nat /\ version'[v] <= stamp' /\ Unused(version[v])'
    <3>1. CASE version'[v] = version[v]
      BY <1>0, <1>3, <3>1 DEF AccountsInv, Unused, Pending
    <3>2. CASE version'[v] = request[r].start
      BY <1>0, <1>2, <1>4, <3>2 DEF Unused, Pending
    <3> QED
      BY <1>5, <3>1, <3>2
  <2> QED
    BY <2>1, <2>2
<1>8. \A q \in Slots : Pending(q)' => Pending(q) /\ request'[q] = request[q]
  BY <1>0 DEF Pending
<1> QED
  BY <1>0, <1>1, <1>7, <1>8 DEF AccountsInv

AccountStep ==
    \/ \E u \in Users : LoginStep(u)
    \/ \E r \in Slots : AdminStep(r)
    \/ RestartAccounts

LEMMA AccountsInvNext ==
  ASSUME AccountsInv, AccountStep \/ UNCHANGED staffVars
  PROVE  AccountsInv'
<1>1. ASSUME NEW r \in Slots, AdminStep(r) PROVE AccountsInv'
  <2>1. CASE \E u, t \in Users : BeginUpdate(r, u, t) \/ BeginDelete(r, u, t) \/ BeginCreate(r, u, t)
    BY <2>1, BeginKeeps DEF BeginUpdate, BeginDelete, BeginCreate
  <2>2. CASE \E new \in Roles : UpdateRole(r, new) \/ CreateUser(r, new)
    BY <2>2, LeaveKeeps DEF UpdateRole, CreateUser, Pending
  <2>3. CASE UpdateSector(r) \/ UpdatePassword(r) \/ DeleteUser(r) \/ Abandon(r)
    BY <2>3, LeaveKeeps DEF UpdateSector, UpdatePassword, DeleteUser, Abandon, Pending
  <2> QED
    BY <1>1, <2>1, <2>2, <2>3 DEF AdminStep
<1>2. CASE RestartAccounts
  <2>1. \A r \in Slots : ~Pending(r)'
    BY <1>2 DEF RestartAccounts, Pending
  <2>2. AccountFunctions'
    BY <1>2 DEF RestartAccounts, AccountsInv, AccountFunctions, accountVars
  <2>3. \A u \in Users : Faithful(u, token[u])' /\ login'[u] = Nothing
    BY <1>2, <2>1 DEF RestartAccounts, AccountsInv, accountVars, Faithful, Unused
  <2> QED
    BY <1>2, <2>1, <2>2, <2>3 DEF RestartAccounts, AccountsInv, accountVars, Faithful, Unused
<1>3. CASE UNCHANGED staffVars
  BY <1>3 DEF staffVars, accountVars, AccountsInv, AccountFunctions, Faithful, Unused, Pending
<1> QED
  BY <1>1, <1>2, <1>3, LoginKeeps DEF AccountStep

LEMMA AccountsInvSays == AccountsInv => HonouredIsCurrent
BY DEF AccountsInv, Faithful, HonouredIsCurrent, Honoured

\* A token comes to be honoured only by a login that read the account as it is.
OnlyLoginHonours ==
    \A u \in Users :
      ~Honoured(u) /\ Honoured(u)' =>
        /\ login[u] # Nothing /\ token'[u] = login[u]
        /\ login[u].generation = generation[u]

\* An administrator's change gives an account a version no token carries.
LEMMA ChangeRevokes ==
  ASSUME AccountsInv, NEW r \in Slots, Pending(r), Leave(r),
         NEW newRole, NEW newScope, Change(r, newRole, newScope) \/ UNCHANGED accountVars,
         NEW u \in Users, Honoured(u)'
  PROVE  Honoured(u)
<1>1. UNCHANGED token
  BY DEF Leave
<1>2. token[u] # Nothing /\ token[u].version = version'[u]
  BY <1>1 DEF Honoured
<1>3. token[u].version # request[r].start
  BY <1>2 DEF AccountsInv, Faithful, Unused
<1>4. role'[u] = role[u] /\ version'[u] = version[u]
  BY <1>2, <1>3 DEF Change, accountVars, AccountsInv, AccountFunctions
<1> QED
  BY <1>1, <1>4 DEF Honoured, Exists

LEMMA StepHonours ==
  ASSUME AccountsInv, AccountStep \/ UNCHANGED staffVars
  PROVE  OnlyLoginHonours
<1> SUFFICES ASSUME NEW u \in Users, ~Honoured(u), Honoured(u)'
             PROVE  /\ login[u] # Nothing /\ token'[u] = login[u]
                    /\ login[u].generation = generation[u]
  BY DEF OnlyLoginHonours
<1>1. ~UNCHANGED <<role, version, token>>
  BY DEF Honoured, Exists
<1>2. ASSUME NEW r \in Slots, AdminStep(r) PROVE FALSE
  <2>1. CASE \E new \in Roles : UpdateRole(r, new) \/ CreateUser(r, new)
    BY <2>1, ChangeRevokes DEF UpdateRole, CreateUser, Pending
  <2>2. CASE UpdateSector(r) \/ UpdatePassword(r) \/ DeleteUser(r)
    BY <2>2, ChangeRevokes DEF UpdateSector, UpdatePassword, DeleteUser, Pending
  <2>3. CASE (\E v, t \in Users : BeginUpdate(r, v, t) \/ BeginDelete(r, v, t) \/ BeginCreate(r, v, t))
               \/ Abandon(r)
    BY <1>1, <2>3 DEF BeginUpdate, BeginDelete, BeginCreate, Begin, Abandon, Leave, accountVars
  <2> QED
    BY <1>2, <2>1, <2>2, <2>3 DEF AdminStep
<1>3. PICK v \in Users : IssueToken(v)
  BY <1>1, <1>2 DEF AccountStep, LoginStep, ReadAccount, RestartAccounts, staffVars, accountVars
<1>4. v = u /\ token'[u] = login[u] /\ login[u] # Nothing /\ UNCHANGED <<role, version>>
  BY <1>3 DEF IssueToken, AccountsInv, AccountFunctions, Honoured, Exists, accountVars
<1>5. login[u].version = version[u]
  BY <1>4 DEF Honoured
<1> QED
  BY <1>4, <1>5 DEF AccountsInv, Faithful

-----------------------------------------------------------------------------
\* Types of the accounts' tables, and who an administrator's request may touch

\* Every start time given is spent on one request, and a request changes the
\* rights of an account once at most: what is still to come counts.
Underway == {r \in Slots : Pending(r)}

ChangesCounted ==
    /\ IsFiniteSet(Underway)
    /\ \A u \in Users : generation[u] + Cardinality(Underway) <= stamp

\* A request that read a privileged target is a super administrator's.
TargetChecked ==
    \A r \in Slots : Pending(r) /\ request[r].op # "create" /\ request[r].seen \in Privileged
                       => request[r].as = "super_admin"

AccountsTyped == AccountsTypeOK /\ ChangesCounted /\ TargetChecked

LEMMA AccountsTypedInit == AccountsInit => AccountsTyped
<1> SUFFICES ASSUME AccountsInit PROVE AccountsTyped
  OBVIOUS
<1>1. AccountsTypeOK
  BY AccountsAssumption DEF AccountsInit, AccountsTypeOK
<1>2. \A r \in Slots : ~Pending(r)
  BY DEF AccountsInit, Pending
<1>3. Underway = {}
  BY <1>2 DEF Underway
<1>4. ChangesCounted
  BY <1>3, FS_EmptySet DEF ChangesCounted, AccountsInit
<1> QED
  BY <1>1, <1>2, <1>4 DEF AccountsTyped, TargetChecked

LEMMA Counting ==
  ASSUME AccountsTyped
  PROVE  /\ Cardinality(Underway) \in Nat /\ stamp \in 0 .. MaxEdits /\ MaxEdits \in Nat
         /\ \A u \in Users : generation[u] \in Nat /\ generation[u] + Cardinality(Underway) <= stamp
<1>1. Cardinality(Underway) \in Nat
  BY FS_CardinalityType DEF AccountsTyped, ChangesCounted
<1> QED
  BY <1>1, AccountsAssumption DEF AccountsTyped, AccountsTypeOK, ChangesCounted

LEMMA LoginTyped ==
  ASSUME AccountsTyped, NEW u \in Users, LoginStep(u)
  PROVE  AccountsTyped'
<1>0. UNCHANGED <<role, scope, version, generation, request, stamp>>
  BY DEF LoginStep, ReadAccount, IssueToken, RestartAccounts, staffVars, accountVars
<1>1. CASE ReadAccount(u)
  <2>1. [role |-> role[u], version |-> version[u], generation |-> generation[u]] \in Sessions
    BY <1>1 DEF ReadAccount, Exists, AccountsTyped, AccountsTypeOK, Sessions
  <2> QED
    BY <1>0, <1>1, <2>1 DEF ReadAccount, AccountsTyped, AccountsTypeOK, ChangesCounted, Underway,
       Pending, TargetChecked
<1>2. CASE IssueToken(u)
  BY <1>0, <1>2 DEF IssueToken, AccountsTyped, AccountsTypeOK, ChangesCounted, Underway, Pending,
     TargetChecked
<1> QED
  BY <1>1, <1>2 DEF LoginStep

LEMMA BeginTyped ==
  ASSUME AccountsTyped, NEW r \in Slots, NEW u \in Users, NEW t \in Users,
         NEW op \in {"update", "delete", "create"}, Begin(r, u, t, op),
         role[t] \in Roles \cup {"absent"}, op # "create" => MayTouch(u, t)
  PROVE  AccountsTyped'
<1> DEFINE new == [op |-> op, as |-> token[u].role, target |-> t, seen |-> role[t],
                   start |-> stamp + 1]
<1>0. /\ UNCHANGED <<role, scope, version, generation, login, token>>
      /\ request' = [request EXCEPT ![r] = new] /\ stamp' = stamp + 1 /\ stamp < MaxEdits
      /\ ~Pending(r) /\ token[u].role \in Privileged
  BY DEF Begin, IsAdmin, accountVars, Pending
<1>1. stamp' \in 0 .. MaxEdits /\ stamp + 1 \in 1 .. MaxEdits
  BY <1>0, Counting
<1>2. new \in Requests
  BY <1>0, <1>1 DEF Requests
<1>3. AccountsTypeOK'
  BY <1>0, <1>1, <1>2 DEF AccountsTyped, AccountsTypeOK
<1>4. \A q \in Slots : request'[q] = IF q = r THEN new ELSE request[q]
  BY <1>0 DEF AccountsTyped, AccountsTypeOK
<1>5. TargetChecked'
  BY <1>0, <1>4 DEF AccountsTyped, TargetChecked, Pending, MayTouch
<1>6. Underway' \subseteq Underway \cup {r} /\ r \notin Underway /\ Underway \subseteq Underway'
  BY <1>0, <1>4 DEF Underway, Pending
<1>7. IsFiniteSet(Underway') /\ Cardinality(Underway') <= Cardinality(Underway) + 1
  <2>1. /\ IsFiniteSet(Underway \cup {r})
        /\ Cardinality(Underway \cup {r}) = Cardinality(Underway) + 1
    BY <1>6, FS_AddElement DEF AccountsTyped, ChangesCounted
  <2>2. Cardinality(Underway') <= Cardinality(Underway \cup {r})
    BY <1>6, <2>1, FS_Subset
  <2> QED
    BY <1>6, <2>1, <2>2, FS_Subset
<1>8. ChangesCounted'
  <2>1. Cardinality(Underway') \in Nat
    BY <1>7, FS_CardinalityType
  <2> QED
    BY <1>0, <1>7, <2>1, Counting DEF ChangesCounted
<1> QED
  BY <1>3, <1>5, <1>8 DEF AccountsTyped

\* A request ends, having changed its target once or nothing.
LEMMA LeaveTyped ==
  ASSUME AccountsTyped, NEW r \in Slots, Pending(r), Leave(r),
         NEW newRole \in Roles \cup {"gone"}, NEW newScope \in BOOLEAN,
         Change(r, newRole, newScope) \/ UNCHANGED accountVars
  PROVE  AccountsTyped'
<1> DEFINE t == request[r].target
<1>0. /\ UNCHANGED <<login, token, stamp>> /\ request'[r] = Nothing
      /\ \A q \in Slots \ {r} : request'[q] = request[q]
      /\ request' \in [Slots -> Requests \cup {Nothing}]
  BY DEF Leave, AccountsTyped, AccountsTypeOK
<1>1. t \in Users /\ request[r].start \in 1 .. MaxEdits
  BY DEF AccountsTyped, AccountsTypeOK, Pending, Requests
<1>2. Underway' = Underway \ {r} /\ r \in Underway
  BY <1>0 DEF Underway, Pending
<1>3. IsFiniteSet(Underway') /\ Cardinality(Underway') = Cardinality(Underway) - 1
  BY <1>2, FS_RemoveElement DEF AccountsTyped, ChangesCounted
<1>4. ASSUME NEW u \in Users
      PROVE  generation'[u] \in Nat /\ generation'[u] <= generation[u] + 1
  BY <1>1, Counting DEF Change, accountVars, AccountsTyped, AccountsTypeOK
<1>5. Cardinality(Underway') \in Nat
  BY <1>3, FS_CardinalityType
<1>6. ChangesCounted'
  BY <1>0, <1>3, <1>4, <1>5, Counting DEF ChangesCounted
<1>7. \A u \in Users : generation'[u] \in 0 .. MaxEdits
  BY <1>0, <1>3, <1>4, <1>5, Counting
<1>8. AccountsTypeOK'
  <2>1. CASE UNCHANGED accountVars
    BY <1>0, <2>1 DEF accountVars, AccountsTyped, AccountsTypeOK
  <2>2. CASE Change(r, newRole, newScope)
    <3>1. generation' \in [Users -> 0 .. MaxEdits]
      BY <1>7, <2>2 DEF Change, AccountsTyped, AccountsTypeOK
    <3>2. version' \in [Users -> 0 .. MaxEdits]
      BY <1>1, <2>2 DEF Change, AccountsTyped, AccountsTypeOK
    <3> QED
      BY <1>0, <2>2, <3>1, <3>2 DEF Change, AccountsTyped, AccountsTypeOK
  <2> QED
    BY <2>1, <2>2
<1>9. TargetChecked'
  BY <1>0 DEF AccountsTyped, TargetChecked, Pending
<1> QED
  BY <1>6, <1>8, <1>9 DEF AccountsTyped

LEMMA AccountsTypedNext ==
  ASSUME AccountsTyped, AccountStep \/ UNCHANGED staffVars
  PROVE  AccountsTyped'
<1>1. ASSUME NEW r \in Slots, AdminStep(r) PROVE AccountsTyped'
  <2>1. ASSUME NEW u \in Users, NEW t \in Users,
               BeginUpdate(r, u, t) \/ BeginDelete(r, u, t) \/ BeginCreate(r, u, t)
        PROVE  AccountsTyped'
    BY <2>1, BeginTyped DEF BeginUpdate, BeginDelete, BeginCreate, Exists
  <2>2. ASSUME NEW new \in Roles, UpdateRole(r, new) \/ CreateUser(r, new) PROVE AccountsTyped'
    <3>1. Pending(r) /\ Leave(r) /\ Change(r, new, new \in Scoped) /\ (new \in Scoped) \in BOOLEAN
      BY <2>2 DEF UpdateRole, CreateUser, Pending
    <3> QED
      BY <3>1, LeaveTyped
  <2>3. CASE UpdateSector(r) \/ UpdatePassword(r)
    <3>1. Pending(r) /\ role[request[r].target] \in Roles /\ request[r].target \in Users /\ Leave(r)
      BY <2>3 DEF UpdateSector, UpdatePassword, Pending, Exists, AccountsTyped, AccountsTypeOK,
         Requests
    <3>2. scope[request[r].target] \in BOOLEAN /\ (request[r].seen \in Scoped) \in BOOLEAN
      BY <3>1 DEF AccountsTyped, AccountsTypeOK
    <3>3. CASE UpdateSector(r)
      BY <3>1, <3>2, <3>3, LeaveTyped DEF UpdateSector
    <3>4. CASE UpdatePassword(r)
      BY <3>1, <3>2, <3>4, LeaveTyped DEF UpdatePassword
    <3> QED
      BY <2>3, <3>3, <3>4
  <2>4. CASE DeleteUser(r) \/ Abandon(r)
    BY <2>4, LeaveTyped DEF DeleteUser, Abandon, Pending
  <2> QED
    BY <1>1, <2>1, <2>2, <2>3, <2>4 DEF AdminStep
<1>2. CASE RestartAccounts
  <2>1. \A r \in Slots : ~Pending(r)'
    BY <1>2 DEF RestartAccounts, Pending
  <2>2. Underway' = {}
    BY <2>1 DEF Underway
  <2>3. ChangesCounted'
    <3>1. IsFiniteSet(Underway') /\ Cardinality(Underway') = 0
      BY <2>2, FS_EmptySet
    <3> QED
      BY <1>2, <3>1, Counting DEF ChangesCounted, RestartAccounts, accountVars
  <2>4. AccountsTypeOK'
    BY <1>2 DEF RestartAccounts, accountVars, AccountsTyped, AccountsTypeOK
  <2> QED
    BY <2>1, <2>3, <2>4 DEF AccountsTyped, TargetChecked
<1>3. CASE UNCHANGED staffVars
  BY <1>3 DEF staffVars, accountVars, AccountsTyped, AccountsTypeOK, ChangesCounted, Underway,
     Pending, TargetChecked
<1> QED
  BY <1>1, <1>2, <1>3, LoginTyped DEF AccountStep

\* A privileged account is changed by a super administrator's request, or by one
\* that read its target before the account was privileged.
SuperOrStale ==
    \A t \in Users :
      role[t] \in Privileged /\ version'[t] # version[t] =>
        \E r \in Slots :
          /\ Pending(r) /\ ~Pending(r)' /\ request[r].target = t
          /\ \/ request[r].as = "super_admin"
             \/ request[r].op # "create" /\ request[r].seen \notin Privileged

LEMMA LeaveTouches ==
  ASSUME AccountsTyped, NEW r \in Slots, Pending(r), Leave(r),
         NEW newRole, NEW newScope, Change(r, newRole, newScope),
         request[r].op = "create" => role[request[r].target] = "absent"
  PROVE  SuperOrStale
<1>1. request' = [request EXCEPT ![r] = Nothing] /\ request'[r] = Nothing
  BY DEF Leave, AccountsTyped, AccountsTypeOK
<1>2. \A t \in Users : version'[t] # version[t] => t = request[r].target
  BY DEF Change, AccountsTyped, AccountsTypeOK
<1>3. role[request[r].target] \in Privileged => request[r].op # "create"
  BY DEF Privileged
<1> QED
  BY <1>1, <1>2, <1>3 DEF SuperOrStale, Pending, AccountsTyped, TargetChecked

LEMMA StepTouches ==
  ASSUME AccountsTyped, AccountStep \/ UNCHANGED staffVars
  PROVE  SuperOrStale
<1>1. CASE UNCHANGED version
  BY <1>1 DEF SuperOrStale
<1>2. ASSUME NEW r \in Slots, AdminStep(r), version' # version PROVE SuperOrStale
  <2>1. CASE \E new \in Roles : UpdateRole(r, new) \/ CreateUser(r, new)
    BY <2>1, LeaveTouches DEF UpdateRole, CreateUser, Pending
  <2>2. CASE UpdateSector(r) \/ UpdatePassword(r) \/ DeleteUser(r)
    BY <2>2, LeaveTouches DEF UpdateSector, UpdatePassword, DeleteUser, Pending
  <2>3. CASE ~\E new \in Roles : UpdateRole(r, new) \/ CreateUser(r, new)
    BY <1>2, <2>2, <2>3 DEF AdminStep, BeginUpdate, BeginDelete, BeginCreate, Begin, Abandon,
       accountVars
  <2> QED
    BY <2>1, <2>3
<1>3. (\E u \in Users : LoginStep(u)) \/ RestartAccounts \/ UNCHANGED staffVars => UNCHANGED version
  BY DEF LoginStep, ReadAccount, IssueToken, RestartAccounts, staffVars, accountVars
<1> QED
  BY <1>1, <1>2, <1>3 DEF AccountStep

\* One request at a time: what it read is what there is.
SeenIsCurrent ==
    \A r \in Slots : Pending(r) /\ request[r].op # "create"
                       => request[r].seen = role[request[r].target]

LEMMA SeenKeeps ==
  ASSUME \A r, q \in Slots : r = q, AccountsTyped, SeenIsCurrent,
         AccountStep \/ UNCHANGED staffVars
  PROVE  SeenIsCurrent'
<1>1. CASE UNCHANGED <<role, request>>
  BY <1>1 DEF SeenIsCurrent, Pending
<1>2. CASE (\E u \in Users : LoginStep(u)) \/ UNCHANGED staffVars
  BY <1>1, <1>2 DEF LoginStep, ReadAccount, IssueToken, staffVars, accountVars
<1>3. CASE RestartAccounts
  BY <1>3 DEF RestartAccounts, SeenIsCurrent, Pending
<1>4. ASSUME NEW r \in Slots, AdminStep(r) PROVE SeenIsCurrent'
  <2>1. ASSUME Leave(r) PROVE SeenIsCurrent'
    <3>1. \A q \in Slots : ~Pending(q)'
      BY <2>1 DEF Leave, Pending, AccountsTyped, AccountsTypeOK
    <3> QED
      BY <3>1 DEF SeenIsCurrent
  <2>2. ASSUME NEW u \in Users, NEW t \in Users, NEW op, Begin(r, u, t, op) PROVE SeenIsCurrent'
    <3>1. /\ role' = role /\ request'[r].target = t /\ request'[r].seen = role[t]
          /\ \A q \in Slots : q = r
      BY <2>2 DEF Begin, accountVars, AccountsTyped, AccountsTypeOK
    <3> QED
      BY <3>1 DEF SeenIsCurrent
  <2> QED
    BY <1>4, <2>1, <2>2 DEF AdminStep, BeginUpdate, BeginDelete, BeginCreate, UpdateRole,
       CreateUser, UpdateSector, UpdatePassword, DeleteUser, Abandon
<1> QED
  BY <1>2, <1>3, <1>4 DEF AccountStep

-----------------------------------------------------------------------------
\* The whole

MonitoringInv == cast \in Casts /\ EvidenceInv /\ SocketInv /\ AccountsInv /\ AccountsTyped

\* A step of the whole is, for each part, a step of the part or none.
PartsStep ==
    /\ cast' = cast
    /\ ProctoringStep \/ UNCHANGED proctoringVars
    /\ SocketStep \/ UNCHANGED socketVars
    /\ AccountStep \/ UNCHANGED staffVars

LEMMA StepOfParts ==
  ASSUME MonitoringInv, [MonitoringNext]_monitoringVars
  PROVE  PartsStep
<1>0. /\ cast \in Casts /\ AccountsTyped
      /\ cast.pages \subseteq Pages /\ cast.sids \subseteq Sids /\ cast.faces \subseteq Identities
      /\ cast.users \subseteq Users /\ cast.slots \subseteq Slots /\ Proctors = Users
  BY MonitoringAssumption DEF MonitoringInv
<1>1. ASSUME NEW p \in cast.pages, Reporting(p) PROVE PartsStep
  BY <1>0, <1>1 DEF Reporting, ProctoringStep, PartsStep
<1>2. ASSUME NEW s \in cast.sids, Connection(s) PROVE PartsStep
  BY <1>0, <1>2 DEF Connection, SocketStep, PartsStep
<1>3. ASSUME NEW u \in cast.users, TakeAssessment(u) PROVE PartsStep
  BY <1>0, <1>3 DEF TakeAssessment, ProctoringStep, PartsStep
<1>4. ASSUME NEW u \in cast.users, Login(u) PROVE PartsStep
  BY <1>0, <1>4 DEF Login, AccountStep, PartsStep
<1>5. ASSUME NEW r \in cast.slots, Administration(r) PROVE PartsStep
  <2>1. request[r] # Nothing => request[r].target \in Users
    BY <1>0 DEF AccountsTyped, AccountsTypeOK, Requests
  <2>2. ProctoringStep \/ UNCHANGED proctoringVars
    BY <1>0, <1>5, <2>1 DEF Administration, ProctoringStep
  <2> QED
    BY <1>0, <1>5, <2>2 DEF Administration, AccountStep, PartsStep
<1>6. CASE Course
  BY <1>6 DEF Course, ProctoringStep, PartsStep
<1>7. CASE Crash
  BY <1>7 DEF Crash, ProctoringStep, SocketStep, AccountStep, PartsStep
<1>8. CASE UNCHANGED monitoringVars
  BY <1>8 DEF monitoringVars, PartsStep
<1> QED
  BY <1>1, <1>2, <1>3, <1>4, <1>5, <1>6, <1>7, <1>8 DEF MonitoringNext

LEMMA MonitoringInvNext ==
  ASSUME MonitoringInv, [MonitoringNext]_monitoringVars
  PROVE  MonitoringInv'
BY StepOfParts, EvidenceInvNext, SocketInvNext, AccountsInvNext, AccountsTypedNext
   DEF MonitoringInv, PartsStep

LEMMA MonitoringInvariant == MonitoringSpec => []MonitoringInv
<1>1. MonitoringInit => MonitoringInv
  BY EvidenceInvInit, SocketInvInit, AccountsInvInit, AccountsTypedInit
     DEF MonitoringInit, MonitoringInv
<1> QED
  BY <1>1, MonitoringInvNext, PTL DEF MonitoringSpec

\* The tables of the three parts hold values of their types, whatever the
\* number of edits, accounts, sockets and reports.
THEOREM MonitoringTypes == MonitoringSpec => []MonitoringTypeOK
<1>1. MonitoringInv => MonitoringTypeOK
  BY DEF MonitoringInv, EvidenceInv, SocketInv, AccountsTyped, MonitoringTypeOK
<1> QED
  BY <1>1, MonitoringInvariant, PTL

\* The parts keep to their own specifications however they are composed: what
\* is proved of one alone holds of it inside the whole.
THEOREM PartsKeepTheirOwn ==
  MonitoringSpec => /\ ProctoringInit /\ [][ProctoringStep]_proctoringVars
                    /\ SocketInit /\ [][SocketStep]_socketVars
                    /\ AccountsInit /\ [][AccountStep]_staffVars
<1>1. MonitoringInv /\ [MonitoringNext]_monitoringVars
        => [ProctoringStep]_proctoringVars /\ [SocketStep]_socketVars /\ [AccountStep]_staffVars
  BY StepOfParts DEF PartsStep
<1>2. MonitoringInit => ProctoringInit /\ SocketInit /\ AccountsInit
  BY DEF MonitoringInit
<1> QED
  BY <1>1, <1>2, MonitoringInvariant, PTL DEF MonitoringSpec

\* The cached number of violations never drifts from the rows: what a report
\* counted is still what there is when it commits, because one report at a time
\* holds the assessment's row from before its insert until after its commit, and
\* the deletion of the rows waits for it (_record_proctoring_violation).
THEOREM CountNeverDrifts == MonitoringSpec => []CountMatchesRows
<1>1. MonitoringInv => CountMatchesRows
  BY DEF MonitoringInv, EvidenceInv
<1> QED
  BY <1>1, MonitoringInvariant, PTL

\* Pictures and rows account for each other, for any number of reports,
\* crashes, deletions and lost answers (report_violation, _save_screenshot,
\* delete_candidate).
THEOREM EvidenceAlwaysAccounted == MonitoringSpec => []EvidenceAccounted
<1>1. MonitoringInv => EvidenceAccounted
  BY Accounted DEF MonitoringInv, EvidenceInv
<1> QED
  BY <1>1, MonitoringInvariant, PTL

\* The signalling tables always agree, for any number of sockets and rooms
\* (websocket_server.py connect, join_as_candidate, join_as_interviewer and
\* disconnect).
THEOREM RoomsAlwaysMatch == MonitoringSpec => []RoomsMatchConnections
<1>1. MonitoringInv => RoomsMatchConnections
  BY DEF MonitoringInv, SocketInv
<1> QED
  BY <1>1, MonitoringInvariant, PTL

\* Nothing is relayed out of an assessment (webrtc_offer, webrtc_answer,
\* ice_candidate).
THEOREM RelaysStayInRoom == MonitoringSpec => []RelayStaysInRoom
<1>1. MonitoringInv => RelayStaysInRoom
  BY DEF MonitoringInv, SocketInv
<1> QED
  BY <1>1, MonitoringInvariant, PTL

\* A token that is honoured is of the account as it is now, for any accounts
\* and any overlap of logins and edits (_is_staff_token_revoked).
THEOREM HonouredAreCurrent == MonitoringSpec => []HonouredIsCurrent
<1>1. MonitoringInv => HonouredIsCurrent
  BY AccountsInvSays DEF MonitoringInv
<1> QED
  BY <1>1, MonitoringInvariant, PTL

\* Once a token has stopped working it never works again, though versions are
\* not in the order of the writes: it takes a new login, and one that read the
\* account as it is (app.py _is_staff_token_revoked, _session_response).
THEOREM RevokedStaysRevoked == MonitoringSpec => [][OnlyLoginHonours]_staffVars
<1>1. MonitoringInv /\ [MonitoringNext]_monitoringVars => [OnlyLoginHonours]_staffVars
  BY StepOfParts, StepHonours DEF MonitoringInv, PartsStep
<1> QED
  BY <1>1, MonitoringInvariant, PTL DEF MonitoringSpec

\* What goes wrong when administrators overlap is one thing: a privileged
\* account is changed by a super administrator's request, or by one that read
\* it before it was privileged (update_user, delete_user).
THEOREM PrivilegedNeedsSuperOrStale == MonitoringSpec => [][SuperOrStale]_staffVars
<1>1. MonitoringInv /\ [MonitoringNext]_monitoringVars => [SuperOrStale]_staffVars
  BY StepOfParts, StepTouches DEF MonitoringInv, PartsStep
<1> QED
  BY <1>1, MonitoringInvariant, PTL DEF MonitoringSpec

\* One administrator's request at a time never touches a privileged account
\* unless it is a super administrator's, whatever logins and reports do
\* meanwhile: overlapping requests are needed for what the run account_check
\* finds (update_user, delete_user).
THEOREM OneRequestRespectsPrivilege ==
  ASSUME \A r, q \in Slots : r = q
  PROVE  MonitoringSpec => OnlySuperTouchesPrivileged
<1>1. MonitoringInit => SeenIsCurrent
  BY DEF MonitoringInit, AccountsInit, SeenIsCurrent, Pending
<1>2. MonitoringInv /\ SeenIsCurrent /\ [MonitoringNext]_monitoringVars => SeenIsCurrent'
  BY StepOfParts, SeenKeeps DEF MonitoringInv, PartsStep
<1>3. MonitoringInv /\ SeenIsCurrent /\ [MonitoringNext]_monitoringVars
        => [\A t \in Users :
              role[t] \in Privileged /\ version'[t] # version[t] =>
                \E r \in Slots :
                  /\ request[r] # Nothing /\ request'[r] = Nothing
                  /\ request[r].target = t /\ request[r].as = "super_admin"]_staffVars
  <2> SUFFICES ASSUME MonitoringInv, SeenIsCurrent, [MonitoringNext]_monitoringVars,
                      NEW t \in Users, role[t] \in Privileged, version'[t] # version[t]
               PROVE  \E r \in Slots :
                        /\ request[r] # Nothing /\ request'[r] = Nothing
                        /\ request[r].target = t /\ request[r].as = "super_admin"
    OBVIOUS
  <2>1. SuperOrStale
    BY StepOfParts, StepTouches DEF MonitoringInv, PartsStep
  <2> QED
    BY <2>1 DEF SuperOrStale, SeenIsCurrent, Pending
<1> QED
  BY <1>1, <1>2, <1>3, MonitoringInvariant, PTL DEF MonitoringSpec, OnlySuperTouchesPrivileged
=============================================================================
