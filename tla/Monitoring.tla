----------------------------- MODULE Monitoring -----------------------------
(***************************************************************************)
(* Live proctoring as a whole: the reports and pictures of one assessment, *)
(* the sockets that watch it, and the accounts of the staff who do.        *)
(*                                                                         *)
(* A proctor takes the assessment and connects with a token that must be   *)
(* current; a deleted account loses its assignment; a crash of the process *)
(* ends the requests, forgets the sockets and keeps rows and files.  The   *)
(* product of the three is out of reach, so each behaviour has a cast, the *)
(* reports, sockets, accounts and administrators' requests taking part and *)
(* what happens to the assessment.                                         *)
(***************************************************************************)
EXTENDS Proctoring, ProctorSockets, StaffAccounts

CONSTANTS
    Casts,       \* bound: who may take part together
    UserOf,      \* the account of each member of staff
    Watched      \* the assessment Proctoring is about

Events == {"start", "finish", "delete"}

ASSUME MonitoringAssumption ==
    /\ Proctors = Users /\ Unassigned \notin Users
    /\ UserOf \in [Staff -> Users]
    /\ Casts \subseteq [pages : SUBSET Pages, sids : SUBSET Sids, faces : SUBSET Identities,
                        users : SUBSET Users, slots : SUBSET Slots,
                        events : SUBSET Events]

VARIABLE cast

monitoringVars == <<cast, proctoringVars, socketVars, staffVars>>

MonitoringInit ==
    /\ cast \in Casts
    /\ ProctoringInit
    /\ SocketInit
    /\ AccountsInit

\* _verify_candidate_token; _verify_interviewer_jwt and
\* _verify_staff_assessment_access.  What is not this assessment's to refuse
\* the database may: Verify is also tried with FALSE.
Entitled(i) ==
    \/ RoomOf[i] # Watched
    \/ /\ status = "active"
       /\ i \in Staff =>
            LET u == UserOf[i]
            IN  /\ Honoured(u)
                /\ token[u].role \in Scoped => scope[u]
                /\ token[u].role = "proctor" => proctor = u

Reporting(p) == ReportStep(p) /\ UNCHANGED <<cast, socketVars, staffVars>>

Authenticate(s) ==
    \E ok \in {FALSE, opener[s] # NoOne /\ Entitled(opener[s])} : Verify(s, ok)

Connection(s) ==
    /\ (\E i \in cast.faces : Connect(s, i)) \/ Authenticate(s) \/ Handle(s)
    /\ UNCHANGED <<cast, proctoringVars, staffVars>>

\* assign_assessment with its proctor_required
TakeAssessment(u) ==
    /\ Honoured(u) /\ token[u].role = "proctor"
    /\ Assign(u)
    /\ UNCHANGED <<cast, socketVars, staffVars>>

\* The assessment starts and ends; its candidate is deleted.
Course ==
    /\ \/ "start" \in cast.events /\ Start
       \/ "finish" \in cast.events /\ Finish
       \/ "delete" \in cast.events /\ Deletion
    /\ UNCHANGED <<cast, socketVars, staffVars>>

Login(u) == LoginStep(u) /\ UNCHANGED <<cast, proctoringVars, socketVars>>

Administration(r) ==
    /\ AdminStep(r)
    /\ IF request[r] # Nothing /\ role'[request[r].target] = "gone"
         THEN ProctorDeleted(request[r].target)
         ELSE UNCHANGED proctoringVars
    /\ UNCHANGED <<cast, socketVars>>

Crash ==
    /\ RestartProctoring
    /\ RestartServer
    /\ RestartAccounts
    /\ UNCHANGED cast

MonitoringNext ==
    \/ \E p \in cast.pages : Reporting(p)
    \/ \E s \in cast.sids : Connection(s)
    \/ \E u \in cast.users : Login(u) \/ TakeAssessment(u)
    \/ \E r \in cast.slots : Administration(r)
    \/ Course
    \/ Crash

\* Handlers return, and the server notices in the end that a client is gone:
\* the heartbeat of its connection times out.
Served(s) ==
    /\ s \in cast.sids
    /\ Authenticate(s) \/ Register(s) \/ Disconnect(s)
    /\ UNCHANGED <<cast, proctoringVars, staffVars>>

MonitoringSpec ==
    /\ MonitoringInit
    /\ [][MonitoringNext]_monitoringVars
    /\ \A s \in Sids : WF_monitoringVars(Served(s))

-----------------------------------------------------------------------------

\* The tables of the three parts hold values of their types.
MonitoringTypeOK ==
    /\ cast \in Casts
    /\ ProctoringTypeOK
    /\ SocketTypeOK
    /\ AccountsTypeOK
=============================================================================
