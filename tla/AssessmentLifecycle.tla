------------------------ MODULE AssessmentLifecycle ------------------------
(***************************************************************************)
(* The hiring lifecycle of HireSense: candidate rows, schedule rows, the   *)
(* assessment row each schedule may have, and the staff and candidate      *)
(* requests that move them (backend/assessment_db.py and its routes).      *)
(*                                                                         *)
(* One action is one database transaction: every write below runs under    *)
(* row locks (SELECT ... FOR UPDATE) that it holds until it commits.  The  *)
(* scheduling and starting handlers run several transactions with slow     *)
(* calls in between (question generation, e-mail delivery); their position *)
(* between two transactions is kept in reqPc and in starting.              *)
(*                                                                         *)
(* The unique index on assessments.scheduled_assessment_id allows a        *)
(* schedule one assessment, so an assessment is named by its schedule.     *)
(***************************************************************************)
EXTENDS Naturals, FiniteSets

CONSTANTS
    Candidates,        \* candidate row ids
    Interviewers,      \* staff accounts that review candidates
    Schedules,         \* schedule row ids, never reused (SERIAL)
    Requests,          \* concurrent schedule requests the server can hold
    Nobody,            \* no candidate, interviewer or schedule
    OverrideStatuses,  \* statuses the administrator's edit form may write
    Restarts,          \* whether the server may restart, or lose an answer
    MaxNotices         \* final e-mails are counted up to this bound

CandidateStatuses ==
    {"applied", "absence_of_details", "pending", "under_review",
     "rejected", "completed", "hired"}
ScheduleStatuses == {"scheduled", "in_progress", "completed", "cancelled"}

ASSUME NobodyAssumption ==
    Nobody \notin Candidates \cup Interviewers \cup Schedules
ASSUME OverrideAssumption == OverrideStatuses \subseteq CandidateStatuses
ASSUME RestartsAssumption == Restarts \in BOOLEAN
ASSUME NoticesAssumption == MaxNotices \in Nat \ {0}

\* Candidates a reviewer may claim, and SCHEDULING_BLOCKED_CANDIDATE_STATUSES
\* restricted to the values the schema's check constraint admits.
ClaimableStatuses == {"applied", "pending", "absence_of_details"}
BlockedStatuses == {"completed", "hired", "rejected", "under_review"}
FinalStatuses == {"hired", "rejected"}
ActiveStatuses == {"scheduled", "in_progress"}

VARIABLES
    candStatus,   \* candidates.status; "absent" before, "deleted" after the row
    schedStatus,  \* scheduled_assessments.status; "none", "deleted" likewise
    schedCand,    \* scheduled_assessments.candidate_id
    schedOwner,   \* scheduled_assessments.interviewer_id
    token,        \* the mailed token still hashes to access_token_hash
    link,         \* the invitation link has reached the candidate
    asmt,         \* assessments.status of the schedule's assessment
    late,         \* its 60 minutes are used up
    snapshot,     \* its questions_data is stored
    decision,     \* its final_decision
    starting,     \* schedules whose start request has yet to store questions
    reqPc, reqWho, reqCand, reqSched,   \* schedule requests in the server
    reply,        \* the answer a finished schedule request gave
    notifying,    \* live handlers about to send each candidate a final e-mail
    notices,      \* history: final e-mails sent since the application opened
    offChain      \* history: an administrator took c off the documented chain

mailVars == <<notifying, notices>>
candVars == <<candStatus, mailVars, offChain>>
rowKeys == <<schedCand, schedOwner>>
schedVars == <<schedStatus, rowKeys, token>>
asmtVars == <<asmt, late, snapshot, decision>>
reqVars == <<reqPc, reqWho, reqCand, reqSched, reply>>
vars == <<candVars, schedVars, asmtVars, reqVars, link, starting>>

-----------------------------------------------------------------------------
\* Rows, and the questions the handlers ask of them

Exists(s) == schedStatus[s] \in ScheduleStatuses
CandidateExists(c) == candStatus[c] \in CandidateStatuses
SchedulesOf(c) == {s \in Schedules : Exists(s) /\ schedCand[s] = c}
ActiveOf(c) == {s \in SchedulesOf(c) : schedStatus[s] \in ActiveStatuses}
CompletedOf(c) == {s \in SchedulesOf(c) : asmt[s] = "completed"}

\* _candidate_access_scope: own assignment, or an applicant nobody scheduled
MayAccess(i, c) ==
    /\ CandidateExists(c)
    /\ \/ \E s \in SchedulesOf(c) : schedOwner[s] = i
       \/ candStatus[c] \in ClaimableStatuses /\ SchedulesOf(c) = {}

Init ==
    /\ candStatus = [c \in Candidates |-> "absent"]
    /\ notifying = [c \in Candidates |-> 0]
    /\ notices = [c \in Candidates |-> 0]
    /\ offChain = [c \in Candidates |-> FALSE]
    /\ schedStatus = [s \in Schedules |-> "none"]
    /\ schedCand = [s \in Schedules |-> Nobody]
    /\ schedOwner = [s \in Schedules |-> Nobody]
    /\ token = [s \in Schedules |-> FALSE]
    /\ asmt = [s \in Schedules |-> "absent"]
    /\ late = [s \in Schedules |-> FALSE]
    /\ snapshot = [s \in Schedules |-> FALSE]
    /\ decision = [s \in Schedules |-> "none"]
    /\ reqPc = [r \in Requests |-> "idle"]
    /\ reqWho = [r \in Requests |-> Nobody]
    /\ reqCand = [r \in Requests |-> Nobody]
    /\ reqSched = [r \in Requests |-> Nobody]
    /\ reply = [r \in Requests |-> "none"]
    /\ link = [s \in Schedules |-> FALSE]
    /\ starting = {}

-----------------------------------------------------------------------------
\* Applying

\* A resume is accepted, by the public form or by the staff's bulk upload.
Register(c) ==
    /\ candStatus[c] = "absent"
    /\ \E st \in {"applied", "absence_of_details"} :
         candStatus' = [candStatus EXCEPT ![c] = st]
    /\ UNCHANGED <<mailVars, offChain, schedVars, asmtVars, reqVars, link,
                   starting>>

-----------------------------------------------------------------------------
\* Scheduling: access check; generate questions; create; invite; maybe cancel

ScheduleBegin(r, i, c) ==
    /\ reqPc[r] = "idle"
    /\ MayAccess(i, c)
    /\ reqPc' = [reqPc EXCEPT ![r] = "checked"]
    /\ reqWho' = [reqWho EXCEPT ![r] = i]
    /\ reqCand' = [reqCand EXCEPT ![r] = c]
    /\ reqSched' = [reqSched EXCEPT ![r] = Nobody]
    /\ reply' = [reply EXCEPT ![r] = "none"]
    /\ UNCHANGED <<candVars, schedVars, asmtVars, link, starting>>

\* The handler of request r answers and is gone.
Answer(r, text) ==
    /\ reqPc' = [reqPc EXCEPT ![r] = "idle"]
    /\ reply' = [reply EXCEPT ![r] = text]
    /\ UNCHANGED <<reqWho, reqCand>>

\* Slip: only the candidate's status is consulted.
MayCreateByStatus(c) ==
    /\ CandidateExists(c)
    /\ candStatus[c] \notin BlockedStatuses

MayCreate(c) ==
    /\ CandidateExists(c)
    /\ candStatus[c] \notin BlockedStatuses
    /\ ActiveOf(c) = {}

\* Slip: the new schedule's candidate is not put under review.
CreateLeavesCandidate(r, s) ==
    /\ reqPc[r] = "checked"
    /\ MayCreate(reqCand[r])
    /\ schedStatus[s] = "none"
    /\ schedStatus' = [schedStatus EXCEPT ![s] = "scheduled"]
    /\ schedCand' = [schedCand EXCEPT ![s] = reqCand[r]]
    /\ schedOwner' = [schedOwner EXCEPT ![s] = reqWho[r]]
    /\ token' = [token EXCEPT ![s] = TRUE]
    /\ reqPc' = [reqPc EXCEPT ![r] = "inviting"]
    /\ reqSched' = [reqSched EXCEPT ![r] = s]
    /\ UNCHANGED <<candVars, asmtVars, reqWho, reqCand, reply, link, starting>>

\* create_scheduled_assessment: lock the candidate, insert, mark under review
CreateSchedule(r, s) ==
    /\ reqPc[r] = "checked"
    /\ MayCreate(reqCand[r])
    /\ schedStatus[s] = "none"
    /\ schedStatus' = [schedStatus EXCEPT ![s] = "scheduled"]
    /\ schedCand' = [schedCand EXCEPT ![s] = reqCand[r]]
    /\ schedOwner' = [schedOwner EXCEPT ![s] = reqWho[r]]
    /\ token' = [token EXCEPT ![s] = TRUE]
    /\ candStatus' = [candStatus EXCEPT ![reqCand[r]] = "under_review"]
    /\ reqPc' = [reqPc EXCEPT ![r] = "inviting"]
    /\ reqSched' = [reqSched EXCEPT ![r] = s]
    /\ UNCHANGED <<mailVars, offChain, asmtVars, reqWho, reqCand, reply, link,
                   starting>>

\* The checks fail, the job closed meanwhile, or generation or the insert fails.
CreateRefused(r) ==
    /\ reqPc[r] = "checked"
    /\ Answer(r, "error")
    /\ UNCHANGED <<candVars, schedVars, asmtVars, reqSched, link, starting>>

\* The mail reaches the candidate, whatever the sender makes of its delivery.
MailArrives(s) ==
    /\ Exists(s)
    /\ ~link[s]
    /\ link' = [link EXCEPT ![s] = TRUE]
    /\ UNCHANGED <<candVars, schedVars, asmtVars, reqVars, starting>>

InvitationSent(r) ==
    /\ reqPc[r] = "inviting"
    /\ link' = [link EXCEPT ![reqSched[r]] = TRUE]
    /\ Answer(r, "scheduled")
    /\ UNCHANGED <<candVars, schedVars, asmtVars, reqSched, starting>>

InvitationFailed(r) ==
    /\ reqPc[r] = "inviting"
    /\ reqPc' = [reqPc EXCEPT ![r] = "undelivered"]
    /\ UNCHANGED <<candVars, schedVars, asmtVars, reqWho, reqCand, reqSched,
                   reply, link, starting>>

\* Slip: ownership alone lets an undelivered schedule be cancelled.
CancellableIfOurs(r) ==
    /\ Exists(reqSched[r])
    /\ schedOwner[reqSched[r]] = reqWho[r]

\* cancel_schedule_after_invitation_failure: still unstarted and ours
Cancellable(r) ==
    LET s == reqSched[r] IN
    /\ schedStatus[s] = "scheduled"
    /\ schedOwner[s] = reqWho[r]
    /\ asmt[s] = "absent"

\* Slip: the candidate is left under review without a schedule.
CancelForgetsCandidate(r) ==
    /\ reqPc[r] = "undelivered"
    /\ Cancellable(r)
    /\ schedStatus' = [schedStatus EXCEPT ![reqSched[r]] = "cancelled"]
    /\ token' = [token EXCEPT ![reqSched[r]] = FALSE]
    /\ Answer(r, "cancelled")
    /\ UNCHANGED <<candVars, rowKeys, asmtVars, reqSched, link, starting>>

\* Slip: the mailed token keeps working after the cancellation.
CancelKeepsToken(r) ==
    LET s == reqSched[r] IN
    /\ reqPc[r] = "undelivered"
    /\ Cancellable(r)
    /\ candStatus[schedCand[s]] = "under_review"
    /\ schedStatus' = [schedStatus EXCEPT ![s] = "cancelled"]
    /\ candStatus' = [candStatus EXCEPT ![schedCand[s]] = "applied"]
    /\ Answer(r, "cancelled")
    /\ UNCHANGED <<mailVars, offChain, rowKeys, token, asmtVars, reqSched,
                   link, starting>>

\* The cancellation commits; the answer to the commit may be lost.
CancelUndelivered(r) ==
    LET s == reqSched[r] IN
    /\ reqPc[r] = "undelivered"
    /\ Cancellable(r)
    /\ candStatus[schedCand[s]] = "under_review"
    /\ schedStatus' = [schedStatus EXCEPT ![s] = "cancelled"]
    /\ token' = [token EXCEPT ![s] = FALSE]
    /\ candStatus' = [candStatus EXCEPT ![schedCand[s]] = "applied"]
    /\ Answer(r, "cancelled") \/ Answer(r, "error")
    /\ UNCHANGED <<mailVars, offChain, rowKeys, asmtVars, reqSched, link,
                   starting>>

\* It returned False: the schedule's state had advanced.
CancelSkipped(r) ==
    /\ reqPc[r] = "undelivered"
    /\ ~Cancellable(r)
    /\ Answer(r, "unconfirmed")
    /\ UNCHANGED <<candVars, schedVars, asmtVars, reqSched, link, starting>>

\* The candidate is no longer under review: it raised, and rolled back.
CancelRolledBack(r) ==
    /\ reqPc[r] = "undelivered"
    /\ Cancellable(r)
    /\ candStatus[schedCand[reqSched[r]]] # "under_review"
    /\ Answer(r, "conflict")
    /\ UNCHANGED <<candVars, schedVars, asmtVars, reqSched, link, starting>>

\* Slip: a database failure is taken for a schedule that had advanced.
CancelFailsQuietly(r) ==
    /\ reqPc[r] = "undelivered"
    /\ Answer(r, "unconfirmed")
    /\ UNCHANGED <<candVars, schedVars, asmtVars, reqSched, link, starting>>

\* The database fails it: the schedule stays as it is, and open if it was.
CancelFails(r) ==
    /\ reqPc[r] = "undelivered"
    /\ Answer(r, "error")
    /\ UNCHANGED <<candVars, schedVars, asmtVars, reqSched, link, starting>>

-----------------------------------------------------------------------------
\* E-mails, begun or sent, are counted up to MaxNotices.
OneMore(f, c) == [f EXCEPT ![c] = IF @ < MaxNotices THEN @ + 1 ELSE @]

\* Rejecting before the assessment starts (reject_scheduled_candidate)

RejectScheduled(i, s) ==
    LET c == schedCand[s] IN
    /\ Exists(s)
    /\ schedStatus[s] = "scheduled"
    /\ schedOwner[s] = i
    /\ candStatus[c] \notin {"completed", "hired", "rejected"}
    /\ schedStatus' = [schedStatus EXCEPT ![s] = "cancelled"]
    /\ candStatus' = [candStatus EXCEPT ![c] = "rejected"]
    /\ notifying' = OneMore(notifying, c)
    /\ UNCHANGED <<notices, offChain, rowKeys, token, asmtVars, reqVars, link,
                   starting>>

RejectUnscheduled(c) ==
    /\ candStatus[c] \in ClaimableStatuses
    /\ SchedulesOf(c) = {}
    /\ candStatus' = [candStatus EXCEPT ![c] = "rejected"]
    /\ notifying' = OneMore(notifying, c)
    /\ UNCHANGED <<notices, offChain, schedVars, asmtVars, reqVars, link,
                   starting>>

-----------------------------------------------------------------------------
\* Taking the assessment

\* The candidate's link resolves to this row: the token's hash is the row's.
Resolves(s) == link[s] /\ token[s]

\* Slip: the schedule's status is not looked at again under the lock.
StartIgnoresStatus(s) ==
    /\ Resolves(s)
    /\ Exists(s)
    /\ asmt[s] \in {"absent", "in_progress"}
    /\ ~late[s]
    /\ schedStatus' = [schedStatus EXCEPT ![s] = "in_progress"]
    /\ asmt' = [asmt EXCEPT ![s] = "in_progress"]
    /\ starting' = IF snapshot[s] THEN starting ELSE starting \cup {s}
    /\ UNCHANGED <<candVars, rowKeys, token, late, snapshot, decision,
                   reqVars, link>>

\* start_assessment_by_token: create or resume; then store the questions
StartAssessment(s) ==
    /\ Resolves(s)
    /\ schedStatus[s] \in ActiveStatuses
    /\ asmt[s] \in {"absent", "in_progress"}
    /\ ~late[s]
    /\ schedStatus' = [schedStatus EXCEPT ![s] = "in_progress"]
    /\ asmt' = [asmt EXCEPT ![s] = "in_progress"]
    /\ starting' = IF snapshot[s] THEN starting ELSE starting \cup {s}
    /\ UNCHANGED <<candVars, rowKeys, token, late, snapshot, decision,
                   reqVars, link>>

SaveQuestions(s) ==
    /\ s \in starting
    /\ asmt[s] = "in_progress"
    /\ ~late[s]
    /\ snapshot' = [snapshot EXCEPT ![s] = TRUE]
    /\ starting' = starting \ {s}
    /\ UNCHANGED <<candVars, schedVars, asmt, late, decision, reqVars, link>>

\* Generation or the write failed, or the row is no longer active.
StartAbandoned(s) ==
    /\ s \in starting
    /\ starting' = starting \ {s}
    /\ UNCHANGED <<candVars, schedVars, asmtVars, reqVars, link>>

TimeRunsOut(s) ==
    /\ asmt[s] = "in_progress"
    /\ ~late[s]
    /\ late' = [late EXCEPT ![s] = TRUE]
    /\ UNCHANGED <<candVars, schedVars, asmt, snapshot, decision, reqVars,
                   link, starting>>

\* Slip: a repeated completion overwrites a final status.
CompleteOverwrites(s) ==
    /\ Resolves(s)
    /\ schedStatus[s] \in {"in_progress", "completed"}
    /\ asmt[s] \in {"in_progress", "completed"}
    /\ snapshot[s]
    /\ asmt' = [asmt EXCEPT ![s] = "completed"]
    /\ schedStatus' = [schedStatus EXCEPT ![s] = "completed"]
    /\ candStatus' = [candStatus EXCEPT ![schedCand[s]] = "completed"]
    /\ UNCHANGED <<mailVars, offChain, rowKeys, token, late, snapshot,
                   decision, reqVars, link, starting>>

\* finalize_assessment, reached by /complete, a late /start or a repeated call
Complete(s) ==
    LET c == schedCand[s] IN
    /\ Resolves(s)
    /\ schedStatus[s] \in {"in_progress", "completed"}
    /\ asmt[s] \in {"in_progress", "completed"}
    /\ snapshot[s]
    /\ asmt' = [asmt EXCEPT ![s] = "completed"]
    /\ schedStatus' = [schedStatus EXCEPT ![s] = "completed"]
    /\ candStatus' = [candStatus EXCEPT
                        ![c] = IF @ \in FinalStatuses THEN @ ELSE "completed"]
    /\ UNCHANGED <<mailVars, offChain, rowKeys, token, late, snapshot,
                   decision, reqVars, link, starting>>

-----------------------------------------------------------------------------
\* Deciding (record_final_decision): never the opposite of a recorded decision

\* Slip: the decision label is written as the status.
StatusOfLabel(d) == d

StatusOf(d) == IF d = "Hire" THEN "hired" ELSE "rejected"

\* Slip: every identical retry asks for the e-mail again.
DecideAlwaysNotifies(i, s, d) ==
    LET c == schedCand[s] IN
    /\ Exists(s)
    /\ schedOwner[s] = i
    /\ asmt[s] = "completed"
    /\ decision[s] \in {"none", d}
    /\ decision' = [decision EXCEPT ![s] = d]
    /\ candStatus' = [candStatus EXCEPT ![c] = StatusOf(d)]
    /\ notifying' = OneMore(notifying, c)
    /\ UNCHANGED <<notices, offChain, schedVars, asmt, late, snapshot, reqVars,
                   link, starting>>

\* Slip: whether to notify is asked after the write, of the written row.
DecideReadsBack(i, s, d) ==
    LET c == schedCand[s] IN
    /\ Exists(s)
    /\ schedOwner[s] = i
    /\ asmt[s] = "completed"
    /\ decision[s] \in {"none", d}
    /\ decision' = [decision EXCEPT ![s] = d]
    /\ candStatus' = [candStatus EXCEPT ![c] = StatusOf(d)]
    /\ notifying' = IF decision'[s] # d \/ candStatus'[c] # StatusOf(d)
                      THEN OneMore(notifying, c) ELSE notifying
    /\ UNCHANGED <<notices, offChain, schedVars, asmt, late, snapshot, reqVars,
                   link, starting>>

Decide(i, s, d) ==
    LET c == schedCand[s] IN
    /\ Exists(s)
    /\ schedOwner[s] = i
    /\ asmt[s] = "completed"
    /\ decision[s] \in {"none", d}
    /\ decision' = [decision EXCEPT ![s] = d]
    /\ candStatus' = [candStatus EXCEPT ![c] = StatusOf(d)]
    /\ notifying' = IF decision[s] # d \/ candStatus[c] # StatusOf(d)
                      THEN OneMore(notifying, c) ELSE notifying
    /\ UNCHANGED <<notices, offChain, schedVars, asmt, late, snapshot,
                   reqVars, link, starting>>

\* The rejecting or deciding handler, past its commit, sends the final e-mail.
NotifyFinal(c) ==
    /\ notifying[c] > 0
    /\ notifying' = [notifying EXCEPT ![c] = @ - 1]
    /\ notices' = OneMore(notices, c)
    /\ UNCHANGED <<candStatus, offChain, schedVars, asmtVars, reqVars, link,
                   starting>>

\* The answer to that commit was lost: the handler answers an error instead.
OutcomeUnheard(c) ==
    /\ Restarts
    /\ notifying[c] > 0
    /\ notifying' = [notifying EXCEPT ![c] = @ - 1]
    /\ UNCHANGED <<candStatus, notices, offChain, schedVars, asmtVars, reqVars,
                   link, starting>>

-----------------------------------------------------------------------------
\* Administration

\* PUT /candidates/<id>: the status field is written without looking around.
AdminSetStatus(c, st) ==
    /\ CandidateExists(c)
    /\ st \in OverrideStatuses
    /\ candStatus' = [candStatus EXCEPT ![c] = st]
    /\ offChain' = [offChain EXCEPT ![c] = TRUE]
    /\ UNCHANGED <<mailVars, schedVars, asmtVars, reqVars, link, starting>>

\* Reset to "applied", refused while a schedule or an assessment is active.
AdminReset(c) ==
    /\ CandidateExists(c)
    /\ ActiveOf(c) = {}
    /\ \A s \in SchedulesOf(c) : asmt[s] # "in_progress"
    /\ candStatus' = [candStatus EXCEPT ![c] = "applied"]
    /\ notices' = [notices EXCEPT ![c] = 0]
    /\ offChain' = [offChain EXCEPT
                      ![c] = @ \/ CompletedOf(c) # {} \/ notifying[c] > 0]
    /\ UNCHANGED <<notifying, schedVars, asmtVars, reqVars, link, starting>>

\* Delete the candidate; foreign keys cascade to schedules and assessments.
AdminDelete(c) ==
    LET Clear(f, x) ==
          [s \in Schedules |-> IF s \in SchedulesOf(c) THEN x ELSE f[s]] IN
    /\ CandidateExists(c)
    /\ candStatus' = [candStatus EXCEPT ![c] = "deleted"]
    /\ schedStatus' = Clear(schedStatus, "deleted")
    /\ token' = Clear(token, FALSE)
    /\ asmt' = Clear(asmt, "absent")
    /\ late' = Clear(late, FALSE)
    /\ snapshot' = Clear(snapshot, FALSE)
    /\ decision' = Clear(decision, "none")
    /\ UNCHANGED <<mailVars, offChain, rowKeys, reqVars, link, starting>>

\* The single worker is restarted: every handler in flight is lost.
ServerRestart ==
    /\ Restarts
    /\ reqPc' = [r \in Requests |-> "idle"]
    /\ starting' = {}
    /\ notifying' = [c \in Candidates |-> 0]
    /\ UNCHANGED <<candStatus, notices, offChain, schedVars, asmtVars, reqWho,
                   reqCand, reqSched, reply, link>>

-----------------------------------------------------------------------------

HandlerStep(r) ==
    \/ \E s \in Schedules : CreateSchedule(r, s)
    \/ CreateRefused(r)
    \/ InvitationSent(r)
    \/ InvitationFailed(r)
    \/ CancelUndelivered(r)
    \/ CancelSkipped(r)
    \/ CancelRolledBack(r)
    \/ CancelFails(r)

StaffStep ==
    \/ \E r \in Requests, i \in Interviewers, c \in Candidates :
         ScheduleBegin(r, i, c)
    \/ \E r \in Requests : HandlerStep(r)
    \/ \E i \in Interviewers, s \in Schedules : RejectScheduled(i, s)
    \/ \E c \in Candidates : RejectUnscheduled(c)
    \/ \E i \in Interviewers, s \in Schedules, d \in {"Hire", "No-Hire"} :
         Decide(i, s, d)
    \/ \E c \in Candidates : NotifyFinal(c) \/ OutcomeUnheard(c)

CandidateStep ==
    \/ \E c \in Candidates : Register(c)
    \/ \E s \in Schedules :
         \/ MailArrives(s)
         \/ StartAssessment(s)
         \/ SaveQuestions(s)
         \/ StartAbandoned(s)
         \/ TimeRunsOut(s)
         \/ Complete(s)

AdminStep ==
    \E c \in Candidates :
      \/ \E st \in OverrideStatuses : AdminSetStatus(c, st)
      \/ AdminReset(c)
      \/ AdminDelete(c)

Next == StaffStep \/ CandidateStep \/ AdminStep \/ ServerRestart

Spec == Init /\ [][Next]_vars

-----------------------------------------------------------------------------
\* Fairness: the eventlet worker runs every handler to its answer, sends the
\* mail of a committed decision, and neither outlives a restart.

HandlerFairness ==
    /\ \A r \in Requests : WF_vars(HandlerStep(r))
    /\ \A c \in Candidates : WF_vars(NotifyFinal(c))

FairSpec == Spec /\ HandlerFairness

-----------------------------------------------------------------------------
\* What must hold

TypeOK ==
    /\ candStatus \in
         [Candidates -> CandidateStatuses \cup {"absent", "deleted"}]
    /\ schedStatus \in [Schedules -> ScheduleStatuses \cup {"none", "deleted"}]
    /\ schedCand \in [Schedules -> Candidates \cup {Nobody}]
    /\ schedOwner \in [Schedules -> Interviewers \cup {Nobody}]
    /\ token \in [Schedules -> BOOLEAN]
    /\ link \in [Schedules -> BOOLEAN]
    /\ asmt \in [Schedules -> {"absent", "in_progress", "completed"}]
    /\ late \in [Schedules -> BOOLEAN]
    /\ snapshot \in [Schedules -> BOOLEAN]
    /\ decision \in [Schedules -> {"none", "Hire", "No-Hire"}]
    /\ starting \subseteq Schedules
    /\ reqPc \in [Requests -> {"idle", "checked", "inviting", "undelivered"}]
    /\ reqWho \in [Requests -> Interviewers \cup {Nobody}]
    /\ reqCand \in [Requests -> Candidates \cup {Nobody}]
    /\ reqSched \in [Requests -> Schedules \cup {Nobody}]
    /\ reply \in [Requests -> {"none", "error", "scheduled", "cancelled",
                              "unconfirmed", "conflict"}]
    /\ notifying \in [Candidates -> 0 .. MaxNotices]
    /\ notices \in [Candidates -> 0 .. MaxNotices]
    /\ offChain \in [Candidates -> BOOLEAN]

\* DATABASE.md: at most one active schedule per candidate.  It must hold even
\* when two reviewers passed the access check together and the administrator
\* rewrote the status that would have blocked the second of them.
OneActiveSchedule ==
    \A c \in Candidates : \A s, t \in ActiveOf(c) : s = t

\* Start, finalize, cancel and reject each write the schedule and assessment
\* rows together: no interleaving leaves one of them ahead of the other.
ScheduleMatchesAssessment ==
    \A s \in Schedules :
      asmt[s] = IF schedStatus[s] \in {"in_progress", "completed"}
                  THEN schedStatus[s] ELSE "absent"

\* The candidate chain: while no administrator intervened, a candidate is
\* under review exactly while one of their schedules is active.
UnderReviewIffActive ==
    \A c \in Candidates :
      CandidateExists(c) /\ ~offChain[c]
        => (candStatus[c] = "under_review" <=> ActiveOf(c) # {})

\* record_final_decision: a completed assessment never says "Hire" while the
\* candidate still has a non-final status, or the inverse; a retried
\* completion does not break the agreement either.
DecisionAgrees ==
    \A c \in Candidates :
      CandidateExists(c) /\ ~offChain[c] =>
        /\ \A s \in CompletedOf(c) :
             candStatus[c] = IF decision[s] = "none" THEN "completed"
                             ELSE StatusOf(decision[s])
        /\ candStatus[c] \in {"completed", "hired"} => CompletedOf(c) # {}

\* However rejections, decisions and their retries interleave, a candidate is
\* sent at most one final e-mail, and none before the outcome is final.
OneNotice ==
    \A c \in Candidates :
      ~offChain[c] =>
        /\ notices[c] + notifying[c] <= 1
        /\ notifying[c] > 0 \/ notices[c] > 0
             => candStatus[c] \in FinalStatuses \cup {"deleted"}

\* What the schedule request was told stays true: a cancelled invitation can
\* never be used, an unconfirmed one had really advanced, the cancellation
\* conflicts only with an administrator, and a sent link works while active.
RepliesHold ==
    \A r \in Requests :
      LET s == reqSched[r] IN
      /\ reply[r] = "cancelled"
           => schedStatus[s] \in {"cancelled", "deleted"} /\ ~token[s]
      /\ reply[r] = "unconfirmed" => schedStatus[s] # "scheduled"
      /\ reply[r] = "conflict" => offChain[reqCand[r]]
      /\ reply[r] = "scheduled" /\ schedStatus[s] \in ActiveStatuses
           => Resolves(s)

\* BACKEND_FLOW_MAP.md: cancelled schedules are terminal, and so are completed
\* ones, although the token of a rejected candidate's schedule still resolves.
TerminalSchedules ==
    [][\A s \in Schedules :
         schedStatus[s] \in {"cancelled", "completed"}
           => schedStatus'[s] \in {schedStatus[s], "deleted"}]_vars

\* A final status is left only by the administrator's hand: no late start,
\* retried completion, failed invitation or second reviewer undoes it.
FinalStands ==
    [][\A c \in Candidates :
         candStatus[c] \in FinalStatuses /\ ~offChain'[c]
           => \/ candStatus'[c] = candStatus[c]
              \/ AdminReset(c) \/ AdminDelete(c)]_vars

\* Without restarts a schedule whose invitation failed does not stay open
\* unnoticed: it is cancelled, or started, or an administrator took the
\* candidate over, or the reviewer is answered an error, because the database
\* failed the cancellation (interviewer_routes.py:798).
UndeliveredSettles ==
    \A r \in Requests, s \in Schedules :
      reqPc[r] = "undelivered" /\ reqSched[r] = s
        ~> \/ schedStatus[s] # "scheduled"
           \/ offChain[schedCand[s]]
           \/ reply[r] = "error"

\* Without restarts and lost answers the mail of every rejected or hired
\* candidate's outcome is attempted (delivery itself is best effort: a failed
\* one is not repeated).
FinalIsMailed ==
    \A c \in Candidates :
      candStatus[c] \in FinalStatuses
        ~> notices[c] > 0 \/ offChain[c] \/ candStatus[c] = "applied"

-----------------------------------------------------------------------------
\* What a document or a test says, and the code does not do

\* finalize_assessment: repeated completion requests are idempotent.  A repeat
\* must not end the review that a newer, active schedule stands for.
CompletionRetrySafe ==
    [][\A s \in Schedules :
         Complete(s) /\ asmt[s] = "completed" /\ ActiveOf(schedCand[s]) # {}
           => UNCHANGED candStatus]_vars

\* A schedule cannot claim a candidate assigned to someone else
\* (tests/test_interviewer_authorization.py).
NoForeignClaim ==
    [][\A r \in Requests, s \in Schedules :
         CreateSchedule(r, s) => MayAccess(reqWho[r], reqCand[r])]_vars
=============================================================================
