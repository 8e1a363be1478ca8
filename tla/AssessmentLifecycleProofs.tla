--------------------- MODULE AssessmentLifecycleProofs ---------------------
(***************************************************************************)
(* Proofs, for every set of candidates, reviewers, schedules and requests, *)
(* of the safety properties of AssessmentLifecycle.                        *)
(*                                                                         *)
(* They follow from one inductive invariant, IInv: the properties the runs *)
(* check, plus what the handlers rely on without saying so - a schedule    *)
(* belongs to a live candidate, a request past its insert knows its row,   *)
(* an active schedule's token works, decisions are about completed         *)
(* assessments, and on the documented chain a candidate completes one.     *)
(***************************************************************************)
EXTENDS AssessmentLifecycle, TLAPS

-----------------------------------------------------------------------------
\* The inductive invariant

\* The foreign keys: a schedule row has a candidate row.
RowsOK ==
    \A s \in Schedules :
      Exists(s) => schedCand[s] \in Candidates /\ CandidateExists(schedCand[s])

\* Request r knows its candidate and the row it inserted for it.
Bound(r) ==
    /\ reqCand[r] \in Candidates
    /\ reqSched[r] \in Schedules
    /\ schedStatus[reqSched[r]] # "none"
    /\ schedCand[reqSched[r]] = reqCand[r]
    /\ schedOwner[reqSched[r]] = reqWho[r]

RequestsOK ==
    \A r \in Requests :
      /\ reqPc[r] # "idle" =>
           /\ reqCand[r] \in Candidates
           /\ reqWho[r] \in Interviewers
           /\ reply[r] = "none"
      /\ reqPc[r] \in {"inviting", "undelivered"} => Bound(r)
      /\ reply[r] \notin {"none", "error"} => Bound(r)

TokensOK == \A s \in Schedules : schedStatus[s] \in ActiveStatuses => token[s]

DecisionsOK ==
    \A s \in Schedules : decision[s] # "none" => asmt[s] = "completed"

\* Applicants start on the documented chain; on it they complete at most one
\* assessment.
ChainOK ==
    \A c \in Candidates :
      /\ candStatus[c] = "absent" => ~offChain[c]
      /\ CandidateExists(c) /\ ~offChain[c]
           => \A s, t \in CompletedOf(c) : s = t

\* What only the rows' statuses decide.
RowInv ==
    /\ RowsOK /\ DecisionsOK /\ ChainOK
    /\ OneActiveSchedule /\ ScheduleMatchesAssessment
    /\ UnderReviewIffActive /\ DecisionAgrees

IInv == TypeOK /\ RowInv /\ TokensOK /\ OneNotice /\ RequestsOK /\ RepliesHold

LEMMA Initially == Init => IInv
BY NoticesAssumption DEF Init, IInv, RowInv, TypeOK, RowsOK, TokensOK,
   DecisionsOK, ChainOK, OneActiveSchedule, ScheduleMatchesAssessment,
   UnderReviewIffActive, DecisionAgrees, OneNotice, RequestsOK, RepliesHold,
   Exists, CandidateExists, SchedulesOf, ActiveOf, CompletedOf,
   CandidateStatuses, ScheduleStatuses, ActiveStatuses, FinalStatuses

\* Steps that write no status leave what the statuses decide as it is.
LEMMA RowsFrame ==
  ASSUME RowInv, UNCHANGED <<candStatus, offChain, schedVars, asmt, decision>>
  PROVE  RowInv'
BY DEF RowInv, RowsOK, DecisionsOK, ChainOK, OneActiveSchedule,
   ScheduleMatchesAssessment, UnderReviewIffActive, DecisionAgrees, Exists,
   CandidateExists, SchedulesOf, ActiveOf, CompletedOf, schedVars, rowKeys

-----------------------------------------------------------------------------
\* Steps of the schedule request that write no row

LEMMA ScheduleBeginKeeps ==
  ASSUME IInv, NEW r \in Requests, NEW i \in Interviewers, NEW c \in Candidates,
         ScheduleBegin(r, i, c)
  PROVE  IInv'
<1> USE DEF IInv, TypeOK, ScheduleBegin, candVars, schedVars, rowKeys, asmtVars,
            mailVars
<1>1. TypeOK'
  OBVIOUS
<1>2. RowInv'
  BY RowsFrame
<1>3. TokensOK' /\ OneNotice'
  BY DEF TokensOK, OneNotice
<1>4. RequestsOK' /\ RepliesHold'
  BY DEF RequestsOK, Bound, RepliesHold, Resolves, ActiveStatuses
<1> QED
  BY <1>1, <1>2, <1>3, <1>4

LEMMA AnswerKeeps ==
  ASSUME IInv, NEW r \in Requests,
         CreateRefused(r) \/ InvitationSent(r) \/ CancelSkipped(r)
           \/ CancelRolledBack(r) \/ CancelFails(r)
  PROVE  IInv'
<1> USE DEF IInv, TypeOK, CreateRefused, InvitationSent, CancelSkipped,
            CancelRolledBack, CancelFails, Answer, candVars, schedVars, rowKeys, asmtVars,
            mailVars
<1>0. TypeOK'
  <2>1. CASE CreateRefused(r)
    BY <2>1
  <2>2. CASE InvitationSent(r)
    BY <2>2
  <2>3. CASE CancelSkipped(r)
    BY <2>3
  <2>4. CASE CancelRolledBack(r)
    BY <2>4
  <2>5. CASE CancelFails(r)
    BY <2>5
  <2> QED
    BY <2>1, <2>2, <2>3, <2>4, <2>5
<1>1. RowInv'
  BY RowsFrame
<1>2. TokensOK' /\ OneNotice'
  BY DEF TokensOK, OneNotice
<1>3. RequestsOK'
  BY DEF RequestsOK, Bound
<1>4. RepliesHold'
  <2>1. CASE CreateRefused(r)
    BY <2>1 DEF RepliesHold, Resolves, RequestsOK, Bound
  <2>2. CASE InvitationSent(r)
    BY <2>2 DEF RepliesHold, Resolves, RequestsOK, Bound, TokensOK
  <2>3. CASE CancelSkipped(r)
    BY <2>3 DEF RepliesHold, Resolves, RequestsOK, Bound, Cancellable, RowInv,
                ScheduleMatchesAssessment
  <2>4. CASE CancelRolledBack(r)
    <3>1. LET s == reqSched[r] IN
          /\ s \in ActiveOf(reqCand[r])
          /\ CandidateExists(reqCand[r])
      BY <2>4 DEF RequestsOK, Bound, Cancellable, RowInv, RowsOK, ActiveOf,
                  SchedulesOf, Exists, ScheduleStatuses, ActiveStatuses
    <3>2. offChain[reqCand[r]]
      BY <2>4, <3>1 DEF RequestsOK, Bound, RowInv, UnderReviewIffActive
    <3> QED
      BY <2>4, <3>2 DEF RepliesHold, Resolves, RequestsOK, Bound
  <2>5. CASE CancelFails(r)
    BY <2>5 DEF RepliesHold, Resolves, RequestsOK, Bound
  <2> QED
    BY <2>1, <2>2, <2>3, <2>4, <2>5
<1> QED
  BY <1>0, <1>1, <1>2, <1>3, <1>4

LEMMA InvitationFailedKeeps ==
  ASSUME IInv, NEW r \in Requests, InvitationFailed(r)
  PROVE  IInv'
<1> USE DEF IInv, TypeOK, InvitationFailed, candVars, schedVars, rowKeys,
            asmtVars, mailVars
<1>1. TypeOK'
  OBVIOUS
<1>2. RowInv'
  BY RowsFrame
<1>3. TokensOK' /\ OneNotice'
  BY DEF TokensOK, OneNotice
<1>4. RequestsOK' /\ RepliesHold'
  BY DEF RequestsOK, Bound, RepliesHold, Resolves
<1> QED
  BY <1>1, <1>2, <1>3, <1>4

-----------------------------------------------------------------------------
\* Steps around a started assessment and mails, that write no status

LEMMA QuietStepKeeps ==
  ASSUME IInv, NEW s \in Schedules,
         MailArrives(s) \/ SaveQuestions(s) \/ StartAbandoned(s)
           \/ TimeRunsOut(s)
  PROVE  IInv'
<1> USE DEF IInv, TypeOK, MailArrives, SaveQuestions, StartAbandoned,
            TimeRunsOut, candVars, schedVars, rowKeys, asmtVars, reqVars,
            mailVars
<1>0. TypeOK'
  <2>1. CASE MailArrives(s)
    BY <2>1
  <2>2. CASE SaveQuestions(s)
    BY <2>2
  <2>3. CASE StartAbandoned(s)
    BY <2>3
  <2>4. CASE TimeRunsOut(s)
    BY <2>4
  <2> QED
    BY <2>1, <2>2, <2>3, <2>4
<1>1. RowInv'
  BY RowsFrame
<1>2. TokensOK' /\ OneNotice'
  BY DEF TokensOK, OneNotice
<1>3. RequestsOK' /\ RepliesHold'
  BY DEF RequestsOK, Bound, RepliesHold, Resolves
<1> QED
  BY <1>0, <1>1, <1>2, <1>3

LEMMA NotifyFinalKeeps ==
  ASSUME IInv, NEW c \in Candidates, NotifyFinal(c) \/ OutcomeUnheard(c)
  PROVE  IInv'
<1> USE NoticesAssumption
    DEF OneMore, IInv, TypeOK, NotifyFinal, OutcomeUnheard, schedVars, rowKeys, asmtVars,
        reqVars
<1>1. TypeOK' /\ RowInv'
  BY NoticesAssumption, RowsFrame
<1>2. TokensOK' /\ OneNotice'
  BY NoticesAssumption DEF TokensOK, OneNotice
<1>3. RequestsOK' /\ RepliesHold'
  BY DEF RequestsOK, Bound, RepliesHold, Resolves
<1> QED
  BY <1>1, <1>2, <1>3

LEMMA ServerRestartKeeps ==
  ASSUME IInv, ServerRestart
  PROVE  IInv'
<1> USE DEF IInv, TypeOK, ServerRestart, schedVars, rowKeys, asmtVars
<1>1. TypeOK' /\ RowInv'
  BY NoticesAssumption, RowsFrame
<1>2. TokensOK' /\ OneNotice'
  BY DEF TokensOK, OneNotice
<1>3. RequestsOK' /\ RepliesHold'
  BY DEF RequestsOK, Bound, RepliesHold, Resolves
<1> QED
  BY <1>1, <1>2, <1>3

-----------------------------------------------------------------------------
\* Steps that write a status

LEMMA RegisterKeeps ==
  ASSUME IInv, NEW c \in Candidates, Register(c)
  PROVE  IInv'
<1> USE DEF IInv, RowInv, TypeOK, Register, schedVars, rowKeys, asmtVars,
            reqVars, mailVars
<1>1. TypeOK'
  BY DEF CandidateStatuses, ScheduleStatuses
<1>2. RowsOK'
  BY DEF RowsOK, Exists, CandidateExists, CandidateStatuses, ScheduleStatuses
<1>3. ChainOK'
  BY DEF ChainOK, CompletedOf, SchedulesOf, Exists, CandidateExists,
     CandidateStatuses, ScheduleStatuses, RowsOK
<1>4. UnderReviewIffActive'
  BY DEF UnderReviewIffActive, ActiveOf, SchedulesOf, Exists, CandidateExists,
     ActiveStatuses, CandidateStatuses, ScheduleStatuses, RowsOK
<1>5. DecisionAgrees'
  BY DEF DecisionAgrees, CompletedOf, SchedulesOf, Exists, CandidateExists,
     CandidateStatuses, ScheduleStatuses, StatusOf, RowsOK
<1>6. OneNotice'
  BY DEF OneNotice, FinalStatuses
<1>7. DecisionsOK' /\ OneActiveSchedule' /\ ScheduleMatchesAssessment' /\
        TokensOK' /\ RequestsOK' /\ RepliesHold'
  BY DEF DecisionsOK, OneActiveSchedule, ActiveOf, SchedulesOf, Exists,
     ActiveStatuses, ScheduleStatuses, ScheduleMatchesAssessment, TokensOK,
     RequestsOK, Bound, RepliesHold, Resolves
<1> QED
  BY <1>1, <1>2, <1>3, <1>4, <1>5, <1>6, <1>7

LEMMA CreateScheduleKeeps ==
  ASSUME IInv, NEW r \in Requests, NEW s \in Schedules, CreateSchedule(r, s)
  PROVE  IInv'
<1> USE DEF IInv, RowInv, TypeOK, CreateSchedule, MayCreate, asmtVars,
            mailVars
<1>1. TypeOK'
  BY DEF CandidateStatuses, ScheduleStatuses, RequestsOK
<1>2. RowsOK'
  BY DEF RowsOK, Exists, CandidateExists, CandidateStatuses, ScheduleStatuses,
     RequestsOK
<1>3. ChainOK'
  BY DEF ChainOK, CompletedOf, SchedulesOf, Exists, CandidateExists,
     CandidateStatuses, ScheduleStatuses, ScheduleMatchesAssessment,
     RequestsOK
<1>4. OneActiveSchedule'
  BY DEF OneActiveSchedule, ActiveOf, SchedulesOf, Exists, ActiveStatuses,
     ScheduleStatuses, RequestsOK
<1>5. ScheduleMatchesAssessment'
  BY DEF ScheduleMatchesAssessment
<1>6. UnderReviewIffActive'
  BY DEF UnderReviewIffActive, ActiveOf, SchedulesOf, Exists, CandidateExists,
     ActiveStatuses, CandidateStatuses, ScheduleStatuses, RequestsOK,
     OneActiveSchedule
<1>7. DecisionAgrees'
  BY DEF DecisionAgrees, CompletedOf, SchedulesOf, Exists, CandidateExists,
     CandidateStatuses, ScheduleStatuses, StatusOf, ScheduleMatchesAssessment,
     RequestsOK, RowsOK, BlockedStatuses
<1>8. TokensOK'
  BY DEF TokensOK, ActiveStatuses
<1>9. OneNotice'
  BY DEF OneNotice, FinalStatuses, BlockedStatuses, RequestsOK,
     CandidateExists, CandidateStatuses
<1>10. RequestsOK'
  BY DEF RequestsOK, Bound
<1>11. RepliesHold'
  BY DEF RepliesHold, RequestsOK, Bound, Resolves, ActiveStatuses
<1>12. DecisionsOK'
  BY DEF DecisionsOK
<1> QED
  BY <1>1, <1>2, <1>3, <1>4, <1>5, <1>6, <1>7, <1>8, <1>9, <1>10, <1>11, <1>12

LEMMA CancelUndeliveredKeeps ==
  ASSUME IInv, NEW r \in Requests, CancelUndelivered(r)
  PROVE  IInv'
<1> USE DEF IInv, RowInv, TypeOK, CancelUndelivered, Cancellable, Answer,
            rowKeys, asmtVars, mailVars
<1>1. TypeOK'
  BY DEF CandidateStatuses, ScheduleStatuses, RequestsOK, Bound
<1>2. RowsOK'
  BY DEF RowsOK, Exists, CandidateExists, CandidateStatuses, ScheduleStatuses,
     RequestsOK, Bound
<1>3. ChainOK'
  BY DEF ChainOK, CompletedOf, SchedulesOf, Exists, CandidateExists,
     CandidateStatuses, ScheduleStatuses, RequestsOK, Bound,
     ScheduleMatchesAssessment
<1>4. OneActiveSchedule'
  BY DEF OneActiveSchedule, ActiveOf, SchedulesOf, Exists, ActiveStatuses,
     ScheduleStatuses
<1>5. ScheduleMatchesAssessment'
  BY DEF ScheduleMatchesAssessment, RequestsOK, Bound
<1>6. UnderReviewIffActive'
  BY DEF UnderReviewIffActive, ActiveOf, SchedulesOf, Exists, CandidateExists,
     ActiveStatuses, CandidateStatuses, ScheduleStatuses, RequestsOK, Bound,
     RowsOK, OneActiveSchedule
<1>7. DecisionAgrees'
  BY DEF DecisionAgrees, CompletedOf, SchedulesOf, Exists, CandidateExists,
     CandidateStatuses, ScheduleStatuses, StatusOf, RequestsOK, Bound, RowsOK,
     ScheduleMatchesAssessment
<1>8. TokensOK'
  BY DEF TokensOK, ActiveStatuses
<1>9. OneNotice'
  BY DEF OneNotice, FinalStatuses, RequestsOK, Bound, RowsOK, Exists,
     ScheduleStatuses
<1>10. RequestsOK'
  BY DEF RequestsOK, Bound
<1>11. RepliesHold'
  BY DEF RepliesHold, RequestsOK, Bound, Resolves, ActiveStatuses
<1>12. DecisionsOK'
  BY DEF DecisionsOK
<1> QED
  BY <1>1, <1>2, <1>3, <1>4, <1>5, <1>6, <1>7, <1>8, <1>9, <1>10, <1>11, <1>12

LEMMA RejectScheduledKeeps ==
  ASSUME IInv, NEW i \in Interviewers, NEW s \in Schedules,
         RejectScheduled(i, s)
  PROVE  IInv'
<1> USE NoticesAssumption
    DEF OneMore, IInv, RowInv, TypeOK, RejectScheduled, rowKeys, asmtVars,
        reqVars, mailVars
<1>1. TypeOK'
  BY DEF CandidateStatuses, ScheduleStatuses, RowsOK, CandidateExists
<1>2. RowsOK'
  BY DEF RowsOK, Exists, CandidateExists, CandidateStatuses, ScheduleStatuses
<1>3. ChainOK'
  BY DEF ChainOK, CompletedOf, SchedulesOf, Exists, CandidateExists,
     CandidateStatuses, ScheduleStatuses, ScheduleMatchesAssessment, RowsOK
<1>4. OneActiveSchedule'
  BY DEF OneActiveSchedule, ActiveOf, SchedulesOf, Exists, ActiveStatuses,
     ScheduleStatuses
<1>5. ScheduleMatchesAssessment'
  BY DEF ScheduleMatchesAssessment
<1>6. UnderReviewIffActive'
  BY DEF UnderReviewIffActive, ActiveOf, SchedulesOf, Exists, CandidateExists,
     ActiveStatuses, CandidateStatuses, ScheduleStatuses, RowsOK,
     OneActiveSchedule
<1>7. DecisionAgrees'
  BY DEF DecisionAgrees, CompletedOf, SchedulesOf, Exists, CandidateExists,
     CandidateStatuses, ScheduleStatuses, StatusOf, RowsOK,
     ScheduleMatchesAssessment, UnderReviewIffActive, ActiveOf, ActiveStatuses
<1>8. TokensOK'
  BY DEF TokensOK, ActiveStatuses
<1>9. OneNotice'
  BY DEF OneNotice, FinalStatuses, RowsOK, Exists, CandidateExists,
     CandidateStatuses, ScheduleStatuses
<1>10. RequestsOK'
  BY DEF RequestsOK, Bound
<1>11. RepliesHold'
  BY DEF RepliesHold, RequestsOK, Bound, Resolves, ActiveStatuses
<1>12. DecisionsOK'
  BY DEF DecisionsOK
<1> QED
  BY <1>1, <1>2, <1>3, <1>4, <1>5, <1>6, <1>7, <1>8, <1>9, <1>10, <1>11, <1>12

LEMMA RejectUnscheduledKeeps ==
  ASSUME IInv, NEW c \in Candidates, RejectUnscheduled(c)
  PROVE  IInv'
<1> USE NoticesAssumption
    DEF OneMore, IInv, RowInv, TypeOK, RejectUnscheduled, schedVars, rowKeys,
            asmtVars, reqVars, mailVars
<1>1. TypeOK'
  BY DEF CandidateStatuses, ScheduleStatuses
<1>2. RowsOK'
  BY DEF RowsOK, Exists, CandidateExists, CandidateStatuses, ScheduleStatuses,
     ClaimableStatuses
<1>3. ChainOK'
  BY DEF ChainOK, CompletedOf, SchedulesOf, Exists, CandidateExists,
     CandidateStatuses, ScheduleStatuses, ClaimableStatuses
<1>4. UnderReviewIffActive'
  BY DEF UnderReviewIffActive, ActiveOf, SchedulesOf, Exists, CandidateExists,
     ActiveStatuses, CandidateStatuses, ScheduleStatuses, ClaimableStatuses
<1>5. DecisionAgrees'
  BY DEF DecisionAgrees, CompletedOf, SchedulesOf, Exists, CandidateExists,
     CandidateStatuses, ScheduleStatuses, StatusOf
<1>6. OneNotice'
  BY DEF OneNotice, FinalStatuses, ClaimableStatuses
<1>7. DecisionsOK' /\ OneActiveSchedule' /\ ScheduleMatchesAssessment' /\
        TokensOK' /\ RequestsOK' /\ RepliesHold'
  BY DEF DecisionsOK, OneActiveSchedule, ActiveOf, SchedulesOf, Exists,
     ActiveStatuses, ScheduleStatuses, ScheduleMatchesAssessment, TokensOK,
     RequestsOK, Bound, RepliesHold, Resolves
<1> QED
  BY <1>1, <1>2, <1>3, <1>4, <1>5, <1>6, <1>7

LEMMA DecideKeeps ==
  ASSUME IInv, NEW i \in Interviewers, NEW s \in Schedules,
         NEW d \in {"Hire", "No-Hire"}, Decide(i, s, d)
  PROVE  IInv'
<1> USE NoticesAssumption
    DEF OneMore, IInv, RowInv, TypeOK, Decide, schedVars, rowKeys, reqVars
<1>1. TypeOK'
  BY DEF CandidateStatuses, ScheduleStatuses, RowsOK, Exists, CandidateExists,
     StatusOf
<1>2. RowsOK'
  BY DEF RowsOK, Exists, CandidateExists, CandidateStatuses, ScheduleStatuses,
     StatusOf
<1>3. DecisionsOK'
  BY DEF DecisionsOK
<1>4. ChainOK'
  BY DEF ChainOK, CompletedOf, SchedulesOf, Exists, CandidateExists,
     CandidateStatuses, ScheduleStatuses, RowsOK, StatusOf
<1>5. UnderReviewIffActive'
  BY DEF UnderReviewIffActive, ActiveOf, SchedulesOf, Exists, CandidateExists,
     ActiveStatuses, CandidateStatuses, ScheduleStatuses, StatusOf, RowsOK,
     DecisionAgrees, CompletedOf
<1>6. DecisionAgrees'
  BY DEF DecisionAgrees, CompletedOf, SchedulesOf, Exists, CandidateExists,
     CandidateStatuses, ScheduleStatuses, StatusOf, RowsOK, ChainOK
<1>7. OneNotice'
  BY DEF OneNotice, FinalStatuses, StatusOf, DecisionAgrees, CompletedOf,
     SchedulesOf, RowsOK, CandidateExists, Exists
<1>8. OneActiveSchedule' /\ ScheduleMatchesAssessment' /\ TokensOK' /\
        RequestsOK' /\ RepliesHold'
  BY DEF OneActiveSchedule, ActiveOf, SchedulesOf, Exists, ActiveStatuses,
     ScheduleStatuses, ScheduleMatchesAssessment, TokensOK, RequestsOK, Bound,
     RepliesHold, Resolves
<1> QED
  BY <1>1, <1>2, <1>3, <1>4, <1>5, <1>6, <1>7, <1>8

LEMMA StartAssessmentKeeps ==
  ASSUME IInv, NEW s \in Schedules, StartAssessment(s)
  PROVE  IInv'
<1> USE DEF IInv, RowInv, TypeOK, StartAssessment, Resolves, candVars,
            mailVars, rowKeys, reqVars
<1>1. TypeOK'
  BY DEF CandidateStatuses, ScheduleStatuses
<1>2. RowsOK'
  BY DEF RowsOK, Exists, CandidateExists, CandidateStatuses, ScheduleStatuses,
     ActiveStatuses
<1>3. DecisionsOK'
  BY DEF DecisionsOK
<1>4. ChainOK'
  BY DEF ChainOK, CompletedOf, SchedulesOf, Exists, CandidateExists,
     CandidateStatuses, ScheduleStatuses, ActiveStatuses,
     ScheduleMatchesAssessment
<1>5. OneActiveSchedule'
  BY DEF OneActiveSchedule, ActiveOf, SchedulesOf, Exists, ActiveStatuses,
     ScheduleStatuses
<1>6. ScheduleMatchesAssessment'
  BY DEF ScheduleMatchesAssessment
<1>7. UnderReviewIffActive'
  BY DEF UnderReviewIffActive, ActiveOf, SchedulesOf, Exists, CandidateExists,
     ActiveStatuses, CandidateStatuses, ScheduleStatuses
<1>8. DecisionAgrees'
  BY DEF DecisionAgrees, CompletedOf, SchedulesOf, Exists, CandidateExists,
     CandidateStatuses, ScheduleStatuses, StatusOf, ActiveStatuses
<1>9. TokensOK'
  BY DEF TokensOK, ActiveStatuses
<1>10. RequestsOK'
  BY DEF RequestsOK, Bound, ActiveStatuses
<1>11. RepliesHold'
  BY DEF RepliesHold, RequestsOK, Bound, ActiveStatuses
<1>12. OneNotice'
  BY DEF OneNotice, FinalStatuses
<1> QED
  BY <1>1, <1>2, <1>3, <1>4, <1>5, <1>6, <1>7, <1>8, <1>9, <1>10, <1>11, <1>12

LEMMA CompleteKeeps ==
  ASSUME IInv, NEW s \in Schedules, Complete(s)
  PROVE  IInv'
<1> USE DEF IInv, RowInv, TypeOK, Complete, Resolves, rowKeys, reqVars,
            mailVars
<1>1. TypeOK'
  BY DEF CandidateStatuses, ScheduleStatuses, FinalStatuses
<1>2. RowsOK'
  BY DEF RowsOK, Exists, CandidateExists, CandidateStatuses, ScheduleStatuses
<1>3. DecisionsOK'
  BY DEF DecisionsOK
<1>4. ChainOK'
  BY DEF ChainOK, CompletedOf, SchedulesOf, Exists, CandidateExists,
     CandidateStatuses, ScheduleStatuses, RowsOK, ScheduleMatchesAssessment,
     DecisionAgrees, UnderReviewIffActive, ActiveOf, ActiveStatuses, StatusOf
<1>5. OneActiveSchedule'
  BY DEF OneActiveSchedule, ActiveOf, SchedulesOf, Exists, ActiveStatuses,
     ScheduleStatuses
<1>6. ScheduleMatchesAssessment'
  BY DEF ScheduleMatchesAssessment
<1>7. UnderReviewIffActive'
  BY DEF UnderReviewIffActive, ActiveOf, SchedulesOf, Exists, CandidateExists,
     ActiveStatuses, CandidateStatuses, ScheduleStatuses, RowsOK,
     OneActiveSchedule, ScheduleMatchesAssessment, DecisionAgrees,
     CompletedOf, FinalStatuses, StatusOf
<1>8. DecisionAgrees'
  BY DEF DecisionAgrees, CompletedOf, SchedulesOf, Exists, CandidateExists,
     CandidateStatuses, ScheduleStatuses, StatusOf, RowsOK, ChainOK,
     ScheduleMatchesAssessment, UnderReviewIffActive, ActiveOf,
     ActiveStatuses, DecisionsOK, FinalStatuses
<1>9. TokensOK'
  BY DEF TokensOK, ActiveStatuses
<1>10. OneNotice'
  BY DEF OneNotice, FinalStatuses, RowsOK, Exists, CandidateExists,
     CandidateStatuses, ScheduleStatuses
<1>11. RequestsOK'
  BY DEF RequestsOK, Bound
<1>12. RepliesHold'
  BY DEF RepliesHold, RequestsOK, Bound, ActiveStatuses
<1> QED
  BY <1>1, <1>2, <1>3, <1>4, <1>5, <1>6, <1>7, <1>8, <1>9, <1>10, <1>11, <1>12

LEMMA AdminSetStatusKeeps ==
  ASSUME IInv, NEW c \in Candidates, NEW st \in OverrideStatuses,
         AdminSetStatus(c, st)
  PROVE  IInv'
<1> USE DEF IInv, RowInv, TypeOK, AdminSetStatus, schedVars, rowKeys,
            asmtVars, reqVars, mailVars
<1>1. TypeOK'
  BY OverrideAssumption DEF CandidateStatuses, ScheduleStatuses
<1>2. RowsOK'
  BY OverrideAssumption DEF RowsOK, Exists, CandidateExists,
     CandidateStatuses, ScheduleStatuses
<1>3. ChainOK'
  BY OverrideAssumption DEF ChainOK, CompletedOf, SchedulesOf, Exists,
     CandidateExists, CandidateStatuses, ScheduleStatuses
<1>4. UnderReviewIffActive'
  BY DEF UnderReviewIffActive, ActiveOf, SchedulesOf, Exists, CandidateExists,
     ActiveStatuses, CandidateStatuses, ScheduleStatuses
<1>5. DecisionAgrees'
  BY DEF DecisionAgrees, CompletedOf, SchedulesOf, Exists, CandidateExists,
     CandidateStatuses, ScheduleStatuses, StatusOf
<1>6. OneNotice'
  BY DEF OneNotice, FinalStatuses
<1>7. RepliesHold'
  BY DEF RepliesHold, RequestsOK, Bound, Resolves, ActiveStatuses
<1>8. DecisionsOK' /\ OneActiveSchedule' /\ ScheduleMatchesAssessment' /\
        TokensOK' /\ RequestsOK'
  BY DEF DecisionsOK, OneActiveSchedule, ActiveOf, SchedulesOf, Exists,
     ActiveStatuses, ScheduleStatuses, ScheduleMatchesAssessment, TokensOK,
     RequestsOK, Bound
<1> QED
  BY <1>1, <1>2, <1>3, <1>4, <1>5, <1>6, <1>7, <1>8

LEMMA AdminResetKeeps ==
  ASSUME IInv, NEW c \in Candidates, AdminReset(c)
  PROVE  IInv'
<1> DEFINE off == offChain[c] \/ CompletedOf(c) # {} \/ notifying[c] > 0
<1>a. offChain' = [offChain EXCEPT ![c] = off]
  BY DEF AdminReset
<1>b. off \in BOOLEAN
  OBVIOUS
<1> HIDE DEF off
<1>c. /\ offChain' \in [Candidates -> BOOLEAN]
      /\ \A d \in Candidates : d # c => offChain'[d] = offChain[d]
      /\ offChain'[c] = off
  BY <1>a, <1>b DEF IInv, TypeOK
<1>d. /\ ~offChain'[c] => CompletedOf(c) = {} /\ notifying[c] = 0
      /\ offChain[c] => offChain'[c]
  BY <1>c, NoticesAssumption DEF off, IInv, TypeOK
<1> USE <1>c, <1>d DEF IInv, RowInv, TypeOK
<1>1. UNCHANGED <<notifying, schedVars, asmtVars, reqVars, link, starting>>
  BY DEF AdminReset
<1>2. /\ candStatus' = [candStatus EXCEPT ![c] = "applied"]
      /\ notices' = [notices EXCEPT ![c] = 0]
      /\ CandidateExists(c) /\ ActiveOf(c) = {}
  BY DEF AdminReset
<1> USE <1>1, <1>2 DEF schedVars, rowKeys, asmtVars, reqVars
<1>3. TypeOK'
  BY NoticesAssumption DEF CandidateStatuses, ScheduleStatuses
<1>4. RowsOK'
  BY DEF RowsOK, Exists, CandidateExists, CandidateStatuses, ScheduleStatuses
<1>5. ChainOK'
  BY DEF ChainOK, CompletedOf, SchedulesOf, Exists, CandidateExists,
     CandidateStatuses, ScheduleStatuses
<1>6. UnderReviewIffActive'
  BY DEF UnderReviewIffActive, ActiveOf, SchedulesOf, Exists, CandidateExists,
     ActiveStatuses, CandidateStatuses, ScheduleStatuses
<1>7. DecisionAgrees'
  BY DEF DecisionAgrees, CompletedOf, SchedulesOf, Exists, CandidateExists,
     CandidateStatuses, ScheduleStatuses, StatusOf
<1>8. OneNotice'
  BY DEF OneNotice, FinalStatuses
<1>9. RepliesHold'
  BY DEF RepliesHold, RequestsOK, Bound, Resolves, ActiveStatuses
<1>10. DecisionsOK' /\ OneActiveSchedule' /\ ScheduleMatchesAssessment' /\
        TokensOK' /\ RequestsOK'
  BY DEF DecisionsOK, OneActiveSchedule, ActiveOf, SchedulesOf, Exists,
     ActiveStatuses, ScheduleStatuses, ScheduleMatchesAssessment, TokensOK,
     RequestsOK, Bound
<1> QED
  BY <1>3, <1>4, <1>5, <1>6, <1>7, <1>8, <1>9, <1>10

LEMMA AdminDeleteKeeps ==
  ASSUME IInv, NEW c \in Candidates, AdminDelete(c)
  PROVE  IInv'
<1> USE DEF IInv, RowInv, TypeOK, AdminDelete, rowKeys, reqVars, mailVars
<1>1. TypeOK'
  BY DEF CandidateStatuses, ScheduleStatuses
<1>2. RowsOK'
  BY DEF RowsOK, Exists, CandidateExists, CandidateStatuses, ScheduleStatuses,
     SchedulesOf
<1>3. DecisionsOK'
  BY DEF DecisionsOK, SchedulesOf, Exists
<1>4. ChainOK'
  BY DEF ChainOK, CompletedOf, SchedulesOf, Exists, CandidateExists,
     CandidateStatuses, ScheduleStatuses
<1>5. OneActiveSchedule'
  BY DEF OneActiveSchedule, ActiveOf, SchedulesOf, Exists, ActiveStatuses,
     ScheduleStatuses
<1>6. ScheduleMatchesAssessment'
  BY DEF ScheduleMatchesAssessment, SchedulesOf, Exists, ScheduleStatuses
<1>7. UnderReviewIffActive'
  BY DEF UnderReviewIffActive, ActiveOf, SchedulesOf, Exists, CandidateExists,
     ActiveStatuses, CandidateStatuses, ScheduleStatuses
<1>8. DecisionAgrees'
  BY DEF DecisionAgrees, CompletedOf, SchedulesOf, Exists, CandidateExists,
     CandidateStatuses, ScheduleStatuses, StatusOf
<1>9. TokensOK'
  BY DEF TokensOK, ActiveStatuses, SchedulesOf, Exists, ScheduleStatuses
<1>10. OneNotice'
  BY DEF OneNotice, FinalStatuses
<1>11. RequestsOK'
  BY DEF RequestsOK, Bound, SchedulesOf, Exists, ScheduleStatuses
<1>12. RepliesHold'
  BY DEF RepliesHold, RequestsOK, Bound, Resolves, ActiveStatuses,
     SchedulesOf, Exists, ScheduleStatuses
<1> QED
  BY <1>1, <1>2, <1>3, <1>4, <1>5, <1>6, <1>7, <1>8, <1>9, <1>10, <1>11, <1>12
-----------------------------------------------------------------------------
\* Every step

LEMMA Inductive == IInv /\ [Next]_vars => IInv'
<1> SUFFICES ASSUME IInv, [Next]_vars PROVE IInv'
  OBVIOUS
<1>1. CASE StaffStep
  BY <1>1, ScheduleBeginKeeps, CreateScheduleKeeps, AnswerKeeps,
     InvitationFailedKeeps, CancelUndeliveredKeeps, RejectScheduledKeeps,
     RejectUnscheduledKeeps, DecideKeeps, NotifyFinalKeeps
     DEF StaffStep, HandlerStep
<1>2. CASE CandidateStep
  BY <1>2, RegisterKeeps, QuietStepKeeps, StartAssessmentKeeps, CompleteKeeps
     DEF CandidateStep
<1>3. CASE AdminStep
  BY <1>3, AdminSetStatusKeeps, AdminResetKeeps, AdminDeleteKeeps
     DEF AdminStep
<1>4. CASE ServerRestart
  BY <1>4, ServerRestartKeeps
<1>5. CASE UNCHANGED vars
  <2> USE <1>5 DEF IInv, vars, candVars, mailVars, schedVars, rowKeys, asmtVars,
                   reqVars
  <2>1. TypeOK' /\ RowInv'
    BY RowsFrame DEF TypeOK
  <2>2. TokensOK' /\ OneNotice'
    BY DEF TokensOK, OneNotice
  <2>3. RequestsOK' /\ RepliesHold'
    BY DEF RequestsOK, Bound, RepliesHold, Resolves
  <2> QED
    BY <2>1, <2>2, <2>3
<1> QED
  BY <1>1, <1>2, <1>3, <1>4, <1>5 DEF Next

\* The invariant holds in every reachable state.
THEOREM Invariant == Spec => []IInv
BY Initially, Inductive, PTL DEF Spec

\* Every variable keeps its type.
THEOREM TypeCorrect == Spec => []TypeOK
<1>1. IInv => TypeOK
  BY DEF IInv
<1> QED
  BY <1>1, Invariant, PTL

\* A candidate never has two active schedules, whatever requests race and
\* whatever status the administrator writes.
THEOREM OneActive == Spec => []OneActiveSchedule
<1>1. IInv => OneActiveSchedule
  BY DEF IInv, RowInv
<1> QED
  BY <1>1, Invariant, PTL

\* Schedule and assessment rows always agree.
THEOREM RowsAgree == Spec => []ScheduleMatchesAssessment
<1>1. IInv => ScheduleMatchesAssessment
  BY DEF IInv, RowInv
<1> QED
  BY <1>1, Invariant, PTL

\* On the chain, under review means exactly: a schedule is active.
THEOREM UnderReview == Spec => []UnderReviewIffActive
<1>1. IInv => UnderReviewIffActive
  BY DEF IInv, RowInv
<1> QED
  BY <1>1, Invariant, PTL

\* On the chain, the decision and the candidate's status always agree.
THEOREM DecisionsAgree == Spec => []DecisionAgrees
<1>1. IInv => DecisionAgrees
  BY DEF IInv, RowInv
<1> QED
  BY <1>1, Invariant, PTL

\* On the chain, the outcome is sent at most once, and only once it is final.
THEOREM AtMostOneNotice == Spec => []OneNotice
<1>1. IInv => OneNotice
  BY DEF IInv
<1> QED
  BY <1>1, Invariant, PTL

\* What a schedule request was told stays true.
THEOREM RepliesStayTrue == Spec => []RepliesHold
<1>1. IInv => RepliesHold
  BY DEF IInv
<1> QED
  BY <1>1, Invariant, PTL

-----------------------------------------------------------------------------
\* What a step may never do

LEMMA StepTerminal ==
  ASSUME IInv, [Next]_vars, NEW s \in Schedules,
         schedStatus[s] \in {"cancelled", "completed"}
  PROVE  schedStatus'[s] \in {schedStatus[s], "deleted"}
<1> USE DEF IInv, TypeOK
<1>1. CASE \E i \in Interviewers, t \in Schedules : RejectScheduled(i, t)
  BY <1>1 DEF RejectScheduled
<1>2. CASE \E r \in Requests, t \in Schedules : CreateSchedule(r, t)
  BY <1>2 DEF CreateSchedule
<1>3. CASE \E r \in Requests : CancelUndelivered(r)
  BY <1>3 DEF CancelUndelivered, Cancellable, RequestsOK, Bound
<1>4. CASE \E t \in Schedules : StartAssessment(t)
  BY <1>4 DEF StartAssessment, ActiveStatuses
<1>5. CASE \E t \in Schedules : Complete(t)
  BY <1>5 DEF Complete
<1>6. CASE \E c \in Candidates : AdminDelete(c)
  BY <1>6 DEF AdminDelete
<1>7. CASE UNCHANGED schedStatus
  BY <1>7
<1> QED
  BY <1>1, <1>2, <1>3, <1>4, <1>5, <1>6, <1>7
     DEF Next, StaffStep, HandlerStep, CandidateStep, AdminStep, Register,
     ScheduleBegin, CreateRefused, InvitationSent, InvitationFailed,
     CancelSkipped, CancelRolledBack, CancelFails, RejectUnscheduled, Decide, NotifyFinal,
     OutcomeUnheard, MailArrives, SaveQuestions, StartAbandoned, TimeRunsOut, AdminSetStatus,
     AdminReset, ServerRestart, vars, schedVars

\* Cancelled and completed schedules never come back.
THEOREM SchedulesStayTerminal == Spec => TerminalSchedules
<1>1. IInv /\ [Next]_vars
        => [\A s \in Schedules :
              schedStatus[s] \in {"cancelled", "completed"}
                => schedStatus'[s] \in {schedStatus[s], "deleted"}]_vars
  BY StepTerminal
<1> QED
  BY <1>1, Invariant, PTL DEF Spec, TerminalSchedules

LEMMA StepFinal ==
  ASSUME IInv, IInv', [Next]_vars, NEW c \in Candidates,
         candStatus[c] \in FinalStatuses, ~offChain'[c]
  PROVE  \/ candStatus'[c] = candStatus[c]
         \/ AdminReset(c) \/ AdminDelete(c)
<1> USE DEF IInv, RowInv, TypeOK, FinalStatuses
<1>1. CASE \E i \in Interviewers, s \in Schedules : RejectScheduled(i, s)
  BY <1>1 DEF RejectScheduled
<1>2. CASE \E r \in Requests, s \in Schedules : CreateSchedule(r, s)
  BY <1>2 DEF CreateSchedule, MayCreate, BlockedStatuses
<1>3. CASE \E r \in Requests : CancelUndelivered(r)
  BY <1>3 DEF CancelUndelivered
<1>4. CASE \E s \in Schedules : Complete(s)
  BY <1>4 DEF Complete
<1>5. CASE \E i \in Interviewers, s \in Schedules, d \in {"Hire", "No-Hire"} :
             Decide(i, s, d)
  <2> PICK i \in Interviewers, s \in Schedules, d \in {"Hire", "No-Hire"} :
           Decide(i, s, d)
    BY <1>5
  <2>1. CASE schedCand[s] = c
    <3>1. ~offChain[c] /\ CandidateExists(c) /\ s \in CompletedOf(c)
      BY <2>1 DEF Decide, RowsOK, CompletedOf, SchedulesOf
    <3>2. decision[s] = d /\ candStatus[c] = StatusOf(d)
      BY <3>1 DEF DecisionAgrees, Decide
    <3> QED
      BY <2>1, <3>2 DEF Decide
  <2>2. CASE schedCand[s] # c
    BY <2>2 DEF Decide
  <2> QED
    BY <2>1, <2>2
<1>6. CASE \E d \in Candidates : Register(d) \/ RejectUnscheduled(d)
  BY <1>6 DEF Register, RejectUnscheduled, ClaimableStatuses
<1>7. CASE \E d \in Candidates, st \in OverrideStatuses : AdminSetStatus(d, st)
  BY <1>7 DEF AdminSetStatus
<1>8. ASSUME NEW d \in Candidates, AdminReset(d)
      PROVE  candStatus'[c] = candStatus[c] \/ AdminReset(c)
  <2>1. candStatus' = [candStatus EXCEPT ![d] = "applied"]
    BY <1>8 DEF AdminReset
  <2>2. CASE d = c
    BY ONLY <1>8, <2>2, Zenon
  <2> QED
    BY <2>1, <2>2
<1>9. ASSUME NEW d \in Candidates, AdminDelete(d)
      PROVE  candStatus'[c] = candStatus[c] \/ AdminDelete(c)
  <2>1. candStatus' = [candStatus EXCEPT ![d] = "deleted"]
    BY <1>9 DEF AdminDelete
  <2>2. CASE d = c
    BY ONLY <1>9, <2>2, Zenon
  <2> QED
    BY <2>1, <2>2
<1>10. CASE UNCHANGED candStatus
  BY <1>10
<1> QED
  BY <1>1, <1>2, <1>3, <1>4, <1>5, <1>6, <1>7, <1>8, <1>9, <1>10
     DEF Next, StaffStep, HandlerStep, CandidateStep, AdminStep, ScheduleBegin,
     CreateRefused, InvitationSent, InvitationFailed, CancelSkipped,
     CancelRolledBack, CancelFails, NotifyFinal, OutcomeUnheard, MailArrives, StartAssessment,
     SaveQuestions, StartAbandoned, TimeRunsOut, ServerRestart, vars, candVars

\* Only an administrator's reset or deletion ends a final status.
THEOREM FinalStatusStands == Spec => FinalStands
<1>1. IInv /\ IInv' /\ [Next]_vars
        => [\A c \in Candidates :
              candStatus[c] \in FinalStatuses /\ ~offChain'[c]
                => \/ candStatus'[c] = candStatus[c]
                   \/ AdminReset(c) \/ AdminDelete(c)]_vars
  BY StepFinal
<1> QED
  BY <1>1, Invariant, PTL DEF Spec, FinalStands

-----------------------------------------------------------------------------
\* What the disagreements with the documents come from

\* Repeating a completion changes nothing on the documented chain.
RepeatsAreIdle ==
    \A s \in Schedules :
      Complete(s) /\ asmt[s] = "completed" /\ ~offChain[schedCand[s]] => UNCHANGED vars

LEMMA StepRepeats ==
  ASSUME IInv
  PROVE  RepeatsAreIdle
<1> SUFFICES ASSUME NEW s \in Schedules, Complete(s), asmt[s] = "completed",
                    ~offChain[schedCand[s]]
             PROVE  UNCHANGED vars
  BY DEF RepeatsAreIdle
<1> DEFINE c == schedCand[s]
<1>1. schedStatus[s] = "completed"
  BY DEF IInv, RowInv, ScheduleMatchesAssessment, Complete
<1>2. c \in Candidates /\ CandidateExists(c) /\ s \in CompletedOf(c)
  BY <1>1 DEF IInv, RowInv, RowsOK, Exists, ScheduleStatuses, CompletedOf, SchedulesOf
<1>3. candStatus[c] = "completed" \/ candStatus[c] \in FinalStatuses
  BY <1>2 DEF IInv, RowInv, DecisionAgrees, StatusOf, FinalStatuses
<1>4. candStatus' = candStatus
  BY <1>2, <1>3 DEF Complete, IInv, TypeOK
<1>5. asmt' = asmt /\ schedStatus' = schedStatus
  BY <1>1 DEF Complete, IInv, TypeOK
<1> QED
  BY <1>4, <1>5 DEF Complete, vars, candVars, schedVars, asmtVars, mailVars

\* A repeated completion changes nothing, unless an administrator took the
\* candidate off the documented chain (finalize_assessment: "repeated completion
\* requests are idempotent"): the run completion_retry needs the reset it shows.
THEOREM RepeatedCompletionIsIdle == Spec => [][RepeatsAreIdle]_vars
<1>1. IInv /\ [Next]_vars => [RepeatsAreIdle]_vars
  BY StepRepeats
<1> QED
  BY <1>1, Invariant, PTL DEF Spec

\* Whoever schedules a candidate again does so after every earlier schedule was
\* withdrawn; nobody's assessment is under way or done.
ClaimsTakeWithdrawn ==
    \A r \in Requests, s \in Schedules :
      CreateSchedule(r, s) /\ ~offChain[reqCand[r]]
        => \A t \in SchedulesOf(reqCand[r]) : schedStatus[t] = "cancelled"

LEMMA StepClaims ==
  ASSUME IInv
  PROVE  ClaimsTakeWithdrawn
<1> SUFFICES ASSUME NEW r \in Requests, NEW s \in Schedules, CreateSchedule(r, s),
                    ~offChain[reqCand[r]], NEW t \in SchedulesOf(reqCand[r])
             PROVE  schedStatus[t] = "cancelled"
  BY DEF ClaimsTakeWithdrawn
<1> DEFINE c == reqCand[r]
<1>1. c \in Candidates /\ CandidateExists(c) /\ candStatus[c] \notin BlockedStatuses
      /\ ActiveOf(c) = {}
  BY DEF CreateSchedule, MayCreate, IInv, RequestsOK
<1>2. t \in Schedules /\ schedStatus[t] \in ScheduleStatuses \ ActiveStatuses
  BY <1>1 DEF SchedulesOf, ActiveOf, Exists
<1>3. t \notin CompletedOf(c)
  BY <1>1 DEF IInv, RowInv, DecisionAgrees, StatusOf, BlockedStatuses
<1>4. asmt[t] # "completed"
  BY <1>2, <1>3 DEF CompletedOf
<1> QED
  BY <1>2, <1>4 DEF IInv, RowInv, ScheduleMatchesAssessment, ScheduleStatuses, ActiveStatuses

\* What the run foreign_claim finds never costs another reviewer's work: on the
\* documented chain a schedule is created only for a candidate all of whose
\* earlier schedules were cancelled (create_scheduled_assessment).
THEOREM OnlyWithdrawnAreClaimed == Spec => [][ClaimsTakeWithdrawn]_vars
<1>1. IInv /\ [Next]_vars => [ClaimsTakeWithdrawn]_vars
  BY StepClaims
<1> QED
  BY <1>1, Invariant, PTL DEF Spec

\* A schedule row has a reviewer.
OwnersOK == \A s \in Schedules : Exists(s) => schedOwner[s] \in Interviewers

LEMMA OwnersKept ==
  ASSUME IInv, OwnersOK, [Next]_vars
  PROVE  OwnersOK'
<1> USE DEF IInv, TypeOK
<1>1. CASE \E i \in Interviewers, t \in Schedules : RejectScheduled(i, t)
  BY <1>1 DEF RejectScheduled, OwnersOK, Exists, ScheduleStatuses, rowKeys
<1>2. CASE \E r \in Requests, t \in Schedules : CreateSchedule(r, t)
  BY <1>2 DEF CreateSchedule, OwnersOK, Exists, RequestsOK
<1>3. CASE \E r \in Requests : CancelUndelivered(r)
  BY <1>3 DEF CancelUndelivered, Cancellable, RequestsOK, Bound, OwnersOK, Exists,
     ScheduleStatuses, rowKeys
<1>4. CASE \E t \in Schedules : StartAssessment(t)
  BY <1>4 DEF StartAssessment, ActiveStatuses, OwnersOK, Exists, ScheduleStatuses, rowKeys
<1>5. CASE \E t \in Schedules : Complete(t)
  BY <1>5 DEF Complete, OwnersOK, Exists, ScheduleStatuses, rowKeys
<1>6. CASE \E c \in Candidates : AdminDelete(c)
  BY <1>6 DEF AdminDelete, OwnersOK, Exists, ScheduleStatuses, rowKeys
<1>7. CASE UNCHANGED schedVars
  BY <1>7 DEF schedVars, rowKeys, OwnersOK, Exists
<1> QED
  BY <1>1, <1>2, <1>3, <1>4, <1>5, <1>6, <1>7
     DEF Next, StaffStep, HandlerStep, CandidateStep, AdminStep, Register,
     ScheduleBegin, CreateRefused, InvitationSent, InvitationFailed,
     CancelSkipped, CancelRolledBack, CancelFails, RejectUnscheduled, Decide, NotifyFinal,
     OutcomeUnheard, MailArrives, SaveQuestions, StartAbandoned, TimeRunsOut, AdminSetStatus,
     AdminReset, ServerRestart, vars, schedVars, candVars, mailVars

LEMMA StepOneReviewer ==
  ASSUME IInv, OwnersOK, \A i, j \in Interviewers : i = j,
         NEW r \in Requests, NEW s \in Schedules, CreateSchedule(r, s)
  PROVE  MayAccess(reqWho[r], reqCand[r])
<1> DEFINE c == reqCand[r]
<1>1. /\ reqWho[r] \in Interviewers /\ CandidateExists(c)
      /\ candStatus[c] \in CandidateStatuses \ BlockedStatuses
  BY DEF CreateSchedule, MayCreate, CandidateExists, IInv, RequestsOK
<1>2. CASE SchedulesOf(c) = {}
  BY <1>1, <1>2 DEF MayAccess, ClaimableStatuses, BlockedStatuses, CandidateStatuses
<1>3. CASE SchedulesOf(c) # {}
  <2>1. PICK t \in SchedulesOf(c) : TRUE
    BY <1>3
  <2>2. schedOwner[t] = reqWho[r]
    BY <1>1, <2>1 DEF OwnersOK, SchedulesOf
  <2> QED
    BY <1>1, <2>1, <2>2 DEF MayAccess
<1> QED
  BY <1>2, <1>3

\* With one reviewer no schedule claims a foreign candidate, however requests,
\* withdrawals, edits and restarts interleave: the run foreign_claim needs two
\* (tests/test_interviewer_authorization.py).
THEOREM OneReviewerClaimsOwn ==
  ASSUME \A i, j \in Interviewers : i = j
  PROVE  Spec => NoForeignClaim
<1>1. Init => OwnersOK
  BY DEF Init, OwnersOK, Exists, ScheduleStatuses
<1>2. IInv /\ OwnersOK /\ [Next]_vars => OwnersOK'
  BY OwnersKept
<1>3. IInv /\ OwnersOK /\ [Next]_vars
        => [\A r \in Requests, s \in Schedules :
              CreateSchedule(r, s) => MayAccess(reqWho[r], reqCand[r])]_vars
  BY StepOneReviewer
<1> QED
  BY <1>1, <1>2, <1>3, Invariant, PTL DEF Spec, NoForeignClaim

\* An assessment that was started is not taken back: neither a failed
\* invitation nor a rejection nor a second reviewer returns or cancels its
\* schedule.
StartedStands ==
    \A s \in Schedules :
      asmt[s] # "absent" => schedStatus'[s] \in {"in_progress", "completed", "deleted"}

LEMMA StepStarted ==
  ASSUME IInv, [Next]_vars
  PROVE  StartedStands
<1> SUFFICES ASSUME NEW s \in Schedules, asmt[s] # "absent"
             PROVE  schedStatus'[s] \in {"in_progress", "completed", "deleted"}
  BY DEF StartedStands
<1>0. schedStatus[s] \in {"in_progress", "completed"} /\ schedStatus[s] = asmt[s]
  BY DEF IInv, RowInv, ScheduleMatchesAssessment, TypeOK
<1> USE DEF IInv, TypeOK
<1>1. CASE \E i \in Interviewers, t \in Schedules : RejectScheduled(i, t)
  BY <1>0, <1>1 DEF RejectScheduled
<1>2. CASE \E r \in Requests, t \in Schedules : CreateSchedule(r, t)
  BY <1>0, <1>2 DEF CreateSchedule
<1>3. CASE \E r \in Requests : CancelUndelivered(r)
  BY <1>0, <1>3 DEF CancelUndelivered, Cancellable, RequestsOK, Bound
<1>4. CASE \E t \in Schedules : StartAssessment(t)
  BY <1>0, <1>4 DEF StartAssessment, ActiveStatuses
<1>5. CASE \E t \in Schedules : Complete(t)
  BY <1>0, <1>5 DEF Complete
<1>6. CASE \E c \in Candidates : AdminDelete(c)
  BY <1>0, <1>6 DEF AdminDelete
<1>7. CASE UNCHANGED schedStatus
  BY <1>0, <1>7
<1> QED
  BY <1>1, <1>2, <1>3, <1>4, <1>5, <1>6, <1>7
     DEF Next, StaffStep, HandlerStep, CandidateStep, AdminStep, Register,
     ScheduleBegin, CreateRefused, InvitationSent, InvitationFailed,
     CancelSkipped, CancelRolledBack, CancelFails, RejectUnscheduled, Decide, NotifyFinal,
     OutcomeUnheard, MailArrives, SaveQuestions, StartAbandoned, TimeRunsOut, AdminSetStatus,
     AdminReset, ServerRestart, vars, schedVars

\* Only the deletion of its candidate ends a started assessment's schedule
\* otherwise than by completing it: a failed invitation takes back only one that
\* nobody has started (cancel_schedule_after_invitation_failure).
THEOREM StartedIsNeverWithdrawn == Spec => [][StartedStands]_vars
<1>1. IInv /\ [Next]_vars => [StartedStands]_vars
  BY StepStarted
<1> QED
  BY <1>1, Invariant, PTL DEF Spec

\* The deadline passed and no questions were ever stored.
Abandoned(s) == asmt[s] = "in_progress" /\ late[s] /\ ~snapshot[s]

\* Such an assessment stays as it is, and so does its candidate, but for the
\* administrator's hand.
AbandonedIsKept ==
    \A s \in Schedules :
      Abandoned(s) =>
        \/ /\ Abandoned(s)' /\ schedStatus'[s] = schedStatus[s]
           /\ \/ candStatus'[schedCand[s]] = candStatus[schedCand[s]]
              \/ offChain'[schedCand[s]]
        \/ AdminDelete(schedCand[s])

\* What the schedule of such an assessment and its candidate look like.
LEMMA AbandonedActive ==
  ASSUME IInv, NEW s \in Schedules, Abandoned(s)
  PROVE  /\ schedStatus[s] = "in_progress" /\ schedCand[s] \in Candidates
         /\ s \in ActiveOf(schedCand[s]) /\ s \in SchedulesOf(schedCand[s])
<1>1. schedStatus[s] = "in_progress"
  BY DEF Abandoned, IInv, RowInv, ScheduleMatchesAssessment, TypeOK
<1>2. schedCand[s] \in Candidates
  BY <1>1 DEF IInv, RowInv, RowsOK, TypeOK, Exists
<1> QED
  BY <1>1, <1>2 DEF ActiveOf, SchedulesOf, Exists, ActiveStatuses, ScheduleStatuses

LEMMA RowAbandoned ==
  ASSUME IInv, [Next]_vars, NEW s \in Schedules, Abandoned(s),
         ~AdminDelete(schedCand[s])
  PROVE  Abandoned(s)' /\ schedStatus'[s] = schedStatus[s]
<1>0. schedStatus[s] = "in_progress" /\ s \in SchedulesOf(schedCand[s])
  BY AbandonedActive
<1> USE DEF IInv, TypeOK, Abandoned
<1>1. CASE \E i \in Interviewers, t \in Schedules : RejectScheduled(i, t)
  BY <1>0, <1>1 DEF RejectScheduled, asmtVars
<1>2. CASE \E r \in Requests, t \in Schedules : CreateSchedule(r, t)
  BY <1>0, <1>2 DEF CreateSchedule, asmtVars
<1>3. CASE \E r \in Requests : CancelUndelivered(r)
  BY <1>0, <1>3 DEF CancelUndelivered, Cancellable, RequestsOK, Bound, asmtVars
<1>4. CASE \E t \in Schedules : StartAssessment(t) \/ SaveQuestions(t)
  BY <1>0, <1>4 DEF StartAssessment, SaveQuestions, schedVars
<1>5. CASE \E t \in Schedules : TimeRunsOut(t)
  BY <1>0, <1>5 DEF TimeRunsOut, schedVars
<1>6. CASE \E t \in Schedules : Complete(t)
  BY <1>0, <1>6 DEF Complete
<1>7. ASSUME NEW d \in Candidates, AdminDelete(d)
      PROVE  Abandoned(s)' /\ schedStatus'[s] = schedStatus[s]
  <2>1. d # schedCand[s]
    BY <1>7
  <2> QED
    BY <1>7, <2>1 DEF AdminDelete, SchedulesOf
<1>8. CASE UNCHANGED <<schedStatus, asmt, late, snapshot>>
  BY <1>0, <1>8
<1> QED
  BY <1>1, <1>2, <1>3, <1>4, <1>5, <1>6, <1>7, <1>8
     DEF Next, StaffStep, HandlerStep, CandidateStep, AdminStep, Register,
     ScheduleBegin, CreateRefused, InvitationSent, InvitationFailed,
     CancelSkipped, CancelRolledBack, CancelFails, RejectUnscheduled, Decide, NotifyFinal,
     OutcomeUnheard, MailArrives, StartAbandoned, AdminSetStatus, AdminReset, ServerRestart,
     vars, schedVars, asmtVars

LEMMA CandidateAbandoned ==
  ASSUME IInv, [Next]_vars, NEW s \in Schedules, Abandoned(s),
         ~AdminDelete(schedCand[s])
  PROVE  \/ candStatus'[schedCand[s]] = candStatus[schedCand[s]]
         \/ offChain'[schedCand[s]]
<1> DEFINE c == schedCand[s]
<1>0. /\ schedStatus[s] = "in_progress" /\ c \in Candidates
      /\ s \in ActiveOf(c) /\ s \in SchedulesOf(c)
  BY AbandonedActive
<1>1. /\ CandidateExists(c)
      /\ \A t \in ActiveOf(c) : t = s
  BY <1>0 DEF IInv, RowInv, RowsOK, OneActiveSchedule, SchedulesOf
<1>2. ~offChain[c] => CompletedOf(c) = {}
  BY <1>0, <1>1 DEF IInv, RowInv, UnderReviewIffActive, DecisionAgrees, StatusOf
<1>3. \A t \in Schedules : t # s /\ Exists(t) /\ schedCand[t] = c =>
        schedStatus[t] \notin ActiveStatuses
  BY <1>1 DEF ActiveOf, SchedulesOf
<1>4. \A t \in Schedules :
        ~offChain[c] /\ Exists(t) /\ schedCand[t] = c => asmt[t] # "completed"
  BY <1>2 DEF CompletedOf, SchedulesOf
<1> USE DEF IInv, TypeOK
<1>5. CASE \E i \in Interviewers, t \in Schedules : RejectScheduled(i, t)
  BY <1>0, <1>3, <1>5 DEF RejectScheduled, ActiveStatuses
<1>6. CASE \E r \in Requests, t \in Schedules : CreateSchedule(r, t)
  BY <1>0, <1>6 DEF CreateSchedule, MayCreate
<1>7. CASE \E r \in Requests : CancelUndelivered(r)
  <2> PICK r \in Requests : CancelUndelivered(r)
    BY <1>7
  <2>1. reqSched[r] \in Schedules /\ schedStatus[reqSched[r]] = "scheduled"
    BY DEF CancelUndelivered, Cancellable, RequestsOK, Bound
  <2>2. schedCand[reqSched[r]] # c
    BY <1>0, <1>3, <2>1 DEF Exists, ScheduleStatuses, ActiveStatuses
  <2> QED
    BY <1>0, <2>2 DEF CancelUndelivered
<1>8. CASE \E t \in Schedules : Complete(t)
  <2> PICK t \in Schedules : Complete(t)
    BY <1>8
  <2>1. CASE schedCand[t] = c
    <3>1. t # s /\ Exists(t)
      BY <2>1 DEF Complete, Abandoned, Exists, ScheduleStatuses
    <3>2. asmt[t] = "completed"
      BY <1>3, <2>1, <3>1 DEF Complete, RowInv, ScheduleMatchesAssessment, ActiveStatuses
    <3>3. offChain[c]
      BY <1>0, <1>4, <2>1, <3>1, <3>2
    <3> QED
      BY <3>3 DEF Complete
  <2>2. CASE schedCand[t] # c
    BY <1>0, <2>2 DEF Complete
  <2> QED
    BY <2>1, <2>2
<1>9. CASE \E i \in Interviewers, t \in Schedules, d \in {"Hire", "No-Hire"} :
             Decide(i, t, d)
  BY <1>0, <1>4, <1>9 DEF Decide
<1>10. CASE \E d \in Candidates : AdminReset(d)
  BY <1>0, <1>10 DEF AdminReset
<1>11. CASE \E d \in Candidates, st \in OverrideStatuses : AdminSetStatus(d, st)
  BY <1>0, <1>11 DEF AdminSetStatus
<1>12. CASE \E d \in Candidates : Register(d)
  BY <1>0, <1>1, <1>12 DEF Register, CandidateExists, CandidateStatuses
<1>13. CASE \E d \in Candidates : RejectUnscheduled(d)
  BY <1>0, <1>13 DEF RejectUnscheduled
<1>14. ASSUME NEW d \in Candidates, AdminDelete(d)
       PROVE  candStatus'[c] = candStatus[c]
  <2>1. d # c
    BY <1>14
  <2> QED
    BY <1>0, <1>14, <2>1 DEF AdminDelete
<1>15. CASE UNCHANGED candStatus
  BY <1>15
<1> QED
  BY <1>5, <1>6, <1>7, <1>8, <1>9, <1>10, <1>11, <1>12, <1>13, <1>14, <1>15
     DEF Next, StaffStep, HandlerStep, CandidateStep, AdminStep,
     ScheduleBegin, CreateRefused, InvitationSent, InvitationFailed,
     CancelSkipped, CancelRolledBack, CancelFails, NotifyFinal, OutcomeUnheard, MailArrives, StartAssessment,
     SaveQuestions, StartAbandoned, TimeRunsOut, ServerRestart, vars, candVars

\* An assessment that reached its deadline without questions stays active for
\* good: no candidate, reviewer or request completes or cancels it, and its
\* candidate's status stays, but for an administrator's edit, until the candidate
\* is deleted.  The administrator's reset is refused, too: it asks to "cancel or
\* complete the active assessment" first, which nobody can
\* (reset_candidate_status, finalize_assessment).
THEOREM AbandonedIsADeadEnd ==
  Spec => [][AbandonedIsKept /\ \A s \in Schedules : Abandoned(s) => ~AdminReset(schedCand[s])]_vars
<1>1. IInv /\ [Next]_vars => AbandonedIsKept
  BY RowAbandoned, CandidateAbandoned DEF AbandonedIsKept
<1>2. IInv => \A s \in Schedules : Abandoned(s) => ~AdminReset(schedCand[s])
  BY AbandonedActive DEF AdminReset
<1>3. IInv /\ [Next]_vars
        => [AbandonedIsKept /\ \A s \in Schedules : Abandoned(s) => ~AdminReset(schedCand[s])]_vars
  BY <1>1, <1>2
<1> QED
  BY <1>3, Invariant, PTL DEF Spec
=============================================================================
