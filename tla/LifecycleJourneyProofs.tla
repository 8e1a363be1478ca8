----------------------- MODULE LifecycleJourneyProofs -----------------------
(***************************************************************************)
(* Proof that AssessmentLifecycle implements HiringJourney: every step of  *)
(* a handler is a step of one candidate's journey or leaves all journeys   *)
(* as they are.                                                            *)
(***************************************************************************)
EXTENDS LifecycleJourney, AssessmentLifecycleProofs

\* A step that leaves every other candidate's status alone moves c's stage only.
LEMMA StageMoves ==
  ASSUME TypeOK, NEW c \in Candidates,
         \A d \in Candidates \ {c} :
           candStatus'[d] = candStatus[d] /\ offChain'[d] = offChain[d]
  PROVE  StageNow' = [StageNow EXCEPT ![c] = StageOf(c)']
<1>1. \A d \in Candidates \ {c} : StageOf(d)' = StageOf(d)
  BY DEF StageOf, CandidateExists
<1>2. StageNow' = [d \in Candidates |-> StageOf(d)']
  BY DEF StageNow
<1>3. StageNow = [d \in Candidates |-> StageOf(d)]
  BY DEF StageNow
<1> QED
  BY <1>1, <1>2, <1>3

LEMMA StageKept ==
  ASSUME UNCHANGED <<candStatus, offChain>>
  PROVE  UNCHANGED StageNow
BY DEF StageNow, StageOf, CandidateExists

LEMMA ToldKept ==
  ASSUME UNCHANGED notices
  PROVE  UNCHANGED ToldNow
BY DEF ToldNow

LEMMA JourneyBegins == Init => Journey!Init
BY DEF Init, Journey!Init, StageNow, ToldNow, StageOf, ChainStage,
   CandidateExists, CandidateStatuses

LEMMA ChainStages ==
  /\ ChainStage["absent"] = "none" /\ ChainStage["deleted"] = "gone"
  /\ \A st \in ClaimableStatuses : ChainStage[st] = "open"
  /\ ChainStage["under_review"] = "invited"
  /\ ChainStage["completed"] = "assessed"
  /\ \A st \in FinalStatuses : ChainStage[st] = st
BY DEF ChainStage, ClaimableStatuses, FinalStatuses

\* A candidate the administrator took over stays taken.
LEMMA TakenStays ==
  ASSUME TypeOK, NEW c \in Candidates, offChain[c],
         candStatus[c] \in CandidateStatuses,
         \E st \in CandidateStatuses :
           candStatus' = [candStatus EXCEPT ![c] = st],
         UNCHANGED <<offChain, notices>>
  PROVE  UNCHANGED Journey!journey
<1>1. StageNow[c] = "taken" /\ StageOf(c)' = "taken"
  BY DEF StageNow, StageOf, CandidateExists, TypeOK
<1>2. StageNow' = [StageNow EXCEPT ![c] = StageOf(c)']
  BY StageMoves DEF TypeOK
<1> QED
  BY <1>1, <1>2, ToldKept DEF StageNow, Journey!journey

\* What a status write does to the stage of a candidate on the chain.
LEMMA ChainMove ==
  ASSUME TypeOK, NEW c \in Candidates, ~offChain[c],
         NEW st \in CandidateStatuses \cup {"deleted"},
         candStatus' = [candStatus EXCEPT ![c] = st],
         UNCHANGED offChain
  PROVE  /\ StageNow[c] = ChainStage[candStatus[c]]
         /\ StageNow' = [StageNow EXCEPT ![c] = ChainStage[st]]
<1>1. StageOf(c)' = ChainStage[st]
  BY DEF StageOf, CandidateExists, TypeOK
<1>2. StageNow' = [StageNow EXCEPT ![c] = StageOf(c)']
  BY StageMoves DEF TypeOK
<1> QED
  BY <1>1, <1>2 DEF StageNow, StageOf, CandidateExists

-----------------------------------------------------------------------------
\* One lemma for each action that writes a status or sends the outcome

LEMMA RegisterJourney ==
  ASSUME IInv, NEW c \in Candidates, Register(c)
  PROVE  Journey!Apply(c)
<1>0. TypeOK /\ candStatus[c] = "absent"
  BY DEF IInv, Register
<1>1. ~offChain[c] /\ UNCHANGED offChain /\ UNCHANGED notices
  BY DEF IInv, RowInv, ChainOK, Register, mailVars
<1>2. PICK st \in {"applied", "absence_of_details"} :
        candStatus' = [candStatus EXCEPT ![c] = st]
  BY DEF Register
<1>3. st \in CandidateStatuses \cup {"deleted"}
  BY <1>2 DEF CandidateStatuses
<1>4. /\ StageNow[c] = ChainStage[candStatus[c]]
      /\ StageNow' = [StageNow EXCEPT ![c] = ChainStage[st]]
  BY ONLY <1>0, <1>1, <1>2, <1>3, ChainMove
<1>5. StageNow[c] = "none" /\ StageNow' = [StageNow EXCEPT ![c] = "open"]
  BY <1>0, <1>4, ChainStages DEF ClaimableStatuses
<1> QED
  BY <1>1, <1>5, ToldKept DEF Journey!Apply, Journey!Move

LEMMA CreateScheduleJourney ==
  ASSUME IInv, NEW r \in Requests, NEW s \in Schedules, CreateSchedule(r, s)
  PROVE  Journey!Invite(reqCand[r]) \/ UNCHANGED Journey!journey
<1> DEFINE c == reqCand[r]
<1>1. /\ c \in Candidates
      /\ candStatus[c] \in CandidateStatuses
      /\ candStatus[c] \notin BlockedStatuses
  BY DEF IInv, RequestsOK, CreateSchedule, MayCreate, CandidateExists
<1>2. /\ candStatus' = [candStatus EXCEPT ![c] = "under_review"]
      /\ UNCHANGED <<offChain, notices>>
  BY DEF CreateSchedule, mailVars
<1>3. CASE offChain[c]
  BY <1>1, <1>2, <1>3, TakenStays DEF IInv, CandidateStatuses
<1>4. CASE ~offChain[c]
  <2>0. TypeOK /\ "under_review" \in CandidateStatuses \cup {"deleted"}
    BY DEF IInv, CandidateStatuses
  <2>1. /\ StageNow[c] = ChainStage[candStatus[c]]
        /\ StageNow' = [StageNow EXCEPT ![c] = ChainStage["under_review"]]
    BY ONLY <1>1, <1>2, <1>4, <2>0, ChainMove
  <2>2. StageNow[c] = "open" /\ StageNow' = [StageNow EXCEPT ![c] = "invited"]
    BY <1>1, <2>1, ChainStages
       DEF CandidateStatuses, BlockedStatuses, ClaimableStatuses
  <2> QED
    BY <1>2, <2>2, ToldKept DEF Journey!Invite, Journey!Move
<1> QED
  BY <1>3, <1>4

LEMMA CancelJourney ==
  ASSUME IInv, NEW r \in Requests, CancelUndelivered(r)
  PROVE  Journey!Withdraw(reqCand[r]) \/ UNCHANGED Journey!journey
<1> DEFINE c == reqCand[r]
<1>1. c \in Candidates /\ c = schedCand[reqSched[r]]
  BY DEF IInv, RequestsOK, Bound, CancelUndelivered
<1>2. /\ candStatus[c] = "under_review"
      /\ candStatus' = [candStatus EXCEPT ![c] = "applied"]
      /\ UNCHANGED <<offChain, notices>>
  BY <1>1 DEF CancelUndelivered, mailVars
<1>3. CASE offChain[c]
  BY <1>1, <1>2, <1>3, TakenStays DEF IInv, CandidateStatuses
<1>4. CASE ~offChain[c]
  <2>0. TypeOK /\ "applied" \in CandidateStatuses \cup {"deleted"}
    BY DEF IInv, CandidateStatuses
  <2>1. /\ StageNow[c] = ChainStage[candStatus[c]]
        /\ StageNow' = [StageNow EXCEPT ![c] = ChainStage["applied"]]
    BY ONLY <1>1, <1>2, <1>4, <2>0, ChainMove
  <2>2. StageNow[c] = "invited" /\ StageNow' = [StageNow EXCEPT ![c] = "open"]
    BY <1>2, <2>1, ChainStages DEF ClaimableStatuses
  <2> QED
    BY <1>2, <2>2, ToldKept DEF Journey!Withdraw, Journey!Move
<1> QED
  BY <1>3, <1>4

LEMMA RejectJourney ==
  ASSUME IInv, NEW c \in Candidates,
         \/ RejectUnscheduled(c)
         \/ \E i \in Interviewers, s \in Schedules :
              schedCand[s] = c /\ RejectScheduled(i, s)
  PROVE  Journey!TurnDown(c) \/ UNCHANGED Journey!journey
<1>1. /\ candStatus[c] \in CandidateStatuses
      /\ candStatus[c] \notin {"completed", "hired", "rejected"}
      /\ candStatus' = [candStatus EXCEPT ![c] = "rejected"]
      /\ UNCHANGED <<offChain, notices>>
  BY DEF IInv, RowInv, RowsOK, CandidateExists, RejectUnscheduled,
     RejectScheduled, ClaimableStatuses, CandidateStatuses
<1>2. CASE offChain[c]
  BY <1>1, <1>2, TakenStays DEF IInv, CandidateStatuses
<1>3. CASE ~offChain[c]
  <2>0. TypeOK /\ "rejected" \in CandidateStatuses \cup {"deleted"}
    BY DEF IInv, CandidateStatuses
  <2>1. /\ StageNow[c] = ChainStage[candStatus[c]]
        /\ StageNow' = [StageNow EXCEPT ![c] = ChainStage["rejected"]]
    BY ONLY <1>1, <1>3, <2>0, ChainMove
  <2>2. /\ StageNow[c] \in {"open", "invited"}
        /\ StageNow' = [StageNow EXCEPT ![c] = "rejected"]
    BY <1>1, <2>1, ChainStages
       DEF CandidateStatuses, ClaimableStatuses, FinalStatuses
  <2> QED
    BY <1>1, <2>2, ToldKept DEF Journey!TurnDown, Journey!Move
<1> QED
  BY <1>2, <1>3

LEMMA CompleteJourney ==
  ASSUME IInv, NEW s \in Schedules, Complete(s)
  PROVE  Journey!Assess(schedCand[s]) \/ UNCHANGED Journey!journey
<1> DEFINE c == schedCand[s]
           st == IF candStatus[c] \in FinalStatuses THEN candStatus[c]
                 ELSE "completed"
<1>1. c \in Candidates /\ candStatus[c] \in CandidateStatuses
  BY DEF IInv, RowInv, RowsOK, Exists, ScheduleStatuses, CandidateExists,
     Complete
<1>2. /\ candStatus' = [candStatus EXCEPT ![c] = st]
      /\ st \in CandidateStatuses
      /\ UNCHANGED <<offChain, notices>>
  BY <1>1 DEF Complete, mailVars, CandidateStatuses, IInv, TypeOK
<1>3. CASE offChain[c]
  BY <1>1, <1>2, <1>3, TakenStays DEF IInv
<1>4. CASE ~offChain[c] /\ candStatus[c] = "under_review"
  <2>0. TypeOK /\ "completed" \in CandidateStatuses \cup {"deleted"}
    BY DEF IInv, CandidateStatuses
  <2>1. candStatus' = [candStatus EXCEPT ![c] = "completed"]
    BY <1>2, <1>4 DEF FinalStatuses
  <2>2. /\ StageNow[c] = ChainStage[candStatus[c]]
        /\ StageNow' = [StageNow EXCEPT ![c] = ChainStage["completed"]]
    BY ONLY <1>1, <1>2, <1>4, <2>0, <2>1, ChainMove
  <2>3. /\ StageNow[c] = "invited"
        /\ StageNow' = [StageNow EXCEPT ![c] = "assessed"]
    BY <1>4, <2>2, ChainStages
  <2> QED
    BY <1>1, <1>2, <2>3, ToldKept DEF Journey!Assess, Journey!Move
<1>5. CASE ~offChain[c] /\ candStatus[c] # "under_review"
  <2>1. asmt[s] = "completed" /\ s \in CompletedOf(c)
    BY <1>1, <1>5 DEF IInv, RowInv, UnderReviewIffActive, CandidateExists,
       ActiveOf, SchedulesOf, CompletedOf, Exists, ScheduleStatuses,
       ActiveStatuses, ScheduleMatchesAssessment, Complete
  <2>2. candStatus[c] \in {"completed", "hired", "rejected"}
    BY <1>1, <1>5, <2>1 DEF IInv, RowInv, DecisionAgrees, CandidateExists,
       StatusOf
  <2>3. UNCHANGED candStatus
    BY <1>2, <2>2 DEF FinalStatuses, IInv, TypeOK
  <2> QED
    BY <1>2, <2>3, StageKept, ToldKept DEF Journey!journey
<1> QED
  BY <1>3, <1>4, <1>5

LEMMA DecideJourney ==
  ASSUME IInv, NEW i \in Interviewers, NEW s \in Schedules,
         NEW d \in {"Hire", "No-Hire"}, Decide(i, s, d)
  PROVE  Journey!Verdict(schedCand[s]) \/ UNCHANGED Journey!journey
<1> DEFINE c == schedCand[s]
<1>1. /\ c \in Candidates
      /\ candStatus[c] \in CandidateStatuses
      /\ s \in CompletedOf(c)
  BY DEF IInv, RowInv, RowsOK, CandidateExists, Decide, CompletedOf, SchedulesOf
<1>2. /\ candStatus' = [candStatus EXCEPT ![c] = StatusOf(d)]
      /\ StatusOf(d) \in {"hired", "rejected"}
      /\ UNCHANGED <<offChain, notices>>
  BY DEF Decide, StatusOf
<1>3. CASE offChain[c]
  BY <1>1, <1>2, <1>3, TakenStays DEF IInv, CandidateStatuses
<1>4. CASE ~offChain[c] /\ decision[s] = "none"
  <2>1. candStatus[c] = "completed"
    BY <1>1, <1>4 DEF IInv, RowInv, DecisionAgrees, CandidateExists
  <2>2. TypeOK /\ StatusOf(d) \in CandidateStatuses \cup {"deleted"}
    BY <1>2 DEF IInv, CandidateStatuses
  <2>3. /\ StageNow[c] = ChainStage[candStatus[c]]
        /\ StageNow' = [StageNow EXCEPT ![c] = ChainStage[StatusOf(d)]]
    BY ONLY <1>1, <1>2, <1>4, <2>2, ChainMove
  <2>4. /\ StageNow[c] = "assessed"
        /\ StageNow' = [StageNow EXCEPT ![c] = StatusOf(d)]
    BY <1>2, <2>1, <2>3, ChainStages DEF FinalStatuses
  <2> QED
    BY <1>2, <2>4, ToldKept DEF Journey!Verdict, Journey!Move, Journey!Outcomes
<1>5. CASE ~offChain[c] /\ decision[s] = d
  <2>1. candStatus[c] = StatusOf(d)
    BY <1>1, <1>5 DEF IInv, RowInv, DecisionAgrees, CandidateExists
  <2>2. UNCHANGED candStatus
    BY <1>2, <2>1 DEF IInv, TypeOK
  <2> QED
    BY <1>2, <2>2, StageKept, ToldKept DEF Journey!journey
<1> QED
  BY <1>3, <1>4, <1>5 DEF Decide

LEMMA NotifyFinalJourney ==
  ASSUME IInv, NEW c \in Candidates, NotifyFinal(c)
  PROVE  Journey!Tell(c) \/ Journey!TakeOver(c) \/ UNCHANGED Journey!journey
<1>1. /\ notifying[c] > 0
      /\ notices' = [notices EXCEPT ![c] = IF @ < MaxNotices THEN @ + 1 ELSE @]
      /\ UNCHANGED <<candStatus, offChain>>
  BY DEF NotifyFinal, OneMore
<1>2. ToldNow' = ToldNow \cup {c}
  BY <1>1, NoticesAssumption DEF ToldNow, IInv, TypeOK
<1>3. UNCHANGED StageNow
  BY <1>1, StageKept
<1>4. CASE c \in ToldNow
  BY <1>2, <1>3, <1>4 DEF Journey!journey
<1>5. CASE c \notin ToldNow /\ offChain[c] /\ CandidateExists(c)
  <2>1. StageNow[c] = "taken" /\ StageNow = [StageNow EXCEPT ![c] = "taken"]
    BY <1>5 DEF StageNow, StageOf
  <2> QED
    BY <1>2, <1>3, <2>1 DEF Journey!TakeOver, Journey!Stages
<1>6. CASE c \notin ToldNow /\ ~(offChain[c] /\ CandidateExists(c))
  <2>1. candStatus[c] \in FinalStatuses \cup {"deleted"}
    BY <1>1, <1>6 DEF IInv, RowInv, TypeOK, OneNotice, ChainOK, CandidateExists
  <2>2. StageNow[c] = ChainStage[candStatus[c]]
    BY <1>6 DEF StageNow, StageOf
  <2>3. StageNow[c] \in Journey!Outcomes \cup {"gone"}
    BY <2>1, <2>2, ChainStages DEF FinalStatuses, Journey!Outcomes
  <2> QED
    BY <1>2, <1>3, <1>6, <2>3 DEF Journey!Tell
<1> QED
  BY <1>4, <1>5, <1>6

\* The stages an existing candidate can be in.
LEMMA StageOfExisting ==
  ASSUME NEW c \in Candidates, candStatus[c] \in CandidateStatuses
  PROVE  StageNow[c] \in Journey!Stages \ {"none", "gone"}
<1>1. ChainStage[candStatus[c]] \in Journey!Stages \ {"none", "gone"}
  BY ChainStages DEF CandidateStatuses, ClaimableStatuses, FinalStatuses,
     Journey!Stages, Journey!Outcomes
<1> QED
  BY <1>1 DEF StageNow, StageOf, Journey!Stages

LEMMA AdminSetStatusJourney ==
  ASSUME IInv, NEW c \in Candidates, NEW st \in OverrideStatuses,
         AdminSetStatus(c, st)
  PROVE  Journey!TakeOver(c)
<1>1. /\ candStatus[c] \in CandidateStatuses
      /\ candStatus' = [candStatus EXCEPT ![c] = st]
      /\ offChain' = [offChain EXCEPT ![c] = TRUE]
      /\ UNCHANGED notices
  BY DEF AdminSetStatus, CandidateExists, mailVars
<1>2. StageOf(c)' = "taken"
  BY <1>1, OverrideAssumption DEF StageOf, CandidateExists, IInv, TypeOK
<1>3. StageNow' = [StageNow EXCEPT ![c] = "taken"]
  BY <1>1, <1>2, StageMoves DEF IInv, TypeOK
<1> QED
  BY <1>1, <1>3, StageOfExisting, ToldKept DEF Journey!TakeOver

LEMMA AdminResetJourney ==
  ASSUME IInv, NEW c \in Candidates, AdminReset(c)
  PROVE  Journey!Reopen(c) \/ Journey!TakeOver(c) \/ UNCHANGED Journey!journey
<1> DEFINE off == offChain[c] \/ CompletedOf(c) # {} \/ notifying[c] > 0
<1>1. /\ candStatus[c] \in CandidateStatuses
      /\ ActiveOf(c) = {}
      /\ candStatus' = [candStatus EXCEPT ![c] = "applied"]
      /\ notices' = [notices EXCEPT ![c] = 0]
  BY DEF AdminReset, CandidateExists
<1>2. offChain' = [offChain EXCEPT ![c] = off] /\ off \in BOOLEAN
  BY DEF AdminReset
<1> HIDE DEF off
<1>3. /\ offChain'[c] = off
      /\ \A d \in Candidates \ {c} :
           candStatus'[d] = candStatus[d] /\ offChain'[d] = offChain[d]
      /\ candStatus'[c] = "applied"
  BY <1>1, <1>2 DEF IInv, TypeOK
<1>4. ToldNow' = ToldNow \ {c}
  BY <1>1 DEF ToldNow, IInv, TypeOK
<1>5. StageNow' = [StageNow EXCEPT ![c] = StageOf(c)']
  BY <1>3, StageMoves DEF IInv
<1>6. CASE off
  <2>1. StageOf(c)' = "taken"
    BY <1>3, <1>6 DEF StageOf, CandidateExists, CandidateStatuses
  <2> QED
    BY <1>1, <1>4, <1>5, <2>1, StageOfExisting DEF Journey!TakeOver
<1>7. CASE ~off
  <2>1. ~offChain[c] /\ CompletedOf(c) = {} /\ notifying[c] = 0
    BY <1>7, NoticesAssumption DEF off, IInv, TypeOK
  <2>2. StageOf(c)' = "open"
    BY <1>3, <1>7, ChainStages DEF StageOf, CandidateExists, ClaimableStatuses
  <2>3. StageNow[c] = ChainStage[candStatus[c]]
    BY <2>1 DEF StageNow, StageOf
  <2>4. candStatus[c] \in ClaimableStatuses \cup {"rejected"}
    BY <1>1, <2>1 DEF IInv, RowInv, UnderReviewIffActive, DecisionAgrees,
       CandidateExists, CandidateStatuses, ClaimableStatuses
  <2>5. CASE candStatus[c] = "rejected"
    BY <1>4, <1>5, <2>2, <2>3, <2>5, ChainStages
       DEF Journey!Reopen, FinalStatuses
  <2>6. CASE candStatus[c] \in ClaimableStatuses
    <3>1. c \notin ToldNow
      BY <2>1, <2>6 DEF IInv, OneNotice, ToldNow, ClaimableStatuses,
         FinalStatuses
    <3>2. StageNow[c] = "open"
      BY <2>3, <2>6, ChainStages
    <3>3. StageNow' = StageNow
      BY <1>5, <2>2, <3>2 DEF StageNow
    <3> QED
      BY <1>4, <3>1, <3>3 DEF Journey!journey
  <2> QED
    BY <2>4, <2>5, <2>6
<1> QED
  BY <1>6, <1>7

LEMMA AdminDeleteJourney ==
  ASSUME IInv, NEW c \in Candidates, AdminDelete(c)
  PROVE  Journey!Remove(c)
<1>1. /\ candStatus[c] \in CandidateStatuses
      /\ candStatus' = [candStatus EXCEPT ![c] = "deleted"]
      /\ UNCHANGED <<offChain, notices>>
  BY DEF AdminDelete, CandidateExists, mailVars
<1>2. StageOf(c)' = "gone"
  BY <1>1, ChainStages DEF StageOf, CandidateExists, CandidateStatuses, IInv,
     TypeOK
<1>3. StageNow' = [StageNow EXCEPT ![c] = "gone"]
  BY <1>1, <1>2, StageMoves DEF IInv, TypeOK
<1> QED
  BY <1>1, <1>3, StageOfExisting, ToldKept DEF Journey!Remove, Journey!Move

-----------------------------------------------------------------------------

LEMMA JourneyStep ==
  ASSUME IInv, [Next]_vars
  PROVE  [Journey!Next]_(Journey!journey)
<1>1. CASE \E c \in Candidates : Register(c) \/ RejectUnscheduled(c)
  BY <1>1, RegisterJourney, RejectJourney DEF Journey!Next
<1>2. CASE \E r \in Requests, s \in Schedules : CreateSchedule(r, s)
  <2>1. \A r \in Requests, s \in Schedules :
          CreateSchedule(r, s) => reqCand[r] \in Candidates
    BY DEF IInv, RequestsOK, CreateSchedule
  <2> QED
    BY <1>2, <2>1, CreateScheduleJourney DEF Journey!Next
<1>3. CASE \E r \in Requests : CancelUndelivered(r)
  <2>1. \A r \in Requests : CancelUndelivered(r) => reqCand[r] \in Candidates
    BY DEF IInv, RequestsOK, CancelUndelivered
  <2> QED
    BY <1>3, <2>1, CancelJourney DEF Journey!Next
<1>4. CASE \E i \in Interviewers, s \in Schedules : RejectScheduled(i, s)
  <2>1. \A i \in Interviewers, s \in Schedules :
          RejectScheduled(i, s) => schedCand[s] \in Candidates
    BY DEF IInv, RowInv, RowsOK, RejectScheduled
  <2> QED
    BY <1>4, <2>1, RejectJourney DEF Journey!Next
<1>5. CASE \E i \in Interviewers, s \in Schedules, d \in {"Hire", "No-Hire"} :
             Decide(i, s, d)
  <2>1. \A i \in Interviewers, s \in Schedules, d \in {"Hire", "No-Hire"} :
          Decide(i, s, d) => schedCand[s] \in Candidates
    BY DEF IInv, RowInv, RowsOK, Decide
  <2> QED
    BY <1>5, <2>1, DecideJourney DEF Journey!Next
<1>6. CASE \E s \in Schedules : Complete(s)
  <2>1. \A s \in Schedules : Complete(s) => schedCand[s] \in Candidates
    BY DEF IInv, RowInv, RowsOK, Complete, Exists, ScheduleStatuses
  <2> QED
    BY <1>6, <2>1, CompleteJourney DEF Journey!Next
<1>7. CASE \E c \in Candidates : NotifyFinal(c)
  BY <1>7, NotifyFinalJourney DEF Journey!Next
<1>8. CASE AdminStep
  BY <1>8, AdminSetStatusJourney, AdminResetJourney, AdminDeleteJourney
     DEF AdminStep, Journey!Next
<1>9. CASE UNCHANGED <<candStatus, offChain, notices>>
  BY <1>9, StageKept, ToldKept DEF Journey!journey
<1> QED
  BY <1>1, <1>2, <1>3, <1>4, <1>5, <1>6, <1>7, <1>8, <1>9
     DEF Next, StaffStep, HandlerStep, CandidateStep, ScheduleBegin,
     CreateRefused, InvitationSent, InvitationFailed, CancelSkipped,
     CancelRolledBack, CancelFails, OutcomeUnheard, MailArrives, StartAssessment, SaveQuestions,
     StartAbandoned, TimeRunsOut, ServerRestart, vars, candVars, mailVars

\* The lifecycle of rows, requests and e-mails implements the journey every
\* candidate is promised.
THEOREM LifecycleKeepsPromise == Spec => KeepsPromise
<1>1. IInv /\ [Next]_vars => [Journey!Next]_(Journey!journey)
  BY JourneyStep
<1> QED
  BY <1>1, JourneyBegins, Invariant, PTL DEF Spec, KeepsPromise, Journey!Spec
=============================================================================
