------------------------- MODULE LifecycleJourney --------------------------
(***************************************************************************)
(* The database and its handlers, AssessmentLifecycle, keep the promise    *)
(* HiringJourney makes about every application.                            *)
(***************************************************************************)
EXTENDS AssessmentLifecycle

\* Where each status stands on the documented chain.
ChainStage ==
    [absent |-> "none", deleted |-> "gone", applied |-> "open",
     pending |-> "open", absence_of_details |-> "open",
     under_review |-> "invited", completed |-> "assessed",
     hired |-> "hired", rejected |-> "rejected"]

StageOf(c) ==
    IF CandidateExists(c) /\ offChain[c] THEN "taken"
    ELSE ChainStage[candStatus[c]]

StageNow == [c \in Candidates |-> StageOf(c)]
ToldNow == {c \in Candidates : notices[c] > 0}

Journey ==
    INSTANCE HiringJourney WITH
      stage <- StageNow,
      told <- ToldNow

\* Every step of the lifecycle is a step of the candidate's journey, or one
\* the candidate's journey does not see.
KeepsPromise == Journey!Spec
=============================================================================
