-------------------------- MODULE SessionLifecycle --------------------------
(***************************************************************************)
(* AssessmentSession, one assessment with its pages, requests and clocks,  *)
(* seen as AssessmentLifecycle sees it: a row that is started, late or     *)
(* completed, whose questions are stored or about to be.                   *)
(***************************************************************************)
EXTENDS AssessmentSession

\* The one application, invitation and reviewer a session knows of
Applicant == "applicant"
Invitation == "invitation"
Reviewer == "reviewer"

\* A start that found no questions stored has yet to store some.
Starting ==
    /\ snapshot = NoSet
    /\ \E p \in Pages : req[p].op \in {"starting", "loading", "storing"}

\* The invitation has reached the candidate and nobody but them acts.
Lifecycle ==
    INSTANCE AssessmentLifecycle WITH
      Candidates <- {Applicant},
      Interviewers <- {Reviewer},
      Schedules <- {Invitation},
      Requests <- {},
      Nobody <- "nobody",
      OverrideStatuses <- {},
      Restarts <- FALSE,
      MaxNotices <- 1,
      candStatus <- [c \in {Applicant} |->
                       IF status = "completed" THEN "completed" ELSE "under_review"],
      schedStatus <- [s \in {Invitation} |-> IF status = "absent" THEN "scheduled" ELSE status],
      schedCand <- [s \in {Invitation} |-> Applicant],
      schedOwner <- [s \in {Invitation} |-> Reviewer],
      token <- [s \in {Invitation} |-> TRUE],
      link <- [s \in {Invitation} |-> TRUE],
      asmt <- [s \in {Invitation} |-> status],
      late <- [s \in {Invitation} |-> Late],
      snapshot <- [s \in {Invitation} |-> snapshot # NoSet],
      decision <- [s \in {Invitation} |-> "none"],
      starting <- {s \in {Invitation} : Starting},
      reqPc <- [r \in {} |-> "idle"],
      reqWho <- [r \in {} |-> "nobody"],
      reqCand <- [r \in {} |-> "nobody"],
      reqSched <- [r \in {} |-> "nobody"],
      reply <- [r \in {} |-> "none"],
      notifying <- [c \in {Applicant} |-> 0],
      notices <- [c \in {Applicant} |-> 0],
      offChain <- [c \in {Applicant} |-> FALSE]

\* However many pages the candidate has open, whatever their requests read
\* before they write and however they fail, every step of the session is one
\* of the candidate's steps of the lifecycle or changes nothing it knows of.
SessionKeepsLifecycle == [][Lifecycle!CandidateStep]_(Lifecycle!vars)
=============================================================================
