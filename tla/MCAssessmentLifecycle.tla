----------------------- MODULE MCAssessmentLifecycle -----------------------
(***************************************************************************)
(* Small instances of AssessmentLifecycle for TLC.  Row ids, accounts and  *)
(* requests are interchangeable model values.                              *)
(***************************************************************************)
EXTENDS AssessmentLifecycle, TLC

Symmetry ==
    Permutations(Candidates) \cup Permutations(Interviewers)
      \cup Permutations(Schedules) \cup Permutations(Requests)
=============================================================================
