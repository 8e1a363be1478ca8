------------------------ MODULE MCLifecycleJourney -------------------------
(***************************************************************************)
(* A small instance of LifecycleJourney for TLC: two candidates, two       *)
(* schedules, restarts and the administrator's resets and deletions.       *)
(***************************************************************************)
EXTENDS LifecycleJourney, TLC

Symmetry == Permutations(Candidates) \cup Permutations(Schedules)
=============================================================================
