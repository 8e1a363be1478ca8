------------------------ MODULE MCAssessmentSession ------------------------
(***************************************************************************)
(* A small instance of AssessmentSession for TLC: two pages, two questions *)
(* and two question sets that disagree on one question and differ in size. *)
(***************************************************************************)
EXTENDS SessionLifecycle, TLC

CONSTANTS q1, q2, yes, no, agreed, other

MCQuestions == {q1, q2}
MCOptions == {yes, no}
MCSets == {agreed, other}
MCKey == agreed :> (q1 :> yes @@ q2 :> no) @@ other :> (q1 :> no)

Symmetry == Permutations(Pages)
=============================================================================
