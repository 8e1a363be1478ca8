--------------------------- MODULE HiringJourney ---------------------------
(***************************************************************************)
(* What HireSense promises about one application, whatever schedules,      *)
(* assessments, reviewers and e-mails lie behind it: the candidate chain   *)
(*    applied -> under_review -> completed -> hired | rejected             *)
(* of docs/BACKEND_FLOW_MAP.md, with the withdrawals and rejections the    *)
(* code adds to it, and one message with the outcome.                      *)
(*                                                                         *)
(* Once an administrator edits the candidate by hand, or resets one whose  *)
(* assessment is completed, the chain is theirs ("taken") and promises     *)
(* nothing but removal.                                                    *)
(***************************************************************************)
CONSTANT Candidates

VARIABLES
    stage,   \* where each application stands
    told     \* the candidates who were sent the outcome

journey == <<stage, told>>

Outcomes == {"hired", "rejected"}
Stages == Outcomes \cup {"none", "open", "invited", "assessed", "taken", "gone"}

Init ==
    /\ stage = [c \in Candidates |-> "none"]
    /\ told = {}

Move(c, from, to) ==
    /\ stage[c] \in from
    /\ stage' = [stage EXCEPT ![c] = to]
    /\ UNCHANGED told

Apply(c) == Move(c, {"none"}, "open")
Invite(c) == Move(c, {"open"}, "invited")
Withdraw(c) == Move(c, {"invited"}, "open")
TurnDown(c) == Move(c, {"open", "invited"}, "rejected")
Assess(c) == Move(c, {"invited"}, "assessed")
Verdict(c) == \E o \in Outcomes : Move(c, {"assessed"}, o)
Remove(c) == Move(c, Stages \ {"none", "gone"}, "gone")

\* The outcome is sent once it is there, and once.
Tell(c) ==
    /\ stage[c] \in Outcomes \cup {"gone"}
    /\ c \notin told
    /\ told' = told \cup {c}
    /\ UNCHANGED stage

\* A rejection before any assessment may be taken back.
Reopen(c) ==
    /\ stage[c] = "rejected"
    /\ stage' = [stage EXCEPT ![c] = "open"]
    /\ told' = told \ {c}

\* The administrator's own steps: into "taken", and whatever is told there.
TakeOver(c) ==
    /\ stage[c] \in Stages \ {"none", "gone"}
    /\ stage' = [stage EXCEPT ![c] = "taken"]
    /\ told' \in {told, told \cup {c}, told \ {c}}

Next ==
    \E c \in Candidates :
      \/ Apply(c) \/ Invite(c) \/ Withdraw(c) \/ TurnDown(c) \/ Assess(c)
      \/ Verdict(c) \/ Tell(c) \/ Reopen(c) \/ TakeOver(c) \/ Remove(c)

Spec == Init /\ [][Next]_journey
=============================================================================
