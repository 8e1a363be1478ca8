-------------------------- MODULE BoundedBorrowing --------------------------
(***************************************************************************)
(* What the connection pool promises its callers (backend/db_config.py):   *)
(* whoever asks for a connection is lent one or refused, never left        *)
(* waiting, at most Maximum are lent at a time, and what was lent can      *)
(* always be given back.                                                   *)
(***************************************************************************)
EXTENDS Naturals, FiniteSets

CONSTANTS
    Threads,     \* the callers
    Maximum      \* DB_POOL_MAX

VARIABLES
    asking,      \* callers inside get_connection
    lent         \* callers that hold a connection

vars == <<asking, lent>>

Init ==
    /\ asking = {}
    /\ lent = {}

Ask(t) ==
    /\ t \notin asking \cup lent
    /\ asking' = asking \cup {t}
    /\ UNCHANGED lent

Lend(t) ==
    /\ t \in asking
    /\ Cardinality(lent) < Maximum
    /\ asking' = asking \ {t}
    /\ lent' = lent \cup {t}

Refuse(t) ==
    /\ t \in asking
    /\ asking' = asking \ {t}
    /\ UNCHANGED lent

GiveBack(t) ==
    /\ t \in lent
    /\ lent' = lent \ {t}
    /\ UNCHANGED asking

Answer(t) == Lend(t) \/ Refuse(t)

Next == \E t \in Threads : Ask(t) \/ Answer(t) \/ GiveBack(t)

Spec ==
    /\ Init
    /\ [][Next]_vars
    /\ \A t \in Threads : WF_vars(Answer(t)) /\ WF_vars(GiveBack(t))
=============================================================================
