------------------------- MODULE AssessmentSession -------------------------
(***************************************************************************)
(* One assessment while its candidate takes it: starting and resuming,     *)
(* storing the questions, saving answers, keeping the time, completing     *)
(* (backend/interviewee_session.py, interviewee_answers.py and             *)
(* interviewee_monitoring.py over assessment_db.py).                       *)
(*                                                                         *)
(* The candidate may have several pages open, and a page's request takes   *)
(* several transactions with slow calls between them: what a handler read  *)
(* in an earlier step may be stale when it uses it.  Every write locks the *)
(* assessment row and looks again (_lock_active_assessment).               *)
(*                                                                         *)
(* An answer is marked when it is submitted, against the questions stored  *)
(* at that moment.  The three kinds of answers are written alike; the tally*)
(* here is the one of multiple choice, the kind whose every row counts.    *)
(***************************************************************************)
EXTENDS Integers, FiniteSets

CONSTANTS
    Pages,       \* request slots of the candidate's open pages
    Questions,   \* question ids
    Options,     \* what may be answered
    Sets,        \* question sets a generator may come up with
    Prepared,    \* the set generated when the assessment was scheduled
    Key,         \* right answers: for each set, of the questions it has
    NoSet,       \* no question set
    Limit,       \* ASSESSMENT_DURATION_SECONDS, in ticks of the clock
    LoadFails    \* whether reading the schedule's row may fail

ASSUME SetsAssumption ==
    /\ NoSet \notin Sets
    /\ Prepared \in Sets
    /\ DOMAIN Key = Sets
    /\ \A k \in Sets : DOMAIN Key[k] \subseteq Questions
ASSUME QuestionsAssumption == IsFiniteSet(Questions)
ASSUME LimitAssumption == Limit \in Nat \ {0}
ASSUME LoadAssumption == LoadFails \in BOOLEAN

VARIABLES
    status,      \* assessments.status, "absent" before the row
    snapshot,    \* assessments.questions_data
    responses,   \* the response rows: at most one per question
    score,       \* the persisted score; 0 until it is computed
    clock,       \* ticks since started_at, up to one past the limit
    elapsed,     \* assessments.time_elapsed_seconds
    req,         \* the request each page has in the server
    shown,       \* the questions each page was given
    left         \* the remaining time each page was told last

rowVars == <<status, snapshot, responses, score, elapsed>>
pageVars == <<req, shown, left>>
vars == <<rowVars, clock, pageVars>>

-----------------------------------------------------------------------------

Unanswered == [chosen |-> "none", right |-> FALSE]
Responses == {Unanswered} \cup [chosen : Options, right : BOOLEAN]

Later(a, b) == IF a >= b THEN a ELSE b

\* GREATEST(time_elapsed_seconds, now - started_at), and the deadline on it
Elapsed == Later(elapsed, clock)
Late == Elapsed >= Limit

Active == status = "in_progress"

\* _lock_active_assessment: what every write of the session asks first
MayWrite == Active /\ ~Late

\* Right answers count, never more of them than the snapshot has questions.
Tally ==
    LET right == Cardinality({q \in Questions : responses[q].right})
        assigned == Cardinality(DOMAIN Key[snapshot])
    IN  IF right > assigned THEN assigned ELSE right

Idle == [op |-> "idle"]
Requests ==
    {Idle}
      \cup [op : {"starting"}, resume : BOOLEAN]
      \cup [op : {"loading"}, own : Sets \cup {NoSet}, spent : 0 .. Limit + 1]
      \cup [op : {"storing"}, own : Sets, spent : 0 .. Limit + 1]
      \cup [op : {"marking"}, q : Questions, chosen : Options, right : BOOLEAN]
      \cup [op : {"syncing"}, spent : 0 .. Limit]

Hold(p, r) == req' = [req EXCEPT ![p] = r]

\* The page is shown the questions and told what is left of the time.
Show(p, k, spent) ==
    /\ shown' = [shown EXCEPT ![p] = k]
    /\ left' = [left EXCEPT ![p] = Later(0, Limit - spent)]
    /\ Hold(p, Idle)

Init ==
    /\ status = "absent"
    /\ snapshot = NoSet
    /\ responses = [q \in Questions |-> Unanswered]
    /\ score = 0
    /\ clock = 0
    /\ elapsed = 0
    /\ req = [p \in Pages |-> Idle]
    /\ shown = [p \in Pages |-> NoSet]
    /\ left = [p \in Pages |-> Limit]

-----------------------------------------------------------------------------
\* Starting: create or resume, read what is stored, load or generate, store

Start(p) ==
    /\ req[p] = Idle
    /\ status \in {"absent", "in_progress"}
    /\ ~Late
    /\ status' = "in_progress"
    /\ Hold(p, [op |-> "starting", resume |-> status = "in_progress"])
    /\ UNCHANGED <<snapshot, responses, score, elapsed, clock, shown, left>>

\* Slip: a resumed session is treated like a first start.
ReadStoredFresh(p) ==
    /\ req[p].op = "starting"
    /\ Hold(p, [op |-> "loading", own |-> NoSet, spent |-> 0])
    /\ UNCHANGED <<rowVars, clock, shown, left>>

\* A resumed session reads its elapsed time and the questions it stored.
ReadStored(p) ==
    /\ req[p].op = "starting"
    /\ Hold(p, IF req[p].resume
                 THEN [op |-> "loading", own |-> snapshot, spent |-> Elapsed]
                 ELSE [op |-> "loading", own |-> NoSet, spent |-> 0])
    /\ UNCHANGED <<rowVars, clock, shown, left>>

\* _load_scheduled_configuration; a stored set is shown as it is
LoadStored(p) ==
    /\ req[p].op = "loading"
    /\ req[p].own # NoSet
    /\ Show(p, req[p].own, req[p].spent)
    /\ UNCHANGED <<rowVars, clock>>

\* Slip: the questions prepared with the schedule are not looked for.
LoadGenerates(p) ==
    /\ req[p].op = "loading"
    /\ req[p].own = NoSet
    /\ \E k \in Sets :
         Hold(p, [op |-> "storing", own |-> k, spent |-> req[p].spent])
    /\ UNCHANGED <<rowVars, clock, shown, left>>

\* With none stored the prepared set is used; when reading it fails, the
\* failure is logged and a generator makes another.
LoadPrepared(p) ==
    /\ req[p].op = "loading"
    /\ req[p].own = NoSet
    /\ \E k \in IF LoadFails THEN Sets ELSE {Prepared} :
         Hold(p, [op |-> "storing", own |-> k, spent |-> req[p].spent])
    /\ UNCHANGED <<rowVars, clock, shown, left>>

\* Slip: the questions are stored whatever became of the row meanwhile.
StoreUnchecked(p) ==
    /\ req[p].op = "storing"
    /\ snapshot' = req[p].own
    /\ Show(p, req[p].own, req[p].spent)
    /\ UNCHANGED <<status, responses, score, elapsed, clock>>

\* save_assessment_questions
StoreQuestions(p) ==
    /\ req[p].op = "storing"
    /\ MayWrite
    /\ snapshot' = req[p].own
    /\ Show(p, req[p].own, req[p].spent)
    /\ UNCHANGED <<status, responses, score, elapsed, clock>>

-----------------------------------------------------------------------------
\* Answering: mark against the stored questions, then save

\* The page submits an answer to a question it shows; it is marked by the
\* questions the row holds now.
Submit(p, q, o) ==
    /\ req[p] = Idle
    /\ shown[p] # NoSet
    /\ q \in DOMAIN Key[shown[p]]
    /\ MayWrite
    /\ snapshot # NoSet
    /\ q \in DOMAIN Key[snapshot]
    /\ Hold(p, [op |-> "marking", q |-> q, chosen |-> o,
                right |-> o = Key[snapshot][q]])
    /\ UNCHANGED <<rowVars, clock, shown, left>>

\* Slip: the answer is saved on the strength of the check before the marking.
SaveUnchecked(p) ==
    /\ req[p].op = "marking"
    /\ responses' = [responses EXCEPT ![req[p].q] =
                       [chosen |-> req[p].chosen, right |-> req[p].right]]
    /\ Hold(p, Idle)
    /\ UNCHANGED <<status, snapshot, score, elapsed, clock, shown, left>>

\* save_mcq_response and its two siblings: one row per question
SaveAnswer(p) ==
    /\ req[p].op = "marking"
    /\ MayWrite
    /\ responses' = [responses EXCEPT ![req[p].q] =
                       [chosen |-> req[p].chosen, right |-> req[p].right]]
    /\ Hold(p, Idle)
    /\ UNCHANGED <<status, snapshot, score, elapsed, clock, shown, left>>

-----------------------------------------------------------------------------
\* The time: the page reports what it counted, the later of the two holds

Tick ==
    /\ Active
    /\ clock <= Limit
    /\ clock' = clock + 1
    /\ UNCHANGED <<rowVars, pageVars>>

\* sync_assessment_time, up to its write; without one it answers at once
SyncTime(p, t) ==
    /\ req[p] = Idle
    /\ MayWrite
    /\ IF t > Elapsed
         THEN Hold(p, [op |-> "syncing", spent |-> t]) /\ UNCHANGED left
         ELSE left' = [left EXCEPT ![p] = Limit - Elapsed] /\ UNCHANGED req
    /\ UNCHANGED <<rowVars, clock, shown>>

\* Slip: the reported time replaces the stored one.
SaveTimeBlindly(p) ==
    /\ req[p].op = "syncing"
    /\ MayWrite
    /\ elapsed' = req[p].spent
    /\ left' = [left EXCEPT ![p] = Limit - req[p].spent]
    /\ Hold(p, Idle)
    /\ UNCHANGED <<status, snapshot, responses, score, clock, shown>>

\* update_assessment_time_elapsed
SaveTime(p) ==
    /\ req[p].op = "syncing"
    /\ MayWrite
    /\ elapsed' = Later(elapsed, req[p].spent)
    /\ left' = [left EXCEPT ![p] = Limit - req[p].spent]
    /\ Hold(p, Idle)
    /\ UNCHANGED <<status, snapshot, responses, score, clock, shown>>

-----------------------------------------------------------------------------
\* A write refused under the lock, a failed statement or a restarted server
\* ends the request without a trace.
GiveUp(p) ==
    /\ req[p] # Idle
    /\ Hold(p, Idle)
    /\ UNCHANGED <<rowVars, clock, shown, left>>

\* Slip: the time is persisted as it was counted.
CompleteLate ==
    /\ Active
    /\ snapshot # NoSet
    /\ status' = "completed"
    /\ score' = Tally
    /\ elapsed' = Elapsed
    /\ UNCHANGED <<snapshot, responses, clock, pageVars>>

\* finalize_assessment, by /complete or by a start past the deadline; a
\* repetition finds the scores persisted and keeps them
Complete ==
    /\ Active
    /\ snapshot # NoSet
    /\ status' = "completed"
    /\ score' = Tally
    /\ elapsed' = IF Elapsed > Limit THEN Limit ELSE Elapsed
    /\ UNCHANGED <<snapshot, responses, clock, pageVars>>

Next ==
    \/ \E p \in Pages :
         \/ Start(p) \/ ReadStored(p) \/ LoadStored(p) \/ LoadPrepared(p)
         \/ StoreQuestions(p) \/ SaveAnswer(p) \/ SaveTime(p) \/ GiveUp(p)
         \/ \E q \in Questions, o \in Options : Submit(p, q, o)
         \/ \E t \in 0 .. Limit : SyncTime(p, t)
    \/ Tick
    \/ Complete

Spec == Init /\ [][Next]_vars

-----------------------------------------------------------------------------
\* What must hold

TypeOK ==
    /\ status \in {"absent", "in_progress", "completed"}
    /\ snapshot \in Sets \cup {NoSet}
    /\ responses \in [Questions -> Responses]
    /\ score \in Nat
    /\ clock \in 0 .. Limit + 1
    /\ elapsed \in 0 .. Limit
    /\ req \in [Pages -> Requests]
    /\ shown \in [Pages -> Sets \cup {NoSet}]
    /\ left \in [Pages -> 0 .. Limit]

\* Completion cannot race a final autosave: whatever was being marked, stored
\* or retried when it happened, the persisted score is that of the rows.
ScoreIsOfTheRows ==
    status = "completed" => snapshot # NoSet /\ score = Tally

\* "So the live session has a stable snapshot" (DATABASE.md), "the immutable
\* assigned-question snapshot used for fair scoring" (assessment_db.py).
SnapshotStands ==
    [][snapshot # NoSet => snapshot' = snapshot]_vars

\* Every saved mark is the one the questions that will be scored give.
MarkedBySnapshot ==
    \A q \in Questions :
      responses[q] # Unanswered =>
        /\ snapshot # NoSet
        /\ q \in DOMAIN Key[snapshot]
        /\ responses[q].right = (responses[q].chosen = Key[snapshot][q])

\* The pages' clocks cannot give time back: no late or reordered report makes
\* less time elapsed than before, and no page is told it has more time left.
TimeOnlyRunsOut ==
    [][/\ Elapsed' >= Elapsed
       /\ \A p \in Pages : left'[p] <= left[p]]_vars
=============================================================================
