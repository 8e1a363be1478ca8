---------------------------- MODULE JobMatching ----------------------------
(***************************************************************************)
(* Job postings and the matches of one candidate to them                   *)
(* (backend/job_routes.py, job_matcher.py).                                *)
(*                                                                         *)
(* Each route is one transaction and one step, under the locks it takes,   *)
(* except matching: it reads the candidate and the open jobs, asks the     *)
(* slow matcher, and stores what it said in a second transaction if none   *)
(* of what it read has changed.  updated_at, the version of a row, is a    *)
(* fresh time stamp.                                                       *)
(***************************************************************************)
EXTENDS Naturals, FiniteSets

CONSTANTS
    Jobs,        \* ids of postings: a set of numbers, in the order of ids
    NoJob,       \* candidates.best_match_job_id is NULL
    Sectors,
    Everywhere,  \* the scope of an administrator; no sector, of a row
    Runs,        \* requests to match the candidate
    Scores,      \* values of match_score
    MaxStamp     \* bound: writes of versions

Scopes == Sectors \cup {Everywhere}

ASSUME JobAssumption ==
    /\ Jobs \subseteq Nat /\ IsFiniteSet(Jobs) /\ NoJob \notin Jobs
    /\ Scores \subseteq 0 .. 100 /\ 0 \in Scores
    /\ Everywhere \notin Sectors
    /\ MaxStamp \in Nat

VARIABLES
    posting,     \* job_descriptions
    candidate,   \* the candidate's row, as far as matching goes
    match,       \* candidate_job_matches of the candidate
    run,         \* what each matching under way has read
    stamp,       \* time stamps given so far
    retouched    \* history: an administrator set match_score since it was stored

jobVars == <<posting, candidate, match, run, stamp, retouched>>

\* "absent" is a candidate or a match without a row, a posting not created or
\* deleted; a posting that is paused is closed here.
NoMatch == [status |-> "absent", score |-> 0, of |-> 0]
NoCandidate == [exists |-> FALSE, sector |-> Everywhere, best |-> NoJob, score |-> 0, version |-> 0]
NotRunning == [scope |-> Everywhere, version |-> 0, seen |-> [j \in {} |-> 0]]

JobInit ==
    /\ posting \in [Jobs -> [status : {"absent", "active"}, open : {TRUE}, sector : Scopes, version : {0}]]
    /\ candidate = NoCandidate
    /\ match = [j \in Jobs |-> NoMatch]
    /\ run = [m \in Runs |-> NotRunning]
    /\ stamp = 0
    /\ retouched = FALSE

Open(j) == posting[j].status = "active" /\ posting[j].open
Tick == stamp < MaxStamp /\ stamp' = stamp + 1
MayAccess(scope, sector) == scope = Everywhere \/ scope = sector
Matched == {j \in Jobs : match[j].status # "absent"}

\* The first by score and then by id of some jobs, by given scores
Best(js, score) ==
    IF js = {} THEN NoJob
    ELSE CHOOSE j \in js : \A k \in js : score[j] > score[k] \/ (score[j] = score[k] /\ j <= k)

-----------------------------------------------------------------------------
\* Postings

CreatePosting(j, sector, status) ==
    /\ posting[j].status = "absent" /\ posting[j].version = 0
    /\ Tick
    /\ posting' = [posting EXCEPT ![j] =
         [status |-> status, open |-> TRUE, sector |-> sector, version |-> stamp + 1]]
    /\ UNCHANGED <<candidate, match, run, retouched>>

\* update_job_posting: an active posting must close in the future; only who
\* is not scoped moves it to another sector.
UpdatePosting(j, scope, sector, status) ==
    /\ posting[j].status # "absent"
    /\ MayAccess(scope, posting[j].sector) /\ MayAccess(scope, sector)
    /\ Tick
    /\ posting' = [posting EXCEPT ![j] =
         [status |-> status, open |-> @.open \/ status = "active", sector |-> sector,
          version |-> stamp + 1]]
    /\ UNCHANGED <<candidate, match, run, retouched>>

\* delete_job_posting: a draft nothing refers to, of this candidate or of
\* another, is deleted, any other posting is closed.
DeletePosting(j, scope, unused) ==
    /\ posting[j].status # "absent"
    /\ MayAccess(scope, posting[j].sector)
    /\ unused => posting[j].status = "draft" /\ j \notin Matched /\ candidate.best # j
    /\ Tick
    /\ posting' = [posting EXCEPT ![j].status = IF unused THEN "absent" ELSE "closed",
                                  ![j].version = stamp + 1]
    /\ UNCHANGED <<candidate, match, run, retouched>>

\* closes_at passes; no row is written.
Expire(j) ==
    /\ Open(j)
    /\ posting' = [posting EXCEPT ![j].open = FALSE]
    /\ UNCHANGED <<candidate, match, run, stamp, retouched>>

-----------------------------------------------------------------------------
\* The candidate

\* insert_candidate_application: the row and its match to the job applied
\* for, scored against the posting as it was when the upload began.
Apply(j, score, of) ==
    /\ ~candidate.exists
    /\ posting[j].status # "absent"
    /\ Tick
    /\ candidate' = [exists |-> TRUE, sector |-> posting[j].sector, best |-> j, score |-> score,
                     version |-> stamp + 1]
    /\ match' = [match EXCEPT ![j] = [status |-> "auto_matched", score |-> score, of |-> of]]
    /\ retouched' = FALSE
    /\ UNCHANGED <<posting, run>>

\* update_candidate, and what else writes the row but not its matches
TouchCandidate(score) ==
    /\ candidate.exists
    /\ Tick
    /\ candidate' = [candidate EXCEPT !.score = score, !.version = stamp + 1]
    /\ retouched' = (retouched \/ score # candidate.score)
    /\ UNCHANGED <<posting, match, run>>

\* Slip: only the matches go.
DropMatches ==
    /\ match' = [j \in Jobs |-> NoMatch]
    /\ retouched' = FALSE
    /\ UNCHANGED <<posting, candidate, run, stamp>>

\* The deletion of the candidate cascades to its matches.
DropCandidate ==
    /\ candidate' = NoCandidate
    /\ match' = [j \in Jobs |-> NoMatch]
    /\ retouched' = FALSE
    /\ UNCHANGED <<posting, run, stamp>>

-----------------------------------------------------------------------------
\* Matching

ReadForMatching(m, scope) ==
    LET jobs == {j \in Jobs : Open(j) /\ MayAccess(scope, posting[j].sector)}
    IN  /\ run[m] = NotRunning
        /\ candidate.exists /\ MayAccess(scope, candidate.sector)
        /\ jobs # {}
        /\ run' = [run EXCEPT ![m] = [scope |-> scope, version |-> candidate.version,
                                      seen |-> [j \in jobs |-> posting[j].version]]]
        /\ UNCHANGED <<posting, candidate, match, stamp, retouched>>

\* Slip: only the candidate is looked at again.
UnchangedCandidate(m) ==
    /\ candidate.exists /\ MayAccess(run[m].scope, candidate.sector)
    /\ candidate.version = run[m].version

\* Nothing that was read has changed.
Unchanged(m) ==
    LET jobs == DOMAIN run[m].seen
    IN  /\ candidate.exists /\ MayAccess(run[m].scope, candidate.sector)
        /\ candidate.version = run[m].version
        /\ \A j \in jobs : Open(j) /\ posting[j].version = run[m].seen[j]

\* Slip: the old suggestions go, and reviewed ones with them.
StoredForgetting(m, score) ==
    [j \in Jobs |->
        IF j \in DOMAIN score
          THEN [status |-> "auto_matched", score |-> score[j], of |-> run[m].seen[j]]
          ELSE match[j]]

\* Suggestions for other jobs go, reviewed matches stay, and the scores of
\* the jobs seen are new.
Stored(m, score) ==
    [j \in Jobs |->
        IF j \in DOMAIN score
          THEN [status |-> IF j \in Matched THEN match[j].status ELSE "auto_matched",
                score |-> score[j], of |-> run[m].seen[j]]
          ELSE IF match[j].status = "auto_matched" THEN NoMatch ELSE match[j]]

StoreMatches(m, score) ==
    /\ run[m] # NotRunning
    /\ Unchanged(m)
    /\ Tick
    /\ match' = Stored(m, score)
    /\ LET best == Best({j \in DOMAIN score : match'[j].status # "rejected"}, score)
       IN  candidate' = [candidate EXCEPT !.best = best, !.version = stamp + 1,
                                          !.score = IF best = NoJob THEN 0 ELSE score[best]]
    /\ retouched' = FALSE
    /\ run' = [run EXCEPT ![m] = NotRunning]
    /\ UNCHANGED posting

\* Answered 409, 404 or 403, or failed
GiveUpMatching(m) ==
    /\ run[m] # NotRunning
    /\ run' = [run EXCEPT ![m] = NotRunning]
    /\ UNCHANGED <<posting, candidate, match, stamp, retouched>>

-----------------------------------------------------------------------------
\* Reviewing a match

MayReview(j, scope) ==
    /\ j \in Matched
    /\ candidate.sector = Everywhere \/ MayAccess(scope, candidate.sector)
    /\ MayAccess(scope, posting[j].sector)

ConfirmMatch(j, scope) ==
    /\ MayReview(j, scope)
    /\ Open(j)
    /\ Tick
    /\ match' = [match EXCEPT ![j].status = "confirmed"]
    /\ candidate' = [candidate EXCEPT !.best = j, !.score = match[j].score,
                                      !.sector = posting[j].sector, !.version = stamp + 1]
    /\ retouched' = FALSE
    /\ UNCHANGED <<posting, run>>

\* Slip: the candidate keeps the job that was rejected.
RejectOnly(j, scope) ==
    /\ MayReview(j, scope)
    /\ match' = [match EXCEPT ![j].status = "rejected"]
    /\ UNCHANGED <<posting, candidate, run, stamp, retouched>>

\* If the candidate's best job is rejected the next one takes its place.
RejectMatch(j, scope) ==
    /\ MayReview(j, scope)
    /\ match' = [match EXCEPT ![j].status = "rejected"]
    /\ IF candidate.best # j THEN UNCHANGED <<candidate, stamp, retouched>>
       ELSE LET score == [k \in Jobs |-> match[k].score]
                next == Best({k \in Matched \ {j} : /\ match[k].status # "rejected" /\ Open(k)
                                                    /\ MayAccess(scope, posting[k].sector)}, score)
            IN  /\ Tick
                /\ candidate' = [candidate EXCEPT
                     !.best = next, !.version = stamp + 1,
                     !.score = IF next = NoJob THEN 0 ELSE score[next],
                     !.sector = IF next = NoJob \/ posting[next].sector = Everywhere THEN @
                                ELSE posting[next].sector]
                /\ retouched' = FALSE
    /\ UNCHANGED <<posting, run>>

RestartMatching ==
    /\ run' = [m \in Runs |-> NotRunning]
    /\ UNCHANGED <<posting, candidate, match, stamp, retouched>>

PostingStep(j) ==
    \/ \E sector \in Scopes, status \in {"draft", "active", "closed"} : CreatePosting(j, sector, status)
    \/ \E scope \in Scopes, sector \in Scopes, status \in {"draft", "active", "closed"} :
         UpdatePosting(j, scope, sector, status)
    \/ \E scope \in Scopes, unused \in BOOLEAN : DeletePosting(j, scope, unused)
    \/ Expire(j)
ReviewStep(j) == \E scope \in Scopes : ConfirmMatch(j, scope) \/ RejectMatch(j, scope)
MatchStep(m) ==
    \/ \E scope \in Scopes : ReadForMatching(m, scope)
    \/ \E score \in [DOMAIN run[m].seen -> Scores] : StoreMatches(m, score)
    \/ GiveUpMatching(m)

-----------------------------------------------------------------------------

JobTypeOK ==
    /\ posting \in [Jobs -> [status : {"absent", "draft", "active", "closed"}, open : BOOLEAN,
                             sector : Scopes, version : 0 .. MaxStamp]]
    /\ candidate \in [exists : BOOLEAN, sector : Scopes, best : Jobs \cup {NoJob},
                      score : Scores, version : 0 .. MaxStamp]
    /\ match \in [Jobs -> [status : {"absent", "auto_matched", "confirmed", "rejected"},
                           score : Scores, of : 0 .. MaxStamp]]
    /\ \A m \in Runs : /\ run[m].scope \in Scopes /\ run[m].version \in 0 .. MaxStamp
                       /\ DOMAIN run[m].seen \subseteq Jobs
                       /\ \A j \in DOMAIN run[m].seen : run[m].seen[j] \in 0 .. MaxStamp
    /\ stamp \in 0 .. MaxStamp
    /\ retouched \in BOOLEAN

\* What the candidate's row says agrees with its matches however matching
\* runs, reviews, applications and edits of postings interleave: the best job
\* is a posting, and a match that was not rejected, and the score is that
\* match's unless an administrator set another.
BestAgreesWithRows ==
    candidate.best # NoJob =>
        /\ posting[candidate.best].status # "absent"
        /\ match[candidate.best].status \in {"auto_matched", "confirmed"}
        /\ retouched \/ candidate.score = match[candidate.best].score

\* A matching stores scores only of postings that are open and just as the
\* matcher saw them, and only within its requester's sector
\* (ConcurrentJobChangeError: "please retry").
MatchesAreCurrent ==
    [][\A m \in Runs, j \in Jobs :
         run[m] # run'[m] /\ match[j] # match'[j] /\ match'[j].status # "absent" =>
           /\ Open(j) /\ match'[j].of = posting[j].version
           /\ MayAccess(run[m].scope, posting[j].sector)]_jobVars

\* What a recruiter decided stands until a recruiter decides again: no
\* matching turns a confirmed or rejected match back into a suggestion or
\* removes it ("preserving recruiter confirmations/rejections as hiring
\* history", job_routes.py match_candidate_to_jobs_endpoint).
DecisionsStand ==
    [][\A j \in Jobs :
         match[j].status \in {"confirmed", "rejected"} /\ candidate'.exists =>
           match'[j].status \in {"confirmed", "rejected"}]_jobVars
=============================================================================
