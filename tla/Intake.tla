------------------------------- MODULE Intake -------------------------------
(***************************************************************************)
(* Applications and matching as a whole: an upload picks a posting and     *)
(* becomes a row later, and the row is matched to postings and reviewed.   *)
(* One of the candidates is followed through matching; the others only     *)
(* compete for its address and its postings.  The product of the two parts *)
(* is out of reach, so each behaviour has a cast, what takes part in it.   *)
(***************************************************************************)
EXTENDS ResumeIntake, JobMatching

CONSTANTS
    Casts,       \* bound: what may take part together
    Followed     \* the upload of the candidate that is followed

Staff == {"deletion", "edits", "reviews"}

ASSUME CastAssumption ==
    /\ Followed \in Uploads
    /\ Casts \subseteq [uploads : SUBSET Uploads, kinds : SUBSET Kinds, jobs : SUBSET Jobs,
                        runs : SUBSET Runs, staff : SUBSET Staff,
                        active : SUBSET Jobs, sectors : SUBSET Scopes]

VARIABLES
    cast,
    picked       \* the posting each upload picked, as it was then

intakeVars == <<cast, picked, uploadVars, jobVars>>

IntakeInit ==
    /\ cast \in Casts
    /\ picked = [u \in Uploads |-> [job |-> NoJob, of |-> 0]]
    /\ UploadInit
    /\ JobInit
    /\ \A j \in Jobs : posting[j].sector \in cast.sectors /\ (posting[j].status = "active" <=> j \in cast.active)

\* _get_job_description_for_id; _fetch_job_for_bulk ignores closes_at.
PickPosting(u, kind, email, j) ==
    /\ kind # "bank"
    /\ IF kind = "bulk" THEN posting[j].status = "active" ELSE Open(j)
    /\ Choose(u, kind, email)
    /\ picked' = [picked EXCEPT ![u] = [job |-> j, of |-> posting[j].version]]
    /\ UNCHANGED <<cast, jobVars>>

UploadBank(u) ==
    /\ Choose(u, "bank", Unknown)
    /\ UNCHANGED <<cast, picked, jobVars>>

Prepare(u) == Preparing(u) /\ UNCHANGED <<cast, picked, jobVars>>

\* Without its posting no candidate is inserted.
Accept(u, score) ==
    /\ Insert(u) \/ InsertUnheard(u)
    /\ upload[u].kind # "bank" => posting[picked[u].job].status # "absent"
    /\ IF u = Followed /\ upload[u].kind # "bank" THEN Apply(picked[u].job, score, picked[u].of)
                                                  ELSE UNCHANGED jobVars
    /\ UNCHANGED <<cast, picked>>

Collide(u) ==
    /\ InsertDuplicate(u)
    /\ posting[picked[u].job].status # "absent"
    /\ UNCHANGED <<cast, picked, jobVars>>

Uploading(u) ==
    \/ \E kind \in cast.kinds, email \in Emails \cup {Unknown}, j \in Jobs : PickPosting(u, kind, email, j)
    \/ "bank" \in cast.kinds /\ UploadBank(u)
    \/ Prepare(u)
    \/ \E score \in Scores : Accept(u, score)
    \/ Collide(u)

EditCandidate(u) ==
    /\ \/ \E email \in Emails : Readdress(u, email) /\ (u = Followed => TouchCandidate(candidate.score))
       \/ \E score \in Scores : u = Followed /\ TouchCandidate(score) /\ UNCHANGED uploadVars
    /\ u # Followed => UNCHANGED jobVars
    /\ UNCHANGED <<cast, picked>>

Delete(u) ==
    /\ DeleteRow(u) \/ DeleteUnheard(u)
    /\ IF u = Followed /\ upload[u].kind # "bank" THEN DropCandidate ELSE UNCHANGED jobVars
    /\ UNCHANGED <<cast, picked>>

Clear(u) == RemoveFile(u) /\ UNCHANGED <<cast, picked, jobVars>>

JobStep ==
    /\ \/ \E j \in cast.jobs : PostingStep(j)
       \/ \E j \in Jobs : "reviews" \in cast.staff /\ ReviewStep(j)
       \/ \E m \in cast.runs : MatchStep(m)
    /\ UNCHANGED <<cast, picked, uploadVars>>

Crash == RestartIntake /\ RestartMatching /\ UNCHANGED <<cast, picked>>

IntakeNext ==
    \/ \E u \in cast.uploads :
         \/ Uploading(u)
         \/ "edits" \in cast.staff /\ EditCandidate(u)
         \/ "deletion" \in cast.staff /\ Delete(u)
         \/ Clear(u)
    \/ JobStep
    \/ Crash

IntakeSpec == IntakeInit /\ [][IntakeNext]_intakeVars

-----------------------------------------------------------------------------

\* The tables of the two parts hold values of their types, and the followed
\* candidate has a row in both or in neither.
IntakeTypeOK ==
    /\ cast \in Casts
    /\ picked \in [Uploads -> [job : Jobs \cup {NoJob}, of : 0 .. MaxStamp]]
    /\ UploadTypeOK
    /\ JobTypeOK
    /\ candidate.exists <=> row[Followed] # NoRow /\ upload[Followed].kind # "bank"
=============================================================================
