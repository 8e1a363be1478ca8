----------------------------- MODULE Proctoring -----------------------------
(***************************************************************************)
(* The violations of one assessment and the pictures that prove them       *)
(* (backend/interviewee_monitoring.py and proctoring_db.py), the proctor   *)
(* it is assigned to (backend/proctor_routes.py) and what becomes of both  *)
(* when its candidate is deleted (backend/admin_candidates.py).            *)
(*                                                                         *)
(* A report looks at the assessment, writes its picture and then records   *)
(* the violation in a transaction that locks the assessment's row, inserts *)
(* and counts what it can see, and commits: it may be overtaken between    *)
(* any two of these, the server may die, and the answer to its commit may  *)
(* be lost.  Pictures have unique names and one size, and looking for room *)
(* and writing is one step, because the one worker yields at no file       *)
(* operation.                                                              *)
(***************************************************************************)
EXTENDS Naturals, FiniteSets

CONSTANTS
    Pages,       \* reports under way at a time
    Files,       \* names of pictures, bounding how many are ever written
    NoFile,      \* no picture
    Quota,       \* MAX_SCREENSHOTS_PER_ASSESSMENT
    MaxBare,     \* bound: violations without a picture
    Proctors,
    Unassigned   \* no proctor

ASSUME ProctoringAssumption ==
    /\ IsFiniteSet(Files) /\ NoFile \notin Files
    /\ Quota \in Nat /\ MaxBare \in Nat
    /\ Unassigned \notin Proctors

VARIABLES
    status,      \* of the schedule and its assessment; "deleted" without rows
    report,      \* where each report is, its picture and what it counted
    files,       \* pictures in the upload directory
    written,     \* names used so far
    filed,       \* pictures named by rows of proctoring_violations
    bare,        \* rows that name none
    count,       \* assessments.proctoring_violations
    deletion,    \* delete_candidate: its state and the pictures it read
    proctor,     \* scheduled_assessments.proctor_id
    stray,       \* history: pictures left by a restart or a deletion
    missing      \* history: pictures removed although their row was committed

evidenceVars == <<report, files, written, filed, bare, count, deletion, stray, missing>>
proctoringVars == <<status, proctor, evidenceVars>>

Idle == [at |-> "idle", file |-> NoFile, total |-> 0]
At(p, step, f) == report' = [report EXCEPT ![p] = [at |-> step, file |-> f, total |-> 0]]
Done(p) == At(p, "idle", NoFile)

\* Between FOR UPDATE of the assessment's row and the end of the transaction
Holding(p) == report[p].at \in {"locked", "counted"}
LockFree == \A p \in Pages : ~Holding(p)

ProctoringInit ==
    /\ status = "scheduled"
    /\ report = [p \in Pages |-> Idle]
    /\ files = {}
    /\ written = {}
    /\ filed = {}
    /\ bare = 0
    /\ count = 0
    /\ deletion = [at |-> "idle", paths |-> {}]
    /\ proctor = Unassigned
    /\ stray = {}
    /\ missing = {}

-----------------------------------------------------------------------------
\* Reporting a violation

CheckReport(p) ==
    /\ report[p] = Idle
    /\ status = "active"
    /\ At(p, "checked", NoFile)
    /\ UNCHANGED <<status, proctor, files, written, filed, bare, count, deletion, stray, missing>>

\* _save_screenshot
WriteScreenshot(p, f) ==
    /\ report[p].at = "checked"
    /\ Cardinality(files) < Quota
    /\ f \in Files \ written
    /\ files' = files \cup {f}
    /\ written' = written \cup {f}
    /\ At(p, "saved", f)
    /\ UNCHANGED <<status, proctor, filed, bare, count, deletion, stray, missing>>

\* None was sent, the quota is reached, or it could not be written.
GoWithout(p) ==
    /\ report[p].at = "checked"
    /\ At(p, "saved", NoFile)
    /\ UNCHANGED <<status, proctor, files, written, filed, bare, count, deletion, stray, missing>>

Pictures(f) == {f} \ {NoFile}
BareOf(f) == IF f = NoFile THEN 1 ELSE 0

\* Slip: the row of the assessment is read without FOR UPDATE.
LockWithoutWaiting(p) ==
    /\ report[p].at = "saved"
    /\ status # "deleted"
    /\ At(p, "locked", report[p].file)
    /\ UNCHANGED <<status, proctor, files, written, filed, bare, count, deletion, stray, missing>>

\* _record_proctoring_violation: wait for the assessment's row, ...
LockRow(p) ==
    /\ report[p].at = "saved"
    /\ status # "deleted" /\ LockFree
    /\ At(p, "locked", report[p].file)
    /\ UNCHANGED <<status, proctor, files, written, filed, bare, count, deletion, stray, missing>>

\* ... insert, and count what is committed and one's own, which nobody else
\* sees yet, ...
InsertAndCount(p) ==
    LET f == report[p].file
    IN  /\ report[p].at = "locked"
        /\ bare + BareOf(f) <= MaxBare
        /\ report' = [report EXCEPT
             ![p].at = "counted",
             ![p].total = Cardinality(filed \cup Pictures(f)) + bare + BareOf(f)]
        /\ UNCHANGED <<status, proctor, files, written, filed, bare, count, deletion, stray, missing>>

\* What others see of the transaction when it commits
Publish(p) ==
    /\ filed' = filed \cup Pictures(report[p].file)
    /\ bare' = bare + BareOf(report[p].file)
    /\ count' = report[p].total

\* ... and commit; whether the assessment is still active is not asked again.
\* A picture the running deletion did not read will stay behind.
CommitRecord(p) ==
    /\ report[p].at = "counted"
    /\ Publish(p)
    /\ stray' = IF deletion.at = "reading" THEN stray \cup Pictures(report[p].file) ELSE stray
    /\ Done(p)
    /\ UNCHANGED <<status, proctor, files, written, deletion, missing>>

\* Slip: the picture of a violation that was not recorded is kept.
FailKeepingPicture(p) ==
    /\ report[p].at = "saved" \/ Holding(p)
    /\ Done(p)
    /\ UNCHANGED <<status, proctor, files, written, filed, bare, count, deletion, stray, missing>>

\* The transaction fails, as it must without the assessment: it is rolled back
\* and the picture is removed.
FailRecord(p) ==
    /\ report[p].at = "saved" \/ Holding(p)
    /\ files' = files \ {report[p].file}
    /\ Done(p)
    /\ UNCHANGED <<status, proctor, written, filed, bare, count, deletion, stray, missing>>

\* The commit succeeds and its answer is lost: the picture is removed all the
\* same.
LoseAnswer(p) ==
    /\ report[p].at = "counted"
    /\ Publish(p)
    /\ files' = files \ {report[p].file}
    /\ missing' = missing \cup Pictures(report[p].file)
    /\ Done(p)
    /\ UNCHANGED <<status, proctor, written, deletion, stray>>

-----------------------------------------------------------------------------
\* The end of the assessment and of its candidate, which wait for the row too

Start ==
    /\ status = "scheduled"
    /\ status' = "active"
    /\ UNCHANGED <<proctor, evidenceVars>>

Finish ==
    /\ status = "active" /\ LockFree
    /\ status' = "completed"
    /\ UNCHANGED <<proctor, evidenceVars>>

\* delete_candidate reads which pictures there are, ...
ReadPaths ==
    /\ deletion.at = "idle"
    /\ status # "deleted"
    /\ deletion' = [at |-> "reading", paths |-> filed]
    /\ UNCHANGED <<status, proctor, report, files, written, filed, bare, count, stray, missing>>

RowsGone ==
    /\ status' = "deleted"
    /\ filed' = {}
    /\ bare' = 0
    /\ count' = 0
    /\ proctor' = Unassigned

\* ... deletes the rows, ...
DeleteRows ==
    /\ deletion.at = "reading" /\ LockFree
    /\ RowsGone
    /\ deletion' = [deletion EXCEPT !.at = "removing"]
    /\ UNCHANGED <<report, files, written, stray, missing>>

\* ... which fails, or only the answer to its commit is lost and the pictures
\* stay behind, ...
FailDeletion ==
    /\ deletion.at = "reading"
    /\ deletion' = [at |-> "idle", paths |-> {}]
    /\ \/ UNCHANGED <<status, filed, bare, count, proctor, stray>>
       \/ LockFree /\ RowsGone /\ stray' = stray \cup deletion.paths
    /\ UNCHANGED <<report, files, written, missing>>

\* ... and removes the pictures it read.
RemovePictures ==
    /\ deletion.at = "removing"
    /\ files' = files \ deletion.paths
    /\ deletion' = [at |-> "idle", paths |-> {}]
    /\ UNCHANGED <<status, proctor, report, written, filed, bare, count, stray, missing>>

\* A restart ends the reports and the deletion where they are.
InFlight == {report[p].file : p \in Pages} \ {NoFile}
RestartProctoring ==
    /\ report' = [p \in Pages |-> Idle]
    /\ deletion' = [at |-> "idle", paths |-> {}]
    /\ stray' = stray \cup InFlight
                  \cup IF deletion.at = "removing" THEN deletion.paths ELSE {}
    /\ UNCHANGED <<status, proctor, files, written, filed, bare, count, missing>>

-----------------------------------------------------------------------------
\* The proctor

\* assign_assessment, under the lock of the schedule's row
Assign(p) ==
    /\ status \in {"scheduled", "active"}
    /\ proctor \in {Unassigned, p}
    /\ proctor' = p
    /\ UNCHANGED <<status, evidenceVars>>

\* users.id ON DELETE SET NULL
ProctorDeleted(p) ==
    /\ proctor' = IF proctor = p THEN Unassigned ELSE proctor
    /\ UNCHANGED <<status, evidenceVars>>

ReportStep(p) ==
    \/ CheckReport(p) \/ (\E f \in Files : WriteScreenshot(p, f)) \/ GoWithout(p)
    \/ LockRow(p) \/ InsertAndCount(p) \/ CommitRecord(p) \/ FailRecord(p) \/ LoseAnswer(p)
Deletion == ReadPaths \/ DeleteRows \/ FailDeletion \/ RemovePictures

-----------------------------------------------------------------------------

ReportRecords ==
    [at : {"idle", "checked", "saved", "locked", "counted"}, file : Files \cup {NoFile},
     total : 0 .. Cardinality(Files) + MaxBare]

ProctoringTypeOK ==
    /\ status \in {"scheduled", "active", "completed", "deleted"}
    /\ report \in [Pages -> ReportRecords]
    /\ files \in SUBSET Files
    /\ written \in SUBSET Files
    /\ filed \in SUBSET Files
    /\ bare \in 0 .. MaxBare
    /\ count \in 0 .. Cardinality(Files) + MaxBare
    /\ deletion \in [at : {"idle", "reading", "removing"}, paths : SUBSET Files]
    /\ proctor \in Proctors \cup {Unassigned}
    /\ stray \in SUBSET Files
    /\ missing \in SUBSET Files

\* The cached number of violations is that of the rows, although a report
\* counts what it sees, itself included, and publishes the number later, when
\* another may have published its own row: "maintained in the same transaction
\* so dashboards cannot drift" (proctoring_db.py), which takes the lock as well.
CountMatchesRows == count = Cardinality(filed) + bare

\* Pictures and rows account for each other: there are never more pictures
\* than the quota; a picture without a row is being recorded or removed, or
\* was left by a restart, or by a deletion it overtook or that failed; and a row names a
\* picture that is gone only if the answer to its commit was lost
\* (interviewee_monitoring.py report_violation: "must not leave an orphan").
EvidenceAccounted ==
    /\ Cardinality(files) <= Quota
    /\ files \subseteq filed \cup InFlight \cup stray
                 \cup IF deletion.at = "removing" THEN deletion.paths ELSE {}
    /\ filed \subseteq files \cup missing
=============================================================================
