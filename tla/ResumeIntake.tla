---------------------------- MODULE ResumeIntake ----------------------------
(***************************************************************************)
(* Uploads and the rows made of them: applications with the address typed  *)
(* in the form or read from the resume (backend/resume_routes.py), resumes *)
(* of an administrator's archive and question banks (admin_content.py),    *)
(* and the deletion of candidates and banks (admin_candidates.py).         *)
(*                                                                         *)
(* An upload saves a file, looks for its address, parses, and inserts a    *)
(* row in that order or another; other uploads, edits and crashes come in  *)
(* between, and the answer to a commit may be lost.  Each file has an own  *)
(* name and is named by its upload here.  Removing a file succeeds.        *)
(***************************************************************************)
EXTENDS Naturals

CONSTANTS
    Uploads,     \* bound: requests ever made; also the names of their files
    Emails,      \* addresses applicants have
    Unknown,     \* an address made up for a resume without one; no address
    NoRow        \* the upload has no row

ASSUME IntakeAssumption == Unknown \notin Emails /\ NoRow \notin Emails \cup {Unknown}

VARIABLES
    upload,      \* where each request is
    answer,      \* what it answered
    files,       \* files in the upload directories
    row,         \* the address in each upload's row
    removing,    \* rows deleted whose files are being removed
    had,         \* history: the addresses each row ever had
    stray,       \* history: files left by a restart, or where the code leaves them
    lost         \* history: requests whose commit succeeded and whose answer was lost

rowVars == <<row, removing, had>>
uploadVars == <<upload, answer, files, rowVars, stray, lost>>

Kinds == {"form", "resume", "bulk", "bank"}
NotBegun == [kind |-> "form", at |-> "idle", email |-> Unknown, looked |-> FALSE, parsed |-> FALSE]

UploadInit ==
    /\ upload = [u \in Uploads |-> NotBegun]
    /\ answer = [u \in Uploads |-> "none"]
    /\ files = {}
    /\ row = [u \in Uploads |-> NoRow]
    /\ removing = {}
    /\ had = [u \in Uploads |-> {}]
    /\ stray = {}
    /\ lost = {}

Rows == {u \in Uploads : row[u] # NoRow}
Taken(email, u) == \E w \in Rows \ {u} : row[w] = email /\ email # Unknown
Answer(u, a) ==
    /\ upload' = [upload EXCEPT ![u].at = "done"]
    /\ answer' = [answer EXCEPT ![u] = a]

-----------------------------------------------------------------------------
\* Uploading

\* The request is well formed, and what it says of a job was looked at.
Choose(u, kind, email) ==
    /\ upload[u].at = "idle"
    /\ kind # "form" => email = Unknown
    /\ kind = "form" => email # Unknown
    /\ upload' = [upload EXCEPT ![u] = [NotBegun EXCEPT !.kind = kind, !.at = "chosen", !.email = email]]
    /\ UNCHANGED <<answer, files, rowVars, stray, lost>>

Save(u) ==
    /\ upload[u].at = "chosen"
    /\ upload' = [upload EXCEPT ![u].at = "saved"]
    /\ files' = files \cup {u}
    /\ UNCHANGED <<answer, rowVars, stray, lost>>

\* The disk is full, say: only a bank's file is removed, if it was begun.
FailSave(u) ==
    /\ upload[u].at = "chosen"
    /\ Answer(u, "refused")
    /\ \/ UNCHANGED <<files, stray>>
       \/ upload[u].kind # "bank" /\ files' = files \cup {u} /\ stray' = stray \cup {u}
    /\ UNCHANGED <<rowVars, lost>>

\* get_candidate_by_email: before parsing if the form has the address
Looks(u) ==
    /\ upload[u].at = "saved" /\ upload[u].kind # "bank"
    /\ ~upload[u].looked
    /\ upload[u].kind = "form" \/ upload[u].parsed
    /\ upload[u].email # Unknown

Lookup(u) ==
    /\ Looks(u)
    /\ ~Taken(upload[u].email, u)
    /\ upload' = [upload EXCEPT ![u].looked = TRUE]
    /\ UNCHANGED <<answer, files, rowVars, stray, lost>>

FindDuplicate(u) ==
    /\ Looks(u)
    /\ Taken(upload[u].email, u)
    /\ Answer(u, "duplicate")
    /\ files' = files \ {u}
    /\ UNCHANGED <<rowVars, stray, lost>>

\* A worker of an archive goes on without the answer.
SkipLookup(u) ==
    /\ Looks(u) /\ upload[u].kind = "bulk"
    /\ upload' = [upload EXCEPT ![u].looked = TRUE]
    /\ UNCHANGED <<answer, files, rowVars, stray, lost>>

\* parse_resume and the analysis; an archive's resume may have no address.
Parse(u, email) ==
    /\ upload[u].at = "saved" /\ upload[u].kind # "bank"
    /\ ~upload[u].parsed
    /\ upload[u].kind = "form" => upload[u].looked /\ email = upload[u].email
    /\ upload[u].kind = "resume" => email # Unknown
    /\ upload' = [upload EXCEPT ![u].parsed = TRUE, ![u].email = email]
    /\ UNCHANGED <<answer, files, rowVars, stray, lost>>

\* Slip: the file of a request that was refused is kept.
RefuseKeepingFile(u) ==
    /\ upload[u].at = "saved"
    /\ Answer(u, "refused")
    /\ UNCHANGED <<files, rowVars, stray, lost>>

\* The file is found invalid, cannot be parsed or has no address, looking for
\* the address fails, or inserting the row does: the file is removed.
Refuse(u) ==
    /\ upload[u].at = "saved"
    /\ Answer(u, "refused")
    /\ files' = files \ {u}
    /\ UNCHANGED <<rowVars, stray, lost>>

\* The validation fails as it is not expected to (zlib.error out of testzip,
\* OSError out of getsize), or the next file of the archive cannot be copied:
\* the request fails as a whole and this file stays.
LeaveFile(u) ==
    /\ upload[u].at = "saved" /\ upload[u].kind # "bank"
    /\ ~upload[u].looked /\ ~upload[u].parsed
    /\ Answer(u, "refused")
    /\ stray' = stray \cup {u}
    /\ UNCHANGED <<files, rowVars, lost>>

-----------------------------------------------------------------------------
\* The row

\* A bulk resume without text is inserted before the others, with an address
\* made up.
Unreadable(u) == upload[u].kind = "bulk" /\ ~upload[u].parsed
Inserts(u) ==
    /\ upload[u].at = "saved"
    /\ \/ upload[u].kind = "bank" \/ Unreadable(u)
       \/ upload[u].parsed /\ (upload[u].looked \/ upload[u].email = Unknown)
RowStored(u) ==
    /\ row' = [row EXCEPT ![u] = upload[u].email]
    /\ had' = [had EXCEPT ![u] = @ \cup {upload[u].email}]
    /\ UNCHANGED removing

\* Slip: a second row with the address is not inserted, and not noticed.
InsertOnce(u) ==
    /\ Inserts(u)
    /\ IF Taken(upload[u].email, u) THEN UNCHANGED rowVars ELSE RowStored(u)
    /\ Answer(u, "accepted")
    /\ UNCHANGED <<files, stray, lost>>

\* insert_candidate_application, insert into custom_question_bank
Insert(u) ==
    /\ Inserts(u)
    /\ ~Taken(upload[u].email, u)
    /\ RowStored(u)
    /\ Answer(u, "accepted")
    /\ UNCHANGED <<files, stray, lost>>

\* The answer to the commit is lost: the request fails, and removes its file
\* unless it was unreadable.
InsertUnheard(u) ==
    /\ Inserts(u)
    /\ ~Taken(upload[u].email, u)
    /\ RowStored(u)
    /\ Answer(u, "refused")
    /\ files' = IF Unreadable(u) THEN files ELSE files \ {u}
    /\ lost' = lost \cup {u}
    /\ UNCHANGED stray

\* Another upload inserted the address meanwhile: DuplicateEmailError.
InsertDuplicate(u) ==
    /\ Inserts(u)
    /\ Taken(upload[u].email, u)
    /\ Answer(u, IF upload[u].kind = "bulk" THEN "refused" ELSE "duplicate")
    /\ files' = files \ {u}
    /\ UNCHANGED <<rowVars, stray, lost>>

\* The row of an unreadable resume fails, and the file stays.
FailUnreadable(u) ==
    /\ Inserts(u) /\ Unreadable(u)
    /\ Answer(u, "refused")
    /\ stray' = stray \cup {u}
    /\ UNCHANGED <<files, rowVars, lost>>

-----------------------------------------------------------------------------
\* Edits and deletions of rows

\* update_candidate, unless another has the address
Readdress(u, email) ==
    /\ u \in Rows /\ upload[u].kind # "bank"
    /\ email \in Emails /\ ~Taken(email, u)
    /\ row' = [row EXCEPT ![u] = email]
    /\ had' = [had EXCEPT ![u] = @ \cup {email}]
    /\ UNCHANGED <<upload, answer, files, removing, stray, lost>>

\* delete_candidate, delete_question_bank: the row, and then its file
DeleteRow(u) ==
    /\ u \in Rows
    /\ row' = [row EXCEPT ![u] = NoRow]
    /\ removing' = removing \cup {u}
    /\ UNCHANGED <<upload, answer, files, had, stray, lost>>

\* The answer to the deletion's commit is lost, and the file stays.
DeleteUnheard(u) ==
    /\ u \in Rows
    /\ row' = [row EXCEPT ![u] = NoRow]
    /\ stray' = stray \cup {u}
    /\ UNCHANGED <<upload, answer, files, removing, had, lost>>

RemoveFile(u) ==
    /\ u \in removing
    /\ removing' = removing \ {u}
    /\ files' = files \ {u}
    /\ UNCHANGED <<upload, answer, row, had, stray, lost>>

\* Requests end where they are, without an answer.
InFlight == {u \in Uploads : upload[u].at = "saved"}
RestartIntake ==
    /\ upload' = [u \in Uploads |->
         IF upload[u].at \in {"chosen", "saved"} THEN [upload[u] EXCEPT !.at = "done"] ELSE upload[u]]
    /\ removing' = {}
    /\ stray' = stray \cup InFlight \cup removing
    /\ UNCHANGED <<answer, files, row, had, lost>>

\* What a request does before it inserts its row
Preparing(u) ==
    \/ Save(u) \/ FailSave(u)
    \/ Lookup(u) \/ FindDuplicate(u) \/ SkipLookup(u)
    \/ \E email \in Emails \cup {Unknown} : Parse(u, email)
    \/ Refuse(u) \/ LeaveFile(u) \/ FailUnreadable(u)

-----------------------------------------------------------------------------

UploadTypeOK ==
    /\ upload \in [Uploads -> [kind : Kinds, at : {"idle", "chosen", "saved", "done"},
                               email : Emails \cup {Unknown}, looked : BOOLEAN, parsed : BOOLEAN]]
    /\ answer \in [Uploads -> {"none", "accepted", "refused", "duplicate"}]
    /\ files \in SUBSET Uploads
    /\ row \in [Uploads -> Emails \cup {Unknown, NoRow}]
    /\ removing \in SUBSET Uploads
    /\ had \in [Uploads -> SUBSET (Emails \cup {Unknown})]
    /\ stray \in SUBSET Uploads
    /\ lost \in SUBSET Uploads

\* Files and rows account for each other: a file without a row belongs to a
\* request under way or is being removed, or was left by a restart or by one of
\* the failures that leave it (half a save, a validation that breaks, an
\* archive's copying, an unreadable resume's row, a deletion's lost answer);
\* and a row's file is gone only if the answer to its commit was lost.  Every
\* other failure removes it (resume_routes.py _delete_file: "cleanup when
\* request fails after upload").
FilesAccounted ==
    /\ files \subseteq Rows \cup InFlight \cup removing \cup stray
    /\ Rows \subseteq files \cup lost

\* What applicants are told is so, however their uploads overlap: one who is
\* accepted has got a row; one called a duplicate has none, and another row
\* had the address; one who is refused has none unless the answer was lost.
AnswersAreTrue ==
    \A u \in Uploads :
        /\ answer[u] = "accepted" => had[u] # {}
        /\ answer[u] = "duplicate" =>
             had[u] = {} /\ \E w \in Uploads \ {u} : upload[u].email \in had[w]
        /\ answer[u] = "refused" /\ had[u] # {} => u \in lost
=============================================================================
