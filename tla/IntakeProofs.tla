---------------------------- MODULE IntakeProofs ----------------------------
(***************************************************************************)
(* Proofs that files, rows and answers of uploads account for each other,  *)
(* and that matches agree with postings and with decisions, for any number *)
(* of uploads, postings and runs of matching.                              *)
(*                                                                         *)
(* The invariant of the uploads adds what a request under way owns: its    *)
(* file, and no row, answer or deletion yet.  That of the matching says    *)
(* that no version is newer than the last stamp, so that a posting of the  *)
(* version a run has seen is in the sector it was in then, and that a      *)
(* candidate without a row has no matches.                                 *)
(***************************************************************************)
EXTENDS Intake, WellFoundedInduction, TLAPS

-----------------------------------------------------------------------------
\* Uploads

Requests == [kind : Kinds, at : {"idle", "chosen", "saved", "done"},
             email : Emails \cup {Unknown}, looked : BOOLEAN, parsed : BOOLEAN]

\* A request under way owns its file and has no row, answer or deletion yet;
\* a row's address is one it had; what is being removed has no row.
UploadsOwn ==
    \A u \in Uploads :
        /\ upload[u].at = "saved" => u \in files
        /\ upload[u].at # "done" =>
             row[u] = NoRow /\ had[u] = {} /\ answer[u] = "none" /\ u \notin removing
        /\ row[u] # NoRow => row[u] \in had[u]
        /\ u \in removing => row[u] = NoRow

\* The inductive invariant of the uploads, which each action keeps
UploadInv == UploadTypeOK /\ UploadsOwn /\ FilesAccounted /\ AnswersAreTrue

LEMMA ChooseKeepsUploads ==
  ASSUME UploadInv, NEW u \in Uploads, NEW kind \in Kinds, NEW email \in Emails \cup {Unknown}, Choose(u, kind, email)
  PROVE  UploadInv'
<1>1. UploadTypeOK'
  BY IntakeAssumption DEF UploadInv, UploadTypeOK, Kinds, NotBegun, Choose, rowVars
<1>2. UploadsOwn'
  BY IntakeAssumption DEF UploadInv, UploadTypeOK, UploadsOwn, Kinds, NotBegun, Rows, Choose, rowVars
<1>3. FilesAccounted'
  BY IntakeAssumption DEF UploadInv, UploadTypeOK, UploadsOwn, FilesAccounted, InFlight, NotBegun, Rows, Choose, rowVars
<1>4. AnswersAreTrue'
  BY IntakeAssumption DEF UploadInv, UploadTypeOK, UploadsOwn, AnswersAreTrue, NotBegun, Rows, Choose, rowVars
<1> QED
  BY <1>1, <1>2, <1>3, <1>4 DEF UploadInv

LEMMA SaveKeepsUploads ==
  ASSUME UploadInv, NEW u \in Uploads, Save(u)
  PROVE  UploadInv'
<1>1. UploadTypeOK'
  BY IntakeAssumption DEF UploadInv, UploadTypeOK, Kinds, NotBegun, Save, rowVars
<1>2. UploadsOwn'
  BY IntakeAssumption DEF UploadInv, UploadTypeOK, UploadsOwn, Kinds, NotBegun, Rows, Save, rowVars
<1>3. FilesAccounted'
  BY IntakeAssumption DEF UploadInv, UploadTypeOK, UploadsOwn, FilesAccounted, InFlight, NotBegun, Rows, Save, rowVars
<1>4. AnswersAreTrue'
  BY IntakeAssumption DEF UploadInv, UploadTypeOK, UploadsOwn, AnswersAreTrue, NotBegun, Rows, Save, rowVars
<1> QED
  BY <1>1, <1>2, <1>3, <1>4 DEF UploadInv

LEMMA FailSaveKeepsUploads ==
  ASSUME UploadInv, NEW u \in Uploads, FailSave(u)
  PROVE  UploadInv'
<1>1. UploadTypeOK'
  BY IntakeAssumption DEF UploadInv, UploadTypeOK, Kinds, NotBegun, FailSave, Answer, rowVars
<1>2. UploadsOwn'
  BY IntakeAssumption DEF UploadInv, UploadTypeOK, UploadsOwn, Kinds, NotBegun, Rows, FailSave, Answer, rowVars
<1>3. FilesAccounted'
  BY IntakeAssumption DEF UploadInv, UploadTypeOK, UploadsOwn, FilesAccounted, InFlight, NotBegun, Rows, FailSave, Answer, rowVars
<1>4. AnswersAreTrue'
  BY IntakeAssumption DEF UploadInv, UploadTypeOK, UploadsOwn, AnswersAreTrue, NotBegun, Rows, FailSave, Answer, rowVars
<1> QED
  BY <1>1, <1>2, <1>3, <1>4 DEF UploadInv

LEMMA LookupKeepsUploads ==
  ASSUME UploadInv, NEW u \in Uploads, Lookup(u)
  PROVE  UploadInv'
<1>1. UploadTypeOK'
  <2>1. upload' \in [Uploads -> Requests]
    <3>1. [upload[u] EXCEPT !.looked = TRUE] \in Requests
      BY DEF UploadInv, UploadTypeOK, Requests
    <3> QED
      BY <3>1 DEF UploadInv, UploadTypeOK, Requests, Lookup
  <2> QED
    BY <2>1 DEF UploadInv, UploadTypeOK, Lookup, Requests, rowVars
<1>2. UploadsOwn'
  BY IntakeAssumption DEF UploadInv, UploadTypeOK, UploadsOwn, Kinds, NotBegun, Rows, Lookup, Looks, rowVars
<1>3. FilesAccounted'
  BY IntakeAssumption DEF UploadInv, UploadTypeOK, UploadsOwn, FilesAccounted, InFlight, NotBegun, Rows, Lookup, Looks, rowVars
<1>4. AnswersAreTrue'
  BY IntakeAssumption DEF UploadInv, UploadTypeOK, UploadsOwn, AnswersAreTrue, NotBegun, Rows, Lookup, Looks, rowVars
<1> QED
  BY <1>1, <1>2, <1>3, <1>4 DEF UploadInv

LEMMA FindDuplicateKeepsUploads ==
  ASSUME UploadInv, NEW u \in Uploads, FindDuplicate(u)
  PROVE  UploadInv'
<1>1. UploadTypeOK'
  BY IntakeAssumption DEF UploadInv, UploadTypeOK, Kinds, NotBegun, FindDuplicate, Looks, Answer, Taken, rowVars
<1>2. UploadsOwn'
  BY IntakeAssumption DEF UploadInv, UploadTypeOK, UploadsOwn, Kinds, NotBegun, Rows, FindDuplicate, Looks, Answer, Taken, rowVars
<1>3. FilesAccounted'
  BY IntakeAssumption DEF UploadInv, UploadTypeOK, UploadsOwn, FilesAccounted, InFlight, NotBegun, Rows, FindDuplicate, Looks, Answer, Taken, rowVars
<1>4. AnswersAreTrue'
  BY IntakeAssumption DEF UploadInv, UploadTypeOK, UploadsOwn, AnswersAreTrue, NotBegun, Rows, FindDuplicate, Looks, Answer, Taken, rowVars
<1> QED
  BY <1>1, <1>2, <1>3, <1>4 DEF UploadInv

LEMMA SkipLookupKeepsUploads ==
  ASSUME UploadInv, NEW u \in Uploads, SkipLookup(u)
  PROVE  UploadInv'
<1>1. UploadTypeOK'
  BY IntakeAssumption DEF UploadInv, UploadTypeOK, Kinds, NotBegun, SkipLookup, Looks, rowVars
<1>2. UploadsOwn'
  BY IntakeAssumption DEF UploadInv, UploadTypeOK, UploadsOwn, Kinds, NotBegun, Rows, SkipLookup, Looks, rowVars
<1>3. FilesAccounted'
  BY IntakeAssumption DEF UploadInv, UploadTypeOK, UploadsOwn, FilesAccounted, InFlight, NotBegun, Rows, SkipLookup, Looks, rowVars
<1>4. AnswersAreTrue'
  BY IntakeAssumption DEF UploadInv, UploadTypeOK, UploadsOwn, AnswersAreTrue, NotBegun, Rows, SkipLookup, Looks, rowVars
<1> QED
  BY <1>1, <1>2, <1>3, <1>4 DEF UploadInv

LEMMA ParseKeepsUploads ==
  ASSUME UploadInv, NEW u \in Uploads, NEW email \in Emails \cup {Unknown}, Parse(u, email)
  PROVE  UploadInv'
<1>1. UploadTypeOK'
  <2>1. upload' \in [Uploads -> Requests]
    <3>1. [upload[u] EXCEPT !.parsed = TRUE, !.email = email] \in Requests
      BY DEF UploadInv, UploadTypeOK, Requests
    <3> QED
      BY <3>1 DEF UploadInv, UploadTypeOK, Requests, Parse
  <2> QED
    BY <2>1 DEF UploadInv, UploadTypeOK, Parse, Requests, rowVars
<1>2. UploadsOwn'
  BY IntakeAssumption DEF UploadInv, UploadTypeOK, UploadsOwn, Kinds, NotBegun, Rows, Parse, rowVars
<1>3. FilesAccounted'
  BY IntakeAssumption DEF UploadInv, UploadTypeOK, UploadsOwn, FilesAccounted, InFlight, NotBegun, Rows, Parse, rowVars
<1>4. AnswersAreTrue'
  BY IntakeAssumption DEF UploadInv, UploadTypeOK, UploadsOwn, AnswersAreTrue, NotBegun, Rows, Parse, rowVars
<1> QED
  BY <1>1, <1>2, <1>3, <1>4 DEF UploadInv

LEMMA RefuseKeepsUploads ==
  ASSUME UploadInv, NEW u \in Uploads, Refuse(u)
  PROVE  UploadInv'
<1>1. UploadTypeOK'
  BY IntakeAssumption DEF UploadInv, UploadTypeOK, Kinds, NotBegun, Refuse, Answer, rowVars
<1>2. UploadsOwn'
  BY IntakeAssumption DEF UploadInv, UploadTypeOK, UploadsOwn, Kinds, NotBegun, Rows, Refuse, Answer, rowVars
<1>3. FilesAccounted'
  BY IntakeAssumption DEF UploadInv, UploadTypeOK, UploadsOwn, FilesAccounted, InFlight, NotBegun, Rows, Refuse, Answer, rowVars
<1>4. AnswersAreTrue'
  BY IntakeAssumption DEF UploadInv, UploadTypeOK, UploadsOwn, AnswersAreTrue, NotBegun, Rows, Refuse, Answer, rowVars
<1> QED
  BY <1>1, <1>2, <1>3, <1>4 DEF UploadInv

LEMMA LeaveFileKeepsUploads ==
  ASSUME UploadInv, NEW u \in Uploads, LeaveFile(u)
  PROVE  UploadInv'
<1>1. UploadTypeOK'
  BY IntakeAssumption DEF UploadInv, UploadTypeOK, Kinds, NotBegun, LeaveFile, Answer, rowVars
<1>2. UploadsOwn'
  BY IntakeAssumption DEF UploadInv, UploadTypeOK, UploadsOwn, Kinds, NotBegun, Rows, LeaveFile, Answer, rowVars
<1>3. FilesAccounted'
  BY IntakeAssumption DEF UploadInv, UploadTypeOK, UploadsOwn, FilesAccounted, InFlight, NotBegun, Rows, LeaveFile, Answer, rowVars
<1>4. AnswersAreTrue'
  BY IntakeAssumption DEF UploadInv, UploadTypeOK, UploadsOwn, AnswersAreTrue, NotBegun, Rows, LeaveFile, Answer, rowVars
<1> QED
  BY <1>1, <1>2, <1>3, <1>4 DEF UploadInv

LEMMA FailUnreadableKeepsUploads ==
  ASSUME UploadInv, NEW u \in Uploads, FailUnreadable(u)
  PROVE  UploadInv'
<1>1. UploadTypeOK'
  BY IntakeAssumption DEF UploadInv, UploadTypeOK, Kinds, NotBegun, FailUnreadable, Inserts, Answer, rowVars
<1>2. UploadsOwn'
  BY IntakeAssumption DEF UploadInv, UploadTypeOK, UploadsOwn, Kinds, NotBegun, Rows, FailUnreadable, Inserts, Answer, rowVars
<1>3. FilesAccounted'
  BY IntakeAssumption DEF UploadInv, UploadTypeOK, UploadsOwn, FilesAccounted, InFlight, NotBegun, Rows, FailUnreadable, Inserts, Answer, rowVars
<1>4. AnswersAreTrue'
  BY IntakeAssumption DEF UploadInv, UploadTypeOK, UploadsOwn, AnswersAreTrue, NotBegun, Rows, FailUnreadable, Inserts, Answer, rowVars
<1> QED
  BY <1>1, <1>2, <1>3, <1>4 DEF UploadInv

LEMMA InsertKeepsUploads ==
  ASSUME UploadInv, NEW u \in Uploads, Insert(u)
  PROVE  UploadInv'
<1>1. UploadTypeOK'
  BY IntakeAssumption DEF UploadInv, UploadTypeOK, Kinds, NotBegun, Insert, Inserts, RowStored, Answer, rowVars
<1>2. UploadsOwn'
  BY IntakeAssumption DEF UploadInv, UploadTypeOK, UploadsOwn, Kinds, NotBegun, Rows, Insert, Inserts, RowStored, Answer, rowVars
<1>3. FilesAccounted'
  BY IntakeAssumption DEF UploadInv, UploadTypeOK, UploadsOwn, FilesAccounted, InFlight, NotBegun, Rows, Insert, Inserts, RowStored, Answer, rowVars
<1>4. AnswersAreTrue'
  BY IntakeAssumption DEF UploadInv, UploadTypeOK, UploadsOwn, AnswersAreTrue, NotBegun, Rows, Insert, Inserts, RowStored, Answer, rowVars
<1> QED
  BY <1>1, <1>2, <1>3, <1>4 DEF UploadInv

LEMMA InsertUnheardKeepsUploads ==
  ASSUME UploadInv, NEW u \in Uploads, InsertUnheard(u)
  PROVE  UploadInv'
<1>1. UploadTypeOK'
  BY IntakeAssumption DEF UploadInv, UploadTypeOK, Kinds, NotBegun, InsertUnheard, Inserts, RowStored, Answer, rowVars
<1>2. UploadsOwn'
  BY IntakeAssumption DEF UploadInv, UploadTypeOK, UploadsOwn, Kinds, NotBegun, Rows, InsertUnheard, Inserts, RowStored, Answer, rowVars
<1>3. FilesAccounted'
  BY IntakeAssumption DEF UploadInv, UploadTypeOK, UploadsOwn, FilesAccounted, InFlight, NotBegun, Rows, InsertUnheard, Inserts, RowStored, Answer, rowVars
<1>4. AnswersAreTrue'
  BY IntakeAssumption DEF UploadInv, UploadTypeOK, UploadsOwn, AnswersAreTrue, NotBegun, Rows, InsertUnheard, Inserts, RowStored, Answer, rowVars
<1> QED
  BY <1>1, <1>2, <1>3, <1>4 DEF UploadInv

LEMMA InsertDuplicateKeepsUploads ==
  ASSUME UploadInv, NEW u \in Uploads, InsertDuplicate(u)
  PROVE  UploadInv'
<1>1. UploadTypeOK'
  BY IntakeAssumption DEF UploadInv, UploadTypeOK, Kinds, NotBegun, InsertDuplicate, Inserts, Answer, Taken, rowVars
<1>2. UploadsOwn'
  BY IntakeAssumption DEF UploadInv, UploadTypeOK, UploadsOwn, Kinds, NotBegun, Rows, InsertDuplicate, Inserts, Answer, Taken, rowVars
<1>3. FilesAccounted'
  BY IntakeAssumption DEF UploadInv, UploadTypeOK, UploadsOwn, FilesAccounted, InFlight, NotBegun, Rows, InsertDuplicate, Inserts, Answer, Taken, rowVars
<1>4. AnswersAreTrue'
  BY IntakeAssumption DEF UploadInv, UploadTypeOK, UploadsOwn, AnswersAreTrue, NotBegun, Rows, InsertDuplicate, Inserts, Answer, Taken, rowVars
<1> QED
  BY <1>1, <1>2, <1>3, <1>4 DEF UploadInv

LEMMA ReaddressKeepsUploads ==
  ASSUME UploadInv, NEW u \in Uploads, NEW email, Readdress(u, email)
  PROVE  UploadInv'
<1>1. UploadTypeOK'
  BY IntakeAssumption DEF UploadInv, UploadTypeOK, Kinds, NotBegun, Readdress, rowVars
<1>2. UploadsOwn'
  BY IntakeAssumption DEF UploadInv, UploadTypeOK, UploadsOwn, Kinds, NotBegun, Rows, Readdress, rowVars
<1>3. FilesAccounted'
  BY IntakeAssumption DEF UploadInv, UploadTypeOK, UploadsOwn, FilesAccounted, InFlight, NotBegun, Rows, Readdress, rowVars
<1>4. AnswersAreTrue'
  BY IntakeAssumption DEF UploadInv, UploadTypeOK, UploadsOwn, AnswersAreTrue, NotBegun, Rows, Readdress, rowVars
<1> QED
  BY <1>1, <1>2, <1>3, <1>4 DEF UploadInv

LEMMA DeleteRowKeepsUploads ==
  ASSUME UploadInv, NEW u \in Uploads, DeleteRow(u)
  PROVE  UploadInv'
<1>1. UploadTypeOK'
  BY IntakeAssumption DEF UploadInv, UploadTypeOK, Kinds, NotBegun, DeleteRow, rowVars
<1>2. UploadsOwn'
  BY IntakeAssumption DEF UploadInv, UploadTypeOK, UploadsOwn, Kinds, NotBegun, Rows, DeleteRow, rowVars
<1>3. FilesAccounted'
  BY IntakeAssumption DEF UploadInv, UploadTypeOK, UploadsOwn, FilesAccounted, InFlight, NotBegun, Rows, DeleteRow, rowVars
<1>4. AnswersAreTrue'
  BY IntakeAssumption DEF UploadInv, UploadTypeOK, UploadsOwn, AnswersAreTrue, NotBegun, Rows, DeleteRow, rowVars
<1> QED
  BY <1>1, <1>2, <1>3, <1>4 DEF UploadInv

LEMMA DeleteUnheardKeepsUploads ==
  ASSUME UploadInv, NEW u \in Uploads, DeleteUnheard(u)
  PROVE  UploadInv'
<1>1. UploadTypeOK'
  BY IntakeAssumption DEF UploadInv, UploadTypeOK, Kinds, NotBegun, DeleteUnheard, rowVars
<1>2. UploadsOwn'
  BY IntakeAssumption DEF UploadInv, UploadTypeOK, UploadsOwn, Kinds, NotBegun, Rows, DeleteUnheard, rowVars
<1>3. FilesAccounted'
  BY IntakeAssumption DEF UploadInv, UploadTypeOK, UploadsOwn, FilesAccounted, InFlight, NotBegun, Rows, DeleteUnheard, rowVars
<1>4. AnswersAreTrue'
  BY IntakeAssumption DEF UploadInv, UploadTypeOK, UploadsOwn, AnswersAreTrue, NotBegun, Rows, DeleteUnheard, rowVars
<1> QED
  BY <1>1, <1>2, <1>3, <1>4 DEF UploadInv

LEMMA RemoveFileKeepsUploads ==
  ASSUME UploadInv, NEW u \in Uploads, RemoveFile(u)
  PROVE  UploadInv'
<1>1. UploadTypeOK'
  BY IntakeAssumption DEF UploadInv, UploadTypeOK, Kinds, NotBegun, RemoveFile, rowVars
<1>2. UploadsOwn'
  BY IntakeAssumption DEF UploadInv, UploadTypeOK, UploadsOwn, Kinds, NotBegun, Rows, RemoveFile, rowVars
<1>3. FilesAccounted'
  BY IntakeAssumption DEF UploadInv, UploadTypeOK, UploadsOwn, FilesAccounted, InFlight, NotBegun, Rows, RemoveFile, rowVars
<1>4. AnswersAreTrue'
  BY IntakeAssumption DEF UploadInv, UploadTypeOK, UploadsOwn, AnswersAreTrue, NotBegun, Rows, RemoveFile, rowVars
<1> QED
  BY <1>1, <1>2, <1>3, <1>4 DEF UploadInv

LEMMA RestartIntakeKeepsUploads ==
  ASSUME UploadInv, RestartIntake
  PROVE  UploadInv'
<1>1. UploadTypeOK'
  <2>1. upload' \in [Uploads -> Requests]
    <3>1. \A u \in Uploads : [upload[u] EXCEPT !.at = "done"] \in Requests
      BY DEF UploadInv, UploadTypeOK, Requests
    <3> QED
      BY <3>1 DEF UploadInv, UploadTypeOK, Requests, RestartIntake
  <2>2. removing' \in SUBSET Uploads /\ stray' \in SUBSET Uploads
    BY DEF UploadInv, UploadTypeOK, RestartIntake, InFlight
  <2> QED
    BY <2>1, <2>2 DEF UploadInv, UploadTypeOK, RestartIntake, Requests
<1>2. UploadsOwn'
  BY IntakeAssumption DEF UploadInv, UploadTypeOK, UploadsOwn, Kinds, NotBegun, Rows, RestartIntake, rowVars
<1>3. FilesAccounted'
  BY IntakeAssumption DEF UploadInv, UploadTypeOK, UploadsOwn, FilesAccounted, InFlight, NotBegun, Rows, RestartIntake, rowVars
<1>4. AnswersAreTrue'
  BY IntakeAssumption DEF UploadInv, UploadTypeOK, UploadsOwn, AnswersAreTrue, NotBegun, Rows, RestartIntake, rowVars
<1> QED
  BY <1>1, <1>2, <1>3, <1>4 DEF UploadInv

-----------------------------------------------------------------------------
\* The best of some jobs

Below == {ss \in Nat \X Nat : ss[1] < ss[2]}

LEMMA BelowWellFounded == IsWellFoundedOn(Below, Nat)
BY NatLessThanWellFounded, Zenon DEF Below, OpToRel

LEMMA BelowContains ==
  ASSUME NEW m \in Nat, NEW n \in Nat, m < n
  PROVE  <<m, n>> \in Below
BY DEF Below

\* A set of numbers that is not empty has a least one.
LEMMA LeastNumber ==
  ASSUME NEW T \in SUBSET Nat, T # {}
  PROVE  \E n \in T : \A m \in T : n <= m
<1>1. \E n \in T : \A m \in T : ~(<<m, n>> \in Below)
  BY BelowWellFounded, WFMin, Zenon
<1>2. PICK n \in T : \A m \in T : ~(<<m, n>> \in Below)
  BY <1>1
<1>3. ASSUME NEW m \in T PROVE n <= m
  <2>1. m \in Nat /\ n \in Nat /\ ~(<<m, n>> \in Below)
    BY <1>2
  <2>2. ~(m < n)
    BY <2>1, BelowContains
  <2> QED
    BY <2>1, <2>2
<1> QED
  BY <1>3

\* The best job is one of those it is chosen from.
\* Job j comes first among js: no other has a higher score, nor the same one
\* and a smaller id.
First(j, js, score) ==
    /\ j \in js
    /\ \A k \in js : score[j] > score[k] \/ (score[j] = score[k] /\ j <= k)

\* The best of some jobs comes first among them; of none there is none.
LEMMA BestComesFirst ==
  ASSUME NEW js \in SUBSET Jobs, NEW score, \A j \in js : score[j] \in Scores
  PROVE  IF js = {} THEN Best(js, score) = NoJob ELSE First(Best(js, score), js, score)
<1>1. CASE js = {}
  BY <1>1 DEF Best
<1>2. CASE js # {}
  <2> DEFINE Short == {100 - score[j] : j \in js}
  <2>1. \A j \in js : score[j] \in 0 .. 100 /\ j \in Nat
    BY JobAssumption
  <2>2. Short \in SUBSET Nat /\ Short # {}
    BY <1>2, <2>1
  <2>3. PICK n \in Short : \A m \in Short : n <= m
    BY <2>2, LeastNumber
  <2>4. PICK top \in js : n = 100 - score[top]
    BY <2>3
  <2>5. \A j \in js : score[top] >= score[j]
    <3>1. \A j \in js : 100 - score[top] <= 100 - score[j]
      BY <2>3, <2>4
    <3>2. score[top] \in 0 .. 100 /\ \A j \in js : score[j] \in 0 .. 100
      BY <2>1
    <3>3. ASSUME NEW j \in js PROVE score[top] >= score[j]
      <4>1. score[top] \in Nat /\ score[j] \in Nat /\ 100 - score[top] <= 100 - score[j]
        BY <3>1, <3>2
      <4> QED
        BY <4>1
    <3> QED
      BY <3>3
  <2> DEFINE Tops == {j \in js : score[j] = score[top]}
  <2>6. Tops \in SUBSET Nat /\ Tops # {}
    BY <2>1
  <2>7. PICK first \in Tops : \A j \in Tops : first <= j
    BY <2>6, LeastNumber
  <2>8. First(first, js, score)
    <3>1. first \in js /\ score[first] = score[top]
      BY <2>7
    <3>2. ASSUME NEW k \in js PROVE score[first] > score[k] \/ (score[first] = score[k] /\ first <= k)
      <4>1. CASE score[k] = score[top]
        BY <3>1, <4>1, <2>7
      <4>2. CASE score[k] # score[top]
        <5>1. score[top] >= score[k] /\ score[top] \in Nat /\ score[k] \in Nat
          BY <2>1, <2>5
        <5> QED
          BY <3>1, <4>2, <5>1
      <4> QED
        BY <4>1, <4>2
    <3> QED
      BY <3>1, <3>2 DEF First
  <2> QED
    BY <1>2, <2>8 DEF Best, First
<1> QED
  BY <1>1, <1>2

LEMMA BestIsOneOfThem ==
  ASSUME NEW js \in SUBSET Jobs, NEW score, \A j \in js : score[j] \in Scores
  PROVE  Best(js, score) \in js \/ (js = {} /\ Best(js, score) = NoJob)
BY BestComesFirst DEF First

-----------------------------------------------------------------------------
\* Postings and matches

Matches == [status : {"absent", "auto_matched", "confirmed", "rejected"}, score : Scores, of : 0 .. MaxStamp]
Postings == [status : {"absent", "draft", "active", "closed"}, open : BOOLEAN,
             sector : Scopes, version : 0 .. MaxStamp]
Candidates == [exists : BOOLEAN, sector : Scopes, best : Jobs \cup {NoJob},
               score : Scores, version : 0 .. MaxStamp]

\* A run has read open jobs its requester may access.
ScopesHold ==
    \A m \in Runs : \A j \in DOMAIN run[m].seen :
        /\ run[m].seen[j] <= stamp
        /\ posting[j].version = run[m].seen[j] => MayAccess(run[m].scope, posting[j].sector)

\* No version is newer than the last stamp.
VersionsAreOld == \A j \in Jobs : posting[j].version <= stamp

\* A candidate without a row has no matches.
NoneWithoutRow == ~candidate.exists => \A j \in Jobs : match[j] = NoMatch

\* JobTypeOK, the tables apart from the runs of matching
TablesTyped ==
    /\ posting \in [Jobs -> Postings]
    /\ candidate \in Candidates
    /\ match \in [Jobs -> Matches]
    /\ stamp \in 0 .. MaxStamp
    /\ retouched \in BOOLEAN

RunsTyped ==
    /\ run = [m \in Runs |-> run[m]]
    /\ \A m \in Runs : /\ run[m].scope \in Scopes /\ run[m].version \in 0 .. MaxStamp
                       /\ DOMAIN run[m].seen \subseteq Jobs
                       /\ \A j \in DOMAIN run[m].seen : run[m].seen[j] \in 0 .. MaxStamp

\* The inductive invariant of postings and matches, which each action keeps
JobInv == TablesTyped /\ RunsTyped /\ VersionsAreOld /\ ScopesHold /\ NoneWithoutRow /\ BestAgreesWithRows

LEMMA JobNumbers == MaxStamp \in Nat /\ 0 \in Scores /\ Scores \subseteq 0 .. 100 /\ NoJob \notin Jobs /\ Everywhere \in Scopes
BY JobAssumption DEF Scopes

LEMMA NothingYet == NoMatch \in Matches /\ NoCandidate \in Candidates
BY JobNumbers DEF NoMatch, Matches, NoCandidate, Candidates

LEMMA JobsBegin == ASSUME JobInit PROVE JobInv
<1>1. TablesTyped /\ RunsTyped
  <2>1. posting \in [Jobs -> Postings] /\ stamp \in 0 .. MaxStamp /\ retouched \in BOOLEAN
    <3> DEFINE New == [status : {"absent", "active"}, open : {TRUE}, sector : Scopes, version : {0}]
    <3>1. 0 \in 0 .. MaxStamp
      BY JobNumbers
    <3>2. New \subseteq Postings
      BY <3>1 DEF Postings
    <3>3. posting \in [Jobs -> New]
      BY DEF JobInit
    <3> QED
      BY <3>1, <3>2, <3>3 DEF JobInit
  <2>2. match \in [Jobs -> Matches] /\ candidate \in Candidates
    BY NothingYet DEF JobInit
  <2>3. RunsTyped
    <3>1. run = [m \in Runs |-> NotRunning]
      BY DEF JobInit
    <3>2. /\ NotRunning.scope \in Scopes /\ NotRunning.version \in 0 .. MaxStamp
          /\ DOMAIN NotRunning.seen = {}
      BY JobNumbers DEF NotRunning
    <3> QED
      BY <3>1, <3>2 DEF RunsTyped
  <2> QED
    BY <2>1, <2>2, <2>3 DEF TablesTyped
<1>2. VersionsAreOld
  <2>1. \A j \in Jobs : posting[j].version = 0
    BY DEF JobInit
  <2> QED
    BY <2>1 DEF JobInit, VersionsAreOld
<1>3. ScopesHold /\ NoneWithoutRow /\ BestAgreesWithRows
  BY DEF JobInit, ScopesHold, NoneWithoutRow, BestAgreesWithRows, NoCandidate, NotRunning
<1> QED
  BY <1>1, <1>2, <1>3 DEF JobInv

LEMMA Ticked ==
  ASSUME stamp \in 0 .. MaxStamp, Tick
  PROVE  /\ stamp' \in 0 .. MaxStamp /\ stamp' = stamp + 1 /\ stamp + 1 \in 0 .. MaxStamp
         /\ stamp \in Nat
BY JobNumbers DEF Tick

\* The parts of the candidate's row that matching writes
LEMMA RowWritten ==
  ASSUME candidate \in Candidates, NEW best \in Jobs \cup {NoJob}, NEW score \in Scores,
         NEW sector \in Scopes, NEW version \in 0 .. MaxStamp
  PROVE  /\ [candidate EXCEPT !.best = best, !.version = version, !.score = score] \in Candidates
         /\ [candidate EXCEPT !.best = best, !.score = score, !.sector = sector, !.version = version]
              \in Candidates
         /\ [candidate EXCEPT !.best = best, !.version = version, !.score = score, !.sector = sector]
              \in Candidates
         /\ [candidate EXCEPT !.score = score, !.version = version] \in Candidates
BY DEF Candidates

LEMMA CreatePostingKeepsJobs ==
  ASSUME JobInv, NEW j \in Jobs, NEW sector \in Scopes, NEW status \in {"draft", "active", "closed"}, CreatePosting(j, sector, status)
  PROVE  JobInv'
<1>1. TablesTyped'
  <2>1. posting' \in [Jobs -> Postings]
    BY JobNumbers, NothingYet DEF JobInv, TablesTyped, Postings, CreatePosting, Tick
  <2> QED
    BY <2>1, JobNumbers DEF JobInv, TablesTyped, CreatePosting, Tick
<1>5. RunsTyped'
  BY JobNumbers DEF JobInv, RunsTyped, TablesTyped, Candidates, Postings, CreatePosting, Tick
<1>2. VersionsAreOld' /\ ScopesHold'
  BY <1>1, JobNumbers DEF JobInv, TablesTyped, RunsTyped, VersionsAreOld, ScopesHold, Postings, Open, CreatePosting, Tick
<1>3. NoneWithoutRow'
  BY DEF JobInv, TablesTyped, RunsTyped, NoneWithoutRow, Matched, NoMatch, CreatePosting, Tick
<1>4. BestAgreesWithRows'
  BY JobNumbers DEF JobInv, TablesTyped, RunsTyped, BestAgreesWithRows, Candidates, Postings, Matches, Open, CreatePosting, Tick
<1> QED
  BY <1>1, <1>2, <1>3, <1>4, <1>5 DEF JobInv

LEMMA UpdatePostingKeepsJobs ==
  ASSUME JobInv, NEW j \in Jobs, NEW scope \in Scopes, NEW sector \in Scopes, NEW status \in {"draft", "active", "closed"}, UpdatePosting(j, scope, sector, status)
  PROVE  JobInv'
<1>1. TablesTyped'
  <2>1. posting' \in [Jobs -> Postings]
    BY JobNumbers, NothingYet DEF JobInv, TablesTyped, Postings, UpdatePosting, Tick
  <2> QED
    BY <2>1, JobNumbers DEF JobInv, TablesTyped, UpdatePosting, Tick
<1>5. RunsTyped'
  BY JobNumbers DEF JobInv, RunsTyped, TablesTyped, Candidates, Postings, UpdatePosting, Tick
<1>2. VersionsAreOld' /\ ScopesHold'
  BY <1>1, JobNumbers DEF JobInv, TablesTyped, RunsTyped, VersionsAreOld, ScopesHold, Postings, Open, UpdatePosting, Tick
<1>3. NoneWithoutRow'
  BY DEF JobInv, TablesTyped, RunsTyped, NoneWithoutRow, Matched, NoMatch, UpdatePosting, Tick
<1>4. BestAgreesWithRows'
  BY JobNumbers DEF JobInv, TablesTyped, RunsTyped, BestAgreesWithRows, Candidates, Postings, Matches, Open, UpdatePosting, Tick
<1> QED
  BY <1>1, <1>2, <1>3, <1>4, <1>5 DEF JobInv

LEMMA DeletePostingKeepsJobs ==
  ASSUME JobInv, NEW j \in Jobs, NEW scope \in Scopes, NEW unused \in BOOLEAN, DeletePosting(j, scope, unused)
  PROVE  JobInv'
<1>1. TablesTyped'
  <2>1. posting' \in [Jobs -> Postings]
    <3>1. stamp + 1 \in 0 .. MaxStamp
      BY Ticked DEF JobInv, TablesTyped, DeletePosting
    <3>2. \A status \in {"absent", "closed"} :
            [posting[j] EXCEPT !.status = status, !.version = stamp + 1] \in Postings
      BY <3>1 DEF JobInv, TablesTyped, Postings
    <3> QED
      BY <3>2 DEF JobInv, TablesTyped, DeletePosting
  <2> QED
    BY <2>1, JobNumbers DEF JobInv, TablesTyped, DeletePosting, Tick
<1>5. RunsTyped'
  BY JobNumbers DEF JobInv, RunsTyped, TablesTyped, Candidates, Postings, DeletePosting, Tick
<1>2. VersionsAreOld' /\ ScopesHold'
  BY <1>1, JobNumbers DEF JobInv, TablesTyped, RunsTyped, VersionsAreOld, ScopesHold, Postings, Open, DeletePosting, Tick
<1>3. NoneWithoutRow'
  BY DEF JobInv, TablesTyped, RunsTyped, NoneWithoutRow, Matched, NoMatch, DeletePosting, Tick
<1>4. BestAgreesWithRows'
  BY JobNumbers DEF JobInv, TablesTyped, RunsTyped, BestAgreesWithRows, Candidates, Postings, Matches, Open, DeletePosting, Tick
<1> QED
  BY <1>1, <1>2, <1>3, <1>4, <1>5 DEF JobInv

LEMMA ExpireKeepsJobs ==
  ASSUME JobInv, NEW j \in Jobs, Expire(j)
  PROVE  JobInv'
<1>1. TablesTyped'
  <2>1. posting' \in [Jobs -> Postings]
    BY JobNumbers, NothingYet DEF JobInv, TablesTyped, Postings, Expire
  <2> QED
    BY <2>1, JobNumbers DEF JobInv, TablesTyped, Expire
<1>5. RunsTyped'
  BY JobNumbers DEF JobInv, RunsTyped, TablesTyped, Candidates, Postings, Expire
<1>2. VersionsAreOld' /\ ScopesHold'
  BY <1>1, JobNumbers DEF JobInv, TablesTyped, RunsTyped, VersionsAreOld, ScopesHold, Postings, Open, Expire
<1>3. NoneWithoutRow'
  BY DEF JobInv, TablesTyped, RunsTyped, NoneWithoutRow, Matched, NoMatch, Expire
<1>4. BestAgreesWithRows'
  BY JobNumbers DEF JobInv, TablesTyped, RunsTyped, BestAgreesWithRows, Candidates, Postings, Matches, Open, Expire
<1> QED
  BY <1>1, <1>2, <1>3, <1>4, <1>5 DEF JobInv

LEMMA ApplyKeepsJobs ==
  ASSUME JobInv, NEW j \in Jobs, NEW score \in Scores, NEW of \in 0 .. MaxStamp, Apply(j, score, of)
  PROVE  JobInv'
<1>1. TablesTyped'
  <2>1. candidate' \in Candidates
    BY JobNumbers, NothingYet DEF JobInv, TablesTyped, Candidates, Scopes, Postings, Apply, Tick
  <2>2. match' \in [Jobs -> Matches]
    BY JobNumbers, NothingYet DEF JobInv, TablesTyped, Matches, Apply, Tick
  <2> QED
    BY <2>1, <2>2, Ticked DEF JobInv, TablesTyped, Apply
<1>5. RunsTyped'
  BY JobNumbers DEF JobInv, RunsTyped, TablesTyped, Candidates, Postings, Apply, Tick
<1>2. VersionsAreOld' /\ ScopesHold'
  BY <1>1, JobNumbers DEF JobInv, TablesTyped, RunsTyped, VersionsAreOld, ScopesHold, Postings, Open, Apply, Tick
<1>3. NoneWithoutRow'
  BY DEF JobInv, TablesTyped, RunsTyped, NoneWithoutRow, Matched, NoMatch, Apply, Tick
<1>4. BestAgreesWithRows'
  BY JobNumbers DEF JobInv, TablesTyped, RunsTyped, BestAgreesWithRows, Candidates, Postings, Matches, Open, Apply, Tick
<1> QED
  BY <1>1, <1>2, <1>3, <1>4, <1>5 DEF JobInv

LEMMA TouchCandidateKeepsJobs ==
  ASSUME JobInv, NEW score \in Scores, TouchCandidate(score)
  PROVE  JobInv'
<1>1. TablesTyped'
  <2>1. candidate' \in Candidates
    <3>1. candidate \in Candidates /\ stamp + 1 \in 0 .. MaxStamp /\ NoJob \in Jobs \cup {NoJob}
      BY Ticked DEF JobInv, TablesTyped, TouchCandidate
    <3>2. candidate' = [candidate EXCEPT !.score = score, !.version = stamp + 1]
      BY DEF TouchCandidate
    <3> QED
      BY <3>1, <3>2, RowWritten, JobNumbers
  <2> QED
    BY <2>1, Ticked DEF JobInv, TablesTyped, TouchCandidate
<1>5. RunsTyped'
  BY JobNumbers DEF JobInv, RunsTyped, TablesTyped, Candidates, Postings, TouchCandidate, Tick
<1>2. VersionsAreOld' /\ ScopesHold'
  BY <1>1, JobNumbers DEF JobInv, TablesTyped, RunsTyped, VersionsAreOld, ScopesHold, Postings, Open, TouchCandidate, Tick
<1>3. NoneWithoutRow'
  BY DEF JobInv, TablesTyped, RunsTyped, NoneWithoutRow, Matched, NoMatch, TouchCandidate, Tick
<1>4. BestAgreesWithRows'
  BY JobNumbers DEF JobInv, TablesTyped, RunsTyped, BestAgreesWithRows, Candidates, Postings, Matches, Open, TouchCandidate, Tick
<1> QED
  BY <1>1, <1>2, <1>3, <1>4, <1>5 DEF JobInv

LEMMA DropCandidateKeepsJobs ==
  ASSUME JobInv, DropCandidate
  PROVE  JobInv'
<1>1. TablesTyped'
  <2>1. candidate' \in Candidates
    BY JobNumbers, NothingYet DEF JobInv, TablesTyped, Candidates, Scopes, Postings, DropCandidate
  <2>2. match' \in [Jobs -> Matches]
    BY JobNumbers, NothingYet DEF JobInv, TablesTyped, Matches, DropCandidate
  <2> QED
    BY <2>1, <2>2, JobNumbers DEF JobInv, TablesTyped, DropCandidate
<1>5. RunsTyped'
  BY JobNumbers DEF JobInv, RunsTyped, TablesTyped, Candidates, Postings, DropCandidate
<1>2. VersionsAreOld' /\ ScopesHold'
  BY <1>1, JobNumbers DEF JobInv, TablesTyped, RunsTyped, VersionsAreOld, ScopesHold, Postings, Open, DropCandidate
<1>3. NoneWithoutRow'
  BY DEF JobInv, TablesTyped, RunsTyped, NoneWithoutRow, Matched, NoMatch, DropCandidate
<1>4. BestAgreesWithRows'
  BY DEF BestAgreesWithRows, DropCandidate, NoCandidate
<1> QED
  BY <1>1, <1>2, <1>3, <1>4, <1>5 DEF JobInv

LEMMA ReadForMatchingKeepsJobs ==
  ASSUME JobInv, NEW m \in Runs, NEW scope \in Scopes, ReadForMatching(m, scope)
  PROVE  JobInv'
<1>1. TablesTyped'
  <2> QED
    BY JobNumbers DEF JobInv, TablesTyped, ReadForMatching
<1>5. RunsTyped'
  BY JobNumbers DEF JobInv, RunsTyped, TablesTyped, Candidates, Postings, ReadForMatching
<1>2. VersionsAreOld' /\ ScopesHold'
  BY <1>1, JobNumbers DEF JobInv, TablesTyped, RunsTyped, VersionsAreOld, ScopesHold, Postings, Open, ReadForMatching
<1>3. NoneWithoutRow'
  BY DEF JobInv, TablesTyped, RunsTyped, NoneWithoutRow, Matched, NoMatch, ReadForMatching
<1>4. BestAgreesWithRows'
  BY JobNumbers DEF JobInv, TablesTyped, RunsTyped, BestAgreesWithRows, Candidates, Postings, Matches, Open, ReadForMatching
<1> QED
  BY <1>1, <1>2, <1>3, <1>4, <1>5 DEF JobInv

LEMMA StoreMatchesKeepsJobs ==
  ASSUME JobInv, NEW m \in Runs, NEW score \in [DOMAIN run[m].seen -> Scores], StoreMatches(m, score)
  PROVE  JobInv'
<1> DEFINE jobs == DOMAIN run[m].seen
           best == Best({j \in DOMAIN score : match'[j].status # "rejected"}, score)
<1>1. jobs \subseteq Jobs /\ DOMAIN score = jobs /\ \A j \in jobs : score[j] \in Scores
  BY DEF JobInv, RunsTyped
<1>2. stamp' \in 0 .. MaxStamp /\ stamp' = stamp + 1 /\ stamp \in Nat
  BY Ticked DEF JobInv, TablesTyped, StoreMatches
<1>3. match' = Stored(m, score) /\ retouched' = FALSE /\ posting' = posting
  BY DEF StoreMatches
<1>4. match' \in [Jobs -> Matches]
  <2>1. \A j \in jobs : run[m].seen[j] \in 0 .. MaxStamp
    BY DEF JobInv, RunsTyped
  <2>2. ASSUME NEW j \in Jobs PROVE Stored(m, score)[j] \in Matches
    <3>1. CASE j \in jobs
      BY <3>1, <1>1, <2>1 DEF Stored, Matches, JobInv, TablesTyped
    <3>2. CASE j \notin jobs
      BY <3>2, <1>1, NothingYet DEF Stored, JobInv, TablesTyped
    <3> QED
      BY <3>1, <3>2
  <2>3. DOMAIN Stored(m, score) = Jobs /\ Stored(m, score) = [j \in Jobs |-> Stored(m, score)[j]]
    BY DEF Stored
  <2> QED
    BY <1>3, <2>2, <2>3
<1>5. candidate' = [candidate EXCEPT !.best = best, !.version = stamp + 1,
                                     !.score = IF best = NoJob THEN 0 ELSE score[best]]
  BY DEF StoreMatches
<1>6. best = NoJob \/ (best \in jobs /\ match'[best].status # "rejected")
  BY <1>1, BestIsOneOfThem
<1>7. TablesTyped'
  <2>1. best \in Jobs \cup {NoJob} /\ (IF best = NoJob THEN 0 ELSE score[best]) \in Scores
    BY <1>1, <1>6, JobNumbers
  <2>2. candidate' \in Candidates
    <3>1. candidate \in Candidates /\ stamp + 1 \in 0 .. MaxStamp
      BY <1>2 DEF JobInv, TablesTyped
    <3> HIDE DEF best
    <3> QED
      BY <3>1, <2>1, <1>5, JobNumbers, RowWritten
  <2> QED
    BY <2>2, <1>2, <1>3, <1>4 DEF JobInv, TablesTyped
<1>8. run' = [run EXCEPT ![m] = NotRunning] /\ DOMAIN NotRunning.seen = {}
  BY DEF StoreMatches, NotRunning
<1>9. RunsTyped'
  <2>1. NotRunning.scope \in Scopes /\ NotRunning.version \in 0 .. MaxStamp
    BY JobNumbers DEF NotRunning
  <2> QED
    BY <2>1, <1>8 DEF JobInv, RunsTyped
<1>10. VersionsAreOld' /\ ScopesHold'
  <2>1. ASSUME NEW n \in Runs, NEW j \in DOMAIN run'[n].seen
        PROVE  n # m /\ run'[n] = run[n] /\ j \in Jobs
    BY <1>8 DEF JobInv, RunsTyped
  <2>2. \A j \in Jobs : posting[j].version <= stamp /\ posting[j].version \in Nat
    BY JobNumbers DEF JobInv, TablesTyped, Postings, VersionsAreOld
  <2>3. VersionsAreOld'
    BY <2>2, <1>2, <1>3 DEF VersionsAreOld
  <2>4. ASSUME NEW n \in Runs, NEW j \in DOMAIN run'[n].seen
        PROVE  /\ run'[n].seen[j] <= stamp'
               /\ posting'[j].version = run'[n].seen[j] => MayAccess(run'[n].scope, posting'[j].sector)
    <3>1. run[n].seen[j] <= stamp /\ run[n].seen[j] \in 0 .. MaxStamp
      BY <2>1 DEF JobInv, RunsTyped, ScopesHold
    <3>2. run[n].seen[j] <= stamp'
      BY <3>1, <1>2, JobNumbers
    <3> QED
      BY <3>2, <2>1, <1>3 DEF JobInv, ScopesHold
  <2>5. ScopesHold'
    BY <2>4 DEF ScopesHold, MayAccess
  <2> QED
    BY <2>3, <2>5
<1>11. NoneWithoutRow'
  <2>1. candidate.exists
    BY DEF StoreMatches, Unchanged
  <2> QED
    BY <2>1, <1>5 DEF NoneWithoutRow, JobInv, TablesTyped, Candidates
<1>12. BestAgreesWithRows'
  <2> SUFFICES ASSUME best # NoJob
               PROVE  /\ posting[best].status # "absent"
                      /\ match'[best].status \in {"auto_matched", "confirmed"}
                      /\ score[best] = match'[best].score
    BY <1>3, <1>5 DEF BestAgreesWithRows, JobInv, TablesTyped, Candidates
  <2>1. best \in jobs /\ best \in Jobs /\ match'[best].status # "rejected"
    BY <1>1, <1>6
  <2>2. posting[best].status # "absent"
    BY <2>1 DEF StoreMatches, Unchanged, Open
  <2>3. match'[best] = [status |-> IF best \in Matched THEN match[best].status ELSE "auto_matched",
                        score |-> score[best], of |-> run[m].seen[best]]
    BY <2>1, <1>1, <1>3 DEF Stored
  <2>4. match'[best].status # "absent"
    BY <2>3, <2>1 DEF Matched
  <2>5. match'[best].status \in {"absent", "auto_matched", "confirmed", "rejected"}
    BY <1>4, <2>1 DEF Matches
  <2> QED
    BY <2>1, <2>2, <2>3, <2>4, <2>5
<1> QED
  BY <1>7, <1>9, <1>10, <1>11, <1>12 DEF JobInv

LEMMA GiveUpMatchingKeepsJobs ==
  ASSUME JobInv, NEW m \in Runs, GiveUpMatching(m)
  PROVE  JobInv'
<1>1. TablesTyped'
  <2> QED
    BY JobNumbers DEF JobInv, TablesTyped, GiveUpMatching, NotRunning
<1>5. RunsTyped'
  BY JobNumbers DEF JobInv, RunsTyped, TablesTyped, Candidates, Postings, GiveUpMatching, NotRunning
<1>2. VersionsAreOld' /\ ScopesHold'
  BY <1>1, JobNumbers DEF JobInv, TablesTyped, RunsTyped, VersionsAreOld, ScopesHold, Postings, Open, GiveUpMatching, NotRunning
<1>3. NoneWithoutRow'
  BY DEF JobInv, TablesTyped, RunsTyped, NoneWithoutRow, Matched, NoMatch, GiveUpMatching, NotRunning
<1>4. BestAgreesWithRows'
  BY JobNumbers DEF JobInv, TablesTyped, RunsTyped, BestAgreesWithRows, Candidates, Postings, Matches, Open, GiveUpMatching, NotRunning
<1> QED
  BY <1>1, <1>2, <1>3, <1>4, <1>5 DEF JobInv

LEMMA ConfirmMatchKeepsJobs ==
  ASSUME JobInv, NEW j \in Jobs, NEW scope \in Scopes, ConfirmMatch(j, scope)
  PROVE  JobInv'
<1>1. TablesTyped'
  <2>1. candidate' \in Candidates
    <3>1. j \in Jobs /\ match[j].score \in Scores /\ posting[j].sector \in Scopes
      BY DEF JobInv, TablesTyped, Matches, Postings
    <3> QED
      BY <3>1, Ticked, RowWritten DEF JobInv, TablesTyped, ConfirmMatch
  <2>2. match' \in [Jobs -> Matches]
    BY JobNumbers, NothingYet DEF JobInv, TablesTyped, Matches, ConfirmMatch, MayReview, Tick
  <2> QED
    BY <2>1, <2>2, Ticked DEF JobInv, TablesTyped, ConfirmMatch
<1>5. RunsTyped'
  BY JobNumbers DEF JobInv, RunsTyped, TablesTyped, Candidates, Postings, ConfirmMatch, MayReview, Tick
<1>2. VersionsAreOld' /\ ScopesHold'
  BY <1>1, JobNumbers DEF JobInv, TablesTyped, RunsTyped, VersionsAreOld, ScopesHold, Postings, Open, ConfirmMatch, MayReview, Tick
<1>3. NoneWithoutRow'
  BY DEF JobInv, TablesTyped, RunsTyped, NoneWithoutRow, Matched, NoMatch, ConfirmMatch, MayReview, Tick
<1>4. BestAgreesWithRows'
  BY JobNumbers DEF JobInv, TablesTyped, RunsTyped, BestAgreesWithRows, Candidates, Postings, Matches, Open, ConfirmMatch, MayReview, Tick
<1> QED
  BY <1>1, <1>2, <1>3, <1>4, <1>5 DEF JobInv

LEMMA RejectMatchKeepsJobs ==
  ASSUME JobInv, NEW j \in Jobs, NEW scope \in Scopes, RejectMatch(j, scope)
  PROVE  JobInv'
<1> DEFINE left == {k \in Matched \ {j} : /\ match[k].status # "rejected" /\ Open(k)
                                          /\ MayAccess(scope, posting[k].sector)}
           scores == [k \in Jobs |-> match[k].score]
           next == Best(left, scores)
<1>1. match' = [match EXCEPT ![j].status = "rejected"] /\ posting' = posting /\ run' = run
  BY DEF RejectMatch
<1>2. match' \in [Jobs -> Matches]
  <2>1. [match[j] EXCEPT !.status = "rejected"] \in Matches
    BY DEF JobInv, TablesTyped, Matches
  <2> QED
    BY <2>1, <1>1 DEF JobInv, TablesTyped
<1>3. left \subseteq Jobs /\ \A k \in left : scores[k] \in Scores /\ scores[k] = match[k].score
  BY DEF Matched, JobInv, TablesTyped, Matches
<1>4. next = NoJob \/ next \in left
  BY <1>3, BestIsOneOfThem
<1>5. CASE candidate.best # j
  <2>1. candidate' = candidate /\ stamp' = stamp /\ retouched' = retouched
    BY <1>5 DEF RejectMatch
  <2>2. TablesTyped' /\ RunsTyped'
    BY <2>1, <1>1, <1>2 DEF JobInv, TablesTyped, RunsTyped
  <2>3. VersionsAreOld' /\ ScopesHold'
    BY <2>1, <1>1 DEF JobInv, VersionsAreOld, ScopesHold
  <2>4. NoneWithoutRow'
    BY <2>1, <1>1 DEF JobInv, NoneWithoutRow, RejectMatch, MayReview, Matched, NoMatch
  <2>5. BestAgreesWithRows'
    BY <2>1, <1>1, <1>5 DEF JobInv, TablesTyped, Candidates, BestAgreesWithRows
  <2> QED
    BY <2>2, <2>3, <2>4, <2>5 DEF JobInv
<1>6. CASE candidate.best = j
  <2> DEFINE score == IF next = NoJob THEN 0 ELSE scores[next]
             sector == IF next = NoJob \/ posting[next].sector = Everywhere THEN candidate.sector
                       ELSE posting[next].sector
  <2>1. candidate' = [candidate EXCEPT !.best = next, !.version = stamp + 1, !.score = score, !.sector = sector]
        /\ Tick /\ retouched' = FALSE
    BY <1>6 DEF RejectMatch
  <2>2. stamp' \in 0 .. MaxStamp /\ stamp' = stamp + 1 /\ stamp \in Nat
    BY <2>1, Ticked DEF JobInv, TablesTyped
  <2>3. TablesTyped'
    <3>1. next \in Jobs \cup {NoJob} /\ score \in Scores
      BY <1>3, <1>4, JobNumbers
    <3>2. sector \in Scopes
      BY <1>3, <1>4 DEF JobInv, TablesTyped, Candidates, Postings
    <3>3. candidate' \in Candidates
      BY <3>1, <3>2, <2>1, <2>2, RowWritten DEF JobInv, TablesTyped
    <3> QED
      BY <3>3, <2>1, <2>2, <1>1, <1>2 DEF JobInv, TablesTyped
  <2>4. RunsTyped'
    BY <1>1 DEF JobInv, RunsTyped
  <2>5. VersionsAreOld' /\ ScopesHold'
    <3>1. \A k \in Jobs : posting[k].version <= stamp /\ posting[k].version \in 0 .. MaxStamp
      BY DEF JobInv, TablesTyped, Postings, VersionsAreOld
    <3>2. VersionsAreOld'
      BY <3>1, <2>2, <1>1, JobNumbers DEF VersionsAreOld
    <3>3. \A n \in Runs : \A k \in DOMAIN run[n].seen :
            run[n].seen[k] <= stamp /\ run[n].seen[k] \in 0 .. MaxStamp
      BY DEF JobInv, RunsTyped, ScopesHold
    <3>4. \A n \in Runs : \A k \in DOMAIN run[n].seen : run[n].seen[k] <= stamp'
      BY <3>3, <2>2, JobNumbers
    <3> QED
      BY <3>2, <3>4, <1>1 DEF JobInv, ScopesHold
  <2>6. NoneWithoutRow'
    <3>1. candidate.exists
      BY DEF JobInv, NoneWithoutRow, RejectMatch, MayReview, Matched, NoMatch
    <3> QED
      BY <3>1, <2>1 DEF NoneWithoutRow, JobInv, TablesTyped, Candidates
  <2>7. BestAgreesWithRows'
    <3> SUFFICES ASSUME next # NoJob
                 PROVE  /\ posting[next].status # "absent"
                        /\ match'[next].status \in {"auto_matched", "confirmed"}
                        /\ scores[next] = match'[next].score
      BY <2>1, <1>1 DEF BestAgreesWithRows, JobInv, TablesTyped, Candidates
    <3>1. next \in left /\ next \in Jobs /\ next # j
      BY <1>3, <1>4
    <3>2. match'[next] = match[next]
      BY <3>1, <1>1 DEF JobInv, TablesTyped
    <3>3. match[next].status \in {"auto_matched", "confirmed"}
      BY <3>1 DEF Matched, JobInv, TablesTyped, Matches
    <3>4. posting[next].status # "absent"
      BY <3>1 DEF Open
    <3> QED
      BY <3>1, <3>2, <3>3, <3>4
  <2> QED
    BY <2>3, <2>4, <2>5, <2>6, <2>7 DEF JobInv
<1> QED
  BY <1>5, <1>6

LEMMA RestartMatchingKeepsJobs ==
  ASSUME JobInv, RestartMatching
  PROVE  JobInv'
<1>1. TablesTyped'
  <2> QED
    BY JobNumbers DEF JobInv, TablesTyped, RestartMatching, NotRunning
<1>5. RunsTyped'
  BY JobNumbers DEF JobInv, RunsTyped, TablesTyped, Candidates, Postings, RestartMatching, NotRunning
<1>2. VersionsAreOld' /\ ScopesHold'
  BY <1>1, JobNumbers DEF JobInv, TablesTyped, RunsTyped, VersionsAreOld, ScopesHold, Postings, Open, RestartMatching, NotRunning
<1>3. NoneWithoutRow'
  BY DEF JobInv, TablesTyped, RunsTyped, NoneWithoutRow, Matched, NoMatch, RestartMatching, NotRunning
<1>4. BestAgreesWithRows'
  BY JobNumbers DEF JobInv, TablesTyped, RunsTyped, BestAgreesWithRows, Candidates, Postings, Matches, Open, RestartMatching, NotRunning
<1> QED
  BY <1>1, <1>2, <1>3, <1>4, <1>5 DEF JobInv

-----------------------------------------------------------------------------
\* Both together

LEMMA UploadsStay == ASSUME UploadInv, UNCHANGED uploadVars PROVE UploadInv'
BY DEF uploadVars, rowVars, UploadInv, UploadTypeOK, UploadsOwn, FilesAccounted, AnswersAreTrue, Rows, InFlight

LEMMA JobsStay == ASSUME JobInv, UNCHANGED jobVars PROVE JobInv'
BY DEF jobVars, JobInv, TablesTyped, RunsTyped, VersionsAreOld, ScopesHold, NoneWithoutRow, BestAgreesWithRows

\* No request goes back, or becomes one of another kind.
GoesOn ==
    \A u \in Uploads : /\ upload'[u].kind = upload[u].kind
                       /\ upload'[u].at \in {"chosen", "saved"} => upload[u].at \in {"chosen", "saved"}

LEMMA PreparingKeepsUploads ==
  ASSUME UploadInv, NEW u \in Uploads, Preparing(u)
  PROVE  UploadInv' /\ GoesOn /\ row' = row
<1>1. UploadInv'
  BY SaveKeepsUploads, FailSaveKeepsUploads, LookupKeepsUploads, FindDuplicateKeepsUploads,
     SkipLookupKeepsUploads, ParseKeepsUploads, RefuseKeepsUploads,
     LeaveFileKeepsUploads, FailUnreadableKeepsUploads DEF Preparing
<1>2. GoesOn
  <2> USE DEF UploadInv, UploadTypeOK, GoesOn
  <2>1. CASE Save(u)
    BY <2>1 DEF Save
  <2>2. CASE FailSave(u)
    BY <2>2 DEF FailSave, Answer
  <2>3. CASE Lookup(u)
    BY <2>3 DEF Lookup, Looks
  <2>4. CASE FindDuplicate(u)
    BY <2>4 DEF FindDuplicate, Looks, Answer
  <2>5. CASE SkipLookup(u)
    BY <2>5 DEF SkipLookup, Looks
  <2>6. ASSUME NEW email \in Emails \cup {Unknown}, Parse(u, email) PROVE GoesOn
    BY <2>6 DEF Parse
  <2>7. CASE Refuse(u)
    BY <2>7 DEF Refuse, Answer
  <2>8. CASE FailUnreadable(u)
    BY <2>8 DEF FailUnreadable, Answer
  <2>9. CASE LeaveFile(u)
    BY <2>9 DEF LeaveFile, Answer
  <2> QED
    BY <2>1, <2>2, <2>3, <2>4, <2>5, <2>6, <2>7, <2>8, <2>9 DEF Preparing
<1>3. row' = row
  BY DEF Preparing, Save, FailSave, Lookup, FindDuplicate, SkipLookup, Parse, Refuse, LeaveFile,
     FailUnreadable, rowVars
<1> QED
  BY <1>1, <1>2, <1>3

LEMMA PostingStepKeepsJobs ==
  ASSUME JobInv, NEW j \in Jobs, PostingStep(j)
  PROVE  JobInv'
BY CreatePostingKeepsJobs, UpdatePostingKeepsJobs, DeletePostingKeepsJobs, ExpireKeepsJobs DEF PostingStep

LEMMA ReviewStepKeepsJobs ==
  ASSUME JobInv, NEW j \in Jobs, ReviewStep(j)
  PROVE  JobInv'
BY ConfirmMatchKeepsJobs, RejectMatchKeepsJobs DEF ReviewStep

LEMMA MatchStepKeepsJobs ==
  ASSUME JobInv, NEW m \in Runs, MatchStep(m)
  PROVE  JobInv'
BY ReadForMatchingKeepsJobs, StoreMatchesKeepsJobs, GiveUpMatchingKeepsJobs DEF MatchStep

\* Matching and reviewing neither insert nor delete the candidate.
LEMMA CandidateStays ==
  ASSUME JobInv,
         \/ \E j \in Jobs : PostingStep(j) \/ ReviewStep(j)
         \/ \E m \in Runs : MatchStep(m)
         \/ \E score \in Scores : TouchCandidate(score)
         \/ RestartMatching
  PROVE  candidate'.exists = candidate.exists
<1>1. candidate \in Candidates
  BY DEF JobInv, TablesTyped
<1>2. ASSUME NEW j \in Jobs, PostingStep(j) PROVE candidate' = candidate
  BY <1>2 DEF PostingStep, CreatePosting, UpdatePosting, DeletePosting, Expire
<1>3. ASSUME NEW j \in Jobs, ReviewStep(j) PROVE candidate'.exists = candidate.exists
  <2>1. ASSUME NEW scope \in Scopes, ConfirmMatch(j, scope) PROVE candidate'.exists = candidate.exists
    BY <1>1, <2>1 DEF ConfirmMatch, Candidates
  <2>2. ASSUME NEW scope \in Scopes, RejectMatch(j, scope) PROVE candidate'.exists = candidate.exists
    BY <1>1, <2>2 DEF RejectMatch, Candidates
  <2> QED
    BY <1>3, <2>1, <2>2 DEF ReviewStep
<1>4. ASSUME NEW m \in Runs, MatchStep(m) PROVE candidate'.exists = candidate.exists
  <2>1. ASSUME NEW score, StoreMatches(m, score) PROVE candidate'.exists = candidate.exists
    BY <1>1, <2>1 DEF StoreMatches, Candidates
  <2> QED
    BY <1>4, <2>1 DEF MatchStep, ReadForMatching, GiveUpMatching
<1>5. ASSUME NEW score, TouchCandidate(score) PROVE candidate'.exists = candidate.exists
  BY <1>1, <1>5 DEF TouchCandidate, Candidates
<1> QED
  BY <1>2, <1>3, <1>4, <1>5 DEF RestartMatching

\* A request under way has picked a posting, and the followed candidate has a
\* row in both parts or in neither.
PickedTyped ==
    /\ picked \in [Uploads -> [job : Jobs \cup {NoJob}, of : 0 .. MaxStamp]]
    /\ \A u \in Uploads : upload[u].at \in {"chosen", "saved"} /\ upload[u].kind # "bank" => picked[u].job \in Jobs

CandidateHasRow == candidate.exists <=> row[Followed] # NoRow /\ upload[Followed].kind # "bank"

\* The inductive invariant of the whole
IntakeInv == cast \in Casts /\ UploadInv /\ JobInv /\ PickedTyped /\ CandidateHasRow

LEMMA CastMembers ==
  ASSUME cast \in Casts
  PROVE  cast.uploads \subseteq Uploads /\ cast.kinds \subseteq Kinds /\ cast.jobs \subseteq Jobs /\ cast.runs \subseteq Runs
BY CastAssumption

LEMMA IntakeBegins == IntakeInit => IntakeInv
<1> SUFFICES ASSUME IntakeInit PROVE IntakeInv
  OBVIOUS
<1>1. UploadInv
  BY IntakeAssumption DEF IntakeInit, UploadInit, NotBegun, Kinds, UploadInv, UploadTypeOK, UploadsOwn,
     FilesAccounted, AnswersAreTrue, Rows, InFlight
<1>2. JobInv
  BY JobsBegin DEF IntakeInit
<1>3. PickedTyped
  BY JobNumbers DEF IntakeInit, UploadInit, NotBegun, PickedTyped
<1>4. CandidateHasRow
  BY CastAssumption DEF IntakeInit, UploadInit, JobInit, NoCandidate, CandidateHasRow
<1> QED
  BY <1>1, <1>2, <1>3, <1>4 DEF IntakeInit, IntakeInv

LEMMA UploadingKeepsIntake ==
  ASSUME IntakeInv, NEW u \in cast.uploads, Uploading(u)
  PROVE  IntakeInv'
<1> USE DEF IntakeInv
<1>1. u \in Uploads /\ cast.kinds \subseteq Kinds /\ Followed \in Uploads
  BY CastMembers, CastAssumption
<1>2. ASSUME NEW kind \in cast.kinds, NEW email \in Emails \cup {Unknown}, NEW j \in Jobs,
             PickPosting(u, kind, email, j)
      PROVE  IntakeInv'
  <2>1. UploadInv' /\ JobInv'
    BY <1>1, <1>2, ChooseKeepsUploads, JobsStay DEF PickPosting
  <2>2. PickedTyped'
    <3>1. posting[j].version \in 0 .. MaxStamp
      BY DEF JobInv, TablesTyped, Postings
    <3> QED
      BY <1>1, <1>2, <3>1 DEF PickPosting, Choose, PickedTyped, UploadInv, UploadTypeOK, NotBegun
  <2>3. CandidateHasRow'
    <3>1. upload[u].at = "idle" /\ row[u] = NoRow
      BY <1>1, <1>2 DEF PickPosting, Choose, UploadInv, UploadsOwn
    <3> QED
      BY <1>1, <1>2, <3>1 DEF PickPosting, Choose, CandidateHasRow, UploadInv, UploadTypeOK, jobVars, rowVars
  <2> QED
    BY <1>2, <2>1, <2>2, <2>3 DEF PickPosting
<1>3. CASE UploadBank(u)
  <2>1. UploadInv' /\ JobInv'
    BY <1>1, <1>3, ChooseKeepsUploads, JobsStay DEF UploadBank, Kinds
  <2>2. PickedTyped'
    BY <1>1, <1>3 DEF UploadBank, Choose, PickedTyped, UploadInv, UploadTypeOK, NotBegun
  <2>3. CandidateHasRow'
    <3>1. upload[u].at = "idle" /\ row[u] = NoRow
      BY <1>1, <1>3 DEF UploadBank, Choose, UploadInv, UploadsOwn
    <3> QED
      BY <1>1, <1>3, <3>1 DEF UploadBank, Choose, CandidateHasRow, UploadInv, UploadTypeOK, jobVars, rowVars
  <2> QED
    BY <1>3, <2>1, <2>2, <2>3 DEF UploadBank
<1>4. CASE Prepare(u)
  <2>1. UploadInv' /\ JobInv' /\ GoesOn /\ row' = row
    BY <1>1, <1>4, PreparingKeepsUploads, JobsStay DEF Prepare
  <2>2. PickedTyped'
    BY <1>4, <2>1 DEF Prepare, PickedTyped, GoesOn
  <2>3. CandidateHasRow'
    BY <1>1, <1>4, <2>1 DEF Prepare, CandidateHasRow, GoesOn, jobVars
  <2> QED
    BY <1>4, <2>1, <2>2, <2>3 DEF Prepare
<1>5. ASSUME NEW score \in Scores, Accept(u, score) PROVE IntakeInv'
  <2>1. UploadInv'
    BY <1>1, <1>5, InsertKeepsUploads, InsertUnheardKeepsUploads DEF Accept
  <2>2. upload[u].at = "saved" /\ row[u] = NoRow
    BY <1>1, <1>5 DEF Accept, Insert, InsertUnheard, Inserts, UploadInv, UploadsOwn
  <2>3. upload' = [upload EXCEPT ![u].at = "done"] /\ row' = [row EXCEPT ![u] = upload[u].email]
    BY <1>5 DEF Accept, Insert, InsertUnheard, Answer, RowStored
  <2>4. upload[u].email # NoRow /\ \A w \in Uploads : upload'[w].kind = upload[w].kind
    BY <1>1, <2>3, IntakeAssumption DEF UploadInv, UploadTypeOK
  <2>5. PickedTyped'
    BY <1>1, <1>5, <2>3 DEF Accept, PickedTyped, UploadInv, UploadTypeOK
  <2>6. CASE u = Followed /\ upload[u].kind # "bank"
    <3>1. picked[u].job \in Jobs /\ picked[u].of \in 0 .. MaxStamp
      BY <1>1, <2>2, <2>6 DEF PickedTyped
    <3>2. Apply(picked[u].job, score, picked[u].of)
      BY <1>5, <2>6 DEF Accept
    <3>3. JobInv'
      BY <3>1, <3>2, ApplyKeepsJobs
    <3>4. candidate'.exists
      BY <3>2 DEF Apply
    <3>5. CandidateHasRow'
      BY <1>1, <2>3, <2>4, <2>6, <3>4 DEF CandidateHasRow, UploadInv, UploadTypeOK
    <3> QED
      BY <1>5, <2>1, <2>5, <3>3, <3>5 DEF Accept
  <2>7. CASE ~(u = Followed /\ upload[u].kind # "bank")
    <3>1. UNCHANGED jobVars /\ JobInv'
      BY <1>5, <2>7, JobsStay DEF Accept
    <3>2. CandidateHasRow'
      BY <1>1, <2>3, <2>4, <2>7, <3>1 DEF CandidateHasRow, UploadInv, UploadTypeOK, jobVars
    <3> QED
      BY <1>5, <2>1, <2>5, <3>1, <3>2 DEF Accept
  <2> QED
    BY <2>6, <2>7
<1>6. CASE Collide(u)
  <2>1. UploadInv' /\ JobInv'
    BY <1>1, <1>6, InsertDuplicateKeepsUploads, JobsStay DEF Collide
  <2>2. GoesOn /\ row' = row
    BY <1>1, <1>6 DEF Collide, InsertDuplicate, Answer, GoesOn, rowVars, UploadInv, UploadTypeOK
  <2>3. PickedTyped' /\ CandidateHasRow'
    BY <1>1, <1>6, <2>2 DEF Collide, PickedTyped, CandidateHasRow, GoesOn, jobVars
  <2> QED
    BY <1>6, <2>1, <2>3 DEF Collide
<1> QED
  BY <1>2, <1>3, <1>4, <1>5, <1>6 DEF Uploading

LEMMA EditKeepsIntake ==
  ASSUME IntakeInv, NEW u \in cast.uploads, EditCandidate(u)
  PROVE  IntakeInv'
<1> USE DEF IntakeInv
<1>1. u \in Uploads /\ Followed \in Uploads
  BY CastMembers, CastAssumption
<1>2. UploadInv' /\ upload' = upload /\ \A w \in Uploads : (row'[w] # NoRow <=> row[w] # NoRow)
  <2>1. ASSUME NEW email \in Emails, Readdress(u, email)
        PROVE  UploadInv' /\ upload' = upload /\ \A w \in Uploads : (row'[w] # NoRow <=> row[w] # NoRow)
    BY <1>1, <2>1, ReaddressKeepsUploads, IntakeAssumption DEF Readdress, Rows, UploadInv, UploadTypeOK
  <2>2. CASE UNCHANGED uploadVars
    BY <2>2, UploadsStay DEF uploadVars, rowVars
  <2> QED
    BY <2>1, <2>2 DEF EditCandidate
<1>3. UNCHANGED jobVars \/ \E score \in Scores : TouchCandidate(score)
  BY DEF EditCandidate, JobInv, TablesTyped, Candidates
<1>4. JobInv' /\ candidate'.exists = candidate.exists
  BY <1>3, JobsStay, TouchCandidateKeepsJobs, CandidateStays DEF jobVars
<1>5. PickedTyped' /\ CandidateHasRow'
  BY <1>1, <1>2, <1>4 DEF EditCandidate, PickedTyped, CandidateHasRow
<1> QED
  BY <1>2, <1>4, <1>5 DEF EditCandidate

LEMMA DeleteKeepsIntake ==
  ASSUME IntakeInv, NEW u \in cast.uploads, Delete(u)
  PROVE  IntakeInv'
<1> USE DEF IntakeInv
<1>1. u \in Uploads /\ Followed \in Uploads
  BY CastMembers, CastAssumption
<1>2. UploadInv' /\ upload' = upload /\ row' = [row EXCEPT ![u] = NoRow]
  BY <1>1, DeleteRowKeepsUploads, DeleteUnheardKeepsUploads DEF Delete, DeleteRow, DeleteUnheard
<1>3. JobInv'
  BY DropCandidateKeepsJobs, JobsStay DEF Delete
<1>4. PickedTyped'
  BY <1>2 DEF Delete, PickedTyped
<1>5. CandidateHasRow'
  <2>1. CASE u = Followed /\ upload[u].kind # "bank"
    BY <1>1, <1>2, <2>1 DEF Delete, DropCandidate, NoCandidate, CandidateHasRow, UploadInv, UploadTypeOK
  <2>2. CASE ~(u = Followed /\ upload[u].kind # "bank")
    BY <1>1, <1>2, <2>2 DEF Delete, jobVars, CandidateHasRow, UploadInv, UploadTypeOK
  <2> QED
    BY <2>1, <2>2
<1> QED
  BY <1>2, <1>3, <1>4, <1>5 DEF Delete

LEMMA JobStepKeepsIntake ==
  ASSUME IntakeInv, JobStep
  PROVE  IntakeInv'
<1> USE DEF IntakeInv
<1>1. \/ \E j \in Jobs : PostingStep(j) \/ ReviewStep(j)
      \/ \E m \in Runs : MatchStep(m)
  BY CastMembers DEF JobStep
<1>2. JobInv' /\ candidate'.exists = candidate.exists
  BY <1>1, PostingStepKeepsJobs, ReviewStepKeepsJobs, MatchStepKeepsJobs, CandidateStays
<1>3. UploadInv' /\ UNCHANGED <<upload, row>>
  BY UploadsStay DEF JobStep, uploadVars, rowVars
<1>4. PickedTyped' /\ CandidateHasRow'
  BY <1>2, <1>3 DEF JobStep, PickedTyped, CandidateHasRow
<1> QED
  BY <1>2, <1>3, <1>4 DEF JobStep

LEMMA CrashKeepsIntake ==
  ASSUME IntakeInv, Crash
  PROVE  IntakeInv'
<1> USE DEF IntakeInv
<1>1. UploadInv' /\ JobInv' /\ candidate'.exists = candidate.exists
  BY RestartIntakeKeepsUploads, RestartMatchingKeepsJobs, CandidateStays DEF Crash
<1>2. GoesOn /\ row' = row
  BY DEF Crash, RestartIntake, GoesOn, UploadInv, UploadTypeOK
<1>3. PickedTyped' /\ CandidateHasRow'
  BY <1>1, <1>2, CastAssumption DEF Crash, PickedTyped, CandidateHasRow, GoesOn
<1> QED
  BY <1>1, <1>3 DEF Crash

LEMMA IntakeKept == IntakeInv /\ [IntakeNext]_intakeVars => IntakeInv'
<1> SUFFICES ASSUME IntakeInv, [IntakeNext]_intakeVars PROVE IntakeInv'
  OBVIOUS
<1>1. ASSUME NEW u \in cast.uploads, Clear(u) PROVE IntakeInv'
  <2>1. u \in Uploads
    BY CastMembers DEF IntakeInv
  <2>2. UploadInv' /\ JobInv'
    BY <1>1, <2>1, RemoveFileKeepsUploads, JobsStay DEF Clear, IntakeInv
  <2> QED
    BY <1>1, <2>2 DEF Clear, RemoveFile, IntakeInv, PickedTyped, CandidateHasRow, jobVars
<1>2. CASE UNCHANGED intakeVars
  BY <1>2, UploadsStay, JobsStay DEF intakeVars, IntakeInv, PickedTyped, CandidateHasRow, jobVars, uploadVars, rowVars
<1> QED
  BY <1>1, <1>2, UploadingKeepsIntake, EditKeepsIntake, DeleteKeepsIntake, JobStepKeepsIntake, CrashKeepsIntake
     DEF IntakeNext

LEMMA IntakeHolds == IntakeSpec => []IntakeInv
BY IntakeBegins, IntakeKept, PTL DEF IntakeSpec

-----------------------------------------------------------------------------
\* The theorems

\* The tables hold values of their types, and a candidate has a row in both
\* parts or in neither.
THEOREM IntakeTypes == IntakeSpec => []IntakeTypeOK
<1>1. IntakeInv => IntakeTypeOK
  BY DEF IntakeInv, UploadInv, JobInv, TablesTyped, RunsTyped, Postings, Candidates, Matches, PickedTyped,
     CandidateHasRow, IntakeTypeOK, JobTypeOK
<1> QED
  BY <1>1, IntakeHolds, PTL

\* No file without a row, a request or a deletion, except after a restart or
\* one of the failures named in FilesAccounted, which leave it; and no row
\* without its file, except after a lost answer (upload_resume,
\* bulk_upload_resumes, upload_question_bank, delete_candidate).
THEOREM FilesAlwaysAccounted == IntakeSpec => []FilesAccounted
<1>1. IntakeInv => FilesAccounted
  BY DEF IntakeInv, UploadInv
<1> QED
  BY <1>1, IntakeHolds, PTL

\* Applicants are told what is so, however many upload at once.
THEOREM AnswersAlwaysTrue == IntakeSpec => []AnswersAreTrue
<1>1. IntakeInv => AnswersAreTrue
  BY DEF IntakeInv, UploadInv
<1> QED
  BY <1>1, IntakeHolds, PTL

\* The candidate's row agrees with its matches.
THEOREM BestAlwaysAgrees == IntakeSpec => []BestAgreesWithRows
<1>1. IntakeInv => BestAgreesWithRows
  BY DEF IntakeInv, JobInv
<1> QED
  BY <1>1, IntakeHolds, PTL

-----------------------------------------------------------------------------
\* What a step may do to the matches

\* The actions of the whole that write matches are those of matching, of
\* reviewing, of an application and of a deletion.
LEMMA WhoWritesMatches ==
  ASSUME IntakeInv, IntakeNext
  PROVE  \/ match' = match
         \/ \E j \in Jobs, scope \in Scopes : ConfirmMatch(j, scope) \/ RejectMatch(j, scope)
         \/ \E m \in Runs : \E score \in [DOMAIN run[m].seen -> Scores] : StoreMatches(m, score)
         \/ run' = run /\ (~candidate.exists \/ ~candidate'.exists)
<1>1. ASSUME NEW u \in cast.uploads, Uploading(u) PROVE match' = match \/ (run' = run /\ ~candidate.exists)
  <2>1. ASSUME NEW score, Accept(u, score) PROVE match' = match \/ (run' = run /\ ~candidate.exists)
    BY <2>1 DEF Accept, Apply, jobVars
  <2> QED
    BY <1>1, <2>1 DEF Uploading, PickPosting, UploadBank, Prepare, Collide, jobVars
<1>2. ASSUME NEW u \in cast.uploads, EditCandidate(u) PROVE match' = match
  BY <1>2 DEF EditCandidate, TouchCandidate, jobVars
<1>3. ASSUME NEW u \in cast.uploads, Delete(u) PROVE match' = match \/ (run' = run /\ ~candidate'.exists)
  BY <1>3 DEF Delete, DropCandidate, NoCandidate, jobVars
<1>4. ASSUME NEW u \in cast.uploads, Clear(u) PROVE match' = match
  BY <1>4 DEF Clear, jobVars
<1>5. ASSUME NEW j \in Jobs, PostingStep(j) PROVE match' = match
  BY <1>5 DEF PostingStep, CreatePosting, UpdatePosting, DeletePosting, Expire
<1>6. ASSUME NEW m \in Runs, MatchStep(m)
      PROVE  match' = match \/ \E score \in [DOMAIN run[m].seen -> Scores] : StoreMatches(m, score)
  BY <1>6 DEF MatchStep, ReadForMatching, GiveUpMatching
<1>7. CASE JobStep
  <2>1. cast.jobs \subseteq Jobs /\ cast.runs \subseteq Runs
    BY CastMembers DEF IntakeInv
  <2>2. CASE \E j \in cast.jobs : PostingStep(j)
    BY <2>1, <2>2, <1>5
  <2>3. CASE \E j \in Jobs : ReviewStep(j)
    BY <2>3 DEF ReviewStep
  <2>4. CASE \E m \in cast.runs : MatchStep(m)
    BY <2>1, <2>4, <1>6
  <2> QED
    BY <1>7, <2>2, <2>3, <2>4 DEF JobStep
<1>8. CASE Crash
  BY <1>8 DEF Crash, RestartMatching
<1> QED
  BY <1>1, <1>2, <1>3, <1>4, <1>7, <1>8 DEF IntakeNext

LEMMA DecisionsStandStep ==
  ASSUME IntakeInv, IntakeNext, candidate'.exists,
         NEW j \in Jobs, match[j].status \in {"confirmed", "rejected"}
  PROVE  match'[j].status \in {"confirmed", "rejected"}
<1> USE DEF IntakeInv, JobInv, TablesTyped
<1>1. candidate.exists
  BY DEF NoneWithoutRow, NoMatch
<1>2. ASSUME NEW k \in Jobs, NEW scope \in Scopes, ConfirmMatch(k, scope) \/ RejectMatch(k, scope)
      PROVE  match'[j].status \in {"confirmed", "rejected"}
  <2>1. match' = [match EXCEPT ![k].status = "confirmed"] \/ match' = [match EXCEPT ![k].status = "rejected"]
    BY <1>2 DEF ConfirmMatch, RejectMatch
  <2>2. match[k] \in Matches /\ match[j] \in Matches
    OBVIOUS
  <2> QED
    BY <2>1, <2>2 DEF Matches
<1>3. ASSUME NEW m \in Runs, NEW score \in [DOMAIN run[m].seen -> Scores], StoreMatches(m, score)
      PROVE  match'[j].status \in {"confirmed", "rejected"}
  <2>1. match' = Stored(m, score)
    BY <1>3 DEF StoreMatches
  <2>2. j \in Matched
    BY DEF Matched
  <2> QED
    BY <2>1, <2>2 DEF Stored
<1> QED
  BY <1>1, <1>2, <1>3, WhoWritesMatches

LEMMA MatchesAreCurrentStep ==
  ASSUME IntakeInv, IntakeNext, NEW m \in Runs, NEW j \in Jobs,
         run[m] # run'[m], match[j] # match'[j], match'[j].status # "absent"
  PROVE  Open(j) /\ match'[j].of = posting[j].version /\ MayAccess(run[m].scope, posting[j].sector)
<1> USE DEF IntakeInv, JobInv, RunsTyped
<1>1. PICK n \in Runs : \E score \in [DOMAIN run[n].seen -> Scores] : StoreMatches(n, score)
  BY WhoWritesMatches DEF ConfirmMatch, RejectMatch
<1>2. PICK score \in [DOMAIN run[n].seen -> Scores] : StoreMatches(n, score)
  BY <1>1
<1>3. n = m /\ match' = Stored(m, score) /\ Unchanged(m)
  BY <1>2 DEF StoreMatches
<1>4. j \in DOMAIN run[m].seen
  BY <1>2, <1>3 DEF Stored, NoMatch
<1>5. Open(j) /\ posting[j].version = run[m].seen[j] /\ match'[j].of = run[m].seen[j]
  BY <1>2, <1>3, <1>4 DEF Unchanged, Stored
<1> QED
  BY <1>4, <1>5 DEF ScopesHold

\* No matching takes back what a recruiter decided.
THEOREM DecisionsAlwaysStand == IntakeSpec => DecisionsStand
<1>1. IntakeInv /\ [IntakeNext]_intakeVars =>
        [\A j \in Jobs :
           match[j].status \in {"confirmed", "rejected"} /\ candidate'.exists =>
             match'[j].status \in {"confirmed", "rejected"}]_jobVars
  BY DecisionsStandStep DEF intakeVars, jobVars
<1> QED
  BY <1>1, IntakeHolds, PTL DEF IntakeSpec, DecisionsStand

\* A matching stores only what is current, and within its requester's sector.
THEOREM MatchesAlwaysCurrent == IntakeSpec => MatchesAreCurrent
<1>1. IntakeInv /\ [IntakeNext]_intakeVars =>
        [\A m \in Runs, j \in Jobs :
           run[m] # run'[m] /\ match[j] # match'[j] /\ match'[j].status # "absent" =>
             /\ Open(j) /\ match'[j].of = posting[j].version
             /\ MayAccess(run[m].scope, posting[j].sector)]_jobVars
  BY MatchesAreCurrentStep DEF intakeVars, jobVars
<1> QED
  BY <1>1, IntakeHolds, PTL DEF IntakeSpec, MatchesAreCurrent

-----------------------------------------------------------------------------
\* The choice of the best job

\* The jobs a matching may name after it stored its scores: those it saw and
\* nobody rejected.
Choice(score) == {j \in DOMAIN score : match'[j].status # "rejected"}

\* A matching names the first of its choice by its own scores.
LEMMA StoreNamesTheFirst ==
  ASSUME IntakeInv, NEW m \in Runs, NEW score \in [DOMAIN run[m].seen -> Scores],
         StoreMatches(m, score), Choice(score) # {}
  PROVE  /\ First(candidate'.best, Choice(score), score)
         /\ candidate'.score = score[candidate'.best]
<1> DEFINE best == Best(Choice(score), score)
<1>1. DOMAIN score \subseteq Jobs /\ \A j \in DOMAIN score : score[j] \in Scores
  BY DEF IntakeInv, JobInv, RunsTyped
<1>2. Choice(score) \in SUBSET Jobs /\ \A j \in Choice(score) : score[j] \in Scores
  BY <1>1 DEF Choice
<1>3. First(best, Choice(score), score)
  BY <1>2, BestComesFirst
<1>4. best \in Jobs /\ best # NoJob
  BY <1>2, <1>3, JobAssumption DEF First
<1>5. candidate \in Candidates
  BY DEF IntakeInv, JobInv, TablesTyped
<1>6. candidate' = [candidate EXCEPT !.best = best, !.version = stamp + 1,
                                     !.score = IF best = NoJob THEN 0 ELSE score[best]]
  BY DEF StoreMatches, Choice
<1> HIDE DEF best
<1>7. candidate'.best = best /\ candidate'.score = score[best]
  BY <1>4, <1>5, <1>6 DEF Candidates
<1> QED
  BY <1>3, <1>7

\* The jobs a rejection may move the candidate to: the other matches nobody
\* rejected, of open postings in the recruiter's scope.
Left(j, scope) ==
    {k \in Matched \ {j} : /\ match[k].status # "rejected" /\ Open(k)
                            /\ MayAccess(scope, posting[k].sector)}

StoredScores == [k \in Jobs |-> match[k].score]

\* A rejection moves the candidate to the first of what is left.
LEMMA RejectNamesTheFirst ==
  ASSUME IntakeInv, NEW j \in Jobs, NEW scope \in Scopes, RejectMatch(j, scope), candidate.best = j
  PROVE  IF Left(j, scope) = {} THEN candidate'.best = NoJob
         ELSE First(candidate'.best, Left(j, scope), StoredScores)
<1> DEFINE next == Best(Left(j, scope), StoredScores)
<1>1. Left(j, scope) \in SUBSET Jobs
  BY DEF Left, Matched
<1>2. \A k \in Left(j, scope) : StoredScores[k] \in Scores
  BY <1>1 DEF StoredScores, IntakeInv, JobInv, TablesTyped, Matches
<1>3. IF Left(j, scope) = {} THEN next = NoJob ELSE First(next, Left(j, scope), StoredScores)
  BY <1>1, <1>2, BestComesFirst
<1>4. candidate \in Candidates
  BY DEF IntakeInv, JobInv, TablesTyped
<1>5. candidate'.best = next
  <2> DEFINE sector == IF next = NoJob \/ posting[next].sector = Everywhere THEN candidate.sector
                       ELSE posting[next].sector
  <2>1. candidate' = [candidate EXCEPT
                        !.best = next, !.version = stamp + 1,
                        !.score = IF next = NoJob THEN 0 ELSE StoredScores[next],
                        !.sector = sector]
    BY DEF RejectMatch, Left, StoredScores
  <2> HIDE DEF next, sector
  <2> QED
    BY <2>1, <1>4 DEF Candidates
<1> HIDE DEF next
<1> QED
  BY <1>3, <1>5

BestIsNamed ==
    /\ \A m \in Runs : \A score \in [DOMAIN run[m].seen -> Scores] :
         StoreMatches(m, score) /\ Choice(score) # {} =>
           /\ First(candidate'.best, Choice(score), score)
           /\ candidate'.score = score[candidate'.best]
    /\ \A j \in Jobs, scope \in Scopes :
         RejectMatch(j, scope) /\ candidate.best = j =>
           IF Left(j, scope) = {} THEN candidate'.best = NoJob
           ELSE First(candidate'.best, Left(j, scope), StoredScores)

\* The job a candidate is given is the best there is: a matching names the
\* first, by score and then by id, of the jobs it saw that no recruiter
\* rejected, with the score it stored for it, and the rejection of that job
\* names the first of those left (match_candidate_to_jobs_endpoint,
\* review_candidate_match).
THEOREM TheBestJobIsNamed == IntakeSpec => [][BestIsNamed]_jobVars
<1>1. IntakeInv => BestIsNamed
  BY StoreNamesTheFirst, RejectNamesTheFirst DEF BestIsNamed
<1>2. IntakeInv /\ [IntakeNext]_intakeVars => [BestIsNamed]_jobVars
  BY <1>1
<1> QED
  BY <1>2, IntakeHolds, PTL DEF IntakeSpec
=============================================================================
