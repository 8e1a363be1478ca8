-------------------------- MODULE ProctoringProofs --------------------------
(***************************************************************************)
(* Proofs that rows and pictures of an assessment account for each other,  *)
(* for any number of overlapping reports, pictures, quota and deletions.   *)
(*                                                                         *)
(* The invariant adds to the two properties what makes them inductive: the *)
(* picture of a report under way is in the directory, is named by no other *)
(* report, by no row and by no deletion; one report at a time holds the    *)
(* assessment's row, so what it counted is still what there is, and its    *)
(* own; and what a running deletion has not read is known to stay behind.  *)
(***************************************************************************)
EXTENDS Proctoring, FiniteSetTheorems, TLAPS

-----------------------------------------------------------------------------
\* The inductive invariant

\* The picture of a report under way is that report's alone.
OwnPictures ==
    /\ \A p \in Pages : report[p].at # "saved" /\ ~Holding(p) => report[p].file = NoFile
    /\ \A p \in Pages : report[p].file # NoFile =>
         report[p].file \in files /\ report[p].file \notin filed \cup deletion.paths
    /\ \A p, q \in Pages : p # q /\ report[p].file = report[q].file => report[p].file = NoFile

\* The number a report has counted, its own row included
Counted(p) ==
    /\ report[p].total = Cardinality(filed \cup Pictures(report[p].file)) + bare
                           + BareOf(report[p].file)
    /\ bare + BareOf(report[p].file) <= MaxBare

\* One report holds the row, there is an assessment meanwhile, and nothing has
\* changed since it counted.
HolderCounts ==
    /\ \A p, q \in Pages : Holding(p) /\ Holding(q) => p = q
    /\ \A p \in Pages : Holding(p) => status # "deleted"
    /\ \A p \in Pages : report[p].at = "counted" => Counted(p)

\* What a deletion has read and what it has not
Deleting ==
    /\ files \cup filed \cup deletion.paths \subseteq written
    /\ status = "deleted" => filed = {} /\ bare = 0
    /\ deletion.at = "removing" => status = "deleted"
    /\ deletion.at = "reading" => files \cap filed \subseteq deletion.paths \cup stray

\* The pictures a deletion is about to remove
Leaving == IF deletion.at = "removing" THEN deletion.paths ELSE {}

\* EvidenceAccounted, with the pictures under way spelt out
PicturesAccounted ==
    /\ Cardinality(files) <= Quota
    /\ \A f \in files : f \in filed \cup stray \cup Leaving
                          \/ (f # NoFile /\ \E p \in Pages : report[p].file = f)
    /\ filed \subseteq files \cup missing

EvidenceInv ==
    ProctoringTypeOK /\ CountMatchesRows /\ HolderCounts
    /\ PicturesAccounted /\ OwnPictures /\ Deleting

LEMMA Numbers == Quota \in Nat /\ MaxBare \in Nat /\ IsFiniteSet(Files) /\ NoFile \notin Files
BY ProctoringAssumption

\* Sets of pictures are counted.
LEMMA PicturesCounted ==
  ASSUME NEW S \in SUBSET Files
  PROVE  /\ IsFiniteSet(S) /\ Cardinality(S) \in Nat /\ Cardinality(Files) \in Nat
         /\ Cardinality(S) <= Cardinality(Files)
         /\ \A f : Cardinality(S \ {f}) <= Cardinality(S)
         /\ \A f \in Files \ S : Cardinality(S \cup {f}) = Cardinality(S) + 1
<1>1. IsFiniteSet(Files)
  BY Numbers
<1>2. IsFiniteSet(S) /\ Cardinality(S) <= Cardinality(Files)
  BY <1>1, FS_Subset
<1>3. Cardinality(S) \in Nat /\ Cardinality(Files) \in Nat
  BY <1>1, <1>2, FS_CardinalityType
<1>4. ASSUME NEW f PROVE Cardinality(S \ {f}) <= Cardinality(S)
  <2>1. S \ {f} \subseteq S
    OBVIOUS
  <2> QED
    BY <1>2, <2>1, FS_Subset
<1>5. ASSUME NEW f \in Files \ S PROVE Cardinality(S \cup {f}) = Cardinality(S) + 1
  BY <1>2, FS_AddElement
<1> QED
  BY <1>2, <1>3, <1>4, <1>5

LEMMA Accounted == ProctoringTypeOK => (PicturesAccounted <=> EvidenceAccounted)
<1> SUFFICES ASSUME ProctoringTypeOK PROVE PicturesAccounted <=> EvidenceAccounted
  OBVIOUS
<1>1. \A f : f \in InFlight <=> f # NoFile /\ \E p \in Pages : report[p].file = f
  BY DEF InFlight
<1> QED
  BY <1>1 DEF PicturesAccounted, EvidenceAccounted, Leaving

LEMMA EvidenceInvInit == ProctoringInit => EvidenceInv
<1> SUFFICES ASSUME ProctoringInit PROVE EvidenceInv
  OBVIOUS
<1>1. Cardinality({}) = 0 /\ Cardinality(Files) \in Nat
  BY PicturesCounted, FS_EmptySet
<1>2. ProctoringTypeOK
  BY <1>1, Numbers DEF ProctoringInit, ProctoringTypeOK, Idle, ReportRecords
<1>3. CountMatchesRows /\ PicturesAccounted
  BY <1>1, Numbers DEF ProctoringInit, CountMatchesRows, PicturesAccounted, Leaving
<1>4. OwnPictures /\ HolderCounts /\ Deleting
  BY DEF ProctoringInit, OwnPictures, HolderCounts, Holding, Deleting, Idle
<1> QED
  BY <1>2, <1>3, <1>4 DEF EvidenceInv

-----------------------------------------------------------------------------
\* The steps

\* A step of one report changes that report only.
LEMMA OneReport ==
  ASSUME ProctoringTypeOK, NEW p \in Pages,
         NEW step \in {"idle", "checked", "saved", "locked", "counted"},
         NEW f \in Files \cup {NoFile}, At(p, step, f)
  PROVE  /\ report' \in [Pages -> ReportRecords]
         /\ report'[p].at = step /\ report'[p].file = f
         /\ \A q \in Pages \ {p} : report'[q] = report[q]
<1>1. Cardinality(Files) \in Nat
  BY PicturesCounted
<1>2. [at |-> step, file |-> f, total |-> 0] \in ReportRecords
  BY <1>1, Numbers DEF ReportRecords
<1> QED
  BY <1>2 DEF ProctoringTypeOK, At

\* A report that does not hold the row leaves whoever does in peace.
LEMMA OthersCount ==
  ASSUME EvidenceInv, NEW p \in Pages, UNCHANGED <<status, filed, bare>>,
         ~Holding(p)', \A q \in Pages \ {p} : report'[q] = report[q]
  PROVE  HolderCounts'
<1>1. \A q \in Pages : Holding(q)' => Holding(q) /\ report'[q] = report[q]
  BY DEF Holding
<1>2. \A q \in Pages : report'[q].at = "counted" => Holding(q)'
  BY DEF Holding
<1> QED
  BY <1>1, <1>2 DEF EvidenceInv, HolderCounts, Counted

\* What a report publishes, and that nobody else was counting
LEMMA NewRow ==
  ASSUME EvidenceInv, NEW p \in Pages, report[p].at = "counted", Publish(p),
         ~Holding(p)', \A q \in Pages \ {p} : report'[q] = report[q]
  PROVE  /\ filed' \in SUBSET Files /\ bare' \in 0 .. MaxBare
         /\ count' \in 0 .. Cardinality(Files) + MaxBare /\ CountMatchesRows' /\ HolderCounts'
         /\ filed' = filed \cup ({report[p].file} \ {NoFile}) /\ status # "deleted"
<1>1. report[p].file \in Files \cup {NoFile} /\ filed \in SUBSET Files /\ bare \in 0 .. MaxBare
  BY DEF EvidenceInv, ProctoringTypeOK, ReportRecords
<1>2. filed' \in SUBSET Files /\ filed' = filed \cup ({report[p].file} \ {NoFile})
  BY <1>1 DEF Publish, Pictures
<1>3. Counted(p) /\ Holding(p) /\ status # "deleted"
  BY DEF EvidenceInv, HolderCounts, Holding
<1>4. bare' \in 0 .. MaxBare
  BY <1>1, <1>3, Numbers DEF Publish, Counted, BareOf
<1>5. Cardinality(filed') \in Nat /\ Cardinality(Files) \in Nat /\ Cardinality(filed') <= Cardinality(Files)
  BY <1>2, PicturesCounted
<1>6. count' = Cardinality(filed') + bare'
  <2>1. BareOf(report[p].file) \in Nat
    BY DEF BareOf
  <2> QED
    BY <1>1, <1>3, <1>5, <2>1 DEF Publish, Counted
<1>7. count' \in 0 .. Cardinality(Files) + MaxBare
  BY <1>4, <1>5, <1>6, Numbers
<1>8. \A q \in Pages : ~Holding(q)'
  BY <1>3 DEF EvidenceInv, HolderCounts, Holding
<1>9. HolderCounts'
  BY <1>8 DEF HolderCounts, Holding
<1> QED
  BY <1>2, <1>3, <1>4, <1>6, <1>7, <1>9 DEF CountMatchesRows

\* A report on its way to the commit keeps its picture.
LEMMA HoldKeeps ==
  ASSUME EvidenceInv,
         UNCHANGED <<status, proctor, files, written, filed, bare, count, deletion, stray, missing>>,
         report' \in [Pages -> ReportRecords], HolderCounts',
         \A p \in Pages : /\ report'[p].file = report[p].file
                          /\ report'[p].at = report[p].at \/ Holding(p)'
  PROVE  EvidenceInv'
<1>1. ProctoringTypeOK' /\ CountMatchesRows' /\ PicturesAccounted' /\ Deleting'
  BY DEF EvidenceInv, ProctoringTypeOK, CountMatchesRows, PicturesAccounted, Leaving, Deleting
<1>2. OwnPictures'
  BY DEF EvidenceInv, OwnPictures, Holding
<1> QED
  BY <1>1, <1>2 DEF EvidenceInv

LEMMA LockRowKeeps ==
  ASSUME EvidenceInv, NEW p \in Pages, LockRow(p)
  PROVE  EvidenceInv'
<1>1. /\ report' \in [Pages -> ReportRecords]
      /\ report'[p].at = "locked" /\ report'[p].file = report[p].file
      /\ \A q \in Pages \ {p} : report'[q] = report[q]
  BY OneReport DEF LockRow, EvidenceInv, ProctoringTypeOK, ReportRecords
<1>2. \A q \in Pages : (Holding(q)' => q = p) /\ report'[q].at # "counted"
  BY <1>1 DEF LockRow, LockFree, Holding
<1>3. HolderCounts'
  BY <1>2 DEF LockRow, HolderCounts
<1> QED
  BY <1>1, <1>3, HoldKeeps DEF LockRow, Holding

LEMMA InsertAndCountKeeps ==
  ASSUME EvidenceInv, NEW p \in Pages, InsertAndCount(p)
  PROVE  EvidenceInv'
<1> DEFINE f == report[p].file
           total == Cardinality(filed \cup Pictures(f)) + bare + BareOf(f)
<1>0. report \in [Pages -> ReportRecords] /\ f \in Files \cup {NoFile}
      /\ filed \in SUBSET Files /\ bare \in 0 .. MaxBare
  BY DEF EvidenceInv, ProctoringTypeOK, ReportRecords
<1>1. total \in 0 .. Cardinality(Files) + MaxBare
  <2>1. filed \cup Pictures(f) \in SUBSET Files
    BY <1>0 DEF Pictures
  <2>2. /\ Cardinality(filed \cup Pictures(f)) \in Nat /\ Cardinality(Files) \in Nat
        /\ Cardinality(filed \cup Pictures(f)) <= Cardinality(Files)
    BY <2>1, PicturesCounted
  <2>3. BareOf(f) \in {0, 1} /\ bare + BareOf(f) <= MaxBare
    BY DEF BareOf, InsertAndCount
  <2> HIDE DEF f
  <2> QED
    BY <1>0, <2>2, <2>3, Numbers
<1>2. /\ report' \in [Pages -> ReportRecords]
      /\ report'[p].at = "counted" /\ report'[p].file = report[p].file
      /\ report'[p].total = total
      /\ \A q \in Pages \ {p} : report'[q] = report[q]
  <2> HIDE DEF total
  <2>1. report' = [report EXCEPT ![p].at = "counted", ![p].total = total]
    BY DEF InsertAndCount, total
  <2> QED
    BY <1>0, <1>1, <2>1 DEF ReportRecords
<1>3. Holding(p) /\ \A q \in Pages : Holding(q)' => Holding(q)
  BY <1>2 DEF InsertAndCount, Holding
<1>4. /\ \A q \in Pages : Holding(q)' => q = p
      /\ status # "deleted"
  BY <1>3 DEF EvidenceInv, HolderCounts
<1>5. Counted(p)'
  BY <1>2 DEF InsertAndCount, Counted
<1>6. HolderCounts'
  BY <1>4, <1>5 DEF InsertAndCount, HolderCounts, Holding
<1> QED
  BY <1>2, <1>6, HoldKeeps DEF InsertAndCount, Holding

LEMMA CheckReportKeeps ==
  ASSUME EvidenceInv, NEW p \in Pages, CheckReport(p)
  PROVE  EvidenceInv'
<1>0. ProctoringTypeOK /\ OwnPictures /\ Deleting /\ PicturesAccounted
  BY DEF EvidenceInv
<1>1. /\ report' \in [Pages -> ReportRecords]
      /\ report'[p].at = "checked" /\ report'[p].file = NoFile
      /\ \A q \in Pages \ {p} : report'[q] = report[q]
  BY <1>0, OneReport DEF CheckReport, Done
<1>2. /\ filed' = filed /\ CountMatchesRows'
      /\ count' \in 0 .. Cardinality(Files) + MaxBare /\ bare' \in 0 .. MaxBare
  BY DEF CheckReport, EvidenceInv, CountMatchesRows, ProctoringTypeOK
<1>3. files' = files /\ Cardinality(files') <= Quota
  BY <1>0 DEF CheckReport, PicturesAccounted
<1>4. ProctoringTypeOK'
  BY <1>0, <1>1, <1>2, <1>3 DEF CheckReport, ProctoringTypeOK
<1>5. OwnPictures'
  BY <1>0, <1>1, <1>2, Numbers DEF CheckReport, OwnPictures, Deleting, ProctoringTypeOK, Holding
<1>6. Deleting'
  BY <1>0, <1>1, <1>2, Numbers DEF CheckReport, OwnPictures, Deleting, ProctoringTypeOK
<1>7. PicturesAccounted'
  <2>1. Leaving' = Leaving
    BY DEF CheckReport, Leaving
  <2>2. \A f \in files' : f \in (filed \cup stray)' \cup Leaving
                             \/ (f # NoFile /\ \E q \in Pages : report'[q].file = f)
    BY <1>0, <1>1, <1>2, <2>1 DEF CheckReport, PicturesAccounted, OwnPictures, Deleting, Idle
  <2>3. (filed \subseteq files \cup missing)'
    BY <1>0, <1>1, <1>2, Numbers DEF CheckReport, PicturesAccounted, OwnPictures, Deleting, ProctoringTypeOK
  <2> QED
    BY <1>3, <2>1, <2>2, <2>3 DEF PicturesAccounted
<1>8. HolderCounts'
  BY <1>1, OthersCount DEF CheckReport, Holding
<1> QED
  BY <1>2, <1>4, <1>5, <1>6, <1>7, <1>8 DEF EvidenceInv

LEMMA WriteScreenshotKeeps ==
  ASSUME EvidenceInv, NEW p \in Pages, NEW f \in Files, WriteScreenshot(p, f)
  PROVE  EvidenceInv'
<1>0. ProctoringTypeOK /\ OwnPictures /\ Deleting /\ PicturesAccounted
  BY DEF EvidenceInv
<1>1. /\ report' \in [Pages -> ReportRecords]
      /\ report'[p].at = "saved" /\ report'[p].file = f
      /\ \A q \in Pages \ {p} : report'[q] = report[q]
  BY <1>0, OneReport DEF WriteScreenshot, Done
<1>2. /\ filed' = filed /\ CountMatchesRows'
      /\ count' \in 0 .. Cardinality(Files) + MaxBare /\ bare' \in 0 .. MaxBare
  BY DEF WriteScreenshot, EvidenceInv, CountMatchesRows, ProctoringTypeOK
<1>3. Cardinality(files') <= Quota
  <2>1. f \in Files \ files /\ files' = files \cup {f} /\ files \in SUBSET Files
    BY <1>0 DEF WriteScreenshot, ProctoringTypeOK, Deleting
  <2>2. Cardinality(files') = Cardinality(files) + 1 /\ Cardinality(files) \in Nat
    BY <2>1, PicturesCounted
  <2> QED
    BY <2>2, Numbers DEF WriteScreenshot
<1>4. ProctoringTypeOK'
  BY <1>0, <1>1, <1>2, <1>3 DEF WriteScreenshot, ProctoringTypeOK
<1>5. OwnPictures'
  BY <1>0, <1>1, <1>2, Numbers DEF WriteScreenshot, OwnPictures, Deleting, ProctoringTypeOK, Holding
<1>6. Deleting'
  BY <1>0, <1>1, <1>2, Numbers DEF WriteScreenshot, OwnPictures, Deleting, ProctoringTypeOK
<1>7. PicturesAccounted'
  <2>1. Leaving' = Leaving
    BY DEF WriteScreenshot, Leaving
  <2>2. \A g \in files' : g \in (filed \cup stray)' \cup Leaving
                             \/ (g # NoFile /\ \E q \in Pages : report'[q].file = g)
    BY <1>0, <1>1, <1>2, <2>1, Numbers DEF WriteScreenshot, PicturesAccounted, OwnPictures, Deleting, Holding
  <2>3. (filed \subseteq files \cup missing)'
    BY <1>0, <1>1, <1>2, Numbers DEF WriteScreenshot, PicturesAccounted, OwnPictures, Deleting, ProctoringTypeOK
  <2> QED
    BY <1>3, <2>1, <2>2, <2>3 DEF PicturesAccounted
<1>8. HolderCounts'
  BY <1>1, OthersCount DEF WriteScreenshot, Holding
<1> QED
  BY <1>2, <1>4, <1>5, <1>6, <1>7, <1>8 DEF EvidenceInv

LEMMA GoWithoutKeeps ==
  ASSUME EvidenceInv, NEW p \in Pages, GoWithout(p)
  PROVE  EvidenceInv'
<1>0. ProctoringTypeOK /\ OwnPictures /\ Deleting /\ PicturesAccounted
  BY DEF EvidenceInv
<1>1. /\ report' \in [Pages -> ReportRecords]
      /\ report'[p].at = "saved" /\ report'[p].file = NoFile
      /\ \A q \in Pages \ {p} : report'[q] = report[q]
  BY <1>0, OneReport DEF GoWithout, Done
<1>2. /\ filed' = filed /\ CountMatchesRows'
      /\ count' \in 0 .. Cardinality(Files) + MaxBare /\ bare' \in 0 .. MaxBare
  BY DEF GoWithout, EvidenceInv, CountMatchesRows, ProctoringTypeOK
<1>3. files' = files /\ Cardinality(files') <= Quota
  BY <1>0 DEF GoWithout, PicturesAccounted
<1>4. ProctoringTypeOK'
  BY <1>0, <1>1, <1>2, <1>3 DEF GoWithout, ProctoringTypeOK
<1>5. OwnPictures'
  BY <1>0, <1>1, <1>2, Numbers DEF GoWithout, OwnPictures, Deleting, ProctoringTypeOK, Holding
<1>6. Deleting'
  BY <1>0, <1>1, <1>2, Numbers DEF GoWithout, OwnPictures, Deleting, ProctoringTypeOK
<1>7. PicturesAccounted'
  <2>1. Leaving' = Leaving
    BY DEF GoWithout, Leaving
  <2>2. \A f \in files' : f \in (filed \cup stray)' \cup Leaving
                             \/ (f # NoFile /\ \E q \in Pages : report'[q].file = f)
    BY <1>0, <1>1, <1>2, <2>1 DEF GoWithout, PicturesAccounted, OwnPictures, Deleting, Holding
  <2>3. (filed \subseteq files \cup missing)'
    BY <1>0, <1>1, <1>2, Numbers DEF GoWithout, PicturesAccounted, OwnPictures, Deleting, ProctoringTypeOK
  <2> QED
    BY <1>3, <2>1, <2>2, <2>3 DEF PicturesAccounted
<1>8. HolderCounts'
  BY <1>1, OthersCount DEF GoWithout, Holding
<1> QED
  BY <1>2, <1>4, <1>5, <1>6, <1>7, <1>8 DEF EvidenceInv

LEMMA CommitRecordKeeps ==
  ASSUME EvidenceInv, NEW p \in Pages, CommitRecord(p)
  PROVE  EvidenceInv'
<1>0. ProctoringTypeOK /\ OwnPictures /\ Deleting /\ PicturesAccounted
  BY DEF EvidenceInv
<1>1. /\ report' \in [Pages -> ReportRecords]
      /\ report'[p].at = "idle" /\ report'[p].file = NoFile
      /\ \A q \in Pages \ {p} : report'[q] = report[q]
  BY <1>0, OneReport DEF CommitRecord, Done
<1>2. /\ filed' \in SUBSET Files /\ bare' \in 0 .. MaxBare
      /\ count' \in 0 .. Cardinality(Files) + MaxBare /\ CountMatchesRows' /\ HolderCounts'
      /\ filed' = filed \cup ({report[p].file} \ {NoFile}) /\ status # "deleted"
  BY <1>1, NewRow DEF CommitRecord, Holding
<1>3. files' = files /\ Cardinality(files') <= Quota
  BY <1>0 DEF CommitRecord, PicturesAccounted
<1>4. ProctoringTypeOK'
  BY <1>0, <1>1, <1>2, <1>3 DEF CommitRecord, ProctoringTypeOK, ReportRecords, Pictures
<1>5. OwnPictures'
  BY <1>0, <1>1, <1>2, Numbers DEF CommitRecord, OwnPictures, Deleting, ProctoringTypeOK, Holding
<1>6. Deleting'
  BY <1>0, <1>1, <1>2, Numbers DEF CommitRecord, OwnPictures, Deleting, ProctoringTypeOK, Pictures
<1>7. PicturesAccounted'
  <2>1. Leaving' = Leaving
    BY DEF CommitRecord, Leaving
  <2>2. \A f \in files' : f \in (filed \cup stray)' \cup Leaving
                             \/ (f # NoFile /\ \E q \in Pages : report'[q].file = f)
    BY <1>0, <1>1, <1>2, <2>1 DEF CommitRecord, PicturesAccounted, OwnPictures, Deleting, Idle, Pictures
  <2>3. (filed \subseteq files \cup missing)'
    BY <1>0, <1>1, <1>2, Numbers DEF CommitRecord, PicturesAccounted, OwnPictures, Deleting, ProctoringTypeOK, Pictures
  <2> QED
    BY <1>3, <2>1, <2>2, <2>3 DEF PicturesAccounted
<1> QED
  BY <1>2, <1>4, <1>5, <1>6, <1>7 DEF EvidenceInv

LEMMA FailRecordKeeps ==
  ASSUME EvidenceInv, NEW p \in Pages, FailRecord(p)
  PROVE  EvidenceInv'
<1>0. ProctoringTypeOK /\ OwnPictures /\ Deleting /\ PicturesAccounted
  BY DEF EvidenceInv
<1>1. /\ report' \in [Pages -> ReportRecords]
      /\ report'[p].at = "idle" /\ report'[p].file = NoFile
      /\ \A q \in Pages \ {p} : report'[q] = report[q]
  BY <1>0, OneReport DEF FailRecord, Done
<1>2. /\ filed' = filed /\ CountMatchesRows'
      /\ count' \in 0 .. Cardinality(Files) + MaxBare /\ bare' \in 0 .. MaxBare
  BY DEF FailRecord, EvidenceInv, CountMatchesRows, ProctoringTypeOK
<1>3. Cardinality(files') <= Quota
  <2>1. files' = files \ {report[p].file} /\ files \in SUBSET Files
    BY <1>0 DEF FailRecord, ProctoringTypeOK
  <2>2. Cardinality(files') <= Cardinality(files) /\ Cardinality(files) <= Quota
    BY <1>0, <2>1, PicturesCounted DEF PicturesAccounted
  <2>3. Cardinality(files') \in Nat /\ Cardinality(files) \in Nat
    BY <2>1, PicturesCounted
  <2> QED
    BY <2>2, <2>3, Numbers
<1>4. ProctoringTypeOK'
  BY <1>0, <1>1, <1>2, <1>3 DEF FailRecord, ProctoringTypeOK, ReportRecords, Pictures
<1>5. OwnPictures'
  BY <1>0, <1>1, <1>2, Numbers DEF FailRecord, OwnPictures, Deleting, ProctoringTypeOK, Holding
<1>6. Deleting'
  BY <1>0, <1>1, <1>2, Numbers DEF FailRecord, OwnPictures, Deleting, ProctoringTypeOK
<1>7. PicturesAccounted'
  <2>1. Leaving' = Leaving
    BY DEF FailRecord, Leaving
  <2>2. \A f \in files' : f \in (filed \cup stray)' \cup Leaving
                             \/ (f # NoFile /\ \E q \in Pages : report'[q].file = f)
    BY <1>0, <1>1, <1>2, <2>1 DEF FailRecord, PicturesAccounted, OwnPictures, Deleting, Idle
  <2>3. (filed \subseteq files \cup missing)'
    BY <1>0, <1>1, <1>2, Numbers DEF FailRecord, PicturesAccounted, OwnPictures, Deleting, ProctoringTypeOK
  <2> QED
    BY <1>3, <2>1, <2>2, <2>3 DEF PicturesAccounted
<1>8. HolderCounts'
  BY <1>1, OthersCount DEF FailRecord, Holding
<1> QED
  BY <1>2, <1>4, <1>5, <1>6, <1>7, <1>8 DEF EvidenceInv

LEMMA LoseAnswerKeeps ==
  ASSUME EvidenceInv, NEW p \in Pages, LoseAnswer(p)
  PROVE  EvidenceInv'
<1>0. ProctoringTypeOK /\ OwnPictures /\ Deleting /\ PicturesAccounted
  BY DEF EvidenceInv
<1>1. /\ report' \in [Pages -> ReportRecords]
      /\ report'[p].at = "idle" /\ report'[p].file = NoFile
      /\ \A q \in Pages \ {p} : report'[q] = report[q]
  BY <1>0, OneReport DEF LoseAnswer, Done
<1>2. /\ filed' \in SUBSET Files /\ bare' \in 0 .. MaxBare
      /\ count' \in 0 .. Cardinality(Files) + MaxBare /\ CountMatchesRows' /\ HolderCounts'
      /\ filed' = filed \cup ({report[p].file} \ {NoFile}) /\ status # "deleted"
  BY <1>1, NewRow DEF LoseAnswer, Holding
<1>3. Cardinality(files') <= Quota
  <2>1. files' = files \ {report[p].file} /\ files \in SUBSET Files
    BY <1>0 DEF LoseAnswer, ProctoringTypeOK
  <2>2. Cardinality(files') <= Cardinality(files) /\ Cardinality(files) <= Quota
    BY <1>0, <2>1, PicturesCounted DEF PicturesAccounted
  <2>3. Cardinality(files') \in Nat /\ Cardinality(files) \in Nat
    BY <2>1, PicturesCounted
  <2> QED
    BY <2>2, <2>3, Numbers
<1>4. ProctoringTypeOK'
  BY <1>0, <1>1, <1>2, <1>3 DEF LoseAnswer, ProctoringTypeOK, ReportRecords, Pictures
<1>5. OwnPictures'
  BY <1>0, <1>1, <1>2, Numbers DEF LoseAnswer, OwnPictures, Deleting, ProctoringTypeOK, Holding
<1>6. Deleting'
  BY <1>0, <1>1, <1>2, Numbers DEF LoseAnswer, OwnPictures, Deleting, ProctoringTypeOK, Pictures
<1>7. PicturesAccounted'
  <2>1. Leaving' = Leaving
    BY DEF LoseAnswer, Leaving
  <2>2. \A f \in files' : f \in (filed \cup stray)' \cup Leaving
                             \/ (f # NoFile /\ \E q \in Pages : report'[q].file = f)
    BY <1>0, <1>1, <1>2, <2>1 DEF LoseAnswer, PicturesAccounted, OwnPictures, Deleting, Idle, Pictures
  <2>3. (filed \subseteq files \cup missing)'
    BY <1>0, <1>1, <1>2, Numbers DEF LoseAnswer, PicturesAccounted, OwnPictures, Deleting, ProctoringTypeOK, Pictures
  <2> QED
    BY <1>3, <2>1, <2>2, <2>3 DEF PicturesAccounted
<1> QED
  BY <1>2, <1>4, <1>5, <1>6, <1>7 DEF EvidenceInv

\* Steps that touch neither rows nor pictures
LEMMA CourseKeeps ==
  ASSUME EvidenceInv, status' = status \/ (status # "deleted" /\ status' \in {"active", "completed"}),
         proctor' \in Proctors \cup {Unassigned}, UNCHANGED evidenceVars
  PROVE  EvidenceInv'
<1>0. UNCHANGED <<report, files, written, filed, bare, count, deletion, stray, missing>>
  BY DEF evidenceVars
<1>1. ProctoringTypeOK'
  BY <1>0 DEF EvidenceInv, ProctoringTypeOK
<1>2. CountMatchesRows' /\ PicturesAccounted' /\ OwnPictures' /\ HolderCounts'
  BY <1>0 DEF EvidenceInv, CountMatchesRows, PicturesAccounted, Leaving, OwnPictures, HolderCounts,
     Holding, Counted
<1>3. Deleting'
  BY <1>0 DEF EvidenceInv, Deleting
<1> QED
  BY <1>1, <1>2, <1>3 DEF EvidenceInv

LEMMA ReadPathsKeeps ==
  ASSUME EvidenceInv, ReadPaths
  PROVE  EvidenceInv'
<1>0. ProctoringTypeOK /\ OwnPictures /\ Deleting /\ PicturesAccounted /\ CountMatchesRows /\ HolderCounts
  BY DEF EvidenceInv
<1>1. ProctoringTypeOK'
  BY <1>0 DEF ReadPaths, ProctoringTypeOK
<1>2. OwnPictures' /\ Deleting'
  BY <1>0 DEF ReadPaths, OwnPictures, Deleting, Holding
<1>3. PicturesAccounted' /\ CountMatchesRows' /\ HolderCounts'
  BY <1>0 DEF ReadPaths, PicturesAccounted, Leaving, CountMatchesRows, HolderCounts, Holding, Counted
<1> QED
  BY <1>1, <1>2, <1>3 DEF EvidenceInv

\* The rows of a deleted candidate are none.
LEMMA NoRows ==
  ASSUME RowsGone
  PROVE  /\ CountMatchesRows' /\ filed' = {} /\ status' = "deleted" /\ proctor' = Unassigned
         /\ count' \in 0 .. Cardinality(Files) + MaxBare /\ bare' \in 0 .. MaxBare
<1>1. Cardinality({}) = 0 /\ Cardinality(Files) \in Nat
  BY FS_EmptySet, PicturesCounted
<1> QED
  BY <1>1, Numbers DEF RowsGone, CountMatchesRows

\* Nobody holds the row when the rows go.
LEMMA NoHolder ==
  ASSUME LockFree, UNCHANGED report
  PROVE  HolderCounts'
BY DEF LockFree, HolderCounts, Holding

LEMMA DeleteRowsKeeps ==
  ASSUME EvidenceInv, DeleteRows
  PROVE  EvidenceInv'
<1>0. ProctoringTypeOK /\ OwnPictures /\ Deleting /\ PicturesAccounted
  BY DEF EvidenceInv
<1>1. /\ CountMatchesRows' /\ filed' = {} /\ status' = "deleted" /\ proctor' = Unassigned
      /\ count' \in 0 .. Cardinality(Files) + MaxBare /\ bare' \in 0 .. MaxBare
  BY NoRows DEF DeleteRows
<1>2. /\ deletion.at = "reading" /\ deletion'.at = "removing" /\ deletion'.paths = deletion.paths
      /\ deletion' \in [at : {"idle", "reading", "removing"}, paths : SUBSET Files]
  BY <1>0 DEF DeleteRows, ProctoringTypeOK
<1>3. ProctoringTypeOK'
  BY <1>0, <1>1, <1>2 DEF DeleteRows, ProctoringTypeOK
<1>4. OwnPictures'
  BY <1>0, <1>1, <1>2 DEF DeleteRows, OwnPictures, Holding
<1>5. Deleting'
  BY <1>0, <1>1, <1>2 DEF DeleteRows, RowsGone, Deleting
<1>6. PicturesAccounted'
  <2>1. Leaving' = deletion.paths /\ Leaving = {}
    BY <1>2 DEF Leaving
  <2> QED
    BY <1>0, <1>1, <2>1, <1>2 DEF PicturesAccounted, DeleteRows, Deleting
<1>7. HolderCounts'
  BY NoHolder DEF DeleteRows
<1> QED
  BY <1>1, <1>7, <1>3, <1>4, <1>5, <1>6 DEF EvidenceInv

LEMMA FailDeletionKeeps ==
  ASSUME EvidenceInv, FailDeletion
  PROVE  EvidenceInv'
<1>0. ProctoringTypeOK /\ OwnPictures /\ Deleting /\ PicturesAccounted
  BY DEF EvidenceInv
<1>1. /\ deletion.at = "reading" /\ deletion'.at = "idle" /\ deletion'.paths = {}
      /\ deletion' \in [at : {"idle", "reading", "removing"}, paths : SUBSET Files]
      /\ UNCHANGED <<report, files, written, missing>>
  BY DEF FailDeletion
<1>2. Leaving' = {} /\ Leaving = {}
  BY <1>1 DEF Leaving
<1>3. CASE UNCHANGED <<status, filed, bare, count, proctor, stray>>
  <2>1. ProctoringTypeOK' /\ CountMatchesRows' /\ HolderCounts'
    BY <1>0, <1>1, <1>3 DEF EvidenceInv, CountMatchesRows, ProctoringTypeOK, HolderCounts, Holding,
       Counted
  <2>2. OwnPictures' /\ Deleting'
    BY <1>0, <1>1, <1>3 DEF OwnPictures, Holding, Deleting
  <2>3. PicturesAccounted'
    BY <1>0, <1>1, <1>2, <1>3 DEF PicturesAccounted
  <2> QED
    BY <2>1, <2>2, <2>3 DEF EvidenceInv
<1>4. CASE LockFree /\ RowsGone /\ stray' = stray \cup deletion.paths
  <2>1. /\ CountMatchesRows' /\ filed' = {} /\ status' = "deleted" /\ proctor' = Unassigned
        /\ count' \in 0 .. Cardinality(Files) + MaxBare /\ bare' \in 0 .. MaxBare
    BY <1>4, NoRows
  <2>2. ProctoringTypeOK'
    BY <1>0, <1>1, <1>4, <2>1 DEF ProctoringTypeOK
  <2>3. OwnPictures' /\ Deleting'
    BY <1>0, <1>1, <1>4, <2>1 DEF OwnPictures, Holding, Deleting, RowsGone
  <2>4. PicturesAccounted'
    BY <1>0, <1>1, <1>2, <1>4, <2>1 DEF PicturesAccounted, Deleting
  <2>5. HolderCounts'
    BY <1>1, <1>4, NoHolder
  <2> QED
    BY <2>1, <2>2, <2>3, <2>4, <2>5 DEF EvidenceInv
<1> QED
  BY <1>3, <1>4 DEF FailDeletion

LEMMA RemovePicturesKeeps ==
  ASSUME EvidenceInv, RemovePictures
  PROVE  EvidenceInv'
<1>0. ProctoringTypeOK /\ OwnPictures /\ Deleting /\ PicturesAccounted /\ CountMatchesRows /\ HolderCounts
  BY DEF EvidenceInv
<1>1. /\ deletion.at = "removing" /\ deletion'.at = "idle" /\ deletion'.paths = {}
      /\ deletion' \in [at : {"idle", "reading", "removing"}, paths : SUBSET Files]
      /\ files' = files \ deletion.paths
      /\ UNCHANGED <<status, proctor, report, written, filed, bare, count, stray, missing>>
  BY DEF RemovePictures
<1>2. Leaving' = {} /\ Leaving = deletion.paths
  BY <1>1 DEF Leaving
<1>3. ProctoringTypeOK' /\ CountMatchesRows' /\ HolderCounts'
  BY <1>0, <1>1
     DEF CountMatchesRows, ProctoringTypeOK, HolderCounts, Holding, Counted
<1>4. OwnPictures' /\ Deleting'
  BY <1>0, <1>1 DEF OwnPictures, Holding, Deleting
<1>5. Cardinality(files') <= Quota
  <2>1. files' \subseteq files /\ files \in SUBSET Files /\ Cardinality(files) <= Quota
    BY <1>0, <1>1 DEF ProctoringTypeOK, PicturesAccounted
  <2>2. Cardinality(files') <= Cardinality(files) /\ Cardinality(files') \in Nat /\ Cardinality(files) \in Nat
    BY <2>1, PicturesCounted, FS_Subset
  <2> QED
    BY <2>1, <2>2, Numbers
<1>6. PicturesAccounted'
  BY <1>0, <1>1, <1>2, <1>5 DEF PicturesAccounted, Deleting
<1> QED
  BY <1>3, <1>4, <1>6 DEF EvidenceInv

LEMMA RestartProctoringKeeps ==
  ASSUME EvidenceInv, RestartProctoring
  PROVE  EvidenceInv'
<1>0. ProctoringTypeOK /\ OwnPictures /\ Deleting /\ PicturesAccounted /\ CountMatchesRows /\ HolderCounts
  BY DEF EvidenceInv
<1>1. /\ deletion'.at = "idle" /\ deletion'.paths = {}
      /\ deletion' \in [at : {"idle", "reading", "removing"}, paths : SUBSET Files]
      /\ report' \in [Pages -> ReportRecords]
      /\ \A p \in Pages : report'[p].at = "idle" /\ report'[p].file = NoFile
      /\ UNCHANGED <<status, proctor, files, written, filed, bare, count, missing>>
  BY PicturesCounted, Numbers DEF RestartProctoring, Idle, ReportRecords
<1>2. Leaving' = {} /\ stray' = stray \cup InFlight \cup Leaving
  BY <1>1 DEF Leaving, RestartProctoring
<1>3. InFlight \subseteq Files /\ Leaving \subseteq Files
  BY <1>0 DEF ProctoringTypeOK, ReportRecords, InFlight, Leaving
<1>4. ProctoringTypeOK' /\ CountMatchesRows' /\ HolderCounts'
  BY <1>0, <1>1, <1>2, <1>3
     DEF CountMatchesRows, ProctoringTypeOK, HolderCounts, Holding, Counted
<1>5. OwnPictures' /\ Deleting'
  BY <1>0, <1>1 DEF OwnPictures, Holding, Deleting
<1>6. PicturesAccounted'
  BY <1>0, <1>1, <1>2 DEF PicturesAccounted, InFlight
<1> QED
  BY <1>4, <1>5, <1>6 DEF EvidenceInv

-----------------------------------------------------------------------------
\* All steps together

ProctoringStep ==
    \/ \E p \in Pages : ReportStep(p)
    \/ Start \/ Finish \/ Deletion \/ RestartProctoring
    \/ \E u \in Proctors : Assign(u) \/ ProctorDeleted(u)

LEMMA EvidenceInvNext ==
  ASSUME EvidenceInv, ProctoringStep \/ UNCHANGED proctoringVars
  PROVE  EvidenceInv'
<1>1. ASSUME NEW p \in Pages, ReportStep(p) PROVE EvidenceInv'
  BY <1>1, CheckReportKeeps, WriteScreenshotKeeps, GoWithoutKeeps, LockRowKeeps, InsertAndCountKeeps,
     CommitRecordKeeps, FailRecordKeeps, LoseAnswerKeeps DEF ReportStep
<1>2. CASE Deletion
  BY <1>2, ReadPathsKeeps, DeleteRowsKeeps, FailDeletionKeeps, RemovePicturesKeeps DEF Deletion
<1>3. CASE Start \/ Finish \/ UNCHANGED proctoringVars
  <2>1. proctor' \in Proctors \cup {Unassigned} /\ UNCHANGED evidenceVars
    BY <1>3 DEF Start, Finish, proctoringVars, EvidenceInv, ProctoringTypeOK
  <2> QED
    BY <1>3, <2>1, CourseKeeps DEF Start, Finish, proctoringVars
<1>4. ASSUME NEW u \in Proctors, Assign(u) \/ ProctorDeleted(u) PROVE EvidenceInv'
  <2>1. proctor' \in Proctors \cup {Unassigned} /\ UNCHANGED evidenceVars /\ status' = status
    BY <1>4 DEF Assign, ProctorDeleted, EvidenceInv, ProctoringTypeOK
  <2> QED
    BY <2>1, CourseKeeps
<1> QED
  BY <1>1, <1>2, <1>3, <1>4, RestartProctoringKeeps DEF ProctoringStep
=============================================================================
