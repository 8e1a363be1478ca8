----------------------- MODULE AssessmentSessionProofs -----------------------
(***************************************************************************)
(* Proofs, for any number of pages, questions and sets and any time limit, *)
(* of the properties of AssessmentSession.                                 *)
(*                                                                         *)
(* The score needs only that completion ends every write.  The time needs  *)
(* what a request in flight may have read: a start read no more than has   *)
(* passed, and no request knows less than its page was told.  The marks    *)
(* and the snapshot need that only the prepared set is ever about to be    *)
(* stored, which is so while the schedule's row can be read, or that no    *)
(* start that found nothing stored is in flight once something is, which   *)
(* is so while requests come one after another.                            *)
(*                                                                         *)
(* Last, the session implements the candidate's part of AssessmentLifecycle*)
(* whatever overlaps and fails: that needs only that questions once stored *)
(* are never unstored.                                                     *)
(***************************************************************************)
EXTENDS SessionLifecycle, FiniteSetTheorems, TLAPS

-----------------------------------------------------------------------------
\* The inductive invariants

\* What the pages were told, and what their requests read, is not ahead of
\* the time, and a request does not know less than its page.
TimesOK ==
    \A p \in Pages :
      /\ left[p] >= Limit - Elapsed
      /\ status = "absent" => left[p] = Limit /\ req[p].op = "idle"
      /\ req[p].op = "starting" /\ ~req[p].resume => left[p] = Limit
      /\ req[p].op \in {"loading", "storing"}
           => req[p].spent <= Elapsed /\ left[p] >= Limit - req[p].spent
      /\ req[p].op = "syncing" => left[p] >= Limit - req[p].spent

IInv == TypeOK /\ ScoreIsOfTheRows /\ TimesOK

\* While the schedule's row can be read: only the prepared set is around, and
\* every mark, saved or about to be, is by it.
PreparedOK ==
    /\ snapshot \in {NoSet, Prepared}
    /\ \A p \in Pages :
         /\ req[p].op = "loading" => req[p].own \in {NoSet, Prepared}
         /\ req[p].op = "storing" => req[p].own = Prepared
         /\ req[p].op = "marking" =>
              /\ snapshot # NoSet
              /\ req[p].q \in DOMAIN Key[snapshot]
              /\ req[p].right = (req[p].chosen = Key[snapshot][req[p].q])

-----------------------------------------------------------------------------
\* The operators

LEMMA RequestFields ==
  ASSUME NEW r \in Requests
  PROVE  /\ r.op \in {"idle", "starting", "loading", "storing", "marking",
                      "syncing"}
         /\ r.op = "starting" => r.resume \in BOOLEAN
         /\ r.op = "loading" =>
              r.own \in Sets \cup {NoSet} /\ r.spent \in 0 .. Limit + 1
         /\ r.op = "storing" => r.own \in Sets /\ r.spent \in 0 .. Limit + 1
         /\ r.op = "marking" =>
              r.q \in Questions /\ r.chosen \in Options /\ r.right \in BOOLEAN
         /\ r.op = "syncing" => r.spent \in 0 .. Limit
BY DEF Requests, Idle

\* The tally of any rows is a natural number.
LEMMA TallyNat ==
  ASSUME snapshot \in Sets
  PROVE  Tally \in Nat
<1> DEFINE right == {q \in Questions : responses[q].right}
<1>1. Cardinality(right) \in Nat
  <2>1. right \subseteq Questions
    OBVIOUS
  <2> QED
    BY <2>1, QuestionsAssumption, FS_Subset, FS_CardinalityType
<1>2. Cardinality(DOMAIN Key[snapshot]) \in Nat
  BY QuestionsAssumption, SetsAssumption, FS_Subset, FS_CardinalityType
<1> QED
  BY <1>1, <1>2 DEF Tally

LEMMA ElapsedType ==
  ASSUME TypeOK
  PROVE  /\ Elapsed \in 0 .. Limit + 1
         /\ Elapsed >= elapsed /\ Elapsed >= clock
BY LimitAssumption DEF TypeOK, Elapsed, Later

LEMMA Initially == Init => IInv
<1> SUFFICES ASSUME Init PROVE IInv
  OBVIOUS
<1>1. TypeOK
  BY LimitAssumption DEF Init, TypeOK, Requests, Responses, Unanswered, Idle
<1>2. ScoreIsOfTheRows
  BY DEF Init, ScoreIsOfTheRows
<1>3. TimesOK
  BY LimitAssumption DEF Init, TimesOK, Elapsed, Later, Idle
<1> QED
  BY <1>1, <1>2, <1>3 DEF IInv

-----------------------------------------------------------------------------
\* Steps of one page

\* A step that gives page p the request r and tells it l, and takes no time
\* back, keeps the times if r and l are in order.
LEMMA PageTimes ==
  ASSUME TypeOK, TypeOK', TimesOK,
         Elapsed' >= Elapsed, status' = "absent" => status = "absent",
         NEW p \in Pages, NEW r, NEW l,
         req' = [req EXCEPT ![p] = r], left' = [left EXCEPT ![p] = l],
         l >= Limit - Elapsed',
         status' = "absent" => l = Limit /\ r.op = "idle",
         r.op = "starting" /\ ~r.resume => l = Limit,
         r.op \in {"loading", "storing"}
           => r.spent <= Elapsed /\ l >= Limit - r.spent,
         r.op = "syncing" => l >= Limit - r.spent
  PROVE  TimesOK'
<1>1. Elapsed \in Int /\ Elapsed' \in Int /\ Limit \in Int
  BY ElapsedType, LimitAssumption DEF TypeOK, Elapsed, Later
<1>2. req'[p] = r /\ left'[p] = l /\ l \in Int
  BY DEF TypeOK
<1> SUFFICES ASSUME NEW x \in Pages
             PROVE  /\ left'[x] >= Limit - Elapsed'
                    /\ status' = "absent"
                         => left'[x] = Limit /\ req'[x].op = "idle"
                    /\ req'[x].op = "starting" /\ ~req'[x].resume
                         => left'[x] = Limit
                    /\ req'[x].op \in {"loading", "storing"}
                         => /\ req'[x].spent <= Elapsed'
                            /\ left'[x] >= Limit - req'[x].spent
                    /\ req'[x].op = "syncing"
                         => left'[x] >= Limit - req'[x].spent
  BY DEF TimesOK
<1>3. CASE x = p
  <2>1. r.op \in {"loading", "storing"} => r.spent \in Int
    BY <1>2, RequestFields DEF TypeOK
  <2>2. req'[x] = r /\ left'[x] = l
    BY <1>2, <1>3
  <2>3. r.op \in {"loading", "storing"} => r.spent <= Elapsed'
    BY <1>1, <2>1
  <2> QED
    BY <2>2, <2>3
<1>4. CASE x # p
  <2>1. req'[x] = req[x] /\ left'[x] = left[x] /\ left[x] \in Int
    BY <1>4 DEF TypeOK
  <2>2. req[x].op \in {"loading", "storing"} => req[x].spent \in Int
    BY RequestFields DEF TypeOK
  <2> QED
    BY <1>1, <2>1, <2>2 DEF TimesOK
<1> QED
  BY <1>3, <1>4

LEMMA ScoreKept ==
  ASSUME ScoreIsOfTheRows, UNCHANGED <<responses, snapshot, score>>,
         status' = "completed" => status = "completed"
  PROVE  ScoreIsOfTheRows'
BY DEF ScoreIsOfTheRows, Tally

LEMMA StartKeeps ==
  ASSUME IInv, NEW p \in Pages, Start(p)
  PROVE  IInv'
<1> DEFINE r == [op |-> "starting", resume |-> status = "in_progress"]
<1> USE DEF IInv
<1>1. TypeOK'
  <2>1. r \in Requests
    BY DEF Requests
  <2> QED
    BY <2>1 DEF TypeOK, Start, Hold
<1>2. ScoreIsOfTheRows'
  BY DEF Start, ScoreIsOfTheRows
<1>3. left[p] >= Limit - Elapsed /\ (~r.resume => left[p] = Limit)
  BY DEF Start, TimesOK
<1>4. left' = [left EXCEPT ![p] = left[p]] /\ req' = [req EXCEPT ![p] = r]
  BY DEF Start, Hold, TypeOK
<1>5. Elapsed' = Elapsed /\ status' = "in_progress"
  BY DEF Start, Elapsed
<1>6. Elapsed' >= Elapsed /\ left[p] >= Limit - Elapsed'
  BY <1>3, <1>5, ElapsedType, LimitAssumption
<1> HIDE DEF r
<1>7. r.op = "starting"
  BY DEF r
<1>8. TimesOK'
  BY <1>1, <1>3, <1>4, <1>5, <1>6, <1>7, PageTimes
<1> QED
  BY <1>1, <1>2, <1>8

LEMMA ReadStoredKeeps ==
  ASSUME IInv, NEW p \in Pages, ReadStored(p)
  PROVE  IInv'
<1> DEFINE r == IF req[p].resume
                  THEN [op |-> "loading", own |-> snapshot, spent |-> Elapsed]
                  ELSE [op |-> "loading", own |-> NoSet, spent |-> 0]
<1> USE DEF IInv
<1>1. Elapsed \in 0 .. Limit + 1 /\ Limit \in Nat
  BY ElapsedType, LimitAssumption
<1>2. UNCHANGED <<rowVars, clock, shown, left>> /\ req' = [req EXCEPT ![p] = r]
  BY DEF ReadStored, Hold
<1>3. r.op = "loading" /\ r \in Requests
  BY <1>1 DEF TypeOK, Requests
<1>4. r.spent <= Elapsed /\ left[p] >= Limit - r.spent
  <2>1. left[p] >= Limit - Elapsed /\ left[p] \in Int
    BY DEF TimesOK, TypeOK
  <2>2. ~req[p].resume => left[p] = Limit
    BY DEF ReadStored, TimesOK
  <2> QED
    BY <1>1, <2>1, <2>2
<1> HIDE DEF r
<1>5. TypeOK'
  BY <1>2, <1>3 DEF TypeOK, rowVars
<1>6. ScoreIsOfTheRows'
  BY <1>2, ScoreKept DEF rowVars
<1>7. Elapsed' = Elapsed /\ status' = status
  BY <1>2 DEF Elapsed, rowVars
<1>8. left' = [left EXCEPT ![p] = left[p]]
  BY <1>2 DEF TypeOK
<1>9. status' # "absent"
  BY <1>7 DEF TimesOK, ReadStored
<1>10. TimesOK'
  <2>1. left[p] >= Limit - Elapsed' /\ Elapsed' >= Elapsed
    BY <1>1, <1>7 DEF TimesOK
  <2> QED
    BY <1>2, <1>3, <1>4, <1>5, <1>7, <1>8, <1>9, <2>1, PageTimes
<1> QED
  BY <1>5, <1>6, <1>10

\* A step of page p that writes no row.
LEMMA PageKeeps ==
  ASSUME IInv, NEW p \in Pages, NEW r \in Requests, NEW l \in 0 .. Limit,
         UNCHANGED <<rowVars, clock>>, shown' \in [Pages -> Sets \cup {NoSet}],
         req' = [req EXCEPT ![p] = r], left' = [left EXCEPT ![p] = l],
         r.op # "starting", l >= Limit - Elapsed,
         status = "absent" => l = Limit /\ r.op = "idle",
         r.op \in {"loading", "storing"}
           => r.spent <= Elapsed /\ l >= Limit - r.spent,
         r.op = "syncing" => l >= Limit - r.spent
  PROVE  IInv'
<1>1. TypeOK'
  BY DEF IInv, TypeOK, rowVars
<1>2. ScoreIsOfTheRows'
  BY ScoreKept DEF IInv, rowVars
<1>3. Elapsed' = Elapsed /\ status' = status /\ Elapsed \in Int
  BY ElapsedType DEF IInv, Elapsed, rowVars
<1>4. Elapsed' >= Elapsed /\ l >= Limit - Elapsed'
  BY <1>3
<1>5. TimesOK'
  BY <1>1, <1>3, <1>4, PageTimes DEF IInv
<1> QED
  BY <1>1, <1>2, <1>5 DEF IInv

\* What is left, told to a page, is in range.
LEMMA LeftRange ==
  ASSUME NEW spent \in 0 .. Limit + 1
  PROVE  /\ Later(0, Limit - spent) \in 0 .. Limit
         /\ Later(0, Limit - spent) >= Limit - spent
BY LimitAssumption DEF Later

LEMMA LoadStoredKeeps ==
  ASSUME IInv, NEW p \in Pages, LoadStored(p)
  PROVE  IInv'
<1> DEFINE l == Later(0, Limit - req[p].spent)
<1>1. /\ req[p] \in Requests /\ req[p].op = "loading" /\ req[p].own \in Sets
      /\ req[p].spent \in 0 .. Limit + 1
  BY RequestFields DEF IInv, TypeOK, LoadStored
<1>2. l \in 0 .. Limit /\ l >= Limit - req[p].spent
  BY <1>1, LeftRange
<1>3. l >= Limit - Elapsed
  <2>1. req[p].spent <= Elapsed /\ Elapsed \in Int
    BY <1>1, ElapsedType DEF IInv, TimesOK
  <2> QED
    BY <1>1, <1>2, <2>1, LimitAssumption
<1>4. status # "absent"
  BY <1>1 DEF IInv, TimesOK
<1>5. /\ UNCHANGED <<rowVars, clock>>
      /\ shown' = [shown EXCEPT ![p] = req[p].own]
      /\ left' = [left EXCEPT ![p] = l]
      /\ req' = [req EXCEPT ![p] = Idle]
  BY DEF LoadStored, Show, Hold
<1>6. shown' \in [Pages -> Sets \cup {NoSet}]
  BY <1>1, <1>5 DEF IInv, TypeOK
<1>7. Idle \in Requests /\ Idle.op = "idle"
  BY DEF Requests, Idle
<1> QED
  BY <1>2, <1>3, <1>4, <1>5, <1>6, <1>7, PageKeeps

LEMMA LoadPreparedKeeps ==
  ASSUME IInv, NEW p \in Pages, LoadPrepared(p)
  PROVE  IInv'
<1>1. /\ req[p] \in Requests /\ req[p].op = "loading"
      /\ req[p].spent \in 0 .. Limit + 1
  BY RequestFields DEF IInv, TypeOK, LoadPrepared
<1>2. PICK k \in Sets :
        req' = [req EXCEPT
                  ![p] = [op |-> "storing", own |-> k, spent |-> req[p].spent]]
  BY SetsAssumption DEF LoadPrepared, Hold
<1> DEFINE r == [op |-> "storing", own |-> k, spent |-> req[p].spent]
<1>3. r \in Requests /\ r.op = "storing" /\ r.spent = req[p].spent
  BY <1>1 DEF Requests
<1>4. /\ left[p] >= Limit - Elapsed /\ status # "absent"
      /\ req[p].spent <= Elapsed /\ left[p] >= Limit - req[p].spent
  BY <1>1 DEF IInv, TimesOK
<1>5. /\ UNCHANGED <<rowVars, clock>> /\ shown' \in [Pages -> Sets \cup {NoSet}]
      /\ left' = [left EXCEPT ![p] = left[p]] /\ left[p] \in 0 .. Limit
  BY DEF LoadPrepared, IInv, TypeOK
<1>6. req' = [req EXCEPT ![p] = r]
  BY <1>2
<1> HIDE DEF r
<1> QED
  BY <1>3, <1>4, <1>5, <1>6, PageKeeps

LEMMA SubmitKeeps ==
  ASSUME IInv, NEW p \in Pages, NEW q \in Questions, NEW o \in Options,
         Submit(p, q, o)
  PROVE  IInv'
<1> DEFINE r == [op |-> "marking", q |-> q, chosen |-> o,
                 right |-> o = Key[snapshot][q]]
<1>1. r \in Requests /\ r.op = "marking"
  BY DEF Requests
<1>2. req' = [req EXCEPT ![p] = r] /\ UNCHANGED <<rowVars, clock>>
  BY DEF Submit, Hold
<1> HIDE DEF r
<1>3. left[p] >= Limit - Elapsed /\ status # "absent"
  BY DEF IInv, TimesOK, Submit, MayWrite, Active
<1>4. /\ shown' \in [Pages -> Sets \cup {NoSet}]
      /\ left' = [left EXCEPT ![p] = left[p]] /\ left[p] \in 0 .. Limit
  BY DEF Submit, IInv, TypeOK
<1> QED
  BY <1>1, <1>2, <1>3, <1>4, PageKeeps

LEMMA SyncTimeKeeps ==
  ASSUME IInv, NEW p \in Pages, NEW t \in 0 .. Limit, SyncTime(p, t)
  PROVE  IInv'
<1>1. /\ UNCHANGED <<rowVars, clock>> /\ shown' \in [Pages -> Sets \cup {NoSet}]
      /\ status # "absent" /\ ~Late /\ req[p] = Idle
  BY DEF SyncTime, MayWrite, Active, IInv, TypeOK
<1>2. /\ left[p] >= Limit - Elapsed /\ left[p] \in 0 .. Limit
      /\ Elapsed \in 0 .. Limit + 1 /\ Elapsed < Limit /\ Limit \in Nat
  BY <1>1, ElapsedType, LimitAssumption DEF IInv, TimesOK, TypeOK, Late
<1>3. CASE t > Elapsed
  <2> DEFINE r == [op |-> "syncing", spent |-> t]
  <2>1. r \in Requests /\ r.op = "syncing" /\ r.spent = t
    BY DEF Requests
  <2>2. /\ req' = [req EXCEPT ![p] = r]
        /\ left' = [left EXCEPT ![p] = left[p]]
    BY <1>3 DEF SyncTime, Hold, IInv, TypeOK
  <2> HIDE DEF r
  <2>3. left[p] >= Limit - t
    BY <1>2, <1>3
  <2> QED
    BY <1>1, <1>2, <2>1, <2>2, <2>3, PageKeeps
<1>4. CASE ~(t > Elapsed)
  <2>1. /\ left' = [left EXCEPT ![p] = Limit - Elapsed]
        /\ req' = [req EXCEPT ![p] = Idle]
    BY <1>1, <1>4 DEF SyncTime, IInv, TypeOK
  <2>2. Idle \in Requests /\ Idle.op = "idle"
    BY DEF Requests, Idle
  <2>3. Limit - Elapsed \in 0 .. Limit /\ Limit - Elapsed >= Limit - Elapsed
    BY <1>2
  <2> QED
    BY <1>1, <2>1, <2>2, <2>3, PageKeeps
<1> QED
  BY <1>3, <1>4

LEMMA GiveUpKeeps ==
  ASSUME IInv, NEW p \in Pages, GiveUp(p)
  PROVE  IInv'
<1>1. Idle \in Requests /\ Idle.op = "idle"
  BY DEF Requests, Idle
<1>2. /\ UNCHANGED <<rowVars, clock>> /\ shown' \in [Pages -> Sets \cup {NoSet}]
      /\ left' = [left EXCEPT ![p] = left[p]] /\ left[p] \in 0 .. Limit
      /\ req' = [req EXCEPT ![p] = Idle]
  BY DEF GiveUp, Hold, IInv, TypeOK
<1>3. left[p] >= Limit - Elapsed /\ (status = "absent" => left[p] = Limit)
  BY DEF IInv, TimesOK
<1> QED
  BY <1>1, <1>2, <1>3, PageKeeps

-----------------------------------------------------------------------------
\* Steps that write the assessment's rows

LEMMA StoreQuestionsKeeps ==
  ASSUME IInv, NEW p \in Pages, StoreQuestions(p)
  PROVE  IInv'
<1> DEFINE l == Later(0, Limit - req[p].spent)
<1>1. /\ req[p].op = "storing" /\ req[p].own \in Sets
      /\ req[p].spent \in 0 .. Limit + 1
  BY RequestFields DEF IInv, TypeOK, StoreQuestions
<1>2. l \in 0 .. Limit /\ l >= Limit - req[p].spent
  BY <1>1, LeftRange
<1>3. l >= Limit - Elapsed /\ Elapsed \in Int
  <2>1. req[p].spent <= Elapsed /\ Elapsed \in Int
    BY <1>1, ElapsedType DEF IInv, TimesOK
  <2> QED
    BY <1>1, <1>2, <2>1, LimitAssumption
<1>4. /\ status' = "in_progress" /\ Elapsed' = Elapsed
      /\ req' = [req EXCEPT ![p] = Idle] /\ left' = [left EXCEPT ![p] = l]
  BY DEF StoreQuestions, MayWrite, Active, Show, Hold, Elapsed
<1>5. Idle \in Requests /\ Idle.op = "idle"
  BY DEF Requests, Idle
<1>6. TypeOK'
  BY <1>1, <1>2, <1>4, <1>5 DEF IInv, TypeOK, StoreQuestions, Show
<1>7. ScoreIsOfTheRows'
  BY <1>4 DEF ScoreIsOfTheRows
<1>8. Elapsed' >= Elapsed /\ l >= Limit - Elapsed'
  BY <1>3, <1>4
<1> HIDE DEF l
<1>9. TimesOK'
  BY <1>4, <1>5, <1>6, <1>8, PageTimes DEF IInv
<1> QED
  BY <1>6, <1>7, <1>9 DEF IInv

LEMMA SaveAnswerKeeps ==
  ASSUME IInv, NEW p \in Pages, SaveAnswer(p)
  PROVE  IInv'
<1>1. /\ req[p].op = "marking" /\ req[p].q \in Questions
      /\ req[p].chosen \in Options /\ req[p].right \in BOOLEAN
  BY RequestFields DEF IInv, TypeOK, SaveAnswer
<1>2. /\ status' = "in_progress" /\ Elapsed' = Elapsed
      /\ req' = [req EXCEPT ![p] = Idle]
      /\ left' = [left EXCEPT ![p] = left[p]] /\ left[p] \in 0 .. Limit
  BY DEF SaveAnswer, MayWrite, Active, Hold, Elapsed, IInv, TypeOK
<1>3. Idle \in Requests /\ Idle.op = "idle"
  BY DEF Requests, Idle
<1>4. TypeOK'
  <2>1. responses' \in [Questions -> Responses]
    BY <1>1 DEF IInv, TypeOK, SaveAnswer, Responses
  <2> QED
    BY <1>2, <1>3, <2>1 DEF IInv, TypeOK, SaveAnswer
<1>5. ScoreIsOfTheRows'
  BY <1>2 DEF ScoreIsOfTheRows
<1>6. left[p] >= Limit - Elapsed' /\ Elapsed' >= Elapsed
  BY <1>2, ElapsedType DEF IInv, TimesOK
<1>7. TimesOK'
  BY <1>2, <1>3, <1>4, <1>6, PageTimes DEF IInv
<1> QED
  BY <1>4, <1>5, <1>7 DEF IInv

LEMMA SaveTimeKeeps ==
  ASSUME IInv, NEW p \in Pages, SaveTime(p)
  PROVE  IInv' /\ Elapsed' >= Elapsed
<1> DEFINE l == Limit - req[p].spent
<1>1. /\ req[p].op = "syncing" /\ req[p].spent \in 0 .. Limit
      /\ elapsed \in 0 .. Limit /\ clock \in 0 .. Limit + 1 /\ Limit \in Nat
  BY RequestFields, LimitAssumption DEF IInv, TypeOK, SaveTime
<1>2. /\ status' = "in_progress" /\ clock' = clock
      /\ elapsed' = Later(elapsed, req[p].spent)
      /\ req' = [req EXCEPT ![p] = Idle] /\ left' = [left EXCEPT ![p] = l]
  BY DEF SaveTime, MayWrite, Active, Hold
<1>3. /\ Elapsed' >= Elapsed /\ Elapsed' >= req[p].spent /\ Elapsed' \in Int
      /\ elapsed' \in 0 .. Limit
  BY <1>1, <1>2 DEF Elapsed, Later
<1>4. l \in 0 .. Limit /\ l >= Limit - Elapsed'
  BY <1>1, <1>3
<1>5. Idle \in Requests /\ Idle.op = "idle"
  BY DEF Requests, Idle
<1> HIDE DEF l
<1>6. TypeOK'
  BY <1>2, <1>3, <1>4, <1>5 DEF IInv, TypeOK, SaveTime
<1>7. ScoreIsOfTheRows'
  BY <1>2 DEF ScoreIsOfTheRows
<1>8. TimesOK'
  BY <1>2, <1>3, <1>4, <1>5, <1>6, PageTimes DEF IInv
<1> QED
  BY <1>3, <1>6, <1>7, <1>8 DEF IInv

\* A step of no page keeps the times when it takes no time back.
LEMMA PagelessTimes ==
  ASSUME TypeOK, TypeOK', TimesOK, UNCHANGED pageVars,
         Elapsed' >= Elapsed, status # "absent", status' # "absent"
  PROVE  TimesOK'
<1>1. Elapsed \in Int /\ Elapsed' \in Int /\ Limit \in Int
  BY ElapsedType, LimitAssumption DEF TypeOK, Elapsed, Later
<1>2. \A p \in Pages :
        /\ left[p] \in Int
        /\ req[p].op \in {"loading", "storing"} => req[p].spent \in Int
  BY RequestFields DEF TypeOK
<1> QED
  BY <1>1, <1>2 DEF TimesOK, pageVars

LEMMA TickKeeps ==
  ASSUME IInv, Tick
  PROVE  IInv' /\ Elapsed' >= Elapsed
<1>1. /\ clock \in 0 .. Limit + 1 /\ elapsed \in 0 .. Limit /\ Limit \in Nat
      /\ clock' = clock + 1 /\ clock <= Limit /\ elapsed' = elapsed
  BY LimitAssumption DEF IInv, TypeOK, Tick, rowVars
<1>2. Elapsed' >= Elapsed /\ clock' \in 0 .. Limit + 1
  BY <1>1 DEF Elapsed, Later
<1>3. TypeOK'
  BY <1>2 DEF IInv, TypeOK, Tick, rowVars, pageVars
<1>4. ScoreIsOfTheRows'
  BY ScoreKept DEF IInv, Tick, rowVars
<1>5. TimesOK'
  BY <1>2, <1>3, PagelessTimes DEF IInv, Tick, rowVars, Active
<1> QED
  BY <1>2, <1>3, <1>4, <1>5 DEF IInv

LEMMA CompleteKeeps ==
  ASSUME IInv, Complete
  PROVE  IInv' /\ Elapsed' >= Elapsed
<1>1. /\ status = "in_progress" /\ status' = "completed" /\ snapshot \in Sets
      /\ score' = Tally /\ UNCHANGED <<snapshot, responses, clock, pageVars>>
      /\ elapsed' = IF Elapsed > Limit THEN Limit ELSE Elapsed
  BY DEF IInv, TypeOK, Complete, Active
<1>2. /\ clock \in 0 .. Limit + 1 /\ elapsed \in 0 .. Limit /\ Limit \in Nat
      /\ Elapsed \in 0 .. Limit + 1
  BY ElapsedType, LimitAssumption DEF IInv, TypeOK
<1>3. Elapsed' >= Elapsed /\ elapsed' \in 0 .. Limit
  <2>1. elapsed' \in 0 .. Limit
    BY <1>1, <1>2
  <2> QED
    BY <1>1, <1>2, <2>1 DEF Elapsed, Later
<1>4. TypeOK'
  BY <1>1, <1>3, TallyNat DEF IInv, TypeOK, pageVars
<1>5. ScoreIsOfTheRows'
  <2>1. Tally' = Tally
    BY <1>1 DEF Tally
  <2>2. snapshot' # NoSet
    BY <1>1, SetsAssumption
  <2> QED
    BY <1>1, <2>1, <2>2 DEF ScoreIsOfTheRows
<1>6. TimesOK'
  BY <1>1, <1>3, <1>4, PagelessTimes DEF IInv
<1> QED
  BY <1>3, <1>4, <1>5, <1>6 DEF IInv

-----------------------------------------------------------------------------
\* Every step

LEMMA Inductive == IInv /\ [Next]_vars => IInv'
<1> SUFFICES ASSUME IInv, [Next]_vars PROVE IInv'
  OBVIOUS
<1>1. ASSUME NEW p \in Pages, Start(p) PROVE IInv'
  BY <1>1, StartKeeps
<1>2. ASSUME NEW p \in Pages, ReadStored(p) PROVE IInv'
  BY <1>2, ReadStoredKeeps
<1>3. ASSUME NEW p \in Pages, LoadStored(p) PROVE IInv'
  BY <1>3, LoadStoredKeeps
<1>4. ASSUME NEW p \in Pages, LoadPrepared(p) PROVE IInv'
  BY <1>4, LoadPreparedKeeps
<1>5. ASSUME NEW p \in Pages, StoreQuestions(p) PROVE IInv'
  BY <1>5, StoreQuestionsKeeps
<1>6. ASSUME NEW p \in Pages, SaveAnswer(p) PROVE IInv'
  BY <1>6, SaveAnswerKeeps
<1>7. ASSUME NEW p \in Pages, SaveTime(p) PROVE IInv'
  BY <1>7, SaveTimeKeeps
<1>8. ASSUME NEW p \in Pages, GiveUp(p) PROVE IInv'
  BY <1>8, GiveUpKeeps
<1>9. ASSUME NEW p \in Pages, NEW q \in Questions, NEW o \in Options,
             Submit(p, q, o)
      PROVE  IInv'
  BY <1>9, SubmitKeeps
<1>10. ASSUME NEW p \in Pages, NEW t \in 0 .. Limit, SyncTime(p, t)
       PROVE  IInv'
  BY <1>10, SyncTimeKeeps
<1>11. CASE Tick
  BY <1>11, TickKeeps
<1>12. CASE Complete
  BY <1>12, CompleteKeeps
<1>13. CASE UNCHANGED vars
  <2>1. TypeOK' /\ ScoreIsOfTheRows' /\ Elapsed' = Elapsed
    BY <1>13, ScoreKept
       DEF IInv, TypeOK, vars, rowVars, pageVars, Elapsed
  <2> QED
    BY <1>13, <2>1 DEF IInv, TimesOK, vars, rowVars, pageVars
<1> QED
  BY <1>1, <1>2, <1>3, <1>4, <1>5, <1>6, <1>7, <1>8, <1>9, <1>10, <1>11,
     <1>12, <1>13 DEF Next

\* The inductive invariant holds in every reachable state.
THEOREM Invariant == Spec => []IInv
BY Initially, Inductive, PTL DEF Spec

\* Every variable keeps its type; in particular no stored time exceeds the
\* limit (update_assessment_time_elapsed, finalize_assessment).
THEOREM TypeCorrect == Spec => []TypeOK
<1>1. IInv => TypeOK
  BY DEF IInv
<1> QED
  BY <1>1, Invariant, PTL

\* finalize_assessment cannot race a final autosave: the persisted score is
\* that of the persisted rows.
THEOREM ScoreIsRight == Spec => []ScoreIsOfTheRows
<1>1. IInv => ScoreIsOfTheRows
  BY DEF IInv
<1> QED
  BY <1>1, Invariant, PTL

-----------------------------------------------------------------------------
\* Time only runs out

\* No action gives time back, nor tells a page that it has more left.
LEMMA StepTime ==
  ASSUME IInv, [Next]_vars
  PROVE  Elapsed' >= Elapsed /\ \A p \in Pages : left'[p] <= left[p]
<1>1. /\ Elapsed \in 0 .. Limit + 1 /\ Limit \in Nat
      /\ \A p \in Pages : left[p] \in 0 .. Limit
  BY ElapsedType, LimitAssumption DEF IInv, TypeOK
<1>2. ASSUME NEW p \in Pages, NEW l \in Int, l <= left[p],
             left' = [left EXCEPT ![p] = l]
      PROVE  \A x \in Pages : left'[x] <= left[x]
  BY <1>1, <1>2 DEF IInv, TypeOK
<1>3. ASSUME UNCHANGED <<elapsed, clock, left>>
      PROVE  Elapsed' >= Elapsed /\ \A x \in Pages : left'[x] <= left[x]
  BY <1>1, <1>3 DEF Elapsed
<1>4. ASSUME NEW p \in Pages, LoadStored(p) \/ StoreQuestions(p)
      PROVE  Elapsed' >= Elapsed /\ \A x \in Pages : left'[x] <= left[x]
  <2> DEFINE l == Later(0, Limit - req[p].spent)
  <2>1. /\ req[p].op \in {"loading", "storing"}
        /\ left' = [left EXCEPT ![p] = l] /\ UNCHANGED <<elapsed, clock>>
    BY <1>4 DEF LoadStored, StoreQuestions, Show, rowVars
  <2>2. req[p].spent \in 0 .. Limit + 1 /\ left[p] >= Limit - req[p].spent
    BY <2>1, RequestFields DEF IInv, TypeOK, TimesOK
  <2>3. l \in Int /\ l <= left[p]
    BY <1>1, <2>2 DEF Later
  <2> HIDE DEF l
  <2>4. Elapsed' = Elapsed
    BY <2>1 DEF Elapsed
  <2> QED
    BY <1>1, <1>2, <2>1, <2>3, <2>4
<1>5. ASSUME NEW p \in Pages, NEW t \in 0 .. Limit, SyncTime(p, t)
      PROVE  Elapsed' >= Elapsed /\ \A x \in Pages : left'[x] <= left[x]
  <2>1. UNCHANGED <<elapsed, clock>> /\ Elapsed' = Elapsed
    BY <1>5 DEF SyncTime, rowVars, Elapsed
  <2>2. left' = left \/ left' = [left EXCEPT ![p] = Limit - Elapsed]
    BY <1>5 DEF SyncTime
  <2>3. Limit - Elapsed \in Int /\ Limit - Elapsed <= left[p]
    BY <1>1 DEF IInv, TimesOK
  <2> QED
    BY <1>1, <1>2, <2>1, <2>2, <2>3
<1>6. ASSUME NEW p \in Pages, SaveTime(p)
      PROVE  Elapsed' >= Elapsed /\ \A x \in Pages : left'[x] <= left[x]
  <2>1. /\ req[p].op = "syncing"
        /\ left' = [left EXCEPT ![p] = Limit - req[p].spent]
    BY <1>6 DEF SaveTime
  <2>2. req[p].spent \in 0 .. Limit /\ left[p] >= Limit - req[p].spent
    BY <2>1, RequestFields DEF IInv, TypeOK, TimesOK
  <2>3. Limit - req[p].spent \in Int /\ Limit - req[p].spent <= left[p]
    BY <1>1, <2>2
  <2> QED
    BY <1>2, <1>6, <2>1, <2>3, SaveTimeKeeps
<1>7. ASSUME Tick \/ Complete
      PROVE  Elapsed' >= Elapsed /\ \A x \in Pages : left'[x] <= left[x]
  <2>1. left' = left
    BY <1>7 DEF Tick, Complete, pageVars
  <2> QED
    BY <1>1, <1>7, <2>1, TickKeeps, CompleteKeeps
<1>8. ASSUME NEW p \in Pages,
             \/ Start(p) \/ ReadStored(p) \/ LoadPrepared(p) \/ SaveAnswer(p)
             \/ GiveUp(p)
             \/ \E q \in Questions, o \in Options : Submit(p, q, o)
      PROVE  UNCHANGED <<elapsed, clock, left>>
  BY <1>8 DEF Start, ReadStored, LoadPrepared, SaveAnswer, GiveUp, Submit,
     rowVars
<1>9. CASE UNCHANGED vars
  BY <1>3, <1>9 DEF vars, rowVars, pageVars
<1> QED
  BY <1>3, <1>4, <1>5, <1>6, <1>7, <1>8, <1>9 DEF Next

\* However the pages' time reports interleave (sync_assessment_time), the time
\* used never shrinks and no page is told it has more left than before.
THEOREM TimeRunsOut == Spec => TimeOnlyRunsOut
<1>1. IInv /\ [Next]_vars
        => [/\ Elapsed' >= Elapsed
            /\ \A p \in Pages : left'[p] <= left[p]]_vars
  BY StepTime
<1> QED
  BY <1>1, Invariant, PTL DEF Spec, TimeOnlyRunsOut

-----------------------------------------------------------------------------
\* While the schedule's row can be read, the snapshot stands

MarksOK == IInv /\ PreparedOK /\ MarkedBySnapshot

LEMMA MarksBegin == Init => MarksOK
<1>1. Init => IInv
  BY Initially
<1>2. Init => PreparedOK /\ MarkedBySnapshot
  BY DEF Init, PreparedOK, MarkedBySnapshot, Idle
<1> QED
  BY <1>1, <1>2 DEF MarksOK

\* A request of page p that is in order keeps the others in order.
LEMMA PagePrepared ==
  ASSUME IInv, PreparedOK, NEW p \in Pages, NEW r,
         req' = [req EXCEPT ![p] = r],
         snapshot' = snapshot \/ snapshot' = Prepared,
         r.op = "loading" => r.own \in {NoSet, Prepared},
         r.op = "storing" => r.own = Prepared,
         r.op = "marking" =>
           /\ snapshot' # NoSet
           /\ r.q \in DOMAIN Key[snapshot']
           /\ r.right = (r.chosen = Key[snapshot'][r.q])
  PROVE  PreparedOK'
<1>1. req'[p] = r /\ \A x \in Pages : x # p => req'[x] = req[x]
  BY DEF IInv, TypeOK
<1>2. snapshot' \in {NoSet, Prepared}
  BY DEF PreparedOK
<1>3. snapshot # NoSet => snapshot' = snapshot
  BY DEF PreparedOK
<1> SUFFICES ASSUME NEW x \in Pages
             PROVE  /\ req'[x].op = "loading"
                         => req'[x].own \in {NoSet, Prepared}
                    /\ req'[x].op = "storing" => req'[x].own = Prepared
                    /\ req'[x].op = "marking" =>
                         /\ snapshot' # NoSet
                         /\ req'[x].q \in DOMAIN Key[snapshot']
                         /\ req'[x].right =
                              (req'[x].chosen = Key[snapshot'][req'[x].q])
  BY <1>2 DEF PreparedOK
<1>4. CASE x = p
  BY <1>1, <1>4
<1>5. CASE x # p
  BY <1>1, <1>3, <1>5 DEF PreparedOK
<1> QED
  BY <1>4, <1>5

\* Marks of unchanged rows and an unchanged snapshot stay right.
LEMMA MarksKept ==
  ASSUME MarkedBySnapshot, UNCHANGED <<snapshot, responses>>
  PROVE  MarkedBySnapshot'
BY DEF MarkedBySnapshot

\* What a step must do for the snapshot and the marks.
Stands ==
    /\ PreparedOK' /\ MarkedBySnapshot'
    /\ snapshot # NoSet => snapshot' = snapshot

LEMMA MarksStep ==
  ASSUME LoadFails = FALSE, MarksOK, [Next]_vars
  PROVE  Stands
<1> USE DEF MarksOK
<1>1. ASSUME NEW p \in Pages, Start(p) \/ GiveUp(p) PROVE Stands
  <2>1. PICK r : /\ req' = [req EXCEPT ![p] = r]
                 /\ r.op \notin {"loading", "storing", "marking"}
    BY <1>1 DEF Start, GiveUp, Hold, Idle
  <2>2. UNCHANGED <<snapshot, responses>>
    BY <1>1 DEF Start, GiveUp, rowVars
  <2> QED
    BY <2>1, <2>2, PagePrepared, MarksKept DEF Stands
<1>2. ASSUME NEW p \in Pages, ReadStored(p) PROVE Stands
  <2> DEFINE r == IF req[p].resume
                    THEN [op |-> "loading", own |-> snapshot, spent |-> Elapsed]
                    ELSE [op |-> "loading", own |-> NoSet, spent |-> 0]
  <2>1. /\ req' = [req EXCEPT ![p] = r]
        /\ r.op = "loading" /\ r.own \in {NoSet, snapshot}
    BY <1>2 DEF ReadStored, Hold
  <2> HIDE DEF r
  <2>2. UNCHANGED <<snapshot, responses>> /\ r.own \in {NoSet, Prepared}
    BY <1>2, <2>1 DEF ReadStored, rowVars, PreparedOK
  <2> QED
    BY <2>1, <2>2, PagePrepared, MarksKept DEF Stands
<1>3. ASSUME NEW p \in Pages, LoadStored(p) PROVE Stands
  <2>1. req' = [req EXCEPT ![p] = Idle] /\ UNCHANGED <<snapshot, responses>>
    BY <1>3 DEF LoadStored, Show, Hold, rowVars
  <2>2. Idle.op = "idle"
    BY DEF Idle
  <2> QED
    BY <2>1, <2>2, PagePrepared, MarksKept DEF Stands
<1>4. ASSUME NEW p \in Pages, LoadPrepared(p) PROVE Stands
  <2> DEFINE r == [op |-> "storing", own |-> Prepared, spent |-> req[p].spent]
  <2>1. /\ req' = [req EXCEPT ![p] = r]
        /\ r.op = "storing" /\ r.own = Prepared
    BY <1>4 DEF LoadPrepared, Hold
  <2> HIDE DEF r
  <2>2. UNCHANGED <<snapshot, responses>>
    BY <1>4 DEF LoadPrepared, rowVars
  <2> QED
    BY <2>1, <2>2, PagePrepared, MarksKept DEF Stands
<1>5. ASSUME NEW p \in Pages, StoreQuestions(p) PROVE Stands
  <2>1. /\ req' = [req EXCEPT ![p] = Idle] /\ snapshot' = Prepared
        /\ responses' = responses
    BY <1>5 DEF StoreQuestions, Show, Hold, PreparedOK
  <2>2. Idle.op = "idle" /\ Prepared # NoSet
    BY SetsAssumption DEF Idle
  <2>3. snapshot # NoSet => snapshot' = snapshot
    BY <2>1 DEF PreparedOK
  <2>4. MarkedBySnapshot'
    BY <2>1, <2>2, <2>3 DEF MarkedBySnapshot
  <2> QED
    BY <2>1, <2>2, <2>3, <2>4, PagePrepared DEF Stands
<1>6. ASSUME NEW p \in Pages, NEW q \in Questions, NEW o \in Options,
             Submit(p, q, o)
      PROVE  Stands
  <2>1. UNCHANGED <<snapshot, responses>> /\ snapshot # NoSet
        /\ q \in DOMAIN Key[snapshot]
    BY <1>6 DEF Submit, rowVars
  <2> DEFINE r == [op |-> "marking", q |-> q, chosen |-> o,
                   right |-> o = Key[snapshot][q]]
  <2>2. /\ req' = [req EXCEPT ![p] = r]
        /\ r.op = "marking" /\ r.q = q /\ r.chosen = o
        /\ r.right = (o = Key[snapshot][q])
    BY <1>6 DEF Submit, Hold
  <2> HIDE DEF r
  <2> QED
    BY <2>1, <2>2, PagePrepared, MarksKept DEF Stands
<1>7. ASSUME NEW p \in Pages, SaveAnswer(p) PROVE Stands
  <2>1. /\ req' = [req EXCEPT ![p] = Idle] /\ snapshot' = snapshot
        /\ responses' = [responses EXCEPT ![req[p].q] =
                           [chosen |-> req[p].chosen, right |-> req[p].right]]
        /\ req[p].op = "marking"
    BY <1>7 DEF SaveAnswer, Hold
  <2>2. Idle.op = "idle"
    BY DEF Idle
  <2>3. /\ snapshot # NoSet /\ req[p].q \in DOMAIN Key[snapshot]
        /\ req[p].right = (req[p].chosen = Key[snapshot][req[p].q])
    BY <2>1 DEF PreparedOK
  <2>4. MarkedBySnapshot'
    <3> SUFFICES ASSUME NEW q \in Questions, responses'[q] # Unanswered
                 PROVE  /\ snapshot # NoSet
                        /\ q \in DOMAIN Key[snapshot]
                        /\ responses'[q].right =
                             (responses'[q].chosen = Key[snapshot][q])
      BY <2>1 DEF MarkedBySnapshot
    <3>1. CASE q = req[p].q
      BY <2>1, <2>3, <3>1 DEF IInv, TypeOK
    <3>2. CASE q # req[p].q
      BY <2>1, <3>2 DEF IInv, TypeOK, MarkedBySnapshot
    <3> QED
      BY <3>1, <3>2
  <2> QED
    BY <2>1, <2>2, <2>4, PagePrepared DEF Stands
<1>8. ASSUME NEW p \in Pages, NEW t \in 0 .. Limit,
             SyncTime(p, t) \/ SaveTime(p)
      PROVE  Stands
  <2>1. PICK r : /\ req' = [req EXCEPT ![p] = r]
                 /\ r.op \in {"idle", "syncing"}
    <3>1. req = [req EXCEPT ![p] = req[p]] /\ Idle.op = "idle"
      BY DEF IInv, TypeOK, Idle
    <3>2. CASE SyncTime(p, t)
      <4>1. CASE t > Elapsed
        <5> DEFINE r == [op |-> "syncing", spent |-> t]
        <5>1. req' = [req EXCEPT ![p] = r] /\ r.op = "syncing"
          BY <3>2, <4>1 DEF SyncTime, Hold
        <5> HIDE DEF r
        <5> QED
          BY <5>1
      <4>2. CASE ~(t > Elapsed)
        <5>1. req' = [req EXCEPT ![p] = req[p]] /\ req[p] = Idle
          BY <3>1, <3>2, <4>2 DEF SyncTime
        <5> QED
          BY <3>1, <5>1
      <4> QED
        BY <4>1, <4>2
    <3>3. CASE SaveTime(p)
      BY <3>1, <3>3 DEF SaveTime, Hold
    <3> QED
      BY <1>8, <3>2, <3>3
  <2>2. UNCHANGED <<snapshot, responses>>
    BY <1>8 DEF SyncTime, SaveTime, rowVars
  <2> QED
    BY <2>1, <2>2, PagePrepared, MarksKept DEF Stands
<1>9. CASE Tick \/ Complete \/ UNCHANGED vars
  <2>1. UNCHANGED <<snapshot, responses, req>>
    BY <1>9 DEF Tick, Complete, vars, rowVars, pageVars
  <2> QED
    BY <2>1, MarksKept DEF Stands, PreparedOK
<1>10. 0 \in 0 .. Limit
  BY LimitAssumption
<1> QED
  BY <1>1, <1>2, <1>3, <1>4, <1>5, <1>6, <1>7, <1>8, <1>9, <1>10 DEF Next

-----------------------------------------------------------------------------
\* With one page, whatever can be read, requests come one after another

OnePage == \A p, q \in Pages : p = q

\* No request that could store a set began before the one stored was stored.
InTurn ==
    /\ status = "absent" => snapshot = NoSet
    /\ \A p \in Pages :
         /\ req[p].op = "starting" /\ ~req[p].resume => snapshot = NoSet
         /\ req[p].op = "loading" => req[p].own = snapshot
         /\ req[p].op = "storing" => snapshot = NoSet
         /\ req[p].op = "marking" =>
              /\ snapshot # NoSet
              /\ req[p].q \in DOMAIN Key[snapshot]
              /\ req[p].right = (req[p].chosen = Key[snapshot][req[p].q])

TurnOK == IInv /\ InTurn /\ MarkedBySnapshot

LEMMA TurnBegins == Init => TurnOK
<1>1. Init => InTurn /\ MarkedBySnapshot
  BY DEF Init, InTurn, MarkedBySnapshot, Idle
<1> QED
  BY <1>1, Initially DEF TurnOK

\* What a step must do for the snapshot and the marks.
TurnStands ==
    /\ InTurn' /\ MarkedBySnapshot'
    /\ snapshot # NoSet => snapshot' = snapshot

\* A step that leaves the snapshot and every row's absence alone is judged by
\* the one request there is.
LEMMA PageInTurn ==
  ASSUME OnePage, TypeOK, InTurn, MarkedBySnapshot, NEW p \in Pages, NEW r,
         req' = [req EXCEPT ![p] = r],
         UNCHANGED <<snapshot, responses>>,
         status' = "absent" => status = "absent",
         r.op = "starting" /\ ~r.resume => snapshot = NoSet,
         r.op = "loading" => r.own = snapshot,
         r.op = "storing" => snapshot = NoSet,
         r.op = "marking" =>
           /\ snapshot # NoSet
           /\ r.q \in DOMAIN Key[snapshot]
           /\ r.right = (r.chosen = Key[snapshot][r.q])
  PROVE  TurnStands
<1>1. \A x \in Pages : req'[x] = r
  BY DEF OnePage, TypeOK
<1>2. InTurn'
  BY <1>1 DEF InTurn
<1> QED
  BY <1>2, MarksKept DEF TurnStands

LEMMA StartsInTurn ==
  ASSUME OnePage, TurnOK, NEW p \in Pages,
         Start(p) \/ ReadStored(p) \/ LoadStored(p) \/ LoadPrepared(p)
  PROVE  TurnStands
<1> USE DEF TurnOK, IInv
<1>1. CASE Start(p)
  <2> DEFINE r == [op |-> "starting", resume |-> status = "in_progress"]
  <2>1. /\ req' = [req EXCEPT ![p] = r] /\ r.op = "starting"
        /\ r.resume = (status = "in_progress")
        /\ UNCHANGED <<snapshot, responses>> /\ status' = "in_progress"
        /\ status \in {"absent", "in_progress"}
    BY <1>1 DEF Start, Hold
  <2> HIDE DEF r
  <2>2. r.op = "starting" /\ ~r.resume => snapshot = NoSet
    BY <2>1 DEF InTurn
  <2> QED
    BY <2>1, <2>2, PageInTurn
<1>2. CASE ReadStored(p)
  <2> DEFINE r == IF req[p].resume
                    THEN [op |-> "loading", own |-> snapshot, spent |-> Elapsed]
                    ELSE [op |-> "loading", own |-> NoSet, spent |-> 0]
  <2>1. /\ req' = [req EXCEPT ![p] = r] /\ r.op = "loading"
        /\ r.own = snapshot \/ (r.own = NoSet /\ ~req[p].resume)
        /\ UNCHANGED <<snapshot, responses, status>> /\ req[p].op = "starting"
    BY <1>2 DEF ReadStored, Hold, rowVars
  <2> HIDE DEF r
  <2>2. r.own = snapshot
    BY <2>1 DEF InTurn
  <2> QED
    BY <2>1, <2>2, PageInTurn
<1>3. CASE LoadStored(p)
  <2>1. /\ req' = [req EXCEPT ![p] = Idle] /\ Idle.op = "idle"
        /\ UNCHANGED <<snapshot, responses, status>>
    BY <1>3 DEF LoadStored, Show, Hold, rowVars, Idle
  <2> QED
    BY <2>1, PageInTurn
<1>4. CASE LoadPrepared(p)
  <2>1. PICK k \in Sets :
               req' = [req EXCEPT ![p] = [op |-> "storing", own |-> k, spent |-> req[p].spent]]
    BY <1>4, SetsAssumption DEF LoadPrepared, Hold
  <2> DEFINE r == [op |-> "storing", own |-> k, spent |-> req[p].spent]
  <2>2. req' = [req EXCEPT ![p] = r] /\ r.op = "storing"
    BY <2>1
  <2> HIDE DEF r
  <2>3. UNCHANGED <<snapshot, responses, status>> /\ snapshot = NoSet
    BY <1>4 DEF LoadPrepared, rowVars, InTurn
  <2> QED
    BY <2>2, <2>3, PageInTurn
<1> QED
  BY <1>1, <1>2, <1>3, <1>4

\* Only a request that began when nothing was stored stores a set.
LEMMA StoresInTurn ==
  ASSUME OnePage, TurnOK, NEW p \in Pages, StoreQuestions(p)
  PROVE  TurnStands
<1> USE DEF TurnOK, IInv
<1>1. /\ req' = [req EXCEPT ![p] = Idle] /\ Idle.op = "idle"
      /\ responses' = responses /\ status' = "in_progress"
      /\ snapshot = NoSet
  BY DEF StoreQuestions, Show, Hold, Idle, MayWrite, Active, InTurn
<1>2. \A x \in Pages : req'[x].op = "idle"
  BY <1>1 DEF OnePage, TypeOK
<1>3. InTurn'
  BY <1>1, <1>2 DEF InTurn
<1>4. MarkedBySnapshot'
  BY <1>1 DEF MarkedBySnapshot
<1> QED
  BY <1>1, <1>3, <1>4 DEF TurnStands

LEMMA AnswersInTurn ==
  ASSUME OnePage, TurnOK, NEW p \in Pages,
         SaveAnswer(p) \/ GiveUp(p) \/ \E q \in Questions, o \in Options : Submit(p, q, o)
  PROVE  TurnStands
<1> USE DEF TurnOK, IInv
<1>1. CASE SaveAnswer(p)
  <2>1. /\ req' = [req EXCEPT ![p] = Idle] /\ Idle.op = "idle"
        /\ UNCHANGED <<snapshot, status>> /\ req[p].op = "marking"
        /\ responses' = [responses EXCEPT ![req[p].q] =
                           [chosen |-> req[p].chosen, right |-> req[p].right]]
    BY <1>1 DEF SaveAnswer, Hold, Idle
  <2>2. /\ snapshot # NoSet /\ req[p].q \in DOMAIN Key[snapshot]
        /\ req[p].right = (req[p].chosen = Key[snapshot][req[p].q])
    BY <2>1 DEF InTurn
  <2>3. MarkedBySnapshot'
    <3> SUFFICES ASSUME NEW q \in Questions, responses'[q] # Unanswered
                 PROVE  /\ snapshot # NoSet
                        /\ q \in DOMAIN Key[snapshot]
                        /\ responses'[q].right = (responses'[q].chosen = Key[snapshot][q])
      BY <2>1 DEF MarkedBySnapshot
    <3>1. CASE q = req[p].q
      BY <2>1, <2>2, <3>1 DEF TypeOK
    <3>2. CASE q # req[p].q
      BY <2>1, <3>2 DEF TypeOK, MarkedBySnapshot
    <3> QED
      BY <3>1, <3>2
  <2>4. InTurn'
    <3>1. \A x \in Pages : req'[x].op = "idle"
      BY <2>1 DEF OnePage, TypeOK
    <3> QED
      BY <3>1, <2>1 DEF InTurn
  <2> QED
    BY <2>1, <2>3, <2>4 DEF TurnStands
<1>2. CASE GiveUp(p)
  <2>1. /\ req' = [req EXCEPT ![p] = Idle] /\ Idle.op = "idle"
        /\ UNCHANGED <<snapshot, responses, status>>
    BY <1>2 DEF GiveUp, Hold, Idle, rowVars
  <2> QED
    BY <2>1, PageInTurn
<1>3. ASSUME NEW q \in Questions, NEW o \in Options, Submit(p, q, o) PROVE TurnStands
  <2> DEFINE r == [op |-> "marking", q |-> q, chosen |-> o, right |-> o = Key[snapshot][q]]
  <2>1. /\ req' = [req EXCEPT ![p] = r]
        /\ r.op = "marking" /\ r.q = q /\ r.chosen = o
        /\ r.right = (o = Key[snapshot][q])
        /\ UNCHANGED <<snapshot, responses, status>> /\ snapshot # NoSet
        /\ q \in DOMAIN Key[snapshot]
    BY <1>3 DEF Submit, Hold, rowVars
  <2> HIDE DEF r
  <2> QED
    BY <2>1, PageInTurn
<1> QED
  BY <1>1, <1>2, <1>3

LEMMA TimesInTurn ==
  ASSUME OnePage, TurnOK, NEW p \in Pages,
         SaveTime(p) \/ \E t \in 0 .. Limit : SyncTime(p, t)
  PROVE  TurnStands
<1> USE DEF TurnOK, IInv
<1>1. CASE SaveTime(p)
  <2>1. /\ req' = [req EXCEPT ![p] = Idle] /\ Idle.op = "idle"
        /\ UNCHANGED <<snapshot, responses, status>>
    BY <1>1 DEF SaveTime, Hold, Idle
  <2> QED
    BY <2>1, PageInTurn
<1>2. ASSUME NEW t \in 0 .. Limit, SyncTime(p, t) PROVE TurnStands
  <2>1. UNCHANGED <<snapshot, responses, status>> /\ req[p] = Idle /\ Idle.op = "idle"
    BY <1>2 DEF SyncTime, rowVars, Idle
  <2>2. CASE t > Elapsed
    <3> DEFINE r == [op |-> "syncing", spent |-> t]
    <3>1. req' = [req EXCEPT ![p] = r] /\ r.op = "syncing"
      BY <1>2, <2>2 DEF SyncTime, Hold
    <3> HIDE DEF r
    <3> QED
      BY <2>1, <3>1, PageInTurn
  <2>3. CASE ~(t > Elapsed)
    <3>1. req' = req
      BY <1>2, <2>3 DEF SyncTime
    <3>2. req' = [req EXCEPT ![p] = Idle]
      BY <2>1, <3>1 DEF TypeOK
    <3> QED
      BY <2>1, <3>2, PageInTurn
  <2> QED
    BY <2>2, <2>3
<1> QED
  BY <1>1, <1>2

LEMMA TurnStep == OnePage /\ TurnOK /\ [Next]_vars => TurnStands
<1> SUFFICES ASSUME OnePage, TurnOK, [Next]_vars PROVE TurnStands
  OBVIOUS
<1>1. CASE Tick \/ Complete \/ UNCHANGED vars
  <2>1. /\ UNCHANGED <<snapshot, responses, req>>
        /\ status' = "absent" => status = "absent"
    BY <1>1 DEF Tick, Complete, vars, rowVars, pageVars
  <2>2. InTurn'
    BY <2>1 DEF InTurn, TurnOK
  <2> QED
    BY <2>1, <2>2, MarksKept DEF TurnStands, TurnOK
<1> QED
  BY <1>1, StartsInTurn, StoresInTurn, AnswersInTurn, TimesInTurn DEF Next

-----------------------------------------------------------------------------
\* Unless starts overlap and the schedule's row cannot be read meanwhile

FairlyServed == LoadFails = FALSE \/ OnePage

\* A page shows the questions that are stored, and a start that read some
\* read these.
ShownOK ==
    \A p \in Pages :
      /\ shown[p] \in {NoSet, snapshot}
      /\ req[p].op = "loading" => req[p].own \in {NoSet, snapshot}

\* A step keeps that if it keeps the snapshot.
LEMMA ShownStep ==
  ASSUME TypeOK, ShownOK, [Next]_vars, snapshot # NoSet => snapshot' = snapshot
  PROVE  ShownOK'
<1>1. \A x \in Pages : /\ shown[x] \in {NoSet, snapshot'}
                       /\ req[x].op = "loading" => req[x].own \in {NoSet, snapshot'}
  BY DEF ShownOK
<1>2. ASSUME NEW p \in Pages, NEW r, req' = [req EXCEPT ![p] = r], shown' = shown,
             r.op = "loading" => r.own \in {NoSet, snapshot'}
      PROVE  ShownOK'
  BY <1>1, <1>2 DEF ShownOK, TypeOK
<1>3. ASSUME NEW p \in Pages, NEW k \in {NoSet, snapshot'}, NEW spent, Show(p, k, spent)
      PROVE  ShownOK'
  <2>1. \A x \in Pages : /\ shown'[x] = IF x = p THEN k ELSE shown[x]
                         /\ req'[x] = IF x = p THEN Idle ELSE req[x]
    BY <1>3 DEF Show, Hold, TypeOK
  <2> QED
    BY <1>1, <2>1 DEF ShownOK, Idle
<1>4. ASSUME NEW p \in Pages, LoadStored(p) PROVE ShownOK'
  <2>1. req[p].own = snapshot' /\ Show(p, req[p].own, req[p].spent)
    BY <1>1, <1>4 DEF LoadStored
  <2> QED
    BY <1>3, <2>1
<1>5. ASSUME NEW p \in Pages, StoreQuestions(p) PROVE ShownOK'
  <2>1. req[p].own = snapshot' /\ Show(p, req[p].own, req[p].spent)
    BY <1>5 DEF StoreQuestions
  <2> QED
    BY <1>3, <2>1
<1>6. ASSUME NEW p \in Pages, ReadStored(p) PROVE ShownOK'
  <2> DEFINE r == IF req[p].resume
                    THEN [op |-> "loading", own |-> snapshot, spent |-> Elapsed]
                    ELSE [op |-> "loading", own |-> NoSet, spent |-> 0]
  <2>1. /\ req' = [req EXCEPT ![p] = r] /\ shown' = shown
        /\ r.own \in {NoSet, snapshot'}
    BY <1>6 DEF ReadStored, Hold, rowVars
  <2> HIDE DEF r
  <2> QED
    BY <1>2, <2>1
<1>7. ASSUME NEW p \in Pages, LoadPrepared(p) PROVE ShownOK'
  <2>1. PICK k \in IF LoadFails THEN Sets ELSE {Prepared} :
               Hold(p, [op |-> "storing", own |-> k, spent |-> req[p].spent])
    BY <1>7 DEF LoadPrepared
  <2> DEFINE r == [op |-> "storing", own |-> k, spent |-> req[p].spent]
  <2>2. req' = [req EXCEPT ![p] = r] /\ r.op = "storing" /\ shown' = shown
    BY <1>7, <2>1 DEF Hold, LoadPrepared
  <2> HIDE DEF r
  <2> QED
    BY <1>2, <2>2
<1>8. ASSUME NEW p \in Pages,
             \/ Start(p) \/ SaveAnswer(p) \/ SaveTime(p) \/ GiveUp(p)
             \/ \E q \in Questions, o \in Options : Submit(p, q, o)
      PROVE  ShownOK'
  <2>1. PICK r : req' = [req EXCEPT ![p] = r] /\ r.op # "loading"
    BY <1>8 DEF Start, SaveAnswer, SaveTime, GiveUp, Submit, Hold, Idle
  <2>2. shown' = shown
    BY <1>8 DEF Start, SaveAnswer, SaveTime, GiveUp, Submit
  <2> QED
    BY <1>2, <2>1, <2>2
<1>9. ASSUME NEW p \in Pages, NEW t \in 0 .. Limit, SyncTime(p, t) PROVE ShownOK'
  <2>1. shown' = shown
    BY <1>9 DEF SyncTime
  <2>2. CASE t > Elapsed
    <3> DEFINE r == [op |-> "syncing", spent |-> t]
    <3>1. req' = [req EXCEPT ![p] = r] /\ r.op = "syncing"
      BY <1>9, <2>2 DEF SyncTime, Hold
    <3> HIDE DEF r
    <3> QED
      BY <1>2, <2>1, <3>1
  <2>3. CASE ~(t > Elapsed)
    BY <1>1, <1>9, <2>1, <2>3 DEF SyncTime, ShownOK
  <2> QED
    BY <2>2, <2>3
<1>10. CASE Tick \/ Complete \/ UNCHANGED vars
  BY <1>1, <1>10 DEF Tick, Complete, vars, pageVars, ShownOK
<1> QED
  BY <1>4, <1>5, <1>6, <1>7, <1>8, <1>9, <1>10 DEF Next

FairInv == IInv /\ MarkedBySnapshot /\ ShownOK

LEMMA FairInvariant ==
  ASSUME FairlyServed
  PROVE  Spec => []FairInv /\ SnapshotStands
<1>1. Init => ShownOK
  BY DEF Init, ShownOK, Idle
<1>2. CASE LoadFails = FALSE
  <2>1. MarksOK /\ ShownOK /\ [Next]_vars
          => MarksOK' /\ ShownOK' /\ [snapshot # NoSet => snapshot' = snapshot]_vars
    BY <1>2, MarksStep, Inductive, ShownStep DEF MarksOK, Stands, IInv
  <2>2. MarksOK /\ ShownOK => FairInv
    BY DEF MarksOK, FairInv
  <2> QED
    BY <1>1, <2>1, <2>2, MarksBegin, PTL DEF Spec, SnapshotStands
<1>3. CASE OnePage
  <2>1. TurnOK /\ ShownOK /\ [Next]_vars
          => TurnOK' /\ ShownOK' /\ [snapshot # NoSet => snapshot' = snapshot]_vars
    BY <1>3, TurnStep, Inductive, ShownStep DEF TurnOK, TurnStands, IInv
  <2>2. TurnOK /\ ShownOK => FairInv
    BY DEF TurnOK, FairInv
  <2> QED
    BY <1>1, <2>1, <2>2, TurnBegins, PTL DEF Spec, SnapshotStands
<1> QED
  BY <1>2, <1>3 DEF FairlyServed

\* Unless starts overlap and the prepared questions cannot be read, every
\* saved mark is by the questions that will be scored (submit_answer,
\* save_assessment_questions).
THEOREM MarksAreRight ==
  ASSUME FairlyServed
  PROVE  Spec => []MarkedBySnapshot
<1>1. FairInv => MarkedBySnapshot
  BY DEF FairInv
<1> QED
  BY <1>1, FairInvariant, PTL

\* Under the same condition a stored snapshot is never replaced, however
\* sessions begin, resume, fail and are given up
\* (start_assessment_with_token).
THEOREM SnapshotIsStable ==
  ASSUME FairlyServed
  PROVE  Spec => SnapshotStands
BY FairInvariant, PTL

\* Under the same condition every open page shows the questions that are
\* stored, the ones its answers are marked and scored by.
THEOREM PagesShowTheSnapshot ==
  ASSUME FairlyServed
  PROVE  Spec => [](\A p \in Pages : shown[p] \in {NoSet, snapshot})
<1>1. FairInv => \A p \in Pages : shown[p] \in {NoSet, snapshot}
  BY DEF FairInv, ShownOK
<1> QED
  BY <1>1, FairInvariant, PTL

\* Questions answered as the snapshot wants them.
RightlyAnswered ==
    {q \in Questions : /\ responses[q] # Unanswered
                       /\ q \in DOMAIN Key[snapshot]
                       /\ responses[q].chosen = Key[snapshot][q]}

\* Under the same condition the score of a completed assessment is the number
\* of questions answered right: calculate_and_store_scores counts the marks it
\* finds and caps the sum at the questions assigned, and the cap takes nothing.
THEOREM ScoreCountsRightAnswers ==
  ASSUME FairlyServed
  PROVE  Spec => [](status = "completed" => score = Cardinality(RightlyAnswered))
<1>1. FairInv => (status = "completed" => score = Cardinality(RightlyAnswered))
  <2> SUFFICES ASSUME FairInv, status = "completed"
               PROVE  score = Cardinality(RightlyAnswered)
    OBVIOUS
  <2> DEFINE marked == {q \in Questions : responses[q].right}
             assigned == DOMAIN Key[snapshot]
  <2>1. snapshot \in Sets /\ score = Tally
    BY DEF FairInv, IInv, TypeOK, ScoreIsOfTheRows
  <2>2. \A q \in Questions : responses[q] = Unanswered => ~responses[q].right
    BY DEF Unanswered
  <2>3. marked = RightlyAnswered
    BY <2>2 DEF FairInv, MarkedBySnapshot, RightlyAnswered
  <2>4. marked \subseteq assigned /\ assigned \subseteq Questions
    BY <2>1, <2>3, SetsAssumption DEF RightlyAnswered
  <2>5. IsFiniteSet(assigned) /\ IsFiniteSet(marked)
    BY <2>4, QuestionsAssumption, FS_Subset
  <2>6. /\ Cardinality(marked) \in Nat /\ Cardinality(assigned) \in Nat
        /\ Cardinality(marked) <= Cardinality(assigned)
    BY <2>4, <2>5, FS_Subset, FS_CardinalityType
  <2>7. Tally = IF Cardinality(marked) > Cardinality(assigned)
                  THEN Cardinality(assigned) ELSE Cardinality(marked)
    BY DEF Tally
  <2> HIDE DEF marked, assigned
  <2> QED
    BY <2>1, <2>3, <2>6, <2>7
<1> QED
  BY <1>1, FairInvariant, PTL

\* Once completed the rows are never written again: every write of a page in
\* flight finds the assessment no longer active (_lock_active_assessment).
THEOREM CompletedIsFrozen == Spec => [][status = "completed" => UNCHANGED rowVars]_vars
<1>1. [Next]_vars => [status = "completed" => UNCHANGED rowVars]_vars
  <2> SUFFICES ASSUME [Next]_vars, status = "completed" PROVE UNCHANGED rowVars
    OBVIOUS
  <2>1. ~Active /\ ~MayWrite /\ status \notin {"absent", "in_progress"}
    BY DEF Active, MayWrite
  <2> QED
    BY <2>1 DEF Next, vars, Start, ReadStored, LoadStored, LoadPrepared,
       StoreQuestions,
       SaveAnswer, SaveTime, GiveUp, Submit, SyncTime, Tick, Complete, rowVars
<1> QED
  BY <1>1, PTL DEF Spec

-----------------------------------------------------------------------------
\* The session as the lifecycle sees it

\* What the lifecycle sees is a matter of yes or no.
LEMMA FlagsAre ==
  /\ Late \in BOOLEAN /\ Late' \in BOOLEAN
  /\ Starting \in BOOLEAN /\ Starting' \in BOOLEAN
BY DEF Late, Starting

\* Changes of what it sees, and the steps it takes them for
LEMMA SeenStarted ==
  ASSUME status \in {"absent", "in_progress"}, ~Late, status' = "in_progress", ~Late',
         snapshot' = snapshot, Starting' = (snapshot = NoSet), Starting => snapshot = NoSet
  PROVE  Lifecycle!StartAssessment(Invitation)
BY FlagsAre DEF Lifecycle!StartAssessment, Lifecycle!Resolves,
   Lifecycle!ActiveStatuses, Lifecycle!candVars, Lifecycle!mailVars,
   Lifecycle!rowKeys, Lifecycle!reqVars

LEMMA SeenSame ==
  ASSUME UNCHANGED <<status, Late, snapshot # NoSet, Starting>>
  PROVE  UNCHANGED Lifecycle!vars
BY FlagsAre DEF Lifecycle!vars, Lifecycle!candVars, Lifecycle!mailVars,
   Lifecycle!schedVars, Lifecycle!asmtVars,
   Lifecycle!rowKeys, Lifecycle!reqVars

LEMMA SeenLate ==
  ASSUME status = "in_progress", ~Late, Late', UNCHANGED <<status, snapshot # NoSet, Starting>>
  PROVE  Lifecycle!TimeRunsOut(Invitation)
BY FlagsAre DEF Lifecycle!TimeRunsOut, Lifecycle!candVars, Lifecycle!mailVars,
   Lifecycle!schedVars, Lifecycle!asmtVars,
   Lifecycle!rowKeys, Lifecycle!reqVars

LEMMA SeenSaved ==
  ASSUME Starting, status = "in_progress", ~Late, snapshot' # NoSet, ~Starting',
         UNCHANGED <<status, Late>>
  PROVE  Lifecycle!SaveQuestions(Invitation)
BY FlagsAre DEF Lifecycle!SaveQuestions, Lifecycle!candVars, Lifecycle!mailVars,
   Lifecycle!schedVars, Lifecycle!asmtVars,
   Lifecycle!rowKeys, Lifecycle!reqVars

LEMMA SeenAbandoned ==
  ASSUME Starting, ~Starting', UNCHANGED <<status, Late, snapshot # NoSet>>
  PROVE  Lifecycle!StartAbandoned(Invitation)
BY FlagsAre DEF Lifecycle!StartAbandoned, Lifecycle!candVars, Lifecycle!mailVars,
   Lifecycle!schedVars, Lifecycle!asmtVars,
   Lifecycle!rowKeys, Lifecycle!reqVars

LEMMA SeenCompleted ==
  ASSUME status = "in_progress", snapshot # NoSet, status' = "completed",
         UNCHANGED <<Late, snapshot, Starting>>
  PROVE  Lifecycle!Complete(Invitation)
BY FlagsAre DEF Lifecycle!Complete, Lifecycle!Resolves, Lifecycle!candVars,
   Lifecycle!mailVars, Lifecycle!schedVars, Lifecycle!asmtVars,
   Lifecycle!rowKeys, Lifecycle!reqVars, Lifecycle!FinalStatuses

-----------------------------------------------------------------------------
\* A start that read questions read stored ones.
LoadedStored ==
    \A p \in Pages : req[p].op = "loading" /\ req[p].own # NoSet => snapshot # NoSet

\* The request of each page but p stays, and questions once stored stay stored.
LEMMA LoadedStep ==
  ASSUME TypeOK, LoadedStored, [Next]_vars
  PROVE  LoadedStored' /\ (snapshot # NoSet => snapshot' # NoSet)
<1>1. snapshot # NoSet => snapshot' # NoSet
  <2>1. ASSUME NEW p \in Pages, StoreQuestions(p) PROVE snapshot' # NoSet
    <3>1. req[p].op = "storing" /\ snapshot' = req[p].own /\ req[p] \in Requests
      BY <2>1 DEF StoreQuestions, TypeOK
    <3> QED
      BY <3>1, RequestFields, SetsAssumption
  <2> QED
    BY <2>1 DEF Next, vars, rowVars, Start, ReadStored, LoadStored,
       LoadPrepared, SaveAnswer,
       SaveTime, GiveUp, Submit, SyncTime, Tick, Complete
<1>2. ASSUME NEW p \in Pages, NEW r, req' = [req EXCEPT ![p] = r],
             r.op = "loading" /\ r.own # NoSet => snapshot # NoSet
      PROVE  LoadedStored'
  BY <1>1, <1>2 DEF LoadedStored, TypeOK
<1>3. ASSUME NEW p \in Pages, ReadStored(p) PROVE LoadedStored'
  <2> DEFINE r == IF req[p].resume
                    THEN [op |-> "loading", own |-> snapshot, spent |-> Elapsed]
                    ELSE [op |-> "loading", own |-> NoSet, spent |-> 0]
  <2>1. req' = [req EXCEPT ![p] = r] /\ r.own \in {NoSet, snapshot}
    BY <1>3 DEF ReadStored, Hold
  <2> HIDE DEF r
  <2> QED
    BY <1>2, <2>1
<1>4. ASSUME NEW p \in Pages, LoadPrepared(p) PROVE LoadedStored'
  <2>1. PICK k \in IF LoadFails THEN Sets ELSE {Prepared} :
               Hold(p, [op |-> "storing", own |-> k, spent |-> req[p].spent])
    BY <1>4 DEF LoadPrepared
  <2> DEFINE r == [op |-> "storing", own |-> k, spent |-> req[p].spent]
  <2>2. req' = [req EXCEPT ![p] = r] /\ r.op = "storing"
    BY <2>1 DEF Hold
  <2> HIDE DEF r
  <2> QED
    BY <1>2, <2>2
<1>5. ASSUME NEW p \in Pages, NEW t \in 0 .. Limit, SyncTime(p, t) PROVE LoadedStored'
  <2>1. CASE t > Elapsed
    <3> DEFINE r == [op |-> "syncing", spent |-> t]
    <3>1. req' = [req EXCEPT ![p] = r] /\ r.op = "syncing"
      BY <1>5, <2>1 DEF SyncTime, Hold
    <3> HIDE DEF r
    <3> QED
      BY <1>2, <3>1
  <2>2. CASE ~(t > Elapsed)
    BY <1>1, <1>5, <2>2 DEF SyncTime, LoadedStored
  <2> QED
    BY <2>1, <2>2
<1>6. ASSUME NEW p \in Pages,
             \/ Start(p) \/ LoadStored(p) \/ StoreQuestions(p) \/ SaveAnswer(p) \/ SaveTime(p)
             \/ GiveUp(p) \/ \E q \in Questions, o \in Options : Submit(p, q, o)
      PROVE  LoadedStored'
  <2>1. PICK r : req' = [req EXCEPT ![p] = r] /\ r.op # "loading"
    BY <1>6 DEF Start, LoadStored, StoreQuestions, SaveAnswer, SaveTime,
       GiveUp, Submit, Show, Hold, Idle
  <2> QED
    BY <1>2, <2>1
<1>7. CASE Tick \/ Complete \/ UNCHANGED vars
  BY <1>1, <1>7 DEF Tick, Complete, vars, pageVars, LoadedStored
<1> QED
  BY <1>1, <1>3, <1>4, <1>5, <1>6, <1>7 DEF Next

\* A step that may end the last start in flight, and nothing else the
\* lifecycle knows of.
LEMMA SeenEnding ==
  ASSUME UNCHANGED <<status, Late, snapshot>>, Starting' => Starting
  PROVE  Lifecycle!CandidateStep \/ UNCHANGED Lifecycle!vars
<1>1. CASE Starting /\ ~Starting'
  BY <1>1, SeenAbandoned DEF Lifecycle!CandidateStep
<1>2. CASE ~(Starting /\ ~Starting')
  BY <1>2, SeenSame, FlagsAre
<1> QED
  BY <1>1, <1>2

LEMMA SeenStep ==
  ASSUME IInv, LoadedStored, [Next]_vars
  PROVE  Lifecycle!CandidateStep \/ UNCHANGED Lifecycle!vars
<1> USE DEF IInv
<1>1. ASSUME NEW p \in Pages, Start(p) PROVE Lifecycle!CandidateStep
  <2>1. /\ status \in {"absent", "in_progress"} /\ status' = "in_progress"
        /\ UNCHANGED <<snapshot, elapsed, clock>> /\ ~Late
        /\ req'[p].op = "starting"
    BY <1>1 DEF Start, Hold, TypeOK
  <2>2. Late' = Late
    BY <2>1 DEF Late, Elapsed
  <2>3. Starting' = (snapshot = NoSet)
    BY <2>1 DEF Starting
  <2> QED
    BY <2>1, <2>2, <2>3, SeenStarted DEF Lifecycle!CandidateStep, Starting
<1>2. ASSUME NEW p \in Pages, ReadStored(p) \/ LoadStored(p) \/ LoadPrepared(p)
      PROVE  Lifecycle!CandidateStep \/ UNCHANGED Lifecycle!vars
  <2>1. /\ UNCHANGED <<status, snapshot, elapsed, clock>>
        /\ req[p].op \in {"starting", "loading"}
        /\ \A x \in Pages \ {p} : req'[x] = req[x]
    BY <1>2 DEF ReadStored, LoadStored, LoadPrepared, Show, Hold, rowVars, TypeOK
  <2>2. Late' = Late
    BY <2>1 DEF Late, Elapsed
  <2>3. Starting' => Starting
    BY <2>1 DEF Starting
  <2> QED
    BY <2>1, <2>2, <2>3, SeenEnding
<1>3. ASSUME NEW p \in Pages, StoreQuestions(p)
      PROVE  Lifecycle!CandidateStep \/ UNCHANGED Lifecycle!vars
  <2>1. /\ UNCHANGED <<status, elapsed, clock>> /\ status = "in_progress" /\ ~Late
        /\ req[p].op = "storing" /\ snapshot' = req[p].own /\ req[p] \in Requests
    BY <1>3 DEF StoreQuestions, MayWrite, Active, TypeOK
  <2>2. Late' = Late
    BY <2>1 DEF Late, Elapsed
  <2>3. snapshot' # NoSet /\ ~Starting'
    BY <2>1, RequestFields, SetsAssumption DEF Starting
  <2>4. CASE snapshot = NoSet
    BY <2>1, <2>2, <2>3, <2>4, SeenSaved DEF Starting, Lifecycle!CandidateStep
  <2>5. CASE snapshot # NoSet
    BY <2>1, <2>2, <2>3, <2>5, SeenSame DEF Starting
  <2> QED
    BY <2>4, <2>5
<1>4. ASSUME NEW p \in Pages, GiveUp(p)
      PROVE  Lifecycle!CandidateStep \/ UNCHANGED Lifecycle!vars
  <2>1. /\ UNCHANGED <<status, snapshot, elapsed, clock>>
        /\ req'[p].op = "idle" /\ \A x \in Pages \ {p} : req'[x] = req[x]
    BY <1>4 DEF GiveUp, Hold, Idle, rowVars, TypeOK
  <2>2. Late' = Late
    BY <2>1 DEF Late, Elapsed
  <2>3. Starting' => Starting
    BY <2>1 DEF Starting
  <2> QED
    BY <2>1, <2>2, <2>3, SeenEnding
<1>5. ASSUME NEW p \in Pages,
             \/ SaveAnswer(p)
             \/ \E q \in Questions, o \in Options : Submit(p, q, o)
             \/ \E t \in 0 .. Limit : SyncTime(p, t)
      PROVE  UNCHANGED Lifecycle!vars
  <2>1. /\ UNCHANGED <<status, snapshot, elapsed, clock>>
        /\ req[p].op \in {"idle", "marking"}
        /\ req'[p].op \in {"idle", "marking", "syncing"}
        /\ \A x \in Pages \ {p} : req'[x] = req[x]
    BY <1>5 DEF SaveAnswer, Submit, SyncTime, Hold, Idle, rowVars, TypeOK
  <2>2. Late' = Late
    BY <2>1 DEF Late, Elapsed
  <2>3. Starting' = Starting
    BY <2>1 DEF Starting
  <2> QED
    BY <2>1, <2>2, <2>3, SeenSame
<1>6. ASSUME NEW p \in Pages, SaveTime(p)
      PROVE  Lifecycle!CandidateStep \/ UNCHANGED Lifecycle!vars
  <2>1. /\ UNCHANGED <<status, snapshot>> /\ status = "in_progress" /\ ~Late
        /\ req[p].op = "syncing" /\ req'[p].op = "idle"
        /\ \A x \in Pages \ {p} : req'[x] = req[x]
    BY <1>6 DEF SaveTime, MayWrite, Active, Hold, Idle, TypeOK
  <2>2. Starting' = Starting
    BY <2>1 DEF Starting
  <2> QED
    BY <2>1, <2>2, SeenSame, SeenLate, FlagsAre DEF Lifecycle!CandidateStep
<1>7. CASE Tick
  <2>1. UNCHANGED <<status, snapshot, elapsed, req>> /\ status = "in_progress" /\ clock' = clock + 1
    BY <1>7 DEF Tick, Active, rowVars, pageVars
  <2>2. Late => Late'
    BY <2>1, LimitAssumption DEF Late, Elapsed, Later, TypeOK
  <2>3. Starting' = Starting
    BY <2>1 DEF Starting
  <2> QED
    BY <2>1, <2>2, <2>3, SeenSame, SeenLate, FlagsAre DEF Lifecycle!CandidateStep
<1>8. CASE Complete
  <2>1. /\ status = "in_progress" /\ snapshot # NoSet /\ status' = "completed"
        /\ UNCHANGED <<snapshot, clock, req>>
        /\ elapsed' = IF Elapsed > Limit THEN Limit ELSE Elapsed
    BY <1>8 DEF Complete, Active, pageVars
  <2>2. Late' = Late
    BY <2>1, LimitAssumption DEF Late, Elapsed, Later, TypeOK
  <2>3. Starting' = Starting
    BY <2>1 DEF Starting
  <2> QED
    BY <2>1, <2>2, <2>3, SeenCompleted DEF Lifecycle!CandidateStep
<1>9. CASE UNCHANGED vars
  <2>1. UNCHANGED <<status, snapshot, elapsed, clock, req>>
    BY <1>9 DEF vars, rowVars, pageVars
  <2>2. Late' = Late /\ Starting' = Starting
    BY <2>1 DEF Late, Elapsed, Starting
  <2> QED
    BY <2>1, <2>2, SeenSame
<1> QED
  BY <1>1, <1>2, <1>3, <1>4, <1>5, <1>6, <1>7, <1>8, <1>9 DEF Next

\* The session implements the candidate's part of the lifecycle.
THEOREM SessionImplementsLifecycle == Spec => SessionKeepsLifecycle
<1>1. Init => LoadedStored
  BY DEF Init, LoadedStored, Idle
<1>2. IInv /\ LoadedStored /\ [Next]_vars
        => LoadedStored' /\ [Lifecycle!CandidateStep]_(Lifecycle!vars)
  BY LoadedStep, SeenStep DEF IInv
<1> QED
  BY <1>1, <1>2, Invariant, PTL DEF Spec, SessionKeepsLifecycle
=============================================================================
