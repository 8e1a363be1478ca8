------------------------ MODULE DatabaseAccessProofs ------------------------
(***************************************************************************)
(* Proofs of the properties of DatabaseAccess for any threads, bounds of   *)
(* the pool, order of mail providers and legacy databases.                 *)
(*                                                                         *)
(* A step of the whole is a step of each part or leaves it alone, so the   *)
(* pool's invariant holds here too.  A mail's copies are counted against   *)
(* its silent attempts and the turns it has taken.  What the pool trusted  *)
(* when it was built stays so because a migration only takes away.         *)
(***************************************************************************)
EXTENDS DatabaseAccess, ConnectionPoolProofs

-----------------------------------------------------------------------------
\* The steps of the parts

LEMMA PoolPart == [Next]_dbVars => [PoolNext]_poolVars
<1> SUFFICES ASSUME [Next]_dbVars PROVE [PoolNext]_poolVars
  OBVIOUS
<1>1. ASSUME NEW t \in Threads, AskToWork(t) \/ Work(t) \/ BuildChecked(t)
                                \/ GetConnection(t) \/ ReturnConnection(t)
      PROVE  PoolNext
  BY <1>1 DEF AskToWork, Work, BuildChecked, GetConnection, ReturnConnection, PoolNext, Checkout
<1>2. ASSUME NEW t \in Senders, DeliverMail(t) \/ AskToLog(t) \/ InsertLog(t) \/ LogUnavailable(t)
      PROVE  PoolNext \/ UNCHANGED poolVars
  BY <1>2, SendersAssumption DEF DeliverMail, AskToLog, InsertLog, LogUnavailable, PoolNext
<1>3. MigrateDatabase \/ ServerCloses => PoolNext \/ UNCHANGED poolVars
  BY DEF MigrateDatabase, ServerCloses, PoolNext
<1>4. UNCHANGED dbVars => UNCHANGED poolVars
  BY DEF dbVars
<1> QED
  BY <1>1, <1>2, <1>3, <1>4 DEF Next

LEMMA MailPart == [Next]_dbVars => [MailNext]_mailVars
<1> SUFFICES ASSUME [Next]_dbVars PROVE [MailNext]_mailVars
  OBVIOUS
<1>1. ASSUME NEW t \in Threads, AskToWork(t) \/ Work(t) \/ BuildChecked(t)
                                \/ GetConnection(t) \/ ReturnConnection(t)
      PROVE  UNCHANGED mailVars
  BY <1>1 DEF AskToWork, Work, BuildChecked, GetConnection, ReturnConnection
<1>2. ASSUME NEW t \in Senders, DeliverMail(t) \/ AskToLog(t) \/ InsertLog(t) \/ LogUnavailable(t)
      PROVE  MailNext
  BY <1>2 DEF DeliverMail, AskToLog, InsertLog, LogUnavailable, MailNext
<1>3. MigrateDatabase \/ ServerCloses => UNCHANGED mailVars
  BY DEF MigrateDatabase, ServerCloses
<1>4. UNCHANGED dbVars => UNCHANGED mailVars
  BY DEF dbVars
<1> QED
  BY <1>1, <1>2, <1>3, <1>4 DEF Next

LEMMA MigrationPart == [Next]_dbVars => [MigrationNext]_schemaVars
<1> SUFFICES ASSUME [Next]_dbVars PROVE [MigrationNext]_schemaVars
  OBVIOUS
<1>1. ASSUME NEW t \in Threads, AskToWork(t) \/ Work(t) \/ BuildChecked(t)
                                \/ GetConnection(t) \/ ReturnConnection(t)
      PROVE  UNCHANGED schemaVars
  BY <1>1 DEF AskToWork, Work, BuildChecked, GetConnection, ReturnConnection
<1>2. ASSUME NEW t \in Senders, DeliverMail(t) \/ AskToLog(t) \/ InsertLog(t) \/ LogUnavailable(t)
      PROVE  UNCHANGED schemaVars
  BY <1>2 DEF DeliverMail, AskToLog, InsertLog, LogUnavailable
<1>3. MigrateDatabase \/ ServerCloses => MigrationNext \/ UNCHANGED schemaVars
  BY DEF MigrateDatabase, ServerCloses
<1>4. UNCHANGED dbVars => UNCHANGED schemaVars
  BY DEF dbVars
<1> QED
  BY <1>1, <1>2, <1>3, <1>4 DEF Next

-----------------------------------------------------------------------------
\* The mail

\* What is so of each mail: every turn has at most two silent attempts, the
\* second over SSL; until it is reported nothing is said of it; and demo mode
\* sends none.
Said(t) ==
    /\ stage[t] \in Stages /\ result[t] \in BOOLEAN /\ row[t] \in {"none", "sent", "failed"}
    /\ stage[t] \in {"unsent", "trying", "ssl"} => ~result[t] /\ row[t] = "none"
    /\ stage[t] \in {"trying", "ssl"} => ~demo
    /\ row[t] # "none" => stage[t] = "done" /\ (row[t] = "sent" <=> result[t])

Tallied(t) ==
    /\ turn[t] \in Nat /\ turn[t] >= 1 /\ turn[t] <= Len(Order) + 1
    /\ copies[t] \in Nat /\ silent[t] \in Nat /\ silent[t] <= 2 * Len(Order)
    /\ stage[t] \in {"unsent", "trying"} => silent[t] <= 2 * (turn[t] - 1)
    /\ stage[t] = "ssl" => turn[t] <= Len(Order) /\ silent[t] <= 2 * (turn[t] - 1) + 1
    /\ copies[t] <= silent[t] + 1
    /\ IF result[t] /\ ~demo
         THEN silent[t] + 1 <= 2 * Len(Order) /\ copies[t] > 0
         ELSE copies[t] <= silent[t]

MailOK(t) == Said(t) /\ Tallied(t)

MailFunctions ==
    /\ demo \in BOOLEAN
    /\ DOMAIN stage = Senders /\ stage = [t \in Senders |-> stage[t]]
    /\ DOMAIN turn = Senders /\ turn = [t \in Senders |-> turn[t]]
    /\ DOMAIN copies = Senders /\ copies = [t \in Senders |-> copies[t]]
    /\ DOMAIN silent = Senders /\ silent = [t \in Senders |-> silent[t]]
    /\ DOMAIN result = Senders /\ result = [t \in Senders |-> result[t]]
    /\ DOMAIN row = Senders /\ row = [t \in Senders |-> row[t]]

MailInv == MailFunctions /\ \A t \in Senders : MailOK(t)

LEMMA Providers == Len(Order) \in Nat
BY OrderAssumption

LEMMA MailInvInit == MailInit => MailInv
<1> SUFFICES ASSUME MailInit PROVE MailInv
  OBVIOUS
<1>1. MailFunctions
  BY DEF MailInit, MailFunctions
<1>2. ASSUME NEW t \in Senders PROVE MailOK(t)
  BY Providers DEF MailInit, MailOK, Said, Tallied, Stages
<1> QED
  BY <1>1, <1>2 DEF MailInv

\* A step changes one mail.
OnlyMail(t) ==
    /\ UNCHANGED demo
    /\ stage' = [stage EXCEPT ![t] = stage'[t]]
    /\ turn' = [turn EXCEPT ![t] = turn'[t]]
    /\ copies' = [copies EXCEPT ![t] = copies'[t]]
    /\ silent' = [silent EXCEPT ![t] = silent'[t]]
    /\ result' = [result EXCEPT ![t] = result'[t]]
    /\ row' = [row EXCEPT ![t] = row'[t]]

LEMMA OneMail ==
  ASSUME MailInv, NEW t \in Senders, OnlyMail(t), MailOK(t)'
  PROVE  MailInv'
<1>1. MailFunctions'
  BY DEF MailInv, MailFunctions, OnlyMail
<1>2. ASSUME NEW u \in Senders, u # t PROVE MailOK(u)'
  <2>1. /\ stage'[u] = stage[u] /\ turn'[u] = turn[u] /\ copies'[u] = copies[u]
        /\ silent'[u] = silent[u] /\ result'[u] = result[u] /\ row'[u] = row[u] /\ demo' = demo
    BY <1>2 DEF MailInv, MailFunctions, OnlyMail
  <2> QED
    BY <2>1 DEF MailOK, Said, Tallied, MailInv
<1> QED
  BY <1>1, <1>2 DEF MailInv

\* A step that asks no provider leaves the tally alone.
LEMMA TallyStays ==
  ASSUME NEW t \in Senders, Tallied(t), demo' = demo, turn'[t] = turn[t],
         copies'[t] = copies[t], silent'[t] = silent[t], result'[t] = result[t],
         stage'[t] # "ssl", stage'[t] = "trying" => stage[t] \in {"unsent", "trying"},
         stage'[t] # "unsent"
  PROVE  Tallied(t)'
BY DEF Tallied

LEMMA MailInvNext ==
  ASSUME MailInv, [MailNext]_mailVars
  PROVE  MailInv'
<1>1. ASSUME NEW t \in Senders, Deliver(t) \/ BeginLog(t) \/ LogRow(t) \/ LoseRow(t)
      PROVE  MailInv'
  <2>0. MailFunctions /\ MailOK(t)
    BY DEF MailInv
  <2>1. CASE Send(t) /\ stage[t] = "unsent"
    <3>1. OnlyMail(t)
      BY <2>0, <2>1 DEF MailFunctions, OnlyMail, Send, Enter, attemptVars
    <3>2. /\ stage'[t] = "trying" /\ demo' = demo
          /\ turn'[t] = turn[t] /\ copies'[t] = copies[t] /\ silent'[t] = silent[t]
          /\ result'[t] = result[t] /\ row'[t] = row[t]
          /\ stage[t] = "unsent" /\ ~demo
      BY <2>0, <2>1 DEF MailFunctions, MailOK, Said, Tallied, Send, Enter, attemptVars
    <3>3. Said(t)'
      BY <2>0, <3>2 DEF MailOK, Said, Stages
    <3>4. Tallied(t)'
      BY <2>0, <3>2, TallyStays DEF MailOK
    <3> QED
      BY <3>1, <3>3, <3>4, OneMail DEF MailOK
  <2>2. CASE SendInDemo(t) /\ stage[t] = "unsent"
    <3>1. OnlyMail(t)
      BY <2>0, <2>2 DEF MailFunctions, OnlyMail, SendInDemo, Report, Enter, attemptVars
    <3>2. /\ stage'[t] = "logging" /\ demo' = demo
          /\ turn'[t] = turn[t] /\ copies'[t] = copies[t] /\ silent'[t] = silent[t]
          /\ result'[t] = TRUE /\ row'[t] = row[t]
          /\ stage[t] = "unsent" /\ demo
      BY <2>0, <2>2 DEF MailFunctions, MailOK, Said, Tallied, SendInDemo, Report, Enter, attemptVars
    <3>3. Said(t)'
      BY <2>0, <3>2 DEF MailOK, Said, Stages
    <3>4. Tallied(t)'
      BY <2>0, <3>2, Providers DEF MailOK, Said, Tallied
    <3> QED
      BY <3>1, <3>3, <3>4, OneMail DEF MailOK
  <2>3. CASE RefuseInput(t) /\ stage[t] = "unsent"
    <3>1. OnlyMail(t)
      BY <2>0, <2>3 DEF MailFunctions, OnlyMail, RefuseInput, Report, Enter, attemptVars
    <3>2. /\ stage'[t] = "logging" /\ demo' = demo
          /\ turn'[t] = turn[t] /\ copies'[t] = copies[t] /\ silent'[t] = silent[t]
          /\ result'[t] = FALSE /\ row'[t] = row[t]
          /\ stage[t] = "unsent"
      BY <2>0, <2>3 DEF MailFunctions, MailOK, Said, Tallied, RefuseInput, Report, Enter, attemptVars
    <3>3. Said(t)'
      BY <2>0, <3>2 DEF MailOK, Said, Stages
    <3>4. Tallied(t)'
      BY <2>0, <3>2, Providers DEF MailOK, Said, Tallied
    <3> QED
      BY <3>1, <3>3, <3>4, OneMail DEF MailOK
  <2>4. CASE Accept(t)
    <3>1. OnlyMail(t)
      BY <2>0, <2>4 DEF MailFunctions, OnlyMail, Accept, Report, Enter, Count
    <3>2. /\ stage'[t] = "logging" /\ demo' = demo
          /\ turn'[t] = turn[t] /\ copies'[t] = copies[t] + 1 /\ silent'[t] = silent[t]
          /\ result'[t] = TRUE /\ row'[t] = row[t]
          /\ stage[t] \in {"trying", "ssl"} /\ turn[t] <= Len(Order)
      BY <2>0, <2>4 DEF MailFunctions, MailOK, Said, Tallied, Accept, Report, Enter, Count
    <3>3. Said(t)'
      BY <2>0, <3>2 DEF MailOK, Said, Stages
    <3>4. Tallied(t)'
      <4>1. /\ turn[t] \in Nat /\ turn[t] >= 1 /\ copies[t] \in Nat /\ silent[t] \in Nat
            /\ silent[t] <= 2 * (turn[t] - 1) + 1 /\ copies[t] <= silent[t] /\ ~result[t] /\ ~demo
        BY <2>0, <3>2 DEF MailOK, Said, Tallied
      <4>2. turn'[t] \in Nat /\ turn'[t] >= 1 /\ turn'[t] <= Len(Order) + 1
        BY <3>2, <4>1, Providers
      <4>3. silent'[t] \in Nat /\ silent'[t] <= 2 * Len(Order)
        BY <3>2, <4>1, Providers
      <4>4. copies'[t] \in Nat /\ copies'[t] <= silent'[t] + 1 /\ copies'[t] > 0
        BY <3>2, <4>1
      <4>5. silent'[t] + 1 <= 2 * Len(Order)
        BY <3>2, <4>1, Providers
      <4> QED
        BY <3>2, <4>1, <4>2, <4>3, <4>5, <4>4 DEF Tallied
    <3> QED
      BY <3>1, <3>3, <3>4, OneMail DEF MailOK
  <2>5. CASE Decline(t)
    <3>1. OnlyMail(t)
      BY <2>0, <2>5 DEF MailFunctions, OnlyMail, Decline, Enter, Count
    <3>2. /\ stage'[t] = "trying" /\ demo' = demo
          /\ turn'[t] = turn[t] + 1 /\ copies'[t] = copies[t] /\ silent'[t] = silent[t]
          /\ result'[t] = result[t] /\ row'[t] = row[t]
          /\ stage[t] \in {"trying", "ssl"} /\ turn[t] <= Len(Order)
      BY <2>0, <2>5 DEF MailFunctions, MailOK, Said, Tallied, Decline, Enter, Count
    <3>3. Said(t)'
      BY <2>0, <3>2 DEF MailOK, Said, Stages
    <3>4. Tallied(t)'
      <4>1. /\ turn[t] \in Nat /\ turn[t] >= 1 /\ copies[t] \in Nat /\ silent[t] \in Nat
            /\ silent[t] <= 2 * (turn[t] - 1) + 1 /\ copies[t] <= silent[t] /\ ~result[t]
        BY <2>0, <3>2 DEF MailOK, Said, Tallied
      <4>2. turn'[t] \in Nat /\ turn'[t] >= 1 /\ turn'[t] <= Len(Order) + 1
        BY <3>2, <4>1, Providers
      <4>3. silent'[t] <= 2 * Len(Order) /\ silent'[t] <= 2 * (turn'[t] - 1)
        BY <3>2, <4>1, Providers
      <4>4. copies'[t] <= silent'[t] /\ copies'[t] <= silent'[t] + 1
        BY <3>2, <4>1
      <4> QED
        BY <3>2, <4>1, <4>2, <4>3, <4>4 DEF Tallied
    <3> QED
      BY <3>1, <3>3, <3>4, OneMail DEF MailOK
  <2>6. CASE BreakSmtp(t) /\ SslRetry
    <3>1. OnlyMail(t)
      BY <2>0, <2>6 DEF MailFunctions, OnlyMail, BreakSmtp, Provider, Enter, Count
    <3>2. /\ stage'[t] = "ssl" /\ demo' = demo
          /\ turn'[t] = turn[t] /\ copies'[t] \in {copies[t], copies[t] + 1} /\ silent'[t] = silent[t] + 1
          /\ result'[t] = result[t] /\ row'[t] = row[t]
          /\ stage[t] = "trying" /\ turn[t] <= Len(Order)
      BY <2>0, <2>6 DEF MailFunctions, MailOK, Said, Tallied, BreakSmtp, Provider, Enter, Count
    <3>3. Said(t)'
      BY <2>0, <3>2 DEF MailOK, Said, Stages
    <3>4. Tallied(t)'
      <4>1. /\ turn[t] \in Nat /\ turn[t] >= 1 /\ copies[t] \in Nat /\ silent[t] \in Nat
            /\ silent[t] <= 2 * (turn[t] - 1) /\ copies[t] <= silent[t] /\ ~result[t] /\ ~demo
        BY <2>0, <3>2 DEF MailOK, Said, Tallied
      <4>2. turn'[t] \in Nat /\ turn'[t] >= 1 /\ turn'[t] <= Len(Order) + 1
        BY <3>2, <4>1, Providers
      <4>3. silent'[t] \in Nat /\ silent'[t] <= 2 * Len(Order)
        BY <3>2, <4>1, Providers
      <4>4. copies'[t] \in Nat /\ copies'[t] <= silent'[t] /\ copies'[t] <= silent'[t] + 1
        BY <3>2, <4>1
      <4>5. silent'[t] <= 2 * (turn'[t] - 1) + 1
        BY <3>2, <4>1, Providers
      <4> QED
        BY <3>2, <4>1, <4>2, <4>3, <4>5, <4>4 DEF Tallied
    <3> QED
      BY <3>1, <3>3, <3>4, OneMail DEF MailOK
  <2>7. CASE BreakSmtp(t) /\ ~SslRetry
    <3>1. OnlyMail(t)
      BY <2>0, <2>7 DEF MailFunctions, OnlyMail, BreakSmtp, Provider, Enter, Count
    <3>2. /\ stage'[t] = "trying" /\ demo' = demo
          /\ turn'[t] = turn[t] + 1 /\ copies'[t] \in {copies[t], copies[t] + 1} /\ silent'[t] = silent[t] + 1
          /\ result'[t] = result[t] /\ row'[t] = row[t]
          /\ stage[t] = "trying" /\ turn[t] <= Len(Order)
      BY <2>0, <2>7 DEF MailFunctions, MailOK, Said, Tallied, BreakSmtp, Provider, Enter, Count
    <3>3. Said(t)'
      BY <2>0, <3>2 DEF MailOK, Said, Stages
    <3>4. Tallied(t)'
      <4>1. /\ turn[t] \in Nat /\ turn[t] >= 1 /\ copies[t] \in Nat /\ silent[t] \in Nat
            /\ silent[t] <= 2 * (turn[t] - 1) /\ copies[t] <= silent[t] /\ ~result[t] /\ ~demo
        BY <2>0, <3>2 DEF MailOK, Said, Tallied
      <4>2. turn'[t] \in Nat /\ turn'[t] >= 1 /\ turn'[t] <= Len(Order) + 1
        BY <3>2, <4>1, Providers
      <4>3. silent'[t] \in Nat /\ silent'[t] <= 2 * Len(Order)
        BY <3>2, <4>1, Providers
      <4>4. copies'[t] \in Nat /\ copies'[t] <= silent'[t] /\ copies'[t] <= silent'[t] + 1
        BY <3>2, <4>1
      <4>5. silent'[t] <= 2 * (turn'[t] - 1)
        BY <3>2, <4>1, Providers
      <4> QED
        BY <3>2, <4>1, <4>2, <4>3, <4>5, <4>4 DEF Tallied
    <3> QED
      BY <3>1, <3>3, <3>4, OneMail DEF MailOK
  <2>8. CASE Fall(t)
    <3>1. OnlyMail(t)
      BY <2>0, <2>8 DEF MailFunctions, OnlyMail, Fall, Provider, Enter, Count
    <3>2. /\ stage'[t] = "trying" /\ demo' = demo
          /\ turn'[t] = turn[t] + 1 /\ copies'[t] \in {copies[t], copies[t] + 1} /\ silent'[t] = silent[t] + 1
          /\ result'[t] = result[t] /\ row'[t] = row[t]
          /\ stage[t] \in {"trying", "ssl"} /\ turn[t] <= Len(Order)
      BY <2>0, <2>8 DEF MailFunctions, MailOK, Said, Tallied, Fall, Provider, Enter, Count
    <3>3. Said(t)'
      BY <2>0, <3>2 DEF MailOK, Said, Stages
    <3>4. Tallied(t)'
      <4>1. /\ turn[t] \in Nat /\ turn[t] >= 1 /\ copies[t] \in Nat /\ silent[t] \in Nat
            /\ silent[t] <= 2 * (turn[t] - 1) + 1 /\ copies[t] <= silent[t] /\ ~result[t] /\ ~demo
        BY <2>0, <3>2 DEF MailOK, Said, Tallied
      <4>2. turn'[t] \in Nat /\ turn'[t] >= 1 /\ turn'[t] <= Len(Order) + 1
        BY <3>2, <4>1, Providers
      <4>3. silent'[t] \in Nat /\ silent'[t] <= 2 * Len(Order)
        BY <3>2, <4>1, Providers
      <4>4. copies'[t] \in Nat /\ copies'[t] <= silent'[t] /\ copies'[t] <= silent'[t] + 1
        BY <3>2, <4>1
      <4>5. silent'[t] <= 2 * (turn'[t] - 1)
        BY <3>2, <4>1, Providers
      <4> QED
        BY <3>2, <4>1, <4>2, <4>3, <4>5, <4>4 DEF Tallied
    <3> QED
      BY <3>1, <3>3, <3>4, OneMail DEF MailOK
  <2>9. CASE GiveUp(t)
    <3>1. OnlyMail(t)
      BY <2>0, <2>9 DEF MailFunctions, OnlyMail, GiveUp, Report, Enter, attemptVars
    <3>2. /\ stage'[t] = "logging" /\ demo' = demo
          /\ turn'[t] = turn[t] /\ copies'[t] = copies[t] /\ silent'[t] = silent[t]
          /\ result'[t] = FALSE /\ row'[t] = row[t]
          /\ stage[t] = "trying"
      BY <2>0, <2>9 DEF MailFunctions, MailOK, Said, Tallied, GiveUp, Report, Enter, attemptVars
    <3>3. Said(t)'
      BY <2>0, <3>2 DEF MailOK, Said, Stages
    <3>4. Tallied(t)'
      <4>1. ~result[t]
        BY <2>0, <3>2 DEF MailOK, Said
      <4>2. result'[t] = result[t]
        BY <2>0, <3>2, <4>1 DEF MailOK, Said
      <4> QED
        BY <2>0, <3>2, <4>2, TallyStays DEF MailOK
    <3> QED
      BY <3>1, <3>3, <3>4, OneMail DEF MailOK
  <2>10. CASE BeginLog(t)
    <3>1. OnlyMail(t)
      BY <2>0, <2>10 DEF MailFunctions, OnlyMail, BeginLog, Enter, attemptVars
    <3>2. /\ stage'[t] = "inserting" /\ demo' = demo
          /\ turn'[t] = turn[t] /\ copies'[t] = copies[t] /\ silent'[t] = silent[t]
          /\ result'[t] = result[t] /\ row'[t] = row[t]
          /\ stage[t] = "logging"
      BY <2>0, <2>10 DEF MailFunctions, MailOK, Said, Tallied, BeginLog, Enter, attemptVars
    <3>3. Said(t)'
      BY <2>0, <3>2 DEF MailOK, Said, Stages
    <3>4. Tallied(t)'
      BY <2>0, <3>2, TallyStays DEF MailOK
    <3> QED
      BY <3>1, <3>3, <3>4, OneMail DEF MailOK
  <2>11. CASE LogRow(t)
    <3>1. OnlyMail(t)
      BY <2>0, <2>11 DEF MailFunctions, OnlyMail, LogRow, Enter, attemptVars
    <3>2. /\ stage'[t] = "done" /\ demo' = demo
          /\ turn'[t] = turn[t] /\ copies'[t] = copies[t] /\ silent'[t] = silent[t]
          /\ result'[t] = result[t] /\ row'[t] = (IF result[t] THEN "sent" ELSE "failed")
          /\ stage[t] = "inserting"
      BY <2>0, <2>11 DEF MailFunctions, MailOK, Said, Tallied, LogRow, Enter, attemptVars
    <3>3. Said(t)'
      BY <2>0, <3>2 DEF MailOK, Said, Stages
    <3>4. Tallied(t)'
      BY <2>0, <3>2, TallyStays DEF MailOK
    <3> QED
      BY <3>1, <3>3, <3>4, OneMail DEF MailOK
  <2>12. CASE LoseRow(t)
    <3>1. OnlyMail(t)
      BY <2>0, <2>12 DEF MailFunctions, OnlyMail, LoseRow, Enter, attemptVars
    <3>2. /\ stage'[t] = "done" /\ demo' = demo
          /\ turn'[t] = turn[t] /\ copies'[t] = copies[t] /\ silent'[t] = silent[t]
          /\ result'[t] = result[t] /\ row'[t] = row[t]
          /\ stage[t] = "inserting"
      BY <2>0, <2>12 DEF MailFunctions, MailOK, Said, Tallied, LoseRow, Enter, attemptVars
    <3>3. Said(t)'
      BY <2>0, <3>2 DEF MailOK, Said, Stages
    <3>4. Tallied(t)'
      BY <2>0, <3>2, TallyStays DEF MailOK
    <3> QED
      BY <3>1, <3>3, <3>4, OneMail DEF MailOK
  <2> QED
    BY <1>1, <2>1, <2>2, <2>3, <2>4, <2>5, <2>6, <2>7, <2>8, <2>9, <2>10, <2>11, <2>12
    DEF Deliver, SendRejection, SendInvitation, SendDecision, SendMail
<1>2. CASE UNCHANGED mailVars
  BY <1>2 DEF mailVars, attemptVars, MailInv, MailFunctions, MailOK, Said, Tallied
<1> QED
  BY <1>1, <1>2 DEF MailNext

\* A mail a provider has taken and said so is not tried again, and its report
\* stands.
SuccessEndsSending ==
    \A t \in Senders : result[t] => result'[t] /\ copies'[t] = copies[t] /\ silent'[t] = silent[t]

LEMMA MailStops ==
  ASSUME MailInv, [MailNext]_mailVars
  PROVE  SuccessEndsSending
<1> SUFFICES ASSUME NEW t \in Senders, result[t]
             PROVE  result'[t] /\ copies'[t] = copies[t] /\ silent'[t] = silent[t]
  BY DEF SuccessEndsSending
<1>0. MailFunctions /\ stage[t] \notin {"unsent", "trying", "ssl"}
  BY DEF MailInv, MailOK, Said
<1>1. ASSUME NEW u \in Senders, Deliver(u)
      PROVE  result'[t] /\ copies'[t] = copies[t] /\ silent'[t] = silent[t]
  <2>1. stage[u] \in {"unsent", "trying", "ssl"}
    BY <1>1 DEF Deliver, SendRejection, SendInvitation, SendDecision, Accept, Decline, BreakSmtp,
       Fall, GiveUp
  <2>2. u # t
    BY <1>0, <2>1
  <2> QED
    BY <1>0, <1>1, <2>2 DEF MailFunctions, Deliver, SendRejection, SendInvitation, SendDecision,
       SendMail, Send, SendInDemo, RefuseInput, Report, Enter, Accept, Decline, BreakSmtp, Fall,
       GiveUp, Count, attemptVars
<1>2. ASSUME NEW u \in Senders, BeginLog(u) \/ LogRow(u) \/ LoseRow(u)
      PROVE  result'[t] /\ copies'[t] = copies[t] /\ silent'[t] = silent[t]
  BY <1>2 DEF BeginLog, LogRow, LoseRow, attemptVars
<1>3. CASE UNCHANGED mailVars
  BY <1>3 DEF mailVars, attemptVars
<1> QED
  BY <1>1, <1>2, <1>3 DEF MailNext

LEMMA MailInvSays ==
  ASSUME MailInv
  PROVE  MailTypeOK /\ CopiesAccounted /\ ReportIsTrue
<1>1. \A t \in Senders : Said(t) /\ Tallied(t)
  BY DEF MailInv, MailOK
<1>2. MailFunctions
  BY DEF MailInv
<1>3. ASSUME NEW t \in Senders
      PROVE  turn[t] \in 1 .. Len(Order) + 1 /\ silent[t] \in 0 .. 2 * Len(Order)
  BY <1>1, Providers DEF Tallied
<1>4. ASSUME NEW t \in Senders
      PROVE  copies[t] \in 0 .. 2 * Len(Order)
  <2>1. /\ copies[t] \in Nat /\ silent[t] \in Nat /\ silent[t] <= 2 * Len(Order)
        /\ copies[t] <= silent[t] \/ (copies[t] <= silent[t] + 1 /\ silent[t] + 1 <= 2 * Len(Order))
    BY <1>1 DEF Tallied
  <2> QED
    BY <2>1, Providers
<1>5. MailTypeOK
  BY <1>1, <1>2, <1>3, <1>4 DEF MailTypeOK, MailFunctions, Said
<1>6. CopiesAccounted
  <2> SUFFICES ASSUME NEW t \in Senders
               PROVE  copies[t] <= silent[t] + (IF result[t] /\ ~demo THEN 1 ELSE 0)
    BY DEF CopiesAccounted
  <2>1. copies[t] \in Nat /\ silent[t] \in Nat
    BY <1>1 DEF Tallied
  <2>2. CASE result[t] /\ ~demo
    BY <1>1, <2>2 DEF Tallied
  <2>3. CASE ~(result[t] /\ ~demo)
    BY <1>1, <2>1, <2>3 DEF Tallied
  <2> QED
    BY <2>2, <2>3
<1>7. ReportIsTrue
  <2> SUFFICES ASSUME NEW t \in Senders
               PROVE  /\ result[t] => demo \/ copies[t] > 0
                      /\ ~result[t] => copies[t] = 0 \/ silent[t] > 0
                      /\ row[t] # "none" => (row[t] = "sent" <=> result[t])
    BY DEF ReportIsTrue
  <2>1. copies[t] \in Nat /\ silent[t] \in Nat
    BY <1>1 DEF Tallied
  <2>2. result[t] => demo \/ copies[t] > 0
    BY <1>1 DEF Tallied
  <2>3. ~result[t] => copies[t] = 0 \/ silent[t] > 0
    <3>1. ~result[t] => copies[t] <= silent[t]
      BY <1>1 DEF Tallied
    <3> QED
      BY <2>1, <3>1
  <2> QED
    BY <1>1, <2>2, <2>3 DEF Said
<1> QED
  BY <1>5, <1>6, <1>7

-----------------------------------------------------------------------------
\* The migrations

\* What a committed migration has verified stays so.
MigrationInv ==
    /\ MigrationTypeOK
    /\ migrated => core = "all" /\ SchemaVerified(defects) /\ RoleVerified(role, defects)

LEMMA MigrationInvInit == MigrationInit => MigrationInv
BY MigrationAssumption DEF MigrationInit, MigrationInv, MigrationTypeOK

LEMMA RolesProvisioned ==
  ASSUME NEW r \in SUBSET Attributes
  PROVE  Provisioned(r) \in SUBSET Attributes
BY DEF Provisioned, Attributes, Irremovable

LEMMA MigrationInvNext ==
  ASSUME MigrationInv, [MigrationNext]_schemaVars
  PROVE  MigrationInv'
<1>1. ASSUME NEW mode \in Modes, NEW password \in BOOLEAN, NEW r, NEW d,
             r = (IF password THEN Provisioned(role) ELSE role), d = defects \ Repairs[mode],
             SchemaVerified(d), RoleVerified(r, d), core' = "all", defects' = d, role' = r,
             migrated' = TRUE
      PROVE  MigrationInv'
  <2>1. r \in SUBSET Attributes
    BY <1>1, RolesProvisioned DEF MigrationInv, MigrationTypeOK
  <2>2. d \in SUBSET Defects
    BY <1>1 DEF MigrationInv, MigrationTypeOK
  <2>3. SchemaVerified(defects)' /\ RoleVerified(role, defects)'
    BY <1>1 DEF SchemaVerified, TablesVerified, ZonesVerified, IndexesVerified, ChecksVerified,
                KeysVerified, AccessVerified, RoleVerified
  <2> QED
    BY <1>1, <2>1, <2>2, <2>3 DEF MigrationInv, MigrationTypeOK
<1>2. ASSUME NEW mode \in Modes, Migrate(mode) PROVE MigrationInv'
  BY <1>1, <1>2 DEF Migrate
<1>3. CASE UNCHANGED schemaVars
  BY <1>3 DEF schemaVars, MigrationInv, MigrationTypeOK, SchemaVerified, TablesVerified,
     ZonesVerified, IndexesVerified, ChecksVerified, KeysVerified, AccessVerified, RoleVerified
<1> QED
  BY <1>2, <1>3 DEF MigrationNext

LEMMA MigrationInvServable ==
  ASSUME MigrationInv
  PROVE  MigratedIsServable
<1> SUFFICES ASSUME migrated, Production
             PROVE  /\ "owns other table" \notin role => IdentityTrusted
                    /\ "extra table" \notin defects => Validated
  BY DEF MigratedIsServable
<1>1. core = "all" /\ SchemaVerified(defects) /\ RoleVerified(role, defects)
  BY DEF MigrationInv
<1>2. "owns other table" \notin role => IdentityTrusted
  BY <1>1 DEF MigrationInv, MigrationTypeOK, RoleVerified, Attributes, Irremovable, IdentityTrusted
<1>3. "extra table" \notin defects => TablesValid
  BY <1>1 DEF SchemaVerified, TablesVerified, TablesValid
<1>4. DetailsValid
  BY <1>1 DEF SchemaVerified, ZonesVerified, IndexesVerified, ChecksVerified, KeysVerified,
              AccessVerified, DetailsValid, ZoneDefects
<1> QED
  BY <1>2, <1>3, <1>4 DEF Validated

\* What was committed can be run over again: with the password production asks
\* for, or without one, every check passes.
RunsAgain ==
    migrated =>
      \E password \in IF Production THEN {TRUE} ELSE BOOLEAN :
        LET r == IF password THEN Provisioned(role) ELSE role
            d == defects \ Repairs["reconcile"]
        IN  /\ password => role \cap Irremovable = {}
            /\ Admitted("reconcile") /\ SchemaVerified(d) /\ RoleVerified(r, d)

\* A role that passes the checks is provisioned already.
LEMMA ProvisionedTwice ==
  ASSUME NEW r \in SUBSET Attributes, NEW d, RoleVerified(r, d), "exists" \in r
  PROVE  Provisioned(r) = r /\ r \cap Irremovable = {}
BY DEF RoleVerified, Provisioned, Irremovable

\* Repairs never bring a defect back.
LEMMA RepairsVerified ==
  ASSUME NEW d, NEW e \in SUBSET d, SchemaVerified(d)
  PROVE  SchemaVerified(e)
BY DEF SchemaVerified, TablesVerified, ZonesVerified, IndexesVerified, ChecksVerified,
       KeysVerified, AccessVerified

LEMMA MigrationInvRunsAgain ==
  ASSUME MigrationInv
  PROVE  RunsAgain
<1> DEFINE d == defects \ Repairs["reconcile"]
<1> SUFFICES ASSUME migrated
             PROVE  \E password \in IF Production THEN {TRUE} ELSE BOOLEAN :
                      /\ password => role \cap Irremovable = {}
                      /\ Admitted("reconcile") /\ SchemaVerified(d)
                      /\ RoleVerified(IF password THEN Provisioned(role) ELSE role, d)
  BY DEF RunsAgain
<1>1. Admitted("reconcile") /\ RoleVerified(role, defects) /\ role \in SUBSET Attributes
  BY DEF MigrationInv, MigrationTypeOK, Admitted
<1>2. SchemaVerified(d)
  BY RepairsVerified DEF MigrationInv
<1>3. RoleVerified(role, d)
  BY <1>1 DEF RoleVerified
<1>4. CASE Production
  <2>1. "exists" \in role
    BY <1>1, <1>4 DEF RoleVerified
  <2>2. Provisioned(role) = role /\ role \cap Irremovable = {}
    BY <1>1, <2>1, ProvisionedTwice
  <2> QED
    BY <1>1, <1>2, <1>3, <1>4, <2>2
<1>5. CASE ~Production
  BY <1>1, <1>2, <1>3, <1>5
<1> QED
  BY <1>4, <1>5

\* A migration of what a migration committed in production takes defects away
\* and changes nothing else.
RepeatIsGentle ==
    migrated /\ Production => UNCHANGED <<core, role, migrated>> /\ defects' \subseteq defects

LEMMA MigrationRepeats ==
  ASSUME MigrationInv, MigrationNext
  PROVE  RepeatIsGentle
<1> SUFFICES ASSUME migrated, Production
             PROVE  UNCHANGED <<core, role, migrated>> /\ defects' \subseteq defects
  BY DEF RepeatIsGentle
<1>1. core = "all" /\ RoleVerified(role, defects) /\ role \in SUBSET Attributes /\ migrated = TRUE
  BY DEF MigrationInv, MigrationTypeOK
<1>2. Provisioned(role) = role
  <2>1. "exists" \in role
    BY <1>1 DEF RoleVerified
  <2> QED
    BY <1>1, <2>1, ProvisionedTwice
<1>3. /\ core' = "all" /\ migrated' = TRUE /\ role' = Provisioned(role)
      /\ \E mode \in Modes : defects' = defects \ Repairs[mode]
  BY DEF MigrationNext, Migrate
<1> QED
  BY <1>1, <1>2, <1>3

-----------------------------------------------------------------------------
\* The role the pool was built under

Publishing == {"publishing slots", "publishing pool"}

\* Once a builder has checked the role, and for as long as there is a pool,
\* the role is the trusted one.
RoleInv ==
    Production /\ (published \/ \E t \in Threads : pc[t] \in Publishing) => IdentityTrusted

LEMMA MigrationKeepsTrust ==
  ASSUME MigrationNext, IdentityTrusted
  PROVE  IdentityTrusted'
<1>1. PICK mode \in Modes, password \in BOOLEAN :
          role' = (IF password THEN Provisioned(role) ELSE role)
  BY DEF MigrationNext, Migrate
<1>2. CASE password
  BY <1>1, <1>2 DEF Provisioned, IdentityTrusted
<1>3. CASE ~password
  BY <1>1, <1>3 DEF IdentityTrusted
<1> QED
  BY <1>2, <1>3

\* Of the steps of the pool only a checked build lets a thread publish.
LEMMA PoolKeepsTrust ==
  ASSUME PoolTypeOK, RoleInv, UNCHANGED role, [PoolNext]_poolVars,
         \A t \in Threads : Build(t) => (Production => IdentityTrusted)
  PROVE  RoleInv'
<1>1. ASSUME Production, published', ~published
      PROVE  \E t \in Threads : pc[t] \in Publishing
  <2>1. \E t \in Threads : PublishPool(t)
    BY <1>1 DEF PoolNext, poolVars, sharedVars, Ask, Lock, Checkout, Use, GiveBack, IdleCloses,
       Build, BuildFails, PublishSlots, AcquireSlot, TimeOut, TakeIdle, Connect, GetFails,
       TakeStale, Discard, FailCheckout, PutBack, ReleaseSlot
  <2> QED
    BY <2>1 DEF PublishPool, Publishing
<1>2. ASSUME Production, NEW t \in Threads, pc'[t] \in Publishing, pc[t] \notin Publishing
      PROVE  IdentityTrusted
  <2>1. Build(t)
    BY <1>2 DEF PoolTypeOK, Publishing, PoolNext, poolVars, sharedVars, Go, Ask, Lock, Checkout,
       Use, GiveBack, IdleCloses, Build, BuildFails, PublishSlots, PublishPool, AcquireSlot,
       TimeOut, TakeIdle, Connect, GetFails, TakeStale, Discard, FailCheckout, PutBack, ReleaseSlot
  <2> QED
    BY <2>1, <1>2
<1> QED
  BY <1>1, <1>2 DEF RoleInv, IdentityTrusted

\* A thread is let publish only by a build in which the role was checked.
LEMMA CheckedBuild ==
  ASSUME PoolTypeOK, [Next]_dbVars, NEW t \in Threads, Build(t)
  PROVE  Production => IdentityTrusted
<1>1. pc[t] = "building" /\ pc'[t] = "publishing slots"
  BY DEF PoolTypeOK, Build, Go
<1>2. ASSUME NEW u \in Threads, AskToWork(u) \/ Work(u) \/ GetConnection(u) \/ ReturnConnection(u)
      PROVE  FALSE
  BY <1>1, <1>2 DEF PoolTypeOK, Go, AskToWork, Work, GetConnection, ReturnConnection, Ask, Lock,
     Use, GiveBack, BuildFails, PublishSlots, PublishPool, AcquireSlot, TimeOut, TakeIdle, Connect,
     GetFails, TakeStale, Discard, FailCheckout, PutBack, ReleaseSlot
<1>3. ASSUME NEW u \in Senders, DeliverMail(u) \/ AskToLog(u) \/ InsertLog(u) \/ LogUnavailable(u)
      PROVE  FALSE
  BY <1>1, <1>3, SendersAssumption
  DEF PoolTypeOK, Go, poolVars, DeliverMail, AskToLog, InsertLog, LogUnavailable, Ask, Use
<1>4. ~MigrateDatabase /\ ~ServerCloses /\ ~UNCHANGED dbVars
  BY <1>1 DEF MigrateDatabase, ServerCloses, IdleCloses, dbVars, poolVars
<1>5. \E u \in Threads : BuildChecked(u)
  BY <1>2, <1>3, <1>4 DEF Next
<1> QED
  BY <1>5 DEF BuildChecked

LEMMA RoleInvNext ==
  ASSUME PoolTypeOK, RoleInv, [Next]_dbVars
  PROVE  RoleInv'
<1>1. CASE MigrateDatabase
  <2>1. UNCHANGED <<published, pc>>
    BY <1>1 DEF MigrateDatabase, poolVars, sharedVars
  <2> QED
    BY <1>1, <2>1, MigrationKeepsTrust DEF MigrateDatabase, RoleInv
<1>2. CASE ~MigrateDatabase
  <2>1. UNCHANGED role
    BY <1>2 DEF Next, dbVars, schemaVars, AskToWork, Work, BuildChecked, GetConnection,
       ReturnConnection, DeliverMail, AskToLog, InsertLog, LogUnavailable, ServerCloses
  <2> QED
    BY <2>1, PoolPart, PoolKeepsTrust, CheckedBuild
<1> QED
  BY <1>1, <1>2

LEMMA RoleInvSays ==
  ASSUME RoleInv
  PROVE  ServesLeastPrivilege
<1> SUFFICES ASSUME Production, published, IdentityTrusted
             PROVE  /\ role \cap (Irremovable \cup {"createrole", "createdb", "member"}) = {}
                    /\ role \cap {"owns contract table", "owns other table"} = {}
  BY DEF ServesLeastPrivilege, RoleInv
<1>1. role \subseteq {"exists", "login", "inherit"}
  BY DEF IdentityTrusted
<1> QED
  BY <1>1 DEF Irremovable

-----------------------------------------------------------------------------
\* The invariant of the whole

DatabaseInv == PoolInv /\ MailInv /\ MigrationInv /\ RoleInv

LEMMA DatabaseInvariant == Spec => []DatabaseInv
<1>1. Init => DatabaseInv
  <2>1. PoolInit => RoleInv
    BY DEF PoolInit, RoleInv, Publishing
  <2> QED
    BY <2>1, PoolInvInit, MailInvInit, MigrationInvInit DEF Init, DatabaseInv
<1>2. DatabaseInv /\ [Next]_dbVars => DatabaseInv'
  <2> SUFFICES ASSUME DatabaseInv, [Next]_dbVars PROVE DatabaseInv'
    OBVIOUS
  <2>1. PoolInv'
    BY PoolPart, PoolInvNext DEF DatabaseInv
  <2>2. MailInv'
    BY MailPart, MailInvNext DEF DatabaseInv
  <2>3. MigrationInv'
    BY MigrationPart, MigrationInvNext DEF DatabaseInv
  <2>4. RoleInv'
    BY RoleInvNext DEF DatabaseInv, PoolInv
  <2> QED
    BY <2>1, <2>2, <2>3, <2>4 DEF DatabaseInv
<1> QED
  BY <1>1, <1>2, PTL DEF Spec

\* Threads, mails and schema stay in their types, whatever interleaving of
\* checkouts, providers' answers and migrations.
THEOREM DatabaseTypes == Spec => []DatabaseTypeOK
<1>1. DatabaseInv => DatabaseTypeOK
  BY MailInvSays DEF DatabaseInv, PoolInv, MigrationInv, DatabaseTypeOK
<1> QED
  BY <1>1, DatabaseInvariant, PTL

\* The slots of the semaphore and the threads that have one always add up
\* (get_connection and return_connection), mails and migrations included.
THEOREM SlotsBalanceInServer == Spec => []SlotsBalance
<1>1. DatabaseInv => SlotsBalance
  BY DEF DatabaseInv, PoolInv, Counts, Places, SlotsBalance
<1> QED
  BY <1>1, DatabaseInvariant, PTL

\* No thread of the server finds the library's pool exhausted after it got a
\* slot (get_connection).
THEOREM NeverExhaustedInServer == Spec => []NeverExhausted
<1>1. DatabaseInv => NeverExhausted
  BY PoolInvExhausted DEF DatabaseInv
<1> QED
  BY <1>1, DatabaseInvariant, PTL

\* For any order of providers, a candidate gets at most one copy more than
\* providers were silent, and none more unless success was reported
\* (_send_email).
THEOREM CopiesAlwaysAccounted == Spec => []CopiesAccounted
<1>1. DatabaseInv => CopiesAccounted
  BY MailInvSays DEF DatabaseInv
<1> QED
  BY <1>1, DatabaseInvariant, PTL

\* What the caller is told and what is logged agree, and are true except
\* where a provider was silent (_send_email, _safe_log_email).
THEOREM ReportsAreTrue == Spec => []ReportIsTrue
<1>1. DatabaseInv => ReportIsTrue
  BY MailInvSays DEF DatabaseInv
<1> QED
  BY <1>1, DatabaseInvariant, PTL

\* Whatever legacy database and role a migration found, what it commits the
\* server and the validator accept (run_migration.py _verify against
\* db_config.py and validate_schema.py).
THEOREM MigrationsAreServable == Spec => []MigratedIsServable
<1>1. DatabaseInv => MigratedIsServable
  BY MigrationInvServable DEF DatabaseInv
<1> QED
  BY <1>1, DatabaseInvariant, PTL

\* In production no connection is lent under a role with privileges, though
\* the role is checked once and migrations go on
\* (_verify_runtime_database_identity).
THEOREM AlwaysLeastPrivilege == Spec => []ServesLeastPrivilege
<1>1. DatabaseInv => ServesLeastPrivilege
  BY RoleInvSays DEF DatabaseInv
<1> QED
  BY <1>1, DatabaseInvariant, PTL

\* The whole server keeps the safety part of the pool's promise: whatever mails
\* and migrations do, whoever asks is lent a connection or refused, and at most
\* the maximum are lent (get_connection, return_connection).
THEOREM BorrowingIsBoundedInServer ==
  Spec => Borrowing!Init /\ [][Borrowing!Next]_(Borrowing!vars)
<1>1. Init => Borrowing!Init
  BY DEF Init, PoolInit, Borrowing!Init, Asking
<1>2. DatabaseInv /\ [Next]_dbVars => [Borrowing!Next]_(Borrowing!vars)
  BY PoolPart, BorrowingStep DEF DatabaseInv, Borrowing!vars, Waiting, Holding
<1> QED
  BY <1>1, <1>2, DatabaseInvariant, PTL DEF Spec

\* A mail that was taken is never attempted again and its outcome is never
\* reported otherwise, however its log row fares (_send_email, _safe_log_email).
THEOREM SuccessIsFinal == Spec => [][SuccessEndsSending]_mailVars
<1>1. DatabaseInv /\ [Next]_dbVars => [SuccessEndsSending]_mailVars
  BY MailPart, MailStops DEF DatabaseInv
<1> QED
  BY <1>1, DatabaseInvariant, PTL DEF Spec

\* A migration that was committed can be run again: no check of the runner
\* refuses what the runner left (run_migration.py main; validate_schema.py:
\* "Running the migration twice proves upgrade idempotence").
THEOREM MigratedRunsAgain == Spec => []RunsAgain
<1>1. DatabaseInv => RunsAgain
  BY MigrationInvRunsAgain DEF DatabaseInv
<1> QED
  BY <1>1, DatabaseInvariant, PTL

\* ... and running it again in production leaves the role and the tables as
\* they are and brings no defect back.
THEOREM RepeatedMigrationIsGentle == Spec => [][RepeatIsGentle]_schemaVars
<1>1. DatabaseInv /\ [Next]_dbVars => [RepeatIsGentle]_schemaVars
  BY MigrationPart, MigrationRepeats DEF DatabaseInv
<1> QED
  BY <1>1, DatabaseInvariant, PTL DEF Spec

\* The whole server, too, has one pool and at most the maximum of connections.
THEOREM ConnectionsAreBoundedInServer ==
  Spec => [](Connections <= Maximum) /\ [](published => Building = {})
            /\ [](\A t, u \in Building : t = u)
<1>1. Init => Connections <= Maximum
  BY BoundsAssumption DEF Init, PoolInit, Connections
<1>2. DatabaseInv /\ Connections <= Maximum /\ [Next]_dbVars => (Connections <= Maximum)'
  BY PoolPart, ConnectionsStep DEF DatabaseInv
<1>3. DatabaseInv => (published => Building = {}) /\ \A t, u \in Building : t = u
  BY DEF DatabaseInv, PoolInv, Places, Building
<1> QED
  BY <1>1, <1>2, <1>3, DatabaseInvariant, PTL DEF Spec
=============================================================================
