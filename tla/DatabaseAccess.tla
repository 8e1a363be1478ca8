--------------------------- MODULE DatabaseAccess ---------------------------
(***************************************************************************)
(* The server process on its database: threads borrow connections from the *)
(* pool, some of them to record the outcome of a mail they sent, while the *)
(* database is being migrated.                                             *)
(***************************************************************************)
EXTENDS ConnectionPool, EmailDelivery, Migration

ASSUME SendersAssumption == Senders \subseteq Threads

dbVars == <<poolVars, mailVars, schemaVars>>

Init == PoolInit /\ MailInit /\ MigrationInit

\* A thread that sends no mail works with a connection whenever it likes.
AskToWork(t) == t \notin Senders /\ Ask(t) /\ UNCHANGED <<mailVars, schemaVars>>
Work(t) == t \notin Senders /\ Use(t) /\ UNCHANGED <<mailVars, schemaVars>>

\* In production the pool is built under a trusted role only.
BuildChecked(t) ==
    /\ Build(t)
    /\ Production => IdentityTrusted
    /\ UNCHANGED <<mailVars, schemaVars>>

GetConnection(t) ==
    /\ \/ Lock(t) \/ BuildFails(t) \/ PublishSlots(t) \/ PublishPool(t)
       \/ AcquireSlot(t) \/ TimeOut(t) \/ TakeIdle(t) \/ Connect(t) \/ GetFails(t)
       \/ TakeStale(t) \/ Discard(t) \/ FailCheckout(t)
    /\ UNCHANGED <<mailVars, schemaVars>>

ReturnConnection(t) == GiveBack(t) /\ UNCHANGED <<mailVars, schemaVars>>

DeliverMail(t) == Deliver(t) /\ UNCHANGED <<poolVars, schemaVars>>

\* log_email borrows a connection ...
AskToLog(t) == BeginLog(t) /\ Ask(t) /\ UNCHANGED schemaVars

\* ... inserts and commits the row, or fails to ...
InsertLog(t) ==
    /\ Use(t)
    /\ \/ conn'[t] = "open" /\ LogRow(t)
       \/ LoseRow(t)
    /\ UNCHANGED schemaVars

\* ... or gets none.
LogUnavailable(t) ==
    /\ pc[t] = "away"
    /\ LoseRow(t)
    /\ UNCHANGED <<poolVars, schemaVars>>

MigrateDatabase == MigrationNext /\ UNCHANGED <<poolVars, mailVars>>
ServerCloses == IdleCloses /\ UNCHANGED <<mailVars, schemaVars>>

Next ==
    \/ \E t \in Threads : AskToWork(t) \/ Work(t) \/ BuildChecked(t)
                          \/ GetConnection(t) \/ ReturnConnection(t)
    \/ \E t \in Senders : DeliverMail(t) \/ AskToLog(t) \/ InsertLog(t)
                          \/ LogUnavailable(t)
    \/ MigrateDatabase
    \/ ServerCloses

\* Threads run on; providers, the server's statements and the checkout all
\* have timeouts; a lock that is free again and again is obtained.
Fairness ==
    /\ \A t \in Threads :
         /\ WF_dbVars(GetConnection(t) \/ BuildChecked(t))
         /\ SF_dbVars(Lock(t) /\ UNCHANGED <<mailVars, schemaVars>>)
         /\ WF_dbVars(Work(t))
         /\ WF_dbVars(ReturnConnection(t))
    /\ \A t \in Senders :
         /\ WF_dbVars(DeliverMail(t))
         /\ WF_dbVars(AskToLog(t) \/ InsertLog(t) \/ LogUnavailable(t))

Spec == Init /\ [][Next]_dbVars /\ Fairness

-----------------------------------------------------------------------------

DatabaseTypeOK == PoolTypeOK /\ MailTypeOK /\ MigrationTypeOK

\* In production no connection of a role that could bypass row security is
\* ever lent: the check of the first connection holds for all of them,
\* whatever migrations commit meanwhile.
ServesLeastPrivilege ==
    Production /\ published =>
        /\ role \cap (Irremovable \cup {"createrole", "createdb", "member"}) = {}
        /\ role \cap {"owns contract table", "owns other table"} = {}

\* A mail that was begun is answered, whatever the providers and the pool do.
EverySendReturns ==
    \A t \in Senders : (stage[t] # "unsent") ~> (stage[t] = "done")
=============================================================================
