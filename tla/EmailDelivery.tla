--------------------------- MODULE EmailDelivery ---------------------------
(***************************************************************************)
(* One e-mail per sending thread, from the request to its row in email_logs*)
(* (backend/email_service.py, email_db.py): the configured providers are   *)
(* tried in turn, SMTP a second time over SSL when its transport broke,    *)
(* and one outcome is logged, whose loss changes nothing.                  *)
(*                                                                         *)
(* A provider may take a mail and not say so: its answer is lost, times    *)
(* out or cannot be read.  What a mail says is left out, except that a bad *)
(* address, subject, body or link is refused before any provider.          *)
(***************************************************************************)
EXTENDS Naturals, Sequences

CONSTANTS
    Senders,     \* threads that send a mail each
    Order,       \* the configured providers, in the order they are tried
    SslRetry     \* smtp_use_tls is set and the SSL port is another

ASSUME OrderAssumption == Order \in Seq({"smtp", "resend"})
ASSUME SslAssumption == SslRetry \in BOOLEAN

VARIABLES
    demo,        \* demo_mode_enabled(): fixed for the process
    stage,       \* where each mail is
    turn,        \* the provider whose turn it is
    copies,      \* mails the candidate was sent
    silent,      \* attempts that ended without an answer
    result,      \* what the caller is told
    row          \* its row in email_logs

attemptVars == <<turn, copies, silent>>
mailVars == <<demo, stage, attemptVars, result, row>>

Stages == {"unsent", "trying", "ssl", "logging", "inserting", "done"}

MailInit ==
    /\ demo \in BOOLEAN
    /\ stage = [t \in Senders |-> "unsent"]
    /\ turn = [t \in Senders |-> 1]
    /\ copies = [t \in Senders |-> 0]
    /\ silent = [t \in Senders |-> 0]
    /\ result = [t \in Senders |-> FALSE]
    /\ row = [t \in Senders |-> "none"]

Enter(t, s) == stage' = [stage EXCEPT ![t] = s]
Count(f, t) == [f EXCEPT ![t] = @ + 1]
Provider(t, p) == turn[t] <= Len(Order) /\ Order[turn[t]] = p

\* The outcome is decided and about to be logged.
Report(t, ok) ==
    /\ result' = [result EXCEPT ![t] = ok]
    /\ Enter(t, "logging")

-----------------------------------------------------------------------------
\* A rejection, an invitation or a decision: what _send_email does first

Send(t) ==
    /\ ~demo
    /\ Enter(t, "trying")
    /\ UNCHANGED <<demo, attemptVars, result, row>>

\* In demo mode the mail is recorded as sent and never leaves.
SendInDemo(t) ==
    /\ demo
    /\ Report(t, TRUE)
    /\ UNCHANGED <<demo, attemptVars, row>>

\* An address, subject, body or link that is not acceptable
RefuseInput(t) ==
    /\ Report(t, FALSE)
    /\ UNCHANGED <<demo, attemptVars, row>>

SendMail(t) == Send(t) \/ SendInDemo(t) \/ RefuseInput(t)

\* The mail of a decision is composed and sent, that of a rejection too.
SendDecision(t) == stage[t] = "unsent" /\ SendMail(t)
SendRejection(t) == stage[t] = "unsent" /\ SendMail(t)

\* That of an invitation is not even composed around a link that is none.
SendInvitation(t) ==
    /\ stage[t] = "unsent"
    /\ RefuseInput(t) \/ SendMail(t)

-----------------------------------------------------------------------------
\* The providers

\* Slip: a provider's success does not end the loop.
AcceptAndGoOn(t) ==
    /\ stage[t] \in {"trying", "ssl"} /\ turn[t] <= Len(Order)
    /\ copies' = Count(copies, t)
    /\ turn' = Count(turn, t)
    /\ Enter(t, "trying")
    /\ UNCHANGED <<demo, silent, result, row>>

\* The provider, or SMTP over SSL, takes the mail and says so.
Accept(t) ==
    /\ stage[t] \in {"trying", "ssl"} /\ turn[t] <= Len(Order)
    /\ copies' = Count(copies, t)
    /\ Report(t, TRUE)
    /\ UNCHANGED <<demo, turn, silent, row>>

\* Credentials, sender, recipient or message are refused: the next provider
Decline(t) ==
    /\ stage[t] \in {"trying", "ssl"} /\ turn[t] <= Len(Order)
    /\ turn' = Count(turn, t)
    /\ Enter(t, "trying")
    /\ UNCHANGED <<demo, copies, silent, result, row>>

\* The transport of SMTP breaks, perhaps after the server took the mail:
\* once more over SSL, where that is another port.
BreakSmtp(t) ==
    /\ stage[t] = "trying"
    /\ Provider(t, "smtp")
    /\ silent' = Count(silent, t)
    /\ copies' \in {copies, Count(copies, t)}
    /\ IF SslRetry
         THEN Enter(t, "ssl") /\ UNCHANGED turn
         ELSE turn' = Count(turn, t) /\ UNCHANGED stage
    /\ UNCHANGED <<demo, result, row>>

\* No answer over SSL, or none that can be read from Resend
Fall(t) ==
    /\ stage[t] = "ssl" \/ (stage[t] = "trying" /\ Provider(t, "resend"))
    /\ silent' = Count(silent, t)
    /\ copies' \in {copies, Count(copies, t)}
    /\ turn' = Count(turn, t)
    /\ Enter(t, "trying")
    /\ UNCHANGED <<demo, result, row>>

\* No provider is left, or none is configured.
GiveUp(t) ==
    /\ stage[t] = "trying"
    /\ turn[t] > Len(Order)
    /\ Report(t, FALSE)
    /\ UNCHANGED <<demo, attemptVars, row>>

-----------------------------------------------------------------------------
\* _safe_log_email and log_email

BeginLog(t) ==
    /\ stage[t] = "logging"
    /\ Enter(t, "inserting")
    /\ UNCHANGED <<demo, attemptVars, result, row>>

LogRow(t) ==
    /\ stage[t] = "inserting"
    /\ row' = [row EXCEPT ![t] = IF result[t] THEN "sent" ELSE "failed"]
    /\ Enter(t, "done")
    /\ UNCHANGED <<demo, attemptVars, result>>

\* Slip: a mail whose outcome is not recorded is taken for not sent.
LoseRowAndRetry(t) ==
    /\ stage[t] = "inserting"
    /\ turn' = [turn EXCEPT ![t] = IF @ <= Len(Order) THEN @ + 1 ELSE @]
    /\ Enter(t, "trying")
    /\ UNCHANGED <<demo, copies, silent, result, row>>

\* Whatever fails in log_email is swallowed.
LoseRow(t) ==
    /\ stage[t] = "inserting"
    /\ Enter(t, "done")
    /\ UNCHANGED <<demo, attemptVars, result, row>>

-----------------------------------------------------------------------------

\* The steps of a mail that need no connection
Deliver(t) ==
    \/ SendRejection(t) \/ SendInvitation(t) \/ SendDecision(t)
    \/ Accept(t) \/ Decline(t) \/ BreakSmtp(t) \/ Fall(t) \/ GiveUp(t)

MailNext ==
    \E t \in Senders : Deliver(t) \/ BeginLog(t) \/ LogRow(t) \/ LoseRow(t)

MailTypeOK ==
    /\ demo \in BOOLEAN
    /\ stage \in [Senders -> Stages]
    /\ turn \in [Senders -> 1 .. Len(Order) + 1]
    /\ copies \in [Senders -> 0 .. 2 * Len(Order)]
    /\ silent \in [Senders -> 0 .. 2 * Len(Order)]
    /\ result \in [Senders -> BOOLEAN]
    /\ row \in [Senders -> {"none", "sent", "failed"}]

\* A candidate is sent a further copy only when a provider took the mail
\* before and did not say so: no success, refusal or lost log row is ever
\* followed by another attempt (email_service.py _send_email and the comment
\* in _safe_log_email).
CopiesAccounted ==
    \A t \in Senders :
        copies[t] <= silent[t] + (IF result[t] /\ ~demo THEN 1 ELSE 0)

\* What the caller is told and what the row says agree, and both are true: a
\* mail reported sent was, outside demo mode, and one reported failed was
\* not, unless a provider was silent.
ReportIsTrue ==
    \A t \in Senders : stage[t] \in {"logging", "inserting", "done"} =>
        /\ result[t] => demo \/ copies[t] > 0
        /\ ~result[t] => copies[t] = 0 \/ silent[t] > 0
        /\ row[t] # "none" => (row[t] = "sent" <=> result[t])
=============================================================================
