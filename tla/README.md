# HireSense in TLA+

TLA+ specifications of the HireSense recruitment backend (`src/backend`, Flask
over PostgreSQL), TLC configurations that model-check them on small instances,
and TLAPS proofs of the properties that matter most. Every definition that
stands for code says which; `PROJECT.json` maps it to file and lines. Paths
below are relative to `src/backend` unless they start with `docs`, `database`
or `deploy`.

To repeat a check: `tlc -config MCLifecycle.cfg MCAssessmentLifecycle` (and the
like for the other configurations), `tlapm AssessmentLifecycleProofs.tla`.

## The system

| Part | State it keeps | Operations |
| --- | --- | --- |
| Hiring lifecycle (`assessment_db.py`) | rows of `candidates`, `scheduled_assessments`, `assessments` | create, cancel, reject, start, complete, decide, each one transaction under row locks |
| Reviewer routes (`interviewer_routes.py`) | what a handler has read and not yet used | schedule (access check, question generation, create, invite, maybe cancel), reject, decide, final mail |
| Assessment session (`interviewee_session.py`, `interviewee_answers.py`, `interviewee_monitoring.py`) | `questions_data`, `time_elapsed_seconds`, response rows, scores | start or resume, store questions, submit answers, sync time, complete |
| Administrator's edits (`admin_candidates.py`) | candidate rows | status edit, reset, delete |
| Application intake (`resume_routes.py`, `candidate_db.py`, `admin_content.py`) | candidate rows, resume files | public application, bulk upload |
| Proctoring (`proctoring_db.py`, `interviewee_monitoring.py`, `proctor_routes.py`) | violations and their cached count, screenshots on disk, `proctor_id` | record a violation with its picture, assign, delete |
| Signalling rooms (`websocket_server.py`) | in-memory rooms, connections, authenticated sockets | connect, join, relay, disconnect |
| Accounts (`auth.py`, `user_db.py`, `admin_users.py`, `app.py`) | users, the version inside each JWT | log in, create, change, delete; check each token |
| Connection pool (`db_config.py`) | slots and connections | build, check out, discard, return |
| E-mail (`email_service.py`, `email_db.py`) | `email_logs`; providers outside | try each provider in turn, log the outcome |
| Schema (`database/`, `scripts/run_migration.py`) | tables, constraints, the application's role | provision, migrate, verify, validate |
| Jobs and matches (`job_routes.py`, `job_matcher.py`) | `job_descriptions`, `candidate_job_matches` | create, update, close, delete; match (slow, then a version check), review |
| Scoring (`assessment_db.py`, `interviewee_answers.py`) | none: pure | tallies, weights, recommendation |
| Question generation, resume analysis, analytics, rate limiter, frontend | none of interest here | |

**How they interact.** Everything meets in the database. A reviewer's schedule
request reads the candidate's access scope, spends seconds on generating
questions, creates the schedule in one transaction (lock the candidate, insert,
mark under review), then sends the invitation and, when that fails, cancels the
schedule again in another. The candidate's link carries a token whose hash the
schedule row holds; starting, answering and completing go through it. The
decision is committed before its mail is sent. The administrator writes the same
rows at any time. One eventlet worker (`deploy/hiresense.service`) serves all
requests, switches between them at every database or network call, and may be
restarted at any moment; the signalling rooms and the connection pool live only
in its memory. A handler that mails also needs a connection to log the mail; a
proctor's socket is let in by the state of the account, the assignment and the
assessment; an application's row is also its first match.

**What is hard.** Handlers that read in one transaction and write in another;
requests repeated by an impatient reviewer or page; commit-then-mail with a
restart in between; compensation after a failed mail racing the candidate who
got it all the same; several pages of one candidate; row locks taken in different
orders. `PROJECT.json` lists these hazards at their lines, with the properties
aimed at them, or says why there is none.

**What makes each part correct.** Lifecycle: one active schedule per candidate,
the three rows agree, terminal states stay, one outcome and one mail, answers
given to reviewers stay true. Session: the score is of the rows and by the
questions the candidate saw; time only runs out. Proctoring: cached count equals
the rows, pictures and rows account for each other within the quota. Rooms: the
three tables agree, a relay stays in its room, a client that lost its connection
gets in again.
Accounts: a changed account's tokens stop working. Pool: no slot is lost, whoever
asks is answered. Mail: no copy and no report that is not accounted for. Schema:
what is migrated can be served, and only by an unprivileged role. Uploads: files
and rows account for each other and applicants are told what is so. Matches: of
the data they claim, and decisions stand.

## Modules

| Module | What it is |
| --- | --- |
| `AssessmentLifecycle` | the core: candidate, schedule and assessment rows and all requests that move them |
| `MCAssessmentLifecycle` | its instance for TLC (symmetry) |
| `AssessmentLifecycleProofs` | the inductive invariant and the theorems |
| `HiringJourney` | the abstract promise: one application's stages and the one message |
| `LifecycleJourney` | the refinement mapping from the lifecycle to the journey |
| `MCLifecycleJourney`, `LifecycleJourneyProofs` | the refinement checked by TLC, and proved |
| `AssessmentSession` | one assessment taken from several pages at once |
| `MCAssessmentSession` | its instance: two questions, two question sets that disagree |
| `SessionLifecycle` | the refinement mapping from one session to the lifecycle |
| `AssessmentSessionProofs` | its inductive invariants and theorems |
| `ConnectionPool` | the lazily built, bounded pool |
| `BoundedBorrowing` | its abstract promise: a counting lender that answers everyone |
| `EmailDelivery` | one mail per sender through the providers and into its log row |
| `Migration` | the database's state against its contract, and the three programs that judge it |
| `DatabaseAccess` | the three together: threads on the pool, mails logged over it, migrations meanwhile |
| `Proctoring` | reports, pictures, counts and the deletion of one assessment |
| `ProctorSockets` | sockets, rooms and relays |
| `StaffAccounts` | accounts, tokens and administrators' requests |
| `Monitoring` | the three together: who may watch which assessment |
| `ResumeIntake` | uploads, their files, rows and answers |
| `JobMatching` | postings and one candidate's matches |
| `Intake` | both: an upload picks a posting, and its row is matched |
| `MCDatabaseAccess`, `MCMonitoring`, `MCIntake` | their instances for TLC |
| `ConnectionPoolProofs`, `DatabaseAccessProofs`, `ProctoringProofs`, `MonitoringProofs`, `IntakeProofs` | their inductive invariants and theorems |

### AssessmentLifecycle

A variable is a column (`candStatus`, `schedStatus`, `schedCand`, `schedOwner`,
`token` for "`access_token_hash` is still the mailed token's", `asmt`,
`snapshot` for "`questions_data` is stored", `late`, `decision`), the position
and locals of a schedule request in the server (`reqPc`, `reqWho`, `reqCand`,
`reqSched`, `reply`), a start request that has yet to store its questions
(`starting`), the number of live handlers that committed an outcome and are
about to mail it (`notifying`), or the world outside (`link`: the invitation has arrived).
`notices` and `offChain` are history: how many final mails were sent, and
whether an administrator took the candidate off the documented chain.

An action is one transaction, or one piece of a handler between two: `Register`,
`ScheduleBegin`, `CreateSchedule` / `CreateRefused`, `InvitationSent` /
`InvitationFailed`, `CancelUndelivered` / `CancelSkipped` / `CancelRolledBack` /
`CancelFails`,
`RejectScheduled`, `RejectUnscheduled`, `StartAssessment`, `SaveQuestions`,
`StartAbandoned`, `Complete`, `Decide`, `NotifyFinal`, `OutcomeUnheard`,
`AdminSetStatus`,
`AdminReset`, `AdminDelete`, `ServerRestart`; `MailArrives` and `TimeRunsOut`
are the environment. One action per transaction is faithful because every
transaction locks the rows it decides by (`SELECT ... FOR UPDATE`) until it
commits; that these locks are taken in different orders, so that the database may
abort one for a deadlock, is not modelled (an aborted
transaction leaves no trace and the handler answers with an error, which the
failing actions have).

The database may fail the cancellation, or the answer to a commit may be lost.
The reviewer of the cancellation is then answered an error, and finds the
schedule either still open (`CancelFails`) or cancelled (`CancelUndelivered`); the
mail of an outcome is never tried (`OutcomeUnheard`). The lost answer to the
commit of a creation needs no action of its own: it leaves the open schedule and
the error of a failed invitation whose cancellation failed. Question sets, times, scores and texts are not in this
module; `schedStatus` has the values the schema's check constraint admits. The
30-minute window around the scheduled time only withholds a start and is left
out, so starts may happen whenever the row allows.

A definition marked *Slip* is a plausible bug beside the operator it would
replace; it is used by no specification, only to see that the properties notice.

### HiringJourney and LifecycleJourney

`docs/BACKEND_FLOW_MAP.md` gives the candidate chain applied -> under_review ->
completed -> hired or rejected. `HiringJourney` says so for each application,
with the withdrawals, early rejections and resets the code adds, and one message
with the outcome. `LifecycleJourney` maps status to stage and sent mails to
`told`; `KeepsPromise` is the refinement. Once an administrator edits the
candidate by hand, or resets one whose assessment is completed, the stage is
"taken" and the journey promises only removal.

### AssessmentSession

Pages of one candidate, each a request slot, work on one assessment row. A start
is four steps, as in the handler: create or resume, read what is stored (only
when resuming), read the schedule's prepared questions or generate, store. An
answer is marked in one step and saved in a later one, a time report is compared
in one and saved in a later one. `MayWrite` is `_lock_active_assessment`, which
every write asks again. `clock` is the time since `started_at` as the database
counts it. `Tally` is the multiple-choice rule (right rows, at most as many as
the snapshot has questions); coding and psychometric answers are written the
same way, and their arithmetic is not modelled. `GiveUp` ends
any request: refused under the lock, failed, or lost with the server.

`SessionLifecycle` sees the session as `AssessmentLifecycle` does: one applicant
and one invitation that has arrived, `late` for "the time used reaches the
limit", `snapshot` for "a set is stored", and `starting` for "some page has yet to
store the first". `SessionKeepsLifecycle` says that every step of the session, be
it one of the four steps of a start or an autosave that comes too late, is a step
of the lifecycle's candidate under this mapping or changes nothing there: the two
modules do not contradict each other about who may start, store and complete.

### DatabaseAccess: ConnectionPool, EmailDelivery, Migration

A thread's `pc` is where it is in `get_connection`, its use of the connection
and `return_connection`; a step ends wherever another thread can run. `slots` is
the semaphore, `published` and `made` the two module variables that are set one
after the other without readers locking. `idle`, `stale` and `used` are what the
library's pool keeps; the library is external and does what this code asks of
it. `BoundedBorrowing` says what the whole promises: whoever asks waits, holds
or is refused, at most `Maximum` hold, nobody waits for ever; `BorrowingKept` is
that refinement, fairness included.

`EmailDelivery` follows `_send_email`: validation, demo mode, the providers in
turn, each with its ways to fail, the second attempt of SMTP over SSL, the one
log row. A provider may take a mail and not say so; `silent` counts these and
`copies` what the candidate gets. The log row needs a connection of the pool,
and in `DatabaseAccess` gets it by the same steps as any other thread.

`Migration` abstracts a database to the classes of departures from the contract
that the code tells apart (one constant of the module each), to how many core
tables it has, and to the attributes of the application's role. `Migrate(mode)`
is the runner's whole transaction, with every check of `_verify`;
`IdentityTrusted` is the server's check when the pool is built and `Validated`
the validator's. What an SQL artifact repairs is a parameter.

### Monitoring: Proctoring, ProctorSockets, StaffAccounts

In `Proctoring` a report is five steps: the check of token and status, the
picture, and in one transaction the lock of the assessment's row (`LockRow`), the
insert with the recount (`InsertAndCount`: of the committed rows and the report's
own), and the commit (`CommitRecord`), which publishes the row and the number
counted before. Each may fail, and the commit may succeed with its answer lost,
upon which the code removes a picture the row names (`missing`). Whoever writes
or deletes the assessment's row waits for the lock. `Start`, `Finish` and the deletion of the
candidate move the assessment meanwhile. Looking for room in the quota and
writing the picture is one step, as the one eventlet worker yields at no file
operation.

In `ProctorSockets` a connect is a handshake, a verification against the
database outside the lock and a registration under it; every other handler is
one step. A socket whose client is gone stays in the tables until the server
notices (`Lose`, then `Disconnect`). The library calls `disconnect` once for each
socket, and may do so while its `connect` is still waiting for the database
(`Close`; the socket is then `gone`): nothing is registered yet, and `connect` goes
on to register it.

In `StaffAccounts` a login reads the account, then issues a token of what it
read; an administrator's request reads its target and writes in a later step.
`version` is `updated_at`, the start time of the writing transaction: unique,
but not in the order of the writes, which is why `Honoured` compares it for
equality. `Monitoring` puts them together: `Entitled` is what a socket's
verification asks of the assessment, the assignment and the account, a deleted
account loses its assignment, and a crash ends the requests, empties the socket
tables and keeps rows and files.

### Intake: ResumeIntake, JobMatching

An upload is a request and the name of its file. Forms know their address
before the lookup, resumes and archives after the parsing, and an archive's
resume without text is inserted at once under an address made up: the order of
`Save`, `Lookup`, `Parse` and `Insert` follows the kind. Every way to fail is an
action, and `stray` and `lost` record where the code itself leaves a file
without a row, or a row whose request was refused. A file is left by half a save
(`FailSave`), by a validation that raises something other than
`UploadValidationError` and by the copying of an archive that fails at a later file
(`LeaveFile`), by the failed insert of a resume without text (`FailUnreadable`), by a
restart and by the lost answer of a deletion; all other failures remove it.

`JobMatching` has one action per route, all but matching: `ReadForMatching`
takes the versions of the candidate and of the open jobs in the requester's
scope, `StoreMatches` compares them under the lock and rewrites the matches and
the best job. `Best` is the first by score, then by id. `Intake` joins the two:
an upload picks a posting and keeps the version it saw, its row appears with its
first match, and one candidate, `Followed`, is taken through matching while the
others compete for its address.

## Runs

| Run | Instance | Question, and the answer |
| --- | --- | --- |
| `lifecycle` | 1 candidate, 2 reviewers, 2 schedules, 2 concurrent requests, status edits to `applied`, restarts; 845,588 states | do rows, replies, mails and terminal states stay right in every interleaving? Yes |
| `lifecycle_liveness` | one request at a time, no restarts, answers to commits of outcomes heard; 138,342 states | is a failed invitation always settled, or its reviewer told of the failure, and the outcome's mail always attempted? Yes |
| `journey` | 2 candidates, 2 schedules, 1 request, restarts, resets; 524,346 states | does the lifecycle implement `HiringJourney`? Yes |
| `session` | 2 pages, 2 questions, 2 sets, 3 ticks; 207,044 states | do score, marks, snapshot and time stand under two pages, and is each step one the lifecycle allows? Yes |
| `database` | 3 threads, one of them a sender, 2 connections, 2 providers, databases and roles of doubtful origin; 96,728 states | do slots balance, is everyone answered, are mails accounted for, is only an unprivileged role served? Yes |
| `monitoring` | five casts of 2 reports, 3 pictures (quota 2), 3 sockets, 4 accounts, 2 administrators' requests; 290,748 states | do counts, pictures and socket tables agree, do relays stay in their room, are only current tokens honoured, are sockets lost after their connect forgotten? Yes |
| `intake` | four casts of 3 uploads, 2 addresses, 2 postings, 2 runs of matching; 408,189 states | do files, rows and answers account for each other, are matches current, do decisions stand? Yes |
| `completion_retry` | 1 candidate, 2 schedules | "repeated completion requests are idempotent": violated |
| `foreign_claim` | 2 reviewers | "a schedule cannot claim a candidate assigned to someone else": violated |
| `snapshot` | reading the schedule row may fail | "stable", "immutable" snapshot: violated |
| `lost_socket` | 1 identity, 2 sockets | "Automatic cleanup runs when participants disconnect": violated |
| `account_check` | 2 administrators, 2 requests | "Only super admins can modify privileged users": violated |

**Bounds.** Candidates are independent in the lifecycle (no handler touches two),
so one suffices there; the refinement, which could mix them up, takes two. Two
schedules are what one candidate needs for an old and a new one to meet, two
requests what a race needs, and two reviewers what an access conflict needs.
`OverrideStatuses = {"applied"}` is the edit that reopens a blocked candidate,
the one that could defeat the create check; the proofs cover any set.
`MaxNotices = 2` is one more than allowed, enough to see a second mail; at the
bound the handlers' steps stay enabled and the counts saturate (the journey only
asks whether a candidate was told, so 1 does there). In the
session, three ticks give a time before, at and past a report and the limit
(`clock` goes one past it), and the two sets differ both in an answer and in
size. `CHECK_DEADLOCK FALSE`, in these: schedule ids are a finite supply
here, a deleted candidate is gone, and a completed assessment needs nothing more,
so these systems may really stop.

Two connections for three threads is the least where one waits while two hold,
and where the second attempt after a closed connection meets others. In
`Migration` a defect the runner repairs, one it gives up on, and roles that are
repairable, privileged for good or owners of a table are the cases the checks
tell apart. `Monitoring` and `Intake` are products whose parts meet in few
places; each behaviour has a *cast*, a bound on who takes part, and the casts
cover each part at its own size and each place where two parts meet: reports
against a deletion; three sockets of two assessments; two requests among logins;
a candidate and a proctor of one assessment; a proctor whose account is edited
while connected; two uploads of any kind with edits and deletions; three forms
for two addresses; a matching against changes of a posting; two matchings among
reviews, edits and a deletion. Two overlapping reports and three picture names
fill a quota of two and still try it. `MaxBare = 2`, `MaxEdits = 2` (a change
before and one after a login's read) and `MaxStamp = 4` (an application, two
matchings, one change between) bound counters. The proofs cover every cast and
bound.

**Fairness.** `FairSpec` asks weak fairness of the steps of a schedule request
already in the server and of the mail of a committed outcome, nothing else: the
worker runs every handler it accepted to its answer, and each call has a timeout.
No candidate, reviewer or administrator need ever act. `DatabaseAccess` asks weak
fairness of each thread's own steps (the statement, acquire and provider
timeouts see to them) and strong fairness of taking the construction lock, which
is free again and again. `MonitoringSpec` asks it of a connect that is under way
and of noticing a client that is gone (the heartbeat's timeout), of nothing a
client or an administrator does. A restart loses both kinds
of step, so the liveness run has none: with restarts an undelivered schedule may
stay open and an outcome may never be mailed, which is what the code does. The
same run has no lost answer to an outcome's commit, for the same reason; the
cancellation may fail in it. Mail
is best effort: `FinalIsMailed` says it is attempted, and a failed send is not
repeated.

**Findings.** (1) A client that goes while `connect` is still verifying it is
registered all the same, after the `disconnect` that would have forgotten it: its
identity is refused until the process restarts (`lost_socket`). (2) Repeating
`/complete` with the old link after a reset and a new schedule moves the
candidate from `under_review` to `completed` while the new schedule is open.
(3) A schedule request whose access check passed before another reviewer's
schedule was made and withdrawn is not checked again. (4) When the read of the
prepared questions fails, a start generates its own, and overlapping starts
overwrite each other's snapshot. (5) `update_user` and `delete_user` read their
target's role without a lock, so a promotion that commits in between is changed
or deleted by an ordinary administrator. `PROJECT.json` quotes the lines.

Besides, a failed invitation cancels the committed schedule (`CancelUndelivered`),
where `docs/BACKEND_FLOW_MAP.md` says that "an email failure cannot erase the
schedule"; the code looks deliberate. And a resume whose validation raises
`zlib.error` or `NotImplementedError` (out of `testzip`) stays on the disk, where
`_delete_file` promises cleanup "when request fails after upload" (`LeaveFile`).

## Proofs

**Lifecycle** (`AssessmentLifecycleProofs`, `LifecycleJourneyProofs`). For every
finite or infinite set of candidates, reviewers, schedules and requests, under
the assumptions named in `AssessmentLifecycle` only:

- `Invariant`: `IInv` holds in every reachable state. It is the conjunction of
  `TypeOK`, the safety invariants the runs check, and what the handlers rely on
  without saying so: `RowsOK` (a schedule row has a candidate row),
  `DecisionsOK` (only a completed assessment has a decision), `ChainOK` (on the
  documented chain a candidate completes at most one assessment), `TokensOK` (an
  active schedule's token works) and `RequestsOK` (a request past its insert
  knows the row it inserted). The safety invariants are not inductive alone: that
  completing one schedule leaves the candidate no other active one takes
  `UnderReviewIffActive` and `OneActiveSchedule` together, that a decision agrees
  with every completed assessment takes `ChainOK`, that a decision sends no second
  mail takes `DecisionAgrees`, and that a reply stays true takes `RequestsOK`.
- `TypeCorrect`, `OneActive`, `RowsAgree`, `UnderReview`, `DecisionsAgree`,
  `AtMostOneNotice`, `RepliesStayTrue` follow from it; `SchedulesStayTerminal`
  and `FinalStatusStands` are the action properties, from it and one lemma on a
  step each.
- `LifecycleKeepsPromise`: every step of the lifecycle is a step of
  `HiringJourney` under the mapping, or a stutter.
- What the findings come from, and how far they go: `RepeatedCompletionIsIdle`
  (finding 2 needs the administrator's hand), `OneReviewerClaimsOwn` (finding 3
  needs a second reviewer), `OnlyWithdrawnAreClaimed` (and costs no reviewer
  anything but a cancelled schedule), `StartedIsNeverWithdrawn` (a failed
  invitation cancels only a schedule nobody has started).
- `AbandonedIsADeadEnd`: an assessment that reaches its deadline before its
  questions are stored stays `in_progress` for good. Its candidate stays under
  review, can be neither rejected nor reset nor, by `OneActive`, scheduled again;
  an edit of the status by hand does not end the assessment.
  The reset asks the administrator to "cancel or complete the active assessment"
  first, which no route can; deleting the candidate is the only way out.

One lemma per action carries the induction; actions that touch no row share
`RowsFrame` and `QuietStepKeeps`.

**Session** (`AssessmentSessionProofs`). For every set of pages, options and
question sets, every finite set of questions and every positive limit:

- `TypeCorrect`, `ScoreIsRight` and `TimeRunsOut` from `IInv`, which adds
  `TimesOK` to the type and score invariants: what a start read is no more than
  the time used, no page was told less than is used, and no request in flight
  knows less than its page was told. Without it a late answer to one page could
  tell it more than it already knew.
- `MarksAreRight`, `SnapshotIsStable`, `PagesShowTheSnapshot` and
  `ScoreCountsRightAnswers` (the cap of `finalize_assessment` takes nothing), when
  `FairlyServed`: reading the prepared questions never fails, *or* one page only is
  open. The first case rests on `PreparedOK` (only the prepared set is stored or
  about to be), the second on `InTurn` (no request that could store a set began
  after one was stored); `FairInv` is what both give. The run `snapshot` shows that one
  of the two is needed: finding 4 takes the failed read and the second page.
- `CompletedIsFrozen`: nothing that is in flight when an assessment completes
  writes its rows.
- `SessionImplementsLifecycle`: every step of a session is a step of the
  lifecycle's candidate or a stutter. Beside `IInv` it needs `LoadedStored` (a
  start that read stored questions finds them still stored, so that it is no
  longer `starting`); one lemma per step maps it.

**Database** (`ConnectionPoolProofs`, `DatabaseAccessProofs`). For every finite
set of threads, every minimum and maximum, any providers, repairs, defects and
roles:

- `PoolInv` ties the library's count of lent connections to the threads that hold
  one or are about to return one, and the construction lock to the one thread
  past it. From it `SlotsAlwaysBalance`, `NeverFoundExhausted` (which needs both
  sums, since a slot is given back after the connection), `BuiltOnce` (two threads
  never build a pool, though both found none), `ConnectionsAreBounded` (idle,
  broken and lent connections together never exceed the maximum) and
  `BorrowingIsBounded`, the safety part of the refinement of `BoundedBorrowing`.
  Those that matter of the whole server are stated of it again (`...InServer`).
- `DatabaseInv` joins `PoolInv` with `MailInv` (what each sender's stage says of
  copies, silent attempts and the row), `MigrationInv` (what a committed
  migration leaves; each `Migrate` is taken check by check) and `RoleInv` (a pool
  under construction or published in production was checked, and no later
  migration gives the role an attribute). Beside the runs' properties:
  `SuccessIsFinal` (a mail that was taken is never tried again, however its log
  row fares), `MigratedRunsAgain` and `RepeatedMigrationIsGentle` (what the runner
  committed passes its own checks again, and running it again in production
  brings nothing back).

**Monitoring** (`ProctoringProofs`, `MonitoringProofs`). For any reports,
pictures, quota, sockets, identities, accounts and requests:

- `CountNeverDrifts` and `EvidenceAlwaysAccounted` from `EvidenceInv`, which adds
  that one report at a time holds the assessment's row and that the number it
  counted is still that of the rows and its own (`HolderCounts`; what it publishes is
  right only because of both), that the picture of a report under way is that
  report's alone, and that what a running deletion has not read stays behind; `RoomsAlwaysMatch` and `RelaysStayInRoom`
  from `SocketInv`, which ties each table to the handshake's phase and to who
  opened the socket, also for one that was disconnected too early. `PartsKeepTheirOwn` is why each may be proved of its part:
  the composition only ever takes steps of the parts.
- `HonouredAreCurrent` and `RevokedStaysRevoked` from `AccountsInv`, which says
  that equal versions mean equal rights: a start time belongs to one transaction,
  so a token or a login under way that carries an account's version has seen its
  last change, and no change brings a version back that a token carries.
- `MonitoringTypes`: that `generation` keeps within `MaxEdits` needs a count
  (`ChangesCounted`): changes made and requests under way together are no more
  than the start times given out.
- `PrivilegedNeedsSuperOrStale` and `OneRequestRespectsPrivilege`: finding 5 is
  the only way a privileged account is changed without a super administrator, and
  takes two overlapping requests. They rest on `TargetChecked` (who read a
  privileged target is a super administrator) and, for one request, on
  `SeenIsCurrent`.

**Intake** (`IntakeProofs`). For any uploads, addresses, runs and any finite set
of postings: `FilesAlwaysAccounted` and `AnswersAlwaysTrue` from `UploadInv` (a
request under way owns its file and has no row, answer or deletion yet);
`BestAlwaysAgrees`, `MatchesAlwaysCurrent` and `DecisionsAlwaysStand` from `JobInv`
(no version is newer than the last stamp, so a posting at the version a run saw
is in the sector it was in; a candidate without a row has no matches);
`IntakeTypes` from both and `PickedTyped`, that a request under way has picked a
posting. That `Best` is the first of the jobs it chooses from (`BestComesFirst`,
and from it `TheBestJobIsNamed`, of every matching and rejection) rests on the
well-foundedness of the numbers and on scores between 0 and 100, the schema's
check constraint.

**Only model-checked.** Everything that needs ENABLED: `UndeliveredSettles`,
`FinalIsMailed`, `EverySendReturns`, `LostAreForgotten` and the fairness in
`BorrowingKept`. `NoForeignClaim`, `OnlySuperTouchesPrivileged`, `SnapshotStands`
without its condition, `CompletionRetrySafe` and `CleanedUpOnDisconnect` are
false of the code, which is what their runs show.

## Not modelled

Pure I/O, text and external models: question generation, resume parsing and
analysis, mail rendering, analytics and listings, the rate limiter (counters of a
library), deployment scripts, the React frontend (its requests are the models'
inputs, in any order). Weights and the recommendation (pure functions of the
tally); switching a question bank on and off; creating, renaming and deleting
sectors, where postings and candidates lose their sector without a new version;
the audit log.

Simplifications to know of: a transaction is one step, so a deadlock among row
locks is only the abort it ends in; removing a file succeeds; time stamps of
transactions are distinct; the sectors of a cast are one and none; a review of a
match reads the posting without a lock, and here in the same step; a socket id is
used again once it is forgotten everywhere; the matcher's scores are any.

## Plan

Done, in this order: `AssessmentLifecycle`, `HiringJourney` and the refinement,
`AssessmentSession`, `ConnectionPool` with its abstract lender, `EmailDelivery`,
`Migration`, `DatabaseAccess`, `Proctoring`, `ProctorSockets`, `StaffAccounts`,
`Monitoring`, `ResumeIntake`, `JobMatching`, `Intake`, each with its proofs, and
the refinement of the lifecycle by the session.

Left, the most important first:

1. The lock orders of the lifecycle's transactions over candidate, schedule and
   assessment rows: which pairs the database would have to abort.
2. Abstract promises of the parts that have none, and the proofs that they are
   kept: an account's rights as its tokens see them, and one applicant's upload
   as a single answered step.
3. Sectors: their deletion under accounts, postings and matchings under way.
4. `Scoring`: weights and the recommendation as functions, checked against
   reference definitions over bounded inputs.
