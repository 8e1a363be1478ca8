\* A completion request repeated after the candidate was reset and rescheduled.
CONSTANTS
    Candidates = {c1}
    Interviewers = {i1}
    Schedules = {s1, s2}
    Requests = {r1}
    Nobody = Nobody
    OverrideStatuses = {}
    Restarts = FALSE
    MaxNotices = 2
SPECIFICATION Spec
\* A deleted candidate and used-up schedule ids leave nothing to do.
CHECK_DEADLOCK FALSE
PROPERTIES
    CompletionRetrySafe
