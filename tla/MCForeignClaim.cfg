\* Two reviewers pass the access check before either of them schedules.
CONSTANTS
    Candidates = {c1}
    Interviewers = {i1, i2}
    Schedules = {s1, s2}
    Requests = {r1, r2}
    Nobody = Nobody
    OverrideStatuses = {}
    Restarts = FALSE
    MaxNotices = 2
SPECIFICATION Spec
\* A deleted candidate and used-up schedule ids leave nothing to do.
CHECK_DEADLOCK FALSE
PROPERTIES
    NoForeignClaim
