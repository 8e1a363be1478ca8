\* One schedule request at a time, no restarts: every handler is answered.
CONSTANTS
    Candidates = {c1}
    Interviewers = {i1, i2}
    Schedules = {s1, s2}
    Requests = {r1}
    Nobody = Nobody
    OverrideStatuses = {"applied"}
    Restarts = FALSE
    MaxNotices = 2
SPECIFICATION FairSpec
\* A deleted candidate and used-up schedule ids leave nothing to do.
CHECK_DEADLOCK FALSE
PROPERTIES
    UndeliveredSettles
    FinalIsMailed
