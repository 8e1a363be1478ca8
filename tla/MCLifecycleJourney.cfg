\* Two candidates, one reviewer, one schedule request at a time, restarts.
CONSTANTS
    Candidates = {c1, c2}
    Interviewers = {i1}
    Schedules = {s1, s2}
    Requests = {r1}
    Nobody = Nobody
    OverrideStatuses = {}
    Restarts = TRUE
    MaxNotices = 1
SYMMETRY Symmetry
SPECIFICATION Spec
\* A deleted candidate and used-up schedule ids leave nothing to do.
CHECK_DEADLOCK FALSE
PROPERTIES
    KeepsPromise
