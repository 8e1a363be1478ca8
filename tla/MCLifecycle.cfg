\* Two reviewers race to schedule one candidate twice, an administrator
\* rewrites the status, and the server may restart at any moment.
CONSTANTS
    Candidates = {c1}
    Interviewers = {i1, i2}
    Schedules = {s1, s2}
    Requests = {r1, r2}
    Nobody = Nobody
    OverrideStatuses = {"applied"}
    Restarts = TRUE
    MaxNotices = 2
SYMMETRY Symmetry
SPECIFICATION Spec
\* A deleted candidate and used-up schedule ids leave nothing to do.
CHECK_DEADLOCK FALSE
INVARIANTS
    TypeOK
    OneActiveSchedule
    ScheduleMatchesAssessment
    UnderReviewIffActive
    DecisionAgrees
    OneNotice
    RepliesHold
PROPERTIES
    TerminalSchedules
    FinalStands
