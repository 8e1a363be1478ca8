\* The schedule's row may be unreadable while the session starts.
CONSTANTS
    Pages = {p1, p2}
    q1 = q1
    q2 = q2
    yes = yes
    no = no
    agreed = agreed
    other = other
    Questions <- MCQuestions
    Options <- MCOptions
    Sets <- MCSets
    Prepared = agreed
    Key <- MCKey
    NoSet = NoSet
    Limit = 3
    LoadFails = TRUE
SYMMETRY Symmetry
SPECIFICATION Spec
PROPERTIES SnapshotStands
\* A completed assessment leaves idle pages nothing to do.
CHECK_DEADLOCK FALSE
