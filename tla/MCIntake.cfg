\* Three uploads, two postings, two runs of matching; see MCCasts for what
\* takes part together.
CONSTANTS
    tech = tech
    u1 = u1
    u2 = u2
    u3 = u3
    m1 = m1
    m2 = m2
    Uploads = {u1, u2, u3}
    Emails = {ann, bob}
    Unknown = Unknown
    NoRow = NoRow
    Jobs = {1, 2}
    NoJob = NoJob
    Sectors = {tech}
    Everywhere = Everywhere
    Runs = {m1, m2}
    Scores = {0, 1}
    MaxStamp = 4
    Followed = u1
    Casts <- MCCasts
SPECIFICATION IntakeSpec
INVARIANTS
    IntakeTypeOK
    FilesAccounted
    AnswersAreTrue
    BestAgreesWithRows
PROPERTIES
    MatchesAreCurrent
    DecisionsStand
