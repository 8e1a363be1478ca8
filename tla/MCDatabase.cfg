\* Three threads, one of them sending a mail, and two connections to share.
CONSTANTS
    Threads = {t1, t2, t3}
    Senders = {t1}
    Nobody = Nobody
    Minimum = 1
    Maximum = 2
    Order <- MCOrder
    SslRetry = TRUE
    Production = TRUE
    Repairs <- MCRepairs
    Legacies <- MCLegacies
    LegacyRoles <- MCRoles
SPECIFICATION Spec
INVARIANTS
    DatabaseTypeOK
    SlotsBalance
    NeverExhausted
    CopiesAccounted
    ReportIsTrue
    MigratedIsServable
    ServesLeastPrivilege
PROPERTIES
    BorrowingKept
    EverySendReturns
