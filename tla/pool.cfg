SPECIFICATION FairSpec
CONSTANTS
    c1 = c1
    c2 = c2
    x1 = x1
    w1 = w1
    Ustaz = Ustaz
    Creations <- MCCreations
    Cancellations <- MCCancellations
    Withdrawals <- MCWithdrawals
    Resource <- MCResource
    PoolSize = 2
INVARIANTS
    TypeOK
    BookingsAreAnnounced
PROPERTIES
    RequestsFinish
CHECK_DEADLOCK FALSE
