SPECIFICATION Spec
CONSTANTS
    Amal = Amal
    Basel = Basel
    Ustaz = Ustaz
    T1 = T1
    T2 = T2
    MaxBooking = 2
    Bookings <- MCBookings
    Students <- MCStudents
    Owner <- AllAmal
    Instructors <- MCInstructors
    Teacher <- MCTeacher
    Prices <- MCPrices
    DepositPct = 50
    CashAmounts <- MCCashAmounts
    Txns <- TwoTxns
    TxnAmount <- TwoTxnsAmount
    SchoolCar <- MCBookings
    Ending <- MCBookings
    Unpriced <- FirstUnpriced
    Handlers = {h1, h2}
    Crons = {k1}
INVARIANTS
    TypeOK
    ChargeStatusAgrees
    FullyPaidIsCovered
    TxnSpentOnce
    DuesFollowLesson
    RemainderIsOffered
PROPERTIES
    ReleasedStaysReleased
    DepositsAreKept
SYMMETRY Symmetry
