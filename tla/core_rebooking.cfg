SPECIFICATION Spec
CONSTANTS
    Amal = Amal
    Basel = Basel
    Ustaz = Ustaz
    T1 = T1
    T2 = T2
    MaxBooking = 3
    Bookings <- MCBookings
    Students <- MCStudents
    Owner <- AllAmal
    Instructors <- MCInstructors
    Teacher <- MCTeacher
    Prices <- MCPrices
    DepositPct = 50
    CashAmounts <- DeskDeposits
    Txns <- NoTxns
    TxnAmount <- NoTxnsAmount
    SchoolCar <- NoRows
    Ending <- NoRows
    Unpriced <- NoRows
    Handlers = {h1, h2}
    Crons = {}
INVARIANTS
    ChargeFollowsBooking
    CreditSpentOnce
    DepositCollected
    CancellationDecidesDeposit
    ReadsStillHold
PROPERTIES
    CancellationIsFinal
SYMMETRY Symmetry
