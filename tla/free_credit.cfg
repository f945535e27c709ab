SPECIFICATION Spec
CONSTANTS
    Amal = Amal
    Basel = Basel
    Ustaz = Ustaz
    T1 = T1
    T2 = T2
    MaxBooking = 1
    Bookings <- MCBookings
    Students <- MCStudents
    Owner <- AllAmal
    Instructors <- MCInstructors
    Teacher <- MCTeacher
    Prices <- MCPrices
    DepositPct = 50
    CashAmounts <- DeskDeposits
    Txns <- OneTxn
    TxnAmount <- OneTxnAmount
    SchoolCar <- MCBookings
    Ending <- MCBookings
    Unpriced <- NoRows
    Handlers = {h1}
    Crons = {k1}
INVARIANT CreditIsBackedByDeposit
