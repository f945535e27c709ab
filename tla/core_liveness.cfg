SPECIFICATION FairSpec
CONSTANTS
    Amal = Amal
    Basel = Basel
    Ustaz = Ustaz
    T1 = T1
    T2 = T2
    MaxBooking = 2
    Bookings <- MCBookings
    Students <- MCStudents
    Owner <- OnePerStudent
    Instructors <- MCInstructors
    Teacher <- MCTeacher
    Prices <- MCPrices
    DepositPct = 50
    CashAmounts <- DeskDeposits
    Txns <- OneTxn
    TxnAmount <- OneTxnAmount
    SchoolCar <- MCBookings
    Ending <- MCBookings
    Unpriced <- NoRows
    Handlers = {h1}
    Crons = {k1}
PROPERTIES
    HoldsAreReleased
    LessonsAreSettled
