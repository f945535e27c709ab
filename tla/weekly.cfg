SPECIFICATION Spec
CONSTANTS
    DayLength = 4
    Duration = 2
    WeekLength = 3
    WindowDays = 2
    ZoneOffset = 1
    LastDay = 2
    Hours <- MCHours
    Absences <- MCAbsences
    PriceList <- MCPriceList
    MaxLessons = 1
    MaxSettled = 1
INVARIANTS
    TypeOK
    OfferIsExact
    OfferedSlotIsAccepted
    OfferedLessonsKeepTheirHours
    LeaveStatusAgrees
    QuoteIsOfTheDay
PROPERTIES
    TimetableIsKept
