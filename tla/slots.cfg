SPECIFICATION Spec
CONSTANTS
    DayLength = 4
    Duration = 2
    Rows <- MCRows
    Instructors = {i1, i2}
    Vehicles = {v1, v2}
    NoVehicle = NoVehicle
    Starts <- MCStarts
    FirstHours <- MCFirstHours
    Hours <- MCHours
    Absences <- MCAbsences
    MaxPeriods = 1
    Handlers = {h1, h2}
    Scopes <- MCScopes
INVARIANTS
    TypeOK
    OneLessonPerSlot
    ValidatedSlotIsFree
    LeaveHasNoLessons
    LessonsFitSchedule
    WithdrawnCarsCarryNoLessons
    MaintenanceMatchesStatus
PROPERTIES
    TimetableIsKept
SYMMETRY Symmetry
CHECK_DEADLOCK FALSE
