--------------------------- MODULE SlotReservation ---------------------------
(***************************************************************************)
(* Who gets a lesson slot, an instructor and a vehicle of the school, when *)
(* bookings, payments, leaves, edits of the working hours and the fleet's  *)
(* workshop overlap in time (booking.service.ts, instructor-profile.       *)
(* service.ts, vehicles.service.ts, migration 1782000000002).              *)
(*                                                                         *)
(* All lessons are on one future day.  The database is PostgreSQL at READ  *)
(* COMMITTED: a request is an action per stage between which other         *)
(* requests run, and holds its row locks from the stage that takes them to *)
(* the last.  The EXCLUDE constraints and UNIQUE indexes are guards of the *)
(* stage that writes; a request they refuse rolls back (Abandon).          *)
(***************************************************************************)
EXTENDS SlotRules

CONSTANTS
    Rows,         \* ids of booking rows (a bound)
    Instructors,
    Vehicles,     \* vehicles of the one type the lessons need
    NoVehicle,    \* the student's own car
    Starts,       \* times a lesson may start at
    FirstHours,   \* the working periods everybody starts with
    Hours,        \* sets of periods an edit may submit
    Absences,     \* stretches a leave may cover
    MaxPeriods,   \* bound: maintenance periods of a vehicle
    Handlers,     \* requests in flight at most
    Scopes        \* bound: what the requests of one behaviour are about

ASSUME SlotReservationAssumption ==
    /\ NoVehicle \notin Vehicles
    /\ Starts \subseteq 0..(DayLength - Duration)
    /\ FirstHours \subseteq {p \in ClockPeriods : p.from < p.to}
    /\ Hours \subseteq SUBSET ClockPeriods
    /\ Absences \subseteq {p \in [from: Nat, to: Nat] : p.from < p.to}
    /\ MaxPeriods \in Nat
    /\ Scopes \subseteq [instructors: SUBSET Instructors, starts: SUBSET Starts,
                         ownCar: BOOLEAN, calls: SUBSET {"leave", "edit", "fleet"},
                         requests: Nat]

VARIABLES
    status,       \* booking.booking_status; "NONE": no row, "SETTLED": COMPLETED,
                  \* NO_SHOW or EXPIRED
    place,        \* instructor, vehicle and time of a row
    lapsed,       \* locked_until has passed (kept when the row is booked after that)
    hours,        \* instructor_weekly_availabilities of the weekday
    leaves,       \* instructor_unavailable_periods
    service,      \* vehicles.status
    workshop,     \* vehicle_unavailable_periods of a vehicle, by id
    bills,        \* expenses_vehicle rows for the maintenance of a period
    request,      \* what each request has read so far
    started,      \* requests so far
    scope,        \* which of them, and how many (a bound, chosen once)
    raced,        \* rows inserted while an edit of the hours was being checked
    missed,       \* rows a withdrawal of their vehicle did not see
    clash         \* vehicles two overlapping requests of the fleet office changed

rowVars == <<status, place, lapsed>>
fleetVars == <<service, workshop, bills>>
requestVars == <<request, started, scope>>
ghosts == <<raced, missed, clash>>
vars == <<rowVars, hours, leaves, fleetVars, requestVars, ghosts>>

Statuses == {"NONE", "PENDING_PAYMENT", "BOOKED", "CANCELLED", "SETTLED"}
Cars == Vehicles \cup {NoVehicle}
Place(i, v, t) == [instructor |-> i, vehicle |-> v, slot |-> Lesson(t)]
NoPlace == [instructor |-> "NONE", vehicle |-> "NONE", slot |-> "NONE"]
PeriodIds == 1..MaxPeriods
Idle == [op |-> "idle"]

-----------------------------------------------------------------------------
(* Reads. *)

Exists(b) == status[b] # "NONE"
LiveHold(b) == status[b] = "PENDING_PAYMENT" /\ ~lapsed[b]
Reserving(b) == status[b] = "BOOKED" \/ LiveHold(b)
RowsOf(i) == {b \in Rows : Exists(b) /\ place[b].instructor = i}
RowsWith(v) == {b \in Rows : Exists(b) /\ place[b].vehicle = v}
Meets(b, stretch) == Overlaps(place[b].slot, stretch)

(* What the EXCLUDE constraints look at: a hold counts until a status       *)
(* change, however long ago it lapsed.  Mutant: only booked rows count.     *)
Occupies_BookedOnly(b) == status[b] = "BOOKED"
Occupies(b) == status[b] \in {"PENDING_PAYMENT", "BOOKED"}
InstructorExcluded(i, slot) == \E b \in RowsOf(i) : Occupies(b) /\ Meets(b, slot)
VehicleExcluded(v, slot) == /\ v # NoVehicle
                            /\ \E b \in RowsWith(v) : Occupies(b) /\ Meets(b, slot)

(* SELECT ... FOR UPDATE of the instructor's row, which also keeps off the  *)
(* key share lock that inserting a row that refers to it takes; mutant:     *)
(* the row is read without a lock.                                          *)
HoldsInstructor(r, i) == \/ request[r].op = "create" /\ request[r].validated
                            /\ request[r].instructor = i
                         \/ request[r].op = "leave" /\ request[r].instructor = i
InstructorFree_NoForUpdate(i) == i \in Instructors
InstructorFree(i) == \A r \in Handlers : ~HoldsInstructor(r, i)

(* The lock on a booking row of a confirmation under way. *)
RowFree(b) == \A r \in Handlers : ~(request[r].op = "confirm" /\ request[r].row = b)

(* The lock on a leave of an update under way. *)
LeaveFree(i, l) == \A r \in Handlers :
                      ~(/\ request[r].op = "leave"
                        /\ request[r].instructor = i
                        /\ request[r].replaces = {l})

(* validateSlotInTx; mutant: an unpaid hold does not block. *)
Blocks_Booked(b) == status[b] = "BOOKED"
Blocks(b) == Reserving(b)
SlotOk(i, slot) ==
    /\ FitsInAPeriod(slot, hours[i])
    /\ \A l \in leaves[i] : ~Overlaps(slot, l)
    /\ \A b \in RowsOf(i) : Blocks(b) => ~Meets(b, slot)

OpenPeriods(v) == {k \in PeriodIds : workshop[v][k] = "OPEN"}

(* Mutant: whatever the status of the vehicle. *)
InService_Any(v) == v \in Vehicles
InService(v) == service[v] = "ACTIVE"

BlockedVehicles(slot) ==
    {v \in Vehicles : \/ OpenPeriods(v) # {}
                      \/ \E b \in RowsWith(v) : Reserving(b) /\ Meets(b, slot)}

(* The cars getAvailableSlots loads, and whether one of them is free for a  *)
(* slot: a maintenance that has not ended meets every lesson to come.       *)
ActiveVehicles == {v \in Vehicles : service[v] = "ACTIVE"}
HasVehicle(slot) ==
    \E v \in ActiveVehicles : /\ OpenPeriods(v) = {}
                              /\ \A b \in RowsWith(v) : Reserving(b) => ~Meets(b, slot)

(* What getVehicleCandidates may return.  It compares the ids of vehicles,  *)
(* BIGINTs that the driver hands over as strings unless told otherwise,     *)
(* with a set of numbers, so that possibly no blocked vehicle is left out.  *)
CandidateReads(slot) ==
    LET vehicles == {v \in Vehicles : InService(v)}
    IN {vehicles, vehicles \ BlockedVehicles(slot)}

-----------------------------------------------------------------------------
Init ==
    /\ status = [b \in Rows |-> "NONE"]
    /\ place = [b \in Rows |-> NoPlace]
    /\ lapsed = [b \in Rows |-> FALSE]
    /\ hours = [i \in Instructors |-> FirstHours]
    /\ leaves = [i \in Instructors |-> {}]
    /\ service = [v \in Vehicles |-> "ACTIVE"]
    /\ workshop = [v \in Vehicles |-> [k \in PeriodIds |-> "NONE"]]
    /\ bills = [v \in Vehicles |-> [k \in PeriodIds |-> 0]]
    /\ request = [r \in Handlers |-> Idle]
    /\ started = 0
    /\ scope \in Scopes
    /\ raced = {}
    /\ missed = {}
    /\ clash = {}

Free(r) == request[r].op = "idle"
Start(r, req) ==
    /\ Free(r)
    /\ started < scope.requests
    /\ started' = started + 1
    /\ request' = [request EXCEPT ![r] = req]
    /\ UNCHANGED scope
Continue(r, req) == request' = [request EXCEPT ![r] = req] /\ UNCHANGED <<started, scope>>
Finish(r) == Continue(r, Idle)

(* A request is refused, rolls back or dies. *)
Abandon(r) ==
    /\ ~Free(r)
    /\ Finish(r)
    /\ UNCHANGED <<rowVars, hours, leaves, fleetVars, ghosts>>

-----------------------------------------------------------------------------
(* createReceptionBooking ("BOOKED", as on a credit) and                    *)
(* createStudentBooking ("PENDING_PAYMENT"): the vehicles that look free    *)
(* are read outside the transaction; each is tried in a transaction of its  *)
(* own that locks the instructor and validates the slot.                    *)

ReadCandidates(r, i, t, as, cars) ==
    /\ cars # {}
    /\ cars = {NoVehicle} \/ cars \in CandidateReads(Lesson(t))
    /\ Start(r, [op |-> "create", instructor |-> i, start |-> t, as |-> as,
                 cars |-> cars, validated |-> FALSE, edited |-> FALSE,
                 withdrawn |-> {}])
    /\ UNCHANGED <<rowVars, hours, leaves, fleetVars, ghosts>>

Creating(r, validated) == request[r].op = "create" /\ request[r].validated = validated

ValidateSlot(r) ==
    /\ Creating(r, FALSE)
    /\ InstructorFree(request[r].instructor)
    /\ SlotOk(request[r].instructor, Lesson(request[r].start))
    /\ Continue(r, [request[r] EXCEPT !.validated = TRUE])
    /\ UNCHANGED <<rowVars, hours, leaves, fleetVars, ghosts>>

InsertBooking(r, b, v) ==
    LET req == request[r]
    IN /\ Creating(r, TRUE)
       /\ status[b] = "NONE"
       /\ \A c \in Rows : c < b => Exists(c)
       /\ v \in req.cars
       /\ ~InstructorExcluded(req.instructor, Lesson(req.start))
       /\ ~VehicleExcluded(v, Lesson(req.start))
       /\ status' = [status EXCEPT ![b] = req.as]
       /\ place' = [place EXCEPT ![b] = Place(req.instructor, v, req.start)]
       /\ raced' = IF req.edited THEN raced \cup {b} ELSE raced
       /\ missed' = IF v \in req.withdrawn THEN missed \cup {b} ELSE missed
       /\ Finish(r)
       /\ UNCHANGED <<lapsed, hours, leaves, fleetVars, clash>>

(* 23P01 on ex_booking_vehicle_overlap: the transaction rolls back and the  *)
(* next candidate is tried; any other conflict ends the request.            *)
NextCandidate(r, v) ==
    LET req == request[r]
    IN /\ Creating(r, TRUE)
       /\ v \in req.cars
       /\ VehicleExcluded(v, Lesson(req.start))
       /\ ~InstructorExcluded(req.instructor, Lesson(req.start))
       /\ Continue(r, IF req.cars = {v} THEN Idle
                      ELSE [req EXCEPT !.cars = @ \ {v}, !.validated = FALSE])
       /\ UNCHANGED <<rowVars, hours, leaves, fleetVars, ghosts>>

-----------------------------------------------------------------------------
(* What becomes of a row (BookingPayments has the whole story). *)

(* confirmStudentBookingPayment locks the row, looks at the clock ... *)
ConfirmCheck(r, b) ==
    /\ RowFree(b)
    /\ LiveHold(b)
    /\ Start(r, [op |-> "confirm", row |-> b])
    /\ UNCHANGED <<rowVars, hours, leaves, fleetVars, ghosts>>

(* ... and books it, when the hold may just have lapsed. *)
ConfirmCommit(r) ==
    /\ request[r].op = "confirm"
    /\ status' = [status EXCEPT ![request[r].row] = "BOOKED"]
    /\ Finish(r)
    /\ UNCHANGED <<place, lapsed, hours, leaves, fleetVars, ghosts>>

(* Cancelled by hand, swept after its hold lapsed, or settled. *)
Release(b, to) ==
    /\ RowFree(b)
    /\ \/ to = "CANCELLED" /\ Occupies(b)
       \/ to = "SETTLED" /\ (status[b] = "BOOKED" \/ (Occupies(b) /\ lapsed[b]))
    /\ status' = [status EXCEPT ![b] = to]
    /\ UNCHANGED <<place, lapsed, hours, leaves, fleetVars, requestVars, ghosts>>

HoldLapses(b) ==
    /\ LiveHold(b)
    /\ lapsed' = [lapsed EXCEPT ![b] = TRUE]
    /\ UNCHANGED <<status, place, hours, leaves, fleetVars, requestVars, ghosts>>

(* Rows a request loaded become CANCELLED, whatever they are by now, unless *)
(* one of them has its cancellation record already.                         *)
CancelAll(B) ==
    /\ \A b \in B : RowFree(b) /\ status[b] # "CANCELLED"
    /\ status' = [b \in Rows |-> IF b \in B THEN "CANCELLED" ELSE status[b]]

-----------------------------------------------------------------------------
(* Leaves. *)

(* submitLeave (replaces = {}) and updateLeave: under the instructor's      *)
(* lock, no other leave in the way; then the reserving rows it meets are    *)
(* loaded.  "now" was taken before the transaction: a hold that lapsed      *)
(* since may still count as live.                                           *)
LeaveBegin(r, i, replaces, leave, late) ==
    /\ InstructorFree(i)
    /\ replaces \subseteq leaves[i] /\ Cardinality(replaces) <= 1
    /\ \A l \in leaves[i] \ replaces : ~Overlaps(leave, l)
    /\ late \subseteq {b \in RowsOf(i) : /\ status[b] = "PENDING_PAYMENT"
                                         /\ lapsed[b]
                                         /\ Meets(b, leave)}
    /\ Start(r, [op |-> "leave", instructor |-> i, replaces |-> replaces,
                 leave |-> leave,
                 rows |-> late \cup {b \in RowsOf(i) : Reserving(b) /\ Meets(b, leave)}])
    /\ UNCHANGED <<rowVars, hours, leaves, fleetVars, ghosts>>

LeaveCommit(r) ==
    LET req == request[r]
    IN /\ req.op = "leave"
       /\ leaves' = [leaves EXCEPT ![req.instructor] =
                        (@ \ req.replaces) \cup {req.leave}]
       /\ CancelAll(req.rows)
       /\ Finish(r)
       /\ UNCHANGED <<place, lapsed, hours, fleetVars, ghosts>>

CancelLeave(i, l) ==
    /\ l \in leaves[i]
    /\ LeaveFree(i, l)
    /\ leaves' = [leaves EXCEPT ![i] = @ \ {l}]
    /\ UNCHANGED <<rowVars, hours, fleetVars, requestVars, ghosts>>

-----------------------------------------------------------------------------
(* updateDaySchedule. *)

(* The bookings are checked outside the transaction and without the         *)
(* instructor's lock; mutant: unpaid holds are not looked at.               *)
EditChecks_Booked(i) == {b \in RowsOf(i) : status[b] = "BOOKED"}
EditChecks(i) == {b \in RowsOf(i) : Reserving(b)}

ScheduleRead(r, i, periods) ==
    /\ PeriodsValid(periods)
    /\ \A b \in EditChecks(i) : FitsNewPeriods(place[b].slot, periods)
    /\ Start(r, [op |-> "edit", instructor |-> i, periods |-> periods,
                 rows |-> {b \in RowsOf(i) : Reserving(b)}, edited |-> FALSE])
    /\ UNCHANGED <<rowVars, hours, leaves, fleetVars, ghosts>>

(* The old rows are deleted and the new ones inserted.  If another edit of  *)
(* the day committed after this one's DELETE took its snapshot, the rows of *)
(* the other stay, and UNIQUE (instructor, day, start) may refuse the new.  *)
ScheduleCommit(r) ==
    LET req == request[r]
        i == req.instructor
    IN /\ req.op = "edit"
       /\ req.periods # {} => InstructorFree(i)
       /\ \/ hours' = [hours EXCEPT ![i] = req.periods]
          \/ /\ req.edited
             /\ \A p \in req.periods, q \in hours[i] : p.from # q.from
             /\ hours' = [hours EXCEPT ![i] = @ \cup req.periods]
       /\ request' = [q \in Handlers |->
                        IF q = r THEN Idle
                        ELSE IF request[q].op \in {"create", "edit"} /\ request[q].instructor = i
                             THEN [request[q] EXCEPT !.edited =
                                      @ \/ request[q].op = "edit" \/ request[q].validated]
                             ELSE request[q]]
       /\ raced' = raced \cup {b \in RowsOf(i) : Occupies(b) /\ b \notin req.rows}
       /\ UNCHANGED <<rowVars, leaves, fleetVars, started, scope, missed, clash>>

-----------------------------------------------------------------------------
(* The fleet office. *)

FleetOps == {"archive", "maintain", "return", "rename"}

(* The status an operation asks for. *)
Allowed(op, v) ==
    /\ op = "archive" => service[v] \notin {"ARCHIVED", "INACTIVE"}
    /\ op = "maintain" => service[v] = "ACTIVE"
    /\ op = "return" => service[v] = "INACTIVE"

(* The vehicle, its booked lessons and its open maintenance period are      *)
(* loaded outside any transaction.                                          *)
FleetRead(r, op, v, k) ==
    /\ Allowed(op, v)
    /\ k \in IF op = "return" THEN OpenPeriods(v) ELSE {0}
    /\ Start(r, [op |-> op, vehicle |-> v, status |-> service[v], period |-> k,
                 rows |-> IF op \in {"archive", "maintain"}
                          THEN {b \in RowsWith(v) : status[b] = "BOOKED"} ELSE {}])
    /\ UNCHANGED <<rowVars, hours, leaves, fleetVars, ghosts>>

(* The entity that was loaded is saved with its new status. *)
NewStatus(req) ==
    IF req.op = "rename" THEN req.status
    ELSE [archive |-> "ARCHIVED", maintain |-> "INACTIVE", return |-> "ACTIVE"][req.op]

(* The end of a maintenance period; mutant: the vehicle is returned, its    *)
(* period stays open.                                                       *)
ClosedPeriod_LeftOpen == "OPEN"
ClosedPeriod == "CLOSED"

NewPeriod(v) == CHOOSE k \in PeriodIds : workshop[v][k] = "NONE"

(* The bill of a maintenance, if it cost anything. *)
BillMaintenance(v, k) == bills' = [bills EXCEPT ![v][k] = @ + 1]

Others(r, v) == {q \in Handlers : q # r /\ request[q].op \in FleetOps
                                        /\ request[q].vehicle = v}

FleetCommit(r) ==
    LET req == request[r]
        v == req.vehicle
        withdraws == req.op \in {"archive", "maintain"}
    IN /\ req.op \in FleetOps
       /\ service' = [service EXCEPT ![v] = NewStatus(req)]
       /\ \/ /\ req.op = "maintain"
             /\ \E k \in PeriodIds : workshop[v][k] = "NONE"
             /\ workshop' = [workshop EXCEPT ![v][NewPeriod(v)] = "OPEN"]
             /\ UNCHANGED bills
          \/ /\ req.op = "return"
             /\ workshop' = [workshop EXCEPT ![v][req.period] = ClosedPeriod]
             /\ BillMaintenance(v, req.period) \/ UNCHANGED bills
          \/ req.op \in {"archive", "rename"} /\ UNCHANGED <<workshop, bills>>
       /\ CancelAll(req.rows)
       /\ missed' = IF withdraws
                    THEN missed \cup {b \in RowsWith(v) : Occupies(b) /\ b \notin req.rows}
                    ELSE missed
       /\ clash' = IF Others(r, v) # {} THEN clash \cup {v} ELSE clash
       /\ request' = [q \in Handlers |->
                        IF q = r THEN Idle
                        ELSE IF withdraws /\ request[q].op = "create" /\ v \in request[q].cars
                             THEN [request[q] EXCEPT !.withdrawn = @ \cup {v}]
                             ELSE request[q]]
       /\ UNCHANGED <<place, lapsed, hours, leaves, started, scope, raced>>

-----------------------------------------------------------------------------
Create(r) ==
    \/ \E i \in scope.instructors, t \in scope.starts, as \in {"BOOKED", "PENDING_PAYMENT"},
         cars \in IF scope.ownCar THEN {{NoVehicle}} ELSE SUBSET Vehicles :
            ReadCandidates(r, i, t, as, cars)
    \/ ValidateSlot(r)
    \/ \E v \in Cars : NextCandidate(r, v) \/ \E b \in Rows : InsertBooking(r, b, v)

Confirm(r) == ConfirmCommit(r) \/ \E b \in Rows : ConfirmCheck(r, b)

Leave(r) ==
    \/ \E i \in scope.instructors, leave \in Absences, late \in SUBSET Rows :
          /\ "leave" \in scope.calls
          /\ \E replaces \in {{}} \cup {{l} : l \in leaves[i]} :
             LeaveBegin(r, i, replaces, leave, late)
    \/ LeaveCommit(r)

Edit(r) ==
    \/ /\ "edit" \in scope.calls
       /\ \E i \in scope.instructors, periods \in Hours : ScheduleRead(r, i, periods)
    \/ ScheduleCommit(r)

Fleet(r) ==
    \/ /\ "fleet" \in scope.calls
       /\ \E op \in FleetOps, v \in Vehicles, k \in 0..MaxPeriods : FleetRead(r, op, v, k)
    \/ FleetCommit(r)

Next ==
    \/ \E r \in Handlers : Create(r) \/ Confirm(r) \/ Leave(r) \/ Edit(r) \/ Fleet(r) \/ Abandon(r)
    \/ \E b \in Rows : HoldLapses(b) \/ \E to \in {"CANCELLED", "SETTLED"} : Release(b, to)
    \/ \E i \in Instructors : \E l \in leaves[i] : CancelLeave(i, l)

Spec == Init /\ [][Next]_vars

-----------------------------------------------------------------------------
TypeOK ==
    /\ status \in [Rows -> Statuses]
    /\ \A b \in Rows : Exists(b) =>
          place[b] \in {Place(i, v, t) : i \in Instructors, v \in Cars, t \in Starts}
    /\ lapsed \in [Rows -> BOOLEAN]
    /\ \A i \in Instructors : \A p \in hours[i] : p.from < p.to
    /\ service \in [Vehicles -> {"ACTIVE", "INACTIVE", "ARCHIVED"}]
    /\ workshop \in [Vehicles -> [PeriodIds -> {"NONE", "OPEN", "CLOSED"}]]
    /\ bills \in [Vehicles -> [PeriodIds -> Nat]]
    /\ \A i \in Instructors : \A l, m \in leaves[i] : l # m => ~Overlaps(l, m)

(* Two lessons never share an instructor or a vehicle of the school, whoever *)
(* raced for the slot and whatever was read before: the EXCLUDE constraints *)
(* hold for a late payment too, because a lapsed hold keeps its slot until  *)
(* it is swept.                                                             *)
OneLessonPerSlot ==
    \A b, c \in Rows : b # c /\ status[b] = "BOOKED" /\ status[c] = "BOOKED"
                             /\ Meets(b, place[c].slot) =>
        /\ place[b].instructor # place[c].instructor
        /\ place[b].vehicle = place[c].vehicle => place[b].vehicle = NoVehicle

(* Once a creation has validated its slot, the instructor's lock keeps the  *)
(* slot free until it inserts: no leave covers it, and only a lapsed hold   *)
(* that was not swept yet can make the insert fail on the instructor.       *)
ValidatedSlotIsFree ==
    \A r \in Handlers : Creating(r, TRUE) =>
        LET i == request[r].instructor
            slot == Lesson(request[r].start)
        IN /\ \A l \in leaves[i] : ~Overlaps(slot, l)
           /\ \A b \in RowsOf(i) : Occupies(b) /\ Meets(b, slot) => lapsed[b]

(* An instructor on leave has no lesson: every lesson that the leave meets  *)
(* is cancelled with it and none is booked into it, except one whose        *)
(* payment was being recorded when its hold lapsed: the leave took it for   *)
(* released.                                                                *)
LeaveHasNoLessons ==
    \A i \in Instructors : \A l \in leaves[i], b \in RowsOf(i) :
        Reserving(b) /\ Meets(b, l) => lapsed[b]

(* Lessons stay within the working hours whatever edits race, except those  *)
(* that were booked, or confirmed after their hold lapsed, between the      *)
(* check of an edit and its commit, and those that end at midnight, which   *)
(* the edit takes for 00:00.                                                *)
LessonsFitSchedule ==
    \A i \in Instructors : \A b \in RowsOf(i) :
        Reserving(b) /\ b \notin raced /\ Reading(place[b].slot.to) # 0
            => FitsInAPeriod(place[b].slot, hours[i])

(* No lesson is booked on a vehicle that is out of service, except those    *)
(* that were not yet booked when the vehicle's lessons were read (a hold    *)
(* among them), and except when two requests of the fleet office overlap.   *)
WithdrawnCarsCarryNoLessons ==
    \A v \in Vehicles : \A b \in RowsWith(v) :
        status[b] = "BOOKED" /\ service[v] # "ACTIVE" => b \in missed \/ v \in clash

(* A vehicle is in the workshop exactly while one maintenance period of it  *)
(* is open, so that it can be returned; a maintenance is billed once, when  *)
(* it is over; and a vehicle in service is offered for every slot in which  *)
(* it carries no lesson.  Two requests of the fleet office for one vehicle  *)
(* that overlap can break all of it.                                        *)
MaintenanceMatchesStatus ==
    \A v \in Vehicles \ clash :
        /\ service[v] = "INACTIVE" <=> OpenPeriods(v) # {}
        /\ Cardinality(OpenPeriods(v)) <= 1
        /\ \A k \in PeriodIds : \/ bills[v][k] = 0
                                \/ bills[v][k] = 1 /\ workshop[v][k] = "CLOSED"
        /\ service[v] = "ACTIVE" =>
              \A t \in Starts :
                 (\A b \in RowsWith(v) : Reserving(b) => ~Meets(b, Lesson(t)))
                    => HasVehicle(Lesson(t))

-----------------------------------------------------------------------------
(* The rows that keep a slot, as the promise about time sees them. *)

ClaimOf(b) == [instructor |-> place[b].instructor, vehicle |-> place[b].vehicle,
               slot |-> place[b].slot, late |-> lapsed[b]]

Claims == {ClaimOf(b) : b \in {c \in Rows : Occupies(c)}}

Promise == INSTANCE Timetable WITH OwnCar <- NoVehicle, claims <- Claims

(* The stages of a creation and of a leave, with all that other requests do *)
(* in between, come to one step each of the timetable: a row is inserted    *)
(* clear of what stands then, not only of what was validated, a late        *)
(* payment claims nothing new, and a leave appears together with the        *)
(* cancellation of every lesson in its way.                                 *)
TimetableIsKept == Promise!Spec
=============================================================================
