# A TLA+ model of the driving-school backend

The backend is a NestJS service over PostgreSQL. Students and receptionists book
driving lessons, pay for them in cash or through ShamCash, cancel them; instructors
take leaves and are paid their dues; vehicles are withdrawn; two crons expire holds
and settle lessons. The server keeps no state of its own: everything is in tables,
and what can go wrong is what two requests, or a request and a cron, do to the same
rows in an order nobody wrote a test for.

This directory holds the specification of that behaviour, the configurations TLC
checks it with and the theorems TLAPS proves about it. `PROJECT.json` lists the
components, the runs, the source lines behind every definition, the hazards, the
theorems and the disagreements found between the code and what it says of itself.

## Inventory

Source paths are relative to `src/src/`.

| Component | State | Operations | Hard behaviour | Correct when |
|---|---|---|---|---|
| Bookings and payments (`booking/booking.service.ts`, `payments/*`) | `booking`, `student_charges`, `student_payments`, `shamcash_transactions`, `booking_cancellations` | createReceptionBooking, createStudentBooking, confirmStudentBookingPayment, payRemainder, cancelBooking, cancelOwnBooking, manualUpdateBookingStatus | unlocked reads before commits, a long external call in the middle of a confirmation, deposits handed on from booking to booking | the money of a booking can be found, is counted right and is spent once; a released booking is never revived |
| Crons (`booking/booking-expiry.service.ts`, processExpiredBookings) | none (a batch in memory) | expireStaleHolds each minute, autoCompleteExpiredLessons each quarter of an hour | stale batch, overlapping runs, an exception that ends a run | every hold is released, every lesson is settled once, dues exactly for the lessons held |
| Instructor dues (`instructors/instructor-profile.service.ts` payDues, `expenses/*`) | `expenses`, `expenses_instructor` | payDues; created and deleted by the cron and the override | paying while the override deletes | dues exist exactly for completed lessons |
| Leaves and schedules (same file) | `instructor_unavailable_periods`, `instructor_weekly_availabilities` | submitLeave, updateLeave, cancelLeave, updateDaySchedule | cancels bookings by id on a read made without their locks; schedule edits without the instructor lock | no booking lies in a leave or outside the schedule |
| Vehicle fleet (`vehicles/vehicles.service.ts`) | `vehicles`, `vehicle_unavailable_periods` | archiveVehicle, sendToMaintenance, returnFromMaintenance, create, update, addFuel | whole entities read outside the transaction and saved back | no lesson on a withdrawn vehicle, one open maintenance period |
| Slots and prices (getAvailableSlots, validateSlotInTx, mergeWeeklyPeriods) | none | pure computations | seams and boundaries of periods, local wall clock against UTC | the slots offered are those a creation accepts |
| Authentication (`auth/auth.service.ts`) | `auth_sessions`, `auth_otp_codes` | login, refresh, logout, logoutAll, one-time codes, resetPassword | entities saved after slow hashing | a closed session stays closed, a code is used once |
| Notifications (`notifications/notifications.service.ts`) | `notifications` | sendAsync, dispatch | stored outside the transaction that causes them | a notice tells of something that happened |
| Connection pool (`database/`) | connections in use | one per transaction, and a second for settings, prices and notices read inside one | everyone holds one and waits for another | creations make progress |
| Users (`users/users.service.ts`) | `users` and profiles | createStudent, createInstructor, createEmployee | two creations of one phone | an account is created once |
| Students, instructors, employees, certificates, transport, roles, settings, controllers | their own rows | lists, lookups, validation, or nothing yet | none | not modelled |

Components meet in the tables. Every booking operation and `submitLeave`,
`updateLeave`, `archiveVehicle` and `sendToMaintenance` write `booking`; `payDues`
reads `booking` and writes `expenses`; the crons read and write both. The locks are:
the instructor row (creations, leaves, payDues), the booking row (confirm, remainder,
cancel, override), and the UNIQUE and EXCLUDE constraints of the schema.

## The modules

| Module | What it is | Composes |
|---|---|---|
| `BookingPayments` | bookings, charges, payments, credits, dues and both crons, with handlers whose reads and commits interleave | `DepositCustody` (as the refinement `Promise`) |
| `DepositCustody` | the abstract promise: where each deposit stands and how much of it there is | |
| `SlotRules` | the pure rules of the calendar: overlap, merged periods, the grid of slots, price lists | |
| `Timetable` | the abstract promise about time: lessons claim it, leaves take it | `SlotRules` |
| `WeeklySchedule` | one instructor's calendar over several days and what students are offered | `SlotRules`, `Timetable` (as the refinement `Promise`) |
| `SlotReservation` | the races for an instructor's and a vehicle's time within one day, and the fleet's workshop | `SlotRules`, `Timetable` (as the refinement `Promise`) |
| `AuthAccounts` | accounts, sessions, tokens and one-time codes | |
| `PooledTransactions` | connections, row locks, notices and crashes | |
| `BookingPaymentsProofs`, `DepositCustodyProofs`, `BookingMoneyProofs` | theorems about `BookingPayments` | each extends the one before |
| `SlotRulesProofs` | theorems about the rules of the calendar, and the inductions they need | |
| `WeeklyScheduleProofs`, `SlotReservationProofs` | theorems about their modules | each extends `SlotRulesProofs` |
| `PooledTransactionsProofs`, `AuthAccountsProofs` | theorems about their modules | |
| `MC*` | constants and symmetry for TLC | |

The booking tables are seen by three modules, each with the part of the row its
properties need. `BookingPayments` has the money and any two lessons may overlap;
`SlotReservation` has the slot and reduces what becomes of a row to `Release`,
`ConfirmCheck`, `ConfirmCommit` and `HoldLapses`; `WeeklySchedule` has whole
operations on several days. `PooledTransactions` has no data at all, only what a
request holds while it waits. The hazards in `PROJECT.json` name the properties that
answer them, at the line where each bites; one that a property answers in part, or that
none does, has a note.

## `BookingPayments`

### State

One function per column that the properties tell apart: `status`, `payment`, `lapsed`
(`locked_until <= now`), `ended` (`end_at` before the grace cutoff), `replaced` and
`cancelledBy` over booking ids; `due`, `paid`, `chargeStatus` and `chargeOn` over the
LESSON charges, a charge being named by the booking it was created with, so that
`chargeOn[c]` is its present `booking_id`; `shamcash` is the set of
`<<transaction, charge>>`; `expense` is the status of the instructor's dues for a
booking. `request[r]` is what handler `r` has read and not yet committed, and
`batch[k]` what cron run `k` has read and not yet settled: these two are the local
variables of the code and carry every race.

Rows are not deleted, so an id that does not exist yet has status `NONE`.

### Atomicity

The code runs at READ COMMITTED. A transaction that takes the booking's row lock
before it reads, and a single UPDATE, are one action. A transaction that decides on
rows it read without their lock is a read and a commit:

| Code | Actions |
|---|---|
| createReceptionBooking, createStudentBooking | `CreateRead`, then `InsertHold`, `InsertCash` or `InsertRebooking` |
| confirmStudentBookingPayment | `ConfirmVerify` (up to ShamCash's answer), `ConfirmCommit` (locked re-check) |
| payRemainder; cancelBooking, cancelOwnBooking | `PayRemainder`; `Cancel` |
| submitLeave, updateLeave | `LeaveRead`, `LeaveCommit` |
| archiveVehicle, sendToMaintenance | `VehicleRead`, `VehicleCommit` |
| manualUpdateBookingStatus | `ManualComplete`; `NoShowRead`, `NoShowCommit` (the row stays locked between them, the expense does not) |
| payDues | `PayDues` |
| expireStaleHolds; processExpiredBookings | `ExpireStaleHolds`; `CronRead`, then `CronComplete`, `CronNoShow` or `CronSkip` for each row, `CronAbort` for an exception |
| time | `HoldTimesOut`, `LessonEnds` |
| a refusal, a rollback, a crash, an error of ShamCash or of a notice inside the transaction | `Abandon` |

`UNIQUE(replaced_booking_id)`, `UNIQUE(booking_cancellations.booking_id)` and
`UNIQUE(transaction_id)` are guards of the commits: the violating transaction
rolls back, which is `Abandon`.

### What is abstracted

- The slot, the instructor lock and the vehicle chosen: any two creations may
  overlap, as they do for different instructors. This only adds behaviours.
- `LeaveRead` and `VehicleRead` may take any set of rows of the instructor, or of
  rows with a school car: which of them overlap a leave, or start after the vehicle's
  withdrawal on the UTC clock, is data no property here tells apart.
- The pending check and the credit read of a creation are one step. Between them
  the code only waits for the instructor lock; a credit or a hold that appears in
  between belongs to the order in which the other request commits before or after.
- `payDues` reads the unpaid expenses and updates them in one step: an expense
  deleted in between is matched by no UPDATE, which is the order in which the
  deletion comes first.
- VEHICLE, INSTRUCTOR and SCHOOL as the party of a cancellation are one value,
  `OTHER`: no code treats them differently.
- The amounts of the dues, times of payments, names and reasons, and the notices.
- Amounts are integers in the smallest unit; `Deposit` rounds as the code does.
- That `FOR UPDATE` locks the row is taken from the code's intent
  (`lock: { mode: 'pessimistic_write' }`); the SQL that TypeORM makes of it is
  outside the repository.

### `DepositCustody`, and how `BookingPayments` implements it

The abstract module knows no tables, handlers or crons: a deposit is awaited, held,
earned, forfeited, lost, a credit, spent on another lesson (held again) or stranded,
and its amount changes only while it is awaited or held. The mapping (`StandingOf`)
says where the deposit of a charge stands: with the row the charge is on now, so that
handing a charge on to a replacing row is the step `Reuse`. `DepositsAreKept` is the
abstract specification as a property of the tables; `core_races` checks it and
`DepositsAlwaysKept` proves it.

The abstract module says what the code does keep. It has the standing "stranded" and
lets the school cancel a released or settled lesson, because the code does both; what
the repository promises beyond that is in the runs that expect a violation.

## The calendar: `SlotRules`, `WeeklySchedule`

`SlotRules` has no state. `MergePeriods` is mergeWeeklyPeriods (booking) and
mergePeriods (instructor profile): `Extend` applied to the periods in the order of their
starts; `GridStarts` is
the loop of getAvailableSlots; `FitsInAPeriod` and `FitsNewPeriods` are the two checks
of a lesson against working hours, which read the clock differently (`Reading`: a
lesson that ends at midnight ends at 00:00 for updateDaySchedule).

`WeeklySchedule` puts them on a wall clock that runs through several days: `today`,
`clock`, the weekly `schedule`, `leaves`, `lessons` (the rows that still reserve their
time), `settled` (how many rows of each day are COMPLETED or NO_SHOW, which reserve
nothing and are still counted by the profile's header) and the last `quote`. Its actions
are whole operations (updateDaySchedule, submitLeave, updateLeave, cancelLeave, a
booking from the offer or for any time at all, the release and the settling of a
lesson), since the races are `SlotReservation`'s. `Settle` stands for the cron, which
waits for the lesson's end, and for the receptionist's override, which waits for nothing.

What is hard here is agreement of computations that were written separately: the offer
against the check of a booking, the edit of the hours that looks at one date only, prices
looked up by the UTC date while everything else is on the wall clock, a profile header
against the list of leaves. `OfferIsExact` compares the offer with a definition by single
units of time that knows neither periods nor merging.

Two of the properties name the exception that the code has: an edit takes a lesson
that ends at midnight for one that ends at 00:00, and in the first hours after
midnight (`ZoneOffset`, three hours in the code) a lesson is sold at yesterday's price.
`OfferedLessonsKeepTheirHours` speaks of lessons from the offer only: a client can
book a date beyond the window, which no edit of the hours looks at.

A FULL_DAY_LEAVE may stand beside a count that is not zero: submitLeave takes a leave
for a day that has begun, and it cancels only the rows that still reserve, so the lessons
of the morning that were settled stay in the header. What `LeaveStatusAgrees` says is
that the count is then exactly those: no lesson of the day is still to be taught and no
slot of it is offered.

Bounds (`weekly`): a day of 4 units, a lesson of 2, a week of 3 days with a window of
2, three days, one lesson at a time and one settled (`MaxSettled`: enough for a day of
leave with a lesson behind it), the wall one unit ahead of UTC. The
periods include two that touch in the middle of a lesson, two with a gap and two that
overlap (which must be refused); the leaves include a whole day, part of one, and one
from an afternoon to the next morning. A price changes
inside the run.

## Who gets a slot: `SlotReservation`

A request is a record in `request[r]` that holds what it read; the stages are

| Code | Actions |
|---|---|
| getVehicleCandidates, before any transaction | `ReadCandidates` |
| the transaction of one candidate: lock, validateSlotInTx, INSERT | `ValidateSlot`, `InsertBooking`; `NextCandidate` on 23P01 |
| confirmStudentBookingPayment | `ConfirmCheck`, `ConfirmCommit` |
| submitLeave, updateLeave; cancelLeave | `LeaveBegin`, `LeaveCommit`; `CancelLeave` |
| updateDaySchedule | `ScheduleRead`, `ScheduleCommit` |
| archiveVehicle, sendToMaintenance, returnFromMaintenance, update | `FleetRead`, `FleetCommit` |
| cancellations, crons, time | `Release`, `HoldLapses` |
| refusals, rollbacks, crashes | `Abandon` |

The instructor's `FOR UPDATE` and the lock on the row of a confirmation are derived
from the requests (`InstructorFree`, `RowFree`): a lock is held from the stage that
takes it to the last. The EXCLUDE constraints of migration 1782000000002 are guards of
`InsertBooking`; they count an unpaid hold until a statement changes its status, which
is why a payment that arrives after the hold lapsed is still safe.

Three history variables mark exactly the races the code does not close, so that the
properties hold outside them: `raced` (a row inserted or revived between the check of
an edit of the hours and its commit, without the instructor's lock), `missed` (a row
that the withdrawal of its vehicle did not see, because the vehicle and its lessons
are read outside any transaction, or because it is an unpaid hold), `clash` (a vehicle
changed by two overlapping requests of the fleet office, whose whole entities
overwrite each other). They are not in the code, and no guard reads them.

`LessonsFitSchedule` names a further exception, which is no race: an edit reads the end
of a lesson that ends at midnight as 00:00, so that it accepts hours the lesson is
outside of (a period may end at "24:00", update-day-schedule.dto.ts:12). Without the
exception TLC finds such an edit in the instance of `slots`.

Bounds (`slots`): two rows, two handlers and four requests in a behaviour; in one
scope the requests are about one instructor's calendar (own car, lessons that
overlap by half, one across two touching periods and one that ends at midnight), in the other about two vehicles and two instructors. A scope is
chosen at the start: a calendar request and a fleet request share nothing but the
rows, which both scopes have. The operations of a vehicle's fuel and the wording of
its fields are not modelled, and one vehicle type stands for each.

### `Timetable`, which both calendars implement

The abstract module has no requests, locks, stages, prices or working hours: a set of
claims (a lesson booked or waiting for its payment: instructor, vehicle, time, and
whether its hold has run out) and the leaves of each instructor. A claim is made in one
step, clear of every claim and every leave of that moment; claims may be given up or
become late at any time; a leave is taken, or replaces another, in one step that leaves
no claim in its way but late ones.

`WeeklySchedule` implements it operation by operation. `SlotReservation` implements it
although it decides in one stage what it writes in another: the step `Claim` is
`InsertBooking`, whose request validated the calendar a stage earlier and chose its
vehicle before that, and `TakeLeave` is `LeaveCommit`, whose list of lessons may be old
by then. A payment that arrives late must claim nothing (`ConfirmCommit` is no step of
the timetable at all, as a lapsed hold is a claim until it is swept). Working hours are not part of the
promise: the code lets them change under a lesson (`LessonsFitSchedule` names how).

## Accounts: `AuthAccounts`

argon2 is slow by design, and the service hashes between reading an entity
and saving it; other requests run meanwhile. An operation is therefore one action up
to the slow step (`LoginRead`, `RefreshRead`, `LogoutRead`, `IssueRead`,
`OtpAccepted`, `ResetRead`, ...) and one for the write (`LoginInsert`, `Rotate`,
`Revoke`, `IssueCommit`, `OtpSave`, `ResetCommit`, ...). `Rotate`, `Revoke` and
`OtpSave` write back columns as they were read, which is what `repository.save()` of a
loaded entity does, so that a rotation can revive a session that was revoked while it
hashed, and a wrong attempt can revive a code that was consumed.

Tokens are numbers (the n-th refresh token of a session) and a session's hash is the
number of the token it matches. What an access or reset token proves is the user row
it was signed for, with a ghost: the number of the password then in force. A client
that misses the answer of a rotation is in `lost`; such a client is logged out by its
next refresh, which the code intends. Expiry of tokens and sessions, wrong passwords
and forged tokens are refusals and no actions; codes expire when their cooldown ends,
because both are two minutes (`aged`). account_status has no writer at run time, so
the inactive accounts are a constant.

Bounds (`auth`): one phone, two devices, two sessions, two codes and three of these
rows together, one attempt per code, two refresh tokens per session, two changes of
the token version. Two devices suffice for every overtaking (a request and one other
writer), three rows for a session revoked and another opened, or a code replaced.

## Connections and notices: `PooledTransactions`

A creation holds a connection from BEGIN to COMMIT and, inside it, reads the price and
stores its notice over further connections, because those repositories are not the
transaction's. With as many creations as connections, all wait for ever: the pool has
no timeout. The module has the phases of a creation, a cancellation (notice after the
commit, awaited) and a withdrawal of a vehicle (notices in the background, errors
dropped), the row locks, failures at every phase and a crash of the process, which
loses the queued dispatches. `RequestsFinish` names the drained pool as the only
reason for which a request that has begun does not end.

Bounds (`pool`): two creations for one instructor, one cancellation and one withdrawal
over two connections: the smallest pool that two creations drain, with one request
that holds a connection and one that waits for a row.

## Runs

| Run | Checks | Instance |
|---|---|---|
| `core_races` | `TypeOK`, `ChargeStatusAgrees`, `FullyPaidIsCovered`, `TxnSpentOnce`, `DuesFollowLesson`, `RemainderIsOffered`, `ReleasedStaysReleased`, `DepositsAreKept` (the refinement) | 2 bookings of one student, 2 handlers, 1 cron, 2 transactions, 1 unpriced lesson: 1.34 million states |
| `core_rebooking` | `ChargeFollowsBooking`, `CreditSpentOnce`, `DepositCollected`, `CancellationDecidesDeposit`, `ReadsStillHold`, `CancellationIsFinal` | 3 bookings of one student, 2 handlers, no cron: 1.74 million states |
| `core_liveness` | `HoldsAreReleased`, `LessonsAreSettled` | 2 bookings of two students, 1 handler, 1 cron, no symmetry: 187 thousand states |
| `weekly` | `TypeOK`, `OfferIsExact`, `OfferedSlotIsAccepted`, `OfferedLessonsKeepTheirHours`, `LeaveStatusAgrees`, `QuoteIsOfTheDay`, `TimetableIsKept` (the refinement) | three short days, one settled lesson: 315 thousand states |
| `slots` | `TypeOK`, `OneLessonPerSlot`, `ValidatedSlotIsFree`, `LeaveHasNoLessons`, `LessonsFitSchedule`, `WithdrawnCarsCarryNoLessons`, `MaintenanceMatchesStatus`, `TimetableIsKept` (the refinement) | 2 rows, 2 handlers, 4 requests: 185 thousand states |
| `auth` | `TypeOK`, `TokensFollowPassword`, `ClientTokenIsCurrent`, `AccountsAreKept`, `RevocationSticks`, `SpentCodesStaySpent` | 1 phone, 2 devices: 1.35 million states |
| `pool` | `TypeOK`, `BookingsAreAnnounced`, `RequestsFinish` | 4 requests, 2 connections: 24 thousand states |
| `free_credit`, `stale_cron`, `deleted_dues`, `lost_payment`, `two_holds` | one property each, violated | 1 or 2 bookings |

Bounds of the `core` runs. `Bookings` bounds the rows that are ever created: two
suffice for every race on a row and for one rebooking, three for two creations that
race for one credit and for a credit handed on twice. `Ending` bounds the lessons that
come to their end. `Handlers` is the number of two-step requests in progress (two,
since each race here is between a read and one other writer; one-step requests and
crons are not counted). A lesson costs 4 and its deposit is 2; the desk collects too
little, the deposit or more than the price, and a transaction is too small or the
deposit: one value for each outcome of a comparison in the code. `core_rebooking`
leaves out ShamCash, the crons and vehicles, which `core_races` has. The bounds of the
other runs are with their modules.

Deadlock is checked in the `core` runs, in `weekly` and in the runs that expect a
violation: time or some request can always go on. `slots`, `auth` and `pool` stop when
the requests or rows of the instance are used up; in `pool` the waiting of everybody
for everybody is what `RequestsFinish` is about.

Handlers, devices, vehicles and instructors are interchangeable (`Symmetry`); no
liveness property is checked under symmetry.

## Fairness

`BookingPayments!FairSpec`. Time passes (`HoldTimesOut`, `LessonEnds`), and the
scheduler starts both crons (`@Cron` each minute and each quarter of an hour), so these
are weakly fair. A cron's UPDATE waits for the row lock that overrides may take again
and again, and PostgreSQL queues the waiters: strong fairness for `CronProcess`. A
handler that has locked a row ends its transaction one way or the other
(`NoShowCommit \/ Abandon`). Runs of the cron are aborted finitely often and no lesson
is unpriced: the code needs both, since one exception ends a run and the next run meets
the same row again. No request of a user is assumed to arrive.

`PooledTransactions!FairSpec`. A request that has begun goes on by itself (the event
loop runs every ready continuation), and both queues it may wait in, the pool's and
PostgreSQL's for a row, are first come first served: `Proceed(r)` is strongly fair.
Nothing makes a request begin, fail or crash.

## Where the code and what it says of itself part

Each is a run with its counterexample; `PROJECT.json` quotes both sides.

- `free_credit`: a hold nobody paid for becomes a reusable deposit when anybody but
  the student cancels it, or a leave sweeps it away.
- `stale_cron`: the completion cron decides on the payment status it read with its
  batch; a remainder paid in between is burnt and the lesson is a no-show.
- `deleted_dues`: a manual NO_SHOW deletes dues that payDues has just paid.
- `lost_payment`: a withdrawn vehicle cancels a fully paid lesson, and the payment,
  promised to be applied to the next booking, is never found again.
- `two_holds`: two creations of one student with different instructors both pass the
  pending check.

Not runs: an edit of the hours leaves a lesson that ends at midnight outside them,
because it compares readings of the clock as strings, although
instructor-profile.service.ts:324 says "Booking must fit ENTIRELY within one merged
period" (see `LessonsFitSchedule`); and `student-booking.service.spec.ts:179-204`
expects `payRemainder` to set COMPLETED and to answer 'Lesson completed and payment
recorded', while the code leaves BOOKED and answers otherwise. The model follows the
code.

## Proofs

Every theorem is for all values of the constants, from the assumptions named in the
modules (ids are naturals and non-zero, amounts are naturals, the percentage is at most
100, a phone is not the string that marks an empty row, requests of different kinds are
different and finitely many; lessons are within a day, and periods and leaves end after
they begin). Four are about the calendar: working periods lie between 00:00 and 24:00
(`ClockPeriods`: columns of type TIME), leaves have both ends (submitLeave and
updateLeave refuse others), a price list is finite with one row per date (UNIQUE in the
schema), and the booking window is at most a week (the setting is 4; nothing in the
code enforces it, and `LessonsKeepTheirHours` would be false without it).

| Module | Theorem | States |
|---|---|---|
| `BookingPaymentsProofs` | `TypeCorrect` | `Spec => []TypeOK` |
| | `ChargeAlwaysFollows` | `Spec => []ChargeFollowsBooking` |
| | `CreditNeverSpentTwice` | `Spec => []CreditSpentOnce` |
| | `CancellationAlwaysDecides` | `Spec => []CancellationDecidesDeposit` |
| | `ReadsAlwaysHold` | `Spec => []ReadsStillHold` |
| | `ReleasedNeverRevives` | `Spec => ReleasedStaysReleased` |
| | `CancellationIsAlwaysFinal` | `Spec => CancellationIsFinal` |
| `DepositCustodyProofs` | `DepositsAlwaysKept` | `Spec => DepositsAreKept` (the refinement) |
| `BookingMoneyProofs` | `ChargeStatusAlwaysAgrees` | `Spec => []ChargeStatusAgrees` |
| | `TxnNeverSpentTwice` | `Spec => []TxnSpentOnce` |
| | `DepositAlwaysCollected` | `Spec => []DepositCollected` |
| | `FullyPaidAlwaysCovered` | `Spec => []FullyPaidIsCovered` |
| | `RemainderAlwaysOffered` | `Spec => []RemainderIsOffered` |
| | `DuesAlwaysFollow` | `Spec => []DuesFollowLesson` |
| `SlotRulesProofs` | `MergedPeriods` | `AreStretchesOf(MergePeriods(P), P)` for every finite set `P` of periods |
| | `FitsIsCovered` | `FitsInAPeriod` is "every unit is working time" |
| | `GridStartsExact` | what `GridStarts` contains, by units of time |
| | `ValidPeriodsApart` | `PeriodsValid` makes periods pairwise disjoint |
| `WeeklyScheduleProofs` | `TypeCorrect` | `Spec => []TypeOK` |
| | `OfferExact` | `Spec => []OfferIsExact` |
| | `OfferAccepted` | `Spec => []OfferedSlotIsAccepted` |
| | `LessonsKeepTheirHours` | `Spec => []OfferedLessonsKeepTheirHours` |
| | `StatusAgrees` | `Spec => []LeaveStatusAgrees` |
| | `QuoteOfTheDay` | `Spec => []QuoteIsOfTheDay` |
| | `TimetableKept` | `Spec => TimetableIsKept` (the refinement) |
| `SlotReservationProofs` | `TypeCorrect` | `Spec => []TypeOK` |
| | `LessonsNeverCollide` | `Spec => []OneLessonPerSlot` |
| | `ValidationHolds` | `Spec => []ValidatedSlotIsFree` |
| | `LeavesAreFree` | `Spec => []LeaveHasNoLessons` |
| | `LessonsKeepHours` | `Spec => []LessonsFitSchedule` |
| | `WithdrawalsHold` | `Spec => []WithdrawnCarsCarryNoLessons` |
| | `MaintenanceHolds` | `Spec => []MaintenanceMatchesStatus` |
| | `TimetableKept` | `Spec => TimetableIsKept` (the refinement) |
| `PooledTransactionsProofs` | `PoolNeverOverdrawn` | `Spec => []TypeOK` |
| | `BookingsAlwaysAnnounced` | `Spec => []BookingsAreAnnounced` |
| `AuthAccountsProofs` | `TypeCorrect` | `Spec => []TypeOK` |
| | `TokensAlwaysFollowPassword` | `Spec => []TokensFollowPassword` |
| | `ClientTokenIsAlwaysCurrent` | `Spec => []ClientTokenIsCurrent` |
| | `AccountsAlwaysKept` | `Spec => AccountsAreKept` |
| | `RevocationAlwaysSticks` | `Spec => RevocationSticks` |
| | `SpentCodesAlwaysStaySpent` | `Spec => SpentCodesStaySpent` |

### Bookings: `CustodyInv`

`CustodyInv` is the types, the three properties of the rows and `ReadsStillHold`. None
of the three is inductive alone. A rebooking marks a deposit used on the strength of a
credit some handler read earlier, so what handlers have read must be part of the
invariant: the row it names is still a cancelled one of that student, perhaps used
since, and then `UniqueReplaced` refuses the commit because `CreditSpentOnce` says who
used it. A leave or a vehicle writes CANCELLED by id, so the rows must exist and must
not be cancelled already, which `UniqueCancellation` gives with
`CancellationDecidesDeposit`. A manual NO_SHOW commits without looking again, so the
row it locked must still be booked or completed.

The proof of the step sorts the actions into three kinds. Steps that create no row are
`Quiet` (a cancelled row keeps everything, another is cancelled with its record or has
no credit), and one lemma (`QuietStep`) shows that a quiet step that respects the locks
keeps the invariant; each such action has a lemma that it is quiet. Reads change one
request (`ReadStep`). Insertions add a row (`InsertStep`) or hand a deposit on
(`RebookingStep`).

### The refinement: `DepositInv`

`DepositInv` is `CustodyInv` with what a vehicle's request has read. `RowStep` lists what a
statement can make of one row and its payments; each action is shown to be a row step
of every row it touches (`ConfirmMoves`, `LeaveMoves`, `VehicleMoves`, `CronMoves`, ...),
and one table lemma (`RowStepMoves`) maps row steps to steps of the custody.
Insertions and rebookings are mapped by themselves, since they change which row a
charge is on.

### Money: `ChargeInv`, `CollectInv`, `FullInv`

Each rests on `CustodyInv`. `ChargeInv` adds to the status of the charges and the
uniqueness of transactions that a recorded transaction is on a charge that exists.
`CollectInv` adds to `DepositCollected` that a booked row without a credit has its own
charge and that a verified confirmation covers the deposit of the charge it will find:
the verification precedes the locked re-check by an external call. `FullInv`
strengthens `FullyPaidIsCovered` with the rows seen by a vehicle's request, which
writes back the payment status it read; it needs `CoveredStays`, that nothing uncovers
a charge.

### The rules of the calendar

What the loops over sorted periods compute is an induction, and the library's induction
theorems take an operator as a parameter, which the provers cannot instantiate.
`SlotRulesProofs` goes around it: the finite subsets of a set are well-founded by strict
inclusion (`FS_StrictSubsetOrderingWellFounded`, `WFMin`), so a non-empty family of
them has a smallest member (`SmallestSet`), and so has a non-empty set of naturals
(`LeastNat`). Each induction is then the refutation of a smallest counterexample:
a set of periods has an enumeration in the order of the starts (`SortExists`), the recursive
function of `MergePeriods` exists (`ResultExists`), and each of its values merges the
periods up to there (`ResultMerges`, with the step `ExtendMerges`). For this
`SortedByStart` is an ordered enumeration and `MergePeriods` a recursive function;
TLC evaluates both as they stand.

`MergedPeriods` is all that the rest needs to know of merging. From it the proofs of both
modules about the calendar argue by single units of time (`Covered`), as `OfferIsExact` does.

### A calendar over days: `Inv` of `WeeklyScheduleProofs`

`OfferExact` and `OfferAccepted` need only the types (`Shape`): a slot of the grid is
within its day and its working time, and the window that is read drops nothing that
could collide with it (`WindowIsEnough`). The other properties rest on three parts.
`Apart`: leaves meet neither each other nor a lesson, because a new leave takes out the
lessons it overlaps. `InHours` strengthens `OfferedLessonsKeepTheirHours`, which is not
inductive: that a lesson of the offer is *within the window* until its day is over is what
makes an edit of its weekday look at its date (`NextOccurrenceIsTheDay`), and the
readings that the edit compares are then the lesson's times of that day
(`ReadingsOfALesson`). `QuoteKept`: the quote is a reading of the price list at a time of
the run. `StatusAgrees` follows from `Apart`: a leave that covers the day leaves no lesson
of that day standing, so all that the header counts are rows already settled.

### Slots and the fleet: `Inv` of `SlotReservationProofs`

`Core` is the types and `Locks`: two requests never hold one instructor, a confirmation
under way is the only one of its row and the row is still unpaid (every other writer
asks for `RowFree`), and the rows a leave or a withdrawal will cancel exist. On it rest
four parts.

- `RowsApart` strengthens `OneLessonPerSlot` from booked rows to all that the EXCLUDE
  constraints count: the constraint refuses an insert only, so a confirmation keeps the
  lessons apart only because the hold it books counted all along.
- `Calendar` is `ValidatedSlotIsFree`, `LeaveHasNoLessons` and what makes them
  inductive: no two leaves of an instructor overlap, and a leave under way still has
  in its list every row that it meets and whose hold has not lapsed (`LeaveMeets`),
  because no creation can insert while it holds the instructor.
- `Fleets` says of every vehicle no two requests clashed over that occupied rows are
  known to its withdrawal, that its maintenance matches its status, that a creation
  still has the vehicle only if it was in service or is marked as withdrawn, and that
  what a request of the fleet office read is still so.
- `HoursKept` is `LessonsFitSchedule` for all rows that occupy a slot, with what requests
  have read: the rows an edit checked fit the periods it will write, and a slot validated
  under the lock fits the hours unless an edit committed since. Two edits of one instructor
  can leave the union of both sets of periods, and a lesson that fits some periods fits
  more of them (`MorePeriodsFit`).

Steps that only read are one lemma (`ReadsKeepShape`: the request is then `WellRead`),
and steps that insert nothing are another (`Shrinks`: no row takes a slot back), so
that each part is shown once for all of them.

### The timetable: `Inv` and `Plans`

In `WeeklyScheduleProofs` each operation is one step of `Timetable` by its own guards.
In `SlotReservationProofs` it takes the whole of `Inv`, because the guards of a stage
that writes say too little. That an inserted row meets no leave is
`ValidatedSlotIsFree`; that it meets no claim are the EXCLUDE constraints, with overlap
symmetric for lessons; that a committed leave keeps only late claims in its way, and meets
no leave but the one it replaces, is `LeaveMeets`. `Plans` adds what no other property needs: the leave
a request replaces is still there when it commits (a lock keeps every other writer off:
the instructor's for leaves, the leave's own for `CancelLeave`), and no row is late
before it is inserted. All steps that insert nothing are one lemma again
(`ShrinkingClaims`).

### Pool and notices

`Holders` never exceeds the pool because `Begin` alone adds one, when a connection is
free; the cardinalities are the library's facts on finite sets. `AnnouncedInv` adds to
`BookingsAreAnnounced` that a creation that has announced itself has its notice stored
and that a cancellation past its commit is written.

### Accounts: `Shape`, `ProofInv`, `ClientInv`

`Shape` adds to the types that clients and requests name rows that exist. All reads are
treated at once: `ReadsKeepShape` shows that each leaves one request that is `WellRead`,
and the invariants are shown for any such request.

`ProofInv` says that what a client holds *or a request under way has read* is
`Truthful`: of a version the account has reached, and of the present password if it is
of the present version. The quantity that makes it inductive is the pair of password
and version: no step changes the password of an account without its version
(`Outdates`). Codes to reset a password must belong to accounts, because the row
they vouch for is read with them.

`ClientInv` says that no two clients use one session, counting the session a request
is about to save, so a save of one client leaves the token of every other current; and
that a save that revokes a session writes back the hash the session still has. The two
action properties follow from `Shape` alone: a session revoked (a code spent) is named
by no read that could revive it.

### Only model-checked

- `HoldsAreReleased`, `LessonsAreSettled`, `RequestsFinish`: liveness under fairness is
  out of the prover's reach.

TLC checked every property, and the parts of `CustodyInv`, before it was proved.

## Not modelled

- Students, instructors and employees: profiles are created with the account
  (`AuthAccounts`); the rest is lists and lookups.
- Certificates, transport, general expenses: entities without an operation.
- Roles and guards: a lookup on each request that nothing changes at run time.
- Settings: read only; they are the constants of the modules.
- Controllers, DTOs, filters, interceptors: they bound the inputs; the rules that bound
  a state (periods of a day, leaves, lessons) are guards of the actions.
- ShamCash itself: an answer to a verification, or an error, outside the repository.
- Migrations and seeds: constraints are guards of the commits; the one-off conversion of
  timestamps ran before the code modelled here and its meaning is PostgreSQL's.
- purgeExpiredSessions, which nothing calls.
- The order of two vehicles' candidates, fuel, prices of maintenance, wording of
  notices and every formatted answer.

## What is left

1. One instance of `SlotReservation` with calendar and fleet requests together and three
   handlers, if the state space can be reduced enough.
2. The abstract promises have safety only: that every claim is let go in the end is
   `HoldsAreReleased` of `BookingPayments`, stated of its rows.
