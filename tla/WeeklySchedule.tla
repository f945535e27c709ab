--------------------------- MODULE WeeklySchedule ---------------------------
(***************************************************************************)
(* One instructor's calendar over several days: the weekly working hours   *)
(* and their edits, the leaves, the lessons, what students are offered and *)
(* what a booking accepts as the wall clock moves on                       *)
(* (instructor-profile.service.ts, getAvailableSlots and validateSlotInTx  *)
(* of booking.service.ts).                                                 *)
(*                                                                         *)
(* Operations do not overlap here, and a vehicle is always free: the races *)
(* on one day are the subject of SlotReservation.  A stretch of time on    *)
(* the calendar counts units from the first day's midnight on the wall;    *)
(* days are numbered, a week has WeekLength of them (7 in the code).       *)
(***************************************************************************)
EXTENDS SlotRules

CONSTANTS
    WeekLength,   \* days in a week
    WindowDays,   \* the setting booking_window_days
    ZoneOffset,   \* SCHOOL_TZ_OFFSET_MS
    LastDay,      \* bound: days that can pass
    Hours,        \* sets of periods an edit may submit for a day
    Absences,     \* stretches a leave may cover
    PriceList,    \* lesson_price rows of one combination
    MaxLessons,   \* bound: lessons at a time
    MaxSettled    \* bound: settled rows of a day (none is settled after that)

(* The code does not enforce the relation of the window to the week: it is  *)
(* what the setting (4) satisfies.                                          *)
ASSUME WeeklyScheduleAssumption ==
    /\ WeekLength \in Nat \ {0}
    /\ WindowDays \in 1..WeekLength
    /\ ZoneOffset \in 0..DayLength
    /\ LastDay \in Nat
    /\ Hours \subseteq SUBSET ClockPeriods
    /\ Absences \subseteq {p \in [from: Nat, to: Nat] : p.from < p.to}
    /\ IsFiniteSet(PriceList) /\ PriceList \subseteq [since: Int, price: Nat]
    /\ \A p, q \in PriceList : p.since = q.since => p = q
    /\ MaxLessons \in Nat
    /\ MaxSettled \in Nat

VARIABLES
    today, clock, \* the wall clock: day and time of day
    schedule,     \* instructor_weekly_availabilities: weekday -> periods
    leaves,       \* instructor_unavailable_periods
    lessons,      \* reserving rows of booking, and how each was booked
    settled,      \* how many rows of each day are COMPLETED or NO_SHOW
    quote         \* the price told at the last booking, and when

vars == <<today, clock, schedule, leaves, lessons, settled, quote>>

Weekdays == 0..(WeekLength - 1)
Days == 0..LastDay
Weekday(day) == day % WeekLength
DayOf(t) == t \div DayLength
Midnight(day) == day * DayLength
LocalNow == Midnight(today) + clock
OnDay(slot) == [from |-> slot.from - Midnight(DayOf(slot.from)),
                to |-> slot.to - Midnight(DayOf(slot.from))]

-----------------------------------------------------------------------------
(* What students are offered: the grid of every day of the window, without  *)
(* what collides with the leaves and lessons read for the window.           *)

WindowEnd_LastMidnight == Midnight(today + WindowDays - 1)
WindowEnd == LocalNow + WindowDays * DayLength

InWindow(stretches) == {p \in stretches : p.from < WindowEnd /\ p.to > LocalNow}

Stretch(l) == [from |-> l.from, to |-> l.to]
Taken == {Stretch(l) : l \in lessons}

NotPast(slot) == slot.from > LocalNow

Grid == UNION {{Lesson(Midnight(day) + t) : t \in GridStarts(schedule[Weekday(day)])}
                 : day \in today..(today + WindowDays - 1)}

Offered ==
    {slot \in Grid :
        /\ NotPast(slot)
        /\ \A p \in InWindow(leaves) \cup InWindow(Taken) : ~Overlaps(slot, p)}

(* validateSlotInTx, which knows no past and no window. *)
SlotIsAvailable(slot) ==
    /\ FitsInAPeriod(OnDay(slot), schedule[Weekday(DayOf(slot.from))])
    /\ \A p \in leaves \cup Taken : ~Overlaps(slot, p)

-----------------------------------------------------------------------------
(* Prices are looked up by the date in UTC, which is yesterday's on the     *)
(* wall until ZoneOffset has passed.                                        *)
UtcDate == DayOf(LocalNow - ZoneOffset)

(* What is quoted (getEffectiveLessonPrice with the UTC clock) and when. *)
Quote == [price |-> EffectivePrice(PriceList, UtcDate), day |-> today, clock |-> clock]

-----------------------------------------------------------------------------
(* The header of an instructor's profile. *)

LeavesToday == {p \in leaves : p.from < Midnight(today + 1) /\ p.to > Midnight(today)}

(* One leave that covers the day; mutant: one that reaches either end. *)
CoversToday_EitherEnd(p) == p.from <= Midnight(today) \/ p.to >= Midnight(today + 1)
CoversToday(p) == p.from <= Midnight(today) /\ p.to >= Midnight(today + 1)

LeaveStatus ==
    IF LeavesToday = {} THEN "NONE"
    ELSE IF \E p \in LeavesToday : CoversToday(p) THEN "FULL_DAY_LEAVE"
    ELSE "PARTIAL_LEAVE"

(* getLeaves shows a leave as whole days by the readings of its two ends. *)
ShownAsFullDay(p) == Reading(p.from) = 0 /\ Reading(p.to) = 0

LessonsOn(day) == {l \in lessons : DayOf(l.from) = day}

(* Counts settled rows beside the reserving ones. *)
TodayLessonsCount == Cardinality(LessonsOn(today)) + settled[today]

-----------------------------------------------------------------------------
Init ==
    /\ today = 0
    /\ clock = 0
    /\ schedule = [w \in Weekdays |-> {}]
    /\ leaves = {}
    /\ lessons = {}
    /\ settled = [day \in Days |-> 0]
    /\ quote = Quote

(* The only date whose lessons an edit of weekday w looks at; mutant: the   *)
(* date of the same weekday a week from now when w is today.                *)
NextOccurrence_NotToday(w) == today + 1 + ((w - Weekday(today) - 1) % WeekLength)
NextOccurrence(w) == today + ((w - Weekday(today)) % WeekLength)

(* updateDaySchedule: refused while a lesson on that date, if the booking   *)
(* window includes it, does not fit the new periods.                        *)
UpdateDaySchedule(w, periods) ==
    /\ PeriodsValid(periods)
    /\ NextOccurrence(w) < today + WindowDays =>
          \A l \in LessonsOn(NextOccurrence(w)) : FitsNewPeriods(l, periods)
    /\ schedule' = [schedule EXCEPT ![w] = periods]
    /\ UNCHANGED <<today, clock, leaves, lessons, settled, quote>>

Book(slot, fromOffer) ==
    /\ Cardinality(lessons) < MaxLessons
    /\ SlotIsAvailable(slot)
    /\ Quote.price # NoPrice
    /\ lessons' = lessons \cup {[from |-> slot.from, to |-> slot.to, offered |-> fromOffer]}
    /\ quote' = Quote
    /\ UNCHANGED <<today, clock, schedule, leaves, settled>>

(* A student takes one of the slots shown, or any client any date at all. *)
BookOffered(slot) == slot \in Offered /\ Book(slot, TRUE)
BookAnywhere(start) == Book(Lesson(start), FALSE)

(* submitLeave: leaves do not overlap, and the lessons it overlaps are      *)
(* cancelled; mutant: only those that start within it.                      *)
LeaveIsFree(leave, others) == \A p \in others : ~Overlaps(leave, p)
LessonsOutside_StartOnly(leave) ==
    {l \in lessons : ~(leave.from <= l.from /\ l.from < leave.to)}
LessonsOutside(leave) == {l \in lessons : ~Overlaps(l, leave)}

SubmitLeave(leave) ==
    /\ LeaveIsFree(leave, leaves)
    /\ leaves' = leaves \cup {leave}
    /\ lessons' = LessonsOutside(leave)
    /\ UNCHANGED <<today, clock, schedule, settled, quote>>

(* updateLeave: the same against the other leaves. *)
UpdateLeave(old, leave) ==
    /\ old \in leaves
    /\ LeaveIsFree(leave, leaves \ {old})
    /\ leaves' = (leaves \ {old}) \cup {leave}
    /\ lessons' = LessonsOutside(leave)
    /\ UNCHANGED <<today, clock, schedule, settled, quote>>

(* cancelLeave: the lessons it cancelled stay cancelled. *)
CancelLeave(leave) ==
    /\ leave \in leaves
    /\ leaves' = leaves \ {leave}
    /\ UNCHANGED <<today, clock, schedule, lessons, settled, quote>>

(* A lesson is cancelled, or its hold expires (BookingPayments). *)
Release(l) ==
    /\ l \in lessons
    /\ lessons' = lessons \ {l}
    /\ UNCHANGED <<today, clock, schedule, leaves, settled, quote>>

(* A lesson becomes COMPLETED or NO_SHOW: the cron waits for its end, the   *)
(* override for nothing, so it may even settle a lesson in advance.  The    *)
(* row leaves its slot and stays in the day's count.                        *)
Settle(l) ==
    /\ l \in lessons
    /\ DayOf(l.from) \in Days
    /\ \A day \in Days : settled[day] < MaxSettled
    /\ lessons' = lessons \ {l}
    /\ settled' = [settled EXCEPT ![DayOf(l.from)] = @ + 1]
    /\ UNCHANGED <<today, clock, schedule, leaves, quote>>

Tick ==
    /\ \/ clock + 1 < DayLength /\ clock' = clock + 1 /\ UNCHANGED today
       \/ clock + 1 = DayLength /\ today < LastDay /\ clock' = 0 /\ today' = today + 1
    /\ UNCHANGED <<schedule, leaves, lessons, settled, quote>>

Next ==
    \/ \E w \in Weekdays, periods \in Hours : UpdateDaySchedule(w, periods)
    \/ \E slot \in Offered : BookOffered(slot)
    \/ \E start \in Midnight(0)..(Midnight(LastDay + 1) - 1) : BookAnywhere(start)
    \/ \E leave \in Absences : SubmitLeave(leave)
    \/ \E old \in leaves, leave \in Absences : UpdateLeave(old, leave)
    \/ \E leave \in leaves : CancelLeave(leave)
    \/ \E l \in lessons : Release(l) \/ Settle(l)
    \/ Tick

Spec == Init /\ [][Next]_vars

-----------------------------------------------------------------------------
(* Working hours are kept as disjoint periods (the accepted neighbour check *)
(* is enough for that), and leaves are disjoint.                            *)
TypeOK ==
    /\ today \in Days
    /\ clock \in 0..(DayLength - 1)
    /\ \A w \in Weekdays :
          /\ \A p \in schedule[w] : p.from < p.to
          /\ \A p, q \in schedule[w] : p # q => ~Overlaps(p, q)
    /\ \A p, q \in leaves : p # q => ~Overlaps(p, q)
    /\ \A l \in lessons : l.to = l.from + Duration /\ l.offered \in BOOLEAN
    /\ settled \in [Days -> Nat]

(* The units of a day that the stored periods declare as working time, and  *)
(* the ones of a calendar day that are neither on leave nor taken.          *)
Working(day) == {t \in 0..(DayLength - 1) :
                    \E p \in schedule[Weekday(day)] : p.from <= t /\ t < p.to}
Free(day) == {t \in Working(day) :
                 \A p \in leaves \cup Taken :
                     ~(p.from <= Midnight(day) + t /\ Midnight(day) + t < p.to)}

(* The start of the unbroken working time around t. *)
StretchStart(day, t) ==
    CHOOSE s \in Working(day) : /\ s <= t
                                /\ \A u \in s..t : u \in Working(day)
                                /\ s - 1 \notin Working(day)

(* What is offered is exact: within the window and after now, every lesson  *)
(* that starts a whole number of lessons into an unbroken stretch of work   *)
(* and meets no leave and no lesson, and nothing else, however the hours    *)
(* were split into periods and however far the leaves reach.                *)
OfferIsExact ==
    Offered = {slot \in {Lesson(Midnight(day) + t) : day \in today..(today + WindowDays - 1),
                                                    t \in 0..(DayLength - Duration)} :
                  LET day == DayOf(slot.from)
                      t == slot.from - Midnight(day)
                  IN /\ slot.from > LocalNow
                     /\ t..(t + Duration - 1) \subseteq Free(day)
                     /\ (t - StretchStart(day, t)) % Duration = 0}

(* A slot that is shown can be booked: the two services merge, compare and  *)
(* look up the day the same way.                                            *)
OfferedSlotIsAccepted == \A slot \in Offered : SlotIsAvailable(slot)

(* A lesson booked from the offer stays within working hours through every  *)
(* later edit, until its day is over.  It relies on the window being no     *)
(* longer than a week, and it fails for a lesson that ends at midnight,     *)
(* which the edit's clock readings take for 00:00.                          *)
OfferedLessonsKeepTheirHours ==
    \A l \in lessons :
        l.offered /\ DayOf(l.from) >= today /\ Reading(l.to) # 0 =>
            FitsInAPeriod(OnDay(l), schedule[Weekday(DayOf(l.from))])

(* The profile tells the truth about today: on a FULL_DAY_LEAVE nothing is  *)
(* offered today and nothing is still to be taught, so that the header      *)
(* counts only lessons that were settled before (a leave of today may be    *)
(* submitted when some of them are over); without a leave status no minute  *)
(* is lost; and a leave of today that the list of leaves shows as whole     *)
(* days is a FULL_DAY_LEAVE.                                                *)
LeaveStatusAgrees ==
    /\ LeaveStatus = "FULL_DAY_LEAVE" =>
          /\ \A slot \in Offered : DayOf(slot.from) # today
          /\ TodayLessonsCount = settled[today]
    /\ LeaveStatus = "NONE" =>
          \A p \in leaves : p.to <= Midnight(today) \/ p.from >= Midnight(today + 1)
    /\ \A p \in LeavesToday : ShownAsFullDay(p) => LeaveStatus = "FULL_DAY_LEAVE"

(* The price of a booking is the one in force on the date it is made, by    *)
(* the wall clock, unless it is made in the first hours after midnight,     *)
(* when it is yesterday's.                                                  *)
QuoteIsOfTheDay ==
    LET date == IF quote.clock >= ZoneOffset THEN quote.day ELSE quote.day - 1
        latest == {r \in PriceList :
                      /\ r.since <= date
                      /\ \A q \in PriceList : q.since \in r.since..date => q = r}
    IN quote.price # NoPrice => \E r \in latest : quote.price = r.price

-----------------------------------------------------------------------------
(* The calendar, as the promise about time sees it: one instructor, and     *)
(* students who bring their car.                                            *)

Claims == {[instructor |-> "THIS", vehicle |-> "OWN", slot |-> slot, late |-> FALSE]
              : slot \in Taken}

Promise == INSTANCE Timetable
             WITH Instructors <- {"THIS"}, OwnCar <- "OWN", claims <- Claims,
                  leaves <- [i \in {"THIS"} |-> leaves]

(* The whole operations are steps of the same timetable that the stages of  *)
(* SlotReservation implement: a booking is clear of every lesson and leave, *)
(* and a leave, new or moved, takes every lesson it meets with it.          *)
TimetableIsKept == Promise!Spec
=============================================================================
