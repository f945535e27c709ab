------------------------------ MODULE SlotRules ------------------------------
(***************************************************************************)
(* The pure rules of the calendar: when two stretches of time collide, what *)
(* the working periods of a day offer and accept, and which row of a price *)
(* list is in force.  booking.service.ts and instructor-profile.service.ts *)
(* each have their own copy of some of them; the copies that differ have   *)
(* an operator each.  A stretch is [from, to), in units of time; a NULL    *)
(* end is OpenEnd.                                                         *)
(***************************************************************************)
EXTENDS Integers, FiniteSets, SequencesExt

CONSTANTS
    DayLength,    \* units of time in a day
    Duration      \* the setting lesson_duration_minutes

ASSUME SlotRulesAssumption ==
    /\ DayLength \in Nat \ {0}
    /\ Duration \in 1..DayLength

OpenEnd == -1

Lesson(start) == [from |-> start, to |-> start + Duration]

(* The same test in memory (overlaps) and in every SQL query. *)
Overlaps(slot, period) ==
    /\ period.from < slot.to
    /\ period.to = OpenEnd \/ period.to > slot.from

-----------------------------------------------------------------------------
(* The working periods of one day: TIMEs, from 00:00 to 24:00. *)

ClockPeriods == [from: 0..DayLength, to: 0..DayLength]

(* sort() on the starts. *)
SortedByStart(periods) ==
    CHOOSE s \in [1..Cardinality(periods) -> periods] :
        /\ \A p \in periods : \E i \in DOMAIN s : s[i] = p
        /\ \A i, j \in DOMAIN s : i < j => s[i].from <= s[j].from

(* A period joins the last merged one if it starts by its end; mutant: only *)
(* if it starts before.                                                     *)
Extend_Overlapping(merged, p) ==
    IF merged # <<>> /\ p.from < Last(merged).to
    THEN [merged EXCEPT ![Len(merged)].to = IF p.to > @ THEN p.to ELSE @]
    ELSE Append(merged, p)
Extend(merged, p) ==
    IF merged # <<>> /\ p.from <= Last(merged).to
    THEN [merged EXCEPT ![Len(merged)].to = IF p.to > @ THEN p.to ELSE @]
    ELSE Append(merged, p)

(* mergeWeeklyPeriods and mergePeriods: result, period after period. *)
MergePeriods(periods) ==
    LET s == SortedByStart(periods)
        result[n \in 0..Len(s)] ==
            IF n = 0 THEN <<>> ELSE Extend(result[n - 1], s[n])
    IN ToSet(result[Len(s)])

(* validateSlotInTx: a lesson fits entirely within one merged period. *)
FitsInAPeriod(slot, periods) ==
    \E p \in MergePeriods(periods) : p.from <= slot.from /\ slot.to <= p.to

(* updateDaySchedule compares "HH:MM" readings of the clock, on which a     *)
(* lesson that ends at midnight ends at 00:00.                              *)
Reading(t) == t % DayLength
FitsNewPeriods(slot, periods) ==
    \E p \in MergePeriods(periods) :
        p.from <= Reading(slot.from) /\ Reading(slot.to) <= p.to

(* The periods an edit accepts: neighbours in the order of their starts do  *)
(* not overlap; mutant: only the starts are compared.                       *)
PeriodsValid_StartsDiffer(periods) ==
    LET s == SortedByStart(periods)
    IN /\ \A p \in periods : p.from < p.to
       /\ \A i \in 2..Len(s) : s[i].from > s[i - 1].from
PeriodsValid(periods) ==
    LET s == SortedByStart(periods)
    IN /\ \A p \in periods : p.from < p.to
       /\ \A i \in 2..Len(s) : s[i].from >= s[i - 1].to

(* Where getAvailableSlots starts a lesson: back to back from the start of  *)
(* each merged period, as long as the lesson ends by the end of the period. *)
GridStarts(periods) ==
    UNION {{t \in p.from..p.to : /\ (t - p.from) % Duration = 0
                                 /\ t + Duration <= p.to}
              : p \in MergePeriods(periods)}

-----------------------------------------------------------------------------
(* A price list: rows [since, price] with distinct dates. *)

NoPrice == -1

(* Mutant: a price takes effect the day after. *)
InForce_NextDay(list, date) == {r \in list : r.since < date}
InForce(list, date) == {r \in list : r.since <= date}

(* ORDER BY effective_from DESC, first row.  Without one a lesson cannot be *)
(* booked or settled, and a profile shows a wage of 0.                      *)
EffectivePrice(list, date) ==
    LET rows == InForce(list, date)
    IN IF rows = {} THEN NoPrice
       ELSE (CHOOSE r \in rows : \A q \in rows : q.since <= r.since).price
EffectiveWage(list, date) ==
    IF InForce(list, date) = {} THEN 0 ELSE EffectivePrice(list, date)
=============================================================================
