------------------------ MODULE WeeklyScheduleProofs ------------------------
(* The calendar of an instructor for any length of day, week and window,    *)
(* any hours, leaves and prices.                                            *)
EXTENDS WeeklySchedule, SlotRulesProofs

-----------------------------------------------------------------------------
(* Days and their midnights. *)

LEMMA Units == DayLength \in Nat \ {0} /\ Duration \in Nat \ {0} /\ Duration <= DayLength
BY SlotRulesAssumption

LEMMA MidnightStep ==
    ASSUME NEW d \in Int
    PROVE  Midnight(d) \in Int /\ Midnight(d + 1) = Midnight(d) + DayLength
BY Units DEF Midnight

LEMMA MidnightOrder ==
    ASSUME NEW a \in Int, NEW b \in Int, a < b
    PROVE  Midnight(a) + DayLength <= Midnight(b)
BY Units DEF Midnight

LEMMA MidnightAhead ==
    ASSUME NEW d \in Int, NEW n \in Int
    PROVE  Midnight(d + n) = Midnight(d) + n * DayLength
BY Units DEF Midnight

LEMMA TimesOfDay ==
    ASSUME NEW d \in Int, NEW t \in 0..(DayLength - 1)
    PROVE  DayOf(Midnight(d) + t) = d /\ Reading(Midnight(d) + t) = t
BY Units DEF Midnight, DayOf, Reading

LEMMA DayAndTime ==
    ASSUME NEW u \in Int
    PROVE  /\ DayOf(u) \in Int
           /\ Reading(u) \in 0..(DayLength - 1)
           /\ u = Midnight(DayOf(u)) + Reading(u)
BY Units DEF Midnight, DayOf, Reading

LEMMA WeekdayType ==
    ASSUME NEW d \in Int
    PROVE  Weekday(d) \in Weekdays
BY WeeklyScheduleAssumption DEF Weekday, Weekdays

LEMMA Remainder ==
    ASSUME NEW n \in Nat \ {0}, NEW c \in Int, NEW k \in 0..(n - 1)
    PROVE  (c * n + k) % n = k
OBVIOUS

LEMMA NextOccurrenceIsTheDay ==
    ASSUME NEW k \in 0..(WeekLength - 1), today \in Int
    PROVE  NextOccurrence(Weekday(today + k)) = today + k
<1> DEFINE a == (today + k) \div WeekLength
           b == today \div WeekLength
           r == (today + k) % WeekLength
           s == today % WeekLength
<1>1. WeekLength \in Nat \ {0}
  BY WeeklyScheduleAssumption
<1>2. /\ a \in Int /\ b \in Int /\ r \in Int /\ s \in Int
      /\ today + k = a * WeekLength + r
      /\ today = b * WeekLength + s
  BY <1>1
<1>3. NextOccurrence(Weekday(today + k)) = today + ((r - s) % WeekLength)
  BY DEF NextOccurrence, Weekday
<1> HIDE DEF a, b, r, s
<1>4. r - s = (b - a) * WeekLength + k
  BY <1>1, <1>2
<1>5. (r - s) % WeekLength = k
  BY <1>1, <1>2, <1>4, Remainder
<1>6. QED
  BY <1>3, <1>5

-----------------------------------------------------------------------------
(* Types.  A lesson is on one day; hours and leaves are disjoint.           *)

DaySchedules ==
    {P \in SUBSET ClockPeriods : /\ \A p \in P : p.from < p.to
                                 /\ \A p, q \in P : p # q => ~Overlaps(p, q)}

OnOneDay(slot) ==
    /\ slot.from \in Nat
    /\ slot.to = slot.from + Duration
    /\ Reading(slot.from) + Duration <= DayLength

Lessons == {l \in [from: Nat, to: Nat, offered: BOOLEAN] : OnOneDay(l)}

Shape ==
    /\ today \in Days
    /\ clock \in 0..(DayLength - 1)
    /\ schedule \in [Weekdays -> DaySchedules]
    /\ leaves \subseteq Absences
    /\ lessons \subseteq Lessons
    /\ settled \in [Days -> Nat]

LEMMA ScheduleIsASet ==
    ASSUME Shape, NEW d \in Int
    PROVE  /\ schedule[Weekday(d)] \in PeriodSets
           /\ schedule[Weekday(d)] \subseteq ClockPeriods
<1>1. schedule[Weekday(d)] \in DaySchedules
  BY WeekdayType DEF Shape
<1>2. QED
  BY <1>1, ClockPeriodsFinite DEF DaySchedules

LEMMA BusyTimes ==
    ASSUME Shape, NEW p \in leaves \cup Taken
    PROVE  p.from \in Nat /\ p.to \in Nat /\ p.from < p.to
<1>1. CASE p \in leaves
  BY <1>1, WeeklyScheduleAssumption DEF Shape
<1>2. CASE p \in Taken
  BY <1>2, Units DEF Shape, Taken, Stretch, Lessons, OnOneDay
<1>3. QED
  BY <1>1, <1>2

LEMMA Clock ==
    ASSUME Shape
    PROVE  /\ today \in Nat
           /\ LocalNow \in Nat
           /\ Midnight(today) <= LocalNow
           /\ LocalNow < Midnight(today) + DayLength
BY Units DEF Shape, Days, LocalNow, Midnight

(* A slot within one day. *)
At(day, t) == Lesson(Midnight(day) + t)

LEMMA SlotOfDay ==
    ASSUME NEW day \in Int, NEW t \in 0..(DayLength - Duration)
    PROVE  /\ At(day, t).from = Midnight(day) + t /\ At(day, t).from \in Int
           /\ At(day, t).to = Midnight(day) + t + Duration
           /\ DayOf(At(day, t).from) = day
           /\ OnDay(At(day, t)) = [from |-> t, to |-> t + Duration]
<1>1. t \in 0..(DayLength - 1) /\ t \in Int /\ Duration \in Int
  BY Units
<1>2. Midnight(day) \in Int /\ DayOf(Midnight(day) + t) = day
  BY <1>1, MidnightStep, TimesOfDay
<1>3. QED
  BY <1>1, <1>2 DEF At, Lesson, OnDay

(* A unit of worked time is within the day. *)
LEMMA WorkIsInTheDay ==
    ASSUME Shape, NEW day \in Int, NEW u \in Int
    PROVE  /\ Covered(u, schedule[Weekday(day)]) <=> u \in Working(day)
           /\ u \in Working(day) => u \in 0..(DayLength - 1)
<1>1. \A p \in schedule[Weekday(day)] : p.from \in 0..DayLength /\ p.to \in 0..DayLength
  BY ScheduleIsASet DEF ClockPeriods
<1>2. QED
  BY <1>1, Units DEF Covered, Working

LEMMA Stretches ==
    ASSUME Shape, NEW day \in Int, NEW t \in 0..(DayLength - Duration),
           t..(t + Duration - 1) \subseteq Working(day)
    PROVE  t \in GridStarts(schedule[Weekday(day)]) <=> (t - StretchStart(day, t)) % Duration = 0
<1> DEFINE P == schedule[Weekday(day)]
           Begins(s) == /\ s <= t
                        /\ \A u \in s..t : u \in Working(day)
                        /\ s - 1 \notin Working(day)
           B == {s \in 0..t : \A u \in s..t : u \in Working(day)}
<1>1. t \in Nat /\ t \in Working(day)
  BY Units
<1>2. Working(day) \subseteq 0..(DayLength - 1)
  BY DEF Working
<1>3. PICK s \in B : \A r \in B : s <= r
  <2>1. B \subseteq Nat
    OBVIOUS
  <2>2. t \in B
    BY <1>1
  <2> HIDE DEF B
  <2>3. QED BY <2>1, <2>2, LeastNat
<1>4. s \in Working(day) /\ Begins(s)
  <2>1. ASSUME s - 1 \in Working(day) PROVE FALSE
    <3>1. s - 1 \in 0..t
      BY <1>1, <1>2, <1>3, <2>1
    <3>2. \A u \in (s - 1)..t : u = s - 1 \/ u \in s..t
      BY <3>1
    <3>3. s - 1 \in B
      BY <3>1, <3>2, <1>3, <2>1
    <3>4. QED
      BY <3>1, <3>3, <1>3
  <2>2. s \in s..t
    BY <1>3
  <2>3. QED
    BY <2>1, <2>2, <1>3
<1>5. ASSUME NEW r \in Working(day), Begins(r) PROVE r = s
  <2>1. r \in Int /\ s \in Int
    BY <1>2, <1>4
  <2>2. CASE r < s
    <3>1. s - 1 \in r..t
      BY <2>1, <2>2, <1>4, <1>1
    <3>2. QED
      BY <3>1, <1>4, <1>5
  <2>3. CASE s < r
    <3>1. r - 1 \in s..t
      BY <2>1, <2>3, <1>1, <1>5
    <3>2. QED
      BY <3>1, <1>4, <1>5
  <2>4. QED
    BY <2>1, <2>2, <2>3
<1>6. StretchStart(day, t) = s
  <2>1. StretchStart(day, t) = CHOOSE r \in Working(day) : Begins(r)
    BY DEF StretchStart
  <2> HIDE DEF Begins
  <2>2. QED
    BY <2>1, <1>4, <1>5
<1>7. P \in PeriodSets /\ \A u \in Int : Covered(u, P) <=> u \in Working(day)
  BY ScheduleIsASet, WorkIsInTheDay
<1>8. s \in Int /\ s <= t /\ ~Covered(s - 1, P)
  BY <1>3, <1>4, <1>7
<1>9. \A u \in s..(t + Duration - 1) : Covered(u, P)
  <2>1. \A u \in s..(t + Duration - 1) : u \in s..t \/ u \in t..(t + Duration - 1)
    BY <1>1, <1>8, Units
  <2>2. QED
    BY <2>1, <1>4, <1>7
<1> HIDE DEF P
<1>10. ASSUME (t - s) % Duration = 0 PROVE t \in GridStarts(P)
  BY <1>1, <1>7, <1>8, <1>9, <1>10, GridStartsExact
<1>11. ASSUME t \in GridStarts(P) PROVE (t - s) % Duration = 0
  <2>1. PICK r \in Int : /\ r <= t
                         /\ \A u \in r..(t + Duration - 1) : Covered(u, P)
                         /\ ~Covered(r - 1, P)
                         /\ (t - r) % Duration = 0
    BY <1>1, <1>7, <1>11, GridStartsExact
  <2>2. r \in Working(day) /\ \A u \in r..t : u \in Working(day)
    <3>1. \A u \in r..t : u \in r..(t + Duration - 1) /\ u \in Int
      BY <1>1, Units
    <3>2. r \in r..t
      BY <1>1, <2>1
    <3>3. QED
      BY <3>1, <3>2, <2>1, <1>7
  <2>3. r - 1 \notin Working(day)
    BY <2>1, <1>7
  <2>4. r = s
    BY <2>1, <2>2, <2>3, <1>5
  <2>5. QED
    BY <2>1, <2>4
<1>12. QED
  BY <1>6, <1>10, <1>11 DEF P

-----------------------------------------------------------------------------
(* The offer. *)

(* The grid of a day keeps its lessons within the day and within work.      *)
LEMMA GridInTheDay ==
    ASSUME Shape, NEW day \in Int, NEW t \in GridStarts(schedule[Weekday(day)])
    PROVE  /\ t \in 0..(DayLength - Duration)
           /\ t..(t + Duration - 1) \subseteq Working(day)
<1> DEFINE P == schedule[Weekday(day)]
<1>1. P \in PeriodSets
  BY ScheduleIsASet
<1>2. t \in Int
  <2>1. \A p \in MergePeriods(P) : p.from \in Int /\ p.to \in Int
    BY <1>1, MergedPeriods DEF AreStretchesOf, Periods
  <2>2. QED
    BY <2>1 DEF GridStarts
<1>3. PICK s \in Int : s <= t /\ \A u \in s..(t + Duration - 1) : Covered(u, P)
  BY <1>1, <1>2, GridStartsExact
<1>4. ASSUME NEW u \in t..(t + Duration - 1)
      PROVE  u \in Working(day) /\ u \in 0..(DayLength - 1)
  <2>1. u \in Int /\ u \in s..(t + Duration - 1)
    BY <1>2, <1>3, Units
  <2>2. QED
    BY <2>1, <1>3, WorkIsInTheDay
<1>5. t \in t..(t + Duration - 1) /\ t + Duration - 1 \in t..(t + Duration - 1)
  BY <1>2, Units
<1>6. QED
  BY <1>2, <1>4, <1>5, Units

(* The window that is read drops nothing that could collide with a slot.    *)
IsOffered(slot, day, t) ==
    /\ slot = At(day, t)
    /\ t \in GridStarts(schedule[Weekday(day)])
    /\ slot.from > LocalNow
    /\ \A p \in leaves \cup Taken : ~Overlaps(slot, p)

LEMMA WindowIsEnough ==
    ASSUME Shape, NEW day \in today..(today + WindowDays - 1),
           NEW t \in 0..(DayLength - Duration), At(day, t).from > LocalNow,
           NEW p \in leaves \cup Taken, Overlaps(At(day, t), p)
    PROVE  p \in InWindow(leaves) \cup InWindow(Taken)
<1>1. today \in Int /\ day \in Int /\ day + 1 \in Int /\ WindowDays \in Nat
  BY Clock, WeeklyScheduleAssumption
<1>2. At(day, t).to = Midnight(day) + t + Duration /\ At(day, t).from = Midnight(day) + t
  BY <1>1, SlotOfDay
<1>3. /\ Midnight(day) \in Int /\ Midnight(day + 1) = Midnight(day) + DayLength
      /\ Midnight(today) \in Int /\ Midnight(today + WindowDays) \in Int
  BY <1>1, MidnightStep
<1>4. At(day, t).to <= Midnight(day + 1)
  BY <1>2, <1>3, Units
<1>5. Midnight(day + 1) <= Midnight(today + WindowDays)
  <2>1. CASE day + 1 = today + WindowDays
    BY <2>1, <1>3
  <2>2. CASE day + 1 < today + WindowDays
    <3>1. Midnight(day + 1) + DayLength <= Midnight(today + WindowDays)
      BY <2>2, <1>1, MidnightOrder
    <3>2. QED
      BY <3>1, <1>3, Units
  <2>3. QED
    BY <2>1, <2>2, <1>1
<1>6. Midnight(today + WindowDays) <= WindowEnd /\ WindowEnd \in Int
  <2>1. Midnight(today + WindowDays) = Midnight(today) + WindowDays * DayLength
    BY <1>1, MidnightAhead
  <2>2. WindowDays * DayLength \in Int
    BY <1>1, Units
  <2>3. QED
    BY <2>1, <2>2, <1>3, Clock DEF WindowEnd
<1>7. p.from \in Nat /\ p.to \in Nat
  BY BusyTimes
<1>8. p.from < At(day, t).to /\ p.to > At(day, t).from
  BY <1>7 DEF Overlaps, OpenEnd
<1>9. p.from < WindowEnd /\ p.to > LocalNow
  BY <1>2, <1>3, <1>4, <1>5, <1>6, <1>7, <1>8, Clock, Units
<1>10. QED
  BY <1>9 DEF InWindow

LEMMA OfferedAre ==
    ASSUME Shape, NEW slot
    PROVE  slot \in Offered <=>
             \E day \in today..(today + WindowDays - 1), t \in 0..(DayLength - Duration) :
                IsOffered(slot, day, t)
<1>1. \A day \in today..(today + WindowDays - 1) : day \in Int
  BY Clock
<1>2. ASSUME slot \in Offered
      PROVE  \E day \in today..(today + WindowDays - 1), t \in 0..(DayLength - Duration) :
                IsOffered(slot, day, t)
  <2>1. PICK day \in today..(today + WindowDays - 1) :
           \E t \in GridStarts(schedule[Weekday(day)]) : slot = At(day, t)
    BY <1>2 DEF Offered, Grid, At
  <2> PICK t \in GridStarts(schedule[Weekday(day)]) : slot = At(day, t)
    BY <2>1
  <2>2. t \in 0..(DayLength - Duration)
    BY <1>1, GridInTheDay
  <2>3. slot.from > LocalNow /\ \A p \in InWindow(leaves) \cup InWindow(Taken) : ~Overlaps(slot, p)
    BY <1>2 DEF Offered, NotPast
  <2>4. \A p \in leaves \cup Taken : ~Overlaps(slot, p)
    BY <2>2, <2>3, WindowIsEnough
  <2>5. QED
    BY <2>2, <2>3, <2>4 DEF IsOffered
<1>3. ASSUME NEW day \in today..(today + WindowDays - 1), NEW t \in 0..(DayLength - Duration),
             IsOffered(slot, day, t)
      PROVE  slot \in Offered
  <2>1. slot \in Grid
    BY <1>3 DEF IsOffered, Grid, At
  <2>2. \A p \in InWindow(leaves) \cup InWindow(Taken) : ~Overlaps(slot, p)
    BY <1>3 DEF IsOffered, InWindow
  <2>3. QED
    BY <2>1, <2>2, <1>3 DEF IsOffered, Offered, NotPast
<1>4. QED
  BY <1>2, <1>3

(* A lesson is clear of everything exactly when each of its units is free.  *)
LEMMA FreeIsClear ==
    ASSUME Shape, NEW day \in Int, NEW t \in 0..(DayLength - Duration)
    PROVE  t..(t + Duration - 1) \subseteq Free(day) <=>
             /\ t..(t + Duration - 1) \subseteq Working(day)
             /\ \A p \in leaves \cup Taken : ~Overlaps(At(day, t), p)
<1> DEFINE slot == At(day, t)
<1>1. /\ slot.from = Midnight(day) + t /\ slot.to = Midnight(day) + t + Duration
      /\ slot.from \in Int /\ slot.to \in Int /\ slot.from < slot.to
      /\ Midnight(day) \in Int
  <2>1. Midnight(day) \in Int
    BY MidnightStep
  <2>2. slot.from = Midnight(day) + t /\ slot.to = Midnight(day) + t + Duration
    BY SlotOfDay
  <2> HIDE DEF slot
  <2>3. QED
    BY <2>1, <2>2, Units
<1> HIDE DEF slot
<1>2. ASSUME NEW p \in leaves \cup Taken
      PROVE  ~Overlaps(slot, p) <=>
               \A u \in t..(t + Duration - 1) :
                  ~(p.from <= Midnight(day) + u /\ Midnight(day) + u < p.to)
  <2>1. ~Overlaps(slot, p) <=>
          \A v \in slot.from..(slot.to - 1) : ~(p.from <= v /\ v < p.to)
    BY <1>1, BusyTimes, ApartByUnits
  <2>2. ASSUME NEW v \in slot.from..(slot.to - 1)
        PROVE  v - Midnight(day) \in t..(t + Duration - 1) /\ v = Midnight(day) + (v - Midnight(day))
    BY <1>1, Units
  <2>3. ASSUME NEW u \in t..(t + Duration - 1)
        PROVE  Midnight(day) + u \in slot.from..(slot.to - 1)
    BY <1>1, Units
  <2>4. QED
    BY <2>1, <2>2, <2>3
<1>3. QED
  BY <1>2 DEF Free, slot

(* One slot of a day is offered as the reference says.                      *)
LEMMA OfferedDay ==
    ASSUME Shape, NEW day \in Int, NEW t \in 0..(DayLength - Duration)
    PROVE  IsOffered(At(day, t), day, t) <=>
             /\ At(day, t).from > LocalNow
             /\ t..(t + Duration - 1) \subseteq Free(day)
             /\ (t - StretchStart(day, t)) % Duration = 0
<1>1. ASSUME IsOffered(At(day, t), day, t)
      PROVE  /\ At(day, t).from > LocalNow
             /\ t..(t + Duration - 1) \subseteq Free(day)
             /\ (t - StretchStart(day, t)) % Duration = 0
  <2>1. t \in GridStarts(schedule[Weekday(day)])
    BY <1>1 DEF IsOffered
  <2>2. t..(t + Duration - 1) \subseteq Working(day)
    BY <2>1, GridInTheDay
  <2>3. QED
    BY <1>1, <2>1, <2>2, FreeIsClear, Stretches DEF IsOffered
<1>2. ASSUME At(day, t).from > LocalNow, t..(t + Duration - 1) \subseteq Free(day),
             (t - StretchStart(day, t)) % Duration = 0
      PROVE  IsOffered(At(day, t), day, t)
  <2>1. t..(t + Duration - 1) \subseteq Working(day)
    BY <1>2, FreeIsClear
  <2>2. QED
    BY <1>2, <2>1, FreeIsClear, Stretches DEF IsOffered
<1>3. QED
  BY <1>1, <1>2

LEMMA ShapeExact == Shape => OfferIsExact
<1> SUFFICES ASSUME Shape PROVE OfferIsExact
  OBVIOUS
<1> DEFINE W == today..(today + WindowDays - 1)
           T == 0..(DayLength - Duration)
           Exact(slot) ==
              LET day == DayOf(slot.from)
                  t == slot.from - Midnight(day)
              IN /\ slot.from > LocalNow
                 /\ t..(t + Duration - 1) \subseteq Free(day)
                 /\ (t - StretchStart(day, t)) % Duration = 0
<1>1. ASSUME NEW day \in W, NEW t \in T
      PROVE  IsOffered(At(day, t), day, t) <=> Exact(At(day, t))
  <2>1. day \in Int
    BY Clock
  <2>2. DayOf(At(day, t).from) = day /\ At(day, t).from - Midnight(day) = t
    <3>1. Midnight(day) \in Int /\ t \in Int
      BY <2>1, MidnightStep, Units
    <3>2. At(day, t).from = Midnight(day) + t /\ DayOf(At(day, t).from) = day
      BY <2>1, SlotOfDay
    <3>3. QED
      BY <3>1, <3>2
  <2>3. QED
    BY <2>1, <2>2, OfferedDay
<1>2. \A slot : \A day \in W, t \in T : IsOffered(slot, day, t) => slot = At(day, t)
  BY DEF IsOffered
<1> HIDE DEF Exact
<1>3. \A slot : slot \in Offered <=> \E day \in W, t \in T : slot = At(day, t) /\ Exact(slot)
  BY <1>1, <1>2, OfferedAre
<1>4. Offered = {slot \in {At(day, t) : day \in W, t \in T} : Exact(slot)}
  BY <1>3
<1>5. QED
  BY <1>4 DEF Exact, At, OfferIsExact

LEMMA ShapeAccepted == Shape => OfferedSlotIsAccepted
<1> SUFFICES ASSUME Shape, NEW slot \in Offered PROVE SlotIsAvailable(slot)
  BY DEF OfferedSlotIsAccepted
<1>1. PICK day \in today..(today + WindowDays - 1), t \in 0..(DayLength - Duration) :
         IsOffered(slot, day, t)
  BY OfferedAre
<1>2. day \in Int /\ slot = At(day, t) /\ t \in GridStarts(schedule[Weekday(day)])
  BY <1>1, Clock DEF IsOffered
<1>3. DayOf(slot.from) = day /\ OnDay(slot) = [from |-> t, to |-> t + Duration]
  BY <1>2, SlotOfDay
<1>4. schedule[Weekday(day)] \in PeriodSets
  BY <1>2, ScheduleIsASet
<1>5. \A u \in t..(t + Duration - 1) : Covered(u, schedule[Weekday(day)])
  BY <1>2, GridInTheDay, WorkIsInTheDay
<1>6. FitsInAPeriod([from |-> t, to |-> t + Duration], schedule[Weekday(day)])
  <2> DEFINE s == [from |-> t, to |-> t + Duration]
  <2>1. s.from \in Int /\ s.to \in Int /\ s.from < s.to /\ s.from = t /\ s.to = t + Duration
    BY Units
  <2> HIDE DEF s
  <2>2. \A u \in s.from..(s.to - 1) : Covered(u, schedule[Weekday(day)])
    <3>1. s.from..(s.to - 1) = t..(t + Duration - 1)
      BY <2>1, Units
    <3>2. QED
      BY <3>1, <1>5
  <2>3. FitsInAPeriod(s, schedule[Weekday(day)])
    BY <2>1, <2>2, <1>4, FitsIsCovered
  <2>4. QED
    BY <2>3 DEF s
<1>7. QED
  BY <1>1, <1>3, <1>6 DEF IsOffered, SlotIsAvailable

-----------------------------------------------------------------------------
(* The inductive invariant.  Apart: leaves meet neither each other nor a    *)
(* lesson.  InHours: a lesson of the offer that is not over is within the   *)
(* window, which is what lets an edit of its weekday see it.  QuoteKept:    *)
(* the quote is a reading of the price list at its time.                    *)

Apart ==
    /\ \A p, q \in leaves : p # q => ~Overlaps(p, q)
    /\ \A l \in lessons, p \in leaves : ~Overlaps(l, p)

Kept(l) ==
    /\ DayOf(l.from) < today + WindowDays
    /\ Reading(l.to) # 0 => FitsInAPeriod(OnDay(l), schedule[Weekday(DayOf(l.from))])

InHours == \A l \in lessons : l.offered /\ DayOf(l.from) >= today => Kept(l)

QuotedAt(day, c) ==
    [price |-> EffectivePrice(PriceList, DayOf((Midnight(day) + c) - ZoneOffset)),
     day |-> day, clock |-> c]

QuoteKept == \E day \in Days, c \in 0..(DayLength - 1) : quote = QuotedAt(day, c)

Inv == Shape /\ Apart /\ InHours /\ QuoteKept

LEMMA OverlapsBothWays ==
    ASSUME NEW p, NEW q, p.from \in Nat, p.to \in Nat, q.from \in Nat, q.to \in Nat
    PROVE  Overlaps(p, q) <=> Overlaps(q, p)
BY DEF Overlaps, OpenEnd

LEMMA LeaveTimes ==
    ASSUME NEW p \in Absences
    PROVE  p.from \in Nat /\ p.to \in Nat /\ p.from < p.to
BY WeeklyScheduleAssumption

LEMMA LessonTimes ==
    ASSUME Shape, NEW l \in lessons
    PROVE  /\ l \in Lessons /\ l.offered \in BOOLEAN
           /\ l.from \in Nat /\ l.to \in Nat /\ l.from < l.to /\ l.to = l.from + Duration
BY Units DEF Shape, Lessons, OnOneDay

(* What is quoted now is the price at the present time. *)
LEMMA QuotedNow ==
    ASSUME Shape
    PROVE  /\ Quote = QuotedAt(today, clock)
           /\ \E day \in Days, c \in 0..(DayLength - 1) : Quote = QuotedAt(day, c)
<1>1. Quote = QuotedAt(today, clock)
  <2>1. UtcDate = DayOf((Midnight(today) + clock) - ZoneOffset)
    BY DEF UtcDate, LocalNow
  <2>2. QED
    BY <2>1, Zenon DEF Quote, QuotedAt
<1>2. QED
  BY <1>1 DEF Shape

(* The clock readings an edit compares are times of the lesson's day,       *)
(* unless it ends at midnight.                                              *)
LEMMA ReadingsOfALesson ==
    ASSUME NEW l \in Lessons, Reading(l.to) # 0
    PROVE  OnDay(l) = [from |-> Reading(l.from), to |-> Reading(l.to)]
<1> DEFINE d == DayOf(l.from)
           t == Reading(l.from)
<1>1. /\ l.from \in Int /\ l.to = l.from + Duration /\ t + Duration <= DayLength
  BY DEF Lessons, OnOneDay
<1>2. d \in Int /\ t \in 0..(DayLength - 1) /\ l.from = Midnight(d) + t
  BY <1>1, DayAndTime
<1>3. Midnight(d) \in Int /\ Midnight(d + 1) = Midnight(d) + DayLength
  BY <1>2, MidnightStep
<1> HIDE DEF d, t
<1>4. t + Duration # DayLength
  <2>1. ASSUME t + Duration = DayLength PROVE FALSE
    <3>1. l.to = Midnight(d + 1) + 0 /\ d + 1 \in Int /\ 0 \in 0..(DayLength - 1)
      BY <1>1, <1>2, <1>3, <2>1, Units
    <3>2. Reading(l.to) = 0
      BY <3>1, TimesOfDay
    <3>3. QED
      BY <3>2
  <2>2. QED
    BY <2>1
<1>5. t + Duration \in 0..(DayLength - 1) /\ l.to = Midnight(d) + (t + Duration)
  BY <1>1, <1>2, <1>3, <1>4, Units
<1>6. Reading(l.to) = t + Duration
  BY <1>2, <1>5, TimesOfDay
<1>7. l.from - Midnight(d) = t /\ l.to - Midnight(d) = t + Duration
  BY <1>2, <1>3, <1>5, Units
<1>8. QED
  BY <1>6, <1>7 DEF OnDay, d, t

(* A lesson that is accepted is on one day. *)
LEMMA AcceptedIsOnOneDay ==
    ASSUME Shape, NEW start \in Nat, SlotIsAvailable(Lesson(start))
    PROVE  OnOneDay(Lesson(start))
<1> DEFINE d == DayOf(start)
           t == Reading(start)
           P == schedule[Weekday(d)]
           s == [from |-> start - Midnight(d), to |-> (start + Duration) - Midnight(d)]
<1>1. d \in Int /\ t \in 0..(DayLength - 1) /\ start = Midnight(d) + t /\ Midnight(d) \in Int
  BY DayAndTime, MidnightStep
<1>2. FitsInAPeriod(s, P)
  <2>1. Lesson(start).from = start /\ Lesson(start).to = start + Duration
    BY DEF Lesson
  <2>2. OnDay(Lesson(start)) = s
    BY <2>1, Zenon DEF OnDay
  <2>3. QED
    BY <2>1, <2>2 DEF SlotIsAvailable
<1>3. P \in PeriodSets
  BY <1>1, ScheduleIsASet
<1>4. s.from = t /\ s.to = t + Duration /\ s.from \in Int /\ s.to \in Int /\ s.from < s.to
  <2>1. s.from = start - Midnight(d) /\ s.to = (start + Duration) - Midnight(d)
    OBVIOUS
  <2> HIDE DEF s, d, t
  <2>2. QED
    BY <2>1, <1>1, Units
<1>5. t + Duration - 1 \in s.from..(s.to - 1) /\ t + Duration - 1 \in Int
  <2> HIDE DEF s, d, t
  <2>1. QED
    BY <1>1, <1>4, Units
<1>6. Covered(t + Duration - 1, P)
  <2> HIDE DEF s, P, t, d
  <2>1. QED
    BY <1>2, <1>3, <1>4, <1>5, FitsIsCovered
<1>7. t + Duration - 1 \in 0..(DayLength - 1)
  <2> HIDE DEF t, d
  <2>1. QED
    BY <1>1, <1>5, <1>6, WorkIsInTheDay DEF P
<1>8. t + Duration <= DayLength
  <2> HIDE DEF t, d
  <2>1. QED
    BY <1>1, <1>7, Units
<1>9. QED
  BY <1>8 DEF OnOneDay, Lesson

LEMMA InitInv == Init => Inv
<1> SUFFICES ASSUME Init PROVE Inv
  OBVIOUS
<1>1. Shape
  <2>1. {} \in DaySchedules
    BY DEF DaySchedules
  <2>2. QED
    BY <2>1, Units, WeeklyScheduleAssumption DEF Init, Shape, Days
<1>2. Apart /\ InHours
  BY DEF Init, Apart, InHours
<1>3. QuoteKept
  BY <1>1, QuotedNow DEF Init, QuoteKept
<1>4. QED
  BY <1>1, <1>2, <1>3 DEF Inv

(* Steps that only remove lessons, or none, and leave the rest alone.       *)
LEMMA FewerLessons ==
    ASSUME Inv, lessons' \subseteq lessons, UNCHANGED <<today, schedule, quote>>
    PROVE  InHours' /\ QuoteKept'
BY DEF Inv, InHours, Kept, QuoteKept

LEMMA EditKeepsInv ==
    ASSUME Inv, NEW w \in Weekdays, NEW periods \in Hours, UpdateDaySchedule(w, periods)
    PROVE  Inv'
<1>1. /\ Shape /\ UNCHANGED <<today, clock, leaves, lessons, settled, quote>>
      /\ schedule' = [schedule EXCEPT ![w] = periods]
      /\ schedule \in [Weekdays -> DaySchedules]
  BY DEF Inv, UpdateDaySchedule, Shape
<1>2. periods \in DaySchedules
  <2>1. periods \subseteq ClockPeriods /\ \A p \in periods : p.from < p.to
    BY WeeklyScheduleAssumption DEF UpdateDaySchedule, PeriodsValid
  <2>2. periods \in PeriodSets /\ PeriodsValid(periods)
    BY <2>1, ClockPeriodsFinite DEF UpdateDaySchedule
  <2>3. ASSUME NEW p \in periods, NEW q \in periods, p # q PROVE ~Overlaps(p, q)
    <3>1. p.to <= q.from \/ q.to <= p.from
      BY <2>2, <2>3, ValidPeriodsApart
    <3>2. /\ p.from \in Nat /\ p.to \in Nat /\ p.from < p.to
          /\ q.from \in Nat /\ q.to \in Nat /\ q.from < q.to
      BY <2>1, Units DEF ClockPeriods
    <3>3. QED
      BY <3>1, <3>2 DEF Overlaps, OpenEnd
  <2>4. QED
    BY <2>1, <2>3 DEF DaySchedules
<1>3. Shape'
  BY <1>1, <1>2 DEF Shape
<1>4. Apart' /\ QuoteKept'
  BY <1>1 DEF Inv, Apart, QuoteKept
<1>5. ASSUME NEW l \in lessons, l.offered, DayOf(l.from) >= today,
             Reading(l.to) # 0
      PROVE  FitsInAPeriod(OnDay(l), schedule'[Weekday(DayOf(l.from))])
  <2> DEFINE d == DayOf(l.from)
  <2>1. l \in Lessons /\ Kept(l) /\ l.from \in Int /\ d \in Int /\ Weekday(d) \in Weekdays
    BY <1>1, <1>5, LessonTimes, DayAndTime, WeekdayType DEF Inv, InHours
  <2>2. CASE Weekday(d) # w
    <3>1. schedule'[Weekday(d)] = schedule[Weekday(d)]
      BY <1>1, <2>1, <2>2
    <3>2. QED
      BY <3>1, <2>1, <1>5 DEF Kept
  <2>3. CASE Weekday(d) = w
    <3>1. today \in Int /\ d < today + WindowDays /\ d >= today
      BY <1>1, <1>5, <2>1, Clock DEF Kept
    <3>2. d - today \in 0..(WeekLength - 1) /\ today + (d - today) = d
      <4> HIDE DEF d
      <4>1. QED
        BY <2>1, <3>1, WeeklyScheduleAssumption
    <3>3. NextOccurrence(w) = d
      <4> HIDE DEF d
      <4>1. QED
        BY <2>3, <3>1, <3>2, NextOccurrenceIsTheDay
    <3>4. FitsNewPeriods(l, periods)
      BY <3>1, <3>3 DEF UpdateDaySchedule, LessonsOn
    <3>5. FitsInAPeriod(OnDay(l), periods)
      BY <3>4, <2>1, <1>5, ReadingsOfALesson DEF FitsNewPeriods, FitsInAPeriod
    <3>6. schedule'[Weekday(d)] = periods
      BY <1>1, <2>1, <2>3
    <3>7. QED
      BY <3>5, <3>6
  <2>4. QED
    BY <2>2, <2>3
<1>6. InHours'
  <2> SUFFICES ASSUME NEW l \in lessons', (l.offered /\ DayOf(l.from) >= today)'
               PROVE  Kept(l)'
    BY DEF InHours
  <2>1. l \in lessons /\ l.offered /\ DayOf(l.from) >= today
    BY <1>1
  <2>2. Kept(l)
    BY <2>1 DEF Inv, InHours
  <2>3. QED
    BY <1>1, <1>5, <2>1, <2>2 DEF Kept
<1>7. QED
  BY <1>3, <1>4, <1>6 DEF Inv

LEMMA BookKeepsInv ==
    ASSUME Inv, NEW start \in Nat, NEW offered \in BOOLEAN, Book(Lesson(start), offered),
           offered => DayOf(start) < today + WindowDays
    PROVE  Inv'
<1> DEFINE l == [from |-> start, to |-> start + Duration, offered |-> offered]
<1>1. /\ Shape /\ UNCHANGED <<today, clock, schedule, leaves, settled>>
      /\ lessons' = lessons \cup {l} /\ quote' = Quote
  BY DEF Inv, Book, Lesson
<1>2. SlotIsAvailable(Lesson(start))
  BY DEF Book
<1>3. l \in Lessons
  <2>1. OnOneDay(Lesson(start))
    BY <1>1, <1>2, AcceptedIsOnOneDay
  <2>2. QED
    BY <2>1, Units DEF OnOneDay, Lesson, Lessons
<1>4. Shape'
  BY <1>1, <1>3 DEF Shape
<1>5. Apart'
  <2>1. \A p \in leaves : ~Overlaps(l, p)
    BY <1>2 DEF SlotIsAvailable, Overlaps, Lesson
  <2>2. QED
    BY <1>1, <2>1 DEF Inv, Apart
<1>6. offered => Kept(l)
  BY <1>2 DEF SlotIsAvailable, Kept, OnDay, Lesson
<1>7. \A k \in lessons : Kept(k)' <=> Kept(k)
  BY <1>1 DEF Kept
<1>8. Kept(l)' <=> Kept(l)
  BY <1>1 DEF Kept
<1> HIDE DEF l
<1>9. l.offered = offered
  BY DEF l
<1>10. InHours'
  BY <1>1, <1>6, <1>7, <1>8, <1>9 DEF Inv, InHours
<1>11. QuoteKept'
  BY <1>1, QuotedNow DEF QuoteKept
<1>12. QED
  BY <1>4, <1>5, <1>10, <1>11 DEF Inv

LEMMA LeaveKeepsInv ==
    ASSUME Inv, NEW leave \in Absences, NEW others, others \subseteq leaves,
           LeaveIsFree(leave, others),
           leaves' = others \cup {leave}, lessons' = LessonsOutside(leave),
           UNCHANGED <<today, clock, schedule, settled, quote>>
    PROVE  Inv'
<1>1. Shape /\ lessons' \subseteq lessons
  BY DEF Inv, LessonsOutside
<1>2. Shape'
  BY <1>1 DEF Shape
<1>3. leave.from \in Nat /\ leave.to \in Nat
  BY LeaveTimes
<1>4. ASSUME NEW p \in others PROVE ~Overlaps(leave, p) /\ ~Overlaps(p, leave)
  <2>1. p.from \in Nat /\ p.to \in Nat
    BY <1>1, LeaveTimes DEF Shape
  <2>2. ~Overlaps(leave, p)
    BY DEF LeaveIsFree
  <2>3. QED
    BY <2>1, <2>2, <1>3, OverlapsBothWays
<1>5. Apart'
  <2>1. \A p, q \in leaves' : p # q => ~Overlaps(p, q)
    BY <1>4 DEF Inv, Apart
  <2>2. \A l \in lessons', p \in leaves' : ~Overlaps(l, p)
    BY <1>1 DEF Inv, Apart, LessonsOutside
  <2>3. QED
    BY <2>1, <2>2 DEF Apart
<1>6. QED
  BY <1>1, <1>2, <1>5, FewerLessons DEF Inv

LEMMA TickKeepsInv ==
    ASSUME Inv, Tick
    PROVE  Inv'
<1>1. /\ Shape /\ UNCHANGED <<schedule, leaves, lessons, settled, quote>>
      /\ today \in Nat /\ today' \in Nat /\ today <= today'
      /\ today' \in Days /\ clock' \in 0..(DayLength - 1)
  BY Units, Clock, WeeklyScheduleAssumption DEF Inv, Shape, Tick, Days
<1>2. Shape' /\ Apart' /\ QuoteKept'
  BY <1>1 DEF Inv, Shape, Apart, QuoteKept
<1>3. InHours'
  <2> SUFFICES ASSUME NEW l \in lessons', (l.offered /\ DayOf(l.from) >= today)'
               PROVE  Kept(l)'
    BY DEF InHours
  <2>1. l \in lessons /\ l.offered /\ DayOf(l.from) >= today' /\ DayOf(l.from) \in Int
    BY <1>1, LessonTimes, DayAndTime
  <2>2. Kept(l)
    BY <1>1, <2>1 DEF Inv, InHours
  <2>3. QED
    BY <1>1, <2>1, <2>2, WeeklyScheduleAssumption DEF Kept
<1>4. QED
  BY <1>2, <1>3 DEF Inv

LEMMA NextInv == Inv /\ [Next]_vars => Inv'
<1> SUFFICES ASSUME Inv, [Next]_vars PROVE Inv'
  OBVIOUS
<1>1. ASSUME NEW w \in Weekdays, NEW periods \in Hours, UpdateDaySchedule(w, periods)
      PROVE  Inv'
  BY <1>1, EditKeepsInv
<1>2. ASSUME NEW slot \in Offered, BookOffered(slot) PROVE Inv'
  <2>1. PICK day \in today..(today + WindowDays - 1), t \in 0..(DayLength - Duration) :
           IsOffered(slot, day, t)
    BY OfferedAre DEF Inv
  <2>2. /\ day \in Int /\ today \in Nat /\ slot = Lesson(Midnight(day) + t)
        /\ Midnight(day) + t \in Nat /\ DayOf(Midnight(day) + t) = day
        /\ day < today + WindowDays
    <3>1. today \in Nat
      BY Clock DEF Inv
    <3>2. day \in Nat /\ day < today + WindowDays
      BY <3>1, WeeklyScheduleAssumption
    <3>3. Midnight(day) \in Nat /\ t \in 0..(DayLength - 1)
      BY <3>2, Units DEF Midnight
    <3>4. QED
      BY <3>1, <3>2, <3>3, <2>1, TimesOfDay DEF IsOffered, At
  <2>3. Book(Lesson(Midnight(day) + t), TRUE)
    BY <1>2, <2>2 DEF BookOffered
  <2>4. QED
    BY <2>2, <2>3, BookKeepsInv
<1>3. ASSUME NEW start \in Midnight(0)..(Midnight(LastDay + 1) - 1), BookAnywhere(start)
      PROVE  Inv'
  <2>1. start \in Nat
    BY Units DEF Midnight
  <2>2. QED
    BY <1>3, <2>1, BookKeepsInv DEF BookAnywhere
<1>4. ASSUME NEW leave \in Absences, SubmitLeave(leave) PROVE Inv'
  BY <1>4, LeaveKeepsInv DEF SubmitLeave
<1>5. ASSUME NEW old \in leaves, NEW leave \in Absences, UpdateLeave(old, leave) PROVE Inv'
  BY <1>5, LeaveKeepsInv DEF UpdateLeave
<1>6. ASSUME NEW leave \in leaves, CancelLeave(leave) PROVE Inv'
  <2>1. /\ leaves' = leaves \ {leave} /\ UNCHANGED <<today, clock, schedule, lessons, settled, quote>>
    BY <1>6 DEF CancelLeave
  <2>2. Shape' /\ Apart'
    BY <2>1 DEF Inv, Shape, Apart
  <2>3. QED
    BY <2>1, <2>2, FewerLessons DEF Inv
<1>7. ASSUME NEW l \in lessons, Release(l) PROVE Inv'
  <2>1. /\ lessons' = lessons \ {l}
        /\ UNCHANGED <<today, clock, schedule, leaves, settled, quote>>
    BY <1>7 DEF Release
  <2>2. Shape' /\ Apart'
    BY <2>1 DEF Inv, Shape, Apart
  <2>3. QED
    BY <2>1, <2>2, FewerLessons DEF Inv
<1>8. ASSUME NEW l \in lessons, Settle(l) PROVE Inv'
  <2>1. /\ lessons' = lessons \ {l} /\ UNCHANGED <<today, clock, schedule, leaves, quote>>
        /\ settled' = [settled EXCEPT ![DayOf(l.from)] = @ + 1]
        /\ DayOf(l.from) \in Days
    BY <1>8 DEF Settle
  <2>2. settled' \in [Days -> Nat]
    BY <2>1 DEF Inv, Shape
  <2>3. Shape' /\ Apart'
    BY <2>1, <2>2 DEF Inv, Shape, Apart
  <2>4. QED
    BY <2>1, <2>3, FewerLessons DEF Inv
<1>9. CASE Tick
  BY <1>9, TickKeepsInv
<1>10. CASE UNCHANGED vars
  <2>1. UNCHANGED <<today, clock, schedule, leaves, lessons, settled, quote>>
    BY <1>10 DEF vars
  <2>2. Shape' /\ Apart'
    BY <2>1 DEF Inv, Shape, Apart
  <2>3. QED
    BY <2>1, <2>2, FewerLessons DEF Inv
<1>11. QED
  BY <1>1, <1>2, <1>3, <1>4, <1>5, <1>6, <1>7, <1>8, <1>9, <1>10 DEF Next

LEMMA Invariance == Spec => []Inv
<1>1. Init => Inv
  BY InitInv
<1>2. Inv /\ [Next]_vars => Inv'
  BY NextInv
<1>3. QED
  BY <1>1, <1>2, PTL DEF Spec

-----------------------------------------------------------------------------
(* The properties. *)

(* Hours and leaves are kept as disjoint stretches, and every lesson has    *)
(* its length (the neighbour check of updateDaySchedule, assertNoOverlap).  *)
THEOREM TypeCorrect == Spec => []TypeOK
<1>1. Inv => TypeOK
  BY DEF Inv, Shape, Apart, TypeOK, DaySchedules, Lessons, OnOneDay
<1>2. QED
  BY <1>1, Invariance, PTL

(* What getAvailableSlots shows is exactly the free lessons that start a    *)
(* whole number of lessons into a stretch of work.                          *)
THEOREM OfferExact == Spec => []OfferIsExact
<1>1. Inv => OfferIsExact
  BY ShapeExact DEF Inv
<1>2. QED
  BY <1>1, Invariance, PTL

(* Every slot that getAvailableSlots shows passes validateSlotInTx.         *)
THEOREM OfferAccepted == Spec => []OfferedSlotIsAccepted
<1>1. Inv => OfferedSlotIsAccepted
  BY ShapeAccepted DEF Inv
<1>2. QED
  BY <1>1, Invariance, PTL

(* No sequence of accepted edits leaves a lesson of the offer outside       *)
(* working hours before its day is over, except one that ends at midnight.  *)
THEOREM LessonsKeepTheirHours == Spec => []OfferedLessonsKeepTheirHours
<1>1. Inv => OfferedLessonsKeepTheirHours
  BY DEF Inv, InHours, Kept, OfferedLessonsKeepTheirHours
<1>2. QED
  BY <1>1, Invariance, PTL

LEMMA InvStatus == Inv => LeaveStatusAgrees
<1> SUFFICES ASSUME Inv PROVE LeaveStatusAgrees
  OBVIOUS
<1>1. /\ Shape /\ today \in Int /\ Midnight(today) \in Int
      /\ Midnight(today + 1) = Midnight(today) + DayLength
  BY Clock, MidnightStep DEF Inv
<1>2. \A p \in leaves : p.from \in Nat /\ p.to \in Nat /\ p.from < p.to
  BY <1>1, LeaveTimes DEF Shape
<1>3. ASSUME NEW p \in LeavesToday, CoversToday(p)
      PROVE  /\ \A slot \in Offered : DayOf(slot.from) # today
             /\ TodayLessonsCount = settled[today]
  <2>1. p \in leaves /\ p.from <= Midnight(today) /\ p.to >= Midnight(today + 1)
    BY <1>3 DEF LeavesToday, CoversToday
  <2>2. ASSUME NEW slot \in Offered, DayOf(slot.from) = today PROVE FALSE
    <3>1. PICK day \in today..(today + WindowDays - 1), t \in 0..(DayLength - Duration) :
             IsOffered(slot, day, t)
      BY <1>1, OfferedAre
    <3>2. day \in Int /\ t \in Int /\ 0 <= t /\ t + Duration <= DayLength
      BY <1>1, Units
    <3>3. slot = At(day, t) /\ ~Overlaps(slot, p)
      BY <2>1, <3>1 DEF IsOffered
    <3>4. /\ day = today /\ slot.from = Midnight(today) + t
          /\ slot.to = Midnight(today) + t + Duration
      BY <2>2, <3>2, <3>3, SlotOfDay
    <3>5. QED
      BY <3>2, <3>3, <3>4, <2>1, <1>1, <1>2, Units DEF Overlaps
  <2>3. ASSUME NEW l \in lessons, DayOf(l.from) = today PROVE FALSE
    <3>1. /\ l.from \in Int /\ l.to = l.from + Duration /\ ~Overlaps(l, p)
      BY <1>1, <2>1, LessonTimes DEF Inv, Apart
    <3>2. Reading(l.from) \in 0..(DayLength - 1) /\ l.from = Midnight(today) + Reading(l.from)
      BY <2>3, <3>1, DayAndTime
    <3>3. QED
      BY <3>1, <3>2, <2>1, <1>1, <1>2, Units DEF Overlaps
  <2>4. LessonsOn(today) = {}
    BY <2>3 DEF LessonsOn
  <2>5. settled[today] \in Nat
    BY <1>1 DEF Shape
  <2>6. QED
    BY <2>2, <2>4, <2>5, FS_EmptySet DEF TodayLessonsCount
<1>4. ASSUME NEW p \in leaves, LeavesToday = {}
      PROVE  p.to <= Midnight(today) \/ p.from >= Midnight(today + 1)
  BY <1>1, <1>2, <1>4, Units DEF LeavesToday
<1>5. ASSUME NEW p \in LeavesToday, ShownAsFullDay(p) PROVE CoversToday(p)
  <2>1. /\ p.from \in Int /\ p.to \in Int
        /\ p.from < Midnight(today + 1) /\ p.to > Midnight(today)
        /\ Reading(p.from) = 0 /\ Reading(p.to) = 0
    BY <1>2, <1>5 DEF LeavesToday, ShownAsFullDay
  <2> DEFINE a == DayOf(p.from)
             b == DayOf(p.to)
  <2>2. a \in Int /\ b \in Int /\ p.from = Midnight(a) /\ p.to = Midnight(b)
    <3>1. a \in Int /\ b \in Int /\ p.from = Midnight(a) + 0 /\ p.to = Midnight(b) + 0
      BY <2>1, DayAndTime
    <3>2. Midnight(a) \in Int /\ Midnight(b) \in Int
      BY <3>1, MidnightStep
    <3>3. QED
      BY <3>1, <3>2
  <2> HIDE DEF a, b
  <2>3. ~(today < a)
    <3>1. ASSUME today < a PROVE FALSE
      <4>1. Midnight(today) + DayLength <= Midnight(a)
        BY <3>1, <1>1, <2>2, MidnightOrder
      <4>2. QED
        BY <4>1, <1>1, <2>1, <2>2, Units
    <3>2. QED
      BY <3>1
  <2>4. ~(b < today + 1)
    <3>1. ASSUME b < today + 1 PROVE FALSE
      <4>1. Midnight(b) + DayLength <= Midnight(today + 1)
        BY <3>1, <1>1, <2>2, MidnightOrder
      <4>2. QED
        BY <4>1, <1>1, <2>1, <2>2, Units
    <3>2. QED
      BY <3>1
  <2>5. p.from <= Midnight(today)
    <3>1. CASE a = today
      BY <3>1, <2>2, <1>1
    <3>2. CASE a < today
      <4>1. Midnight(a) + DayLength <= Midnight(today)
        BY <3>2, <1>1, <2>2, MidnightOrder
      <4>2. QED
        BY <4>1, <1>1, <2>1, <2>2, Units
    <3>3. QED
      BY <3>1, <3>2, <2>2, <2>3, <1>1
  <2>6. p.to >= Midnight(today + 1)
    <3>1. CASE b = today + 1
      BY <3>1, <2>2, <2>1
    <3>2. CASE today + 1 < b
      <4>1. Midnight(today + 1) + DayLength <= Midnight(b)
        BY <3>2, <1>1, <2>2, MidnightOrder
      <4>2. QED
        BY <4>1, <1>1, <2>1, <2>2, Units
    <3>3. QED
      BY <3>1, <3>2, <2>2, <2>4, <1>1
  <2>7. QED
    BY <2>5, <2>6 DEF CoversToday
<1>6. LeaveStatus = "FULL_DAY_LEAVE" <=> \E p \in LeavesToday : CoversToday(p)
  BY DEF LeaveStatus
<1>7. LeaveStatus = "NONE" => LeavesToday = {}
  BY DEF LeaveStatus
<1>8. QED
  BY <1>3, <1>4, <1>5, <1>6, <1>7 DEF LeaveStatusAgrees

(* The profile's leave status of today agrees with the offer, with the list *)
(* of leaves and with the lessons: a FULL_DAY_LEAVE stands beside none that *)
(* is still to be taught, whatever was settled before it (getProfile,       *)
(* getLeaves).                                                              *)
THEOREM StatusAgrees == Spec => []LeaveStatusAgrees
<1>1. Inv => LeaveStatusAgrees
  BY InvStatus
<1>2. QED
  BY <1>1, Invariance, PTL

(* The date in UTC is the wall's, or the day before until ZoneOffset. *)
LEMMA UtcDates ==
    ASSUME NEW day \in Days, NEW c \in 0..(DayLength - 1)
    PROVE  DayOf((Midnight(day) + c) - ZoneOffset) = IF c >= ZoneOffset THEN day ELSE day - 1
<1>1. day \in Int /\ day - 1 \in Int /\ c \in Int /\ ZoneOffset \in Int /\ ZoneOffset <= DayLength
  BY Units, WeeklyScheduleAssumption DEF Days
<1>2. Midnight(day) \in Int /\ Midnight(day) = Midnight(day - 1) + DayLength /\ Midnight(day - 1) \in Int
  BY <1>1, MidnightStep
<1>3. CASE c >= ZoneOffset
  <2>1. c - ZoneOffset \in 0..(DayLength - 1)
    BY <1>1, <1>3, Units, WeeklyScheduleAssumption
  <2>2. (Midnight(day) + c) - ZoneOffset = Midnight(day) + (c - ZoneOffset)
    BY <1>1, <1>2
  <2>3. QED
    BY <1>1, <1>3, <2>1, <2>2, TimesOfDay
<1>4. CASE c < ZoneOffset
  <2>1. DayLength + c - ZoneOffset \in 0..(DayLength - 1)
    BY <1>1, <1>4, Units
  <2>2. (Midnight(day) + c) - ZoneOffset = Midnight(day - 1) + (DayLength + c - ZoneOffset)
    BY <1>1, <1>2, Units
  <2>3. QED
    BY <1>1, <1>4, <2>1, <2>2, TimesOfDay
<1>5. QED
  BY <1>1, <1>3, <1>4

LEMMA InvQuote == Inv => QuoteIsOfTheDay
<1> SUFFICES ASSUME Inv, quote.price # NoPrice PROVE QuoteIsOfTheDay
  BY DEF QuoteIsOfTheDay
<1>1. PICK day \in Days, c \in 0..(DayLength - 1) : quote = QuotedAt(day, c)
  BY DEF Inv, QuoteKept
<1> DEFINE date == IF c >= ZoneOffset THEN day ELSE day - 1
<1>2. date \in Int
  BY DEF Days
<1>3. quote.day = day /\ quote.clock = c /\ quote.price = EffectivePrice(PriceList, date)
  BY <1>1, UtcDates DEF QuotedAt
<1> HIDE DEF date
<1>4. PICK r \in PriceList : /\ r.since <= date
                             /\ \A q \in PriceList : q.since <= date => q.since <= r.since
                             /\ EffectivePrice(PriceList, date) = r.price
  BY <1>2, <1>3, WeeklyScheduleAssumption, LatestRow
<1>5. ASSUME NEW q \in PriceList, q.since \in r.since..date PROVE q = r
  <2>1. r.since \in Int /\ q.since \in Int
    BY WeeklyScheduleAssumption
  <2>2. q.since = r.since
    BY <2>1, <1>2, <1>4, <1>5
  <2>3. QED
    BY <2>2, WeeklyScheduleAssumption
<1>6. QED
  BY <1>3, <1>4, <1>5 DEF QuoteIsOfTheDay, date

(* A booking is quoted the price in force on its wall-clock date, or on the *)
(* day before in the first hours (getEffectiveLessonPrice in UTC).          *)
THEOREM QuoteOfTheDay == Spec => []QuoteIsOfTheDay
<1>1. Inv => QuoteIsOfTheDay
  BY InvQuote
<1>2. QED
  BY <1>1, Invariance, PTL

-----------------------------------------------------------------------------
(* The refinement: each operation is a step of the timetable. *)

ThisLeaves == [i \in {"THIS"} |-> leaves]

ClaimFor(slot) == [instructor |-> "THIS", vehicle |-> "OWN", slot |-> slot, late |-> FALSE]

LEMMA ClaimsAre == Claims = {ClaimFor(slot) : slot \in Taken}
BY DEF Claims, ClaimFor

LEMMA FewerClaims ==
    ASSUME lessons' \subseteq lessons
    PROVE  Claims' \subseteq Claims /\ Promise!NoNewClaim
<1>1. Claims' \subseteq Claims
  BY DEF Claims, Taken
<1>2. QED
  BY <1>1 DEF Promise!NoNewClaim

LEMMA LessonsLetGo ==
    ASSUME lessons' \subseteq lessons, UNCHANGED leaves
    PROVE  Promise!LetGo
BY FewerClaims DEF Promise!LetGo

LEMMA BookingClaims ==
    ASSUME NEW start, NEW offered, Book(Lesson(start), offered)
    PROVE  \E c \in Claims' : Promise!Claim(c)
<1> DEFINE c == ClaimFor(Lesson(start))
           l == [from |-> start, to |-> start + Duration, offered |-> offered]
<1>1. lessons' = lessons \cup {l} /\ UNCHANGED leaves /\ SlotIsAvailable(Lesson(start))
  BY DEF Book, Lesson
<1>2. Stretch(l) = Lesson(start)
  BY DEF Stretch, Lesson
<1> HIDE DEF l
<1>3. Taken' = Taken \cup {Lesson(start)}
  BY <1>1, <1>2 DEF Taken
<1>4. Claims' = Claims \cup {c}
  BY <1>3 DEF Claims, ClaimFor
<1>5. c.instructor = "THIS" /\ c.slot = Lesson(start) /\ c.late = FALSE
  BY DEF ClaimFor
<1> HIDE DEF c
<1>6. \A d \in Claims : ~Promise!Clash(c, d)
  <2>1. ASSUME NEW d \in Claims PROVE ~Overlaps(c.slot, d.slot)
    <3>1. PICK slot \in Taken : d = ClaimFor(slot)
      BY ClaimsAre
    <3>2. d.slot \in Taken
      BY <3>1 DEF ClaimFor
    <3>3. QED
      BY <3>2, <1>1, <1>5 DEF SlotIsAvailable
  <2>2. QED
    BY <2>1 DEF Promise!Clash, Promise!Overlaps, Promise!OpenEnd, Overlaps, OpenEnd
<1>7. \A p \in ThisLeaves[c.instructor] : ~Overlaps(c.slot, p)
  BY <1>1, <1>5 DEF ThisLeaves, SlotIsAvailable
<1>8. Promise!Claim(c)
  BY <1>1, <1>4, <1>5, <1>6, <1>7
     DEF Promise!Claim, ThisLeaves, Promise!Overlaps, Promise!OpenEnd, Overlaps, OpenEnd
<1>9. QED
  BY <1>4, <1>8

LEMMA LeaveIsTaken ==
    ASSUME NEW leave, NEW replaced,
           LeaveIsFree(leave, leaves \ replaced),
           leaves' = (leaves \ replaced) \cup {leave}, lessons' = LessonsOutside(leave)
    PROVE  Promise!TakeLeave("THIS", replaced, leave)
<1>1. Promise!NoNewClaim
  BY FewerClaims DEF LessonsOutside
<1>2. ASSUME NEW c \in Claims' PROVE ~Overlaps(c.slot, leave)
  <2>1. PICK l \in lessons' : c = ClaimFor(Stretch(l))
    BY <1>2 DEF Claims, Taken, ClaimFor
  <2>2. ~Overlaps(l, leave) /\ c.slot = Stretch(l)
    BY <2>1 DEF LessonsOutside, ClaimFor
  <2>3. QED
    BY <2>2 DEF Overlaps, Stretch
<1>3. \A l \in ThisLeaves["THIS"] \ replaced : ~Overlaps(leave, l)
  BY DEF LeaveIsFree, ThisLeaves
<1>4. ThisLeaves' = [ThisLeaves EXCEPT !["THIS"] = (@ \ replaced) \cup {leave}]
  BY DEF ThisLeaves
<1>5. QED
  BY <1>1, <1>2, <1>3, <1>4
     DEF Promise!TakeLeave, ThisLeaves, Promise!Overlaps, Promise!OpenEnd, Overlaps, OpenEnd

LEMMA TimetableStep == Inv /\ [Next]_vars => [Promise!Next]_(Promise!vars)
<1> SUFFICES ASSUME Inv, [Next]_vars PROVE [Promise!Next]_(Promise!vars)
  OBVIOUS
<1>1. ASSUME NEW w \in Weekdays, NEW periods \in Hours, UpdateDaySchedule(w, periods)
      PROVE  Promise!Next
  BY <1>1, LessonsLetGo DEF UpdateDaySchedule, Promise!Next
<1>2. ASSUME NEW slot \in Offered, BookOffered(slot) PROVE Promise!Next
  <2>1. \E day, t : slot = At(day, t)
    BY OfferedAre DEF Inv, IsOffered
  <2>2. PICK start : slot = Lesson(start)
    BY <2>1 DEF At
  <2>3. QED
    BY <1>2, <2>2, BookingClaims DEF BookOffered, Promise!Next
<1>3. ASSUME NEW start \in Midnight(0)..(Midnight(LastDay + 1) - 1), BookAnywhere(start)
      PROVE  Promise!Next
  BY <1>3, BookingClaims DEF BookAnywhere, Promise!Next
<1>4. ASSUME NEW leave \in Absences, SubmitLeave(leave) PROVE Promise!Next
  <2>1. leaves \ {} = leaves
    OBVIOUS
  <2>2. Promise!TakeLeave("THIS", {}, leave)
    BY <1>4, <2>1, LeaveIsTaken DEF SubmitLeave
  <2>3. QED
    BY <2>2 DEF Promise!Next
<1>5. ASSUME NEW old \in leaves, NEW leave \in Absences, UpdateLeave(old, leave)
      PROVE  Promise!Next
  <2>1. Promise!TakeLeave("THIS", {old}, leave)
    BY <1>5, LeaveIsTaken DEF UpdateLeave
  <2>2. old \in ThisLeaves["THIS"]
    BY DEF ThisLeaves
  <2>3. QED
    BY <2>1, <2>2 DEF Promise!Next, ThisLeaves
<1>6. ASSUME NEW leave \in leaves, CancelLeave(leave) PROVE Promise!Next
  <2>1. leaves' = leaves \ {leave} /\ UNCHANGED lessons
    BY <1>6 DEF CancelLeave
  <2>2. Claims' = Claims
    BY <2>1 DEF Claims, Taken
  <2>3. Promise!GiveUpLeave("THIS", leave)
    BY <2>1, <2>2 DEF Promise!GiveUpLeave
  <2>4. leave \in ThisLeaves["THIS"]
    BY DEF ThisLeaves
  <2>5. QED
    BY <2>3, <2>4 DEF Promise!Next, ThisLeaves
<1>7. ASSUME NEW l \in lessons, Release(l) PROVE Promise!Next
  BY <1>7, LessonsLetGo DEF Release, Promise!Next
<1>8. ASSUME NEW l \in lessons, Settle(l) PROVE Promise!Next
  BY <1>8, LessonsLetGo DEF Settle, Promise!Next
<1>9. CASE Tick
  BY <1>9, LessonsLetGo DEF Tick, Promise!Next
<1>10. CASE UNCHANGED vars
  BY <1>10 DEF vars, Promise!vars, Claims, Taken
<1>11. QED
  BY <1>1, <1>2, <1>3, <1>4, <1>5, <1>6, <1>7, <1>8, <1>9, <1>10 DEF Next

(* updateDaySchedule, the leaves and both ways to book implement the        *)
(* timetable: nothing is booked over a lesson or a leave, and no leave      *)
(* keeps a lesson.                                                          *)
THEOREM TimetableKept == Spec => TimetableIsKept
<1>1. Init => Promise!Init
  BY DEF Init, Promise!Init, Claims, Taken
<1>2. QED
  BY <1>1, TimetableStep, Invariance, PTL DEF Spec, Promise!Spec, TimetableIsKept
=============================================================================
