-------------------------- MODULE MCWeeklySchedule --------------------------
(* An instance of WeeklySchedule for TLC. *)
EXTENDS WeeklySchedule

P(from, to) == [from |-> from, to |-> to]

(* A day off, two periods that touch (in the middle of a lesson), two with  *)
(* a break, and two that overlap, which an edit must refuse.               *)
MCHours == {{}, {P(0, 1), P(1, 4)}, {P(0, 2), P(3, 4)}, {P(0, 3), P(2, 4)}}

(* A whole day, part of a day, and from one afternoon to another morning. *)
MCAbsences == {P(4, 8), P(1, 2), P(6, 9)}

MCPriceList == {[since |-> 0, price |-> 1], [since |-> 2, price |-> 2]}
=============================================================================
