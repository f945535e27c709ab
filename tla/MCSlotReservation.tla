-------------------------- MODULE MCSlotReservation --------------------------
(* An instance of SlotReservation for TLC. *)
EXTENDS SlotReservation

P(from, to) == [from |-> from, to |-> to]
MCRows == {1, 2}

(* Lessons at 1-3 and 2-4, which overlap: one crosses the two touching      *)
(* periods, the other ends at midnight.                                     *)
MCStarts == {1, 2}
MCFirstHours == {P(1, 2), P(2, 4)}
MCHours == {{P(1, 3)}, {P(2, 4)}, {}}
MCAbsences == {P(1, 2), P(2, 3), P(1, 3)}

(* One instructor's calendar, and the fleet shared by two instructors whose *)
(* lessons are at the same time.                                            *)
MCScopes ==
    {[instructors |-> {i}, starts |-> MCStarts, ownCar |-> TRUE,
      calls |-> {"leave", "edit"}, requests |-> 4] : i \in Instructors}
    \cup {[instructors |-> Instructors, starts |-> {1}, ownCar |-> FALSE,
           calls |-> {"fleet"}, requests |-> 4]}

Symmetry ==
    Permutations(Handlers) \cup Permutations(Vehicles) \cup Permutations(Instructors)
=============================================================================
