------------------------------ MODULE Timetable ------------------------------
(***************************************************************************)
(* What the school promises about time, whatever stages, locks and retries *)
(* a request goes through (booking.service.ts, instructor-profile.         *)
(* service.ts): a lesson is claimed in one step, clear of every claim and  *)
(* leave of that moment, and a leave is taken in one step together with    *)
(* the lessons it displaces.  WeeklySchedule and SlotReservation are shown *)
(* to implement it.                                                        *)
(*                                                                         *)
(* A claim is a lesson that is booked or waits for its payment; it is late *)
(* once its hold has run out, when it still keeps others off.              *)
(***************************************************************************)
EXTENDS SlotRules

CONSTANTS
    Instructors,
    OwnCar,       \* the one vehicle that lessons may share
    Absences      \* stretches a leave may cover

VARIABLES claims, leaves

vars == <<claims, leaves>>

SameResource(c, d) ==
    c.instructor = d.instructor \/ (c.vehicle = d.vehicle /\ c.vehicle # OwnCar)

Clash(c, d) == SameResource(c, d) /\ Overlaps(c.slot, d.slot)

(* Claims are given up or become late; none appears or moves. *)
NoNewClaim ==
    \A c \in claims' : c \in claims \/ (c.late /\ [c EXCEPT !.late = FALSE] \in claims)

-----------------------------------------------------------------------------
Init ==
    /\ claims = {}
    /\ leaves = [i \in Instructors |-> {}]

Claim(c) ==
    /\ c.instructor \in Instructors /\ ~c.late
    /\ \A d \in claims : ~Clash(c, d)
    /\ \A l \in leaves[c.instructor] : ~Overlaps(c.slot, l)
    /\ claims' = claims \cup {c}
    /\ UNCHANGED leaves

LetGo == NoNewClaim /\ UNCHANGED leaves

(* A leave is taken, or takes the place of another.  A late claim may       *)
(* survive it: its payment may be on the way.                               *)
TakeLeave(i, replaced, leave) ==
    /\ \A l \in leaves[i] \ replaced : ~Overlaps(leave, l)
    /\ leaves' = [leaves EXCEPT ![i] = (@ \ replaced) \cup {leave}]
    /\ NoNewClaim
    /\ \A c \in claims' : c.instructor = i /\ Overlaps(c.slot, leave) => c.late

GiveUpLeave(i, leave) ==
    /\ leaves' = [leaves EXCEPT ![i] = @ \ {leave}]
    /\ UNCHANGED claims

Next ==
    \/ \E c \in claims' : Claim(c)
    \/ LetGo
    \/ \E i \in Instructors, leave \in Absences :
          \E replaced \in {{}} \cup {{l} : l \in leaves[i]} : TakeLeave(i, replaced, leave)
    \/ \E i \in Instructors : \E leave \in leaves[i] : GiveUpLeave(i, leave)

Spec == Init /\ [][Next]_vars
=============================================================================
