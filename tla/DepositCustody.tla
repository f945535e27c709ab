---------------------------- MODULE DepositCustody ----------------------------
(***************************************************************************)
(* What the school promises about the money of a lesson, whatever tables,  *)
(* crons and handlers it passes through (booking.service.ts): where each   *)
(* deposit stands, and how much of it there is.  BookingPayments is shown  *)
(* to implement it.                                                        *)
(*                                                                         *)
(*    "none"       nothing is asked for yet                                *)
(*    "awaited"    a hold waits for it                                     *)
(*    "released"   the hold ran out                                        *)
(*    "held"       a booked lesson stands behind it                        *)
(*    "earned"     the lesson was given                                    *)
(*    "forfeited"  the student did not turn up                             *)
(*    "lost"       the student cancelled                                   *)
(*    "credit"     somebody else cancelled: it buys another lesson         *)
(*    "stranded"   the school withdrew the lesson, and it buys none        *)
(***************************************************************************)
EXTENDS Integers

CONSTANT Deposits

VARIABLES state, amount

vars == <<state, amount>>

Standings == {"none", "awaited", "released", "held", "earned", "forfeited",
              "lost", "credit", "stranded"}

Move(d, from, to) == state[d] \in from /\ state'[d] \in to

Keep(d) == amount'[d] = amount[d]

-----------------------------------------------------------------------------
Init ==
    /\ state = [d \in Deposits |-> "none"]
    /\ amount = [d \in Deposits |-> 0]

(* A lesson is asked for, or booked at the desk against money. *)
Ask(d) == Move(d, {"none"}, {"awaited"}) /\ amount'[d] = 0
PayAtDesk(d) == Move(d, {"none"}, {"held"})

PayHold(d) == Move(d, {"awaited"}, {"held"}) /\ amount'[d] >= amount[d]
PayRest(d) == Move(d, {"held"}, {"held"}) /\ amount'[d] > amount[d]

RunOut(d) == Move(d, {"awaited"}, {"released"}) /\ Keep(d)

(* The lesson's outcome, and its correction by hand. *)
Settle(d) == Move(d, {"held", "earned", "forfeited"}, {"earned", "forfeited"}) /\ Keep(d)

StudentCancels(d) == Move(d, {"awaited", "held"}, {"lost"}) /\ Keep(d)

(* The school may withdraw a lesson late: after the hold ran out, or after  *)
(* the lesson was settled.                                                  *)
SchoolCancels(d) ==
    /\ \/ Move(d, {"awaited", "released", "held", "earned", "forfeited"}, {"credit"})
       \/ Move(d, {"held", "earned", "forfeited"}, {"stranded"})
    /\ Keep(d)

(* A credit buys one lesson, for all there is of it. *)
Reuse(d) == Move(d, {"credit"}, {"held"}) /\ Keep(d)

Step(d) ==
    \/ Ask(d) \/ PayAtDesk(d) \/ PayHold(d) \/ PayRest(d) \/ RunOut(d)
    \/ Settle(d) \/ StudentCancels(d) \/ SchoolCancels(d) \/ Reuse(d)

Stay(d) == state'[d] = state[d] /\ Keep(d)

(* One statement of the program may move several deposits (a leave, the     *)
(* minute cron), each of them by a step of its own.                         *)
Next ==
    /\ state' \in [Deposits -> Standings]
    /\ amount' \in [Deposits -> Nat]
    /\ \A d \in Deposits : Stay(d) \/ Step(d)

Spec == Init /\ [][Next]_vars
=============================================================================
