------------------------ MODULE DepositCustodyProofs ------------------------
(* BookingPayments implements DepositCustody, for every value of the        *)
(* constants: each statement of the program moves every deposit by a step   *)
(* the school promised, or not at all.                                      *)
EXTENDS BookingPaymentsProofs

(* What a step makes of row b and of the payments of charge c on it. *)
Same(b) == UNCHANGED <<status[b], payment[b], cancelledBy[b]>>
NoPayment(c) == paid'[c] = paid[c]

Turns(b, from, to) == status[b] \in from /\ status'[b] \in to

RowStep(b, c) ==
    \/ Same(b) /\ NoPayment(c)
    \/ /\ Turns(b, {"BOOKED"}, {"BOOKED"})
       /\ NoPayment(c) \/ paid'[c] > paid[c]
    \/ Turns(b, {"PENDING_PAYMENT"}, {"BOOKED"}) /\ paid'[c] >= paid[c]
    \/ Turns(b, {"PENDING_PAYMENT"}, {"EXPIRED"}) /\ NoPayment(c)
    \/ /\ Turns(b, {"BOOKED", "COMPLETED", "NO_SHOW"}, {"COMPLETED", "NO_SHOW"})
       /\ NoPayment(c)
    \/ /\ Turns(b, {"PENDING_PAYMENT", "BOOKED"}, {"CANCELLED"})
       /\ cancelledBy'[b] = "STUDENT"
       /\ NoPayment(c)
    \/ /\ status[b] \notin {"NONE", "CANCELLED"}
       /\ status'[b] = "CANCELLED"
       /\ cancelledBy'[b] = "OTHER"
       /\ payment'[b] = "DEPOSIT_AVAILABLE_FOR_REBOOKING"
       /\ NoPayment(c)
    \/ /\ Turns(b, {"BOOKED", "COMPLETED", "NO_SHOW"}, {"CANCELLED"})
       /\ cancelledBy'[b] = "OTHER"
       /\ NoPayment(c)

Moves(c) == Promise!Stay(c) \/ Promise!Step(c)

LEMMA StandingTable ==
    /\ StandingIf["NONE"] = "none"
    /\ StandingIf["PENDING_PAYMENT"] = "awaited"
    /\ StandingIf["EXPIRED"] = "released"
    /\ StandingIf["BOOKED"] = "held"
    /\ StandingIf["COMPLETED"] = "earned"
    /\ StandingIf["NO_SHOW"] = "forfeited"
BY DEF StandingIf

LEMMA RowStepMoves ==
    ASSUME TypeOK, TypeOK', NEW c \in Bookings, NEW b \in Bookings,
           chargeOn[c] = b, chargeOn'[c] = b, RowStep(b, c)
    PROVE  Moves(c)
<1> USE BookingsAssumption DEF NoBooking, TypeOK
<1>1. /\ StandingOf[c] = Standing(b)
      /\ StandingOf'[c] = Standing(b)'
  BY DEF StandingOf, Standing
<1>2. /\ status[b] \in BookingStatuses
      /\ status'[b] \in BookingStatuses
  OBVIOUS
<1> QED
  BY <1>1, <1>2, StandingTable
     DEF RowStep, Same, NoPayment, Turns, Standing, BookingStatuses, Moves, Promise!Stay,
         Promise!Step, Promise!Keep, Promise!Move, Promise!Ask, Promise!PayAtDesk,
         Promise!PayHold, Promise!PayRest, Promise!RunOut, Promise!Settle,
         Promise!StudentCancels, Promise!SchoolCancels, Promise!Reuse

(* No charge changes rows. *)
LEMMA RowStepsMove ==
    ASSUME TypeOK, TypeOK', UNCHANGED chargeOn,
           \A c \in Bookings : chargeOn[c] = NoBooking => NoPayment(c),
           \A b, c \in Bookings : chargeOn[c] = b => RowStep(b, c)
    PROVE  \A c \in Bookings : Moves(c)
<1> SUFFICES ASSUME NEW c \in Bookings PROVE Moves(c)
  OBVIOUS
<1>1. CASE chargeOn[c] = NoBooking
  BY <1>1 DEF NoPayment, StandingOf, Moves, Promise!Stay, Promise!Keep
<1>2. CASE chargeOn[c] # NoBooking
  <2>1. PICK b \in Bookings : b = chargeOn[c]
    BY <1>2 DEF TypeOK
  <2> QED
    BY <2>1, RowStepMoves
<1> QED
  BY <1>1, <1>2

-----------------------------------------------------------------------------
(* The rows a withdrawal of a vehicle has read were booked, and still are,  *)
(* or were settled or cancelled since.                                      *)
WasBooked(b) == status[b] \in {"BOOKED", "COMPLETED", "NO_SHOW", "CANCELLED"}

VehicleReads == \A r \in Handlers : request[r].op = "vehicle" =>
    \A b \in Bookings : request[r].seen[b] # "UNREAD" => WasBooked(b)

StayBooked == \A b \in Bookings : WasBooked(b) => WasBooked(b)'

LEMMA HandlersKeepBooked ==
    ASSUME CustodyInv, NEW r \in Handlers,
           Create(r) \/ Pay(r) \/ Withdraw(r) \/ Override(r) \/ Abandon(r)
    PROVE  StayBooked
<1> USE DEF CustodyInv, TypeOK, rowVars, WasBooked, StayBooked
<1>1. CASE Create(r)
  BY <1>1 DEF Create, CreateRead, InsertHold, InsertCash, InsertRebooking, Creating, NextRow
<1>2. CASE Pay(r)
  BY <1>2 DEF Pay, ConfirmVerify, ConfirmCommit
<1>3. CASE Withdraw(r)
  <2>1. CASE LeaveCommit(r) \/ VehicleCommit(r)
    <3>1. \A d \in Bookings : status'[d] \in {"CANCELLED", status[d]}
      BY <2>1 DEF LeaveCommit, VehicleCommit
    <3> QED
      BY <3>1
  <2> QED
    BY <1>3, <2>1 DEF Withdraw, LeaveRead, VehicleRead
<1>4. CASE Override(r)
  BY <1>4 DEF Override, NoShowRead, NoShowCommit
<1>5. CASE Abandon(r)
  BY <1>5 DEF Abandon
<1> QED
  BY <1>1, <1>2, <1>3, <1>4, <1>5

LEMMA OthersKeepBooked ==
    ASSUME CustodyInv,
           \/ \E b \in Bookings : Desk(b) \/ Clock(b)
           \/ \E k \in Crons : Cron(k)
           \/ \E i \in Instructors : PayDues(i)
           \/ ExpireStaleHolds
    PROVE  StayBooked
<1> USE DEF CustodyInv, TypeOK, rowVars, WasBooked, StayBooked
<1>1. ASSUME NEW b \in Bookings, Desk(b) \/ Clock(b)
      PROVE  StayBooked
  BY <1>1 DEF Desk, PayRemainder, Cancel, ManualComplete, Clock, HoldTimesOut, LessonEnds
<1>2. ASSUME NEW k \in Crons, Cron(k)
      PROVE  StayBooked
  BY <1>2 DEF Cron, CronRead, CronProcess, CronComplete, CronNoShow, CronSkip, CronAbort,
              CronSettles
<1>3. ASSUME NEW i \in Instructors, PayDues(i)
      PROVE  StayBooked
  BY <1>3 DEF PayDues
<1>4. CASE ExpireStaleHolds
  BY <1>4 DEF ExpireStaleHolds, Stale
<1> QED
  BY <1>1, <1>2, <1>3, <1>4

(* No step but the read of a withdrawal makes a request of it. *)
LEMMA VehicleRequests ==
    ASSUME CustodyInv, Next, NEW r \in Handlers, request'[r].op = "vehicle"
    PROVE  \/ request'[r] = request[r]
           \/ \A b \in Bookings : request'[r].seen[b] # "UNREAD" =>
                 status'[b] = "BOOKED" /\ payment'[b] = request'[r].seen[b]
<1> USE DEF CustodyInv, TypeOK
<1>1. ASSUME NEW q \in Handlers, Create(q) \/ Pay(q) \/ Override(q) \/ Abandon(q)
      PROVE  request'[r] = request[r]
  BY <1>1 DEF Create, CreateRead, InsertHold, InsertCash, InsertRebooking, Pay, ConfirmVerify,
              ConfirmCommit, Override, NoShowRead, NoShowCommit, Abandon, Start, Finish, Idle
<1>2. ASSUME NEW q \in Handlers, Withdraw(q)
      PROVE  \/ request'[r] = request[r]
             \/ \A b \in Bookings : request'[r].seen[b] # "UNREAD" =>
                   status'[b] = "BOOKED" /\ payment'[b] = request'[r].seen[b]
  BY <1>2 DEF Withdraw, LeaveRead, LeaveCommit, VehicleRead, VehicleCommit, Start, Finish,
              Idle, rowVars
<1>3. ASSUME NEW b \in Bookings, Desk(b) \/ Clock(b)
      PROVE  request'[r] = request[r]
  BY <1>3 DEF Desk, PayRemainder, Cancel, ManualComplete, Clock, HoldTimesOut, LessonEnds
<1>4. ASSUME NEW k \in Crons, Cron(k)
      PROVE  request'[r] = request[r]
  BY <1>4 DEF Cron, CronRead, CronProcess, CronComplete, CronNoShow, CronSkip, CronAbort
<1>5. ASSUME NEW i \in Instructors, PayDues(i)
      PROVE  request'[r] = request[r]
  BY <1>5 DEF PayDues
<1>6. CASE ExpireStaleHolds
  BY <1>6 DEF ExpireStaleHolds
<1> QED
  BY <1>1, <1>2, <1>3, <1>4, <1>5, <1>6 DEF Next

LEMMA VehicleReadsInit == Init => VehicleReads
BY DEF Init, Idle, VehicleReads

LEMMA VehicleReadsStep == CustodyInv /\ VehicleReads /\ [Next]_vars => VehicleReads'
<1>1. ASSUME CustodyInv, VehicleReads, Next
      PROVE  VehicleReads'
  <2>1. StayBooked
    BY <1>1, HandlersKeepBooked, OthersKeepBooked DEF Next
  <2> QED
    BY <1>1, <2>1, VehicleRequests DEF VehicleReads, StayBooked, WasBooked
<1>2. ASSUME VehicleReads, UNCHANGED vars
      PROVE  VehicleReads'
  BY <1>2 DEF vars, rowVars, VehicleReads, WasBooked
<1> QED
  BY <1>1, <1>2

-----------------------------------------------------------------------------
(* The steps, one lemma for each kind. *)

AllMove == \A c \in Bookings : Moves(c)

(* A step that leaves the rows' standing and the payments alone. *)
LEMMA NothingMoves ==
    ASSUME UNCHANGED <<status, payment, cancelledBy, chargeOn, paid>>
    PROVE  AllMove
BY DEF AllMove, Moves, Promise!Stay, Promise!Keep, StandingOf, Standing

(* A step that writes rows and takes no payment. *)
LEMMA RowsMove ==
    ASSUME TypeOK, TypeOK', UNCHANGED <<chargeOn, paid>>,
           \A b, c \in Bookings : RowStep(b, c)
    PROVE  AllMove
BY RowStepsMove DEF AllMove, NoPayment

LEMMA ConfirmMoves ==
    ASSUME CustodyInv, TypeOK', NEW r \in Handlers, ConfirmCommit(r)
    PROVE  AllMove
<1> USE DEF CustodyInv, TypeOK
<1>1. PICK b \in Bookings, t \in Txns : b = request[r].booking /\ t = request[r].txn
  BY RequestFields DEF ConfirmCommit
<1>2. TxnAmount[t] \in Nat
  BY MoneyAssumption
<1>3. /\ status[b] = "PENDING_PAYMENT"
      /\ status' = [status EXCEPT ![b] = "BOOKED"]
      /\ payment' = [payment EXCEPT ![b] = "DEPOSIT_PAID"]
      /\ UNCHANGED <<chargeOn, cancelledBy>>
  BY <1>1 DEF ConfirmCommit, StillOnHold, LiveHold
<1>4. PICK c \in Bookings : chargeOn[c] = b /\ paid' = [paid EXCEPT ![c] = @ + TxnAmount[t]]
  BY <1>1 DEF ConfirmCommit, RecordPayment, ChargesOf
<1>5. \A d \in Bookings : paid'[d] >= paid[d] /\ (d # c => paid'[d] = paid[d])
  BY <1>2, <1>4
<1>6. \A a, d \in Bookings : chargeOn[d] = a => RowStep(a, d)
  BY <1>3, <1>4, <1>5 DEF RowStep, Same, NoPayment, Turns
<1>7. \A d \in Bookings : chargeOn[d] = NoBooking => NoPayment(d)
  BY <1>4, <1>5, BookingsAssumption DEF NoPayment
<1> QED
  BY <1>3, <1>6, <1>7, RowStepsMove DEF AllMove

LEMMA PayRemainderMoves ==
    ASSUME CustodyInv, TypeOK', NEW b \in Bookings, PayRemainder(b)
    PROVE  AllMove
<1> USE DEF CustodyInv, TypeOK
<1>1. /\ status[b] = "BOOKED"
      /\ payment' = [payment EXCEPT ![b] = "FULLY_PAID"]
      /\ UNCHANGED <<status, chargeOn, cancelledBy>>
  BY DEF PayRemainder
<1>2. PICK c \in Bookings : /\ chargeOn[c] = b
                            /\ due[c] > paid[c]
                            /\ paid' = [paid EXCEPT ![c] = due[c]]
  BY DEF PayRemainder, ChargesOf
<1>3. paid'[c] > paid[c] /\ \A d \in Bookings : d # c => paid'[d] = paid[d]
  BY <1>2
<1>4. \A a, d \in Bookings : chargeOn[d] = a => RowStep(a, d)
  BY <1>1, <1>2, <1>3 DEF RowStep, Same, NoPayment, Turns
<1>5. \A d \in Bookings : chargeOn[d] = NoBooking => NoPayment(d)
  BY <1>2, <1>3, BookingsAssumption DEF NoPayment
<1> QED
  BY <1>1, <1>4, <1>5, RowStepsMove DEF AllMove

LEMMA DeskMoves ==
    ASSUME CustodyInv, TypeOK', NEW b \in Bookings, Desk(b)
    PROVE  AllMove
<1> USE DEF CustodyInv, TypeOK, RowStep, Same, NoPayment, Turns, chargeVars
<1>1. ASSUME NEW party \in Parties, Cancel(b, party)
      PROVE  AllMove
  <2>1. \A a, c \in Bookings : RowStep(a, c)
    BY <1>1 DEF Cancel, DepositAfterCancel, Parties
  <2> QED
    BY <1>1, <2>1, RowsMove DEF Cancel
<1>2. CASE ManualComplete(b)
  <2>1. \A a, c \in Bookings : RowStep(a, c)
    BY <1>2 DEF ManualComplete
  <2> QED
    BY <1>2, <2>1, RowsMove DEF ManualComplete
<1> QED
  BY <1>1, <1>2, PayRemainderMoves DEF Desk

LEMMA LeaveMoves ==
    ASSUME CustodyInv, TypeOK', NEW r \in Handlers, LeaveCommit(r)
    PROVE  AllMove
<1> USE DEF CustodyInv, TypeOK, chargeVars
<1>1. PICK B \in SUBSET Bookings : B = request[r].bookings
  BY RequestFields DEF LeaveCommit
<1>2. \A b \in B : status[b] \notin {"NONE", "CANCELLED"}
  BY <1>1 DEF LeaveCommit, UniqueCancellation, CancellationDecidesDeposit, ReadsStillHold,
              RowsStillExist
<1>3. \A b \in Bookings : IF b \in B
        THEN /\ status'[b] = "CANCELLED"
             /\ payment'[b] = "DEPOSIT_AVAILABLE_FOR_REBOOKING"
             /\ cancelledBy'[b] = "OTHER"
        ELSE Same(b)
  BY <1>1 DEF LeaveCommit, DepositAfterCancel, Same
<1>4. UNCHANGED <<chargeOn, paid>>
  BY DEF LeaveCommit
<1>5. \A b, c \in Bookings : RowStep(b, c)
  BY <1>2, <1>3, <1>4 DEF RowStep, NoPayment
<1> QED
  BY <1>4, <1>5, RowsMove

LEMMA VehicleMoves ==
    ASSUME CustodyInv, VehicleReads, TypeOK', NEW r \in Handlers, VehicleCommit(r)
    PROVE  AllMove
<1> USE DEF CustodyInv, TypeOK, chargeVars
<1>1. PICK B \in SUBSET Bookings : B = {b \in Bookings : request[r].seen[b] # "UNREAD"}
  OBVIOUS
<1>2. \A b \in B : status[b] \in {"BOOKED", "COMPLETED", "NO_SHOW"}
  <2>1. \A b \in B : WasBooked(b)
    BY <1>1 DEF VehicleCommit, VehicleReads
  <2>2. \A b \in B : status[b] # "CANCELLED"
    BY <1>1 DEF VehicleCommit, UniqueCancellation, CancellationDecidesDeposit
  <2> QED
    BY <2>1, <2>2 DEF WasBooked
<1>3. \A b \in Bookings : IF b \in B
        THEN status'[b] = "CANCELLED" /\ cancelledBy'[b] = "OTHER"
        ELSE Same(b)
  BY <1>1 DEF VehicleCommit, Same
<1>4. UNCHANGED <<chargeOn, paid>>
  BY DEF VehicleCommit
<1>5. \A b, c \in Bookings : RowStep(b, c)
  BY <1>2, <1>3, <1>4 DEF RowStep, NoPayment, Turns
<1> QED
  BY <1>4, <1>5, RowsMove

LEMMA NoShowMoves ==
    ASSUME CustodyInv, TypeOK', NEW r \in Handlers, NoShowCommit(r)
    PROVE  AllMove
<1> USE DEF CustodyInv, TypeOK, chargeVars
<1>1. PICK b \in Bookings : b = request[r].booking
  BY RequestFields DEF NoShowCommit
<1>2. status[b] \in {"BOOKED", "COMPLETED"}
  BY <1>1 DEF NoShowCommit, ReadsStillHold, LockStillHolds
<1>3. \A a, c \in Bookings : RowStep(a, c)
  BY <1>1, <1>2 DEF NoShowCommit, RowStep, Same, NoPayment, Turns
<1> QED
  BY <1>3, RowsMove DEF NoShowCommit

LEMMA CronMoves ==
    ASSUME CustodyInv, TypeOK', NEW k \in Crons, Cron(k)
    PROVE  AllMove
<1> USE DEF CustodyInv, TypeOK, RowStep, Same, NoPayment, Turns, rowVars, chargeVars
<1>1. ASSUME NEW b \in Bookings, CronComplete(k, b)
      PROVE  AllMove
  <2>1. \A a, c \in Bookings : RowStep(a, c)
    BY <1>1 DEF CronComplete, CronSettles
  <2> QED
    BY <1>1, <2>1, RowsMove DEF CronComplete
<1>2. ASSUME NEW b \in Bookings, CronNoShow(k, b)
      PROVE  AllMove
  <2>1. \A a, c \in Bookings : RowStep(a, c)
    BY <1>2 DEF CronNoShow, CronSettles
  <2> QED
    BY <1>2, <2>1, RowsMove DEF CronNoShow
<1> QED
  BY <1>1, <1>2, NothingMoves DEF Cron, CronRead, CronProcess, CronSkip, CronAbort

LEMMA ExpiryMoves ==
    ASSUME CustodyInv, TypeOK', ExpireStaleHolds
    PROVE  AllMove
<1>1. \A a, c \in Bookings : RowStep(a, c)
  BY DEF CustodyInv, TypeOK, ExpireStaleHolds, Stale, RowStep, Same, NoPayment, Turns,
         chargeVars
<1> QED
  BY <1>1, RowsMove DEF CustodyInv, ExpireStaleHolds, chargeVars

(* A new row and its charge: the deposit was nowhere before. *)
LEMMA InsertMoves ==
    ASSUME CustodyInv, TypeOK', NEW b \in Bookings, FreshRow(b),
           NEW amount \in Nat, paid' = [paid EXCEPT ![b] = amount],
           status'[b] = "PENDING_PAYMENT" => amount = 0
    PROVE  AllMove
<1> USE BookingsAssumption DEF CustodyInv, TypeOK, NoBooking, FreshRow
<1>1. chargeOn[b] = NoBooking /\ \A c \in Bookings : chargeOn[c] # b
  BY DEF ChargeFollowsBooking, ChargesOf
<1>2. /\ chargeOn'[b] = b
      /\ status'[b] \in {"PENDING_PAYMENT", "BOOKED"}
      /\ \A d \in Bookings \ {b} : /\ chargeOn'[d] = chargeOn[d]
                                   /\ paid'[d] = paid[d]
                                   /\ Same(d)
  BY DEF Same
<1>3. Moves(b)
  <2>1. StandingOf[b] = "none"
    BY <1>1 DEF StandingOf
  <2>2. StandingOf'[b] = IF status'[b] = "BOOKED" THEN "held" ELSE "awaited"
    BY <1>2, StandingTable DEF StandingOf, Standing
  <2> QED
    BY <1>2, <2>1, <2>2
       DEF Moves, Promise!Step, Promise!Move, Promise!Ask, Promise!PayAtDesk
<1>4. ASSUME NEW c \in Bookings, c # b
      PROVE  Moves(c)
  BY <1>1, <1>2, <1>4 DEF Moves, Promise!Stay, Promise!Keep, StandingOf, Standing, Same
<1> QED
  BY <1>3, <1>4 DEF AllMove

(* A credit buys the new row: its charge comes over. *)
LEMMA RebookingMoves ==
    ASSUME CustodyInv, TypeOK', NEW r \in Handlers, NEW b \in Bookings, InsertRebooking(r, b)
    PROVE  AllMove
<1> USE BookingsAssumption DEF CustodyInv, TypeOK, NoBooking
<1>1. PICK old \in Bookings : old = request[r].credit
  BY RequestFields DEF InsertRebooking, Creating
<1>2. /\ status[b] = "NONE"
      /\ \A c \in Bookings : chargeOn[c] # b
  BY DEF InsertRebooking, Creating, NextRow, ChargeFollowsBooking, ChargesOf
<1>3. /\ status[old] = "CANCELLED"
      /\ payment[old] = "DEPOSIT_AVAILABLE_FOR_REBOOKING"
      /\ cancelledBy[old] # "STUDENT"
  <2>1. status[old] = "CANCELLED" /\ payment[old] \in Credit
    BY <1>1 DEF InsertRebooking, Creating, ReadsStillHold, CreditStillHolds, Credit
  <2>2. payment[old] # "DEPOSIT_USED_IN_REBOOKING"
    BY <1>1 DEF InsertRebooking, UniqueReplaced, CreditSpentOnce
  <2> QED
    BY <2>1, <2>2 DEF Credit, CancellationDecidesDeposit
<1>4. /\ status' = [status EXCEPT ![b] = "BOOKED"]
      /\ \A d \in Bookings \ {b, old} : Same(d)
      /\ chargeOn' = [c \in Bookings |-> IF chargeOn[c] = old THEN b ELSE chargeOn[c]]
      /\ UNCHANGED paid
  BY <1>1 DEF InsertRebooking, RepointCharge, Same
<1>5. ASSUME NEW c \in Bookings, chargeOn[c] = old
      PROVE  Moves(c)
  <2>1. StandingOf[c] = "credit"
    BY <1>3, <1>5 DEF StandingOf, Standing
  <2>2. StandingOf'[c] = "held"
    BY <1>4, <1>5, StandingTable DEF StandingOf, Standing
  <2> QED
    BY <1>4, <2>1, <2>2 DEF Moves, Promise!Step, Promise!Move, Promise!Reuse, Promise!Keep
<1>6. ASSUME NEW c \in Bookings, chargeOn[c] # old
      PROVE  Moves(c)
  <2>1. CASE chargeOn[c] = NoBooking
    BY <1>4, <2>1 DEF Moves, Promise!Stay, Promise!Keep, StandingOf
  <2>2. CASE chargeOn[c] # NoBooking
    <3>1. PICK d \in Bookings \ {b, old} : d = chargeOn[c]
      BY <1>2, <1>6, <2>2
    <3>2. chargeOn'[c] = d
      BY <1>4, <1>6, <3>1
    <3> QED
      BY <1>4, <3>1, <3>2, RowStepMoves DEF RowStep, NoPayment
  <2> QED
    BY <2>1, <2>2
<1> QED
  BY <1>5, <1>6 DEF AllMove

LEMMA CreateMoves ==
    ASSUME CustodyInv, TypeOK', NEW r \in Handlers, Create(r)
    PROVE  AllMove
<1>1. ASSUME NEW b \in Bookings, NEW p \in Prices, InsertHold(r, b, p)
      PROVE  AllMove
  <2>1. FreshRow(b) /\ paid' = [paid EXCEPT ![b] = 0]
    BY <1>1 DEF InsertHold, InsertCharge, Creating, NextRow, FreshRow
  <2> QED
    BY <2>1, InsertMoves
<1>2. ASSUME NEW b \in Bookings, NEW p \in Prices, NEW a \in CashAmounts,
             InsertCash(r, b, p, a)
      PROVE  AllMove
  <2>1. FreshRow(b) /\ paid' = [paid EXCEPT ![b] = a]
    BY <1>2 DEF InsertCash, InsertCharge, Creating, NextRow, FreshRow
  <2>2. status'[b] = "BOOKED" /\ a \in Nat
    BY <1>2, MoneyAssumption DEF InsertCash, CustodyInv, TypeOK
  <2> QED
    BY <2>1, <2>2, InsertMoves
<1> QED
  BY <1>1, <1>2, RebookingMoves, NothingMoves DEF Create, CreateRead, rowVars, chargeVars

-----------------------------------------------------------------------------
DepositInv == CustodyInv /\ VehicleReads

LEMMA EveryStepMoves ==
    ASSUME DepositInv, TypeOK', Next
    PROVE  AllMove
<1> USE DEF DepositInv, rowVars, chargeVars
<1>1. ASSUME NEW r \in Handlers, Pay(r) \/ Withdraw(r) \/ Override(r) \/ Abandon(r)
      PROVE  AllMove
  BY <1>1, ConfirmMoves, LeaveMoves, VehicleMoves, NoShowMoves, NothingMoves
     DEF Pay, ConfirmVerify, Withdraw, LeaveRead, VehicleRead, Override, NoShowRead, Abandon
<1>2. ASSUME NEW b \in Bookings, Clock(b)
      PROVE  AllMove
  BY <1>2, NothingMoves DEF Clock, HoldTimesOut, LessonEnds
<1>3. ASSUME NEW i \in Instructors, PayDues(i)
      PROVE  AllMove
  BY <1>3, NothingMoves DEF PayDues
<1> QED
  BY <1>1, <1>2, <1>3, CreateMoves, DeskMoves, CronMoves, ExpiryMoves DEF Next

LEMMA StandingType ==
    ASSUME TypeOK
    PROVE  StandingOf \in [Bookings -> Promise!Standings]
<1> SUFFICES ASSUME NEW c \in Bookings, chargeOn[c] # NoBooking
             PROVE  Standing(chargeOn[c]) \in Promise!Standings
  BY DEF StandingOf, Promise!Standings
<1>1. PICK b \in Bookings : b = chargeOn[c]
  BY DEF TypeOK
<1>2. status[b] \in BookingStatuses
  BY DEF TypeOK
<1> QED
  BY <1>1, <1>2, StandingTable DEF Standing, BookingStatuses, Promise!Standings

LEMMA DepositInit == Init => Promise!Init
BY DEF Init, Promise!Init, StandingOf

LEMMA DepositStep == DepositInv /\ TypeOK' /\ [Next]_vars => [Promise!Next]_(Promise!vars)
<1>1. ASSUME DepositInv, TypeOK', Next
      PROVE  Promise!Next
  <2>1. StandingOf' \in [Bookings -> Promise!Standings]
    <3>1. \A c \in Bookings : StandingOf'[c] \in Promise!Standings
      BY <1>1, EveryStepMoves, StandingType
         DEF DepositInv, CustodyInv, AllMove, Moves, Promise!Stay, Promise!Step,
             Promise!Move, Promise!Ask, Promise!PayAtDesk, Promise!PayHold, Promise!PayRest,
             Promise!RunOut, Promise!Settle, Promise!StudentCancels, Promise!SchoolCancels,
             Promise!Reuse, Promise!Standings
    <3> QED
      BY <3>1 DEF StandingOf
  <2>2. paid' \in [Bookings -> Nat]
    BY <1>1 DEF TypeOK
  <2> QED
    BY <1>1, <2>1, <2>2, EveryStepMoves DEF Promise!Next, AllMove, Moves
<1>2. ASSUME UNCHANGED vars
      PROVE  UNCHANGED Promise!vars
  BY <1>2 DEF vars, rowVars, chargeVars, Promise!vars, StandingOf, Standing
<1> QED
  BY <1>1, <1>2

(* The tables, the handlers and the crons keep the school's promise about   *)
(* every deposit, however many of them run at once.                         *)
THEOREM DepositsAlwaysKept == Spec => DepositsAreKept
<1>1. Init => DepositInv
  BY CustodyInit, VehicleReadsInit DEF DepositInv
<1>2. DepositInv /\ [Next]_vars => DepositInv' /\ TypeOK'
  BY CustodyStep, VehicleReadsStep DEF DepositInv, CustodyInv
<1>3. DepositInv /\ [Next]_vars => [Promise!Next]_(Promise!vars)
  BY <1>2, DepositStep
<1> QED
  BY <1>1, <1>2, <1>3, DepositInit, PTL DEF Spec, Promise!Spec, DepositsAreKept
=============================================================================
