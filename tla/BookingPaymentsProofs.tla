----------------------- MODULE BookingPaymentsProofs -----------------------
(* Theorems about BookingPayments, for every value of its constants. *)
EXTENDS BookingPayments, TLAPS

(* The fields of a request, by its op. *)
LEMMA RequestFields ==
    ASSUME NEW q \in Requests
    PROVE  /\ q.op \in {"hold", "cash"} =>
                q.student \in Students /\ q.credit \in Bookings \cup {NoBooking}
           /\ q.op = "confirm" => q.booking \in Bookings /\ q.txn \in Txns
           /\ q.op = "noshow" => q.booking \in Bookings
           /\ q.op = "leave" => q.bookings \in SUBSET Bookings
           /\ q.op = "vehicle" =>
                q.seen \in [Bookings -> PaymentStatuses \cup {"UNREAD"}]
BY DEF Requests, Idle, CreateRequest, ConfirmRequest, NoShowRequest,
       LeaveRequest, VehicleRequest

LEMMA CalcType == \A d, p : CalcChargeStatus(d, p) \in ChargeStatuses
BY DEF CalcChargeStatus, ChargeStatuses

-----------------------------------------------------------------------------
LEMMA TypeInit == Init => TypeOK
<1> USE DEF NoBooking
<1>1. NoBatch \in [Bookings -> PaymentStatuses \cup {"UNREAD"}]
  BY DEF NoBatch
<1>2. Idle \in Requests
  BY DEF Requests
<1> QED
  BY <1>1, <1>2 DEF Init, TypeOK, BookingStatuses, PaymentStatuses, Parties,
                    ChargeStatuses, ExpenseStatuses

LEMMA TypeStep == TypeOK /\ [Next]_vars => TypeOK'
<1> SUFFICES ASSUME TypeOK, [Next]_vars PROVE TypeOK'
  OBVIOUS
<1> USE DEF TypeOK, rowVars, chargeVars
<1>0. Idle \in Requests
  BY DEF Requests
<1>1. ASSUME NEW r \in Handlers, NEW op \in {"hold", "cash"}, NEW s \in Students,
             NEW c \in Bookings \cup {NoBooking}, CreateRead(r, op, s, c)
      PROVE  TypeOK'
  <2>1. [op |-> op, student |-> s, credit |-> c] \in Requests
    BY DEF Requests, CreateRequest
  <2> QED
    BY <1>1, <2>1 DEF CreateRead, Start
<1>2. ASSUME NEW r \in Handlers, NEW b \in Bookings, NEW p \in Prices, InsertHold(r, b, p)
      PROVE  TypeOK'
  BY <1>0, <1>2, CalcType, MoneyAssumption
     DEF InsertHold, InsertCharge, Finish, BookingStatuses, PaymentStatuses
<1>3. ASSUME NEW r \in Handlers, NEW b \in Bookings, NEW p \in Prices,
             NEW a \in CashAmounts, InsertCash(r, b, p, a)
      PROVE  TypeOK'
  BY <1>0, <1>3, CalcType, MoneyAssumption
     DEF InsertCash, InsertCharge, Finish, BookingStatuses, PaymentStatuses
<1>4. ASSUME NEW r \in Handlers, NEW b \in Bookings, InsertRebooking(r, b)
      PROVE  TypeOK'
  <2>1. request[r].credit \in Bookings \cup {NoBooking}
    BY <1>4, RequestFields DEF InsertRebooking, Creating
  <2> QED
    BY <1>0, <1>4, <2>1
       DEF InsertRebooking, RepointCharge, Finish, BookingStatuses, PaymentStatuses
<1>5. ASSUME NEW r \in Handlers, NEW b \in Bookings, NEW t \in Txns, ConfirmVerify(r, b, t)
      PROVE  TypeOK'
  <2>1. [op |-> "confirm", booking |-> b, txn |-> t] \in Requests
    BY DEF Requests, ConfirmRequest
  <2> QED
    BY <1>5, <2>1 DEF ConfirmVerify, Start
<1>6. ASSUME NEW r \in Handlers, ConfirmCommit(r)
      PROVE  TypeOK'
  <2>1. request[r].booking \in Bookings /\ request[r].txn \in Txns
    BY <1>6, RequestFields DEF ConfirmCommit
  <2>2. TxnAmount[request[r].txn] \in Nat
    BY <2>1, MoneyAssumption
  <2> QED
    BY <1>0, <1>6, <2>1, <2>2, CalcType
       DEF ConfirmCommit, RecordPayment, ChargesOf, Finish, BookingStatuses, PaymentStatuses
<1>7. ASSUME NEW b \in Bookings, PayRemainder(b)
      PROVE  TypeOK'
  BY <1>7 DEF PayRemainder, ChargesOf, PaymentStatuses, ChargeStatuses
<1>8. ASSUME NEW b \in Bookings, NEW party \in Parties, Cancel(b, party)
      PROVE  TypeOK'
  BY <1>8 DEF Cancel, DepositAfterCancel, BookingStatuses, PaymentStatuses
<1>9. ASSUME NEW r \in Handlers, NEW i \in Instructors, NEW B \in SUBSET Bookings,
             LeaveRead(r, i, B)
      PROVE  TypeOK'
  <2>1. [op |-> "leave", bookings |-> B] \in Requests
    BY DEF Requests, LeaveRequest
  <2> QED
    BY <1>9, <2>1 DEF LeaveRead, Start
<1>10. ASSUME NEW r \in Handlers, LeaveCommit(r)
       PROVE  TypeOK'
  BY <1>0, <1>10
     DEF LeaveCommit, Finish, DepositAfterCancel, Parties, BookingStatuses, PaymentStatuses
<1>11. ASSUME NEW r \in Handlers, NEW B \in SUBSET Bookings, VehicleRead(r, B)
       PROVE  TypeOK'
  <2>1. [op |-> "vehicle",
         seen |-> [b \in Bookings |-> IF b \in B THEN payment[b] ELSE "UNREAD"]] \in Requests
    BY DEF Requests, VehicleRequest
  <2> QED
    BY <1>11, <2>1 DEF VehicleRead, Start
<1>12. ASSUME NEW r \in Handlers, VehicleCommit(r)
       PROVE  TypeOK'
  <2>1. request[r].seen \in [Bookings -> PaymentStatuses \cup {"UNREAD"}]
    BY <1>12, RequestFields DEF VehicleCommit
  <2>2. \A b \in Bookings : request[r].seen[b] # "UNREAD" =>
            DepositAfterVehicle(request[r].seen[b]) \in PaymentStatuses
    BY <2>1 DEF DepositAfterVehicle, PaymentStatuses
  <2> QED
    BY <1>0, <1>12, <2>2 DEF VehicleCommit, Finish, Parties, BookingStatuses
<1>13. ASSUME NEW b \in Bookings, Clock(b)
       PROVE  TypeOK'
  BY <1>13 DEF Clock, HoldTimesOut, LessonEnds
<1>14. ASSUME ExpireStaleHolds
       PROVE  TypeOK'
  BY <1>14 DEF ExpireStaleHolds, BookingStatuses
<1>15. ASSUME NEW k \in Crons, CronRead(k)
       PROVE  TypeOK'
  BY <1>15 DEF CronRead
<1>16. ASSUME NEW k \in Crons, NEW b \in Bookings, CronProcess(k, b)
       PROVE  TypeOK'
  <2>1. ASSUME Processed(k, b)
        PROVE  batch' \in [Crons -> [Bookings -> PaymentStatuses \cup {"UNREAD"}]]
    <3>1. [batch[k] EXCEPT ![b] = "UNREAD"] \in [Bookings -> PaymentStatuses \cup {"UNREAD"}]
      OBVIOUS
    <3> QED
      BY <2>1, <3>1 DEF Processed
  <2>2. CASE CronComplete(k, b)
    BY <2>1, <2>2 DEF CronComplete, BookingStatuses, ExpenseStatuses
  <2>3. CASE CronNoShow(k, b)
    BY <2>1, <2>3 DEF CronNoShow, BookingStatuses, PaymentStatuses
  <2>4. CASE CronSkip(k, b)
    BY <2>1, <2>4 DEF CronSkip
  <2> QED
    BY <1>16, <2>2, <2>3, <2>4 DEF CronProcess
<1>17. ASSUME NEW k \in Crons, CronAbort(k)
       PROVE  TypeOK'
  BY <1>17 DEF CronAbort, NoBatch
<1>18. ASSUME NEW b \in Bookings, ManualComplete(b)
       PROVE  TypeOK'
  BY <1>18 DEF ManualComplete, RestoredPayment, BookingStatuses, PaymentStatuses,
               ExpenseStatuses
<1>19. ASSUME NEW r \in Handlers, NEW b \in Bookings, NoShowRead(r, b)
       PROVE  TypeOK'
  <2>1. [op |-> "noshow", booking |-> b] \in Requests
    BY DEF Requests, NoShowRequest
  <2> QED
    BY <1>19, <2>1 DEF NoShowRead, Start
<1>20. ASSUME NEW r \in Handlers, NoShowCommit(r)
       PROVE  TypeOK'
  BY <1>0, <1>20 DEF NoShowCommit, Finish, BookingStatuses, PaymentStatuses, ExpenseStatuses
<1>21. ASSUME NEW i \in Instructors, PayDues(i)
       PROVE  TypeOK'
  BY <1>21 DEF PayDues, ExpenseStatuses
<1>22. ASSUME NEW r \in Handlers, Abandon(r)
       PROVE  TypeOK'
  BY <1>0, <1>22 DEF Abandon, Finish
<1>23. CASE UNCHANGED vars
  BY <1>23 DEF vars
<1> QED
  BY <1>1, <1>2, <1>3, <1>4, <1>5, <1>6, <1>7, <1>8, <1>9, <1>10, <1>11, <1>12,
     <1>13, <1>14, <1>15, <1>16, <1>17, <1>18, <1>19, <1>20, <1>21, <1>22, <1>23
     DEF Next, Create, Pay, Withdraw, Override, Desk, Cron

(* Every variable keeps its type: what a handler or a cron run has read is  *)
(* always a row, a transaction or a status of the database.                 *)
THEOREM TypeCorrect == Spec => []TypeOK
BY TypeInit, TypeStep, PTL DEF Spec

-----------------------------------------------------------------------------
(* Where the money of a booking is.  The inductive invariant joins what is  *)
(* said of the rows with what the handlers have read, since a commit writes *)
(* on the strength of the read.                                             *)

CustodyInv == /\ TypeOK
              /\ ChargeFollowsBooking
              /\ CreditSpentOnce
              /\ CancellationDecidesDeposit
              /\ ReadsStillHold

Credit == {"DEPOSIT_AVAILABLE_FOR_REBOOKING", "DEPOSIT_USED_IN_REBOOKING"}

(* A step that creates no row: charges and rebookings stay where they are,  *)
(* a cancelled row keeps everything, and another row either is cancelled,   *)
(* with its record and without using its deposit, or has no credit.         *)
Quiet ==
    /\ UNCHANGED <<chargeOn, replaced>>
    /\ \A b \in Bookings :
          /\ status[b] = "NONE" <=> status'[b] = "NONE"
          /\ status[b] = "CANCELLED" =>
                /\ status'[b] = "CANCELLED"
                /\ payment'[b] = payment[b]
                /\ cancelledBy'[b] = cancelledBy[b]
          /\ status[b] # "CANCELLED" =>
                \/ /\ status'[b] = "CANCELLED"
                   /\ cancelledBy'[b] # "NONE"
                   /\ payment'[b] # "DEPOSIT_USED_IN_REBOOKING"
                   /\ cancelledBy'[b] = "STUDENT" => payment'[b] = "DEPOSIT_NON_REFUNDABLE"
                \/ /\ status'[b] # "CANCELLED"
                   /\ cancelledBy'[b] = cancelledBy[b]
                   /\ payment'[b] \notin Credit

(* A row that is locked before and after a step keeps its status. *)
LocksKept == \A b \in Bookings : Locked(b) /\ Locked(b)' => status'[b] = status[b]

(* No handler reads anything in the step: it waits or is finished. *)
NothingRead == \A r \in Handlers : request'[r] = request[r] \/ request'[r] = Idle

LEMMA QuietKeepsRows ==
    ASSUME CustodyInv, TypeOK', Quiet
    PROVE  ChargeFollowsBooking' /\ CreditSpentOnce' /\ CancellationDecidesDeposit'
<1> USE DEF CustodyInv, Credit
<1>1. CancellationDecidesDeposit'
  BY DEF Quiet, CancellationDecidesDeposit
<1>2. \A b \in Bookings : payment'[b] = "DEPOSIT_USED_IN_REBOOKING" <=>
                          payment[b] = "DEPOSIT_USED_IN_REBOOKING"
  BY DEF Quiet, CancellationDecidesDeposit
<1>3. ChargeFollowsBooking'
  BY <1>2 DEF Quiet, ChargeFollowsBooking, ChargesOf
<1>4. CreditSpentOnce'
  <2>1. \A b \in Bookings : replaced[b] \in Bookings \cup {NoBooking}
    BY DEF TypeOK
  <2> QED
    BY <1>2, <2>1 DEF Quiet, CreditSpentOnce
<1> QED
  BY <1>1, <1>3, <1>4

(* A cancelled row that is, or was, worth a credit remains one. *)
CreditsKept == \A b \in Bookings :
    status[b] = "CANCELLED" /\ payment[b] \in Credit =>
        status'[b] = "CANCELLED" /\ payment'[b] \in Credit

(* No row disappears. *)
RowsKept == \A b \in Bookings : status[b] # "NONE" => status'[b] # "NONE"

LEMMA NothingReadKeepsReads ==
    ASSUME CustodyInv, CreditsKept, RowsKept, LocksKept, NothingRead
    PROVE  ReadsStillHold'
<1> SUFFICES ASSUME NEW r \in Handlers
             PROVE  /\ CreditStillHolds(request[r])'
                    /\ LockStillHolds(r)'
                    /\ RowsStillExist(request[r])'
  BY DEF ReadsStillHold
<1>1. /\ request[r] \in Requests
      /\ CreditStillHolds(request[r])
      /\ LockStillHolds(r)
      /\ RowsStillExist(request[r])
  BY DEF CustodyInv, TypeOK, ReadsStillHold
<1>2. CASE request'[r] = Idle
  BY <1>2 DEF Idle, CreditStillHolds, LockStillHolds, RowsStillExist
<1>3. CASE request'[r] = request[r]
  <2>1. CreditStillHolds(request[r])'
    <3> SUFFICES ASSUME request[r].op \in {"hold", "cash"}, request[r].credit # NoBooking
                 PROVE  /\ Owner[request[r].credit] = request[r].student
                        /\ status'[request[r].credit] = "CANCELLED"
                        /\ payment'[request[r].credit] \in Credit
      BY <1>3 DEF CreditStillHolds, Credit
    <3>1. request[r].credit \in Bookings
      BY <1>1, RequestFields
    <3> QED
      BY <1>1, <3>1 DEF CreditStillHolds, CreditsKept, Credit
  <2>2. LockStillHolds(r)'
    <3> SUFFICES ASSUME request[r].op = "noshow"
                 PROVE  /\ status'[request[r].booking] \in {"BOOKED", "COMPLETED"}
                        /\ \A q \in Handlers : /\ request'[q].op = "noshow"
                                               /\ request'[q].booking = request[r].booking
                                               => q = r
      BY <1>3 DEF LockStillHolds
    <3>1. request[r].booking \in Bookings
      BY <1>1, RequestFields
    <3>2. \A b \in Bookings : b = request[r].booking => Locked(b) /\ Locked(b)'
      BY <1>3 DEF Locked
    <3>3. status'[request[r].booking] = status[request[r].booking]
      BY <3>1, <3>2 DEF LocksKept
    <3>4. \A q \in Handlers : request'[q].op = "noshow" => request'[q] = request[q]
      BY DEF NothingRead, Idle
    <3> QED
      BY <1>1, <3>3, <3>4 DEF LockStillHolds
  <2>3. RowsStillExist(request[r])'
    <3>1. request[r].op = "leave" => request[r].bookings \in SUBSET Bookings
      BY <1>1, RequestFields
    <3> QED
      BY <1>1, <1>3, <3>1 DEF RowsStillExist, RowsKept
  <2> QED
    BY <2>1, <2>2, <2>3
<1> QED
  BY <1>2, <1>3 DEF NothingRead

(* A row b that did not exist is inserted; no other row changes. *)
FreshRow(b) ==
    /\ status[b] = "NONE"
    /\ \E st \in {"PENDING_PAYMENT", "BOOKED"} : status' = [status EXCEPT ![b] = st]
    /\ \E p \in {"PENDING_DEPOSIT", "DEPOSIT_PAID"} : payment' = [payment EXCEPT ![b] = p]
    /\ chargeOn' = [chargeOn EXCEPT ![b] = b]
    /\ UNCHANGED <<replaced, cancelledBy>>

LEMMA FreshRowKeepsRows ==
    ASSUME CustodyInv, NEW b \in Bookings, FreshRow(b)
    PROVE  ChargeFollowsBooking' /\ CreditSpentOnce' /\ CancellationDecidesDeposit'
<1> USE DEF FreshRow, CustodyInv
<1>1. /\ \A d \in Bookings \ {b} : /\ status'[d] = status[d]
                                   /\ payment'[d] = payment[d]
                                   /\ chargeOn'[d] = chargeOn[d]
      /\ status'[b] \in {"PENDING_PAYMENT", "BOOKED"}
      /\ payment'[b] \in {"PENDING_DEPOSIT", "DEPOSIT_PAID"}
      /\ chargeOn'[b] = b
  BY DEF TypeOK
<1>2. /\ chargeOn[b] = NoBooking
      /\ \A c \in Bookings : chargeOn[c] # b
      /\ payment[b] # "DEPOSIT_USED_IN_REBOOKING"
  BY DEF ChargeFollowsBooking, ChargesOf, CancellationDecidesDeposit
<1>3. CancellationDecidesDeposit'
  <2>1. cancelledBy[b] = "NONE"
    BY DEF CancellationDecidesDeposit, TypeOK
  <2> QED
    BY <1>1, <2>1 DEF CancellationDecidesDeposit
<1>4. ChargeFollowsBooking'
  <2> SUFFICES ASSUME NEW d \in Bookings
               PROVE  ChargeFollowsBooking!(d)'
    BY DEF ChargeFollowsBooking
  <2>1. CASE d = b
    <3>1. ChargesOf(b)' = {b}
      BY <1>1, <1>2 DEF ChargesOf
    <3> QED
      BY <1>1, <2>1, <3>1 DEF ChargeFollowsBooking
  <2>2. CASE d # b
    <3>1. ChargesOf(d)' = ChargesOf(d)
      BY <1>1, <1>2, <2>2, BookingsAssumption DEF ChargesOf, NoBooking
    <3> QED
      BY <1>1, <2>2, <3>1 DEF ChargeFollowsBooking
  <2> QED
    BY <2>1, <2>2
<1>5. CreditSpentOnce'
  <2>1. \A d \in Bookings : replaced[d] # NoBooking =>
            d # b /\ replaced[d] # b /\ replaced[d] \in Bookings
    BY DEF CreditSpentOnce, TypeOK
  <2> QED
    BY <1>1, <1>2, <2>1 DEF CreditSpentOnce
<1> QED
  BY <1>3, <1>4, <1>5

-----------------------------------------------------------------------------
(* The steps that create no row. *)

LEMMA RequestFinishes ==
    ASSUME TypeOK, NEW r \in Handlers, Finish(r)
    PROVE  NothingRead
BY DEF TypeOK, Finish, NothingRead

LEMMA QuietStep ==
    ASSUME CustodyInv, TypeOK', Quiet, LocksKept, NothingRead
    PROVE  CustodyInv'
<1>1. CreditsKept /\ RowsKept
  BY DEF CreditsKept, RowsKept, Quiet
<1> QED
  BY <1>1, QuietKeepsRows, NothingReadKeepsReads DEF CustodyInv

(* Rows that cannot be locked, and those a withdrawal saves. *)
LEMMA LockedRow ==
    ASSUME CustodyInv, NEW b \in Bookings, Locked(b)
    PROVE  status[b] \in {"BOOKED", "COMPLETED"}
BY DEF CustodyInv, ReadsStillHold, LockStillHolds, Locked

LEMMA UnchangedRows ==
    ASSUME CustodyInv, UNCHANGED <<status, payment, chargeOn, replaced, cancelledBy>>
    PROVE  Quiet /\ LocksKept
BY DEF CustodyInv, CancellationDecidesDeposit, Quiet, LocksKept, Credit

LEMMA ConfirmQuiet ==
    ASSUME CustodyInv, NEW r \in Handlers, ConfirmCommit(r)
    PROVE  Quiet /\ LocksKept /\ NothingRead
<1>1. NothingRead
  BY RequestFinishes DEF ConfirmCommit, CustodyInv
<1> DEFINE b == request[r].booking
<1>2. /\ status[b] = "PENDING_PAYMENT"
      /\ status' = [status EXCEPT ![b] = "BOOKED"]
      /\ payment' = [payment EXCEPT ![b] = "DEPOSIT_PAID"]
      /\ UNCHANGED <<chargeOn, replaced, cancelledBy>>
  BY DEF ConfirmCommit, StillOnHold, LiveHold
<1>3. Quiet
  BY <1>2 DEF Quiet, CustodyInv, TypeOK, CancellationDecidesDeposit, Credit
<1>4. LocksKept
  BY <1>2, LockedRow DEF LocksKept, CustodyInv, TypeOK
<1> QED
  BY <1>1, <1>3, <1>4

LEMMA DeskQuiet ==
    ASSUME CustodyInv, NEW b \in Bookings, Desk(b)
    PROVE  Quiet /\ LocksKept /\ NothingRead
<1> USE DEF CustodyInv, TypeOK, CancellationDecidesDeposit, Credit
<1>1. CASE PayRemainder(b)
  BY <1>1 DEF PayRemainder, Quiet, LocksKept, NothingRead
<1>2. ASSUME NEW party \in Parties, Cancel(b, party)
      PROVE  Quiet /\ LocksKept /\ NothingRead
  BY <1>2 DEF Cancel, chargeVars, DepositAfterCancel, Parties, Quiet, LocksKept, NothingRead
<1>3. CASE ManualComplete(b)
  BY <1>3 DEF ManualComplete, chargeVars, RestoredPayment, Quiet, LocksKept, NothingRead
<1> QED
  BY <1>1, <1>2, <1>3 DEF Desk

LEMMA LeaveQuiet ==
    ASSUME CustodyInv, NEW r \in Handlers, LeaveCommit(r)
    PROVE  Quiet /\ LocksKept /\ NothingRead
<1>1. NothingRead
  BY RequestFinishes DEF LeaveCommit, CustodyInv
<1> DEFINE B == request[r].bookings
<1>2. \A b \in B : status[b] # "NONE"
  BY DEF CustodyInv, ReadsStillHold, RowsStillExist, LeaveCommit
<1>3. \A b \in Bookings : b \in B => cancelledBy[b] = "NONE" /\ ~Locked(b)
  BY DEF LeaveCommit, UniqueCancellation
<1>4. Quiet
  BY <1>2, <1>3 DEF LeaveCommit, chargeVars, Quiet, CustodyInv, CancellationDecidesDeposit,
                    DepositAfterCancel, Credit
<1>5. LocksKept
  BY <1>3 DEF LeaveCommit, LocksKept
<1> QED
  BY <1>1, <1>4, <1>5

LEMMA VehicleQuiet ==
    ASSUME CustodyInv, NEW r \in Handlers, VehicleCommit(r)
    PROVE  Quiet /\ LocksKept /\ NothingRead
<1>1. NothingRead
  BY RequestFinishes DEF VehicleCommit, CustodyInv
<1> DEFINE B == {b \in Bookings : request[r].seen[b] # "UNREAD"}
<1>2. \A b \in B : /\ status[b] # "NONE"
                   /\ DepositAfterVehicle(request[r].seen[b]) # "DEPOSIT_USED_IN_REBOOKING"
  BY DEF CustodyInv, ReadsStillHold, RowsStillExist, VehicleCommit, DepositAfterVehicle
<1>3. \A b \in B : cancelledBy[b] = "NONE" /\ ~Locked(b)
  BY DEF VehicleCommit, UniqueCancellation
<1>4. Quiet
  BY <1>2, <1>3 DEF VehicleCommit, chargeVars, Quiet, CustodyInv, CancellationDecidesDeposit, Credit
<1>5. LocksKept
  BY <1>3 DEF VehicleCommit, LocksKept
<1> QED
  BY <1>1, <1>4, <1>5

LEMMA NoShowQuiet ==
    ASSUME CustodyInv, NEW r \in Handlers, NoShowCommit(r)
    PROVE  Quiet /\ LocksKept /\ NothingRead
<1>1. NothingRead
  BY RequestFinishes DEF NoShowCommit, CustodyInv
<1> DEFINE b == request[r].booking
<1>2. LockStillHolds(r) /\ request[r].op = "noshow"
  BY DEF CustodyInv, ReadsStillHold, NoShowCommit
<1>3. Quiet
  BY <1>2 DEF NoShowCommit, chargeVars, LockStillHolds, Quiet, CustodyInv, TypeOK,
              CancellationDecidesDeposit, Credit
<1>4. \A d \in Bookings : d = b => ~Locked(d)'
  <2> SUFFICES ASSUME NEW d \in Bookings, d = b, NEW q \in Handlers,
                      request'[q].op = "noshow", request'[q].booking = d
               PROVE  FALSE
    BY DEF Locked
  <2>1. request'[r] = Idle
    BY DEF NoShowCommit, Finish, CustodyInv, TypeOK
  <2>2. q # r
    BY <2>1 DEF Idle
  <2>3. request'[q] = request[q]
    BY <2>2 DEF NoShowCommit, Finish, CustodyInv, TypeOK
  <2> QED
    BY <1>2, <2>2, <2>3 DEF LockStillHolds
<1>5. LocksKept
  BY <1>4 DEF NoShowCommit, LocksKept, CustodyInv, TypeOK
<1> QED
  BY <1>1, <1>3, <1>5

LEMMA CronQuiet ==
    ASSUME CustodyInv, NEW k \in Crons, Cron(k)
    PROVE  Quiet /\ LocksKept /\ NothingRead
<1> USE DEF CustodyInv, TypeOK, CancellationDecidesDeposit, Credit
<1>1. CASE CronRead(k)
  BY <1>1, UnchangedRows DEF CronRead, rowVars, chargeVars, NothingRead
<1>2. ASSUME NEW b \in Bookings, CronComplete(k, b)
      PROVE  Quiet /\ LocksKept /\ NothingRead
  BY <1>2 DEF CronComplete, CronSettles, chargeVars, Quiet, LocksKept, NothingRead
<1>3. ASSUME NEW b \in Bookings, CronNoShow(k, b)
      PROVE  Quiet /\ LocksKept /\ NothingRead
  BY <1>3 DEF CronNoShow, CronSettles, chargeVars, Quiet, LocksKept, NothingRead
<1>4. ASSUME NEW b \in Bookings, CronSkip(k, b)
      PROVE  Quiet /\ LocksKept /\ NothingRead
  BY <1>4, UnchangedRows DEF CronSkip, rowVars, chargeVars, NothingRead
<1>5. CASE CronAbort(k)
  BY <1>5, UnchangedRows DEF CronAbort, rowVars, chargeVars, NothingRead
<1> QED
  BY <1>1, <1>2, <1>3, <1>4, <1>5 DEF Cron, CronProcess

LEMMA ClockQuiet ==
    ASSUME CustodyInv, \/ \E b \in Bookings : Clock(b)
                       \/ ExpireStaleHolds
                       \/ \E i \in Instructors : PayDues(i)
                       \/ \E r \in Handlers : Abandon(r)
    PROVE  Quiet /\ LocksKept /\ NothingRead
<1>1. CASE \E b \in Bookings : Clock(b)
  BY <1>1, UnchangedRows DEF Clock, HoldTimesOut, LessonEnds, chargeVars, NothingRead
<1>2. CASE ExpireStaleHolds
  <2>1. LocksKept
    BY <1>2, LockedRow DEF ExpireStaleHolds, Stale, LocksKept
  <2>2. Quiet
    BY <1>2 DEF ExpireStaleHolds, Stale, chargeVars, Quiet, CustodyInv,
                CancellationDecidesDeposit, Credit
  <2> QED
    BY <1>2, <2>1, <2>2 DEF ExpireStaleHolds, NothingRead
<1>3. CASE \E i \in Instructors : PayDues(i)
  BY <1>3, UnchangedRows DEF PayDues, rowVars, chargeVars, NothingRead
<1>4. CASE \E r \in Handlers : Abandon(r)
  BY <1>4, UnchangedRows, RequestFinishes DEF Abandon, rowVars, chargeVars, CustodyInv
<1> QED
  BY <1>1, <1>2, <1>3, <1>4

-----------------------------------------------------------------------------
(* The steps of a handler that only reads. *)

LEMMA ReadStep ==
    ASSUME CustodyInv, NEW r \in Handlers, NEW req \in Requests,
           Start(r, req), UNCHANGED <<rowVars, chargeVars, cancelledBy>>,
           CreditStillHolds(req), RowsStillExist(req),
           req.op = "noshow" => /\ status[req.booking] \in {"BOOKED", "COMPLETED"}
                                /\ ~Locked(req.booking)
    PROVE  /\ ChargeFollowsBooking' /\ CreditSpentOnce' /\ CancellationDecidesDeposit'
           /\ ReadsStillHold'
<1> USE DEF rowVars, chargeVars
<1>1. ChargeFollowsBooking' /\ CreditSpentOnce' /\ CancellationDecidesDeposit'
  BY DEF CustodyInv, ChargeFollowsBooking, ChargesOf, CreditSpentOnce,
         CancellationDecidesDeposit
<1>2. request'[r] = req /\ \A q \in Handlers \ {r} : request'[q] = request[q]
  BY DEF CustodyInv, TypeOK, Start
<1>3. ASSUME NEW q \in Handlers
      PROVE  CreditStillHolds(request[q])' /\ RowsStillExist(request[q])'
  <2>1. CreditStillHolds(request[q]) /\ RowsStillExist(request[q])
    BY DEF CustodyInv, ReadsStillHold
  <2>2. CASE q = r
    BY <1>2, <2>2 DEF CreditStillHolds, RowsStillExist
  <2>3. CASE q # r
    BY <1>2, <2>1, <2>3 DEF CreditStillHolds, RowsStillExist
  <2> QED
    BY <2>2, <2>3
<1>4. ASSUME NEW q \in Handlers
      PROVE  LockStillHolds(q)'
  <2> SUFFICES ASSUME request'[q].op = "noshow"
               PROVE  /\ status[request'[q].booking] \in {"BOOKED", "COMPLETED"}
                      /\ \A p \in Handlers : /\ request'[p].op = "noshow"
                                             /\ request'[p].booking = request'[q].booking
                                             => p = q
    BY DEF LockStillHolds
  <2>1. \A p \in Handlers : LockStillHolds(p)
    BY DEF CustodyInv, ReadsStillHold
  <2>2. CASE q = r
    BY <1>2, <2>2 DEF Locked
  <2>3. CASE q # r
    BY <1>2, <2>1, <2>3 DEF LockStillHolds, Locked
  <2> QED
    BY <2>2, <2>3
<1> QED
  BY <1>1, <1>3, <1>4 DEF ReadsStillHold

LEMMA HandlerReads ==
    ASSUME CustodyInv, NEW r \in Handlers,
           \/ \E op \in {"hold", "cash"}, s \in Students, c \in Bookings \cup {NoBooking} :
                 CreateRead(r, op, s, c)
           \/ \E b \in Bookings, t \in Txns : ConfirmVerify(r, b, t)
           \/ \E i \in Instructors, B \in SUBSET Bookings : LeaveRead(r, i, B)
           \/ \E B \in SUBSET Bookings : VehicleRead(r, B)
           \/ \E b \in Bookings : NoShowRead(r, b)
    PROVE  /\ ChargeFollowsBooking' /\ CreditSpentOnce' /\ CancellationDecidesDeposit'
           /\ ReadsStillHold'
<1> DEFINE Kept == /\ ChargeFollowsBooking' /\ CreditSpentOnce'
                   /\ CancellationDecidesDeposit' /\ ReadsStillHold'
<1>1. ASSUME NEW op \in {"hold", "cash"}, NEW s \in Students,
             NEW c \in Bookings \cup {NoBooking}, CreateRead(r, op, s, c)
      PROVE  Kept
  <2> DEFINE req == [op |-> op, student |-> s, credit |-> c]
  <2>1. req \in Requests
    BY DEF Requests, CreateRequest
  <2>2. CreditStillHolds(req)
    BY <1>1 DEF CreateRead, CreditRead, Credits, CreditStillHolds
  <2>3. RowsStillExist(req) /\ req.op # "noshow"
    BY DEF RowsStillExist
  <2>4. Start(r, req) /\ UNCHANGED <<rowVars, chargeVars, cancelledBy>>
    BY <1>1 DEF CreateRead
  <2> HIDE DEF req
  <2> QED
    BY <2>1, <2>2, <2>3, <2>4, ReadStep
<1>2. ASSUME NEW b \in Bookings, NEW t \in Txns, ConfirmVerify(r, b, t)
      PROVE  Kept
  <2> DEFINE req == [op |-> "confirm", booking |-> b, txn |-> t]
  <2>1. req \in Requests
    BY DEF Requests, ConfirmRequest
  <2>2. CreditStillHolds(req) /\ RowsStillExist(req) /\ req.op # "noshow"
    BY DEF CreditStillHolds, RowsStillExist
  <2>3. Start(r, req) /\ UNCHANGED <<rowVars, chargeVars, cancelledBy>>
    BY <1>2 DEF ConfirmVerify
  <2> HIDE DEF req
  <2> QED
    BY <2>1, <2>2, <2>3, ReadStep
<1>3. ASSUME NEW i \in Instructors, NEW B \in SUBSET Bookings, LeaveRead(r, i, B)
      PROVE  Kept
  <2> DEFINE req == [op |-> "leave", bookings |-> B]
  <2>1. req \in Requests
    BY DEF Requests, LeaveRequest
  <2>2. CreditStillHolds(req) /\ RowsStillExist(req) /\ req.op # "noshow"
    BY <1>3 DEF LeaveRead, Reserving, LiveHold, CreditStillHolds, RowsStillExist
  <2>3. Start(r, req) /\ UNCHANGED <<rowVars, chargeVars, cancelledBy>>
    BY <1>3 DEF LeaveRead
  <2> HIDE DEF req
  <2> QED
    BY <2>1, <2>2, <2>3, ReadStep
<1>4. ASSUME NEW B \in SUBSET Bookings, VehicleRead(r, B)
      PROVE  Kept
  <2>1. PICK req \in Requests :
            req = [op |-> "vehicle",
                   seen |-> [b \in Bookings |-> IF b \in B THEN payment[b] ELSE "UNREAD"]]
    BY DEF Requests, VehicleRequest, CustodyInv, TypeOK
  <2>2. CreditStillHolds(req) /\ req.op # "noshow"
    BY <2>1 DEF CreditStillHolds
  <2>3. RowsStillExist(req)
    BY <1>4, <2>1 DEF VehicleRead, RowsStillExist, CustodyInv, CancellationDecidesDeposit
  <2>4. Start(r, req) /\ UNCHANGED <<rowVars, chargeVars, cancelledBy>>
    BY <1>4, <2>1 DEF VehicleRead, Start
  <2> QED
    BY <2>2, <2>3, <2>4, ReadStep
<1>5. ASSUME NEW b \in Bookings, NoShowRead(r, b)
      PROVE  Kept
  <2> DEFINE req == [op |-> "noshow", booking |-> b]
  <2>1. req \in Requests
    BY DEF Requests, NoShowRequest
  <2>2. /\ CreditStillHolds(req) /\ RowsStillExist(req)
        /\ status[req.booking] \in {"BOOKED", "COMPLETED"} /\ ~Locked(req.booking)
    BY <1>5 DEF NoShowRead, CreditStillHolds, RowsStillExist
  <2>3. Start(r, req) /\ UNCHANGED <<rowVars, chargeVars, cancelledBy>>
    BY <1>5 DEF NoShowRead
  <2> HIDE DEF req
  <2> QED
    BY <2>1, <2>2, <2>3, ReadStep
<1> QED
  BY <1>1, <1>2, <1>3, <1>4, <1>5

-----------------------------------------------------------------------------
(* The steps that insert a row. *)

LEMMA InsertStep ==
    ASSUME CustodyInv, NEW b \in Bookings, FreshRow(b), NothingRead
    PROVE  /\ ChargeFollowsBooking' /\ CreditSpentOnce' /\ CancellationDecidesDeposit'
           /\ ReadsStillHold'
<1>1. \A d \in Bookings : status[d] # "NONE" => status'[d] = status[d]
  BY DEF FreshRow, CustodyInv, TypeOK
<1>2. \A d \in Bookings : status[d] # "NONE" => payment'[d] = payment[d]
  BY DEF FreshRow, CustodyInv, TypeOK
<1>3. CreditsKept /\ RowsKept
  BY <1>1, <1>2 DEF CreditsKept, RowsKept
<1>4. LocksKept
  BY <1>1, LockedRow DEF LocksKept
<1> QED
  BY <1>3, <1>4, FreshRowKeepsRows, NothingReadKeepsReads

LEMMA RebookingStep ==
    ASSUME CustodyInv, NEW r \in Handlers, NEW b \in Bookings, InsertRebooking(r, b)
    PROVE  /\ ChargeFollowsBooking' /\ CreditSpentOnce' /\ CancellationDecidesDeposit'
           /\ ReadsStillHold'
<1>1. PICK old : old = request[r].credit
  OBVIOUS
<1>2. old \in Bookings
  BY <1>1, RequestFields DEF InsertRebooking, Creating, CustodyInv, TypeOK
<1>3. /\ status[b] = "NONE"
      /\ \A a \in Bookings : replaced[a] # old
      /\ status' = [status EXCEPT ![b] = "BOOKED"]
      /\ payment' = [payment EXCEPT ![b] = "DEPOSIT_PAID",
                                    ![old] = "DEPOSIT_USED_IN_REBOOKING"]
      /\ replaced' = [replaced EXCEPT ![b] = old]
      /\ chargeOn' = [c \in Bookings |-> IF chargeOn[c] = old THEN b ELSE chargeOn[c]]
      /\ cancelledBy' = cancelledBy
  BY <1>1 DEF InsertRebooking, Creating, NextRow, UniqueReplaced, RepointCharge
<1>4. /\ Owner[old] = Owner[b]
      /\ status[old] = "CANCELLED"
      /\ payment[old] \in Credit
  BY <1>1 DEF InsertRebooking, Creating, NextRow, CustodyInv, ReadsStillHold,
              CreditStillHolds, Credit
<1>5. payment[old] = "DEPOSIT_AVAILABLE_FOR_REBOOKING"
  BY <1>2, <1>3, <1>4 DEF CustodyInv, CreditSpentOnce, Credit
<1>6. old # b
  BY <1>3, <1>4
<1>7. /\ status'[b] = "BOOKED" /\ payment'[b] = "DEPOSIT_PAID" /\ replaced'[b] = old
      /\ status'[old] = "CANCELLED" /\ payment'[old] = "DEPOSIT_USED_IN_REBOOKING"
      /\ \A d \in Bookings \ {b} : status'[d] = status[d] /\ replaced'[d] = replaced[d]
      /\ \A d \in Bookings \ {b, old} : payment'[d] = payment[d]
  BY <1>2, <1>3, <1>4, <1>6 DEF CustodyInv, TypeOK
<1>8. CancellationDecidesDeposit'
  <2>1. cancelledBy[b] = "NONE" /\ cancelledBy[old] # "NONE" /\ cancelledBy[old] # "STUDENT"
    BY <1>2, <1>3, <1>4, <1>5 DEF CustodyInv, CancellationDecidesDeposit
  <2>2. \A d \in Bookings : cancelledBy'[d] = cancelledBy[d]
    BY <1>3
  <2> SUFFICES ASSUME NEW d \in Bookings PROVE CancellationDecidesDeposit!(d)'
    BY DEF CancellationDecidesDeposit
  <2>3. CASE d = b
    BY <1>7, <2>1, <2>2, <2>3 DEF CancellationDecidesDeposit
  <2>4. CASE d = old
    BY <1>7, <2>1, <2>2, <2>4 DEF CancellationDecidesDeposit
  <2>5. CASE d \notin {b, old}
    BY <1>7, <2>2, <2>5 DEF CustodyInv, CancellationDecidesDeposit
  <2> QED
    BY <2>3, <2>4, <2>5
<1>9. CreditSpentOnce'
  <2>1. \A d \in Bookings : replaced[d] # NoBooking =>
            d # b /\ replaced[d] # b /\ replaced[d] \in Bookings
    BY <1>3 DEF CustodyInv, CreditSpentOnce, TypeOK
  <2>2. payment[b] # "DEPOSIT_USED_IN_REBOOKING"
    BY <1>3 DEF CustodyInv, CancellationDecidesDeposit
  <2>3. \A c \in Bookings : payment'[c] = "DEPOSIT_USED_IN_REBOOKING" =>
            \E a \in Bookings : replaced'[a] = c
    <3> SUFFICES ASSUME NEW c \in Bookings, payment'[c] = "DEPOSIT_USED_IN_REBOOKING"
                 PROVE  \E a \in Bookings : replaced'[a] = c
      OBVIOUS
    <3>1. CASE c = old
      BY <1>7, <3>1
    <3>2. CASE c # old
      <4>1. payment[c] = "DEPOSIT_USED_IN_REBOOKING"
        BY <1>7, <3>2
      <4>2. PICK a \in Bookings : replaced[a] = c
        BY <4>1 DEF CustodyInv, CreditSpentOnce
      <4>3. a # b
        BY <2>1, <4>2, BookingsAssumption
      <4> QED
        BY <1>7, <4>2, <4>3
    <3> QED
      BY <3>1, <3>2
  <2>4. \A a, d \in Bookings : replaced'[a] # NoBooking /\ replaced'[a] = replaced'[d] => a = d
    BY <1>3, <1>7 DEF CustodyInv, CreditSpentOnce
  <2>5. ASSUME NEW d \in Bookings, replaced'[d] # NoBooking
        PROVE  /\ status'[d] # "NONE"
               /\ Owner[replaced'[d]] = Owner[d]
               /\ status'[replaced'[d]] = "CANCELLED"
               /\ payment'[replaced'[d]] = "DEPOSIT_USED_IN_REBOOKING"
    <3>1. CASE d = b
      BY <1>4, <1>7, <3>1
    <3>2. CASE d # b
      <4>1. replaced'[d] = replaced[d]
        BY <1>7, <3>2
      <4>2. /\ status[d] # "NONE" /\ Owner[replaced[d]] = Owner[d]
            /\ status[replaced[d]] = "CANCELLED"
            /\ payment[replaced[d]] = "DEPOSIT_USED_IN_REBOOKING"
        BY <2>5, <4>1 DEF CustodyInv, CreditSpentOnce
      <4>3. replaced[d] \in Bookings \ {b, old}
        BY <1>3, <2>1, <2>5, <4>1
      <4> QED
        BY <1>7, <3>2, <4>1, <4>2, <4>3
    <3> QED
      BY <3>1, <3>2
  <2> QED
    BY <2>3, <2>4, <2>5 DEF CreditSpentOnce
<1>10. ChargeFollowsBooking'
  <2>1. /\ ChargesOf(b) = {}
        /\ chargeOn[b] = NoBooking
        /\ ChargesOf(old) # {}
        /\ \A c, d \in ChargesOf(old) : c = d
    BY <1>2, <1>3, <1>4, <1>5 DEF CustodyInv, ChargeFollowsBooking
  <2>2. ChargesOf(b)' = ChargesOf(old)
    BY <1>3, <2>1 DEF ChargesOf
  <2>3. ChargesOf(old)' = {}
    BY <1>3, <1>6 DEF ChargesOf
  <2>4. \A d \in Bookings \ {b, old} :
            {c \in Bookings : chargeOn'[c] = d} = ChargesOf(d)
    BY <1>3 DEF ChargesOf
  <2>5. \A d \in Bookings : status'[d] = "NONE" => chargeOn'[d] = NoBooking
    BY <1>2, <1>3, <1>7, BookingsAssumption DEF CustodyInv, ChargeFollowsBooking, NoBooking
  <2> SUFFICES ASSUME NEW d \in Bookings
               PROVE  /\ \A c, e \in ChargesOf(d)' : c = e
                      /\ ChargesOf(d)' # {} <=>
                           status'[d] # "NONE" /\ payment'[d] # "DEPOSIT_USED_IN_REBOOKING"
    BY <2>5 DEF ChargeFollowsBooking
  <2>6. CASE d = b
    BY <1>7, <2>1, <2>2, <2>6
  <2>7. CASE d = old
    BY <1>7, <2>3, <2>7
  <2>8. CASE d \notin {b, old}
    BY <1>7, <2>4, <2>8 DEF CustodyInv, ChargeFollowsBooking, ChargesOf
  <2> QED
    BY <2>6, <2>7, <2>8
<1>11. ReadsStillHold'
  <2>1. NothingRead
    BY RequestFinishes DEF InsertRebooking, CustodyInv
  <2>2. CreditsKept /\ RowsKept
    BY <1>2, <1>3, <1>4, <1>7 DEF CreditsKept, RowsKept, Credit
  <2>3. LocksKept
    BY <1>3, <1>7, LockedRow DEF LocksKept
  <2> QED
    BY <2>1, <2>2, <2>3, NothingReadKeepsReads
<1> QED
  BY <1>8, <1>9, <1>10, <1>11

-----------------------------------------------------------------------------
LEMMA CustodyInit == Init => CustodyInv
<1> SUFFICES ASSUME Init PROVE CustodyInv
  OBVIOUS
<1>1. ChargeFollowsBooking
  BY BookingsAssumption DEF Init, ChargeFollowsBooking, ChargesOf, NoBooking
<1>2. CreditSpentOnce /\ CancellationDecidesDeposit
  BY DEF Init, CreditSpentOnce, CancellationDecidesDeposit
<1>3. ReadsStillHold
  BY DEF Init, Idle, ReadsStillHold, CreditStillHolds, LockStillHolds, RowsStillExist
<1> QED
  BY <1>1, <1>2, <1>3, TypeInit DEF CustodyInv

LEMMA CustodyStep == CustodyInv /\ [Next]_vars => CustodyInv'
<1> SUFFICES ASSUME CustodyInv, [Next]_vars PROVE CustodyInv'
  OBVIOUS
<1>0. TypeOK'
  BY TypeStep DEF CustodyInv
<1>1. ASSUME NEW r \in Handlers, Create(r)
      PROVE  CustodyInv'
  <2>1. ASSUME NEW b \in Bookings, NEW p \in Prices, InsertHold(r, b, p)
        PROVE  CustodyInv'
    <3>1. FreshRow(b)
      BY <2>1 DEF InsertHold, InsertCharge, Creating, NextRow, FreshRow
    <3>2. NothingRead
      BY <2>1, RequestFinishes DEF InsertHold, CustodyInv
    <3> QED
      BY <1>0, <3>1, <3>2, InsertStep DEF CustodyInv
  <2>2. ASSUME NEW b \in Bookings, NEW p \in Prices, NEW a \in CashAmounts,
               InsertCash(r, b, p, a)
        PROVE  CustodyInv'
    <3>1. FreshRow(b)
      BY <2>2 DEF InsertCash, InsertCharge, Creating, NextRow, FreshRow
    <3>2. NothingRead
      BY <2>2, RequestFinishes DEF InsertCash, CustodyInv
    <3> QED
      BY <1>0, <3>1, <3>2, InsertStep DEF CustodyInv
  <2> QED
    BY <1>0, <1>1, <2>1, <2>2, RebookingStep, HandlerReads DEF Create, CustodyInv
<1>2. ASSUME NEW r \in Handlers, Pay(r)
      PROVE  CustodyInv'
  BY <1>0, <1>2, HandlerReads, ConfirmQuiet, QuietStep DEF Pay, CustodyInv
<1>3. ASSUME NEW r \in Handlers, Withdraw(r)
      PROVE  CustodyInv'
  BY <1>0, <1>3, HandlerReads, LeaveQuiet, VehicleQuiet, QuietStep DEF Withdraw, CustodyInv
<1>4. ASSUME NEW r \in Handlers, Override(r)
      PROVE  CustodyInv'
  BY <1>0, <1>4, HandlerReads, NoShowQuiet, QuietStep DEF Override, CustodyInv
<1>5. ASSUME NEW b \in Bookings, Desk(b)
      PROVE  CustodyInv'
  BY <1>0, <1>5, DeskQuiet, QuietStep
<1>6. ASSUME NEW k \in Crons, Cron(k)
      PROVE  CustodyInv'
  BY <1>0, <1>6, CronQuiet, QuietStep
<1>7. ASSUME \/ \E b \in Bookings : Clock(b)
             \/ ExpireStaleHolds
             \/ \E i \in Instructors : PayDues(i)
             \/ \E r \in Handlers : Abandon(r)
      PROVE  CustodyInv'
  BY <1>0, <1>7, ClockQuiet, QuietStep
<1>8. CASE UNCHANGED vars
  <2>1. NothingRead
    BY <1>8 DEF vars, NothingRead
  <2> QED
    BY <1>0, <1>8, <2>1, UnchangedRows, QuietStep DEF vars, rowVars, chargeVars
<1> QED
  BY <1>1, <1>2, <1>3, <1>4, <1>5, <1>6, <1>7, <1>8 DEF Next

LEMMA Custody == Spec => []CustodyInv
BY CustodyInit, CustodyStep, PTL DEF Spec

(* The money of a booking can always be found. *)
THEOREM ChargeAlwaysFollows == Spec => []ChargeFollowsBooking
BY Custody, PTL DEF CustodyInv

(* A reusable deposit buys one lesson, whatever the creations that race for *)
(* it have read.                                                            *)
THEOREM CreditNeverSpentTwice == Spec => []CreditSpentOnce
BY Custody, PTL DEF CustodyInv

(* Only a cancellation by somebody else than the student frees a deposit.   *)
THEOREM CancellationAlwaysDecides == Spec => []CancellationDecidesDeposit
BY Custody, PTL DEF CustodyInv

(* What a handler has read is still good enough when it writes. *)
THEOREM ReadsAlwaysHold == Spec => []ReadsStillHold
BY Custody, PTL DEF CustodyInv

-----------------------------------------------------------------------------
(* A released row is revived by no step: the steps that make a row BOOKED,  *)
(* COMPLETED or NO_SHOW find it held, booked or settled, under its lock or  *)
(* in the statement that writes it.                                         *)
Revives(b) == \/ status[b] = "CANCELLED" /\ status'[b] # "CANCELLED"
              \/ status[b] = "EXPIRED" /\ status'[b] \notin {"EXPIRED", "CANCELLED"}

LEMMA HandlerRevivesNothing ==
    ASSUME CustodyInv, NEW r \in Handlers, NEW d \in Bookings,
           Create(r) \/ Pay(r) \/ Withdraw(r) \/ Override(r) \/ Abandon(r)
    PROVE  ~Revives(d)
<1> USE DEF CustodyInv, TypeOK, rowVars
<1>1. CASE status' = status
  BY <1>1 DEF Revives
<1>2. ASSUME NEW b \in Bookings, status[b] = "NONE",
             \E st \in BookingStatuses : status' = [status EXCEPT ![b] = st]
      PROVE  ~Revives(d)
  BY <1>2 DEF Revives
<1>3. CASE Create(r)
  BY <1>1, <1>2, <1>3 DEF Create, CreateRead, InsertHold, InsertCash, InsertRebooking,
                          Creating, NextRow, BookingStatuses
<1>4. CASE Pay(r)
  BY <1>1, <1>4 DEF Pay, ConfirmVerify, ConfirmCommit, StillOnHold, LiveHold, Revives
<1>5. CASE Withdraw(r)
  <2>1. CASE LeaveCommit(r) \/ VehicleCommit(r)
    <3>1. status'[d] \in {"CANCELLED", status[d]}
      BY <2>1 DEF LeaveCommit, VehicleCommit
    <3> QED
      BY <3>1 DEF Revives
  <2> QED
    BY <1>1, <1>5, <2>1 DEF Withdraw, LeaveRead, VehicleRead
<1>6. CASE Override(r)
  <2>1. CASE NoShowCommit(r)
    <3>1. status[request[r].booking] \in {"BOOKED", "COMPLETED"}
      BY <2>1 DEF NoShowCommit, ReadsStillHold, LockStillHolds
    <3> QED
      BY <2>1, <3>1 DEF NoShowCommit, Revives
  <2> QED
    BY <1>1, <1>6, <2>1 DEF Override, NoShowRead
<1>7. CASE Abandon(r)
  BY <1>1, <1>7 DEF Abandon
<1> QED
  BY <1>3, <1>4, <1>5, <1>6, <1>7

LEMMA OthersReviveNothing ==
    ASSUME CustodyInv, NEW d \in Bookings,
           \/ \E b \in Bookings : Desk(b) \/ Clock(b)
           \/ \E k \in Crons : Cron(k)
           \/ \E i \in Instructors : PayDues(i)
           \/ ExpireStaleHolds
    PROVE  ~Revives(d)
<1> USE DEF CustodyInv, TypeOK, rowVars, Revives
<1>1. ASSUME NEW b \in Bookings, Desk(b) \/ Clock(b)
      PROVE  ~Revives(d)
  BY <1>1 DEF Desk, PayRemainder, Cancel, ManualComplete, Clock, HoldTimesOut, LessonEnds
<1>2. ASSUME NEW k \in Crons, Cron(k)
      PROVE  ~Revives(d)
  BY <1>2 DEF Cron, CronRead, CronProcess, CronComplete, CronNoShow, CronSkip, CronAbort,
              CronSettles
<1>3. ASSUME NEW i \in Instructors, PayDues(i)
      PROVE  ~Revives(d)
  BY <1>3 DEF PayDues
<1>4. CASE ExpireStaleHolds
  BY <1>4 DEF ExpireStaleHolds, Stale
<1> QED
  BY <1>1, <1>2, <1>3, <1>4

(* A cancelled row stays cancelled and an expired hold is at most cancelled *)
(* afterwards, whatever late confirmation, override or cron run comes.      *)
THEOREM ReleasedNeverRevives == Spec => ReleasedStaysReleased
<1> DEFINE Kept == \A b \in Bookings :
               /\ status[b] = "CANCELLED" => status'[b] = "CANCELLED"
               /\ status[b] = "EXPIRED" => status'[b] \in {"EXPIRED", "CANCELLED"}
<1>1. ASSUME CustodyInv, Next PROVE Kept
  BY <1>1, HandlerRevivesNothing, OthersReviveNothing DEF Next, Revives
<1>2. CustodyInv /\ [Next]_vars => [Kept]_vars
  BY <1>1
<1> HIDE DEF Kept
<1>3. Spec => [][Kept]_vars
  BY <1>2, Custody, PTL DEF Spec
<1> QED
  BY <1>3 DEF Kept, ReleasedStaysReleased

-----------------------------------------------------------------------------
(* A cancelled row keeps its record, and its payment status changes only    *)
(* when its deposit is used.                                                *)
Final(d) == cancelledBy[d] # "NONE" =>
                /\ cancelledBy'[d] = cancelledBy[d]
                /\ payment'[d] # payment[d] =>
                      /\ payment[d] = "DEPOSIT_AVAILABLE_FOR_REBOOKING"
                      /\ payment'[d] = "DEPOSIT_USED_IN_REBOOKING"

LEMMA QuietIsFinal ==
    ASSUME CustodyInv, NEW d \in Bookings, Quiet
    PROVE  Final(d)
BY DEF CustodyInv, CancellationDecidesDeposit, Quiet, Final

LEMMA CreateIsFinal ==
    ASSUME CustodyInv, NEW r \in Handlers, NEW d \in Bookings, Create(r)
    PROVE  Final(d)
<1>1. CASE UNCHANGED rowVars /\ UNCHANGED cancelledBy
  BY <1>1 DEF rowVars, Final
<1>2. ASSUME NEW b \in Bookings, status[b] = "NONE", UNCHANGED cancelledBy,
             \E p \in PaymentStatuses : payment' = [payment EXCEPT ![b] = p]
      PROVE  Final(d)
  BY <1>2 DEF CustodyInv, TypeOK, CancellationDecidesDeposit, Final
<1>3. ASSUME NEW b \in Bookings, InsertRebooking(r, b)
      PROVE  Final(d)
  <2>1. PICK old : old = request[r].credit
    OBVIOUS
  <2>2. old \in Bookings
    BY <1>3, <2>1, RequestFields DEF InsertRebooking, Creating, CustodyInv, TypeOK
  <2>3. /\ status[b] = "NONE"
        /\ \A a \in Bookings : replaced[a] # old
        /\ payment' = [payment EXCEPT ![b] = "DEPOSIT_PAID",
                                      ![old] = "DEPOSIT_USED_IN_REBOOKING"]
        /\ cancelledBy' = cancelledBy
    BY <1>3, <2>1 DEF InsertRebooking, Creating, NextRow, UniqueReplaced
  <2>4. payment[old] = "DEPOSIT_AVAILABLE_FOR_REBOOKING"
    <3>1. payment[old] \in Credit
      BY <1>3, <2>1 DEF InsertRebooking, Creating, CustodyInv, ReadsStillHold,
                        CreditStillHolds, Credit
    <3> QED
      BY <2>2, <2>3, <3>1 DEF CustodyInv, CreditSpentOnce, Credit
  <2>5. cancelledBy[b] = "NONE"
    BY <2>3 DEF CustodyInv, CancellationDecidesDeposit
  <2> QED
    BY <2>2, <2>3, <2>4, <2>5 DEF CustodyInv, TypeOK, Final
<1> QED
  BY <1>1, <1>2, <1>3 DEF Create, CreateRead, InsertHold, InsertCash, Creating, NextRow,
                          PaymentStatuses

(* A cancellation is recorded once and no later one undoes it. *)
THEOREM CancellationIsAlwaysFinal == Spec => CancellationIsFinal
<1> DEFINE Kept == \A b \in Bookings : cancelledBy[b] # "NONE" =>
               /\ cancelledBy'[b] = cancelledBy[b]
               /\ payment'[b] # payment[b] =>
                     /\ payment[b] = "DEPOSIT_AVAILABLE_FOR_REBOOKING"
                     /\ payment'[b] = "DEPOSIT_USED_IN_REBOOKING"
<1>1. ASSUME CustodyInv, NEW r \in Handlers, NEW d \in Bookings,
             Pay(r) \/ Withdraw(r) \/ Override(r)
      PROVE  Final(d)
  <2>1. CASE UNCHANGED rowVars /\ UNCHANGED cancelledBy
    BY <2>1 DEF rowVars, Final
  <2> QED
    BY <1>1, <2>1, ConfirmQuiet, LeaveQuiet, VehicleQuiet, NoShowQuiet, QuietIsFinal
       DEF Pay, Withdraw, Override, ConfirmVerify, LeaveRead, VehicleRead, NoShowRead
<1>2. ASSUME CustodyInv, NEW d \in Bookings,
             \/ \E b \in Bookings : Desk(b) \/ Clock(b)
             \/ \E k \in Crons : Cron(k)
             \/ \E i \in Instructors : PayDues(i)
             \/ ExpireStaleHolds
             \/ \E r \in Handlers : Abandon(r)
      PROVE  Final(d)
  BY <1>2, DeskQuiet, CronQuiet, ClockQuiet, QuietIsFinal
<1>3. ASSUME CustodyInv, Next PROVE Kept
  <2>1. \A d \in Bookings : Final(d)
    BY <1>1, <1>2, <1>3, CreateIsFinal DEF Next
  <2> QED
    BY <2>1 DEF Final
<1>4. CustodyInv /\ [Next]_vars => [Kept]_vars
  BY <1>3
<1> HIDE DEF Kept
<1>5. Spec => [][Kept]_vars
  BY <1>4, Custody, PTL DEF Spec
<1> QED
  BY <1>5 DEF Kept, CancellationIsFinal
=============================================================================
