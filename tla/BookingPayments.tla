-------------------------- MODULE BookingPayments --------------------------
(***************************************************************************)
(* The life of a lesson booking and of the money that follows it: every    *)
(* code path that writes a row of "booking", its LESSON charge, its        *)
(* payments, its cancellation or the instructor's dues for it              *)
(* (booking.service.ts, booking-expiry.service.ts, and the writers of      *)
(* bookings in instructor-profile.service.ts and vehicles.service.ts).     *)
(*                                                                         *)
(* The database is PostgreSQL at READ COMMITTED.  A transaction that locks *)
(* the booking row before it reads it, or that is a single statement, is   *)
(* one action.  A transaction that decides on rows it read without a lock  *)
(* is two: the read, which leaves what it saw in the handler's request,    *)
(* and the commit, which writes.  The UNIQUE indexes are guards of the     *)
(* commit.  Which instructor, slot and vehicle a booking takes is the      *)
(* subject of other modules: here any two creations may overlap, as they   *)
(* do when they are for different instructors.                             *)
(***************************************************************************)
EXTENDS Integers, FiniteSets

CONSTANTS
    Bookings,     \* ids of booking rows, in the order a student creates them
    Students, Owner,           \* Owner[b]: the student of row b
    Instructors, Teacher,      \* Teacher[b]: the instructor of row b
    Prices,       \* lesson prices, in the smallest currency unit
    DepositPct,   \* the setting deposit_percentage
    CashAmounts,  \* what a receptionist may collect
    Txns, TxnAmount,  \* ShamCash transactions paid to the school
    SchoolCar,    \* rows that take a vehicle of the school
    Ending,       \* rows whose lesson ends while we look (a bound)
    Unpriced,     \* rows whose instructor has no price in force at startAt
    Handlers,     \* request handlers whose two halves may interleave
    Crons         \* overlapping runs of the completion cron

NoBooking == 0

ASSUME BookingsAssumption == Bookings \subseteq Nat \ {NoBooking}
ASSUME RowsAssumption ==
    /\ Owner \in [Bookings -> Students]
    /\ Teacher \in [Bookings -> Instructors]
    /\ SchoolCar \subseteq Bookings
    /\ Ending \subseteq Bookings
    /\ Unpriced \subseteq Bookings
ASSUME MoneyAssumption ==
    /\ Prices \subseteq Nat
    /\ CashAmounts \subseteq Nat
    /\ DepositPct \in 0..100
    /\ TxnAmount \in [Txns -> Nat]

VARIABLES
    status,       \* booking.booking_status ("NONE": the row does not exist)
    payment,      \* booking.payment_status
    lapsed,       \* locked_until <= now (no booked row has a locked_until)
    ended,        \* end_at < local now - grace
    replaced,     \* booking.replaced_booking_id
    cancelledBy,  \* party of the booking_cancellations row, or "NONE"
    chargeOn,     \* student_charges.booking_id of the charge created with b
    due,          \* its amount_due
    paid,         \* the sum of its payments
    chargeStatus, \* its charge_status
    shamcash,     \* shamcash_transactions: <<transaction, charge>>
    expense,      \* status of the instructor's expense for b, or "NONE"
    request,      \* what each request handler has read so far
    batch         \* what each cron run has read and not yet processed

rowVars == <<status, payment, lapsed, ended, replaced>>
chargeVars == <<chargeOn, due, paid, chargeStatus, shamcash>>
vars == <<rowVars, chargeVars, cancelledBy, expense, request, batch>>

BookingStatuses == {"NONE", "PENDING_PAYMENT", "BOOKED", "COMPLETED",
                    "NO_SHOW", "CANCELLED", "EXPIRED"}
PaymentStatuses == {"NONE", "PENDING_DEPOSIT", "DEPOSIT_PAID", "FULLY_PAID",
                    "DEPOSIT_NON_REFUNDABLE",
                    "DEPOSIT_AVAILABLE_FOR_REBOOKING",
                    "DEPOSIT_USED_IN_REBOOKING"}
ChargeStatuses == {"UNPAID", "PARTIALLY_PAID", "PAID"}
ExpenseStatuses == {"NONE", "UNPAID", "PAID"}
(* OTHER stands for VEHICLE, INSTRUCTOR and SCHOOL, which no code tells apart. *)
Parties == {"STUDENT", "OTHER"}

Idle == [op |-> "idle"]
CreateRequest == [op: {"hold", "cash"}, student: Students,
                  credit: Bookings \cup {NoBooking}]
ConfirmRequest == [op: {"confirm"}, booking: Bookings, txn: Txns]
NoShowRequest == [op: {"noshow"}, booking: Bookings]
LeaveRequest == [op: {"leave"}, bookings: SUBSET Bookings]
VehicleRequest == [op: {"vehicle"},
                   seen: [Bookings -> PaymentStatuses \cup {"UNREAD"}]]
Requests == {Idle} \cup CreateRequest \cup ConfirmRequest
              \cup NoShowRequest \cup LeaveRequest \cup VehicleRequest

NoBatch == [b \in Bookings |-> "UNREAD"]

-----------------------------------------------------------------------------
(* Amounts. *)

(* Math.round(price * pct / 100 * 100) / 100, counted in cents. *)
Deposit(price) == (price * DepositPct + 50) \div 100

CalcChargeStatus(amountDue, totalPaid) ==
    IF totalPaid = 0 THEN "UNPAID"
    ELSE IF totalPaid >= amountDue THEN "PAID" ELSE "PARTIALLY_PAID"

(* What a cancellation makes of the deposit, whoever asks for it. *)
DepositAfterCancel(party) ==
    IF party = "STUDENT" THEN "DEPOSIT_NON_REFUNDABLE"
                         ELSE "DEPOSIT_AVAILABLE_FOR_REBOOKING"

(* A vehicle's withdrawal saves the entity it read: only a deposit becomes *)
(* reusable, any other payment status is written back as it was read.      *)
DepositAfterVehicle(seen) ==
    IF seen = "DEPOSIT_PAID" THEN "DEPOSIT_AVAILABLE_FOR_REBOOKING" ELSE seen

(* A manual COMPLETED gives a burnt deposit back. *)
RestoredPayment_Full(p) == IF p = "DEPOSIT_NON_REFUNDABLE" THEN "FULLY_PAID" ELSE p
RestoredPayment(p) == IF p = "DEPOSIT_NON_REFUNDABLE" THEN "DEPOSIT_PAID" ELSE p

(* Mutant: any amount will do. *)
CoversDeposit_Any(amount, price) == amount >= 0
CoversDeposit(amount, price) == amount >= Deposit(price)

-----------------------------------------------------------------------------
(* Reads. *)

ChargesOf(b) == {c \in Bookings : chargeOn[c] = b}

LiveHold(b) == status[b] = "PENDING_PAYMENT" /\ ~lapsed[b]

(* Rows that hold their slot: BOOKED, or PENDING_PAYMENT with a live hold. *)
Reserving(b) == status[b] = "BOOKED" \/ LiveHold(b)

NoActivePending(s) == \A b \in Bookings : Owner[b] = s => ~LiveHold(b)

Credits(s) == {b \in Bookings : /\ Owner[b] = s
                                /\ status[b] = "CANCELLED"
                                /\ payment[b] = "DEPOSIT_AVAILABLE_FOR_REBOOKING"}

(* The newest credit of s, or NoBooking: ORDER BY created_at DESC. *)
CreditRead(s, c) ==
    IF Credits(s) = {} THEN c = NoBooking
    ELSE c \in Credits(s) /\ \A d \in Credits(s) : d <= c

(* The creditAmount that checkStudentCredit shows with a credit. *)
CreditAmount(b) == IF ChargesOf(b) = {} THEN {0} ELSE {paid[c] : c \in ChargesOf(b)}

(* What verifyTransaction may find in the list of ShamCash: the transaction *)
(* with its amount, or, as long as it is not listed, nothing.               *)
NotListed == [verified |-> FALSE, amount |-> 0]
Verification(t) == {NotListed, [verified |-> TRUE, amount |-> TxnAmount[t]]}

(* Mutant: the lookup and UNIQUE(transaction_id) are gone. *)
TxnUnused_Unchecked(t) == t \in Txns
TxnUnused(t) == \A c \in Bookings : <<t, c>> \notin shamcash

(* UNIQUE(booking.replaced_booking_id); mutant: no such index. *)
UniqueReplaced_NoIndex(c) == c \in Bookings
UniqueReplaced(c) == \A b \in Bookings : replaced[b] # c

(* UNIQUE(booking_cancellations.booking_id); mutant: no such index. *)
UniqueCancellation_NoIndex(B) == B \subseteq Bookings
UniqueCancellation(B) == \A b \in B : cancelledBy[b] = "NONE"

(* What the screens say of the money still to pay for a lesson.  The detail *)
(* of a booking offers its collection; the list shows the amount, unless it *)
(* compares ids that the driver hands over as strings with numbers and      *)
(* finds none.                                                              *)
CanPayRemainder(b) ==
    /\ status[b] = "BOOKED"
    /\ payment[b] = "DEPOSIT_PAID"
    /\ \E c \in ChargesOf(b) : due[c] - paid[c] > 0

NoAmount == 0
ListedRemainder(b) ==
    {NoAmount} \cup {due[c] - paid[c] : c \in {d \in ChargesOf(b) : /\ status[b] = "BOOKED"
                                                                /\ payment[b] = "DEPOSIT_PAID"
                                                                /\ due[d] > paid[d]}}

(* The row lock a manual NO_SHOW holds between its read and its commit. *)
(* Mutant: the row is read without FOR UPDATE.                              *)
Locked_NoForUpdate(b) == b \notin Bookings
Locked(b) == \E r \in Handlers : request[r].op = "noshow" /\ request[r].booking = b

(* The next row of the student: ids are handed out in creation order. *)
NextRow(s, b) == /\ Owner[b] = s
                 /\ status[b] = "NONE"
                 /\ \A d \in Bookings : Owner[d] = s /\ d < b => status[d] # "NONE"

-----------------------------------------------------------------------------
Init ==
    /\ status = [b \in Bookings |-> "NONE"]
    /\ payment = [b \in Bookings |-> "NONE"]
    /\ lapsed = [b \in Bookings |-> FALSE]
    /\ ended = [b \in Bookings |-> FALSE]
    /\ replaced = [b \in Bookings |-> NoBooking]
    /\ cancelledBy = [b \in Bookings |-> "NONE"]
    /\ chargeOn = [c \in Bookings |-> NoBooking]
    /\ due = [c \in Bookings |-> 0]
    /\ paid = [c \in Bookings |-> 0]
    /\ chargeStatus = [c \in Bookings |-> "UNPAID"]
    /\ shamcash = {}
    /\ expense = [b \in Bookings |-> "NONE"]
    /\ request = [r \in Handlers |-> Idle]
    /\ batch = [k \in Crons |-> NoBatch]

Free(r) == request[r].op = "idle"
Start(r, req) == request' = [request EXCEPT ![r] = req]
Finish(r) == request' = [request EXCEPT ![r] = Idle]

-----------------------------------------------------------------------------
(* Creating a booking. *)

(* A creation passes its checks: no live hold of the student, and the       *)
(* newest reusable deposit read, without a lock on the student.             *)
CreateRead(r, op, s, c) ==
    /\ Free(r)
    /\ NoActivePending(s)
    /\ CreditRead(s, c)
    /\ Start(r, [op |-> op, student |-> s, credit |-> c])
    /\ UNCHANGED <<rowVars, chargeVars, cancelledBy, expense, batch>>

Creating(r, b) == /\ request[r].op \in {"hold", "cash"}
                  /\ NextRow(request[r].student, b)

(* The LESSON charge inserted with row b, and what was paid on it; mutant:  *)
(* the status is not recalculated after the payment.                        *)
InsertCharge_Unrecalculated(b, price, amount) ==
    /\ chargeOn' = [chargeOn EXCEPT ![b] = b]
    /\ due' = [due EXCEPT ![b] = price]
    /\ paid' = [paid EXCEPT ![b] = amount]
    /\ chargeStatus' = [chargeStatus EXCEPT ![b] = "UNPAID"]
InsertCharge(b, price, amount) ==
    /\ chargeOn' = [chargeOn EXCEPT ![b] = b]
    /\ due' = [due EXCEPT ![b] = price]
    /\ paid' = [paid EXCEPT ![b] = amount]
    /\ chargeStatus' = [chargeStatus EXCEPT ![b] = CalcChargeStatus(price, amount)]

(* createStudentBooking without credit: a hold that awaits its deposit. *)
InsertHold(r, b, price) ==
    /\ Creating(r, b)
    /\ request[r].op = "hold"
    /\ request[r].credit = NoBooking
    /\ status' = [status EXCEPT ![b] = "PENDING_PAYMENT"]
    /\ payment' = [payment EXCEPT ![b] = "PENDING_DEPOSIT"]
    /\ InsertCharge(b, price, 0)
    /\ Finish(r)
    /\ UNCHANGED <<lapsed, ended, replaced, shamcash, cancelledBy, expense, batch>>

(* createNormalCashBranch: booked at the desk against cash. *)
InsertCash(r, b, price, amount) ==
    /\ Creating(r, b)
    /\ request[r].op = "cash"
    /\ request[r].credit = NoBooking
    /\ CoversDeposit(amount, price)
    /\ status' = [status EXCEPT ![b] = "BOOKED"]
    /\ payment' = [payment EXCEPT ![b] = "DEPOSIT_PAID"]
    /\ InsertCharge(b, price, amount)
    /\ Finish(r)
    /\ UNCHANGED <<lapsed, ended, replaced, shamcash, cancelledBy, expense, batch>>

(* The LESSON charge of a replaced booking now belongs to the new one;      *)
(* mutant: it stays behind.                                                 *)
RepointCharge_Forgotten(old, new) == UNCHANGED chargeOn
RepointCharge(old, new) ==
    chargeOn' = [c \in Bookings |-> IF chargeOn[c] = old THEN new ELSE chargeOn[c]]

(* createRebookingCreditBranch: booked on the deposit of a cancelled row. *)
InsertRebooking(r, b) ==
    LET old == request[r].credit
    IN /\ Creating(r, b)
       /\ old # NoBooking
       /\ UniqueReplaced(old)
       /\ status' = [status EXCEPT ![b] = "BOOKED"]
       /\ payment' = [payment EXCEPT ![b] = "DEPOSIT_PAID",
                                     ![old] = "DEPOSIT_USED_IN_REBOOKING"]
       /\ replaced' = [replaced EXCEPT ![b] = old]
       /\ RepointCharge(old, b)
       /\ Finish(r)
       /\ UNCHANGED <<lapsed, ended, due, paid, chargeStatus, shamcash,
                      cancelledBy, expense, batch>>

-----------------------------------------------------------------------------
(* Paying. *)

(* confirmStudentBookingPayment up to the answer of ShamCash. *)
ConfirmVerify(r, b, t) ==
    /\ Free(r)
    /\ LiveHold(b)
    /\ TxnUnused(t)
    /\ \E found \in Verification(t), c \in ChargesOf(b) :
          found.verified /\ CoversDeposit(found.amount, due[c])
    /\ Start(r, [op |-> "confirm", booking |-> b, txn |-> t])
    /\ UNCHANGED <<rowVars, chargeVars, cancelledBy, expense, batch>>

(* A payment of amount recorded on charge c; mutant: it is taken off. *)
RecordPayment_Negative(c, amount) ==
    /\ paid' = [paid EXCEPT ![c] = @ - amount]
    /\ chargeStatus' = [chargeStatus EXCEPT ![c] = CalcChargeStatus(due[c], paid[c] - amount)]
RecordPayment(c, amount) ==
    /\ paid' = [paid EXCEPT ![c] = @ + amount]
    /\ chargeStatus' = [chargeStatus EXCEPT
                           ![c] = CalcChargeStatus(due[c], paid[c] + amount)]

(* The check of the locked row; mutant: the first check is trusted. *)
StillOnHold_Trusted(b) == b \in Bookings
StillOnHold(b) == LiveHold(b)

(* ... and its transaction, which locks the row and checks again. *)
ConfirmCommit(r) ==
    /\ request[r].op = "confirm"
    /\ LET b == request[r].booking
           t == request[r].txn
       IN /\ StillOnHold(b)
          /\ TxnUnused(t)
          /\ \E c \in ChargesOf(b) :
                /\ RecordPayment(c, TxnAmount[t])
                /\ shamcash' = shamcash \cup {<<t, c>>}
          /\ status' = [status EXCEPT ![b] = "BOOKED"]
          /\ payment' = [payment EXCEPT ![b] = "DEPOSIT_PAID"]
    /\ Finish(r)
    /\ UNCHANGED <<lapsed, ended, replaced, chargeOn, due, cancelledBy, expense, batch>>

PayRemainder(b) ==
    /\ ~Locked(b)
    /\ status[b] = "BOOKED"
    /\ payment[b] = "DEPOSIT_PAID"
    /\ \E c \in ChargesOf(b) :
          /\ due[c] > paid[c]
          /\ paid' = [paid EXCEPT ![c] = due[c]]
          /\ chargeStatus' = [chargeStatus EXCEPT ![c] = "PAID"]
    /\ payment' = [payment EXCEPT ![b] = "FULLY_PAID"]
    /\ UNCHANGED <<status, lapsed, ended, replaced, chargeOn, due, shamcash,
                   cancelledBy, expense, request, batch>>

-----------------------------------------------------------------------------
(* Cancelling. *)

(* cancelBookingWithParty: decided under the lock of the row. *)
Cancel(b, party) ==
    /\ ~Locked(b)
    /\ status[b] \in {"BOOKED", "PENDING_PAYMENT"}
    /\ UniqueCancellation({b})
    /\ status' = [status EXCEPT ![b] = "CANCELLED"]
    /\ payment' = [payment EXCEPT ![b] = DepositAfterCancel(party)]
    /\ cancelledBy' = [cancelledBy EXCEPT ![b] = party]
    /\ UNCHANGED <<lapsed, ended, replaced, chargeVars, expense, request, batch>>

(* submitLeave and updateLeave read the reserving rows the leave overlaps ... *)
LeaveRead(r, i, B) ==
    /\ Free(r)
    /\ B # {}
    /\ \A b \in B : Teacher[b] = i /\ Reserving(b)
    /\ Start(r, [op |-> "leave", bookings |-> B])
    /\ UNCHANGED <<rowVars, chargeVars, cancelledBy, expense, batch>>

(* ... and write each of them by id, whatever it has become. *)
LeaveCommit(r) ==
    /\ request[r].op = "leave"
    /\ LET B == request[r].bookings
       IN /\ \A b \in B : ~Locked(b)
          /\ UniqueCancellation(B)
          /\ status' = [b \in Bookings |-> IF b \in B THEN "CANCELLED" ELSE status[b]]
          /\ payment' = [b \in Bookings |-> IF b \in B THEN DepositAfterCancel("OTHER")
                                                      ELSE payment[b]]
          /\ cancelledBy' = [b \in Bookings |-> IF b \in B THEN "OTHER"
                                                          ELSE cancelledBy[b]]
    /\ Finish(r)
    /\ UNCHANGED <<lapsed, ended, replaced, chargeVars, expense, batch>>

(* archiveVehicle and sendToMaintenance load the BOOKED rows of the vehicle *)
(* whose start is after the UTC clock, up to three hours ago on the wall.   *)
VehicleRead(r, B) ==
    /\ Free(r)
    /\ B # {}
    /\ \A b \in B : b \in SchoolCar /\ status[b] = "BOOKED"
    /\ Start(r, [op |-> "vehicle",
                 seen |-> [b \in Bookings |-> IF b \in B THEN payment[b] ELSE "UNREAD"]])
    /\ UNCHANGED <<rowVars, chargeVars, cancelledBy, expense, batch>>

(* ... and save the loaded entities back. *)
VehicleCommit(r) ==
    /\ request[r].op = "vehicle"
    /\ LET seen == request[r].seen
           B == {b \in Bookings : seen[b] # "UNREAD"}
       IN /\ \A b \in B : ~Locked(b)
          /\ UniqueCancellation(B)
          /\ status' = [b \in Bookings |-> IF b \in B THEN "CANCELLED" ELSE status[b]]
          /\ payment' = [b \in Bookings |-> IF b \in B THEN DepositAfterVehicle(seen[b])
                                                      ELSE payment[b]]
          /\ cancelledBy' = [b \in Bookings |-> IF b \in B THEN "OTHER"
                                                          ELSE cancelledBy[b]]
    /\ Finish(r)
    /\ UNCHANGED <<lapsed, ended, replaced, chargeVars, expense, batch>>

-----------------------------------------------------------------------------
(* The clock and the two crons. *)

HoldTimesOut(b) ==
    /\ LiveHold(b)
    /\ lapsed' = [lapsed EXCEPT ![b] = TRUE]
    /\ UNCHANGED <<status, payment, ended, replaced, chargeVars, cancelledBy,
                   expense, request, batch>>

LessonEnds(b) ==
    /\ b \in Ending
    /\ status[b] = "BOOKED"
    /\ ~ended[b]
    /\ ended' = [ended EXCEPT ![b] = TRUE]
    /\ UNCHANGED <<status, payment, lapsed, replaced, chargeVars, cancelledBy,
                   expense, request, batch>>

(* Mutant: the cron looks for holds that were paid. *)
Stale_Paid(b) == status[b] = "PENDING_PAYMENT" /\ payment[b] = "DEPOSIT_PAID"
Stale(b) == status[b] = "PENDING_PAYMENT" /\ lapsed[b]

(* One UPDATE each minute over every hold that has run out. *)
ExpireStaleHolds ==
    /\ \E b \in Bookings : Stale(b)
    /\ status' = [b \in Bookings |-> IF Stale(b) THEN "EXPIRED" ELSE status[b]]
    /\ UNCHANGED <<payment, lapsed, ended, replaced, chargeVars, cancelledBy,
                   expense, request, batch>>

(* Lessons to settle; mutant: only those that were paid in full. *)
Over_FullyPaid(b) == status[b] = "BOOKED" /\ ended[b] /\ payment[b] = "FULLY_PAID"
Over(b) == status[b] = "BOOKED" /\ ended[b]

(* processExpiredBookings reads the lessons to settle, once per run ... *)
CronRead(k) ==
    /\ batch[k] = NoBatch
    /\ \E b \in Bookings : Over(b)
    /\ batch' = [batch EXCEPT ![k] =
                    [b \in Bookings |-> IF Over(b) THEN payment[b] ELSE "UNREAD"]]
    /\ UNCHANGED <<rowVars, chargeVars, cancelledBy, expense, request>>

Processed(k, b) == batch' = [batch EXCEPT ![k][b] = "UNREAD"]

(* ... then settles each in its own transaction if it is still BOOKED;      *)
(* mutant: an unconditional UPDATE.                                         *)
CronSettles_Unconditional(k, b) == batch[k][b] # "UNREAD" /\ ~Locked(b)
CronSettles(k, b) == /\ batch[k][b] # "UNREAD"
                     /\ ~Locked(b)
                     /\ status[b] = "BOOKED"

CronComplete(k, b) ==
    /\ CronSettles(k, b)
    /\ batch[k][b] = "FULLY_PAID"
    /\ b \notin Unpriced
    /\ expense[b] = "NONE"
    /\ status' = [status EXCEPT ![b] = "COMPLETED"]
    /\ expense' = [expense EXCEPT ![b] = "UNPAID"]
    /\ Processed(k, b)
    /\ UNCHANGED <<payment, lapsed, ended, replaced, chargeVars, cancelledBy, request>>

CronNoShow(k, b) ==
    /\ CronSettles(k, b)
    /\ batch[k][b] # "FULLY_PAID"
    /\ status' = [status EXCEPT ![b] = "NO_SHOW"]
    /\ payment' = [payment EXCEPT ![b] = "DEPOSIT_NON_REFUNDABLE"]
    /\ Processed(k, b)
    /\ UNCHANGED <<lapsed, ended, replaced, chargeVars, cancelledBy, expense, request>>

CronSkip(k, b) ==
    /\ batch[k][b] # "UNREAD"
    /\ ~Locked(b)
    /\ status[b] # "BOOKED"
    /\ Processed(k, b)
    /\ UNCHANGED <<rowVars, chargeVars, cancelledBy, expense, request>>

(* An exception (a lesson whose instructor has no price) or a crash ends    *)
(* the run with the rest of its batch unprocessed.                          *)
CronAbort(k) ==
    /\ batch[k] # NoBatch
    /\ batch' = [batch EXCEPT ![k] = NoBatch]
    /\ UNCHANGED <<rowVars, chargeVars, cancelledBy, expense, request>>

-----------------------------------------------------------------------------
(* The receptionist's override and the instructor's dues. *)

ManualComplete(b) ==
    /\ ~Locked(b)
    /\ status[b] \in {"BOOKED", "NO_SHOW"}
    /\ \/ expense[b] # "NONE" /\ UNCHANGED expense
       \/ /\ expense[b] = "NONE"
          /\ b \notin Unpriced
          /\ expense' = [expense EXCEPT ![b] = "UNPAID"]
    /\ status' = [status EXCEPT ![b] = "COMPLETED"]
    /\ payment' = [payment EXCEPT ![b] = RestoredPayment(@)]
    /\ UNCHANGED <<lapsed, ended, replaced, chargeVars, cancelledBy, request, batch>>

(* A manual NO_SHOW locks the row and reads the expense, which no lock      *)
(* protects ...                                                             *)
NoShowRead(r, b) ==
    /\ Free(r)
    /\ ~Locked(b)
    /\ status[b] \in {"BOOKED", "COMPLETED"}
    /\ expense[b] # "PAID"
    /\ Start(r, [op |-> "noshow", booking |-> b])
    /\ UNCHANGED <<rowVars, chargeVars, cancelledBy, expense, batch>>

(* ... then deletes it by id and burns the deposit. *)
NoShowCommit(r) ==
    /\ request[r].op = "noshow"
    /\ LET b == request[r].booking
       IN /\ status' = [status EXCEPT ![b] = "NO_SHOW"]
          /\ payment' = [payment EXCEPT ![b] = "DEPOSIT_NON_REFUNDABLE"]
          /\ expense' = [expense EXCEPT ![b] = "NONE"]
    /\ Finish(r)
    /\ UNCHANGED <<lapsed, ended, replaced, chargeVars, cancelledBy, batch>>

(* The dues that getDues lists by day, for payDues to settle at once. *)
Outstanding(i) == {b \in Bookings : Teacher[b] = i /\ expense[b] = "UNPAID"}

PayDues(i) ==
    /\ Outstanding(i) # {}
    /\ expense' = [b \in Bookings |-> IF b \in Outstanding(i) THEN "PAID" ELSE expense[b]]
    /\ UNCHANGED <<rowVars, chargeVars, cancelledBy, request, batch>>

(* A handler is refused, rolls back or dies: nothing it did remains.  A     *)
(* crash of the server is this step for every handler and every cron run.   *)
Abandon(r) ==
    /\ ~Free(r)
    /\ Finish(r)
    /\ UNCHANGED <<rowVars, chargeVars, cancelledBy, expense, batch>>

-----------------------------------------------------------------------------
Create(r) ==
    \/ \E op \in {"hold", "cash"}, s \in Students, c \in Bookings \cup {NoBooking} :
          CreateRead(r, op, s, c)
    \/ \E b \in Bookings, p \in Prices : InsertHold(r, b, p)
    \/ \E b \in Bookings, p \in Prices, a \in CashAmounts : InsertCash(r, b, p, a)
    \/ \E b \in Bookings : InsertRebooking(r, b)

Pay(r) ==
    \/ \E b \in Bookings, t \in Txns : ConfirmVerify(r, b, t)
    \/ ConfirmCommit(r)

Withdraw(r) ==
    \/ \E i \in Instructors, B \in SUBSET Bookings : LeaveRead(r, i, B)
    \/ LeaveCommit(r)
    \/ \E B \in SUBSET Bookings : VehicleRead(r, B)
    \/ VehicleCommit(r)

Override(r) ==
    \/ \E b \in Bookings : NoShowRead(r, b)
    \/ NoShowCommit(r)

CronProcess(k, b) == CronComplete(k, b) \/ CronNoShow(k, b) \/ CronSkip(k, b)

Cron(k) ==
    \/ CronRead(k)
    \/ \E b \in Bookings : CronProcess(k, b)
    \/ CronAbort(k)

Desk(b) ==
    \/ PayRemainder(b)
    \/ \E party \in Parties : Cancel(b, party)
    \/ ManualComplete(b)

Clock(b) == HoldTimesOut(b) \/ LessonEnds(b)

Next ==
    \/ \E r \in Handlers : Create(r) \/ Pay(r) \/ Withdraw(r) \/ Override(r) \/ Abandon(r)
    \/ \E b \in Bookings : Desk(b) \/ Clock(b)
    \/ \E k \in Crons : Cron(k)
    \/ \E i \in Instructors : PayDues(i)
    \/ ExpireStaleHolds

Spec == Init /\ [][Next]_vars

(* Time passes, the scheduler starts its crons, and a run gets the row lock *)
(* it waits for even if others take it in between.  Runs are aborted only   *)
(* finitely often: the server does not crash for ever, and every lesson has *)
(* an instructor's price (Unpriced is empty).  A handler that has begun     *)
(* ends its transaction one way or the other; none has to begin.            *)
FairSpec ==
    /\ Spec
    /\ WF_vars(ExpireStaleHolds)
    /\ \A b \in Bookings : WF_vars(HoldTimesOut(b)) /\ WF_vars(LessonEnds(b))
    /\ \A k \in Crons : WF_vars(CronRead(k)) /\ <>[][~CronAbort(k)]_vars
    /\ \A k \in Crons, b \in Bookings :
          SF_vars(CronProcess(k, b))
    /\ \A r \in Handlers : WF_vars(NoShowCommit(r) \/ Abandon(r))

-----------------------------------------------------------------------------
TypeOK ==
    /\ status \in [Bookings -> BookingStatuses]
    /\ payment \in [Bookings -> PaymentStatuses]
    /\ lapsed \in [Bookings -> BOOLEAN]
    /\ ended \in [Bookings -> BOOLEAN]
    /\ replaced \in [Bookings -> Bookings \cup {NoBooking}]
    /\ cancelledBy \in [Bookings -> Parties \cup {"NONE"}]
    /\ chargeOn \in [Bookings -> Bookings \cup {NoBooking}]
    /\ due \in [Bookings -> Nat]
    /\ paid \in [Bookings -> Nat]
    /\ chargeStatus \in [Bookings -> ChargeStatuses]
    /\ shamcash \subseteq Txns \X Bookings
    /\ expense \in [Bookings -> ExpenseStatuses]
    /\ request \in [Handlers -> Requests]
    /\ batch \in [Crons -> [Bookings -> PaymentStatuses \cup {"UNREAD"}]]

(* The money of a booking can always be found: an existing row has exactly  *)
(* one LESSON charge, except a row whose deposit went into a rebooking,     *)
(* which has none (its charge moved on).  This is what checkStudentCredit,  *)
(* confirmStudentBookingPayment and payRemainder look the charge up by.     *)
ChargeFollowsBooking ==
    \A b \in Bookings :
        /\ \A c, d \in ChargesOf(b) : c = d
        /\ ChargesOf(b) # {} <=>
             status[b] # "NONE" /\ payment[b] # "DEPOSIT_USED_IN_REBOOKING"
        /\ status[b] = "NONE" => chargeOn[b] = NoBooking

(* A reusable deposit buys one lesson, however many creations read it: no   *)
(* two bookings replace the same row, a replaced row is a cancelled one of  *)
(* the same student with its deposit marked used, and a deposit is marked   *)
(* used only when some booking took it.                                     *)
CreditSpentOnce ==
    /\ \A a, b \in Bookings : replaced[a] # NoBooking /\ replaced[a] = replaced[b] => a = b
    /\ \A b \in Bookings : replaced[b] # NoBooking =>
          /\ status[b] # "NONE"
          /\ Owner[replaced[b]] = Owner[b]
          /\ status[replaced[b]] = "CANCELLED"
          /\ payment[replaced[b]] = "DEPOSIT_USED_IN_REBOOKING"
    /\ \A c \in Bookings : payment[c] = "DEPOSIT_USED_IN_REBOOKING" =>
          \E b \in Bookings : replaced[b] = c

(* The stored charge_status is what the payments make of the amount due,    *)
(* along every path that records a payment and wherever the charge moves.   *)
ChargeStatusAgrees ==
    \A c \in Bookings : chargeOn[c] # NoBooking =>
        chargeStatus[c] = CalcChargeStatus(due[c], paid[c])

(* FULLY_PAID means the price, exactly: payRemainder collects the rest and  *)
(* nothing is collected afterwards, whatever becomes of the booking.        *)
FullyPaidIsCovered ==
    \A b, c \in Bookings :
        payment[b] = "FULLY_PAID" /\ chargeOn[c] = b => paid[c] = due[c]

(* A lesson that was booked for money, not on an earlier row's credit, was  *)
(* booked for at least its deposit; and no charge ever holds part of one.   *)
DepositCollected ==
    \A c \in Bookings :
        /\ paid[c] = 0 \/ paid[c] >= Deposit(due[c])
        /\ /\ status[c] \in {"BOOKED", "COMPLETED", "NO_SHOW"}
           /\ replaced[c] = NoBooking
           => paid[c] >= Deposit(due[c])

(* A ShamCash transaction pays for one charge, however many confirmations   *)
(* verified it, and its whole amount is on that charge.                     *)
TxnSpentOnce ==
    \A x, y \in shamcash :
        /\ x[1] = y[1] => x = y
        /\ paid[x[2]] >= TxnAmount[x[1]]

(* The instructor is owed for every completed lesson, and for no lesson     *)
(* that was not: only a lesson withdrawn after it was completed keeps dues. *)
DuesFollowLesson ==
    \A b \in Bookings :
        /\ status[b] = "COMPLETED" => expense[b] # "NONE"
        /\ expense[b] # "NONE" => status[b] \in {"COMPLETED", "CANCELLED"}

(* Who cancelled decides the deposit: a cancelled row has its cancellation  *)
(* record and no other row has; a student's cancellation burns the deposit  *)
(* for good, and a credit comes from anybody else's.                        *)
CancellationDecidesDeposit ==
    \A b \in Bookings :
        /\ cancelledBy[b] # "NONE" <=> status[b] = "CANCELLED"
        /\ cancelledBy[b] = "STUDENT" => payment[b] = "DEPOSIT_NON_REFUNDABLE"
        /\ payment[b] \in {"DEPOSIT_AVAILABLE_FOR_REBOOKING", "DEPOSIT_USED_IN_REBOOKING"}
             => status[b] = "CANCELLED"

(* A cancellation is recorded once and is final: no later one, however      *)
(* stale what it read, changes who cancelled or gives a burnt deposit back; *)
(* a cancelled row changes only when its reusable deposit is used.          *)
CancellationIsFinal ==
    [][\A b \in Bookings : cancelledBy[b] # "NONE" =>
         /\ cancelledBy'[b] = cancelledBy[b]
         /\ payment'[b] # payment[b] =>
               /\ payment[b] = "DEPOSIT_AVAILABLE_FOR_REBOOKING"
               /\ payment'[b] = "DEPOSIT_USED_IN_REBOOKING"]_vars

(* What a handler read without a lock is still good enough when it writes:  *)
(* a credit it found is still a cancelled row of the student (though it may *)
(* have been used since), a row it locked for a NO_SHOW is still a booked   *)
(* or completed one that nobody else locked, and the rows a leave or a      *)
(* vehicle's withdrawal saves by id exist and bring no used deposit back.   *)
CreditStillHolds(req) ==
    req.op \in {"hold", "cash"} /\ req.credit # NoBooking =>
        /\ Owner[req.credit] = req.student
        /\ status[req.credit] = "CANCELLED"
        /\ payment[req.credit] \in {"DEPOSIT_AVAILABLE_FOR_REBOOKING",
                                    "DEPOSIT_USED_IN_REBOOKING"}
LockStillHolds(r) ==
    request[r].op = "noshow" =>
        /\ status[request[r].booking] \in {"BOOKED", "COMPLETED"}
        /\ \A q \in Handlers : /\ request[q].op = "noshow"
                               /\ request[q].booking = request[r].booking
                               => q = r
RowsStillExist(req) ==
    /\ req.op = "leave" => \A b \in req.bookings : status[b] # "NONE"
    /\ req.op = "vehicle" =>
          \A b \in Bookings : req.seen[b] # "UNREAD" =>
              /\ status[b] # "NONE"
              /\ req.seen[b] \notin {"DEPOSIT_AVAILABLE_FOR_REBOOKING",
                                     "DEPOSIT_USED_IN_REBOOKING"}
ReadsStillHold ==
    \A r \in Handlers : /\ CreditStillHolds(request[r])
                        /\ LockStillHolds(r)
                        /\ RowsStillExist(request[r])

(* A payment confirmation that arrives after its hold was released never    *)
(* revives the booking: a row leaves EXPIRED and CANCELLED for no lesson,   *)
(* whatever stale request, override or cron run is still on its way.        *)
ReleasedStaysReleased ==
    [][\A b \in Bookings :
         /\ status[b] = "CANCELLED" => status'[b] = "CANCELLED"
         /\ status[b] = "EXPIRED" => status'[b] \in {"EXPIRED", "CANCELLED"}]_vars

(* A hold blocks its slot for a while only: it is confirmed, cancelled or   *)
(* expired in the end, by the minute cron if by nobody else.                *)
HoldsAreReleased ==
    \A b \in Bookings : status[b] = "PENDING_PAYMENT" ~> status[b] # "PENDING_PAYMENT"

(* Every booked lesson is settled: completed, a no-show or cancelled.       *)
LessonsAreSettled ==
    \A b \in Bookings : status[b] = "BOOKED" ~> status[b] # "BOOKED"

(* The desk can tell who still owes: a booked lesson whose deposit is paid  *)
(* is offered for collection, for the whole of what is missing, or its      *)
(* charge is PAID, or nothing is due.  In the second case payRemainder      *)
(* refuses for good and the lesson can never become FULLY_PAID: the cron    *)
(* will make it a NO_SHOW.                                                  *)
RemainderIsOffered ==
    \A b \in Bookings : status[b] = "BOOKED" /\ payment[b] = "DEPOSIT_PAID" =>
        \E c \in ChargesOf(b) :
            IF CanPayRemainder(b)
            THEN /\ chargeStatus[c] # "PAID"
                 /\ ListedRemainder(b) = {NoAmount, due[c] - paid[c]}
            ELSE /\ chargeStatus[c] = "PAID" \/ due[c] = 0
                 /\ ListedRemainder(b) = {NoAmount}

-----------------------------------------------------------------------------
(* Where the deposit of a charge stands: with the row the charge is on. *)
StandingIf == [NONE |-> "none", PENDING_PAYMENT |-> "awaited", EXPIRED |-> "released",
               BOOKED |-> "held", COMPLETED |-> "earned", NO_SHOW |-> "forfeited"]

Standing(b) ==
    IF status[b] # "CANCELLED" THEN StandingIf[status[b]]
    ELSE IF cancelledBy[b] = "STUDENT" THEN "lost"
    ELSE IF payment[b] = "DEPOSIT_AVAILABLE_FOR_REBOOKING" THEN "credit"
    ELSE "stranded"

StandingOf == [c \in Bookings |-> IF chargeOn[c] = NoBooking THEN "none"
                                  ELSE Standing(chargeOn[c])]

Promise == INSTANCE DepositCustody
             WITH Deposits <- Bookings, state <- StandingOf, amount <- paid

(* The tables implement the custody of deposits: across every race of the   *)
(* handlers and the crons no deposit shrinks, grows unpaid, changes hands,  *)
(* is spent twice or comes back after the student gave it up.               *)
DepositsAreKept == Promise!Spec

-----------------------------------------------------------------------------
(* What a comment, a message or a name in the repository says, and the code *)
(* does not do: each is checked by a run that finds it violated.            *)

(* A reusable deposit is a deposit: checkStudentCredit calls it "an unused  *)
(* deposit from a previous cancelled booking".                              *)
CreditIsBackedByDeposit ==
    \A b \in Bookings : payment[b] = "DEPOSIT_AVAILABLE_FOR_REBOOKING" =>
        \A c \in ChargesOf(b), amount \in CreditAmount(b) : amount >= Deposit(due[c])

(* A fully paid lesson is flipped to COMPLETED by the cron, not to NO_SHOW. *)
CronHonoursFullPayment ==
    [][\A k \in Crons, b \in Bookings :
         CronNoShow(k, b) => payment[b] # "FULLY_PAID"]_vars

(* Dues that were paid to the instructor stay on record: the override       *)
(* refuses NO_SHOW once they are.                                           *)
PaidDuesAreKept ==
    [][\A b \in Bookings : expense[b] = "PAID" => expense'[b] = "PAID"]_vars

(* A lesson withdrawn by the school is made good: whatever was paid for it  *)
(* is applied to the next booking, as the notification of archiveVehicle    *)
(* and sendToMaintenance promises ("your previous payment will be applied   *)
(* automatically").                                                         *)
WithdrawnPaymentIsReusable ==
    \A b, c \in Bookings :
        cancelledBy[b] = "OTHER" /\ chargeOn[c] = b /\ paid[c] > 0
            => payment[b] = "DEPOSIT_AVAILABLE_FOR_REBOOKING"

(* "Student already has an active pending booking": a student holds one     *)
(* slot at a time without paying.                                           *)
OneLiveHold ==
    \A a, b \in Bookings : Owner[a] = Owner[b] /\ LiveHold(a) /\ LiveHold(b) => a = b
=============================================================================
