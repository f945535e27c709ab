------------------------- MODULE BookingMoneyProofs -------------------------
(* The amounts: what is paid, on which charge, with which transaction, and  *)
(* what the instructor is owed.                                             *)
EXTENDS DepositCustodyProofs

(* The lesson takes, or took, place. *)
Given(b) == status[b] \in {"BOOKED", "COMPLETED", "NO_SHOW"}

(* A step that records neither a charge nor a payment. *)
MoneyKept ==
    /\ UNCHANGED <<chargeOn, due, paid, chargeStatus, shamcash, replaced>>
    /\ \A b \in Bookings : /\ Given(b)' => Given(b)
                           /\ status'[b] = "PENDING_PAYMENT" => status[b] = "PENDING_PAYMENT"
                           /\ status'[b] = "NONE" <=> status[b] = "NONE"

Inserts(r) ==
    \/ \E b \in Bookings, p \in Prices : InsertHold(r, b, p)
    \/ \E b \in Bookings, p \in Prices, a \in CashAmounts : InsertCash(r, b, p, a)
    \/ \E b \in Bookings : InsertRebooking(r, b)

MoneySteps ==
    \/ MoneyKept
    \/ \E r \in Handlers : Inserts(r) \/ ConfirmCommit(r)
    \/ \E b \in Bookings : PayRemainder(b)

LEMMA EveryStepsMoney ==
    ASSUME CustodyInv, Next
    PROVE  MoneySteps
<1> USE DEF CustodyInv, TypeOK, rowVars, chargeVars, Given
<1>1. ASSUME NEW r \in Handlers, Create(r) \/ Pay(r) \/ Abandon(r)
      PROVE  MoneySteps
  BY <1>1 DEF Create, CreateRead, Pay, ConfirmVerify, Abandon, MoneySteps, MoneyKept, Inserts
<1>2. ASSUME NEW r \in Handlers, Withdraw(r)
      PROVE  MoneySteps
  <2>1. CASE LeaveCommit(r) \/ VehicleCommit(r)
    <3>1. /\ UNCHANGED <<chargeVars, replaced>>
          /\ \A b \in Bookings : status'[b] \in {"CANCELLED", status[b]}
      BY <2>1 DEF LeaveCommit, VehicleCommit
    <3>2. \A b \in Bookings : status'[b] = "NONE" <=> status[b] = "NONE"
      BY <2>1, LeaveQuiet, VehicleQuiet DEF Quiet
    <3> QED
      BY <3>1, <3>2 DEF MoneySteps, MoneyKept
  <2> QED
    BY <1>2, <2>1 DEF Withdraw, LeaveRead, VehicleRead, MoneySteps, MoneyKept
<1>3. ASSUME NEW r \in Handlers, Override(r)
      PROVE  MoneySteps
  <2>1. CASE NoShowCommit(r)
    <3>1. status[request[r].booking] \in {"BOOKED", "COMPLETED"}
      BY <2>1 DEF NoShowCommit, ReadsStillHold, LockStillHolds
    <3> QED
      BY <2>1, <3>1 DEF NoShowCommit, MoneySteps, MoneyKept
  <2> QED
    BY <1>3, <2>1 DEF Override, NoShowRead, MoneySteps, MoneyKept
<1>4. ASSUME NEW b \in Bookings, Desk(b) \/ Clock(b)
      PROVE  MoneySteps
  BY <1>4 DEF Desk, Cancel, ManualComplete, Clock, HoldTimesOut, LessonEnds, MoneySteps,
              MoneyKept
<1>5. ASSUME NEW k \in Crons, Cron(k)
      PROVE  MoneySteps
  BY <1>5 DEF Cron, CronRead, CronProcess, CronComplete, CronNoShow, CronSkip, CronAbort,
              CronSettles, MoneySteps, MoneyKept
<1>6. ASSUME NEW i \in Instructors, PayDues(i)
      PROVE  MoneySteps
  BY <1>6 DEF PayDues, MoneySteps, MoneyKept
<1>7. CASE ExpireStaleHolds
  BY <1>7 DEF ExpireStaleHolds, Stale, MoneySteps, MoneyKept
<1> QED
  BY <1>1, <1>2, <1>3, <1>4, <1>5, <1>6, <1>7 DEF Next

(* What the steps that record money have in common. *)
LEMMA InsertedCharge ==
    ASSUME CustodyInv, NEW b \in Bookings, status[b] = "NONE"
    PROVE  /\ chargeOn[b] = NoBooking
           /\ \A c \in Bookings : chargeOn[c] # b
           /\ replaced[b] = NoBooking
BY DEF CustodyInv, TypeOK, ChargeFollowsBooking, CreditSpentOnce, ChargesOf

-----------------------------------------------------------------------------
(* The stored status and the transactions of a charge. *)

TxnsAreOnCharges == \A x \in shamcash : chargeOn[x[2]] # NoBooking

ChargeInv == ChargeStatusAgrees /\ TxnSpentOnce /\ TxnsAreOnCharges

LEMMA InsertKeepsCharges ==
    ASSUME CustodyInv, ChargeInv, NEW b \in Bookings, status[b] = "NONE",
           NEW price \in Nat, NEW amount \in Nat, InsertCharge(b, price, amount),
           UNCHANGED shamcash
    PROVE  ChargeInv'
<1> USE BookingsAssumption DEF CustodyInv, TypeOK, InsertCharge, NoBooking
<1>1. chargeOn[b] = NoBooking
  BY InsertedCharge
<1>2. \A c \in Bookings : c # b => /\ chargeOn'[c] = chargeOn[c]
                                  /\ due'[c] = due[c]
                                  /\ paid'[c] = paid[c]
                                  /\ chargeStatus'[c] = chargeStatus[c]
  OBVIOUS
<1>3. \A x \in shamcash : x[2] \in Bookings /\ x[2] # b
  BY <1>1 DEF ChargeInv, TxnsAreOnCharges
<1>4. ChargeStatusAgrees'
  BY <1>2 DEF ChargeInv, ChargeStatusAgrees, CalcChargeStatus
<1>5. TxnSpentOnce' /\ TxnsAreOnCharges'
  BY <1>2, <1>3 DEF ChargeInv, TxnSpentOnce, TxnsAreOnCharges
<1> QED
  BY <1>4, <1>5 DEF ChargeInv

LEMMA RepointKeepsCharges ==
    ASSUME CustodyInv, ChargeInv, NEW r \in Handlers, NEW b \in Bookings,
           InsertRebooking(r, b)
    PROVE  ChargeInv'
<1> USE BookingsAssumption DEF CustodyInv, TypeOK, NoBooking, InsertRebooking, RepointCharge
<1>1. \A c \in Bookings : chargeOn'[c] # NoBooking <=> chargeOn[c] # NoBooking
  OBVIOUS
<1>2. \A x \in shamcash : x[2] \in Bookings
  OBVIOUS
<1> QED
  BY <1>1, <1>2 DEF ChargeInv, ChargeStatusAgrees, CalcChargeStatus, TxnSpentOnce,
                    TxnsAreOnCharges

LEMMA PaymentsGrow ==
    ASSUME TypeOK, TxnSpentOnce, \A d \in Bookings : paid'[d] \in Nat /\ paid'[d] >= paid[d]
    PROVE  \A x \in shamcash : /\ x[1] \in Txns /\ x[2] \in Bookings
                               /\ x = <<x[1], x[2]>>
                               /\ paid'[x[2]] >= TxnAmount[x[1]]
<1> SUFFICES ASSUME NEW x \in shamcash
             PROVE  /\ x[1] \in Txns /\ x[2] \in Bookings
                    /\ x = <<x[1], x[2]>>
                    /\ paid'[x[2]] >= TxnAmount[x[1]]
  OBVIOUS
<1>1. PICK t \in Txns, c \in Bookings : x = <<t, c>>
  BY DEF TypeOK
<1>2. TxnAmount[t] \in Nat /\ paid[c] \in Nat
  BY MoneyAssumption DEF TypeOK
<1>3. paid[c] >= TxnAmount[t] /\ paid'[c] >= paid[c] /\ paid'[c] \in Nat
  BY <1>1 DEF TxnSpentOnce
<1> QED
  BY <1>1, <1>2, <1>3

LEMMA ConfirmKeepsCharges ==
    ASSUME CustodyInv, ChargeInv, NEW r \in Handlers, ConfirmCommit(r)
    PROVE  ChargeInv'
<1> USE BookingsAssumption DEF CustodyInv, TypeOK, NoBooking
<1>1. PICK b \in Bookings, t \in Txns : b = request[r].booking /\ t = request[r].txn
  BY RequestFields DEF ConfirmCommit
<1>2. TxnAmount[t] \in Nat
  BY MoneyAssumption
<1>3. PICK c \in Bookings : /\ chargeOn[c] = b
                            /\ RecordPayment(c, TxnAmount[t])
                            /\ shamcash' = shamcash \cup {<<t, c>>}
  BY <1>1 DEF ConfirmCommit, ChargesOf
<1>4. UNCHANGED <<chargeOn, due>> /\ \A d \in Bookings : <<t, d>> \notin shamcash
  BY <1>1 DEF ConfirmCommit, TxnUnused
<1>5. /\ paid'[c] = paid[c] + TxnAmount[t]
      /\ chargeStatus'[c] = CalcChargeStatus(due[c], paid'[c])
      /\ \A d \in Bookings : d # c => /\ paid'[d] = paid[d]
                                     /\ chargeStatus'[d] = chargeStatus[d]
  BY <1>2, <1>3 DEF RecordPayment
<1>6. ChargeStatusAgrees'
  BY <1>4, <1>5 DEF ChargeInv, ChargeStatusAgrees, CalcChargeStatus
<1>7. TxnSpentOnce'
  <2>1. \A d \in Bookings : paid'[d] \in Nat /\ paid'[d] >= paid[d]
    BY <1>2, <1>5
  <2>2. \A x \in shamcash : /\ x[1] \in Txns /\ x[2] \in Bookings
                            /\ x = <<x[1], x[2]>>
                            /\ paid'[x[2]] >= TxnAmount[x[1]]
    BY <2>1, PaymentsGrow DEF ChargeInv
  <2>3. paid'[c] >= TxnAmount[t]
    BY <1>2, <1>5
  <2>4. \A x \in shamcash : x[1] # t
    <3> SUFFICES ASSUME NEW x \in shamcash, x[1] = t PROVE FALSE
      OBVIOUS
    <3>1. PICK d \in Bookings : x = <<t, d>>
      BY <2>2
    <3> QED
      BY <1>4, <3>1
  <2> QED
    BY <1>3, <2>2, <2>3, <2>4 DEF ChargeInv, TxnSpentOnce
<1>8. TxnsAreOnCharges'
  BY <1>3, <1>4 DEF ChargeInv, TxnsAreOnCharges
<1> QED
  BY <1>6, <1>7, <1>8 DEF ChargeInv

LEMMA RemainderKeepsCharges ==
    ASSUME CustodyInv, ChargeInv, NEW b \in Bookings, PayRemainder(b)
    PROVE  ChargeInv'
<1> USE DEF CustodyInv, TypeOK
<1>1. PICK c \in Bookings : /\ due[c] > paid[c]
                            /\ paid' = [paid EXCEPT ![c] = due[c]]
                            /\ chargeStatus' = [chargeStatus EXCEPT ![c] = "PAID"]
  BY DEF PayRemainder, ChargesOf
<1>2. UNCHANGED <<chargeOn, due, shamcash>>
  BY DEF PayRemainder
<1>3. \A d \in Bookings : paid'[d] \in Nat /\ paid'[d] >= paid[d]
  BY <1>1
<1>4. \A x \in shamcash : x[2] \in Bookings /\ paid'[x[2]] >= TxnAmount[x[1]]
  BY <1>3, PaymentsGrow DEF ChargeInv
<1>5. ChargeStatusAgrees'
  BY <1>1, <1>2 DEF ChargeInv, ChargeStatusAgrees, CalcChargeStatus
<1>6. TxnSpentOnce' /\ TxnsAreOnCharges'
  BY <1>2, <1>4 DEF ChargeInv, TxnSpentOnce, TxnsAreOnCharges
<1> QED
  BY <1>5, <1>6 DEF ChargeInv

LEMMA ChargeStep == CustodyInv /\ ChargeInv /\ [Next]_vars => ChargeInv'
<1> SUFFICES ASSUME CustodyInv, ChargeInv, [Next]_vars PROVE ChargeInv'
  OBVIOUS
<1>1. ASSUME UNCHANGED <<chargeOn, due, paid, chargeStatus, shamcash>>
      PROVE  ChargeInv'
  BY <1>1 DEF ChargeInv, ChargeStatusAgrees, CalcChargeStatus, TxnSpentOnce, TxnsAreOnCharges
<1>2. ASSUME NEW r \in Handlers, Inserts(r)
      PROVE  ChargeInv'
  BY <1>2, InsertKeepsCharges, RepointKeepsCharges, MoneyAssumption
     DEF Inserts, InsertHold, InsertCash, Creating, NextRow
<1> QED
  BY <1>1, <1>2, EveryStepsMoney, ConfirmKeepsCharges, RemainderKeepsCharges
     DEF MoneySteps, MoneyKept, vars, chargeVars

LEMMA Charges == Spec => [](CustodyInv /\ ChargeInv)
<1>1. Init => ChargeInv
  BY DEF Init, ChargeInv, ChargeStatusAgrees, TxnSpentOnce, TxnsAreOnCharges
<1> QED
  BY <1>1, ChargeStep, CustodyInit, CustodyStep, PTL DEF Spec

(* The stored charge_status never lags behind the payments. *)
THEOREM ChargeStatusAlwaysAgrees == Spec => []ChargeStatusAgrees
BY Charges, PTL DEF ChargeInv

(* No transaction pays twice, however many confirmations verified it. *)
THEOREM TxnNeverSpentTwice == Spec => []TxnSpentOnce
BY Charges, PTL DEF ChargeInv

-----------------------------------------------------------------------------
(* Every charge that carries money carries a deposit. *)

LEMMA DepositBounds ==
    ASSUME NEW price \in Nat
    PROVE  Deposit(price) \in Nat /\ Deposit(price) <= price
<1>1. price * DepositPct \in Nat /\ price * DepositPct <= price * 100
  BY MoneyAssumption, Z3
<1>2. PICK n \in Nat : n = price * DepositPct
  BY <1>1
<1>3. (n + 50) \div 100 \in Nat /\ (n + 50) \div 100 <= price
  BY <1>1, <1>2, Z3
<1> QED
  BY <1>2, <1>3 DEF Deposit

(* A row that replaces none has its own charge or, once replaced, no other; *)
(* holds are such rows; and a verified transaction covers the deposit of    *)
(* the charge it is for until it is recorded.                               *)
OwnCharges == \A b, c \in Bookings : chargeOn[c] = b /\ replaced[b] = NoBooking => c = b

HoldsReplaceNothing ==
    \A b \in Bookings : status[b] = "PENDING_PAYMENT" => replaced[b] = NoBooking

TxnCovers(b, t) == /\ status[b] # "NONE"
                   /\ \A c \in Bookings : chargeOn[c] = b => TxnAmount[t] >= Deposit(due[c])

ConfirmsCover ==
    \A r \in Handlers : request[r].op = "confirm" => TxnCovers(request[r].booking, request[r].txn)

CollectInv == DepositCollected /\ OwnCharges /\ HoldsReplaceNothing /\ ConfirmsCover

(* A request to confirm is made by the check of the transaction only. *)
LEMMA ConfirmRequests ==
    ASSUME CustodyInv, Next, NEW r \in Handlers, request'[r].op = "confirm"
    PROVE  \/ request'[r] = request[r]
           \/ /\ UNCHANGED <<status, chargeOn, due>>
              /\ TxnCovers(request'[r].booking, request'[r].txn)
<1> USE DEF CustodyInv, TypeOK
<1>1. ASSUME NEW q \in Handlers, Create(q) \/ Withdraw(q) \/ Override(q) \/ Abandon(q)
                                 \/ ConfirmCommit(q)
      PROVE  request'[r] = request[r]
  BY <1>1 DEF Create, CreateRead, InsertHold, InsertCash, InsertRebooking, ConfirmCommit,
              Override, NoShowRead, NoShowCommit, Abandon, Start, Finish, Idle, Withdraw,
              LeaveRead, LeaveCommit, VehicleRead, VehicleCommit
<1>2. ASSUME NEW q \in Handlers, NEW b \in Bookings, NEW t \in Txns, ConfirmVerify(q, b, t)
      PROVE  \/ request'[r] = request[r]
             \/ /\ UNCHANGED <<status, chargeOn, due>>
                /\ TxnCovers(request'[r].booking, request'[r].txn)
  <2>1. TxnCovers(b, t)
    BY <1>2 DEF ConfirmVerify, Verification, NotListed, LiveHold, CoversDeposit, ChargesOf,
                ChargeFollowsBooking, TxnCovers
  <2>2. UNCHANGED <<status, chargeOn, due>>
    BY <1>2 DEF ConfirmVerify, rowVars, chargeVars
  <2> QED
    BY <1>2, <2>1, <2>2 DEF ConfirmVerify, Start
<1>3. ASSUME NEW b \in Bookings, Desk(b) \/ Clock(b)
      PROVE  request'[r] = request[r]
  BY <1>3 DEF Desk, PayRemainder, Cancel, ManualComplete, Clock, HoldTimesOut, LessonEnds
<1>4. ASSUME NEW k \in Crons, Cron(k)
      PROVE  request'[r] = request[r]
  BY <1>4 DEF Cron, CronRead, CronProcess, CronComplete, CronNoShow, CronSkip, CronAbort
<1>5. ASSUME NEW i \in Instructors, PayDues(i)
      PROVE  request'[r] = request[r]
  BY <1>5 DEF PayDues
<1>6. CASE ExpireStaleHolds
  BY <1>6 DEF ExpireStaleHolds
<1> QED
  BY <1>1, <1>2, <1>3, <1>4, <1>5, <1>6 DEF Next, Pay

(* The charges of an existing row lose nothing of what covers them. *)
LEMMA CoverStays ==
    ASSUME CustodyInv, Next, NEW b \in Bookings, NEW t \in Txns, TxnCovers(b, t)
    PROVE  TxnCovers(b, t)'
<1> USE BookingsAssumption DEF CustodyInv, TypeOK, TxnCovers, NoBooking
<1>1. CASE MoneyKept
  BY <1>1 DEF MoneyKept
<1>2. ASSUME NEW a \in Bookings, status[a] = "NONE",
             \E p \in Nat, m \in Nat : InsertCharge(a, p, m),
             \E st \in {"PENDING_PAYMENT", "BOOKED"} : status' = [status EXCEPT ![a] = st]
      PROVE  TxnCovers(b, t)'
  BY <1>2 DEF InsertCharge
<1>3. ASSUME NEW r \in Handlers, Inserts(r)
      PROVE  TxnCovers(b, t)'
  <2>1. ASSUME NEW a \in Bookings, InsertRebooking(r, a)
        PROVE  TxnCovers(b, t)'
    BY <2>1 DEF InsertRebooking, RepointCharge, Creating, NextRow
  <2> QED
    BY <1>2, <1>3, <2>1, MoneyAssumption DEF Inserts, InsertHold, InsertCash, Creating, NextRow
<1>4. ASSUME NEW r \in Handlers, ConfirmCommit(r)
      PROVE  TxnCovers(b, t)'
  BY <1>4 DEF ConfirmCommit
<1>5. ASSUME NEW a \in Bookings, PayRemainder(a)
      PROVE  TxnCovers(b, t)'
  BY <1>5 DEF PayRemainder
<1> QED
  BY <1>1, <1>3, <1>4, <1>5, EveryStepsMoney DEF MoneySteps

LEMMA ConfirmsStayCovered ==
    ASSUME CustodyInv, TypeOK', Next, ConfirmsCover
    PROVE  ConfirmsCover'
<1> SUFFICES ASSUME NEW r \in Handlers, request'[r].op = "confirm",
                    NEW b, NEW t, b = request'[r].booking, t = request'[r].txn
             PROVE  TxnCovers(b, t)'
  BY DEF ConfirmsCover, TxnCovers
<1>1. b \in Bookings /\ t \in Txns
  <2>1. request'[r] \in Requests
    BY DEF TypeOK
  <2> QED
    BY <2>1, RequestFields
<1>2. CASE request'[r] = request[r]
  BY <1>1, <1>2, CoverStays DEF ConfirmsCover
<1>3. CASE request'[r] # request[r]
  BY <1>1, <1>3, ConfirmRequests DEF TxnCovers
<1> QED
  BY <1>2, <1>3

Rows == DepositCollected /\ OwnCharges /\ HoldsReplaceNothing

LEMMA InsertKeepsRows ==
    ASSUME CustodyInv, CollectInv, NEW b \in Bookings, status[b] = "NONE",
           NEW price \in Nat, NEW amount \in Nat, InsertCharge(b, price, amount),
           UNCHANGED replaced,
           \/ status' = [status EXCEPT ![b] = "PENDING_PAYMENT"] /\ amount = 0
           \/ status' = [status EXCEPT ![b] = "BOOKED"] /\ amount >= Deposit(price)
    PROVE  Rows'
<1> USE BookingsAssumption DEF CustodyInv, TypeOK, InsertCharge, NoBooking, CollectInv
<1>1. /\ chargeOn'[b] = b /\ due'[b] = price /\ paid'[b] = amount
      /\ replaced'[b] = NoBooking
      /\ \A c \in Bookings : chargeOn[c] # b
      /\ \A c \in Bookings \ {b} : /\ chargeOn'[c] = chargeOn[c]
                                   /\ due'[c] = due[c]
                                   /\ paid'[c] = paid[c]
                                   /\ status'[c] = status[c]
  BY InsertedCharge
<1>2. DepositCollected'
  <2>1. ASSUME NEW c \in Bookings, c # b
        PROVE  DepositCollected!(c)'
    BY <1>1, <2>1 DEF DepositCollected, Deposit
  <2>2. DepositCollected!(b)'
    BY <1>1 DEF DepositCollected, Deposit
  <2> QED
    BY <2>1, <2>2 DEF DepositCollected
<1>3. OwnCharges'
  BY <1>1 DEF OwnCharges
<1>4. HoldsReplaceNothing'
  BY <1>1 DEF HoldsReplaceNothing
<1> QED
  BY <1>2, <1>3, <1>4 DEF Rows

LEMMA RepointKeepsRows ==
    ASSUME CustodyInv, CollectInv, NEW r \in Handlers, NEW b \in Bookings,
           InsertRebooking(r, b)
    PROVE  Rows'
<1> USE BookingsAssumption DEF CustodyInv, TypeOK, NoBooking, CollectInv
<1>1. PICK old \in Bookings : old = request[r].credit
  BY RequestFields DEF InsertRebooking, Creating, NoBooking
<1>2. /\ status' = [status EXCEPT ![b] = "BOOKED"]
      /\ replaced' = [replaced EXCEPT ![b] = old]
      /\ chargeOn' = [c \in Bookings |-> IF chargeOn[c] = old THEN b ELSE chargeOn[c]]
      /\ UNCHANGED <<due, paid>>
      /\ status[b] = "NONE"
  BY <1>1 DEF InsertRebooking, RepointCharge, Creating, NextRow
<1>3. DepositCollected'
  BY <1>2 DEF DepositCollected, Deposit
<1>4. OwnCharges'
  BY <1>2 DEF OwnCharges
<1>5. HoldsReplaceNothing'
  BY <1>2 DEF HoldsReplaceNothing
<1> QED
  BY <1>3, <1>4, <1>5 DEF Rows

LEMMA ConfirmKeepsRows ==
    ASSUME CustodyInv, CollectInv, NEW r \in Handlers, ConfirmCommit(r)
    PROVE  Rows'
<1> USE BookingsAssumption DEF CustodyInv, TypeOK, NoBooking, CollectInv
<1>1. PICK b \in Bookings, t \in Txns : b = request[r].booking /\ t = request[r].txn
  BY RequestFields DEF ConfirmCommit
<1>2. PICK c \in Bookings : chargeOn[c] = b /\ RecordPayment(c, TxnAmount[t])
  BY <1>1 DEF ConfirmCommit, ChargesOf
<1>3. /\ status[b] = "PENDING_PAYMENT"
      /\ status' = [status EXCEPT ![b] = "BOOKED"]
      /\ UNCHANGED <<chargeOn, due, replaced>>
  BY <1>1 DEF ConfirmCommit, StillOnHold, LiveHold
<1>4. c = b
  BY <1>2, <1>3 DEF OwnCharges, HoldsReplaceNothing
<1>5. /\ TxnAmount[t] \in Nat
      /\ TxnAmount[t] >= Deposit(due[b])
  BY <1>1, <1>2, <1>4, MoneyAssumption DEF ConfirmCommit, ConfirmsCover, TxnCovers
<1>6. /\ paid'[b] = paid[b] + TxnAmount[t]
      /\ \A d \in Bookings : d # b => paid'[d] = paid[d]
  BY <1>2, <1>4, <1>5 DEF RecordPayment
<1>7. paid'[b] >= Deposit(due[b])
  BY <1>5, <1>6, DepositBounds
<1>8. DepositCollected'
  BY <1>3, <1>6, <1>7 DEF DepositCollected, Deposit
<1>9. OwnCharges' /\ HoldsReplaceNothing'
  BY <1>3 DEF OwnCharges, HoldsReplaceNothing
<1> QED
  BY <1>8, <1>9 DEF Rows

LEMMA RemainderKeepsRows ==
    ASSUME CustodyInv, CollectInv, NEW b \in Bookings, PayRemainder(b)
    PROVE  Rows'
<1> USE DEF CustodyInv, TypeOK, CollectInv
<1>1. PICK c \in Bookings : paid' = [paid EXCEPT ![c] = due[c]]
  BY DEF PayRemainder, ChargesOf
<1>2. UNCHANGED <<status, chargeOn, due, replaced>>
  BY DEF PayRemainder
<1>3. due[c] >= Deposit(due[c])
  BY DepositBounds
<1>4. DepositCollected'
  BY <1>1, <1>2, <1>3 DEF DepositCollected, Deposit
<1>5. OwnCharges' /\ HoldsReplaceNothing'
  BY <1>2 DEF OwnCharges, HoldsReplaceNothing
<1> QED
  BY <1>4, <1>5 DEF Rows

LEMMA CollectStep == CustodyInv /\ TypeOK' /\ CollectInv /\ [Next]_vars => CollectInv'
<1>1. ASSUME CustodyInv, TypeOK', CollectInv, Next
      PROVE  CollectInv'
  <2>1. ASSUME MoneyKept
        PROVE  Rows'
    BY <1>1, <2>1 DEF MoneyKept, Given, CollectInv, DepositCollected, Deposit, OwnCharges,
                      HoldsReplaceNothing, Rows
  <2>2. ASSUME NEW r \in Handlers, Inserts(r)
        PROVE  Rows'
    BY <1>1, <2>2, InsertKeepsRows, RepointKeepsRows, MoneyAssumption
       DEF Inserts, InsertHold, InsertCash, Creating, NextRow, CoversDeposit
  <2>3. Rows'
    BY <1>1, <2>1, <2>2, EveryStepsMoney, ConfirmKeepsRows, RemainderKeepsRows
       DEF MoneySteps, CollectInv, Rows
  <2> QED
    BY <1>1, <2>3, ConfirmsStayCovered DEF CollectInv, Rows
<1>2. ASSUME CollectInv, UNCHANGED vars
      PROVE  CollectInv'
  BY <1>2 DEF vars, rowVars, chargeVars, CollectInv, DepositCollected, Deposit, OwnCharges,
              HoldsReplaceNothing, ConfirmsCover, TxnCovers
<1> QED
  BY <1>1, <1>2

(* A booked lesson was paid its deposit, or stands on an earlier row's      *)
(* credit; the confirmation commits what was verified before it.            *)
THEOREM DepositAlwaysCollected == Spec => []DepositCollected
<1>1. Init => CollectInv
  BY BookingsAssumption DEF Init, CollectInv, DepositCollected, OwnCharges, HoldsReplaceNothing,
                            ConfirmsCover, Idle, NoBooking
<1>2. CustodyInv /\ CollectInv /\ [Next]_vars => CustodyInv' /\ CollectInv'
  BY CustodyStep, CollectStep DEF CustodyInv
<1>3. CollectInv => DepositCollected
  BY DEF CollectInv
<1> QED
  BY <1>1, <1>2, <1>3, CustodyInit, PTL DEF Spec

-----------------------------------------------------------------------------
(* Full payment. *)

Covered(b) == \A c \in Bookings : chargeOn[c] = b => paid[c] = due[c]

(* A withdrawal writes back the FULLY_PAID it read: what it read stays true. *)
FullInv ==
    /\ \A b \in Bookings : payment[b] = "FULLY_PAID" => WasBooked(b) /\ Covered(b)
    /\ \A r \in Handlers : request[r].op = "vehicle" =>
          \A b \in Bookings : request[r].seen[b] = "FULLY_PAID" => WasBooked(b) /\ Covered(b)

(* Nothing more is paid on a row that is covered. *)
LEMMA CoveredStays ==
    ASSUME CustodyInv, Next, NEW b \in Bookings, WasBooked(b), Covered(b)
    PROVE  WasBooked(b)' /\ Covered(b)'
<1> USE BookingsAssumption DEF CustodyInv, TypeOK, Covered, NoBooking
<1>1. WasBooked(b)'
  BY HandlersKeepBooked, OthersKeepBooked DEF Next, StayBooked
<1>2. CASE MoneyKept
  BY <1>1, <1>2 DEF MoneyKept
<1>3. ASSUME NEW a \in Bookings, status[a] = "NONE",
             \E p \in Nat, m \in Nat : InsertCharge(a, p, m)
      PROVE  Covered(b)'
  <2>1. a # b /\ chargeOn[a] = NoBooking
    BY <1>3, InsertedCharge DEF WasBooked
  <2> QED
    BY <1>3, <2>1 DEF InsertCharge
<1>4. ASSUME NEW r \in Handlers, NEW a \in Bookings, InsertRebooking(r, a)
      PROVE  Covered(b)'
  BY <1>4 DEF InsertRebooking, RepointCharge, Creating, NextRow, WasBooked
<1>5. ASSUME NEW r \in Handlers, ConfirmCommit(r)
      PROVE  Covered(b)'
  BY <1>5 DEF ConfirmCommit, StillOnHold, LiveHold, RecordPayment, ChargesOf, WasBooked
<1>6. ASSUME NEW a \in Bookings, PayRemainder(a)
      PROVE  Covered(b)'
  <2>1. PICK c \in Bookings : chargeOn[c] = a /\ due[c] > paid[c]
                             /\ paid' = [paid EXCEPT ![c] = due[c]]
    BY <1>6 DEF PayRemainder, ChargesOf
  <2>2. UNCHANGED <<chargeOn, due>>
    BY <1>6 DEF PayRemainder
  <2> QED
    BY <2>1, <2>2
<1> QED
  BY <1>1, <1>2, <1>3, <1>4, <1>5, <1>6, EveryStepsMoney, MoneyAssumption
     DEF MoneySteps, Inserts, InsertHold, InsertCash, Creating, NextRow

(* Where a row's FULLY_PAID comes from. *)
LEMMA FullPaymentComes ==
    ASSUME CustodyInv, Next, NEW b \in Bookings, payment'[b] = "FULLY_PAID"
    PROVE  \/ payment[b] = "FULLY_PAID"
           \/ PayRemainder(b)
           \/ \E r \in Handlers : request[r].op = "vehicle" /\ request[r].seen[b] = "FULLY_PAID"
<1> USE DEF CustodyInv, TypeOK, rowVars
<1>1. ASSUME NEW r \in Handlers, Create(r) \/ Pay(r) \/ Override(r) \/ Abandon(r)
      PROVE  payment[b] = "FULLY_PAID"
  BY <1>1 DEF Create, CreateRead, InsertHold, InsertCash, InsertRebooking, Pay, ConfirmVerify,
              ConfirmCommit, Override, NoShowRead, NoShowCommit, Abandon
<1>2. ASSUME NEW r \in Handlers, Withdraw(r)
      PROVE  \/ payment[b] = "FULLY_PAID"
             \/ request[r].op = "vehicle" /\ request[r].seen[b] = "FULLY_PAID"
  <2>1. CASE LeaveCommit(r)
    <3>1. payment'[b] \in {DepositAfterCancel("OTHER"), payment[b]}
      BY <2>1 DEF LeaveCommit
    <3> QED
      BY <3>1 DEF DepositAfterCancel
  <2>2. CASE VehicleCommit(r)
    <3>1. /\ request[r].op = "vehicle"
          /\ payment'[b] \in {DepositAfterVehicle(request[r].seen[b]), payment[b]}
      BY <2>2 DEF VehicleCommit
    <3> QED
      BY <3>1 DEF DepositAfterVehicle
  <2> QED
    BY <1>2, <2>1, <2>2 DEF Withdraw, LeaveRead, VehicleRead
<1>3. ASSUME NEW a \in Bookings, Desk(a) \/ Clock(a)
      PROVE  payment[b] = "FULLY_PAID" \/ PayRemainder(b)
  <2>1. CASE PayRemainder(a)
    BY <2>1 DEF PayRemainder
  <2> QED
    BY <1>3, <2>1 DEF Desk, Cancel, DepositAfterCancel, ManualComplete, RestoredPayment,
                      Clock, HoldTimesOut, LessonEnds
<1>4. ASSUME NEW k \in Crons, Cron(k)
      PROVE  payment[b] = "FULLY_PAID"
  BY <1>4 DEF Cron, CronRead, CronProcess, CronComplete, CronNoShow, CronSkip, CronAbort
<1>5. ASSUME NEW i \in Instructors, PayDues(i)
      PROVE  payment[b] = "FULLY_PAID"
  BY <1>5 DEF PayDues
<1>6. CASE ExpireStaleHolds
  BY <1>6 DEF ExpireStaleHolds
<1> QED
  BY <1>1, <1>2, <1>3, <1>4, <1>5, <1>6 DEF Next

LEMMA RemainderCovers ==
    ASSUME CustodyInv, NEW b \in Bookings, PayRemainder(b)
    PROVE  WasBooked(b)' /\ Covered(b)'
BY DEF CustodyInv, TypeOK, PayRemainder, ChargesOf, ChargeFollowsBooking, WasBooked, Covered

LEMMA FullStep == CustodyInv /\ FullInv /\ [Next]_vars => FullInv'
<1>1. ASSUME CustodyInv, FullInv, Next
      PROVE  FullInv'
  <2>1. \A b \in Bookings : payment'[b] = "FULLY_PAID" => WasBooked(b)' /\ Covered(b)'
    BY <1>1, CoveredStays, FullPaymentComes, RemainderCovers DEF FullInv
  <2>2. ASSUME NEW r \in Handlers, request'[r].op = "vehicle",
               NEW b \in Bookings, request'[r].seen[b] = "FULLY_PAID"
        PROVE  WasBooked(b)' /\ Covered(b)'
    BY <1>1, <2>1, <2>2, VehicleRequests, CoveredStays DEF FullInv
  <2> QED
    BY <2>1, <2>2 DEF FullInv
<1>2. ASSUME FullInv, UNCHANGED vars
      PROVE  FullInv'
  BY <1>2 DEF vars, rowVars, chargeVars, FullInv, WasBooked, Covered
<1> QED
  BY <1>1, <1>2

(* FULLY_PAID is the price to the last cent, also when it is written back   *)
(* by a request that read it long ago.                                      *)
THEOREM FullyPaidAlwaysCovered == Spec => []FullyPaidIsCovered
<1>1. Init => FullInv
  BY DEF Init, FullInv, Idle
<1>2. FullInv => FullyPaidIsCovered
  BY DEF FullInv, Covered, FullyPaidIsCovered
<1> QED
  BY <1>1, <1>2, FullStep, CustodyInit, CustodyStep, PTL DEF Spec

-----------------------------------------------------------------------------
(* What the desk is shown follows from where the charge is and what its     *)
(* status says.                                                             *)
THEOREM RemainderAlwaysOffered == Spec => []RemainderIsOffered
<1>1. CustodyInv /\ ChargeInv => RemainderIsOffered
  <2> SUFFICES ASSUME CustodyInv, ChargeInv, NEW b \in Bookings,
                      status[b] = "BOOKED", payment[b] = "DEPOSIT_PAID"
               PROVE  RemainderIsOffered!(b)!2
    BY DEF RemainderIsOffered
  <2> USE BookingsAssumption DEF CustodyInv, TypeOK, NoBooking
  <2>1. PICK c \in Bookings : ChargesOf(b) = {c}
    <3>1. PICK c \in ChargesOf(b) : TRUE
      BY DEF ChargeFollowsBooking
    <3>2. \A d \in ChargesOf(b) : d = c
      BY <3>1 DEF ChargeFollowsBooking
    <3>3. ChargesOf(b) = {c}
      BY <3>1, <3>2
    <3>4. c \in Bookings
      BY <3>1 DEF ChargesOf
    <3> QED
      BY <3>3, <3>4
  <2>2. /\ due[c] \in Nat /\ paid[c] \in Nat
        /\ chargeStatus[c] = CalcChargeStatus(due[c], paid[c])
    BY <2>1 DEF ChargesOf, ChargeInv, ChargeStatusAgrees
  <2>3. CanPayRemainder(b) <=> due[c] > paid[c]
    BY <2>1, <2>2 DEF CanPayRemainder
  <2>4. ListedRemainder(b) = IF due[c] > paid[c] THEN {NoAmount, due[c] - paid[c]}
                             ELSE {NoAmount}
    BY <2>1 DEF ListedRemainder
  <2>5. chargeStatus[c] = "PAID" <=> due[c] <= paid[c] /\ paid[c] # 0
    BY <2>2 DEF CalcChargeStatus
  <2> QED
    BY <2>1, <2>2, <2>3, <2>4, <2>5
<1> QED
  BY <1>1, Charges, PTL

-----------------------------------------------------------------------------
(* The instructor's dues. *)

LEMMA DuesStep == CustodyInv /\ DuesFollowLesson /\ [Next]_vars => DuesFollowLesson'
<1> SUFFICES ASSUME CustodyInv, DuesFollowLesson, [Next]_vars PROVE DuesFollowLesson'
  OBVIOUS
<1> USE DEF CustodyInv, TypeOK, rowVars, DuesFollowLesson
<1>1. ASSUME NEW r \in Handlers, Create(r)
      PROVE  DuesFollowLesson'
  BY <1>1 DEF Create, CreateRead, InsertHold, InsertCash, InsertRebooking, Creating, NextRow
<1>2. ASSUME NEW r \in Handlers, Pay(r) \/ Abandon(r)
      PROVE  DuesFollowLesson'
  BY <1>2 DEF Pay, ConfirmVerify, ConfirmCommit, StillOnHold, LiveHold, Abandon
<1>3. ASSUME NEW r \in Handlers, Withdraw(r)
      PROVE  DuesFollowLesson'
  <2>1. CASE LeaveCommit(r) \/ VehicleCommit(r)
    <3>1. UNCHANGED expense /\ \A b \in Bookings : status'[b] \in {"CANCELLED", status[b]}
      BY <2>1 DEF LeaveCommit, VehicleCommit
    <3> QED
      BY <3>1
  <2> QED
    BY <1>3, <2>1 DEF Withdraw, LeaveRead, VehicleRead
<1>4. ASSUME NEW r \in Handlers, Override(r)
      PROVE  DuesFollowLesson'
  BY <1>4 DEF Override, NoShowRead, NoShowCommit
<1>5. ASSUME NEW b \in Bookings, Desk(b) \/ Clock(b)
      PROVE  DuesFollowLesson'
  BY <1>5 DEF Desk, PayRemainder, Cancel, ManualComplete, Clock, HoldTimesOut, LessonEnds
<1>6. ASSUME NEW k \in Crons, Cron(k)
      PROVE  DuesFollowLesson'
  BY <1>6 DEF Cron, CronRead, CronProcess, CronComplete, CronNoShow, CronSkip, CronAbort,
              CronSettles
<1>7. ASSUME NEW i \in Instructors, PayDues(i)
      PROVE  DuesFollowLesson'
  BY <1>7 DEF PayDues, Outstanding
<1>8. CASE ExpireStaleHolds
  BY <1>8 DEF ExpireStaleHolds, Stale
<1>9. CASE UNCHANGED vars
  BY <1>9 DEF vars
<1> QED
  BY <1>1, <1>2, <1>3, <1>4, <1>5, <1>6, <1>7, <1>8, <1>9 DEF Next

(* A completed lesson is always owed for, and no other one that stands. *)
THEOREM DuesAlwaysFollow == Spec => []DuesFollowLesson
<1>1. Init => DuesFollowLesson
  BY DEF Init, DuesFollowLesson
<1> QED
  BY <1>1, DuesStep, CustodyInit, CustodyStep, PTL DEF Spec
=============================================================================
