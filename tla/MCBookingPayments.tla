------------------------- MODULE MCBookingPayments -------------------------
(* Instances of BookingPayments for TLC. *)
EXTENDS BookingPayments, TLC

CONSTANTS Amal, Basel, Ustaz, T1, T2, MaxBooking

MCBookings == 1..MaxBooking
NoRows == {}
FirstUnpriced == {1}

MCStudents == {Amal, Basel}
AllAmal == [b \in MCBookings |-> Amal]
OnePerStudent == [b \in MCBookings |-> IF b = 1 THEN Amal ELSE Basel]
MCInstructors == {Ustaz}
MCTeacher == [b \in MCBookings |-> Ustaz]

(* A lesson costs 4 and its deposit 2; what the desk collects falls short   *)
(* of the deposit, meets it, or overpays the lesson.                        *)
MCPrices == {4}
MCCashAmounts == {1, 2, 5}
DeskDeposits == {1, 2}

(* T1 falls short of the deposit, T2 meets it. *)
TwoTxns == {T1, T2}
TwoTxnsAmount == [t \in TwoTxns |-> IF t = T1 THEN 1 ELSE 2]
OneTxn == {T2}
OneTxnAmount == [t \in OneTxn |-> 2]
NoTxns == {}
NoTxnsAmount == [t \in NoTxns |-> 0]

Symmetry == Permutations(Handlers)
=============================================================================
