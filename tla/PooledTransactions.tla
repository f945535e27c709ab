------------------------- MODULE PooledTransactions -------------------------
(***************************************************************************)
(* What a request costs in database connections, and what it announces     *)
(* (booking.service.ts, notifications.service.ts).                         *)
(*                                                                         *)
(* dataSource.transaction() holds a connection of the pool from BEGIN to   *)
(* the end.  Settings, prices and notices go through repositories of their *)
(* own: each such statement takes another connection for a moment.  The    *)
(* creation of a booking issues them inside its transaction, while it      *)
(* holds the instructor's row; a cancellation (a leave's too) issues its   *)
(* notice after the commit, and the withdrawal of a vehicle leaves its     *)
(* notices to the background and drops their errors.  Waiting for a        *)
(* connection or a row has no timeout.                                     *)
(***************************************************************************)
EXTENDS Integers, FiniteSets

CONSTANTS
    Creations,     \* requests that create a booking that is paid at once
    Cancellations, \* requests that cancel one
    Withdrawals,   \* requests that withdraw a vehicle and cancel its lessons
    Resource,      \* Resource[r]: the row a request locks (instructor, booking, vehicle)
    PoolSize       \* connections of the pool

Requests == Creations \cup Cancellations \cup Withdrawals

ASSUME PooledAssumption ==
    /\ Creations \cap (Cancellations \cup Withdrawals) = {}
    /\ Cancellations \cap Withdrawals = {}
    /\ IsFiniteSet(Requests)
    /\ PoolSize \in Nat \ {0}

VARIABLES
    phase,        \* how far a request is
    written,      \* requests whose transaction has committed
    notice,       \* the notifications row of a request
    due,          \* notices whose dispatch is queued (setImmediate)
    background    \* withdrawals whose notices are still to be stored

vars == <<phase, written, notice, due, background>>

Phases == {"new", "begun", "locked", "priced", "inserted", "announced",
           "committed", "done", "failed"}
InTransaction == {"begun", "locked", "priced", "inserted", "announced"}

(* Where a request holds its row; mutant: a failure does not give it back. *)
HoldsRow_Leaked == (InTransaction \ {"begun"}) \cup {"failed"}
HoldsRow == InTransaction \ {"begun"}

Over == {"done", "failed"}

Holders == {r \in Requests : phase[r] \in InTransaction}

ConnectionFree == Cardinality(Holders) < PoolSize

(* Mutant: SELECT without FOR UPDATE. *)
RowFree_NoForUpdate(r) == r \in Requests
RowFree(r) == \A q \in Requests : phase[q] \in HoldsRow => Resource[q] # Resource[r]

-----------------------------------------------------------------------------
Init ==
    /\ phase = [r \in Requests |-> "new"]
    /\ written = {}
    /\ notice = [r \in Requests |-> "NONE"]
    /\ due = {}
    /\ background = {}

Step(r, from, to) == phase[r] = from /\ phase' = [phase EXCEPT ![r] = to]

Begin(r) ==
    /\ ConnectionFree
    /\ Step(r, "new", "begun")
    /\ UNCHANGED <<written, notice, due, background>>

(* SELECT ... FOR UPDATE, or the UPDATE of a withdrawn vehicle. *)
LockRow(r) ==
    /\ RowFree(r)
    /\ Step(r, "begun", "locked")
    /\ UNCHANGED <<written, notice, due, background>>

(* The price and the settings, over a second connection. *)
ReadPrice(r) ==
    /\ r \in Creations
    /\ ConnectionFree
    /\ Step(r, "locked", "priced")
    /\ UNCHANGED <<written, notice, due, background>>

Insert(r) ==
    /\ r \in Creations
    /\ Step(r, "priced", "inserted")
    /\ UNCHANGED <<written, notice, due, background>>

(* sendAsync: the notice is stored, over a connection of its own, before    *)
(* the caller goes on; its dispatch is left to the event loop.              *)
StoreNotice(r, from, to) ==
    /\ ConnectionFree
    /\ Step(r, from, to)
    /\ notice' = [notice EXCEPT ![r] = "PENDING"]
    /\ due' = due \cup {r}
    /\ UNCHANGED <<written, background>>

AnnounceCreation(r) == r \in Creations /\ StoreNotice(r, "inserted", "announced")

(* A creation announces itself before it commits; mutant: it need not. *)
ReadyToCommit_BeforeNotice == "inserted"
ReadyToCommit == "announced"

CommitCreation(r) ==
    /\ r \in Creations
    /\ Step(r, ReadyToCommit, "done")
    /\ written' = written \cup {r}
    /\ UNCHANGED <<notice, due, background>>

CommitCancellation(r) ==
    /\ r \in Cancellations
    /\ Step(r, "locked", "committed")
    /\ written' = written \cup {r}
    /\ UNCHANGED <<notice, due, background>>

AnnounceCancellation(r) == r \in Cancellations /\ StoreNotice(r, "committed", "done")

(* archiveVehicle and sendToMaintenance answer once they have committed ... *)
CommitWithdrawal(r) ==
    /\ r \in Withdrawals
    /\ Step(r, "locked", "done")
    /\ written' = written \cup {r}
    /\ background' = background \cup {r}
    /\ UNCHANGED <<notice, due>>

(* ... and sendBulkAsync stores the notices after that, each on its own ... *)
SendBulk(r) ==
    /\ r \in background
    /\ ConnectionFree
    /\ notice' = [notice EXCEPT ![r] = "PENDING"]
    /\ due' = due \cup {r}
    /\ background' = background \ {r}
    /\ UNCHANGED <<phase, written>>

(* ... unless it fails, of which nobody is told. *)
SwallowError(r) ==
    /\ r \in background
    /\ background' = background \ {r}
    /\ UNCHANGED <<phase, written, notice, due>>

(* A request is refused or fails.  What its transaction wrote is rolled     *)
(* back; what it stored over other connections, or committed, stays.        *)
Fail(r) ==
    /\ phase[r] \in InTransaction \cup {"committed"}
    /\ phase' = [phase EXCEPT ![r] = "failed"]
    /\ UNCHANGED <<written, notice, due, background>>

(* dispatch: the in-app notice is sent by a status change, or marked FAILED *)
(* when that fails.                                                         *)
Dispatch(r, result) ==
    /\ r \in due
    /\ ConnectionFree
    /\ result \in {"SENT", "FAILED"}
    /\ notice' = [notice EXCEPT ![r] = result]
    /\ due' = due \ {r}
    /\ UNCHANGED <<phase, written, background>>

(* The process dies: the requests in flight and what it had queued or left  *)
(* to the background are gone.                                              *)
Crash ==
    /\ phase' = [r \in Requests |-> IF phase[r] \in {"new"} \cup Over THEN phase[r]
                                    ELSE "failed"]
    /\ due' = {}
    /\ background' = {}
    /\ UNCHANGED <<written, notice>>

Proceed(r) ==
    \/ LockRow(r) \/ ReadPrice(r) \/ Insert(r)
    \/ AnnounceCreation(r) \/ CommitCreation(r)
    \/ CommitCancellation(r) \/ AnnounceCancellation(r)
    \/ CommitWithdrawal(r)

Next ==
    \/ \E r \in Requests : Begin(r) \/ Proceed(r) \/ Fail(r)
    \/ \E r \in Withdrawals : SendBulk(r) \/ SwallowError(r)
    \/ \E r \in Requests, result \in {"SENT", "FAILED"} : Dispatch(r, result)
    \/ Crash

Spec == Init /\ [][Next]_vars

(* Nothing makes a request stop: it takes the connection and the row it     *)
(* waits for even if others had them in between (both queues are FIFO).     *)
FairSpec ==
    /\ Spec
    /\ \A r \in Requests : SF_vars(Proceed(r))

-----------------------------------------------------------------------------
(* The pool is never overdrawn, and no two transactions hold the same row.  *)
TypeOK ==
    /\ phase \in [Requests -> Phases]
    /\ written \subseteq Requests
    /\ notice \in [Requests -> {"NONE", "PENDING", "SENT", "FAILED"}]
    /\ due \subseteq Requests
    /\ background \subseteq Withdrawals
    /\ Cardinality(Holders) <= PoolSize
    /\ \A r, q \in Requests : phase[r] \in HoldsRow /\ phase[q] \in HoldsRow
                              /\ Resource[r] = Resource[q] => r = q

(* No booking is created in silence: its notice is stored before it is      *)
(* committed, and a crash or a failed notice takes the booking with it.     *)
(* And no student is told of a cancellation that did not happen: its notice *)
(* is stored after the commit.  The converses do not hold: the notice of a  *)
(* creation that rolls back stays, and a cancellation may stay unannounced. *)
BookingsAreAnnounced ==
    /\ \A r \in written \cap Creations : notice[r] # "NONE"
    /\ \A r \in Requests \ Creations : notice[r] # "NONE" => r \in written
    /\ \A r \in due : notice[r] = "PENDING"

(* The pool has run dry: every connection is held by a transaction. *)
RunDry == ~ConnectionFree

(* A request that has begun ends, whatever locks and connections others     *)
(* hold in the meantime, unless the pool runs dry for good: when the        *)
(* transactions that hold the connections all wait for a second one, or for *)
(* the row of one that does, nobody moves again.                            *)
RequestsFinish ==
    \A r \in Requests : phase[r] # "new" ~> (phase[r] \in Over \/ []RunDry)
=============================================================================
