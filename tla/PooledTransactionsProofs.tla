---------------------- MODULE PooledTransactionsProofs ----------------------
(* Theorems about PooledTransactions, for every number of requests, rows    *)
(* and connections.                                                         *)
EXTENDS PooledTransactions, FiniteSetTheorems, TLAPS

HoldersFit == Cardinality(Holders) <= PoolSize

LEMMA HoldersFinite == IsFiniteSet(Holders)
BY PooledAssumption, FS_Subset DEF Holders

(* Nobody but the one who begins, if anyone, joins the holders. *)
LEMMA FewerHolders ==
    ASSUME HoldersFit, Holders' \subseteq Holders
    PROVE  HoldersFit'
<1>1. Cardinality(Holders') <= Cardinality(Holders)
  BY HoldersFinite, FS_Subset
<1>2. Cardinality(Holders) \in Nat /\ Cardinality(Holders') \in Nat
  BY HoldersFinite, FS_Subset, FS_CardinalityType
<1> QED
  BY <1>1, <1>2, PooledAssumption DEF HoldersFit

LEMMA OneMoreHolder ==
    ASSUME NEW r \in Requests, ConnectionFree, Holders' = Holders \cup {r}
    PROVE  HoldersFit'
<1>1. Cardinality(Holders') \in {Cardinality(Holders), Cardinality(Holders) + 1}
  BY HoldersFinite, FS_AddElement
<1>2. Cardinality(Holders) \in Nat
  BY HoldersFinite, FS_CardinalityType
<1> QED
  BY <1>1, <1>2, PooledAssumption DEF HoldersFit, ConnectionFree

OneHolderPerRow ==
    \A r, q \in Requests : phase[r] \in HoldsRow /\ phase[q] \in HoldsRow
                              /\ Resource[r] = Resource[q] => r = q

Shape ==
    /\ phase \in [Requests -> Phases]
    /\ written \subseteq Requests
    /\ notice \in [Requests -> {"NONE", "PENDING", "SENT", "FAILED"}]
    /\ due \subseteq Requests
    /\ background \subseteq Withdrawals

LEMMA TypeParts == TypeOK <=> Shape /\ HoldersFit /\ OneHolderPerRow
BY DEF TypeOK, Shape, HoldersFit, OneHolderPerRow

(* A step that no request begins and none takes a row by. *)
LEMMA NoNewHolder ==
    ASSUME TypeOK, Shape',
           \A q \in Requests : phase'[q] \in InTransaction => phase[q] \in InTransaction,
           \A q \in Requests : phase'[q] \in HoldsRow => phase[q] \in HoldsRow
    PROVE  TypeOK'
<1>1. Holders' \subseteq Holders
  BY DEF Holders
<1> QED
  BY <1>1, FewerHolders, TypeParts DEF OneHolderPerRow, TypeOK, Shape, HoldersFit

LEMMA TypeInit == Init => TypeOK
<1> SUFFICES ASSUME Init PROVE TypeOK
  OBVIOUS
<1>1. Shape
  BY DEF Init, Shape, Phases
<1>2. Holders = {}
  BY DEF Init, Holders, InTransaction
<1>3. HoldersFit
  BY <1>2, FS_EmptySet, PooledAssumption DEF HoldersFit
<1>4. OneHolderPerRow
  BY DEF Init, OneHolderPerRow, HoldsRow, InTransaction
<1> QED
  BY <1>1, <1>3, <1>4, TypeParts

LEMMA TypeStep == TypeOK /\ [Next]_vars => TypeOK'
<1> SUFFICES ASSUME TypeOK, [Next]_vars PROVE TypeOK'
  OBVIOUS
<1>0. Shape /\ HoldersFit /\ OneHolderPerRow
  BY TypeParts
<1>1. ASSUME NEW r \in Requests, Begin(r) PROVE TypeOK'
  <2>1. Shape'
    BY <1>0, <1>1 DEF Begin, Step, Shape, Phases
  <2>2. Holders' = Holders \cup {r}
    BY <1>0, <1>1 DEF Begin, Step, Holders, Shape, InTransaction
  <2>3. HoldersFit'
    BY <1>1, <2>2, OneMoreHolder DEF Begin
  <2>4. OneHolderPerRow'
    BY <1>0, <1>1 DEF Begin, Step, OneHolderPerRow, Shape, HoldsRow, InTransaction
  <2> QED
    BY <2>1, <2>3, <2>4 DEF TypeOK, Shape, HoldersFit, OneHolderPerRow
<1>2. ASSUME NEW r \in Requests, LockRow(r) PROVE TypeOK'
  <2>1. Shape'
    BY <1>0, <1>2 DEF LockRow, Step, Shape, Phases
  <2>2. Holders' \subseteq Holders
    BY <1>0, <1>2 DEF LockRow, Step, Holders, Shape, InTransaction
  <2>3. HoldersFit'
    BY <1>0, <2>2, FewerHolders
  <2>4. OneHolderPerRow'
    BY <1>0, <1>2 DEF LockRow, RowFree, Step, OneHolderPerRow, Shape
  <2> QED
    BY <2>1, <2>3, <2>4 DEF TypeOK, Shape, HoldersFit, OneHolderPerRow
<1>3. ASSUME NEW r \in Requests,
             ReadPrice(r) \/ Insert(r) \/ AnnounceCreation(r)
      PROVE  TypeOK'
  <2>1. Shape'
    BY <1>0, <1>3 DEF ReadPrice, Insert, AnnounceCreation, StoreNotice, Step,
                      Shape, Phases
  <2>2. \A q \in Requests : phase'[q] \in InTransaction => phase[q] \in InTransaction
    BY <1>0, <1>3 DEF ReadPrice, Insert, AnnounceCreation, StoreNotice, Step,
                      Shape, InTransaction
  <2>3. \A q \in Requests : phase'[q] \in HoldsRow => phase[q] \in HoldsRow
    BY <1>0, <1>3 DEF ReadPrice, Insert, AnnounceCreation, StoreNotice, Step,
                      Shape, HoldsRow, InTransaction
  <2> QED
    BY <2>1, <2>2, <2>3, NoNewHolder
<1>4. ASSUME NEW r \in Requests,
             \/ CommitCreation(r) \/ CommitCancellation(r) \/ AnnounceCancellation(r)
             \/ CommitWithdrawal(r)
      PROVE  TypeOK'
  <2>1. Shape'
    BY <1>0, <1>4 DEF CommitCreation, CommitCancellation, AnnounceCancellation,
                      CommitWithdrawal, StoreNotice, Step, Shape, Phases
  <2>2. \A q \in Requests : phase'[q] \in InTransaction => phase[q] \in InTransaction
    BY <1>0, <1>4 DEF CommitCreation, CommitCancellation, AnnounceCancellation,
                      CommitWithdrawal, StoreNotice, Step, Shape, InTransaction
  <2>3. \A q \in Requests : phase'[q] \in HoldsRow => phase[q] \in HoldsRow
    BY <1>0, <1>4 DEF CommitCreation, CommitCancellation, AnnounceCancellation,
                      CommitWithdrawal, StoreNotice, Step, Shape, HoldsRow, InTransaction
  <2> QED
    BY <2>1, <2>2, <2>3, NoNewHolder
<1>5. ASSUME NEW r \in Requests, Fail(r) PROVE TypeOK'
  <2>1. Shape'
    BY <1>0, <1>5 DEF Fail, Shape, Phases
  <2>2. \A q \in Requests : phase'[q] \in InTransaction => phase[q] \in InTransaction
    BY <1>0, <1>5 DEF Fail, Shape, InTransaction
  <2>3. \A q \in Requests : phase'[q] \in HoldsRow => phase[q] \in HoldsRow
    BY <1>0, <1>5 DEF Fail, Shape, HoldsRow, InTransaction
  <2> QED
    BY <2>1, <2>2, <2>3, NoNewHolder
<1>6. ASSUME NEW r \in Requests, NEW result \in {"SENT", "FAILED"}, Dispatch(r, result)
      PROVE  TypeOK'
  <2>1. Shape'
    BY <1>0, <1>6 DEF Dispatch, Shape
  <2> QED
    BY <1>6, <2>1, NoNewHolder DEF Dispatch
<1>7. ASSUME Crash PROVE TypeOK'
  <2>1. Shape'
    BY <1>0, <1>7 DEF Crash, Shape, Phases
  <2>2. \A q \in Requests : phase'[q] \in InTransaction => phase[q] \in InTransaction
    BY <1>0, <1>7 DEF Crash, Shape, InTransaction
  <2>3. \A q \in Requests : phase'[q] \in HoldsRow => phase[q] \in HoldsRow
    BY <1>0, <1>7 DEF Crash, Shape, HoldsRow, InTransaction
  <2> QED
    BY <2>1, <2>2, <2>3, NoNewHolder
<1>8. ASSUME NEW r \in Withdrawals, SendBulk(r) \/ SwallowError(r) PROVE TypeOK'
  <2>1. Shape'
    BY <1>0, <1>8 DEF SendBulk, SwallowError, Shape, Requests
  <2> QED
    BY <1>8, <2>1, NoNewHolder DEF SendBulk, SwallowError
<1>9. CASE UNCHANGED vars
  BY <1>0, <1>9, NoNewHolder DEF vars, Shape
<1> QED
  BY <1>1, <1>2, <1>3, <1>4, <1>5, <1>6, <1>7, <1>8, <1>9 DEF Next, Proceed

(* Whatever transactions do, crash or fail, the pool is never overdrawn and *)
(* no two of them hold the same row.                                        *)
THEOREM PoolNeverOverdrawn == Spec => []TypeOK
BY TypeInit, TypeStep, PTL DEF Spec

-----------------------------------------------------------------------------
(* What makes BookingsAreAnnounced inductive: a creation that may commit    *)
(* has stored its notice, one that has committed is over, and what waits to *)
(* be announced afterwards has been committed.                              *)
AnnouncedBefore ==
    /\ \A r \in Requests : phase[r] = "announced" => notice[r] # "NONE" /\ r \in Creations
    /\ \A r \in Requests : r \in written \cap Creations => phase[r] \in Over
    /\ \A r \in Requests : phase[r] = "inserted" => r \in Creations
    /\ \A r \in Requests : phase[r] = "committed" => r \in written
    /\ background \subseteq written

AnnouncedInv == Shape /\ AnnouncedBefore /\ BookingsAreAnnounced

LEMMA AnnouncedInit == Init => AnnouncedInv
BY DEF Init, AnnouncedInv, AnnouncedBefore, BookingsAreAnnounced, Shape, Phases

LEMMA AnnouncedStep == AnnouncedInv /\ [Next]_vars => AnnouncedInv'
<1> SUFFICES ASSUME AnnouncedInv, [Next]_vars PROVE AnnouncedInv'
  OBVIOUS
<1> USE DEF AnnouncedInv, AnnouncedBefore, BookingsAreAnnounced, Shape, Phases
<1>1. ASSUME NEW r \in Requests,
             Begin(r) \/ LockRow(r) \/ ReadPrice(r) \/ Insert(r)
      PROVE  AnnouncedInv'
  BY <1>1 DEF Begin, LockRow, ReadPrice, Insert, Step, Over
<1>2. ASSUME NEW r \in Requests, AnnounceCreation(r) PROVE AnnouncedInv'
  BY <1>2 DEF AnnounceCreation, StoreNotice, Step, Over
<1>3. ASSUME NEW r \in Requests, CommitCreation(r) PROVE AnnouncedInv'
  BY <1>3 DEF CommitCreation, ReadyToCommit, Step, Over
<1>4. ASSUME NEW r \in Requests, CommitCancellation(r) PROVE AnnouncedInv'
  BY <1>4, PooledAssumption DEF CommitCancellation, Step, Over
<1>5. ASSUME NEW r \in Requests, AnnounceCancellation(r) PROVE AnnouncedInv'
  BY <1>5 DEF AnnounceCancellation, StoreNotice, Step, Over
<1>6. ASSUME NEW r \in Requests, Fail(r) PROVE AnnouncedInv'
  BY <1>6 DEF Fail, InTransaction, Over
<1>7. ASSUME NEW r \in Requests, NEW result \in {"SENT", "FAILED"}, Dispatch(r, result)
      PROVE  AnnouncedInv'
  BY <1>7 DEF Dispatch
<1>8. CASE Crash
  BY <1>8 DEF Crash, Over
<1>9. ASSUME NEW r \in Requests, CommitWithdrawal(r) PROVE AnnouncedInv'
  BY <1>9, PooledAssumption DEF CommitWithdrawal, Step, Over
<1>10. ASSUME NEW r \in Withdrawals, SendBulk(r) \/ SwallowError(r) PROVE AnnouncedInv'
  BY <1>10, PooledAssumption DEF SendBulk, SwallowError, Requests
<1>11. CASE UNCHANGED vars
  BY <1>11 DEF vars
<1> QED
  BY <1>1, <1>2, <1>3, <1>4, <1>5, <1>6, <1>7, <1>8, <1>9, <1>10, <1>11 DEF Next, Proceed

(* No booking is committed before its notice is stored, no cancellation is  *)
(* announced before it is committed, and a notice waits for its dispatch    *)
(* only while it is PENDING: with any number of requests, failures and      *)
(* crashes.                                                                 *)
THEOREM BookingsAlwaysAnnounced == Spec => []BookingsAreAnnounced
<1>1. AnnouncedInv => BookingsAreAnnounced
  BY DEF AnnouncedInv
<1> QED
  BY AnnouncedInit, AnnouncedStep, <1>1, PTL DEF Spec
=============================================================================
