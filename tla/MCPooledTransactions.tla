------------------------ MODULE MCPooledTransactions ------------------------
(* An instance of PooledTransactions for TLC. *)
EXTENDS PooledTransactions, TLC

CONSTANTS c1, c2, x1, w1, Ustaz

(* Two creations for one instructor, a cancellation and a withdrawal: with  *)
(* two connections the creations can hold them all.                         *)
MCCreations == {c1, c2}
MCCancellations == {x1}
MCWithdrawals == {w1}
MCResource == (c1 :> Ustaz) @@ (c2 :> Ustaz) @@ (x1 :> x1) @@ (w1 :> w1)
=============================================================================
