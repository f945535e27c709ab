--------------------------- MODULE MCAuthAccounts ---------------------------
(* An instance of AuthAccounts for TLC. *)
EXTENDS AuthAccounts, TLC

CONSTANTS Amal

OnePhone == {Amal}
Nobody == {}

Symmetry == Permutations(Devices)
=============================================================================
